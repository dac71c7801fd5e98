--------------------------- MODULE SlashingProofs ---------------------------
(***************************************************************************)
(* What the slashing manager guarantees for every set of validators, every  *)
(* penalty and every jail duration.                                         *)
(***************************************************************************)
EXTENDS Slashing, TLAPS

Terms == Nat \cup {NotJailed}

BooksWith(spent) ==
  [jailed : [Validators -> Terms], status : [Validators -> Statuses], processed : {spent}]

IsBook(k) == k \in BooksWith(k.processed)

Written(k, v, r, s) == [k EXCEPT !.jailed[v] = r, !.status[v] = s]

\* Writing the entries of one validator into a book gives a book.
LEMMA WrittenBook ==
  ASSUME NEW k, IsBook(k), NEW v \in Validators, NEW r \in Terms, NEW s \in Statuses
  PROVE  LET n == Written(k, v, r, s)
         IN  /\ IsBook(n)
             /\ n.processed = k.processed
             /\ \A w \in Validators : n.jailed[w] = IF w = v THEN r ELSE k.jailed[w]
<1> DEFINE n == Written(k, v, r, s)
<1>1. n \in BooksWith(k.processed)
  BY DEF IsBook, BooksWith, Written
<1>2. n.jailed = [k.jailed EXCEPT ![v] = r] /\ k.jailed \in [Validators -> Terms]
  BY DEF IsBook, BooksWith, Written
<1>3. \A w \in Validators : n.jailed[w] = IF w = v THEN r ELSE k.jailed[w]
  BY <1>2
<1> QED BY <1>1, <1>3 DEF IsBook, BooksWith

\* Setting a status and marking evidence keep a book a book.
LEMMA StatusBook ==
  ASSUME NEW k, IsBook(k), NEW v \in Validators, NEW s \in Statuses
  PROVE  LET n == [k EXCEPT !.status[v] = s]
         IN  IsBook(n) /\ n.processed = k.processed /\ n.jailed = k.jailed
<1> DEFINE n == [k EXCEPT !.status[v] = s]
<1>1. n \in BooksWith(k.processed) /\ n.jailed = k.jailed
  BY DEF IsBook, BooksWith
<1> QED BY <1>1 DEF IsBook, BooksWith

\* Marking evidence as processed keeps a book well formed and touches no jail entry.
LEMMA MarkedBook ==
  ASSUME NEW k, IsBook(k), NEW h
  PROVE  LET n == [k EXCEPT !.processed = @ \cup {h}]
         IN  IsBook(n) /\ n.processed = k.processed \cup {h} /\ n.jailed = k.jailed
<1> DEFINE n == [k EXCEPT !.processed = @ \cup {h}]
<1>1. n \in BooksWith(k.processed \cup {h}) /\ n.jailed = k.jailed
  BY DEF IsBook, BooksWith
<1> QED BY <1>1 DEF IsBook, BooksWith

\* applySlashing does not jail for downtime or invalid proposals by itself.
LEMMA NotJailable == "downtime" \notin Jailable /\ "invalid" \notin Jailable
  BY DEF Jailable

\* isValidatorJailed deletes at most the entry of v, and only when its term is over.
LEMMA CheckedBook ==
  ASSUME NEW k, IsBook(k), NEW v \in Validators
  PROVE  /\ IsBook(Checked(k, v))
         /\ Checked(k, v).processed = k.processed
         /\ \A w \in Validators : Checked(k, v).jailed[w] =
              IF w = v /\ Expired(v) THEN NotJailed ELSE k.jailed[w]
<1> DEFINE n == Written(k, v, NotJailed, "Active")
<1>1. "Active" \in Statuses /\ NotJailed \in Terms
  BY DEF Statuses, Terms
<1>2. /\ IsBook(n)
      /\ n.processed = k.processed
      /\ \A w \in Validators : n.jailed[w] = IF w = v THEN NotJailed ELSE k.jailed[w]
  BY <1>1, WrittenBook
<1>3. Checked(k, v) = IF Expired(v) THEN n ELSE k
  BY DEF Checked, Written
<1> HIDE DEF n
<1> QED BY <1>2, <1>3

\* jailValidator writes the term of v, and nobody else's.
LEMMA JailedBook ==
  ASSUME NEW k, IsBook(k), NEW v \in Validators, now \in Nat
  PROVE  /\ IsBook(JailValidator(k, v))
         /\ JailValidator(k, v).processed = k.processed
         /\ \A w \in Validators : JailValidator(k, v).jailed[w] =
              IF w = v THEN now + JailDuration ELSE k.jailed[w]
<1> DEFINE end == now + JailDuration
<1>1. end \in Terms
  BY SlashingConstants DEF SlashingConstants, Terms
<1> HIDE DEF end
<1> DEFINE n == Written(k, v, end, "Jailed")
<1>2. "Jailed" \in Statuses
  BY DEF Statuses
<1>3. /\ IsBook(n)
      /\ n.processed = k.processed
      /\ \A w \in Validators : n.jailed[w] = IF w = v THEN end ELSE k.jailed[w]
  BY <1>1, <1>2, WrittenBook
<1>4. JailValidator(k, v) = n
  BY DEF JailValidator, Written, end
<1> HIDE DEF n
<1> QED BY <1>3, <1>4 DEF end

\* forceUnstake keeps a book well formed and touches neither jail entries nor evidence.
LEMMA UnstakedBook ==
  ASSUME NEW k, IsBook(k), NEW v \in Validators
  PROVE  /\ IsBook(ForceUnstake(k, v))
         /\ ForceUnstake(k, v).processed = k.processed
         /\ ForceUnstake(k, v).jailed = k.jailed
<1>1. "Slashed" \in Statuses
  BY DEF Statuses
<1> QED BY <1>1, StatusBook DEF ForceUnstake

\* applySlashing spends exactly the evidence h and jails v exactly when the condition c says so.
LEMMA SlashedBook ==
  ASSUME NEW k, IsBook(k), NEW v \in Validators, now \in Nat,
         NEW c, NEW h, NEW p
  PROVE  /\ IsBook(ApplySlashing(k, v, c, h, p))
         /\ ApplySlashing(k, v, c, h, p).processed = k.processed \cup {h}
         /\ \A w \in Validators : ApplySlashing(k, v, c, h, p).jailed[w] =
              IF c \in Jailable /\ w = v THEN now + JailDuration ELSE k.jailed[w]
<1> DEFINE marked == [k EXCEPT !.processed = @ \cup {h}]
           held   == IF c \in Jailable THEN JailValidator(marked, v) ELSE marked
<1>1. IsBook(marked) /\ marked.processed = k.processed \cup {h} /\ marked.jailed = k.jailed
  BY MarkedBook
<1>2. /\ IsBook(held)
      /\ held.processed = k.processed \cup {h}
      /\ \A w \in Validators : held.jailed[w] =
            IF c \in Jailable /\ w = v THEN now + JailDuration ELSE k.jailed[w]
  <2> HIDE DEF marked
  <2> QED BY <1>1, JailedBook
<1> HIDE DEF held
<1>3. /\ IsBook([held EXCEPT !.status[v] = "Slashed"])
      /\ [held EXCEPT !.status[v] = "Slashed"].processed = held.processed
      /\ [held EXCEPT !.status[v] = "Slashed"].jailed = held.jailed
  <2>1. "Slashed" \in Statuses
    BY DEF Statuses
  <2> QED BY <1>2, <2>1, StatusBook
<1> QED BY <1>2, <1>3 DEF ApplySlashing, held

-----------------------------------------------------------------------------
Kept(k) ==
  \A v \in Validators :
     now <= sentence[v] => k.jailed[v] \in Nat /\ sentence[v] <= k.jailed[v]

\* The inductive invariant: the two books agree, and an unserved sentence is on them.
JailInv ==
  /\ now \in Nat
  /\ IsBook(mem)
  /\ mem = disk
  /\ sentence \in [Validators -> Int]
  /\ \A x \in verdicts : x.who \in Validators /\ x.kind \in Jailable
  /\ Kept(mem)

\* isValidatorJailed never deletes a term that is still to be served.
LEMMA CheckedKeeps ==
  ASSUME JailInv, NEW v \in Validators
  PROVE  IsBook(Checked(mem, v)) /\ Kept(Checked(mem, v))
<1>1. /\ IsBook(Checked(mem, v))
      /\ \A w \in Validators : Checked(mem, v).jailed[w] =
           IF w = v /\ Expired(v) THEN NotJailed ELSE mem.jailed[w]
  BY CheckedBook DEF JailInv
<1>2. ASSUME NEW w \in Validators, now <= sentence[w]
      PROVE  ~Expired(w)
  BY <1>2 DEF JailInv, Kept, Expired
<1> QED BY <1>1, <1>2 DEF JailInv, Kept

\* Jailing v and recording the sentence go together.
LEMMA JailedKeeps ==
  ASSUME NEW k, IsBook(k), Kept(k), now \in Nat, sentence \in [Validators -> Int],
         NEW v \in Validators
  PROVE  \A w \in Validators :
            LET s == [sentence EXCEPT ![v] = now + JailDuration]
            IN  now <= s[w] => /\ JailValidator(k, v).jailed[w] \in Nat
                               /\ s[w] <= JailValidator(k, v).jailed[w]
<1>1. now + JailDuration \in Nat
  BY SlashingConstants DEF SlashingConstants
<1>2. \A w \in Validators : JailValidator(k, v).jailed[w] =
        IF w = v THEN now + JailDuration ELSE k.jailed[w]
  BY JailedBook
<1> QED BY <1>1, <1>2 DEF Kept

\* A slashing manager over an empty store has sentenced nobody.
LEMMA JailInvInit ==
  ASSUME Init
  PROVE  JailInv
<1>1. EmptyBook \in BooksWith({})
  BY DEF EmptyBook, BooksWith, Terms, Statuses
<1>2. EmptyBook.processed = {}
  BY DEF EmptyBook
<1>3. \A v \in Validators : ~(0 <= -1)
  OBVIOUS
<1> QED BY <1>1, <1>2, <1>3 DEF Init, JailInv, IsBook, Kept

\* slashValidator leaves the terms as its caller wrote them, and forgets no evidence.
LEMMA MissedBook ==
  ASSUME NEW v \in Validators, NEW m, NEW d, NEW p, NEW r, IsBook(m), IsBook(d),
         now \in Nat, SlashForMisses(v, m, d, p, r)
  PROVE  /\ IsBook(mem') /\ IsBook(disk')
         /\ \A w \in Validators : mem'.jailed[w] = m.jailed[w]
         /\ m.processed \subseteq mem'.processed
         /\ d.processed \subseteq disk'.processed
         /\ m.processed = d.processed => mem'.processed = disk'.processed
         /\ m = d => mem' = disk'
<1>1. CASE mem' = m /\ disk' = d
  BY <1>1
<1>2. CASE /\ mem' = ApplySlashing(m, v, "downtime", DowntimeHash, p)
           /\ disk' = ApplySlashing(d, v, "downtime", DowntimeHash, p)
  <2> DEFINE M == ApplySlashing(m, v, "downtime", DowntimeHash, p)
             D == ApplySlashing(d, v, "downtime", DowntimeHash, p)
  <2>1. /\ IsBook(M) /\ M.processed = m.processed \cup {DowntimeHash}
        /\ \A w \in Validators : M.jailed[w] = m.jailed[w]
    BY SlashedBook, NotJailable
  <2>2. IsBook(D) /\ D.processed = d.processed \cup {DowntimeHash}
    BY SlashedBook, NotJailable
  <2>3. m = d => M = D
    OBVIOUS
  <2> HIDE DEF M, D
  <2> QED BY <1>2, <2>1, <2>2, <2>3 DEF M, D
<1> QED BY <1>1, <1>2 DEF SlashForMisses

\* Every step keeps the invariant, unless dev mode deletes jail entries.
LEMMA JailInvNext ==
  ASSUME JailInv, [Next]_vars, DevMode = FALSE
  PROVE  JailInv'
<1> USE DEF JailInv
<1>1. ASSUME NEW v \in Validators, NEW s, NEW b, NEW t, ProcessAttestation(v, s, b, t)
      PROVE  JailInv'
  <2>1. /\ mem' = Checked(mem, v) /\ disk' = Checked(disk, v)
        /\ now' = now /\ sentence' = sentence
    BY <1>1 DEF ProcessAttestation, history
  <2>2. \/ verdicts' = verdicts
        \/ \E one, two : verdicts' = verdicts \cup
             {[kind |-> "double", who |-> v, one |-> one, two |-> two]}
    BY <1>1, Zenon DEF ProcessAttestation
  <2>3. \A x \in verdicts' : x \in verdicts \/ (x.who = v /\ x.kind = "double")
    BY <2>2
  <2> QED BY <2>1, <2>3, CheckedKeeps DEF Kept, Jailable
<1>2. ASSUME NEW v \in Validators, NEW q, ProcessVote(v, q)
      PROVE  JailInv'
  <2>1. /\ mem' = Checked(mem, v) /\ disk' = Checked(disk, v)
        /\ now' = now /\ sentence' = sentence
    BY <1>2 DEF ProcessVote, history
  <2>2. \/ verdicts' = verdicts
        \/ \E one, two : verdicts' = verdicts \cup
             {[kind |-> "surround", who |-> v, one |-> one, two |-> two]}
    BY <1>2, Zenon DEF ProcessVote
  <2>3. \A x \in verdicts' : x \in verdicts \/ (x.who = v /\ x.kind = "surround")
    BY <2>2
  <2> QED BY <2>1, <2>3, CheckedKeeps DEF Kept, Jailable
<1>3. ASSUME NEW x \in verdicts, ApplyVerdict(x)
      PROVE  JailInv'
  <2> DEFINE h == VerdictHash(x)
             n == ApplySlashing(mem, x.who, x.kind, h, VerdictPenalty(x))
  <2>1. now' = now /\ verdicts' \subseteq verdicts
    BY <1>3 DEF ApplyVerdict
  <2>2. CASE UNCHANGED <<mem, disk, sentence>>
    BY <2>1, <2>2 DEF Kept
  <2>3. CASE mem' = n /\ disk' = n /\ Sentenced(x.who)
    <3>1. /\ IsBook(n)
          /\ \A w \in Validators : n.jailed[w] =
               IF w = x.who THEN now + JailDuration ELSE mem.jailed[w]
      BY SlashedBook
    <3>2. now + JailDuration \in Nat
      BY SlashingConstants DEF SlashingConstants
    <3> HIDE DEF n
    <3> QED BY <2>1, <2>3, <3>1, <3>2 DEF Kept, Sentenced
  <2> QED BY <1>3, <2>2, <2>3 DEF ApplyVerdict, history
<1>4. ASSUME NEW v \in Validators, NEW e, ReportInvalidProposal(v, e)
      PROVE  JailInv'
  <2> DEFINE n == ApplySlashing(mem, v, "invalid", <<"invalid", v, e>>, InvalidProposalPenalty)
  <2>1. /\ mem' = n /\ disk' = n
        /\ now' = now /\ sentence' = sentence /\ verdicts' = verdicts
    BY <1>4 DEF ReportInvalidProposal, memory
  <2>2. IsBook(n) /\ \A w \in Validators : n.jailed[w] = mem.jailed[w]
    BY SlashedBook, NotJailable
  <2> HIDE DEF n
  <2> QED BY <2>1, <2>2 DEF Kept
<1>5. ASSUME NEW v \in Validators, ReportBlockWithholding(v)
      PROVE  JailInv'
  <2> DEFINE c == Checked(mem, v)
             a == ApplySlashing(c, v, "downtime", DowntimeHash, JailPenalty)
  <2>1. now' = now /\ verdicts' = verdicts
    BY <1>5 DEF ReportBlockWithholding
  <2>2. IsBook(c) /\ Kept(c)
    BY CheckedKeeps
  <2>3. CASE mem' = c /\ disk' = c /\ sentence' = sentence
    BY <2>1, <2>2, <2>3 DEF Kept
  <2>4. CASE mem' = JailValidator(a, v) /\ disk' = JailValidator(a, v) /\ Sentenced(v)
    <3> HIDE DEF c
    <3>1. IsBook(a) /\ \A w \in Validators : a.jailed[w] = c.jailed[w]
      BY <2>2, SlashedBook, NotJailable
    <3> HIDE DEF a
    <3>2. Kept(a)
      BY <2>2, <3>1 DEF Kept
    <3>3. IsBook(JailValidator(a, v))
      BY <3>1, JailedBook
    <3>4. Kept(mem)'
      BY <2>1, <2>4, <3>1, <3>2, JailedKeeps DEF Kept, Sentenced
    <3>5. sentence' \in [Validators -> Int]
      BY <2>4, SlashingConstants DEF Sentenced, SlashingConstants
    <3> QED BY <2>1, <2>4, <3>3, <3>4, <3>5
  <2> QED BY <1>5, <2>3, <2>4 DEF ReportBlockWithholding
<1>6. ASSUME NEW v \in Validators, ReportMissedAttestation(v)
      PROVE  JailInv'
  <2>1. now' = now /\ verdicts' = verdicts
    BY <1>6 DEF ReportMissedAttestation
  <2>2. ASSUME NEW m, IsBook(m), NEW p, NEW r, SlashForMisses(v, m, m, p, r)
        PROVE  /\ IsBook(mem') /\ mem' = disk'
               /\ \A w \in Validators : mem'.jailed[w] = m.jailed[w]
    BY <2>2, MissedBook
  <2>3. ASSUME NEW p, NEW r, sentence' = sentence,
               SlashForMisses(v, ForceUnstake(mem, v), ForceUnstake(mem, v), p, r)
        PROVE  JailInv'
    <3>1. IsBook(ForceUnstake(mem, v)) /\ ForceUnstake(mem, v).jailed = mem.jailed
      BY UnstakedBook
    <3> QED BY <2>1, <2>2, <2>3, <3>1 DEF Kept
  <2>4. ASSUME NEW p, NEW r, sentence' = sentence, SlashForMisses(v, mem, mem, p, r)
        PROVE  JailInv'
    BY <2>1, <2>2, <2>4 DEF Kept
  <2>5. ASSUME NEW p, NEW r, Sentenced(v),
               SlashForMisses(v, JailValidator(mem, v), JailValidator(mem, v), p, r)
        PROVE  JailInv'
    <3>1. IsBook(JailValidator(mem, v))
      BY JailedBook
    <3>2. /\ IsBook(mem') /\ mem' = disk'
          /\ \A w \in Validators : mem'.jailed[w] = JailValidator(mem, v).jailed[w]
      BY <2>2, <2>5, <3>1
    <3>3. Kept(mem)'
      BY <2>1, <2>5, <3>2, JailedKeeps DEF Kept, Sentenced
    <3>4. sentence' \in [Validators -> Int]
      BY <2>5, SlashingConstants DEF Sentenced, SlashingConstants
    <3> QED BY <2>1, <3>2, <3>3, <3>4
  <2>6. CASE UNCHANGED <<mem, disk, sentence>>
    BY <2>1, <2>6 DEF Kept
  <2> QED BY <1>6, <2>3, <2>4, <2>5, <2>6 DEF ReportMissedAttestation
<1>7. ASSUME NEW v \in Validators, CheckActive(v)
      PROVE  JailInv'
  <2>1. /\ mem' = Checked(mem, v) /\ disk' = Checked(disk, v)
        /\ now' = now /\ sentence' = sentence /\ verdicts' = verdicts
    BY <1>7 DEF CheckActive, memory, history
  <2> QED BY <2>1, CheckedKeeps DEF Kept
<1>8. CASE Restart
  <2>1. /\ mem' = disk /\ disk' = disk /\ verdicts' = {}
        /\ now' = now /\ sentence' = sentence
    BY <1>8 DEF Restart, LoadFromStorage, history
  <2> QED BY <2>1 DEF Kept
<1>9. ASSUME NEW x \in verdicts, CrashInSlashing(x)
      PROVE  JailInv'
  <2> DEFINE n == [disk EXCEPT !.processed = @ \cup {VerdictHash(x)}]
  <2>1. /\ mem' = n /\ disk' = n /\ verdicts' = {}
        /\ now' = now /\ sentence' = sentence
    BY <1>9 DEF CrashInSlashing, LoadFromStorage
  <2>2. IsBook(n) /\ n.jailed = mem.jailed
    BY MarkedBook
  <2> HIDE DEF n
  <2> QED BY <2>1, <2>2 DEF Kept
<1>10. CASE Tick
  <2>1. /\ mem' = mem /\ disk' = disk /\ verdicts' = verdicts
        /\ now' = now + 1 /\ sentence' = sentence
    BY <1>10 DEF Tick, memory, history
  <2> QED BY <2>1 DEF Kept
<1>11. CASE LeaveGrace
  BY <1>11 DEF LeaveGrace, memory, history, Kept
<1>12. CASE UNCHANGED vars
  BY <1>12 DEF vars, memory, history, Kept
<1>13. ASSUME NEW v \in Validators, ClearJailStatus(v)
       PROVE  JailInv'
  BY <1>13 DEF ClearJailStatus
<1> QED BY <1>1, <1>2, <1>3, <1>4, <1>5, <1>6, <1>7, <1>8, <1>9, <1>10, <1>11, <1>12,
           <1>13 DEF Next

\* Without dev mode, the stored book is the book in memory after every operation: a
\* restart (loadFromStorage) changes neither jail terms, statuses nor spent evidence.
THEOREM RestartIsInvisible ==
  ASSUME DevMode = FALSE
  PROVE  Spec => []RestartInvisible
<1>1. JailInv => RestartInvisible
  BY DEF JailInv, RestartInvisible
<1> QED BY <1>1, JailInvInit, JailInvNext, PTL DEF Spec

\* Without dev mode, no validator acts before the last jail term imposed on it is
\* over, whatever detections, reports, restarts and crashes happen in between.
THEOREM JailTermsAreServed ==
  ASSUME DevMode = FALSE
  PROVE  Spec => []JailServed
<1>1. JailInv => JailServed
  BY SlashingConstants
     DEF SlashingConstants, JailInv, Kept, JailServed, IsValidatorActive, JailedNow
<1> QED BY <1>1, JailInvInit, JailInvNext, PTL DEF Spec

-----------------------------------------------------------------------------
\* What EvidenceStaysSpent needs, dev mode included: the books agree on the evidence.
SpentInv ==
  /\ now \in Nat
  /\ IsBook(mem) /\ IsBook(disk)
  /\ mem.processed = disk.processed
  /\ \A x \in verdicts : x.who \in Validators /\ x.kind \in Jailable

\* Every step keeps the books in agreement on the evidence and spends, never returns, it.
LEMMA SpentStep ==
  ASSUME SpentInv, [Next]_vars
  PROVE  /\ SpentInv'
         /\ mem.processed \subseteq mem'.processed
         /\ disk.processed \subseteq disk'.processed
<1> DEFINE Goal == /\ SpentInv'
                   /\ mem.processed \subseteq mem'.processed
                   /\ disk.processed \subseteq disk'.processed
<1> USE DEF SpentInv
<1>0. ASSUME NEW v \in Validators
      PROVE  /\ IsBook(Checked(mem, v)) /\ Checked(mem, v).processed = mem.processed
             /\ IsBook(Checked(disk, v)) /\ Checked(disk, v).processed = disk.processed
  BY CheckedBook
<1>1. ASSUME NEW v \in Validators, NEW s, NEW b, NEW t, ProcessAttestation(v, s, b, t)
      PROVE  Goal
  <2>1. mem' = Checked(mem, v) /\ disk' = Checked(disk, v) /\ now' = now
    BY <1>1 DEF ProcessAttestation
  <2>2. \/ verdicts' = verdicts
        \/ \E one, two : verdicts' = verdicts \cup
             {[kind |-> "double", who |-> v, one |-> one, two |-> two]}
    BY <1>1, Zenon DEF ProcessAttestation
  <2>3. \A x \in verdicts' : x \in verdicts \/ (x.who = v /\ x.kind = "double")
    BY <2>2
  <2> QED BY <1>0, <2>1, <2>3 DEF Jailable
<1>2. ASSUME NEW v \in Validators, NEW q, ProcessVote(v, q)
      PROVE  Goal
  <2>1. mem' = Checked(mem, v) /\ disk' = Checked(disk, v) /\ now' = now
    BY <1>2 DEF ProcessVote
  <2>2. \/ verdicts' = verdicts
        \/ \E one, two : verdicts' = verdicts \cup
             {[kind |-> "surround", who |-> v, one |-> one, two |-> two]}
    BY <1>2, Zenon DEF ProcessVote
  <2>3. \A x \in verdicts' : x \in verdicts \/ (x.who = v /\ x.kind = "surround")
    BY <2>2
  <2> QED BY <1>0, <2>1, <2>3 DEF Jailable
<1>3. ASSUME NEW x \in verdicts, ApplyVerdict(x)
      PROVE  Goal
  <2> DEFINE h == VerdictHash(x)
             M == ApplySlashing(mem, x.who, x.kind, h, VerdictPenalty(x))
             D == ApplySlashing(disk, x.who, x.kind, h, VerdictPenalty(x))
  <2>1. /\ IsBook(M) /\ M.processed = mem.processed \cup {h}
        /\ IsBook(D) /\ D.processed = disk.processed \cup {h}
    BY SlashedBook
  <2>2. /\ now' = now /\ verdicts' \subseteq verdicts
        /\ (mem' = mem /\ disk' = disk) \/ (mem' = M /\ disk' = D)
    BY <1>3 DEF ApplyVerdict
  <2> HIDE DEF M, D
  <2> QED BY <2>1, <2>2
<1>4. ASSUME NEW v \in Validators, NEW e, ReportInvalidProposal(v, e)
      PROVE  Goal
  <2> DEFINE h == <<"invalid", v, e>>
             M == ApplySlashing(mem, v, "invalid", h, InvalidProposalPenalty)
             D == ApplySlashing(disk, v, "invalid", h, InvalidProposalPenalty)
  <2>1. /\ IsBook(M) /\ M.processed = mem.processed \cup {h}
        /\ IsBook(D) /\ D.processed = disk.processed \cup {h}
    BY SlashedBook
  <2>2. mem' = M /\ disk' = D /\ now' = now /\ verdicts' = verdicts
    BY <1>4 DEF ReportInvalidProposal, memory
  <2> HIDE DEF M, D
  <2> QED BY <2>1, <2>2
<1>5. ASSUME NEW v \in Validators, ReportBlockWithholding(v)
      PROVE  Goal
  <2> DEFINE h == DowntimeHash
             M == ApplySlashing(Checked(mem, v), v, "downtime", h, JailPenalty)
             D == ApplySlashing(Checked(disk, v), v, "downtime", h, JailPenalty)
  <2>1. /\ IsBook(M) /\ M.processed = mem.processed \cup {h}
        /\ IsBook(D) /\ D.processed = disk.processed \cup {h}
    BY <1>0, SlashedBook
  <2>2. /\ now' = now /\ verdicts' = verdicts
        /\ \/ mem' = Checked(mem, v) /\ disk' = Checked(disk, v)
           \/ mem' = JailValidator(M, v) /\ disk' = JailValidator(D, v)
    BY <1>5 DEF ReportBlockWithholding
  <2> HIDE DEF M, D
  <2>3. /\ IsBook(JailValidator(M, v)) /\ JailValidator(M, v).processed = M.processed
        /\ IsBook(JailValidator(D, v)) /\ JailValidator(D, v).processed = D.processed
    BY <2>1, JailedBook
  <2> QED BY <1>0, <2>1, <2>2, <2>3
<1>6. ASSUME NEW v \in Validators, ReportMissedAttestation(v)
      PROVE  Goal
  <2>1. now' = now /\ verdicts' = verdicts
    BY <1>6 DEF ReportMissedAttestation
  <2>2. /\ IsBook(ForceUnstake(mem, v)) /\ ForceUnstake(mem, v).processed = mem.processed
        /\ IsBook(ForceUnstake(disk, v)) /\ ForceUnstake(disk, v).processed = disk.processed
        /\ IsBook(JailValidator(mem, v)) /\ JailValidator(mem, v).processed = mem.processed
        /\ IsBook(JailValidator(disk, v)) /\ JailValidator(disk, v).processed = disk.processed
    BY UnstakedBook, JailedBook
  <2>3. ASSUME NEW m, NEW d, NEW p, NEW r, IsBook(m), IsBook(d),
               m.processed = mem.processed, d.processed = disk.processed,
               SlashForMisses(v, m, d, p, r)
        PROVE  Goal
    BY <2>1, <2>3, MissedBook
  <2>4. CASE mem' = mem /\ disk' = disk
    BY <2>1, <2>4
  <2> QED BY <1>6, <2>2, <2>3, <2>4 DEF ReportMissedAttestation
<1>7. ASSUME NEW v \in Validators, CheckActive(v)
      PROVE  Goal
  <2>1. /\ mem' = Checked(mem, v) /\ disk' = Checked(disk, v)
        /\ now' = now /\ verdicts' = verdicts
    BY <1>7 DEF CheckActive, memory
  <2> QED BY <1>0, <2>1
<1>8. CASE Restart
  BY <1>8 DEF Restart, LoadFromStorage
<1>9. ASSUME NEW x \in verdicts, CrashInSlashing(x)
      PROVE  Goal
  <2> DEFINE n == [disk EXCEPT !.processed = @ \cup {VerdictHash(x)}]
  <2>1. mem' = n /\ disk' = n /\ verdicts' = {} /\ now' = now
    BY <1>9 DEF CrashInSlashing, LoadFromStorage
  <2>2. IsBook(n) /\ n.processed = disk.processed \cup {VerdictHash(x)}
    BY MarkedBook
  <2> HIDE DEF n
  <2> QED BY <2>1, <2>2
<1>10. CASE Tick
  BY <1>10 DEF Tick, memory
<1>11. CASE LeaveGrace
  BY <1>11 DEF LeaveGrace, memory
<1>12. CASE UNCHANGED vars
  BY <1>12 DEF vars, memory
<1>13. ASSUME NEW v \in Validators, ClearJailStatus(v)
       PROVE  Goal
  <2> DEFINE n == [mem EXCEPT !.jailed[v] = NotJailed]
  <2>1. mem' = n /\ disk' = disk /\ verdicts' = verdicts /\ now' = now
    BY <1>13 DEF ClearJailStatus
  <2>2. IsBook(n) /\ n.processed = mem.processed
    <3>1. n \in BooksWith(mem.processed)
      BY DEF IsBook, BooksWith, Terms
    <3> QED BY <3>1 DEF IsBook, BooksWith
  <2> HIDE DEF n
  <2> QED BY <2>1, <2>2
<1> QED BY <1>1, <1>2, <1>3, <1>4, <1>5, <1>6, <1>7, <1>8, <1>9, <1>10, <1>11, <1>12,
           <1>13 DEF Next

\* Evidence once spent is never forgotten, in memory or in the store, for every
\* configuration: dev mode and crashes inside applySlashing included.
THEOREM EvidenceIsNeverForgotten == Spec => EvidenceStaysSpent
<1>1. Init => SpentInv
  BY JailInvInit DEF JailInv, SpentInv
<1>2. SpentInv /\ [Next]_vars =>
        [mem.processed \subseteq mem'.processed /\ disk.processed \subseteq disk'.processed]_vars
  BY SpentStep
<1>3. SpentInv /\ [Next]_vars => SpentInv'
  BY SpentStep
<1> QED BY <1>1, <1>2, <1>3, PTL DEF Spec, EvidenceStaysSpent

=============================================================================
