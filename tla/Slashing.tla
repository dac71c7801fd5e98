------------------------------ MODULE Slashing ------------------------------
(***************************************************************************)
(* The slashing manager (consensus/pos/slashing_manager.go) and the store   *)
(* behind it (storage/slashing.go): detection of conflicting attestations   *)
(* and surrounding votes, penalties, jail terms, ejection, and what a       *)
(* restart keeps.  Each operation runs under sm.mu and is one action.       *)
(* Detection and penalty are two calls of two callers (the fork choice and  *)
(* the vote handler), so they are two actions with a verdict in between.    *)
(* Time is counted in units of the smallest period that matters.            *)
(* Left out because the node never gets there: the pruning of evidence      *)
(* (consensus.go builds the config without EnableAutoPruning) and the       *)
(* equivocation test against sm.forkChoice, which nothing sets.             *)
(***************************************************************************)
EXTENDS Integers, Sequences, FiniteSets

CONSTANTS
  Validators, Blocks,
  Slots,                   \* <<epoch, slot>> pairs of attestations
  Votes,                   \* consensus votes, <<source epoch, target epoch>>
  NotJailed,               \* no entry in jailedValidators
  MaxTime,                 \* bound on the clock
  InitialBalance,          \* balance of every validator at the start
  MinimumStake, JailDuration, AttestationWindow, RecordWindow,
  HistoryLimit,            \* rolling window of attestations and of votes (1000)
  DoubleVotingPenalty, SurroundVotingPenalty, InvalidProposalPenalty,
  MinorPenalty, MajorPenalty, JailPenalty,
  MinorSlashingStart, MajorSlashingStart, JailThreshold, EjectionThreshold,
  MaxMisses,               \* bound on the missed slots reported per validator
  MaxPenalties,            \* bound on the penalties applied and the evidence spent
  DevMode,                 \* ClearJailStatus is called at start-up in dev mode
  CrashesMidway            \* crashes may hit the inside of applySlashing

ASSUME SlashingConstants ==
  /\ MaxTime \in Nat /\ InitialBalance \in Nat /\ MinimumStake \in Nat
  /\ JailDuration \in Nat /\ AttestationWindow \in Nat /\ RecordWindow \in Nat
  /\ HistoryLimit \in Nat \ {0} /\ MaxMisses \in Nat /\ MaxPenalties \in Nat
  /\ \A p \in {DoubleVotingPenalty, SurroundVotingPenalty, InvalidProposalPenalty,
               MinorPenalty, MajorPenalty, JailPenalty} : p \in 0 .. 100
  /\ MinorSlashingStart \in Nat /\ MajorSlashingStart \in Nat
  /\ JailThreshold \in Nat /\ EjectionThreshold \in Nat
  /\ NotJailed \notin Nat
  /\ Votes \subseteq Nat \X Nat

VARIABLES
  mem,        \* jailedValidators, validatorStatus and processedEvidence
  disk,       \* the same three as SlashingStorage holds them
  balance,    \* world state balances, persisted by every update
  seen,       \* attestationsByValidator: <<slot, block, signed at, received at>>
  voted,      \* votesByValidator
  missed,     \* attestationHistory[v].MissedSlots
  missKeys,   \* the "address-reason-count" keys of processedEvidence, never stored
  downtime,   \* times of the Downtime entries of slashingRecords
  verdicts,   \* offences detected whose penalty the caller is about to apply
  grace,      \* worldState.GetHeight() < 100
  now,
  penalties,  \* history: the offences penalties were paid for, in order
  sentence,   \* history: when the last jail term imposed on a validator ends
  ejected,    \* history: validators forceUnstake was called for
  withheld    \* history: validators whose withholding was reported and accepted

memory == <<seen, voted, missed, missKeys, downtime, verdicts>>
history == <<penalties, sentence, ejected, withheld>>
vars == <<mem, disk, balance, memory, grace, now, history>>

Statuses == {"Active", "Jailed", "Slashed"}
EmptyBook == [jailed    |-> [v \in Validators |-> NotJailed],
              status    |-> [v \in Validators |-> "Active"],
              processed |-> {}]

Init ==
  /\ mem = EmptyBook
  /\ disk = EmptyBook
  /\ balance = [v \in Validators |-> InitialBalance]
  /\ seen = [v \in Validators |-> <<>>]
  /\ voted = [v \in Validators |-> <<>>]
  /\ missed = [v \in Validators |-> 0]
  /\ missKeys = {}
  /\ downtime = [v \in Validators |-> {}]
  /\ verdicts = {}
  /\ grace \in BOOLEAN
  /\ now = 0
  /\ penalties = <<>>
  /\ sentence = [v \in Validators |-> -1]
  /\ ejected = {}
  /\ withheld = {}

-----------------------------------------------------------------------------
(* Jail terms.  Every write goes to the memory and to the store: an operator  *)
(* maps a book (either of the two) to the book after the write.               *)

JailedNow(v) == mem.jailed[v] # NotJailed /\ now <= mem.jailed[v]
Expired(v) == mem.jailed[v] # NotJailed /\ now > mem.jailed[v]

\* isValidatorJailed: its answer is JailedNow, this is what it changes
Checked(book, v) ==
  IF Expired(v)
  THEN [book EXCEPT !.jailed[v] = NotJailed, !.status[v] = "Active"]
  ELSE book

JailValidator(book, v) ==
  [book EXCEPT !.jailed[v] = now + JailDuration, !.status[v] = "Jailed"]

ForceUnstake(book, v) == [book EXCEPT !.status[v] = "Slashed"]

-----------------------------------------------------------------------------
(* Penalties *)

\* mutant: a wrong divisor
PenaltyPerTen(v, percent) == (balance[v] * percent) \div 10
Penalty(v, percent) == (balance[v] * percent) \div 100
NewBalance(v, percent) == balance[v] - Penalty(v, percent)

\* SlashingEvidence.Hash: the attestations or the block, nothing of MissedSlots
DowntimeHash == <<"downtime">>

\* conditions applySlashing itself jails for
Jailable == {"double", "surround"}

\* applySlashing's writes to a book
ApplySlashing(book, v, condition, hash, percent) ==
  LET marked == [book EXCEPT !.processed = @ \cup {hash}]
      held   == IF condition \in Jailable THEN JailValidator(marked, v) ELSE marked
  IN  IF NewBalance(v, percent) < MinimumStake
      THEN [held EXCEPT !.status[v] = "Slashed"]
      ELSE held

\* applySlashing's other effects
Pay(v, percent, offence) ==
  /\ Len(penalties) < MaxPenalties
  /\ balance' = [balance EXCEPT ![v] = NewBalance(v, percent)]
  /\ penalties' = Append(penalties, offence)

Sentenced(v) == sentence' = [sentence EXCEPT ![v] = now + JailDuration]

-----------------------------------------------------------------------------
(* Detection *)

Remember(history1, x) ==
  LET longer == Append(history1, x)
  IN  IF Len(longer) > HistoryLimit THEN Tail(longer) ELSE longer

Entries(s) == {s[i] : i \in DOMAIN s}

\* mutant: the age of the attestation is not looked at
AttestationOfAnyAge(v, s, b, t) ==
  LET conflicts == {i \in DOMAIN seen[v] : seen[v][i][1] = s /\ seen[v][i][2] # b}
      first     == seen[v][CHOOSE i \in conflicts : \A j \in conflicts : i <= j]
  IN  /\ \A x \in verdicts : x.kind # "double"
      /\ ~grace
      /\ ~JailedNow(v)
      /\ mem' = Checked(mem, v)
      /\ disk' = Checked(disk, v)
      /\ IF conflicts # {}
         THEN /\ verdicts' = verdicts \cup
                   {[kind |-> "double", who |-> v, one |-> first, two |-> <<s, b, t>>]}
              /\ seen' = seen
         ELSE /\ seen' = [seen EXCEPT ![v] = Remember(@, <<s, b, t, now>>)]
              /\ verdicts' = verdicts
      /\ UNCHANGED <<balance, voted, missed, missKeys, downtime, grace, now, history>>

\* ProcessAttestation of an attestation v signed at time t.  The first conflicting
\* record becomes the verdict the fork choice turns into a penalty.
ProcessAttestation(v, s, b, t) ==
  LET conflicts == {i \in DOMAIN seen[v] : seen[v][i][1] = s /\ seen[v][i][2] # b}
      first     == seen[v][CHOOSE i \in conflicts : \A j \in conflicts : i <= j]
  IN  /\ \A x \in verdicts : x.kind # "double"
      /\ now - t <= AttestationWindow
      /\ ~grace
      /\ mem' = Checked(mem, v)
      /\ disk' = Checked(disk, v)
      /\ \/ /\ JailedNow(v)
            /\ UNCHANGED <<seen, verdicts>>
         \/ /\ ~JailedNow(v)
            /\ conflicts # {}
            /\ verdicts' = verdicts \cup
                 {[kind |-> "double", who |-> v, one |-> first, two |-> <<s, b, t>>]}
            /\ seen' = seen
         \/ /\ ~JailedNow(v)
            /\ conflicts = {}
            /\ seen' = [seen EXCEPT ![v] = Remember(@, <<s, b, t, now>>)]
            /\ verdicts' = verdicts
      /\ UNCHANGED <<balance, voted, missed, missKeys, downtime, grace, now, history>>

Surrounds(p, q) == p[1] < q[1] /\ p[2] > q[2]

\* ProcessVote; the verdict is the one handleVote passes to ApplySurroundVoteSlashing
ProcessVote(v, q) ==
  LET clash == {i \in DOMAIN voted[v] :
                  Surrounds(q, voted[v][i]) \/ Surrounds(voted[v][i], q)}
      prev  == voted[v][CHOOSE i \in clash : \A j \in clash : i <= j]
  IN  /\ \A x \in verdicts : x.kind # "surround"
      /\ ~grace
      /\ mem' = Checked(mem, v)
      /\ disk' = Checked(disk, v)
      /\ \/ /\ JailedNow(v)
            /\ UNCHANGED <<voted, verdicts>>
         \/ /\ ~JailedNow(v)
            /\ clash # {}
            /\ verdicts' = verdicts \cup
                 {[kind |-> "surround", who |-> v,
                   one |-> IF Surrounds(q, prev) THEN prev ELSE q,
                   two |-> IF Surrounds(q, prev) THEN q ELSE prev]}
            /\ voted' = voted
         \/ /\ ~JailedNow(v)
            /\ clash = {}
            /\ voted' = [voted EXCEPT ![v] = Remember(@, q)]
            /\ verdicts' = verdicts
      /\ UNCHANGED <<balance, seen, missed, missKeys, downtime, grace, now, history>>

-----------------------------------------------------------------------------
(* Applying a verdict *)

\* The evidence hash: the surround path stamps both attestations with time.Now()
VerdictHash(x) ==
  IF x.kind = "double"
  THEN <<"double", x.who, x.one, x.two>>
  ELSE <<"surround", x.who, x.one, x.two, now>>

VerdictPenalty(x) ==
  IF x.kind = "double" THEN DoubleVotingPenalty ELSE SurroundVotingPenalty

\* what the offence is, whenever and however often it is detected
Offence(x) ==
  IF x.kind = "double"
  THEN <<"double", x.who, {SubSeq(x.one, 1, 3), x.two}>>
  ELSE <<"surround", x.who, x.one, x.two>>

\* ApplyDoubleVoteSlashing and ApplySurroundVoteSlashing
ApplyVerdict(x) ==
  LET hash == VerdictHash(x)
      pct  == VerdictPenalty(x)
  IN  /\ x \in verdicts
      /\ verdicts' = verdicts \ {x}
      /\ IF hash \in mem.processed
         THEN UNCHANGED <<mem, disk, balance, history>>
         ELSE /\ mem' = ApplySlashing(mem, x.who, x.kind, hash, pct)
              /\ disk' = ApplySlashing(disk, x.who, x.kind, hash, pct)
              /\ Pay(x.who, pct, Offence(x))
              /\ Sentenced(x.who)
              /\ UNCHANGED <<ejected, withheld>>
      /\ UNCHANGED <<seen, voted, missed, missKeys, downtime, grace, now>>

ReportInvalidProposal(v, epoch) ==
  LET hash == <<"invalid", v, epoch>>
  IN  /\ hash \notin mem.processed
      /\ mem' = ApplySlashing(mem, v, "invalid", hash, InvalidProposalPenalty)
      /\ disk' = ApplySlashing(disk, v, "invalid", hash, InvalidProposalPenalty)
      /\ Pay(v, InvalidProposalPenalty, hash)
      /\ UNCHANGED <<memory, grace, now, sentence, ejected, withheld>>

-----------------------------------------------------------------------------
(* Downtime *)

\* ReportBlockWithholding, for ten consecutive proposals missed
ReportBlockWithholding(v) ==
  LET recent == \E r \in downtime[v] : r > now - RecordWindow
  IN  /\ ~grace
      /\ ~JailedNow(v)
      /\ IF recent \/ DowntimeHash \in mem.processed
         THEN /\ mem' = Checked(mem, v)
              /\ disk' = Checked(disk, v)
              /\ withheld' = IF recent THEN withheld ELSE withheld \cup {v}
              /\ UNCHANGED <<balance, downtime, penalties, sentence>>
         ELSE /\ mem' = JailValidator(
                   ApplySlashing(Checked(mem, v), v, "downtime", DowntimeHash, JailPenalty), v)
              /\ disk' = JailValidator(
                   ApplySlashing(Checked(disk, v), v, "downtime", DowntimeHash, JailPenalty), v)
              /\ Pay(v, JailPenalty, <<"downtime", v>>)
              /\ Sentenced(v)
              /\ downtime' = [downtime EXCEPT ![v] = @ \cup {now}]
              /\ withheld' = withheld \cup {v}
      /\ UNCHANGED <<seen, voted, missed, missKeys, verdicts, grace, now, ejected>>

\* slashValidator called on the books m and d its caller has already written
SlashForMisses(v, m, d, percent, reason) ==
  LET key == <<v, reason, missed[v] + 1>>
  IN  IF key \in missKeys \/ DowntimeHash \in mem.processed
      THEN /\ mem' = m
           /\ disk' = d
           /\ UNCHANGED <<balance, downtime, missKeys, penalties>>
      ELSE /\ mem' = ApplySlashing(m, v, "downtime", DowntimeHash, percent)
           /\ disk' = ApplySlashing(d, v, "downtime", DowntimeHash, percent)
           /\ Pay(v, percent, <<"downtime", v>>)
           /\ downtime' = [downtime EXCEPT ![v] = @ \cup {now}]
           /\ missKeys' = missKeys \cup {key}

\* ReportMissedAttestation
ReportMissedAttestation(v) ==
  LET n == missed[v] + 1
  IN  /\ n <= MaxMisses
      /\ missed' = [missed EXCEPT ![v] = n]
      /\ \/ /\ n >= EjectionThreshold
            /\ SlashForMisses(v, ForceUnstake(mem, v), ForceUnstake(disk, v),
                              JailPenalty, "ejection")
            /\ ejected' = ejected \cup {v}
            /\ sentence' = sentence
         \/ /\ n >= JailThreshold /\ n < EjectionThreshold
            /\ ~JailedNow(v)
            /\ SlashForMisses(v, JailValidator(mem, v), JailValidator(disk, v),
                              JailPenalty, "jail")
            /\ Sentenced(v)
            /\ ejected' = ejected
         \/ /\ n >= MajorSlashingStart /\ n < JailThreshold
            /\ SlashForMisses(v, mem, disk, MajorPenalty, "major")
            /\ UNCHANGED <<sentence, ejected>>
         \/ /\ n >= MinorSlashingStart /\ n < MajorSlashingStart
            /\ SlashForMisses(v, mem, disk, MinorPenalty, "minor")
            /\ UNCHANGED <<sentence, ejected>>
         \/ /\ \/ n < MinorSlashingStart
               \/ n >= JailThreshold /\ n < EjectionThreshold /\ JailedNow(v)
            /\ UNCHANGED <<mem, disk, balance, missKeys, downtime, penalties,
                           sentence, ejected>>
      /\ UNCHANGED <<seen, voted, verdicts, grace, now, withheld>>

-----------------------------------------------------------------------------
(* Queries with a side effect, and the environment *)

\* mutant: the release is not written to the store
ReleaseInMemoryOnly(v) ==
  /\ Expired(v)
  /\ mem' = Checked(mem, v)
  /\ UNCHANGED <<disk, balance, memory, grace, now, history>>

\* IsValidatorActive and ProcessBlockProposal
CheckActive(v) ==
  /\ Expired(v)
  /\ mem' = Checked(mem, v)
  /\ disk' = Checked(disk, v)
  /\ UNCHANGED <<balance, memory, grace, now, history>>

\* dev mode only; the status and the store keep what they hold
ClearJailStatus(v) ==
  /\ DevMode
  /\ mem' = [mem EXCEPT !.jailed[v] = NotJailed]
  /\ downtime' = [downtime EXCEPT ![v] = {}]
  /\ missed' = [missed EXCEPT ![v] = 0]
  /\ seen' = [seen EXCEPT ![v] = <<>>]
  /\ UNCHANGED <<disk, balance, voted, missKeys, verdicts, grace, now, history>>

\* mutant: the jailed validators and the statuses are not loaded
LoadEvidenceOnly(stored) ==
  /\ mem' = [EmptyBook EXCEPT !.processed = stored.processed]
  /\ seen' = [v \in Validators |-> <<>>]
  /\ voted' = [v \in Validators |-> <<>>]
  /\ missed' = [v \in Validators |-> 0]
  /\ missKeys' = {}
  /\ downtime' = [v \in Validators |-> {}]
  /\ verdicts' = {}

\* mutant: the processed evidence is not loaded
LoadWithoutEvidence(stored) ==
  /\ mem' = [stored EXCEPT !.processed = {}]
  /\ seen' = [v \in Validators |-> <<>>]
  /\ voted' = [v \in Validators |-> <<>>]
  /\ missed' = [v \in Validators |-> 0]
  /\ missKeys' = {}
  /\ downtime' = [v \in Validators |-> {}]
  /\ verdicts' = {}

\* a new process: loadFromStorage brings back the three stored maps only
LoadFromStorage(stored) ==
  /\ mem' = stored
  /\ seen' = [v \in Validators |-> <<>>]
  /\ voted' = [v \in Validators |-> <<>>]
  /\ missed' = [v \in Validators |-> 0]
  /\ missKeys' = {}
  /\ downtime' = [v \in Validators |-> {}]
  /\ verdicts' = {}

Restart ==
  /\ LoadFromStorage(disk)
  /\ UNCHANGED <<disk, balance, grace, now, history>>

\* A crash inside applySlashing: the evidence is stored before the balance is
\* updated, and the balance before the jail term is stored.
CrashInSlashing(x) ==
  LET stored == [disk EXCEPT !.processed = @ \cup {VerdictHash(x)}]
  IN  /\ CrashesMidway
      /\ Cardinality(disk.processed) < MaxPenalties
      /\ x \in verdicts
      /\ VerdictHash(x) \notin mem.processed
      /\ \/ UNCHANGED <<balance, penalties>>
         \/ Pay(x.who, VerdictPenalty(x), Offence(x))
      /\ disk' = stored
      /\ LoadFromStorage(stored)
      /\ UNCHANGED <<grace, now, sentence, ejected, withheld>>

Tick ==
  /\ now < MaxTime
  /\ now' = now + 1
  /\ UNCHANGED <<mem, disk, balance, memory, grace, history>>

\* the chain reaches height 100
LeaveGrace ==
  /\ grace
  /\ grace' = FALSE
  /\ UNCHANGED <<mem, disk, balance, memory, now, history>>

Next ==
  \/ \E v \in Validators, s \in Slots, b \in Blocks, t \in 0 .. now :
        ProcessAttestation(v, s, b, t)
  \/ \E v \in Validators, q \in Votes : ProcessVote(v, q)
  \/ \E x \in verdicts : ApplyVerdict(x) \/ CrashInSlashing(x)
  \/ \E v \in Validators, s \in Slots : ReportInvalidProposal(v, s)
  \/ \E v \in Validators : \/ ReportBlockWithholding(v)
                           \/ ReportMissedAttestation(v)
                           \/ CheckActive(v)
                           \/ ClearJailStatus(v)
  \/ Restart
  \/ Tick
  \/ LeaveGrace

Spec == Init /\ [][Next]_vars

-----------------------------------------------------------------------------
TypeOK ==
  /\ mem.jailed \in [Validators -> Nat \cup {NotJailed}]
  /\ mem.status \in [Validators -> Statuses]
  /\ disk.jailed \in [Validators -> Nat \cup {NotJailed}]
  /\ disk.status \in [Validators -> Statuses]
  /\ balance \in [Validators -> Nat]
  /\ missed \in [Validators -> Nat]
  /\ now \in Nat
  /\ grace \in BOOLEAN
  /\ sentence \in [Validators -> Int]
  /\ ejected \subseteq Validators

IsValidatorActive(v) == ~JailedNow(v) /\ Checked(mem, v).status[v] = "Active"

\* Whatever happens between two operations, restarts included, a validator does not
\* act before the last jail term imposed on it is over.
JailServed ==
  \A v \in Validators : now <= sentence[v] => ~IsValidatorActive(v)

\* The store holds exactly what the memory holds between two operations, so a
\* restart changes neither who is jailed, until when, nor which evidence is spent.
RestartInvisible == mem = disk

\* Evidence once spent stays spent, in memory and in the store, even when the process
\* dies inside applySlashing.
EvidenceStaysSpent ==
  [][mem.processed \subseteq mem'.processed /\ disk.processed \subseteq disk'.processed]_vars

PaidOnce(kind) ==
  \A i, j \in DOMAIN penalties :
     penalties[i][1] = kind /\ penalties[i] = penalties[j] => i = j

\* A validator pays once for the same pair of conflicting attestations
\* (processedEvidence: "Track processed evidence to prevent double slashing"), although
\* restarts lose the memory of attestations and the evidence hash contains the time of
\* reception.  It takes a jail term that outlasts the attestation window.
DoubleVotePenalisedOnce ==
  PaidOnce("double")

\* An ejected validator never becomes active again (forceUnstake: "permanently
\* removes a validator from the active set").
EjectionIsPermanent ==
  \A v \in ejected : ~IsValidatorActive(v)

\* Every validator whose withholding is reported and accepted pays for it
\* (ReportBlockWithholding: "penalizes a validator for consecutively failing to
\* propose blocks").
WithholdingPenalised ==
  \A v \in withheld : <<"downtime", v>> \in Entries(penalties)

=============================================================================
