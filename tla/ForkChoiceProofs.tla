-------------------------- MODULE ForkChoiceProofs --------------------------
(***************************************************************************)
(* What the attestation tracker guarantees for every set of validators,     *)
(* blocks and stakes and every retention parameter.                         *)
(***************************************************************************)
EXTENDS ForkChoice, TLAPS

-----------------------------------------------------------------------------
(* Slashing is only for equivocators *)

\* The strengthening: a vote on record is a vote that was delivered.
MessagesDelivered ==
  \A e \in Epochs, v \in Validators :
     latestMessages[e][v] # None => <<v, e, latestMessages[e][v]>> \in delivered

SlashInv ==
  /\ latestMessages \in [Epochs -> [Validators -> Blocks \cup {None}]]
  /\ MessagesDelivered
  /\ OnlyEquivocatorsSlashed

Erased(m, gone) ==
  [f \in Epochs |-> IF f \in gone THEN [w \in Validators |-> None] ELSE m[f]]

\* Recording v's vote and erasing any epochs keeps every message a delivered one.
LEMMA RecordedMessages ==
  ASSUME SlashInv, NEW v \in Validators, NEW b \in Blocks, NEW e \in Epochs,
         delivered' = delivered \cup {<<v, e, b>>},
         NEW gone,
         latestMessages' = Erased([latestMessages EXCEPT ![e][v] = b], gone)
  PROVE  /\ latestMessages' \in [Epochs -> [Validators -> Blocks \cup {None}]]
         /\ MessagesDelivered'
<1> DEFINE m == [latestMessages EXCEPT ![e][v] = b]
<1>1. m \in [Epochs -> [Validators -> Blocks \cup {None}]]
  BY DEF SlashInv
<1>2. \A f \in Epochs, w \in Validators :
         m[f][w] = IF f = e /\ w = v THEN b ELSE latestMessages[f][w]
  BY DEF SlashInv
<1>3. \A f \in Epochs, w \in Validators : m[f][w] # None => <<w, f, m[f][w]>> \in delivered'
  BY <1>2 DEF SlashInv, MessagesDelivered
<1> HIDE DEF m
<1>4. latestMessages' = [f \in Epochs |-> IF f \in gone THEN [w \in Validators |-> None] ELSE m[f]]
  BY DEF m, Erased
<1>5. \A f \in Epochs, w \in Validators :
         latestMessages'[f][w] = IF f \in gone THEN None ELSE m[f][w]
  BY <1>4
<1>6. latestMessages' \in [Epochs -> [Validators -> Blocks \cup {None}]]
  <2>1. [w \in Validators |-> None] \in [Validators -> Blocks \cup {None}]
    OBVIOUS
  <2>2. \A f \in Epochs : m[f] \in [Validators -> Blocks \cup {None}]
    BY <1>1
  <2> QED BY <1>4, <2>1, <2>2
<1> QED BY <1>3, <1>5, <1>6 DEF MessagesDelivered

\* A fork choice fresh from NewForkChoiceWithConfig has no message and slashed nobody.
LEMMA SlashInvInit ==
  ASSUME Init
  PROVE  SlashInv
  BY DEF Init, SlashInv, MessagesDelivered, OnlyEquivocatorsSlashed

\* Every exit of ProcessAttestation, the cleanup ticker and a jail release keep SlashInv.
LEMMA SlashInvNext ==
  ASSUME SlashInv, [Next]_vars
  PROVE  SlashInv'
<1> USE ConstantsAssumption DEF ConstantsAssumption
<1>1. delivered \subseteq delivered'
  <2>1. ASSUME NEW v \in Validators, NEW b \in Blocks, NEW e \in Epochs,
               ProcessAttestation(v, b, e)
        PROVE  delivered' = delivered \cup {<<v, e, b>>}
    BY <2>1 DEF ProcessAttestation, RejectInactive, ReportDoubleSign, DetectEquivocation,
                IgnoreDuplicate, CountVote, Deliver
  <2>2. CASE CleanupOldEpochs \/ (\E v \in Validators : ReleaseFromJail(v)) \/ UNCHANGED vars
    BY <2>2 DEF CleanupOldEpochs, ReleaseFromJail, vars
  <2> QED BY <2>1, <2>2 DEF Next
<1>2. ASSUME inactive' \subseteq inactive
      PROVE  OnlyEquivocatorsSlashed'
  BY <1>1, <1>2 DEF SlashInv, OnlyEquivocatorsSlashed
<1>3. ASSUME NEW v \in Validators, NEW b \in Blocks, NEW e \in Epochs, RejectInactive(v, b, e)
      PROVE  SlashInv'
  BY <1>1, <1>2, <1>3 DEF RejectInactive, SlashInv, MessagesDelivered
<1>4. ASSUME NEW v \in Validators, NEW b \in Blocks, NEW e \in Epochs, ReportDoubleSign(v, b, e)
      PROVE  SlashInv'
  <2>1. \E c \in Blocks : b # c /\ <<v, e, b>> \in delivered' /\ <<v, e, c>> \in delivered'
    BY <1>4 DEF ReportDoubleSign, Deliver
  <2>2. inactive' \subseteq inactive \cup {v} /\ latestMessages' = latestMessages
    BY <1>4 DEF ReportDoubleSign, Slash
  <2>3. OnlyEquivocatorsSlashed'
    BY <1>1, <2>1, <2>2 DEF SlashInv, OnlyEquivocatorsSlashed
  <2> QED BY <1>1, <2>2, <2>3 DEF SlashInv, MessagesDelivered
<1>5. ASSUME NEW v \in Validators, NEW b \in Blocks, NEW e \in Epochs, DetectEquivocation(v, b, e)
      PROVE  SlashInv'
  <2> DEFINE prev == latestMessages[e][v]
  <2>1. /\ prev \notin {None, b}
        /\ delivered' = delivered \cup {<<v, e, b>>}
        /\ inactive' \subseteq inactive \cup {v} /\ latestMessages' = latestMessages
    BY <1>5 DEF DetectEquivocation, Slash, Deliver
  <2>2. prev \in Blocks /\ <<v, e, prev>> \in delivered
    BY <2>1 DEF SlashInv, MessagesDelivered
  <2>3. OnlyEquivocatorsSlashed'
    <3> HIDE DEF prev
    <3> QED BY <1>1, <2>1, <2>2 DEF SlashInv, OnlyEquivocatorsSlashed
  <2> QED BY <1>1, <2>1, <2>3 DEF SlashInv, MessagesDelivered
<1>6. ASSUME NEW v \in Validators, NEW b \in Blocks, NEW e \in Epochs, IgnoreDuplicate(v, b, e)
      PROVE  SlashInv'
  <2>1. /\ delivered' = delivered \cup {<<v, e, b>>}
        /\ latestMessages' = [latestMessages EXCEPT ![e][v] = b]
        /\ inactive' = inactive
    BY <1>6 DEF IgnoreDuplicate, Deliver
  <2>2. latestMessages' = Erased([latestMessages EXCEPT ![e][v] = b], {})
    BY <2>1 DEF SlashInv, Erased
  <2>3. /\ latestMessages' \in [Epochs -> [Validators -> Blocks \cup {None}]]
        /\ MessagesDelivered'
    BY <2>1, <2>2, RecordedMessages
  <2> QED BY <1>2, <2>1, <2>3 DEF SlashInv
<1>7. ASSUME NEW v \in Validators, NEW b \in Blocks, NEW e \in Epochs, CountVote(v, b, e)
      PROVE  SlashInv'
  <2>1. delivered' = delivered \cup {<<v, e, b>>} /\ inactive' = inactive
    BY <1>7 DEF CountVote, Deliver
  <2> DEFINE m == [latestMessages EXCEPT ![e][v] = b]
  <2>2. latestMessages' = m \/ \E t : latestMessages' = CleanupMessages(m, t)
    BY <1>7, Zenon DEF CountVote
  <2>3. \E gone : latestMessages' = Erased(m, gone)
    <3>1. m \in [Epochs -> [Validators -> Blocks \cup {None}]]
      BY DEF SlashInv
    <3> HIDE DEF m
    <3>2. CASE latestMessages' = m
      <4>1. latestMessages' = Erased(m, {})
        BY <3>1, <3>2 DEF Erased
      <4> QED BY <4>1, Zenon
    <3>3. ASSUME NEW t, latestMessages' = CleanupMessages(m, t)
          PROVE  \E gone : latestMessages' = Erased(m, gone)
      <4> DEFINE gone == {f \in Epochs : BelowCutoff(OpenEpochs(t), f)}
      <4>1. latestMessages' = Erased(m, gone)
        BY <3>3 DEF CleanupMessages, Erased
      <4> HIDE DEF gone
      <4> QED BY <4>1, Zenon
    <3> QED BY <2>2, <3>2, <3>3, Zenon
  <2>4. PICK gone : latestMessages' = Erased(m, gone)
    BY <2>3, Zenon
  <2>5. /\ latestMessages' \in [Epochs -> [Validators -> Blocks \cup {None}]]
        /\ MessagesDelivered'
    BY <2>1, <2>4, RecordedMessages
  <2> QED BY <1>2, <2>1, <2>5 DEF SlashInv
<1>8. CASE CleanupOldEpochs
  <2>1. \A f \in Epochs : latestMessages'[f] \in {latestMessages[f], [w \in Validators |-> None]}
    BY <1>8 DEF CleanupOldEpochs, CleanupMessages
  <2>2. latestMessages' \in [Epochs -> [Validators -> Blocks \cup {None}]]
    BY <1>8, <2>1 DEF CleanupOldEpochs, CleanupMessages, SlashInv
  <2>3. delivered' = delivered /\ inactive' = inactive
    BY <1>8 DEF CleanupOldEpochs
  <2>4. MessagesDelivered'
    BY <2>1, <2>3 DEF SlashInv, MessagesDelivered
  <2> QED BY <1>2, <2>2, <2>3, <2>4 DEF SlashInv
<1>9. ASSUME NEW v \in Validators, ReleaseFromJail(v)
      PROVE  SlashInv'
  BY <1>1, <1>2, <1>9 DEF ReleaseFromJail, SlashInv, MessagesDelivered
<1>10. CASE UNCHANGED vars
  BY <1>1, <1>2, <1>10 DEF vars, SlashInv, MessagesDelivered
<1> QED BY <1>3, <1>4, <1>5, <1>6, <1>7, <1>8, <1>9, <1>10 DEF Next, ProcessAttestation

\* Only validators that really sent two blocks for one epoch are slashed, although
\* cleanup and pruning erase what their votes are compared with, for every number of
\* validators, blocks and epochs and every retention setting.
THEOREM SlashedEquivocated == Spec => []OnlyEquivocatorsSlashed
<1>1. SlashInv => OnlyEquivocatorsSlashed
  BY DEF SlashInv
<1> QED BY <1>1, SlashInvInit, SlashInvNext, PTL DEF Spec

-----------------------------------------------------------------------------
(* The finalized checkpoint *)

CheckpointInv == finalized \in [epoch : Int, block : Blocks \cup {None}]

\* A step keeps the finalized checkpoint or replaces it by a block of a newer epoch.
LEMMA FinalizedStep ==
  ASSUME CheckpointInv, [Next]_vars
  PROVE  \/ finalized' = finalized
         \/ /\ finalized' \in [epoch : Int, block : Blocks]
            /\ finalized'.epoch > finalized.epoch
<1> USE ConstantsAssumption DEF ConstantsAssumption
<1> DEFINE Advance == \/ finalized' = finalized
                      \/ /\ finalized' \in [epoch : Int, block : Blocks]
                         /\ finalized'.epoch > finalized.epoch
<1>1. ASSUME NEW v \in Validators, NEW b \in Blocks, NEW e \in Epochs, CountVote(v, b, e)
      PROVE  Advance
  <2>1. finalized' = finalized \/ \E t : Quorum(e, b, t)
    BY <1>1, Zenon DEF CountVote
  <2>2. finalized' = finalized \/ \E t : CheckFinalization(e, t)
    BY <2>1, Zenon DEF Quorum, Justify
  <2>3. ASSUME NEW t, CheckFinalization(e, t)
        PROVE  Advance
    <3>1. finalized' = finalized \/ \E c \in Blocks : /\ finalized' = [epoch |-> e - 2, block |-> c]
                                                      /\ ~(finalized.epoch >= e - 2)
      BY <2>3, Zenon DEF CheckFinalization
    <3>2. e - 2 \in Int /\ finalized.epoch \in Int
      BY DEF Epochs, CheckpointInv
    <3> QED BY <3>1, <3>2
  <2> QED BY <2>2, <2>3
<1>2. ASSUME NEW v \in Validators, NEW b \in Blocks, NEW e \in Epochs,
             ProcessAttestation(v, b, e), ~CountVote(v, b, e)
      PROVE  Advance
  BY <1>2 DEF ProcessAttestation, RejectInactive, ReportDoubleSign, DetectEquivocation,
              IgnoreDuplicate
<1>3. CASE CleanupOldEpochs \/ (\E v \in Validators : ReleaseFromJail(v)) \/ UNCHANGED vars
  BY <1>3 DEF CleanupOldEpochs, ReleaseFromJail, vars
<1>4. CASE \E v \in Validators, b \in Blocks, e \in Epochs : ProcessAttestation(v, b, e)
  BY <1>1, <1>2, <1>4
<1> QED BY <1>3, <1>4 DEF Next

\* The finalized checkpoint always carries an epoch that can be compared.
LEMMA CheckpointInvHolds == Spec => []CheckpointInv
<1>1. Init => CheckpointInv
  BY DEF Init, CheckpointInv, NoCheckpoint, NoEpoch
<1>2. CheckpointInv /\ [Next]_vars => CheckpointInv'
  BY FinalizedStep DEF CheckpointInv
<1> QED BY <1>1, <1>2, PTL DEF Spec

\* Finality is monotone for every configuration: checkFinalization never replaces the
\* finalized checkpoint by one of the same or an older epoch.
THEOREM FinalityIsMonotone == Spec => FinalityAdvances
<1>1. CheckpointInv /\ [Next]_vars =>
         [finalized' # finalized => finalized'.epoch > finalized.epoch]_vars
  BY FinalizedStep
<1> QED BY <1>1, CheckpointInvHolds, PTL DEF Spec, FinalityAdvances

-----------------------------------------------------------------------------
(* The retention window *)

\* The shape of the tracking maps that the window argument needs.
IsTracking(t) ==
  t \in [blockEpochMap : {t.blockEpochMap}, blockScores : {t.blockScores},
         validatorAttestations : {t.validatorAttestations},
         attestationsByBlock : {t.attestationsByBlock},
         epochAttestations : [Epochs -> [Blocks -> Nat]],
         epochBlockOrder : {t.epochBlockOrder}]

WindowInv == CheckpointInv /\ IsTracking(tracked) /\ EpochWindowBounded

\* u records no stake that t does not record.
Shrinks(t, u) ==
  /\ IsTracking(u)
  /\ \A f \in Epochs, c \in Blocks : u.epochAttestations[f][c] \in {0, t.epochAttestations[f][c]}

\* A tracking record whose stakes only lost entries has no new open epoch.
LEMMA ShrinksOpen ==
  ASSUME NEW t, NEW u, IsTracking(t), Shrinks(t, u)
  PROVE  OpenEpochs(u) \subseteq OpenEpochs(t)
  BY DEF Shrinks, IsTracking, OpenEpochs

\* removeTrackedBlockLocked only erases stakes.
LEMMA DropShrinks ==
  ASSUME NEW t, NEW R, IsTracking(t)
  PROVE  Shrinks(t, Drop(t, R))
<1> DEFINE ea == [e \in Epochs |-> [b \in Blocks |->
                    IF b \in R /\ t.blockEpochMap[b] = e THEN 0 ELSE t.epochAttestations[e][b]]]
<1>1. ea \in [Epochs -> [Blocks -> Nat]]
  <2>1. \A e \in Epochs, b \in Blocks : t.epochAttestations[e][b] \in Nat
    BY DEF IsTracking
  <2> QED BY <2>1
<1>2. \A f \in Epochs, c \in Blocks : ea[f][c] \in {0, t.epochAttestations[f][c]}
  OBVIOUS
<1>3. Drop(t, R).epochAttestations = ea
  BY DEF Drop
<1> HIDE DEF ea
<1>4. IsTracking(Drop(t, R))
  BY <1>1, <1>3 DEF IsTracking, Drop
<1> QED BY <1>2, <1>3, <1>4 DEF Shrinks

\* pruneEpochBlocksLocked only erases stakes.
LEMMA PruneShrinks ==
  ASSUME NEW t, NEW e, IsTracking(t)
  PROVE  Shrinks(t, PruneEpochBlocks(t, e))
<1>1. Shrinks(t, t)
  BY DEF Shrinks
<1>2. ASSUME NEW d, NEW o, Shrinks(t, d)
      PROVE  Shrinks(t, [d EXCEPT !.epochBlockOrder[e] = o])
  <2>1. IsTracking([d EXCEPT !.epochBlockOrder[e] = o])
    BY <1>2 DEF Shrinks, IsTracking
  <2> QED BY <1>2, <2>1 DEF Shrinks, IsTracking
<1> QED BY <1>1, <1>2, DropShrinks DEF PruneEpochBlocks

\* What cleanupOldEpochsLocked keeps was open and is not below the cutoff.
LEMMA CleanupOpen ==
  ASSUME NEW t, IsTracking(t)
  PROVE  /\ IsTracking(CleanupTracking(t))
         /\ \A f \in OpenEpochs(CleanupTracking(t)) :
               f \in OpenEpochs(t) /\ ~BelowCutoff(OpenEpochs(t), f)
<1> DEFINE open == OpenEpochs(t)
           old  == {e \in Epochs : BelowCutoff(open, e)}
           dead == {b \in Blocks : t.blockEpochMap[b] \in old}
           ea   == [e \in Epochs |-> IF e \in old THEN [b \in Blocks |-> 0]
                                                  ELSE t.epochAttestations[e]]
           cut  == [t EXCEPT
                 !.epochAttestations = ea,
                 !.epochBlockOrder = [e \in Epochs |->
                    IF e \in old \cap open THEN <<>> ELSE t.epochBlockOrder[e]]]
<1>1. CleanupTracking(t) = Drop(cut, dead)
  BY DEF CleanupTracking
<1>2. \A f \in old : f \in Epochs /\ BelowCutoff(open, f)
  OBVIOUS
<1>3. \A f \in Epochs \ old : ~BelowCutoff(open, f)
  OBVIOUS
<1>4. OpenEpochs(cut) \subseteq open \ old /\ IsTracking(cut)
  <2> HIDE DEF old
  <2>1. ea \in [Epochs -> [Blocks -> Nat]]
    <3>1. t.epochAttestations \in [Epochs -> [Blocks -> Nat]] /\ [b \in Blocks |-> 0] \in [Blocks -> Nat]
      BY DEF IsTracking
    <3> QED BY <3>1
  <2>2. IsTracking(cut) /\ cut.epochAttestations = ea
    <3> HIDE DEF ea
    <3> QED BY <2>1 DEF IsTracking
  <2>3. \A f \in Epochs : \A c \in Blocks :
           ea[f][c] = IF f \in old THEN 0 ELSE t.epochAttestations[f][c]
    OBVIOUS
  <2> HIDE DEF cut, ea
  <2>4. OpenEpochs(cut) \subseteq open \ old
    BY <2>2, <2>3 DEF OpenEpochs
  <2> QED BY <2>2, <2>4
<1> HIDE DEF cut, dead, old
<1>5. Shrinks(cut, CleanupTracking(t))
  BY <1>1, <1>4, DropShrinks
<1>6. OpenEpochs(CleanupTracking(t)) \subseteq open \ old
  BY <1>4, <1>5, ShrinksOpen
<1>7. open \subseteq Epochs
  BY DEF OpenEpochs
<1>8. IsTracking(CleanupTracking(t))
  BY <1>5 DEF Shrinks
<1> QED BY <1>3, <1>6, <1>7, <1>8

\* The windows CleanupTracking leaves open are within MaxEpochsToKeep of each other.
LEMMA CleanupBounds ==
  ASSUME NEW t, IsTracking(t), finalized = NoCheckpoint
  PROVE  \A e, top \in OpenEpochs(CleanupTracking(t)) : top <= e + MaxEpochsToKeep
<1>1. OpenEpochs(t) \subseteq Int /\ MaxEpochsToKeep \in Int
  BY ConstantsAssumption DEF OpenEpochs, Epochs, ConstantsAssumption
<1>2. ASSUME NEW e \in OpenEpochs(CleanupTracking(t)), NEW top \in OpenEpochs(CleanupTracking(t))
      PROVE  top <= e + MaxEpochsToKeep
  <2>1. e \in OpenEpochs(t) /\ top \in OpenEpochs(t) /\ ~BelowCutoff(OpenEpochs(t), e)
    BY CleanupOpen
  <2>2. ~(e + MaxEpochsToKeep < top)
    BY <2>1 DEF BelowCutoff
  <2> QED BY <1>1, <2>1, <2>2
<1> QED BY <1>2

\* Every step keeps the window bound: a vote that opens an epoch is followed by the
\* cleanup in the same call, every other step opens none.
LEMMA WindowInvNext ==
  ASSUME WindowInv, [Next]_vars
  PROVE  WindowInv'
<1> USE ConstantsAssumption DEF ConstantsAssumption
<1>1. CheckpointInv' /\ (finalized' = NoCheckpoint => finalized = NoCheckpoint)
  BY FinalizedStep DEF WindowInv, CheckpointInv, NoCheckpoint
<1>2. ASSUME IsTracking(tracked'), OpenEpochs(tracked') \subseteq OpenEpochs(tracked)
      PROVE  WindowInv'
  BY <1>1, <1>2 DEF WindowInv, EpochWindowBounded, OpenEpochs, IsTracking
<1>3. ASSUME NEW t, IsTracking(t), tracked' = CleanupTracking(t)
      PROVE  WindowInv'
  <2>1. IsTracking(tracked')
    BY <1>3, CleanupOpen
  <2>2. finalized' = NoCheckpoint =>
           \A e, top \in OpenEpochs(tracked') : top <= e + MaxEpochsToKeep
    BY <1>1, <1>3, CleanupBounds
  <2> QED BY <1>1, <2>1, <2>2 DEF WindowInv, EpochWindowBounded, OpenEpochs, IsTracking
<1>4. ASSUME NEW v \in Validators, NEW b \in Blocks, NEW e \in Epochs, CountVote(v, b, e)
      PROVE  WindowInv'
  <2> DEFINE voted  == AddVote(tracked, v, b, e)
             pruned == IF tracked.blockEpochMap[b] = NoEpoch
                       THEN PruneEpochBlocks(voted, e) ELSE voted
             scored == [pruned EXCEPT !.epochAttestations[e][b] = @ + Stake[v]]
  <2>1. tracked' = IF e \notin OpenEpochs(pruned) THEN CleanupTracking(scored) ELSE scored
    BY <1>4 DEF CountVote
  <2>2. Shrinks(tracked, voted) /\ IsTracking(voted)
    BY DEF WindowInv, AddVote, Shrinks, IsTracking
  <2> HIDE DEF voted
  <2>3. Shrinks(voted, pruned)
    BY <2>2, PruneShrinks DEF Shrinks
  <2>4. IsTracking(pruned)
    BY <2>3 DEF Shrinks
  <2>5. OpenEpochs(pruned) \subseteq OpenEpochs(tracked)
    BY <2>2, <2>3, ShrinksOpen DEF WindowInv
  <2> HIDE DEF pruned
  <2>6. IsTracking(scored) /\ OpenEpochs(scored) \subseteq OpenEpochs(pruned) \cup {e}
    <3> DEFINE ea == [pruned.epochAttestations EXCEPT ![e][b] = @ + Stake[v]]
    <3>1. ea \in [Epochs -> [Blocks -> Nat]]
      BY <2>4 DEF IsTracking
    <3>2. \A f \in Epochs \ {e} : ea[f] = pruned.epochAttestations[f]
      BY <2>4 DEF IsTracking
    <3>3. scored = [pruned EXCEPT !.epochAttestations = ea]
      BY <2>4 DEF IsTracking
    <3> HIDE DEF ea, scored
    <3>4. IsTracking(scored) /\ scored.epochAttestations = ea
      BY <2>4, <3>1, <3>3 DEF IsTracking
    <3> QED BY <3>2, <3>4 DEF OpenEpochs
  <2> HIDE DEF scored
  <2>7. CASE e \in OpenEpochs(pruned)
    BY <1>2, <2>1, <2>5, <2>6, <2>7
  <2>8. CASE e \notin OpenEpochs(pruned)
    BY <1>3, <2>1, <2>6, <2>8
  <2> QED BY <2>7, <2>8
<1>5. ASSUME tracked' = tracked
      PROVE  WindowInv'
  BY <1>2, <1>5 DEF WindowInv
<1>6. ASSUME NEW v \in Validators, NEW b \in Blocks, NEW e \in Epochs, ProcessAttestation(v, b, e)
      PROVE  WindowInv'
  BY <1>4, <1>5, <1>6 DEF ProcessAttestation, RejectInactive, ReportDoubleSign,
                          DetectEquivocation, IgnoreDuplicate
<1>7. CASE CleanupOldEpochs
  BY <1>3, <1>7 DEF CleanupOldEpochs, WindowInv
<1>8. CASE (\E v \in Validators : ReleaseFromJail(v)) \/ UNCHANGED vars
  BY <1>5, <1>8 DEF ReleaseFromJail, vars
<1> QED BY <1>6, <1>7, <1>8 DEF Next

\* The open epoch windows stay within the retention distance of each other until
\* something is finalized, whatever votes arrive in whatever order.
THEOREM WindowIsBounded == Spec => []EpochWindowBounded
<1>1. Init => WindowInv
  <2>1. Init => IsTracking(tracked) /\ OpenEpochs(tracked) = {}
    BY DEF Init, EmptyTracking, IsTracking, OpenEpochs
  <2> QED BY <2>1 DEF Init, WindowInv, CheckpointInv, NoCheckpoint, NoEpoch, EpochWindowBounded
<1>2. WindowInv => EpochWindowBounded
  BY DEF WindowInv
<1> QED BY <1>1, <1>2, WindowInvNext, PTL DEF Spec

=============================================================================
