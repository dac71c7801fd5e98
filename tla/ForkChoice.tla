----------------------------- MODULE ForkChoice -----------------------------
(***************************************************************************)
(* The attestation tracker of the fork choice (consensus/pos/fork_choice.go *)
(* and finality.go): which votes are counted for which block, how the       *)
(* tracked blocks and epochs are bounded, and how a quorum becomes a        *)
(* justified and then a finalized checkpoint.  Every operation runs under   *)
(* fc.mu, so each is one action; the slashing manager it calls is reduced   *)
(* to its verdict on the vote.  Stakes are those of the world state, fixed  *)
(* for the horizon of this model.                                           *)
(***************************************************************************)
EXTENDS Integers, Sequences, FiniteSets, FiniteSetsExt

CONSTANTS
  Validators,               \* addresses that may attest
  Blocks,                   \* block hashes
  None,                     \* "no block": an absent map entry
  MaxEpoch,                 \* bound on the epoch numbers met
  Stake,                    \* stake of each validator
  MaxBlocksPerEpoch,        \* ForkChoiceConfig.MaxBlocksPerEpoch
  MaxEpochsToKeep,          \* ForkChoiceConfig.MaxEpochsToKeep
  MaxSafetyRetention,       \* the hard cap of cleanupOldEpochsLocked (50)
  MaxAttestationsPerBlock,  \* ForkChoiceConfig.MaxAttestationsPerBlock
  CheckpointInterval,       \* config.Consensus.CheckpointInterval
  CheckpointRelocks,        \* TRUE in the code: EnsurePeriodicCheckpoint takes
                            \* fc.mu, which its caller ProcessAttestation holds
  MaxDeliveries,            \* bound on the distinct attestations delivered
  MaxEpochStake             \* bound on the stake recorded for a block in an epoch

Epochs == 0 .. MaxEpoch
NoEpoch == -1
NoCheckpoint == [epoch |-> NoEpoch, block |-> None]
Checkpoints == [epoch : Epochs, block : Blocks]

ASSUME ConstantsAssumption ==
  /\ MaxEpoch \in Nat
  /\ Stake \in [Validators -> Nat \ {0}]
  /\ MaxBlocksPerEpoch \in Nat \ {0}
  /\ MaxEpochsToKeep \in Nat
  /\ MaxSafetyRetention \in Nat
  /\ CheckpointInterval \in Nat \ {0}
  /\ CheckpointRelocks \in BOOLEAN
  /\ None \notin Blocks
  /\ MaxDeliveries \in Nat
  /\ MaxEpochStake \in Nat

VARIABLES
  tracked,         \* the per-block and per-epoch maps, one field per map
  latestMessages,  \* fc.latestMessages[epoch][validator], None when absent
  justified,       \* fc.justifiedCheckpoint
  finalized,       \* fc.finalizedCheckpoint
  muHeld,          \* fc.mu is held by a call that waits for fc.mu
  inactive,        \* validators the slashing manager or the registry refuses
  delivered        \* history: the attestations <<v, e, b>> handed in so far

vars == <<tracked, latestMessages, justified, finalized, muHeld, inactive,
          delivered>>

TotalStake == MapThenSumSet(LAMBDA v : Stake[v], Validators)
\* mutant: a third is enough
ThresholdOfOneThird == TotalStake \div 3
Threshold == (TotalStake * 2) \div 3 + 1

EmptyTracking ==
  [blockEpochMap         |-> [b \in Blocks |-> NoEpoch],
   blockScores           |-> [b \in Blocks |-> 0],
   validatorAttestations |-> [b \in Blocks |-> {}],
   attestationsByBlock   |-> [b \in Blocks |-> {}],
   epochAttestations     |-> [e \in Epochs |-> [b \in Blocks |-> 0]],
   epochBlockOrder       |-> [e \in Epochs |-> <<>>]]

Init ==
  /\ tracked = EmptyTracking
  /\ latestMessages = [e \in Epochs |-> [v \in Validators |-> None]]
  /\ justified = NoCheckpoint
  /\ finalized = NoCheckpoint
  /\ muHeld = FALSE
  /\ inactive = {}
  /\ delivered = {}

-----------------------------------------------------------------------------
(* Bounding the maps *)

\* epochs with a window in epochAttestations (empty windows are deleted)
OpenEpochs(t) == {e \in Epochs : \E b \in Blocks : t.epochAttestations[e][b] > 0}

\* removeTrackedBlockLocked for every block of R
Drop(t, R) ==
  [blockEpochMap         |-> [b \in Blocks |-> IF b \in R THEN NoEpoch ELSE t.blockEpochMap[b]],
   blockScores           |-> [b \in Blocks |-> IF b \in R THEN 0 ELSE t.blockScores[b]],
   validatorAttestations |-> [b \in Blocks |-> IF b \in R THEN {} ELSE t.validatorAttestations[b]],
   attestationsByBlock   |-> [b \in Blocks |-> IF b \in R THEN {} ELSE t.attestationsByBlock[b]],
   epochAttestations     |-> [e \in Epochs |-> [b \in Blocks |->
       IF b \in R /\ t.blockEpochMap[b] = e THEN 0 ELSE t.epochAttestations[e][b]]],
   epochBlockOrder       |-> [e \in Epochs |->
       SelectSeq(t.epochBlockOrder[e],
                 LAMBDA c : ~(c \in R /\ t.blockEpochMap[c] = e))]]

\* The array behind order once removeTrackedBlockLocked has filtered x out of it
\* in place (filtered := order[:0]): survivors move left, the old tail stays.
FilteredInPlace(order, x) ==
  LET kept == SelectSeq(order, LAMBDA c : c # x)
  IN  kept \o SubSeq(order, Len(kept) + 1, Len(order))

\* pruneEpochBlocksLocked: its local order[1:] shares the array just filtered
PruneEpochBlocks(t, e) ==
  LET order  == t.epochBlockOrder[e]
      oldest == Head(order)
      rest   == IF t.blockEpochMap[oldest] = e
                THEN Tail(FilteredInPlace(order, oldest))
                ELSE Tail(order)
  IN  IF Len(order) <= MaxBlocksPerEpoch
      THEN t
      ELSE [Drop(t, {oldest}) EXCEPT !.epochBlockOrder[e] = rest]

\* mutant: one epoch too many is retained
BelowCutoffOffByOne(S, e) ==
  \/ \E top \in S : e + MaxSafetyRetention < top
  \/ IF finalized = NoCheckpoint
     THEN \E top \in S : e + MaxEpochsToKeep + 1 < top
     ELSE e + 2 < finalized.epoch

\* e < cutoffEpoch in cleanupOldEpochsLocked, with the set S of open epochs
BelowCutoff(S, e) ==
  \/ \E top \in S : e + MaxSafetyRetention < top
  \/ IF finalized = NoCheckpoint
     THEN \E top \in S : e + MaxEpochsToKeep < top
     ELSE e + 2 < finalized.epoch

\* cleanupOldEpochsLocked
CleanupTracking(t) ==
  LET open == OpenEpochs(t)
      old  == {e \in Epochs : BelowCutoff(open, e)}
      dead == {b \in Blocks : t.blockEpochMap[b] \in old}
      cut  == [t EXCEPT
                 !.epochAttestations = [e \in Epochs |->
                    IF e \in old THEN [b \in Blocks |-> 0] ELSE t.epochAttestations[e]],
                 !.epochBlockOrder = [e \in Epochs |->
                    IF e \in old \cap open THEN <<>> ELSE t.epochBlockOrder[e]]]
  IN  Drop(cut, dead)

CleanupMessages(m, t) ==
  [e \in Epochs |-> IF BelowCutoff(OpenEpochs(t), e)
                    THEN [v \in Validators |-> None] ELSE m[e]]

-----------------------------------------------------------------------------
(* Checkpoints: finality.go, reached with the lock still held *)

\* mutant: an older epoch may replace the finalized one
FinalizationWithoutEpochCheck(e, t) ==
  LET f    == e - 2
      back == IF f >= 0 THEN t.epochAttestations[f] ELSE [b \in Blocks |-> 0]
      best == {b \in Blocks : back[b] > 0 /\ \A c \in Blocks : back[c] <= back[b]}
  IN  IF best = {}
      THEN finalized' = finalized
      ELSE \E b \in best : finalized' = [epoch |-> f, block |-> b]

\* mutant: a block without any stake in the epoch may be picked
FinalizationOfUnvotedBlock(e, t) ==
  LET f == e - 2
  IN  IF finalized.epoch >= f
      THEN finalized' = finalized
      ELSE \E b \in Blocks : finalized' = [epoch |-> f, block |-> b]

\* checkFinalization; map iteration order decides between equally backed blocks
CheckFinalization(e, t) ==
  LET f    == e - 2
      back == IF f >= 0 THEN t.epochAttestations[f] ELSE [b \in Blocks |-> 0]
      best == {b \in Blocks : back[b] > 0 /\ \A c \in Blocks : back[c] <= back[b]}
  IN  IF finalized.epoch >= f \/ best = {}
      THEN finalized' = finalized
      ELSE \E b \in best : finalized' = [epoch |-> f, block |-> b]

\* EnsurePeriodicCheckpoint, then checkJustification
Justify(e, b, t) ==
  LET periodic == IF e % CheckpointInterval = 0
                  THEN [epoch |-> e, block |-> b] ELSE justified
  IN  IF periodic.epoch >= e
      THEN justified' = periodic /\ finalized' = finalized
      ELSE /\ justified' = [epoch |-> e, block |-> b]
           /\ CheckFinalization(e, t)

\* The quorum branch of ProcessAttestation
Quorum(e, b, t) ==
  IF CheckpointRelocks
  THEN muHeld' = TRUE /\ UNCHANGED <<justified, finalized>>
  ELSE muHeld' = FALSE /\ Justify(e, b, t)

-----------------------------------------------------------------------------
(* ProcessAttestation, one action per way out of it *)

Deliver(v, b, e) ==
  /\ ~muHeld
  /\ delivered' = delivered \cup {<<v, e, b>>}
  /\ Cardinality(delivered') <= MaxDeliveries

\* ApplyDoubleVoteSlashing jails v unless this evidence was already processed
Slash(v) == inactive' \in {inactive, inactive \cup {v}}

\* jailed, or not an active validator
RejectInactive(v, b, e) ==
  /\ Deliver(v, b, e)
  /\ v \in inactive
  /\ UNCHANGED <<tracked, latestMessages, justified, finalized, muHeld, inactive>>

\* The slashing manager holds a conflicting record.  It may also have none (the
\* votes differ in slot, it was in its start-up grace period, its window rolled
\* over), which is why the other exits do not require the absence of a conflict.
ReportDoubleSign(v, b, e) ==
  /\ Deliver(v, b, e)
  /\ v \notin inactive
  /\ \E c \in Blocks \ {b} : <<v, e, c>> \in delivered
  /\ Slash(v)
  /\ UNCHANGED <<tracked, latestMessages, justified, finalized, muHeld>>

\* mutant: the comparison with the previous vote is dropped
EquivocationWithoutComparison(v, b, e) ==
  LET prev == latestMessages[e][v]
  IN  /\ Deliver(v, b, e)
      /\ v \notin inactive
      /\ prev # None
      /\ IF <<v, e>> \in tracked.attestationsByBlock[prev]
         THEN Slash(v) ELSE inactive' = inactive
      /\ UNCHANGED <<tracked, latestMessages, justified, finalized, muHeld>>

\* A different vote of v in this epoch is on record: slash it if that vote was
\* stored (findValidatorAttestation), never count the new one.
DetectEquivocation(v, b, e) ==
  LET prev == latestMessages[e][v]
  IN  /\ Deliver(v, b, e)
      /\ v \notin inactive
      /\ prev \notin {None, b}
      /\ IF <<v, e>> \in tracked.attestationsByBlock[prev]
         THEN Slash(v) ELSE inactive' = inactive
      /\ UNCHANGED <<tracked, latestMessages, justified, finalized, muHeld>>

\* v already supports b, through this attestation or that of another epoch
IgnoreDuplicate(v, b, e) ==
  /\ Deliver(v, b, e)
  /\ v \notin inactive
  /\ latestMessages[e][v] \in {None, b}
  /\ v \in tracked.validatorAttestations[b]
  /\ latestMessages' = [latestMessages EXCEPT ![e][v] = b]
  /\ UNCHANGED <<tracked, justified, finalized, muHeld, inactive>>

\* mutant: the supporter is not recorded
VoteWithoutSupporter(t, v, b, e) ==
  [t EXCEPT
     !.blockEpochMap[b] = e,
     !.blockScores[b] = @ + Stake[v],
     !.epochBlockOrder[e] = IF t.blockEpochMap[b] = NoEpoch THEN Append(@, b) ELSE @]

\* mutant: the block is filed under the next epoch
VoteInNextEpoch(t, v, b, e) ==
  [t EXCEPT
     !.blockEpochMap[b] = e + 1,
     !.blockScores[b] = @ + Stake[v],
     !.validatorAttestations[b] = @ \cup {v},
     !.epochBlockOrder[e] = IF t.blockEpochMap[b] = NoEpoch THEN Append(@, b) ELSE @]

AddVote(t, v, b, e) ==
  [t EXCEPT
     !.blockEpochMap[b] = e,
     !.blockScores[b] = @ + Stake[v],
     !.validatorAttestations[b] = @ \cup {v},
     !.attestationsByBlock[b] =
        IF Cardinality(@) < MaxAttestationsPerBlock THEN @ \cup {<<v, e>>} ELSE @,
     !.epochBlockOrder[e] = IF t.blockEpochMap[b] = NoEpoch THEN Append(@, b) ELSE @]

CountVote(v, b, e) ==
  LET isNewBlock == tracked.blockEpochMap[b] = NoEpoch
      voted      == AddVote(tracked, v, b, e)
      pruned     == IF isNewBlock THEN PruneEpochBlocks(voted, e) ELSE voted
      newWindow  == e \notin OpenEpochs(pruned)
      scored     == [pruned EXCEPT !.epochAttestations[e][b] = @ + Stake[v]]
      messages   == [latestMessages EXCEPT ![e][v] = b]
      final      == IF newWindow THEN CleanupTracking(scored) ELSE scored
  IN  /\ Deliver(v, b, e)
      /\ v \notin inactive
      /\ latestMessages[e][v] \in {None, b}
      /\ v \notin tracked.validatorAttestations[b]
      /\ scored.epochAttestations[e][b] <= MaxEpochStake
      /\ tracked' = final
      /\ latestMessages' = IF newWindow THEN CleanupMessages(messages, scored) ELSE messages
      /\ IF voted.blockScores[b] >= Threshold
         THEN Quorum(e, b, final)
         ELSE UNCHANGED <<justified, finalized, muHeld>>
      /\ inactive' = inactive

ProcessAttestation(v, b, e) ==
  \/ RejectInactive(v, b, e)
  \/ ReportDoubleSign(v, b, e)
  \/ DetectEquivocation(v, b, e)
  \/ IgnoreDuplicate(v, b, e)
  \/ CountVote(v, b, e)

-----------------------------------------------------------------------------
\* the background cleanup ticker
CleanupOldEpochs ==
  /\ ~muHeld
  /\ tracked' = CleanupTracking(tracked)
  /\ latestMessages' = CleanupMessages(latestMessages, tracked)
  /\ UNCHANGED <<justified, finalized, muHeld, inactive, delivered>>

\* The jail term of v ends (isValidatorJailed deletes the entry)
ReleaseFromJail(v) ==
  /\ v \in inactive
  /\ inactive' = inactive \ {v}
  /\ UNCHANGED <<tracked, latestMessages, justified, finalized, muHeld, delivered>>

Next ==
  \/ \E v \in Validators, b \in Blocks, e \in Epochs : ProcessAttestation(v, b, e)
  \/ CleanupOldEpochs
  \/ \E v \in Validators : ReleaseFromJail(v)

Spec == Init /\ [][Next]_vars

\* the goroutine inside ProcessAttestation keeps running
FairSpec == Spec /\ WF_vars(Next)

-----------------------------------------------------------------------------
TypeOK ==
  /\ tracked.blockEpochMap \in [Blocks -> Epochs \cup {NoEpoch}]
  /\ tracked.blockScores \in [Blocks -> Nat]
  /\ tracked.validatorAttestations \in [Blocks -> SUBSET Validators]
  /\ tracked.attestationsByBlock \in [Blocks -> SUBSET (Validators \X Epochs)]
  /\ tracked.epochAttestations \in [Epochs -> [Blocks -> Nat]]
  /\ \A e \in Epochs : \A i \in DOMAIN tracked.epochBlockOrder[e] :
        tracked.epochBlockOrder[e][i] \in Blocks
  /\ latestMessages \in [Epochs -> [Validators -> Blocks \cup {None}]]
  /\ justified \in Checkpoints \cup {NoCheckpoint}
  /\ finalized \in Checkpoints \cup {NoCheckpoint}
  /\ muHeld \in BOOLEAN
  /\ inactive \subseteq Validators
  /\ delivered \subseteq Validators \X Epochs \X Blocks

VotersFor(b) == {v \in Validators : \E e \in Epochs : <<v, e, b>> \in delivered}
StakeOf(S) == MapThenSumSet(LAMBDA v : Stake[v], S)

\* A tracked block's score is exactly the stake of its recorded supporters, each of
\* which did send a vote for it: no redelivery counts twice, and neither pruning nor
\* cleanup leaves a score or a supporter behind.
ScoreIsSupport ==
  \A b \in Blocks :
     /\ tracked.blockScores[b] = StakeOf(tracked.validatorAttestations[b])
     /\ tracked.validatorAttestations[b] \subseteq VotersFor(b)

\* Only a validator that really sent two blocks for one epoch is ever slashed,
\* however its votes interleave with the cleanup of the maps they are compared with.
OnlyEquivocatorsSlashed ==
  \A v \in inactive : \E e \in Epochs, b, c \in Blocks :
     b # c /\ <<v, e, b>> \in delivered /\ <<v, e, c>> \in delivered

\* Until something is finalized the open epoch windows stay within the retention
\* distance of the newest one (ProcessAttestation cleans up when it opens a window).
EpochWindowBounded ==
  \A e, top \in OpenEpochs(tracked) :
     finalized = NoCheckpoint => top <= e + MaxEpochsToKeep

\* A block becomes justified only when it received more than 2/3 of the stake in
\* attestations (checkJustification), counted over the whole history of votes.
JustifiedByQuorum ==
  justified # NoCheckpoint => 3 * StakeOf(VotersFor(justified.block)) > 2 * TotalStake

\* The block checkFinalization picks was voted for in the very epoch it finalizes.
FinalizedWasVoted ==
  finalized # NoCheckpoint =>
     \E v \in Validators : <<v, finalized.epoch, finalized.block>> \in delivered

\* The finalized checkpoint never moves back to an older epoch nor changes block.
FinalityAdvances ==
  [][finalized' # finalized => finalized'.epoch > finalized.epoch]_vars

\* Redelivering an attestation adds nothing ("Same block, allow (idempotent)"): the
\* stake recorded for a block in an epoch is at most that of the validators that
\* voted for the block in the epoch.
EpochStakeBacked ==
  \A e \in Epochs, b \in Blocks : tracked.epochAttestations[e][b] <=
     StakeOf({v \in Validators : <<v, e, b>> \in delivered})

\* MaxBlocksPerEpoch bounds the blocks tracked for an epoch
\* (ForkChoiceConfig: "Maximum blocks to track per epoch").
BlocksPerEpochBounded ==
  \A e \in Epochs :
     Cardinality({b \in Blocks : tracked.blockEpochMap[b] = e}) <= MaxBlocksPerEpoch

\* A block whose votes reach the quorum gets a justified checkpoint
\* (checkJustification: "A block becomes justified when it receives 2/3+ of total
\* stake in attestations").
QuorumJustifies ==
  (\E b \in Blocks : tracked.blockScores[b] >= Threshold) ~> (justified # NoCheckpoint)

=============================================================================
