-------------------------- MODULE ConsensusEngine ---------------------------
(***************************************************************************)
(* One node's consensus engine (consensus/pos/consensus.go): the slot loop,  *)
(* the goroutines it leaves behind, the message handler, the bridge          *)
(* (bridge.go) and the node loops (node/node.go) that share its channels.    *)
(* ce.mu is released around the proposal, so a slot is several steps; what   *)
(* runs under one hold of ce.mu is one step.  Signatures, VRF proofs and     *)
(* timestamps are reduced to "this message is acceptable"; the slashing      *)
(* manager to the set of validators it refuses.                              *)
(* Left out: blockProductionLoop of the node, whose blocks carry no VRF      *)
(* proof and so fail validateVRFProof as soon as a second validator exists,  *)
(* and the reorganisation at the end of updateForkChoice, which needs a      *)
(* stored block that is not on the current chain: AddBlock stores none.      *)
(***************************************************************************)
EXTENDS Integers, Sequences, FiniteSets

CONSTANTS
  Me, Others,              \* this node's validator and the other ones
  Schedule(_, _),          \* validatorSet.BuildEpochSchedule: set, slot -> proposer
  SlotsPerEpoch,           \* slotsPerEpoch (32)
  MinActiveValidators,     \* config.Consensus.MinActiveValidators
  ReinitHeight,            \* below it every slot reloads the validator set (50)
  GraceHeight,             \* below it nobody is charged with a miss (100)
  MissLimit,               \* consecutive misses that are reported (10)
  BroadcastCap, ReceiveCap,  \* capacities of the two channels (1000)
  IsSyncingRelocks,        \* TRUE in the code: IsSyncing takes ce.mu, which
                           \* handleBlockProposal holds when it calls it
  MaxSlot, MaxHeight,      \* bounds on the slots of a run and on the chain
  PeerSlots,               \* slots of the blocks and attestations of the others
  MaxRestarts              \* bound on the restarts

Validators == {Me} \cup Others
Slots == 0 .. MaxSlot

ASSUME ScheduleAssumption ==
  \A S \in SUBSET Validators, s \in Slots : S # {} => Schedule(S, s) \in S

ASSUME EngineConstants ==
  /\ Me \notin Others
  /\ SlotsPerEpoch \in Nat \ {0}
  /\ MinActiveValidators \in Nat /\ ReinitHeight \in Nat /\ GraceHeight \in Nat
  /\ MissLimit \in Nat /\ BroadcastCap \in Nat /\ ReceiveCap \in Nat
  /\ IsSyncingRelocks \in BOOLEAN
  /\ PeerSlots \subseteq 1 .. MaxSlot
  /\ MaxSlot \in Nat /\ MaxHeight \in Nat /\ MaxRestarts \in Nat

VARIABLES
  chain,              \* the blocks above genesis, each [by, slot]; persisted
  validators,         \* active validators of the world state; persisted
  suspended,          \* validators the slashing manager refuses; persisted
  validatorSet,       \* ce.validatorSet
  phase,              \* of Node.Start: "boot", "syncing", "running"
  mu,                 \* ce.mu between steps: "free", or "stuck" in a handler
  pc,                 \* where processSlot is
  draft,              \* the block under proposal and the chain it was built on
  currentSlot, lastAttestedEpoch, validatorsSynced,
  misses,             \* validatorActivity[v].MissedProposals
  broadcastChan, receiveChan,
  queued,             \* history: own attestations broadcast since the start
  cast,               \* history: own attestations signed, over all starts
  restarts

stored == <<chain, validators, suspended>>
slot == <<pc, draft, currentSlot, lastAttestedEpoch, validatorsSynced, misses>>
votes == <<queued, cast>>
channels == <<broadcastChan, receiveChan>>
vars == <<stored, validatorSet, phase, mu, slot, votes, channels, restarts>>

Blocks == [by : Validators, slot : Slots]
Attestations == [who : Validators, epoch : Nat, slot : Slots, block : Seq(Blocks)]
Drafts == [parent : Seq(Blocks), block : Blocks]
Messages == [kind : {"proposal"}, parent : Seq(Blocks), block : Blocks]
            \cup [kind : {"attestation"}, att : Attestations]
            \cup [kind : {"untyped"}]
NoDraft == [parent |-> <<>>, block |-> [by |-> Me, slot |-> 0]]
Steps == {"idle", "warm", "build", "add", "send", "attest"}

Init ==
  /\ chain = <<>>
  /\ validators = {Me}
  /\ suspended = {}
  /\ validatorSet = validators
  /\ phase = "boot"
  /\ mu = "free"
  /\ pc = "idle"
  /\ draft = NoDraft
  /\ currentSlot = 0
  /\ lastAttestedEpoch = 0
  /\ validatorsSynced = FALSE
  /\ misses = [v \in Validators |-> 0]
  /\ broadcastChan = <<>>
  /\ receiveChan = <<>>
  /\ queued = {}
  /\ cast = {}
  /\ restarts = 0

-----------------------------------------------------------------------------
(* processSlot *)

IsSyncing == phase = "syncing"

\* mutant: the whole list of known addresses is loaded
ReinitializedFromAll == IF Len(chain) < ReinitHeight THEN Validators ELSE validatorSet

\* the validator set after the first statement of processSlot
Reinitialized == IF Len(chain) < ReinitHeight THEN validators ELSE validatorSet

SlotStarts == pc = "idle" /\ mu = "free"
MaySlot == Cardinality(Reinitialized) >= MinActiveValidators /\ ~IsSyncing

\* too few validators, or syncing
SkipSlot ==
  /\ SlotStarts
  /\ ~MaySlot
  /\ validatorSet' = Reinitialized
  /\ UNCHANGED <<stored, phase, mu, slot, votes, channels, restarts>>

\* the one-time propagation delay: ce.mu is free during the sleep
WaitForAnnouncements ==
  /\ SlotStarts
  /\ MaySlot
  /\ ~validatorsSynced
  /\ validatorsSynced' = TRUE
  /\ pc' = "warm"
  /\ validatorSet' = Reinitialized
  /\ UNCHANGED <<stored, phase, mu, draft, currentSlot, lastAttestedEpoch, misses,
                 votes, channels, restarts>>

\* getEligibleProposers, in recovery mode every validator
Candidates(set, out) == IF set \ out # {} THEN set \ out ELSE validators

\* updateValidatorActivity for the previous slot: the possible pairs of miss
\* counters and suspended validators.  ReportBlockWithholding may fail, succeed
\* without effect (evidence taken for processed) or suspend the validator.
Activity(set) ==
  LET v        == Schedule(Candidates(set, suspended), currentSlot)
      produced == chain # <<>> /\ chain[Len(chain)].slot = currentSlot
      missed   == [misses EXCEPT ![v] = @ + 1]
      cleared  == [misses EXCEPT ![v] = 0]
  IN  IF currentSlot = 0 \/ Len(chain) < GraceHeight \/ Candidates(set, suspended) = {}
      THEN {<<misses, suspended>>}
      ELSE IF produced
           THEN {<<cleared, suspended>>}
           ELSE {<<missed, suspended>>} \cup
                IF missed[v] < MissLimit THEN {}
                ELSE {<<cleared, suspended>>, <<cleared, suspended \cup {v}>>}

\* The rest of the locked part.  A proposer that is not active is found in recovery
\* mode only, and then kept, so the fallback of the code never picks another one.
Advance(set) ==
  /\ currentSlot < MaxSlot
  /\ currentSlot' = currentSlot + 1
  /\ validatorSet' = set
  /\ \E after \in Activity(set) :
       LET from == Candidates(set, after[2])
       IN  /\ misses' = after[1]
           /\ suspended' = after[2]
           /\ pc' = IF from = {} THEN "idle"
                    ELSE IF Schedule(from, currentSlot + 1) = Me THEN "build"
                    ELSE "attest"
  /\ UNCHANGED <<chain, validators, phase, mu, draft, lastAttestedEpoch,
                 validatorsSynced, votes, channels, restarts>>

EnterSlot == SlotStarts /\ MaySlot /\ validatorsSynced /\ Advance(Reinitialized)

\* after the sleep neither isSyncing nor the size of the set is looked at again
ResumeSlot == pc = "warm" /\ mu = "free" /\ Advance(validatorSet)

-----------------------------------------------------------------------------
(* proposeBlock, without ce.mu *)

BuildBlock ==
  /\ pc = "build"
  /\ draft' = [parent |-> chain, block |-> [by |-> Me, slot |-> currentSlot]]
  /\ pc' = "add"
  /\ UNCHANGED <<stored, validatorSet, phase, mu, currentSlot, lastAttestedEpoch,
                 validatorsSynced, misses, votes, channels, restarts>>

\* VRF, assembly or signature fails
BuildFails ==
  /\ pc = "build"
  /\ pc' = "attest"
  /\ UNCHANGED <<stored, validatorSet, phase, mu, draft, currentSlot,
                 lastAttestedEpoch, validatorsSynced, misses, votes, channels, restarts>>

\* mutant: the parent of the block is not compared with the head
AddWithoutParentCheck ==
  /\ pc = "add"
  /\ chain' = Append(draft.parent, draft.block)
  /\ pc' = "send"
  /\ UNCHANGED <<validators, suspended, validatorSet, phase, mu, draft, currentSlot,
                 lastAttestedEpoch, validatorsSynced, misses, votes, channels, restarts>>

\* mutant: the block is broadcast even when it was not added
SendWhateverAddSays ==
  /\ pc = "add"
  /\ chain' = IF draft.parent = chain /\ Len(chain) < MaxHeight
              THEN Append(chain, draft.block) ELSE chain
  /\ pc' = "send"
  /\ UNCHANGED <<validators, suspended, validatorSet, phase, mu, draft, currentSlot,
                 lastAttestedEpoch, validatorsSynced, misses, votes, channels, restarts>>

\* worldState.AddBlock refuses a block that does not extend the current head
AddOwnBlock ==
  /\ pc = "add"
  /\ IF draft.parent = chain /\ Len(chain) < MaxHeight
     THEN chain' = Append(chain, draft.block) /\ pc' = "send"
     ELSE chain' = chain /\ pc' = "attest"
  /\ UNCHANGED <<validators, suspended, validatorSet, phase, mu, draft, currentSlot,
                 lastAttestedEpoch, validatorsSynced, misses, votes, channels, restarts>>

Proposal(d) == [kind |-> "proposal", parent |-> d.parent, block |-> d.block]

QueueProposal ==
  /\ pc = "send"
  /\ Len(broadcastChan) < BroadcastCap
  /\ broadcastChan' = Append(broadcastChan, Proposal(draft))
  /\ pc' = "attest"
  /\ UNCHANGED <<stored, validatorSet, phase, mu, draft, currentSlot,
                 lastAttestedEpoch, validatorsSynced, misses, votes, receiveChan, restarts>>

\* mutant: a plain send, which waits for room
WaitForRoom == FALSE /\ UNCHANGED vars

\* "broadcast channel blocked for 2s, proposal lost"
LoseProposal ==
  /\ pc = "send"
  /\ Len(broadcastChan) >= BroadcastCap
  /\ pc' = "attest"
  /\ UNCHANGED <<stored, validatorSet, phase, mu, draft, currentSlot,
                 lastAttestedEpoch, validatorsSynced, misses, votes, channels, restarts>>

-----------------------------------------------------------------------------
(* The attestation, again under ce.mu *)

CurrentEpoch == currentSlot \div SlotsPerEpoch

OwnAttestation ==
  [who |-> Me, epoch |-> CurrentEpoch, slot |-> currentSlot, block |-> chain]

\* mutant: the epoch just attested passes the guard
AlreadyAttestedOlder == CurrentEpoch < lastAttestedEpoch /\ currentSlot > 0
AlreadyAttested == CurrentEpoch <= lastAttestedEpoch /\ currentSlot > 0

\* isCurrentNodeValidator and createAttestation
CreateAttestation ==
  IF Me \notin validators \/ AlreadyAttested
  THEN UNCHANGED <<lastAttestedEpoch, broadcastChan, queued, cast>>
  ELSE /\ cast' = cast \cup {OwnAttestation}
       /\ IF Len(broadcastChan) < BroadcastCap
          THEN /\ broadcastChan' =
                    Append(broadcastChan, [kind |-> "attestation", att |-> OwnAttestation])
               /\ lastAttestedEpoch' = CurrentEpoch
               /\ queued' = queued \cup {OwnAttestation}
          ELSE UNCHANGED <<broadcastChan, lastAttestedEpoch, queued>>

\* The end of processSlot.  The attestations it copies for the goroutine it starts are
\* delivered to the fork choice in any order and any number of times: ForkChoice.
Attest ==
  /\ pc = "attest"
  /\ mu = "free"
  /\ CreateAttestation
  /\ pc' = "idle"
  /\ UNCHANGED <<stored, validatorSet, phase, mu, draft, currentSlot, validatorsSynced,
                 misses, receiveChan, restarts>>

-----------------------------------------------------------------------------
(* Messages from the network *)

\* bridge.go and processP2PMessages write to receiveChan and wait when it is full.
\* A block goes to whichever of the two takes it from BlockChan.  Attestations taken
\* by processP2PMessages, and all votes, have a type messageHandler has no case for.
Forward(m) ==
  /\ phase # "boot"
  /\ Len(receiveChan) < ReceiveCap
  /\ receiveChan' = Append(receiveChan, m)
  /\ UNCHANGED <<stored, validatorSet, phase, mu, slot, votes, broadcastChan, restarts>>

BlockToBridge(w, s) ==
  Forward(Proposal([parent |-> chain, block |-> [by |-> w, slot |-> s]]))

AttestationToBridge(w, s) ==
  Forward([kind |-> "attestation",
           att |-> [who |-> w, epoch |-> s \div SlotsPerEpoch, slot |-> s, block |-> chain]])

UntypedMessage == Forward([kind |-> "untyped"])

\* processP2PMessages: blockchain.AddBlock, or AddBlockFromSync while syncing.  Both
\* call ValidateBlock, and IsSyncing before it, so they wait for ce.mu.
BlockToNode(w, s) ==
  /\ phase # "boot"
  /\ mu = "free"
  /\ w \in validators
  /\ Len(chain) < MaxHeight
  /\ chain' = Append(chain, [by |-> w, slot |-> s])
  /\ UNCHANGED <<validators, suspended, validatorSet, phase, mu, slot, votes, channels,
                 restarts>>

\* ValidateBlock up to its call of IsSyncing
WellFormed(m) == m.parent = chain /\ m.block.by \in validators

\* The rest of handleBlockProposal
AddProposal(m) ==
  chain' = IF /\ Candidates(validatorSet, suspended) # {}
              /\ Schedule(Candidates(validatorSet, suspended), m.block.slot) = m.block.by
              /\ Len(chain) < MaxHeight
           THEN Append(chain, m.block) ELSE chain

HandleBlockProposal(m) ==
  /\ m.kind = "proposal"
  /\ IF ~WellFormed(m)
     THEN UNCHANGED <<chain, mu>>
     ELSE IF IsSyncingRelocks
          THEN mu' = "stuck" /\ chain' = chain
          ELSE mu' = mu /\ AddProposal(m)

\* handleAttestation delivers to the fork choice, or refuses
HandleAttestation(m) == m.kind = "attestation" /\ UNCHANGED <<chain, mu>>

IgnoreUntyped(m) == m.kind = "untyped" /\ UNCHANGED <<chain, mu>>

MessageHandler ==
  /\ receiveChan # <<>>
  /\ mu = "free"
  /\ LET m == Head(receiveChan)
     IN  HandleBlockProposal(m) \/ HandleAttestation(m) \/ IgnoreUntyped(m)
  /\ receiveChan' = Tail(receiveChan)
  /\ UNCHANGED <<validators, suspended, validatorSet, phase, slot, votes,
                 broadcastChan, restarts>>

\* networkingLoop reads the same channel and throws the message away
DiscardMessage ==
  /\ phase = "running"
  /\ receiveChan # <<>>
  /\ receiveChan' = Tail(receiveChan)
  /\ UNCHANGED <<stored, validatorSet, phase, mu, slot, votes, broadcastChan, restarts>>

\* forwardConsensusToNetwork or networkingLoop
SendBroadcast ==
  /\ broadcastChan # <<>>
  /\ broadcastChan' = Tail(broadcastChan)
  /\ UNCHANGED <<stored, validatorSet, phase, mu, slot, votes, receiveChan, restarts>>

-----------------------------------------------------------------------------
(* The rest of the node *)

RegisterDiscoveredValidator(w) ==
  /\ phase # "boot"
  /\ validators' = validators \cup {w}
  /\ UNCHANGED <<chain, suspended, validatorSet, phase, mu, slot, votes, channels, restarts>>

\* penalties and releases by the slashing manager
ChangeSuspension(v) ==
  /\ suspended' = IF v \in suspended THEN suspended \ {v} ELSE suspended \cup {v}
  /\ UNCHANGED <<chain, validators, validatorSet, phase, mu, slot, votes, channels, restarts>>

\* Node.Start: SetSyncing(true) unless this is node 1, SetSyncing(false) when done.
\* The genesis sync of the other nodes reloads the validator set.
ContinueStart ==
  /\ mu = "free"
  /\ \/ phase = "boot" /\ phase' \in {"syncing", "running"} /\ validatorSet' = validatorSet
     \/ phase = "syncing" /\ phase' = "running" /\ validatorSet' = validators
  /\ UNCHANGED <<stored, mu, slot, votes, channels, restarts>>

\* a new process: only what is persisted survives
Restart ==
  /\ restarts < MaxRestarts
  /\ restarts' = restarts + 1
  /\ phase' = "boot"
  /\ mu' = "free"
  /\ pc' = "idle"
  /\ draft' = NoDraft
  /\ currentSlot' = 0
  /\ lastAttestedEpoch' = 0
  /\ validatorsSynced' = FALSE
  /\ misses' = [v \in Validators |-> 0]
  /\ broadcastChan' = <<>>
  /\ receiveChan' = <<>>
  /\ queued' = {}
  /\ validatorSet' = validators
  /\ UNCHANGED <<stored, cast>>

SlotLoop ==
  \/ EnterSlot \/ WaitForAnnouncements \/ ResumeSlot
  \/ BuildBlock \/ BuildFails \/ AddOwnBlock \/ QueueProposal \/ LoseProposal
  \/ Attest

Next ==
  \/ SlotLoop
  \/ SkipSlot
  \/ \E w \in Others, s \in PeerSlots :
        BlockToBridge(w, s) \/ BlockToNode(w, s) \/ AttestationToBridge(w, s)
  \/ UntypedMessage
  \/ MessageHandler
  \/ DiscardMessage
  \/ SendBroadcast
  \/ \E w \in Others : RegisterDiscoveredValidator(w)
  \/ \E v \in Validators : ChangeSuspension(v)
  \/ ContinueStart
  \/ Restart

Spec == Init /\ [][Next]_vars

\* consensusLoop is a goroutine that keeps running; nothing is assumed of the network
FairSpec == Spec /\ WF_vars(SlotLoop)

-----------------------------------------------------------------------------
TypeOK ==
  /\ chain \in Seq(Blocks)
  /\ validators \subseteq Validators /\ suspended \subseteq Validators
  /\ validatorSet \subseteq validators
  /\ phase \in {"boot", "syncing", "running"}
  /\ mu \in {"free", "stuck"}
  /\ pc \in Steps
  /\ draft \in Drafts
  /\ broadcastChan \in Seq(Messages) /\ receiveChan \in Seq(Messages)
  /\ currentSlot \in Slots /\ lastAttestedEpoch \in Nat
  /\ validatorsSynced \in BOOLEAN
  /\ misses \in [Validators -> Nat]
  /\ queued \subseteq Attestations /\ cast \subseteq Attestations
  /\ restarts \in Nat

\* Between two starts the node broadcasts at most one attestation per epoch
\* (createAttestation's guard), whatever happens to the head, the channel and the
\* validator set between the slots of the epoch.
OneBroadcastPerEpoch ==
  \A a, b \in queued : a.epoch = b.epoch => a = b

\* Blocks are never taken off or replaced, although the slot loop builds on a head it
\* read without a lock while the message handler and the P2P loop add blocks.
ChainOnlyGrows ==
  [][\A i \in DOMAIN chain : i \in DOMAIN chain' /\ chain'[i] = chain[i]]_vars

\* A block handed to the network is on the node's own chain, at the height it was
\* built for ("Add to local state first").
ProposalsAreLocal ==
  \A i \in DOMAIN broadcastChan :
     broadcastChan[i].kind = "proposal" =>
        LET h == Len(broadcastChan[i].parent) + 1
        IN  h \in DOMAIN chain /\ chain[h] = broadcastChan[i].block

\* A slot that has begun is finished: the proposal does not wait for the network for
\* ever, and ce.mu is free for the attestation ("Unlock before P2P Network Operations").
SlotCompletes ==
  (pc \in {"build", "add", "send", "attest"}) ~> (pc = "idle")

\* The node never signs attestations for two blocks in one epoch ("We already voted
\* for this epoch, skip to avoid self-slashing").
NoSelfEquivocation ==
  \A a, b \in cast : a.epoch = b.epoch => a.block = b.block

=============================================================================
