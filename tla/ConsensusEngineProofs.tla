----------------------- MODULE ConsensusEngineProofs ------------------------
(***************************************************************************)
(* Proofs about ConsensusEngine for every number of validators, slots and   *)
(* restarts, every schedule and every channel capacity.                     *)
(***************************************************************************)
EXTENDS ConsensusEngine, TLAPS

\* Appending a block keeps a chain a chain, with every older block in its place: the
\* only way AddBlock changes the chain.
LEMMA AppendedChain ==
  ASSUME NEW c \in Seq(Blocks), NEW b \in Blocks
  PROVE  /\ Append(c, b) \in Seq(Blocks)
         /\ Len(Append(c, b)) = Len(c) + 1
         /\ \A i \in DOMAIN c : i \in DOMAIN Append(c, b) /\ Append(c, b)[i] = c[i]
         /\ Len(c) + 1 \in DOMAIN Append(c, b)
         /\ Append(c, b)[Len(c) + 1] = b
OBVIOUS

\* The epoch of a slot is a natural number.
LEMMA EpochIsNat ==
  ASSUME NEW s \in Nat
  PROVE  s \div SlotsPerEpoch \in Nat
BY EngineConstants DEF EngineConstants

\* Advance, the locked part of processSlot, keeps the types, whatever the activity
\* tracking decides.
LEMMA AdvanceTyped ==
  ASSUME TypeOK, NEW set \in SUBSET validators, Advance(set)
  PROVE  TypeOK'
<1> DEFINE v == Schedule(Candidates(set, suspended), currentSlot)
<1>1. currentSlot' \in Slots /\ currentSlot \in Slots
  BY EngineConstants DEF EngineConstants, TypeOK, Advance, Slots
<1>2. Candidates(set, suspended) \subseteq Validators
  BY DEF Candidates, TypeOK
<1>3. Candidates(set, suspended) # {} => v \in Validators
  BY <1>1, <1>2, ScheduleAssumption DEF ScheduleAssumption
<1>4. PICK after \in Activity(set) :
        /\ misses' = after[1] /\ suspended' = after[2]
        /\ pc' \in {"idle", "build", "attest"}
  BY DEF Advance
<1>5. misses \in [Validators -> Nat] /\ suspended \subseteq Validators
  BY DEF TypeOK
<1>6. misses' \in [Validators -> Nat] /\ suspended' \subseteq Validators
  <2>1. CASE after = <<misses, suspended>>
    BY <2>1, <1>4, <1>5
  <2>2. CASE Candidates(set, suspended) # {} /\ after # <<misses, suspended>>
    <3> DEFINE m1 == [misses EXCEPT ![v] = @ + 1]
               m0 == [misses EXCEPT ![v] = 0]
    <3>1. m1 \in [Validators -> Nat] /\ m0 \in [Validators -> Nat]
      BY <1>3, <1>5, <2>2
    <3>2. after \in {<<m0, suspended>>, <<m1, suspended>>, <<m0, suspended \cup {v}>>}
      BY <1>4, <2>2 DEF Activity
    <3> HIDE DEF m0, m1, v
    <3> QED  BY <3>1, <3>2, <1>3, <1>4, <1>5, <2>2
  <2>3. Candidates(set, suspended) = {} => after = <<misses, suspended>>
    BY <1>4 DEF Activity
  <2> QED  BY <2>1, <2>2, <2>3
<1> QED
  BY <1>1, <1>4, <1>6 DEF TypeOK, Advance, votes, channels, Steps

\* A message put into receiveChan by the bridge or by processP2PMessages keeps the types.
LEMMA ForwardTyped ==
  ASSUME TypeOK, NEW m \in Messages, Forward(m)
  PROVE  TypeOK'
BY DEF TypeOK, Forward, stored, slot, votes

\* The record createAttestation signs is an attestation.
LEMMA OwnAttestationTyped ==
  ASSUME TypeOK
  PROVE  /\ OwnAttestation \in Attestations
         /\ CurrentEpoch \in Nat
<1>1. currentSlot \in Nat /\ currentSlot \in Slots /\ chain \in Seq(Blocks)
  BY EngineConstants DEF EngineConstants, TypeOK, Slots
<1>2. CurrentEpoch \in Nat
  BY <1>1, EpochIsNat DEF CurrentEpoch
<1> QED
  BY <1>1, <1>2 DEF OwnAttestation, Attestations, Validators

\* Every step keeps the types.
LEMMA TypeStep ==
  ASSUME TypeOK, [Next]_vars
  PROVE  TypeOK'
<1> USE DEF stored, slot, votes, channels
<1>1. CASE EnterSlot
  <2>1. Reinitialized \in SUBSET validators
    BY DEF Reinitialized, TypeOK
  <2> QED  BY <1>1, <2>1, AdvanceTyped DEF EnterSlot
<1>2. CASE ResumeSlot
  BY <1>2, AdvanceTyped DEF ResumeSlot, TypeOK
<1>3. CASE WaitForAnnouncements
  BY <1>3 DEF WaitForAnnouncements, TypeOK, Reinitialized, Steps
<1>4. CASE SkipSlot
  BY <1>4 DEF SkipSlot, TypeOK, Reinitialized
<1>5. CASE BuildBlock
  <2>1. [by |-> Me, slot |-> currentSlot] \in Blocks
    BY DEF TypeOK, Blocks, Validators
  <2>2. draft' \in Drafts
    BY <1>5, <2>1 DEF BuildBlock, TypeOK, Drafts
  <2> QED  BY <1>5, <2>2 DEF BuildBlock, TypeOK, Steps
<1>6. CASE BuildFails
  BY <1>6 DEF BuildFails, TypeOK, Steps
<1>7. CASE AddOwnBlock
  <2>1. draft.block \in Blocks
    BY DEF TypeOK, Drafts
  <2>2. chain' \in Seq(Blocks)
    BY <1>7, <2>1, AppendedChain DEF AddOwnBlock, TypeOK
  <2> QED  BY <1>7, <2>2 DEF AddOwnBlock, TypeOK, Steps
<1>8. CASE QueueProposal
  <2>1. Proposal(draft) \in Messages
    BY DEF TypeOK, Drafts, Proposal, Messages
  <2> QED  BY <1>8, <2>1 DEF QueueProposal, TypeOK, Steps
<1>9. CASE LoseProposal
  BY <1>9 DEF LoseProposal, TypeOK, Steps
<1>10. CASE Attest
  <2> DEFINE msg == [kind |-> "attestation", att |-> OwnAttestation]
  <2>1. msg \in Messages
    BY OwnAttestationTyped DEF Messages
  <2>2. CASE Me \notin validators \/ AlreadyAttested
    BY <1>10, <2>2 DEF Attest, CreateAttestation, TypeOK, Steps
  <2>3. CASE ~(Me \notin validators \/ AlreadyAttested)
    <3>1. OwnAttestation \in Attestations /\ CurrentEpoch \in Nat
      BY OwnAttestationTyped
    <3>2. cast' = cast \cup {OwnAttestation} /\ pc' = "idle"
      BY <1>10, <2>3 DEF Attest, CreateAttestation
    <3>3. /\ broadcastChan' \in Seq(Messages)
          /\ lastAttestedEpoch' \in Nat
          /\ queued' \subseteq Attestations
      <4>1. CASE Len(broadcastChan) < BroadcastCap
        <5>1. /\ broadcastChan' = Append(broadcastChan, msg)
              /\ lastAttestedEpoch' = CurrentEpoch
              /\ queued' = queued \cup {OwnAttestation}
          BY <1>10, <2>3, <4>1 DEF Attest, CreateAttestation
        <5> HIDE DEF msg
        <5> QED  BY <2>1, <3>1, <5>1 DEF TypeOK
      <4>2. CASE ~(Len(broadcastChan) < BroadcastCap)
        BY <1>10, <2>3, <4>2 DEF Attest, CreateAttestation, TypeOK
      <4> QED  BY <4>1, <4>2
    <3> HIDE DEF OwnAttestation
    <3> QED  BY <1>10, <3>1, <3>2, <3>3 DEF Attest, TypeOK, Steps
  <2> QED  BY <2>2, <2>3
<1>11. ASSUME NEW w \in Others, NEW s \in PeerSlots,
              BlockToBridge(w, s) \/ BlockToNode(w, s) \/ AttestationToBridge(w, s)
       PROVE  TypeOK'
  <2>1. s \in Slots /\ s \in Nat /\ w \in Validators
    BY EngineConstants DEF EngineConstants, Slots, Validators
  <2>2. [by |-> w, slot |-> s] \in Blocks
    BY <2>1 DEF Blocks
  <2>3. CASE BlockToBridge(w, s)
    <3>1. Proposal([parent |-> chain, block |-> [by |-> w, slot |-> s]]) \in Messages
      BY <2>2 DEF TypeOK, Proposal, Messages
    <3> QED  BY <2>3, <3>1, ForwardTyped DEF BlockToBridge
  <2>4. CASE BlockToNode(w, s)
    <3>1. chain' \in Seq(Blocks)
      BY <2>2, <2>4, AppendedChain DEF BlockToNode, TypeOK
    <3> QED  BY <2>4, <3>1 DEF BlockToNode, TypeOK
  <2>5. CASE AttestationToBridge(w, s)
    <3> DEFINE a == [who |-> w, epoch |-> s \div SlotsPerEpoch, slot |-> s, block |-> chain]
    <3>1. a \in Attestations
      BY <2>1, EpochIsNat DEF Attestations, TypeOK
    <3>2. [kind |-> "attestation", att |-> a] \in Messages
      BY <3>1 DEF Messages
    <3> QED  BY <2>5, <3>2, ForwardTyped DEF AttestationToBridge
  <2> QED  BY <1>11, <2>3, <2>4, <2>5
<1>12. CASE UntypedMessage
  <2>1. [kind |-> "untyped"] \in Messages
    BY DEF Messages
  <2> QED  BY <1>12, <2>1, ForwardTyped DEF UntypedMessage
<1>13. CASE MessageHandler
  <2> DEFINE m == Head(receiveChan)
  <2>1. m \in Messages /\ receiveChan' \in Seq(Messages)
    BY <1>13 DEF MessageHandler, TypeOK
  <2>2. m.kind = "proposal" => m.block \in Blocks
    BY <2>1 DEF Messages
  <2>3. chain' \in Seq(Blocks) /\ mu' \in {"free", "stuck"}
    <3> HIDE DEF m
    <3>1. HandleBlockProposal(m) \/ HandleAttestation(m) \/ IgnoreUntyped(m)
      BY <1>13 DEF MessageHandler, m
    <3>2. CASE HandleBlockProposal(m)
      <4>1. m.block \in Blocks
        BY <2>2, <3>2 DEF HandleBlockProposal
      <4>2. chain' = chain \/ chain' = Append(chain, m.block)
        BY <3>2 DEF HandleBlockProposal, AddProposal
      <4>3. mu' = mu \/ mu' = "stuck"
        BY <3>2 DEF HandleBlockProposal
      <4> QED  BY <4>1, <4>2, <4>3, AppendedChain DEF TypeOK
    <3>3. CASE HandleAttestation(m) \/ IgnoreUntyped(m)
      BY <3>3 DEF HandleAttestation, IgnoreUntyped, TypeOK
    <3> QED  BY <3>1, <3>2, <3>3
  <2> QED  BY <1>13, <2>1, <2>3 DEF MessageHandler, TypeOK
<1>14. CASE DiscardMessage
  BY <1>14 DEF DiscardMessage, TypeOK
<1>15. CASE SendBroadcast
  BY <1>15 DEF SendBroadcast, TypeOK
<1>16. ASSUME NEW w \in Others, RegisterDiscoveredValidator(w)
       PROVE  TypeOK'
  BY <1>16 DEF RegisterDiscoveredValidator, TypeOK, Validators
<1>17. ASSUME NEW v \in Validators, ChangeSuspension(v)
       PROVE  TypeOK'
  BY <1>17 DEF ChangeSuspension, TypeOK
<1>18. CASE ContinueStart
  BY <1>18 DEF ContinueStart, TypeOK
<1>19. CASE Restart
  <2>1. NoDraft \in Drafts /\ 0 \in Slots
    BY EngineConstants DEF EngineConstants, NoDraft, Drafts, Blocks, Validators, Slots
  <2>2. /\ phase' \in {"boot", "syncing", "running"} /\ mu' \in {"free", "stuck"}
        /\ pc' \in Steps /\ draft' \in Drafts /\ currentSlot' \in Slots
        /\ lastAttestedEpoch' \in Nat /\ validatorsSynced' \in BOOLEAN
    BY <1>19, <2>1 DEF Restart, Steps
  <2>3. misses' \in [Validators -> Nat]
    BY <1>19 DEF Restart
  <2>4. /\ broadcastChan' \in Seq(Messages) /\ receiveChan' \in Seq(Messages)
        /\ queued' \subseteq Attestations
    BY <1>19 DEF Restart
  <2>5. restarts' \in Nat /\ validatorSet' \subseteq validators'
    BY <1>19 DEF Restart, TypeOK
  <2> QED  BY <1>19, <2>2, <2>3, <2>4, <2>5 DEF Restart, TypeOK
<1>20. CASE UNCHANGED vars
  BY <1>20 DEF vars, TypeOK
<1> QED
  BY <1>1, <1>2, <1>3, <1>4, <1>5, <1>6, <1>7, <1>8, <1>9, <1>10, <1>11, <1>12, <1>13,
     <1>14, <1>15, <1>16, <1>17, <1>18, <1>19, <1>20 DEF Next, SlotLoop

\* The variables of ConsensusEngine keep their types.
THEOREM EngineTyped == Spec => []TypeOK
<1>1. Init => TypeOK
  <2> SUFFICES ASSUME Init PROVE TypeOK
    OBVIOUS
  <2>1. NoDraft \in Drafts /\ 0 \in Slots
    BY EngineConstants DEF EngineConstants, NoDraft, Drafts, Blocks, Validators, Slots
  <2>2. misses \in [Validators -> Nat]
    BY DEF Init
  <2>3. /\ chain \in Seq(Blocks)
        /\ broadcastChan \in Seq(Messages) /\ receiveChan \in Seq(Messages)
        /\ queued \subseteq Attestations /\ cast \subseteq Attestations
    BY DEF Init
  <2> QED  BY <2>1, <2>2, <2>3 DEF Init, TypeOK, Steps, Validators
<1>2. TypeOK /\ [Next]_vars => TypeOK'
  BY TypeStep
<1> QED  BY <1>1, <1>2, PTL DEF Spec

-----------------------------------------------------------------------------
(* The chain *)

Grows == \A i \in DOMAIN chain : i \in DOMAIN chain' /\ chain'[i] = chain[i]

\* A step leaves the chain as it is or appends one block to it.
LEMMA ChainStep ==
  ASSUME TypeOK, [Next]_vars
  PROVE  Grows
<1> USE DEF stored
<1>1. CASE chain' = chain
  BY <1>1 DEF Grows
<1>2. ASSUME NEW b \in Blocks, chain' = Append(chain, b)
      PROVE  Grows
  BY <1>2, AppendedChain DEF Grows, TypeOK
<1>3. CASE AddOwnBlock
  <2>1. draft.block \in Blocks
    BY DEF TypeOK, Drafts
  <2>2. chain' = chain \/ chain' = Append(chain, draft.block)
    BY <1>3 DEF AddOwnBlock
  <2> QED  BY <1>1, <1>2, <2>1, <2>2
<1>4. ASSUME NEW w \in Others, NEW s \in PeerSlots, BlockToNode(w, s)
      PROVE  Grows
  <2>1. [by |-> w, slot |-> s] \in Blocks
    BY EngineConstants DEF EngineConstants, Blocks, Slots, Validators
  <2> QED  BY <1>2, <1>4, <2>1 DEF BlockToNode
<1>5. CASE MessageHandler
  <2> DEFINE m == Head(receiveChan)
  <2>1. m \in Messages
    BY <1>5 DEF MessageHandler, TypeOK
  <2>2. m.kind = "proposal" => m.block \in Blocks
    BY <2>1 DEF Messages
  <2>3. chain' = chain \/ (m.kind = "proposal" /\ chain' = Append(chain, m.block))
    <3>1. HandleBlockProposal(m) \/ HandleAttestation(m) \/ IgnoreUntyped(m)
      BY <1>5 DEF MessageHandler
    <3> HIDE DEF m
    <3> QED  BY <3>1 DEF HandleBlockProposal, AddProposal, HandleAttestation, IgnoreUntyped
  <2> HIDE DEF m
  <2> QED  BY <1>1, <1>2, <2>2, <2>3
<1>6. CASE \/ EnterSlot \/ WaitForAnnouncements \/ ResumeSlot \/ BuildBlock \/ BuildFails
           \/ QueueProposal \/ LoseProposal \/ Attest \/ SkipSlot \/ UntypedMessage
           \/ DiscardMessage \/ SendBroadcast \/ ContinueStart \/ Restart
           \/ UNCHANGED vars
  <2>1. chain' = chain
    BY <1>6 DEF EnterSlot, Advance, WaitForAnnouncements, ResumeSlot, BuildBlock,
       BuildFails, QueueProposal, LoseProposal, Attest, SkipSlot, UntypedMessage, Forward,
       DiscardMessage, SendBroadcast, ContinueStart, Restart, vars
  <2> QED  BY <1>1, <2>1
<1>7. ASSUME NEW w \in Others, NEW s \in PeerSlots,
             BlockToBridge(w, s) \/ AttestationToBridge(w, s)
      PROVE  Grows
  BY <1>1, <1>7 DEF BlockToBridge, AttestationToBridge, Forward
<1>8. ASSUME NEW w \in Others, RegisterDiscoveredValidator(w)
      PROVE  Grows
  BY <1>1, <1>8 DEF RegisterDiscoveredValidator
<1>9. ASSUME NEW v \in Validators, ChangeSuspension(v)
      PROVE  Grows
  BY <1>1, <1>9 DEF ChangeSuspension
<1> QED
  BY <1>3, <1>4, <1>5, <1>6, <1>7, <1>8, <1>9 DEF Next, SlotLoop

\* No step takes a block off the chain or replaces one, for any number of peers, slots
\* and restarts: proposeBlock's stale head and the other writers never undo each other.
THEOREM ChainGrowsForever == Spec => ChainOnlyGrows
<1>1. TypeOK /\ [Next]_vars => [Grows]_vars
  BY ChainStep
<1> QED  BY <1>1, EngineTyped, PTL DEF Spec, ChainOnlyGrows, Grows

-----------------------------------------------------------------------------
(* One attestation per epoch *)

\* lastAttestedEpoch bounds every epoch broadcast so far, and a slot that reaches the
\* attestation is not slot 0, for which the guard would be open.
EpochInv ==
  /\ \A a \in queued : a.epoch <= lastAttestedEpoch
  /\ OneBroadcastPerEpoch
  /\ pc \in {"build", "add", "send", "attest"} => currentSlot > 0

\* Every step keeps the bound.
LEMMA EpochStep ==
  ASSUME TypeOK, EpochInv, [Next]_vars
  PROVE  EpochInv'
<1> USE DEF stored, slot, votes, channels
<1>1. CASE Attest
  <2>1. CASE queued' = queued /\ lastAttestedEpoch' = lastAttestedEpoch
    BY <1>1, <2>1 DEF Attest, EpochInv, OneBroadcastPerEpoch
  <2>2. CASE ~(queued' = queued /\ lastAttestedEpoch' = lastAttestedEpoch)
    <3>1. /\ ~AlreadyAttested
          /\ queued' = queued \cup {OwnAttestation}
          /\ lastAttestedEpoch' = CurrentEpoch
          /\ pc = "attest" /\ pc' = "idle"
      BY <1>1, <2>2 DEF Attest, CreateAttestation
    <3>2. /\ CurrentEpoch \in Nat /\ lastAttestedEpoch \in Nat
          /\ \A a \in queued : a.epoch \in Nat
      BY OwnAttestationTyped DEF TypeOK, Attestations
    <3>3. CurrentEpoch > lastAttestedEpoch
      BY <3>1, <3>2 DEF AlreadyAttested, EpochInv
    <3>4. OwnAttestation.epoch = CurrentEpoch
      BY DEF OwnAttestation
    <3>5. \A a \in queued : a.epoch < CurrentEpoch
      BY <3>2, <3>3 DEF EpochInv
    <3> HIDE DEF OwnAttestation, CurrentEpoch
    <3> QED  BY <3>1, <3>2, <3>3, <3>4, <3>5 DEF EpochInv, OneBroadcastPerEpoch
  <2> QED  BY <2>1, <2>2
<1>2. CASE EnterSlot \/ ResumeSlot
  <2>1. currentSlot' > 0 /\ UNCHANGED <<queued, lastAttestedEpoch>>
    BY <1>2, EngineConstants DEF EngineConstants, EnterSlot, ResumeSlot, Advance, TypeOK, Slots
  <2> QED  BY <2>1 DEF EpochInv, OneBroadcastPerEpoch
<1>3. CASE Restart
  BY <1>3 DEF Restart, EpochInv, OneBroadcastPerEpoch
<1>4. CASE \/ WaitForAnnouncements \/ BuildBlock \/ BuildFails \/ AddOwnBlock
           \/ QueueProposal \/ LoseProposal
  BY <1>4 DEF WaitForAnnouncements, BuildBlock, BuildFails, AddOwnBlock, QueueProposal,
     LoseProposal, EpochInv, OneBroadcastPerEpoch
<1>5. ASSUME UNCHANGED <<queued, lastAttestedEpoch, pc, currentSlot>>
      PROVE  EpochInv'
  BY <1>5 DEF EpochInv, OneBroadcastPerEpoch
<1>6. CASE \/ SkipSlot \/ UntypedMessage \/ MessageHandler \/ DiscardMessage
           \/ SendBroadcast \/ ContinueStart \/ UNCHANGED vars
  BY <1>5, <1>6 DEF SkipSlot, UntypedMessage, Forward, MessageHandler, DiscardMessage,
     SendBroadcast, ContinueStart, vars
<1>7. ASSUME NEW w \in Others, NEW s \in PeerSlots,
             BlockToBridge(w, s) \/ BlockToNode(w, s) \/ AttestationToBridge(w, s)
      PROVE  EpochInv'
  BY <1>5, <1>7 DEF BlockToBridge, BlockToNode, AttestationToBridge, Forward
<1>8. ASSUME NEW w \in Others, RegisterDiscoveredValidator(w)
      PROVE  EpochInv'
  BY <1>5, <1>8 DEF RegisterDiscoveredValidator
<1>9. ASSUME NEW v \in Validators, ChangeSuspension(v)
      PROVE  EpochInv'
  BY <1>5, <1>9 DEF ChangeSuspension
<1> QED
  BY <1>1, <1>2, <1>3, <1>4, <1>6, <1>7, <1>8, <1>9 DEF Next, SlotLoop

\* Between two starts the node broadcasts at most one attestation per epoch, for every
\* schedule, channel capacity and length of an epoch.
THEOREM OneBroadcast == Spec => []OneBroadcastPerEpoch
<1>1. Init => EpochInv
  BY DEF Init, EpochInv, OneBroadcastPerEpoch
<1>2. TypeOK /\ EpochInv /\ [Next]_vars => EpochInv'
  BY EpochStep
<1>3. EpochInv => OneBroadcastPerEpoch
  BY DEF EpochInv
<1> QED  BY <1>1, <1>2, <1>3, EngineTyped, PTL DEF Spec

-----------------------------------------------------------------------------
(* Proposals are on the local chain *)

\* the block of d is on the chain, above its parent's height
OnChain(d) ==
  /\ Len(d.parent) + 1 \in DOMAIN chain
  /\ chain[Len(d.parent) + 1] = d.block

\* a proposal about to be queued is as local as those already queued
LocalInv ==
  /\ \A i \in DOMAIN broadcastChan :
        broadcastChan[i].kind = "proposal" => OnChain(broadcastChan[i])
  /\ pc = "send" => OnChain(draft)

\* The chain only grows, so what is on it stays on it.
LEMMA OnChainStays ==
  ASSUME Grows, NEW d, OnChain(d)
  PROVE  /\ Len(d.parent) + 1 \in DOMAIN chain'
         /\ chain'[Len(d.parent) + 1] = d.block
BY DEF Grows, OnChain

\* Every step keeps queued proposals local.
LEMMA LocalStep ==
  ASSUME TypeOK, LocalInv, [Next]_vars
  PROVE  LocalInv'
<1> USE DEF stored, slot, votes, channels
<1>0. Grows
  BY ChainStep
<1>1. ASSUME UNCHANGED <<broadcastChan, draft>>, pc' = "send" => pc = "send"
      PROVE  LocalInv'
  BY <1>0, <1>1, OnChainStays DEF LocalInv, OnChain
<1>2. CASE AddOwnBlock
  <2>1. CASE pc' = "attest"
    BY <1>1, <1>2, <2>1 DEF AddOwnBlock
  <2>2. CASE pc' # "attest"
    <3>1. draft.parent = chain /\ chain' = Append(chain, draft.block) /\ draft' = draft
      BY <1>2, <2>2 DEF AddOwnBlock
    <3>2. draft.block \in Blocks /\ chain \in Seq(Blocks)
      BY DEF TypeOK, Drafts
    <3>3. OnChain(draft)'
      BY <3>1, <3>2, AppendedChain DEF OnChain
    <3>4. broadcastChan' = broadcastChan
      BY <1>2 DEF AddOwnBlock
    <3> QED  BY <1>0, <3>3, <3>4, OnChainStays DEF LocalInv, OnChain
  <2> QED  BY <2>1, <2>2
<1>3. ASSUME NEW m \in Messages, broadcastChan' = Append(broadcastChan, m),
             m.kind = "proposal" => OnChain(m), pc' # "send"
      PROVE  LocalInv'
  <2>1. broadcastChan \in Seq(Messages)
    BY DEF TypeOK
  <2>2. ASSUME NEW i \in DOMAIN broadcastChan'
        PROVE  broadcastChan'[i] = m \/
               (i \in DOMAIN broadcastChan /\ broadcastChan'[i] = broadcastChan[i])
    BY <1>3, <2>1
  <2> QED  BY <1>0, <1>3, <2>2, OnChainStays DEF LocalInv, OnChain
<1>4. CASE QueueProposal
  <2>1. Proposal(draft) \in Messages
    BY DEF TypeOK, Drafts, Proposal, Messages
  <2>2. OnChain(Proposal(draft))
    BY <1>4 DEF QueueProposal, LocalInv, OnChain, Proposal
  <2> QED  BY <1>3, <1>4, <2>1, <2>2 DEF QueueProposal
<1>5. CASE Attest
  <2> DEFINE msg == [kind |-> "attestation", att |-> OwnAttestation]
  <2>1. msg \in Messages /\ msg.kind # "proposal"
    BY OwnAttestationTyped DEF Messages
  <2>2. broadcastChan' = broadcastChan \/ broadcastChan' = Append(broadcastChan, msg)
    BY <1>5 DEF Attest, CreateAttestation
  <2>3. draft' = draft /\ pc' # "send"
    BY <1>5 DEF Attest
  <2> HIDE DEF msg
  <2> QED  BY <1>1, <1>3, <2>1, <2>2, <2>3
<1>6. CASE SendBroadcast
  <2>1. /\ broadcastChan \in Seq(Messages) /\ broadcastChan # <<>>
        /\ broadcastChan' = Tail(broadcastChan) /\ UNCHANGED <<pc, draft>>
    BY <1>6 DEF SendBroadcast, TypeOK
  <2>2. ASSUME NEW i \in DOMAIN broadcastChan'
        PROVE  i + 1 \in DOMAIN broadcastChan /\ broadcastChan'[i] = broadcastChan[i + 1]
    BY <2>1
  <2> QED  BY <1>0, <2>1, <2>2, OnChainStays DEF LocalInv, OnChain
<1>7. CASE Restart
  BY <1>7 DEF Restart, LocalInv
<1>8. CASE EnterSlot \/ ResumeSlot
  <2>1. pc' # "send" /\ UNCHANGED <<broadcastChan, draft>>
    BY <1>8 DEF EnterSlot, ResumeSlot, Advance
  <2> QED  BY <1>1, <2>1
<1>9. CASE BuildBlock
  <2>1. pc' # "send" /\ UNCHANGED <<broadcastChan, chain>>
    BY <1>9 DEF BuildBlock
  <2> QED  BY <2>1 DEF LocalInv, OnChain
<1>10. CASE \/ WaitForAnnouncements \/ BuildFails \/ LoseProposal \/ SkipSlot
            \/ UntypedMessage \/ MessageHandler \/ DiscardMessage \/ ContinueStart
            \/ UNCHANGED vars
  BY <1>1, <1>10 DEF WaitForAnnouncements, BuildFails, LoseProposal, SkipSlot,
     UntypedMessage, Forward, MessageHandler, DiscardMessage, ContinueStart, vars
<1>11. ASSUME NEW w \in Others, NEW s \in PeerSlots,
              BlockToBridge(w, s) \/ BlockToNode(w, s) \/ AttestationToBridge(w, s)
       PROVE  LocalInv'
  BY <1>1, <1>11 DEF BlockToBridge, BlockToNode, AttestationToBridge, Forward
<1>12. ASSUME NEW w \in Others, RegisterDiscoveredValidator(w)
       PROVE  LocalInv'
  BY <1>1, <1>12 DEF RegisterDiscoveredValidator
<1>13. ASSUME NEW v \in Validators, ChangeSuspension(v)
       PROVE  LocalInv'
  BY <1>1, <1>13 DEF ChangeSuspension
<1> QED
  BY <1>2, <1>4, <1>5, <1>6, <1>7, <1>8, <1>9, <1>10, <1>11, <1>12, <1>13 DEF Next, SlotLoop

\* A block handed to the network is on the node's own chain, whatever the channel
\* capacity and however long the network takes to fetch it.
THEOREM LocalBeforeBroadcast == Spec => []ProposalsAreLocal
<1>1. Init => LocalInv
  BY DEF Init, LocalInv
<1>2. TypeOK /\ LocalInv /\ [Next]_vars => LocalInv'
  BY LocalStep
<1>3. LocalInv => ProposalsAreLocal
  BY DEF LocalInv, OnChain, ProposalsAreLocal
<1> QED  BY <1>1, <1>2, <1>3, EngineTyped, PTL DEF Spec

=============================================================================
