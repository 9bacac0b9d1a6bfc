-------------------------- MODULE ShardConnect_proofs --------------------------
(***************************************************************************)
(* Proofs about ShardConnect, for any finite set of peers, any wanted      *)
(* number and whatever happens to peers, links and the table meanwhile.    *)
(***************************************************************************)
EXTENDS ShardConnect, FiniteSetTheorems, TLAPS

\* How many peers the call looked for when it had read the topic.
Need == Num - Cardinality(mapConnectedPIDs)

\* The list holds candidates only, with difCount of them too many; none has been
\* dropped unless there were enough.
ListInv ==
    /\ pinfos \subseteq found \ mapConnectedPIDs
    /\ difCount = Cardinality(pinfos) - Need
    /\ difCount < 0 => pinfos = found \ mapConnectedPIDs

ConnectInv ==
    /\ pc # "panic"
    /\ pc \in {"find", "drop", "dial"} => Need > 0
    /\ pc = "drop" => ListInv
    /\ pc = "dial" => ListInv /\ difCount <= 0

\* Sets of peers are finite.
LEMMA Finite ==
    ASSUME NEW S \in SUBSET Peers
    PROVE  IsFiniteSet(S) /\ Cardinality(S) \in Nat
BY PeersAssumption, FS_Subset, FS_CardinalityType

\* Every variable keeps its type.
LEMMA TypeStep == TypeOK /\ [Next]_vars => TypeOK'
<1> SUFFICES ASSUME TypeOK, [Next]_vars PROVE TypeOK'
  OBVIOUS
<1> USE NumAssumption DEF TypeOK, env, call
<1>1. CASE Start
  BY <1>1 DEF Start
<1>2. CASE FindPeers
  <2>1. Cardinality(known \ mapConnectedPIDs) \in Nat /\ Cardinality(mapConnectedPIDs) \in Nat
    BY Finite
  <2> QED BY <1>2, <2>1 DEF FindPeers
<1>3. CASE DropPeer
  BY <1>3 DEF DropPeer
<1>4. CASE DropEnds \/ WaitEnds \/ Again
  BY <1>4 DEF DropEnds, WaitEnds, Again
<1>5. ASSUME NEW p \in Peers, Launch(p) PROVE TypeOK'
  BY <1>5 DEF Launch
<1>6. ASSUME NEW p \in Peers, DialStep(p) PROVE TypeOK'
  BY <1>6 DEF DialStep, DialSucceeds, DialFails
<1>7. ASSUME NEW p \in Peers, EnvStep(p) PROVE TypeOK'
  BY <1>7 DEF EnvStep, HearsTopic, PeerMoves, HearsPref, Disconnect
<1>8. CASE UNCHANGED vars
  BY <1>8 DEF vars
<1> QED BY <1>1, <1>2, <1>3, <1>4, <1>5, <1>6, <1>7, <1>8 DEF Next, CallStep

\* Every reachable state is well typed, for any peers and any wanted number.
THEOREM TypeCorrect == Spec => []TypeOK
<1>1. Init => TypeOK
  BY DEF Init, TypeOK
<1> QED BY <1>1, TypeStep, PTL DEF Spec

LEMMA ConnectStep == TypeOK /\ ConnectInv /\ [Next]_vars => ConnectInv'
<1> SUFFICES ASSUME TypeOK, ConnectInv, [Next]_vars PROVE ConnectInv'
  OBVIOUS
<1> DEFINE local == <<pc, mapConnectedPIDs, found, pinfos, difCount>>
<1>0. /\ mapConnectedPIDs \in SUBSET Peers /\ known \in SUBSET Peers /\ pinfos \in SUBSET Peers
      /\ topic \in SUBSET Peers /\ difCount \in Int
  BY DEF TypeOK
<1>1. CASE Start
  <2>1. Cardinality(topic) \in Nat
    BY <1>0, Finite
  <2>2. /\ mapConnectedPIDs' = topic
        /\ pc' = IF Cardinality(topic) >= Num THEN "done" ELSE "find"
    BY <1>1 DEF Start
  <2> QED BY <2>1, <2>2, NumAssumption DEF ConnectInv, Need
<1>2. CASE FindPeers
  <2>1. Cardinality(known \ mapConnectedPIDs) \in Nat /\ Cardinality(mapConnectedPIDs) \in Nat
    BY <1>0, Finite
  <2>2. /\ pc' = "drop" /\ found' = known /\ mapConnectedPIDs' = mapConnectedPIDs
        /\ pinfos' = known \ mapConnectedPIDs
        /\ difCount' = Cardinality(known \ mapConnectedPIDs)
                         - (Num - Cardinality(mapConnectedPIDs))
    BY <1>2 DEF FindPeers
  <2>3. Need > 0
    BY <1>2 DEF FindPeers, ConnectInv
  <2> QED BY <2>1, <2>2, <2>3 DEF ConnectInv, ListInv, Need
<1>3. CASE DropPeer
  <2>1. pc = "drop" /\ difCount > 0 /\ ListInv /\ Need > 0
    BY <1>3 DEF DropPeer, ConnectInv
  <2>2. IsFiniteSet(pinfos) /\ Cardinality(pinfos) \in Nat /\ Cardinality(mapConnectedPIDs) \in Nat
    BY <1>0, Finite
  <2>3. pinfos # {}
    <3>1. Cardinality(pinfos) > 0
      BY <2>1, <2>2, NumAssumption DEF ListInv, Need
    <3> QED BY <3>1, FS_EmptySet
  <2>4. PICK p \in pinfos : pinfos' = pinfos \ {p}
    BY <1>3, <2>3 DEF DropPeer
  <2>5. pc' = pc /\ difCount' = difCount - 1 /\ UNCHANGED <<mapConnectedPIDs, found>>
    BY <1>3, <2>3 DEF DropPeer
  <2>6. Cardinality(pinfos') = Cardinality(pinfos) - 1
    BY <2>2, <2>4, FS_RemoveElement
  <2>7. Need' = Need /\ Need \in Int
    BY <2>2, <2>5, NumAssumption DEF Need
  <2>8. ListInv'
    BY <1>0, <2>1, <2>2, <2>4, <2>5, <2>6, <2>7 DEF ListInv
  <2> QED BY <2>1, <2>5, <2>7, <2>8 DEF ConnectInv
<1>4. CASE DropEnds
  BY <1>4 DEF DropEnds, ConnectInv, ListInv, Need
<1>5. CASE WaitEnds \/ Again
  BY <1>5 DEF WaitEnds, Again, ConnectInv
<1>6. CASE UNCHANGED local
  BY <1>6 DEF ConnectInv, ListInv, Need
<1>7. \/ Start \/ FindPeers \/ DropPeer \/ DropEnds \/ WaitEnds \/ Again
      \/ UNCHANGED local
  BY DEF Next, CallStep, Launch, DialStep, DialSucceeds, DialFails, EnvStep, HearsTopic,
         PeerMoves, HearsPref, Disconnect, vars, call
<1> QED BY <1>1, <1>2, <1>3, <1>4, <1>5, <1>6, <1>7

LEMMA ConnectAlways == Spec => [](TypeOK /\ ConnectInv)
<1>1. Init => ConnectInv
  BY DEF Init, ConnectInv
<1> QED BY <1>1, ConnectStep, TypeCorrect, PTL DEF Spec

\* rand.Intn is never called on an empty list, for any wanted number, a negative
\* one included, and whatever changes between reading the topic and reading the
\* table (shardmanager.go:125-131).
THEOREM NeverPanicsEver == Spec => []NeverPanics
<1>1. ConnectInv => NeverPanics
  BY DEF ConnectInv, NeverPanics
<1> QED BY <1>1, ConnectAlways, PTL

\* The call aims at exactly the wanted number of peers, or at all there are, for
\* any finite set of peers (shardmanager.go:109-135).
THEOREM AimIsRight == Spec => []TriesJustEnough
<1>1. TypeOK /\ ConnectInv => TriesJustEnough
  <2> SUFFICES ASSUME TypeOK, ConnectInv, pc = "dial"
               PROVE  Cardinality(mapConnectedPIDs \cup pinfos) =
                        IF Cardinality(mapConnectedPIDs \cup found) < Num
                          THEN Cardinality(mapConnectedPIDs \cup found) ELSE Num
    BY DEF TriesJustEnough
  <2> DEFINE new == found \ mapConnectedPIDs
  <2>1. ListInv /\ difCount <= 0
    BY DEF ConnectInv
  <2>2. mapConnectedPIDs \in SUBSET Peers /\ pinfos \in SUBSET Peers /\ new \in SUBSET Peers
    BY DEF TypeOK
  <2>3. /\ IsFiniteSet(mapConnectedPIDs) /\ IsFiniteSet(pinfos) /\ IsFiniteSet(new)
        /\ Cardinality(mapConnectedPIDs) \in Nat /\ Cardinality(pinfos) \in Nat /\ Cardinality(new) \in Nat
    BY <2>2, Finite
  <2>4. mapConnectedPIDs \cap pinfos = {} /\ mapConnectedPIDs \cap new = {} /\ mapConnectedPIDs \cup found = mapConnectedPIDs \cup new
    BY <2>1 DEF ListInv
  <2>5. Cardinality(mapConnectedPIDs \cup pinfos) = Cardinality(mapConnectedPIDs) + Cardinality(pinfos)
    BY <2>3, <2>4, FS_Union, FS_EmptySet
  <2>6. Cardinality(mapConnectedPIDs \cup new) = Cardinality(mapConnectedPIDs) + Cardinality(new)
    BY <2>3, <2>4, FS_Union, FS_EmptySet
  <2>7. Cardinality(pinfos) <= Cardinality(new)
    BY <2>1, <2>3, FS_Subset DEF ListInv
  <2>8. difCount = Cardinality(pinfos) - (Num - Cardinality(mapConnectedPIDs))
    BY <2>1 DEF ListInv, Need
  <2>9. difCount < 0 => Cardinality(pinfos) = Cardinality(new)
    BY <2>1 DEF ListInv
  <2> DEFINE a == Cardinality(mapConnectedPIDs)
             b == Cardinality(pinfos)
             d == Cardinality(new)
  <2>10. a + b = IF a + d < Num THEN a + d ELSE Num
    <3>1. a \in Nat /\ b \in Nat /\ d \in Nat /\ b <= d
      BY <2>3, <2>7
    <3>2. b - (Num - a) <= 0 /\ (b - (Num - a) < 0 => b = d)
      BY <2>1, <2>8, <2>9
    <3> HIDE DEF a, b, d
    <3> QED BY <3>1, <3>2, NumAssumption
  <2> QED BY <2>4, <2>5, <2>6, <2>10
<1> QED BY <1>1, ConnectAlways, PTL
=============================================================================
