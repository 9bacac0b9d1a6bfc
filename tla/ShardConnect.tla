----------------------------- MODULE ShardConnect -----------------------------
(***************************************************************************)
(* connectShardNodes (shardmanager.go): before a node subscribes to a      *)
(* shard it connects to peers in it.  It starts from the peers pubsub      *)
(* lists for the topic, takes candidates from the preference table, throws *)
(* random ones away until the wanted number is left, and dials these at    *)
(* once.  Meanwhile peers join and leave the shard, connections break, and *)
(* announcements change the table.                                         *)
(***************************************************************************)
EXTENDS Integers, FiniteSets

CONSTANTS Peers,
          Reachable,  \* peers a dial to which succeeds
          Num,        \* numShardPeerToConnect
          Changing    \* peers, links and the table change during the call

ASSUME PeersAssumption == IsFiniteSet(Peers) /\ Reachable \subseteq Peers

ASSUME NumAssumption == Num \in Int /\ Changing \in BOOLEAN

VARIABLES
    inShard,  \* peers that are in the shard
    known,    \* peers the preference table says are in the shard
    conns,    \* peers the node has a connection to
    topic,    \* ListPeers: connected peers pubsub knows in the topic
    pc,       \* next step of the call
    mapConnectedPIDs,  \* topic, when the call started
    found,    \* what FindPeers returned
    pinfos,   \* peers left in the list
    difCount, \* peers still to be dropped from it
    dial      \* dial[p]: "none", "skipped", "dialing" or "done"

env == <<inShard, known, conns, topic>>
call == <<pc, mapConnectedPIDs, found, pinfos, difCount, dial>>
vars == <<env, call>>

Init ==
    /\ inShard \in SUBSET Peers
    /\ known = inShard
    /\ conns \in SUBSET Peers
    /\ topic = conns \cap inShard
    /\ pc = "idle"
    /\ mapConnectedPIDs = {} /\ found = {} /\ pinfos = {} /\ difCount = 0
    /\ dial = [p \in Peers |-> "none"]

-----------------------------------------------------------------------------
(* The call *)

\* (mutant) enough peers are no reason to stop
Start_NeverQuits ==
    /\ pc = "idle"
    /\ mapConnectedPIDs' = topic
    /\ pc' = "find"
    /\ UNCHANGED <<env, found, pinfos, difCount, dial>>

\* Quits when there are enough peers in the topic.
Start ==
    /\ pc = "idle"
    /\ mapConnectedPIDs' = topic
    /\ pc' = IF Cardinality(topic) >= Num THEN "done" ELSE "find"
    /\ UNCHANGED <<env, found, pinfos, difCount, dial>>

\* (mutant) the peers in the topic are forgotten in the count
FindPeers_CountsNone ==
    /\ pc = "find"
    /\ found' = known
    /\ pinfos' = known \ mapConnectedPIDs
    /\ difCount' = Cardinality(known \ mapConnectedPIDs) - Num
    /\ pc' = "drop"
    /\ UNCHANGED <<env, mapConnectedPIDs, dial>>

FindPeers ==
    /\ pc = "find"
    /\ found' = known
    /\ pinfos' = known \ mapConnectedPIDs
    /\ difCount' = Cardinality(known \ mapConnectedPIDs)
                     - (Num - Cardinality(mapConnectedPIDs))
    /\ pc' = "drop"
    /\ UNCHANGED <<env, mapConnectedPIDs, dial>>

\* One round of the loop; rand.Intn panics when the list is empty.
DropPeer ==
    /\ pc = "drop" /\ difCount > 0
    /\ IF pinfos = {} THEN pc' = "panic" /\ UNCHANGED <<pinfos, difCount>>
       ELSE /\ \E p \in pinfos : pinfos' = pinfos \ {p}
            /\ difCount' = difCount - 1
            /\ UNCHANGED pc
    /\ UNCHANGED <<env, mapConnectedPIDs, found, dial>>

DropEnds ==
    /\ pc = "drop" /\ difCount <= 0
    /\ pc' = "dial"
    /\ UNCHANGED <<env, mapConnectedPIDs, found, pinfos, difCount, dial>>

\* A peer of the list is skipped if there is a connection, else dialled.
Launch(p) ==
    /\ pc = "dial" /\ p \in pinfos /\ dial[p] = "none"
    /\ dial' = [dial EXCEPT ![p] = IF p \in conns THEN "skipped" ELSE "dialing"]
    /\ UNCHANGED <<env, pc, mapConnectedPIDs, found, pinfos, difCount>>

DialSucceeds(p) ==
    /\ dial[p] = "dialing" /\ p \in Reachable
    /\ conns' = conns \cup {p}
    /\ dial' = [dial EXCEPT ![p] = "done"]
    /\ UNCHANGED <<inShard, known, topic, pc, mapConnectedPIDs, found, pinfos, difCount>>

\* (mutant) the failing branch returns without wg.Done
DialFails_NoDone(p) ==
    /\ dial[p] = "dialing" /\ (p \notin Reachable \/ Changing)
    /\ UNCHANGED vars

\* The error is logged and ignored.
DialFails(p) ==
    /\ dial[p] = "dialing" /\ (p \notin Reachable \/ Changing)
    /\ dial' = [dial EXCEPT ![p] = "done"]
    /\ UNCHANGED <<env, pc, mapConnectedPIDs, found, pinfos, difCount>>

WaitEnds ==
    /\ pc = "dial"
    /\ \A p \in pinfos : dial[p] \in {"skipped", "done"}
    /\ pc' = "done"
    /\ UNCHANGED <<env, mapConnectedPIDs, found, pinfos, difCount, dial>>

\* ListenShard goes on; what the call had in its local variables is gone.
Again ==
    /\ pc = "done"
    /\ pc' = "idle"
    /\ mapConnectedPIDs' = {} /\ found' = {} /\ pinfos' = {} /\ difCount' = 0
    /\ dial' = [p \in Peers |-> "none"]
    /\ UNCHANGED env

-----------------------------------------------------------------------------
(* What happens meanwhile *)

\* pubsub hears from a connected peer whether it is in the topic.
HearsTopic(p) ==
    /\ p \in conns
    /\ topic' = IF p \in inShard THEN topic \cup {p} ELSE topic \ {p}
    /\ UNCHANGED <<inShard, known, conns, call>>

PeerMoves(p) ==
    /\ Changing
    /\ inShard' = IF p \in inShard THEN inShard \ {p} ELSE inShard \cup {p}
    /\ UNCHANGED <<known, conns, topic, call>>

\* The peer's preference reaches the table.
HearsPref(p) ==
    /\ known' = IF p \in inShard THEN known \cup {p} ELSE known \ {p}
    /\ UNCHANGED <<inShard, conns, topic, call>>

Disconnect(p) ==
    /\ Changing
    /\ conns' = conns \ {p}
    /\ topic' = topic \ {p}
    /\ UNCHANGED <<inShard, known, call>>

-----------------------------------------------------------------------------
CallStep ==
    \/ Start \/ FindPeers \/ DropPeer \/ DropEnds \/ WaitEnds
    \/ \E p \in Peers : Launch(p)

DialStep(p) == DialSucceeds(p) \/ DialFails(p)

EnvStep(p) == HearsTopic(p) \/ PeerMoves(p) \/ HearsPref(p) \/ Disconnect(p)

Next == CallStep \/ Again \/ \E p \in Peers : DialStep(p) \/ EnvStep(p)

Spec == Init /\ [][Next]_vars

\* The call and the goroutines it starts run, and every dial ends: Connect has
\* a timeout.
FairSpec == Spec /\ WF_vars(CallStep) /\ \A p \in Peers : WF_vars(DialStep(p))

-----------------------------------------------------------------------------
\* Every variable has its type.
TypeOK ==
    /\ {inShard, known, conns, mapConnectedPIDs, found, pinfos} \subseteq SUBSET Peers
    /\ topic \subseteq conns
    /\ pc \in {"idle", "find", "drop", "dial", "done", "panic"}
    /\ difCount \in Int
    /\ dial \in [Peers -> {"none", "skipped", "dialing", "done"}]

\* The loop that throws candidates away never finds the list empty.
NeverPanics == pc # "panic"

\* The call dials enough candidates to have Num peers in the shard if all dials
\* succeed, or all there are, and never more than that.
TriesJustEnough ==
    pc = "dial" =>
       LET aim == Cardinality(mapConnectedPIDs \cup pinfos)
           all == Cardinality(mapConnectedPIDs \cup found)
       IN  aim = IF all < Num THEN all ELSE Num

\* The call returns, whatever the dials do.
CallReturns == (pc # "idle") ~> (pc = "done")
=============================================================================
