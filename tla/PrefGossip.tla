------------------------------ MODULE PrefGossip ------------------------------
(***************************************************************************)
(* Shard peer discovery: every node keeps a table of the other nodes'      *)
(* shard preferences, built from what they announce on the global topic    *)
(* listeningShard (discovery.go, the shardPref handler of shardmanager.go, *)
(* shardpreftable.go) and asked by FindPeers and by the shard-peer request.*)
(*                                                                         *)
(* A preference is the set of shards whose bit is set.  Advertise changes  *)
(* it and then hands pubsub the slice itself, not a copy: what is sent is  *)
(* the preference at the moment pubsub serialises the message.  pubsub     *)
(* validates the messages of a topic with a validator in goroutines of     *)
(* their own, so announcements of one node may be handled in any order.    *)
(* Nothing checks the bytes: nodes of other programs announce what they    *)
(* like.  Bytes that are too short to be looked at are in ListeningShards. *)
(***************************************************************************)
EXTENDS Naturals, FiniteSets

CONSTANTS Nodes,
          Shards,
          MaxChanges,  \* MaxChanges[n]: (bound) preference changes of n
          Steady,      \* nodes that change no faster than they are heard
          Foreign,     \* nodes that run another program
          Fixed,       \* links that are there from the start and stay
          Loose        \* links that are made and cut

ASSUME BoundAssumption == MaxChanges \in [Nodes -> Nat]

VARIABLES
    pref,     \* pref[n]: the preference of n, in n's own table
    pc,       \* pc[n]: "idle", or "publish" between change and Publish
    pending,  \* pending[n][m]: announcements of n to m not serialised yet
    wire,     \* wire[n][m][p]: announcements of p by n that m has not handled
    table,    \* table[m][n]: what m has recorded of n; nothing is recorded as {}
    links,    \* pairs of connected nodes
    changes,  \* changes[n]: number of changes, or foreign announcements, so far
    held      \* (history) held[n]: every preference n has had

vars == <<pref, pc, pending, wire, table, links, changes, held>>

Prefs == SUBSET Shards
Pairs == {{n, m} : n, m \in Nodes} \ {{n} : n \in Nodes}
Linked(n) == {m \in Nodes : {n, m} \in links /\ m # n}

ASSUME NetAssumption == /\ Steady \subseteq Nodes \ Foreign
                         /\ Fixed \subseteq Pairs /\ Loose \subseteq Pairs \ Fixed

\* What n announces to m gets there.
Sure(n, m) == n \in Steady /\ {n, m} \in Fixed

\* Every announcement of n has been handled by every node it was sent to.
Drained(n) == \A m \in Nodes : /\ pending[n][m] = 0
                               /\ \A p \in Prefs : wire[n][m][p] = 0

Init ==
    /\ pref = [n \in Nodes |-> {}]
    /\ pc = [n \in Nodes |-> "idle"]
    /\ pending = [n \in Nodes |-> [m \in Nodes |-> 0]]
    /\ wire = [n \in Nodes |-> [m \in Nodes |-> [p \in Prefs |-> 0]]]
    /\ table = [m \in Nodes |-> [n \in Nodes |-> {}]]
    /\ links = Fixed
    /\ changes = [n \in Nodes |-> 0]
    /\ held = [n \in Nodes |-> {{}}]

-----------------------------------------------------------------------------
(* ListenShard and UnlistenShard, as far as the other nodes can tell *)

\* Advertise turns the bit of s around in the node's own entry.
Advertise(n, s) ==
    /\ pc[n] = "idle"
    /\ changes[n] < MaxChanges[n]
    /\ n \in Steady => Drained(n)
    /\ LET p == IF s \in pref[n] THEN pref[n] \ {s} ELSE pref[n] \cup {s}
       IN  pref' = [pref EXCEPT ![n] = p] /\ held' = [held EXCEPT ![n] = @ \cup {p}]
    /\ changes' = [changes EXCEPT ![n] = @ + 1]
    /\ pc' = [pc EXCEPT ![n] = "publish"]
    /\ UNCHANGED <<pending, wire, table, links>>

\* (mutant) an empty preference is not worth an announcement
Publish_SkipsEmpty(n) ==
    /\ pc[n] = "publish"
    /\ pending' = [pending EXCEPT ![n] = [m \in Nodes |->
                     @[m] + IF m \in Linked(n) /\ pref[n] # {} THEN 1 ELSE 0]]
    /\ pc' = [pc EXCEPT ![n] = "idle"]
    /\ UNCHANGED <<pref, wire, table, links, changes, held>>

\* ... and hands the slice to pubsub, which sends to the connected nodes.
Publish(n) ==
    /\ pc[n] = "publish"
    /\ pending' = [pending EXCEPT ![n] = [m \in Nodes |->
                     @[m] + IF m \in Linked(n) THEN 1 ELSE 0]]
    /\ pc' = [pc EXCEPT ![n] = "idle"]
    /\ UNCHANGED <<pref, wire, table, links, changes, held>>

\* Publish returns an error: Advertise returns it and the change stays.
PublishFails(n) ==
    /\ n \notin Steady
    /\ pc[n] = "publish"
    /\ pc' = [pc EXCEPT ![n] = "idle"]
    /\ UNCHANGED <<pref, pending, wire, table, links, changes, held>>

\* Another program publishes on the topic: from there on its bytes are one more
\* announcement.
PublishForeign(n, p) ==
    /\ changes[n] < MaxChanges[n]
    /\ wire' = [wire EXCEPT ![n] = [m \in Nodes |-> [q \in Prefs |->
                  @[m][q] + IF m \in Linked(n) /\ q = p THEN 1 ELSE 0]]]
    /\ changes' = [changes EXCEPT ![n] = @ + 1]
    /\ UNCHANGED <<pref, pc, pending, table, links, held>>

-----------------------------------------------------------------------------
(* pubsub and the handler of the topic *)

\* (mutant) the announcement is sent again and again
Serialise_Repeats(n, m) ==
    /\ pending[n][m] > 0
    /\ wire' = [wire EXCEPT ![n][m][pref[n]] = @ + 1]
    /\ UNCHANGED <<pref, pc, pending, table, links, changes, held>>

\* The slice is read when the message goes out.
Serialise(n, m) ==
    /\ pending[n][m] > 0
    /\ pending' = [pending EXCEPT ![n][m] = @ - 1]
    /\ wire' = [wire EXCEPT ![n][m][pref[n]] = @ + 1]
    /\ UNCHANGED <<pref, pc, table, links, changes, held>>

\* (mutant) an announcement is taken for what has changed
Handle_Toggles(n, m, p) ==
    /\ wire[n][m][p] > 0
    /\ wire' = [wire EXCEPT ![n][m][p] = @ - 1]
    /\ table' = [table EXCEPT ![m][n] = p \ @]
    /\ UNCHANGED <<pref, pc, pending, links, changes, held>>

\* The handler replaces the entry of the author of the message.
Handle(n, m, p) ==
    /\ wire[n][m][p] > 0
    /\ wire' = [wire EXCEPT ![n][m][p] = @ - 1]
    /\ table' = [table EXCEPT ![m][n] = p]
    /\ UNCHANGED <<pref, pc, pending, links, changes, held>>

\* A message is lost with its stream, or dropped by a full queue of pubsub.
Lose(n, m, p) ==
    /\ ~Sure(n, m)
    /\ wire[n][m][p] > 0
    /\ wire' = [wire EXCEPT ![n][m][p] = @ - 1]
    /\ UNCHANGED <<pref, pc, pending, table, links, changes, held>>

-----------------------------------------------------------------------------
(* Connections.  Neither AddPeer nor RemovePeer touches the tables. *)

AddPeer(n, m) ==
    /\ {n, m} \in Loose \ links
    /\ links' = links \cup {{n, m}}
    /\ UNCHANGED <<pref, pc, pending, wire, table, changes, held>>

RemovePeer(n, m) ==
    /\ {n, m} \in Loose \cap links
    /\ links' = links \ {{n, m}}
    /\ UNCHANGED <<pref, pc, pending, wire, table, changes, held>>

-----------------------------------------------------------------------------
(* Questions to the table *)

\* GetPeersInShard, which is also the answer to a shard-peer request: the
\* node's own entry is in its table.
GetPeersInShard(n, s) ==
    {m \in Nodes : s \in IF m = n THEN pref[n] ELSE table[n][m]}

\* (mutant) the node finds itself
FindPeers_WithSelf(n, s) == GetPeersInShard(n, s)

FindPeers(n, s) == GetPeersInShard(n, s) \ {n}

\* RPC DiscoverShard: the peers in every shard asked for, or in the node's own.
DiscoverShard(n, ts) ==
    [s \in IF ts = {} THEN pref[n] ELSE ts |-> FindPeers(n, s)]

-----------------------------------------------------------------------------
NodeStep(n) == Publish(n) \/ PublishFails(n)

NetStep(n, m) == Serialise(n, m) \/ \E p \in Prefs : Handle(n, m, p) \/ Lose(n, m, p)

Next ==
    \/ \E n \in Nodes \ Foreign : NodeStep(n) \/ \E s \in Shards : Advertise(n, s)
    \/ \E n \in Nodes \cap Foreign, p \in Prefs : PublishForeign(n, p)
    \/ \E n, m \in Nodes : NetStep(n, m) \/ AddPeer(n, m) \/ RemovePeer(n, m)

Spec == Init /\ [][Next]_vars

\* A call under way goes on, and pubsub sends and handles what it was given.
Fairness == /\ \A n \in Nodes : WF_vars(NodeStep(n))
            /\ \A n, m \in Nodes : WF_vars(NetStep(n, m))

FairSpec == Spec /\ Fairness

-----------------------------------------------------------------------------
\* Every variable has its type; no announcement is sent twice, so there are
\* never more under way than there were changes.
TypeOK ==
    /\ pref \in [Nodes -> Prefs]
    /\ pc \in [Nodes -> {"idle", "publish"}]
    /\ pending \in [Nodes -> [Nodes -> Nat]]
    /\ wire \in [Nodes -> [Nodes -> [Prefs -> Nat]]]
    /\ table \in [Nodes -> [Nodes -> Prefs]]
    /\ links \subseteq Pairs
    /\ changes \in [Nodes -> Nat]
    /\ held \in [Nodes -> SUBSET Prefs]
    /\ \A n, m \in Nodes, p \in Prefs :
          pending[n][m] + wire[n][m][p] <= changes[n] /\ changes[n] <= MaxChanges[n]

\* m has handled everything n announced to it.
Settled(n, m) == /\ pc[n] = "idle"
                 /\ pending[n][m] = 0
                 /\ \A p \in Prefs : wire[n][m][p] = 0

\* The RPC DiscoverShard at n lists m for exactly the shards m is in, and never
\* n itself.
Finds(n, m) ==
    \A ts \in SUBSET Shards :
       LET peers == DiscoverShard(n, ts) IN
       \A s \in DOMAIN peers : n \notin peers[s] /\ (m \in peers[s] <=> s \in pref[m])

\* Looking up the table (DiscoverShard, rpcserver.go:130-168, and FindPeers,
\* discovery.go:59-76) is right about a steady peer on a link that stays as soon
\* as its announcements have been handled, whatever the other nodes are doing
\* and whatever happens to the other links.
DiscoveryIsRight == \A n, m \in Nodes : Sure(m, n) /\ Settled(m, n) => Finds(n, m)

\* Whatever is lost, reordered or cut off, and whatever other programs announce, a
\* table never holds a preference its peer has not had: entries are replaced as a
\* whole, and only by their peer's messages (SetPeerListeningShard).
NoRumours == \A n \in Nodes \ Foreign, m \in Nodes : table[m][n] \in held[n]

\* Once the nodes stop changing their preferences, the tables become right about
\* steady peers and stay right.
Converges == <>[](\A n, m \in Nodes : Sure(m, n) => Finds(n, m))
=============================================================================
