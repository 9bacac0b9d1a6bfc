--------------------------- MODULE PrefGossip_proofs ---------------------------
(***************************************************************************)
(* Proofs about PrefGossip, for any nodes, shards, links and numbers of    *)
(* changes.  No more announcements are under way than there were changes.  *)
(* A table never holds a preference its peer has not had; its settled      *)
(* entries of steady peers on links that stay are exact, and so is what    *)
(* DiscoverShard answers about them.                                       *)
(***************************************************************************)
EXTENDS PrefGossip, TLAPS

\* The types, without the bounds on the counters.
TypeInv ==
    /\ pref \in [Nodes -> Prefs]
    /\ pc \in [Nodes -> {"idle", "publish"}]
    /\ pending \in [Nodes -> [Nodes -> Nat]]
    /\ wire \in [Nodes -> [Nodes -> [Prefs -> Nat]]]
    /\ table \in [Nodes -> [Nodes -> Prefs]]
    /\ held \in [Nodes -> SUBSET Prefs]

\* What one message more or less does to the messages on the wire.
LEMMA WireUpdate ==
    ASSUME TypeInv, NEW n \in Nodes, NEW m \in Nodes, NEW p \in Prefs, NEW k \in Nat,
           wire' = [wire EXCEPT ![n][m][p] = k]
    PROVE  /\ wire' \in [Nodes -> [Nodes -> [Prefs -> Nat]]]
           /\ \A x, y \in Nodes, q \in Prefs :
                 wire'[x][y][q] = IF x = n /\ y = m /\ q = p THEN k ELSE wire[x][y][q]
BY DEF TypeInv

\* What handling a message does to the tables.
LEMMA TableUpdate ==
    ASSUME TypeInv, NEW n \in Nodes, NEW m \in Nodes, NEW p \in Prefs,
           table' = [table EXCEPT ![m][n] = p]
    PROVE  /\ table' \in [Nodes -> [Nodes -> Prefs]]
           /\ \A x, y \in Nodes :
                 table'[y][x] = IF x = n /\ y = m THEN p ELSE table[y][x]
BY DEF TypeInv

\* What publishing does to the announcements waiting to go out.
LEMMA PendingUpdate ==
    ASSUME TypeInv, NEW n \in Nodes, Publish(n)
    PROVE  /\ pending' \in [Nodes -> [Nodes -> Nat]]
           /\ \A x, y \in Nodes :
                 pending'[x][y] = IF x = n /\ y \in Linked(n) THEN pending[x][y] + 1
                                                             ELSE pending[x][y]
BY DEF TypeInv, Publish

\* What a foreign announcement does to the messages on the wire.
LEMMA ForeignUpdate ==
    ASSUME TypeInv, NEW n \in Nodes, NEW p \in Prefs, PublishForeign(n, p)
    PROVE  /\ wire' \in [Nodes -> [Nodes -> [Prefs -> Nat]]]
           /\ \A x, y \in Nodes, q \in Prefs :
                 wire'[x][y][q] = IF x = n /\ q = p /\ y \in Linked(n) THEN wire[x][y][q] + 1
                                                                     ELSE wire[x][y][q]
<1> DEFINE row == [m \in Nodes |-> [q \in Prefs |->
                     wire[n][m][q] + IF m \in Linked(n) /\ q = p THEN 1 ELSE 0]]
<1>1. wire' = [wire EXCEPT ![n] = row]
  BY DEF PublishForeign
<1>2. /\ row \in [Nodes -> [Prefs -> Nat]]
      /\ \A y \in Nodes, q \in Prefs :
            row[y][q] = IF q = p /\ y \in Linked(n) THEN wire[n][y][q] + 1 ELSE wire[n][y][q]
  BY DEF TypeInv
<1> HIDE DEF row
<1> QED BY <1>1, <1>2 DEF TypeInv

LEMMA TypeStep == TypeInv /\ [Next]_vars => TypeInv'
<1> SUFFICES ASSUME TypeInv, [Next]_vars PROVE TypeInv'
  OBVIOUS
<1>1. ASSUME NEW n \in Nodes, NEW s \in Shards, Advertise(n, s) PROVE TypeInv'
  <2> DEFINE p == IF s \in pref[n] THEN pref[n] \ {s} ELSE pref[n] \cup {s}
  <2>1. p \in Prefs
    BY DEF TypeInv, Prefs
  <2>2. /\ pref' = [pref EXCEPT ![n] = p] /\ held' = [held EXCEPT ![n] = @ \cup {p}]
        /\ pc' = [pc EXCEPT ![n] = "publish"] /\ UNCHANGED <<pending, wire, table>>
    BY <1>1 DEF Advertise
  <2> QED BY <2>1, <2>2 DEF TypeInv
<1>2. ASSUME NEW n \in Nodes, Publish(n) PROVE TypeInv'
  BY <1>2, PendingUpdate DEF Publish, TypeInv
<1>3. ASSUME NEW n \in Nodes, PublishFails(n) PROVE TypeInv'
  BY <1>3 DEF PublishFails, TypeInv
<1>4. ASSUME NEW n \in Nodes, NEW m \in Nodes, Serialise(n, m) PROVE TypeInv'
  <2>1. wire' = [wire EXCEPT ![n][m][pref[n]] = wire[n][m][pref[n]] + 1]
        /\ wire[n][m][pref[n]] + 1 \in Nat /\ pref[n] \in Prefs
    BY <1>4 DEF Serialise, TypeInv
  <2>2. wire' \in [Nodes -> [Nodes -> [Prefs -> Nat]]]
    BY <2>1, WireUpdate
  <2>3. pending' \in [Nodes -> [Nodes -> Nat]]
    BY <1>4 DEF Serialise, TypeInv
  <2> QED BY <1>4, <2>2, <2>3 DEF Serialise, TypeInv
<1>5. ASSUME NEW n \in Nodes, NEW m \in Nodes, NEW p \in Prefs,
             Handle(n, m, p) \/ Lose(n, m, p)
      PROVE  TypeInv'
  <2>1. wire' = [wire EXCEPT ![n][m][p] = wire[n][m][p] - 1] /\ wire[n][m][p] - 1 \in Nat
    BY <1>5 DEF Handle, Lose, TypeInv
  <2>2. wire' \in [Nodes -> [Nodes -> [Prefs -> Nat]]]
    BY <2>1, WireUpdate
  <2>3. table' \in [Nodes -> [Nodes -> Prefs]]
    BY <1>5, TableUpdate DEF Handle, Lose, TypeInv
  <2> QED BY <1>5, <2>2, <2>3 DEF Handle, Lose, TypeInv
<1>6. ASSUME NEW n \in Nodes, NEW m \in Nodes, AddPeer(n, m) \/ RemovePeer(n, m)
      PROVE  TypeInv'
  BY <1>6 DEF AddPeer, RemovePeer, TypeInv
<1>7. ASSUME NEW n \in Nodes, NEW p \in Prefs, PublishForeign(n, p) PROVE TypeInv'
  BY <1>7, ForeignUpdate DEF PublishForeign, TypeInv
<1>8. CASE UNCHANGED vars
  BY <1>8 DEF vars, TypeInv
<1> QED BY <1>1, <1>2, <1>3, <1>4, <1>5, <1>6, <1>7, <1>8 DEF Next, NodeStep, NetStep

LEMMA InitTyped == Init => TypeInv
BY DEF Init, TypeInv, Prefs

-----------------------------------------------------------------------------
(* How much can be under way *)

\* An announcement waits to go out or is on the wire only if it stands for a
\* change, the one about to be announced included.
SentInv ==
    /\ changes \in [Nodes -> Nat] /\ links \subseteq Pairs
    /\ \A n \in Nodes : changes[n] <= MaxChanges[n]
    /\ \A n, m \in Nodes, p \in Prefs :
          pending[n][m] + wire[n][m][p] + (IF pc[n] = "publish" THEN 1 ELSE 0) <= changes[n]

LEMMA SentStep == TypeInv /\ SentInv /\ [Next]_vars => SentInv'
<1> SUFFICES ASSUME TypeInv, SentInv, [Next]_vars PROVE SentInv'
  OBVIOUS
<1>t. TypeInv'
  BY TypeStep
<1> USE BoundAssumption
<1>1. ASSUME NEW n \in Nodes, NEW s \in Shards, Advertise(n, s) PROVE SentInv'
  <2>1. /\ changes[n] < MaxChanges[n] /\ changes' = [changes EXCEPT ![n] = @ + 1]
        /\ pc[n] = "idle" /\ pc' = [pc EXCEPT ![n] = "publish"] /\ UNCHANGED <<pending, wire, links>>
    BY <1>1 DEF Advertise
  <2> QED BY <2>1 DEF TypeInv, SentInv
<1>2. ASSUME NEW n \in Nodes, Publish(n) PROVE SentInv'
  <2>1. /\ pc[n] = "publish" /\ pc' = [pc EXCEPT ![n] = "idle"] /\ UNCHANGED <<wire, links, changes>>
    BY <1>2 DEF Publish
  <2>2. \A x, y \in Nodes : pending'[x][y] = IF x = n /\ y \in Linked(n) THEN pending[x][y] + 1
                                                                       ELSE pending[x][y]
    BY <1>2, PendingUpdate
  <2> QED BY <2>1, <2>2 DEF TypeInv, SentInv
<1>3. ASSUME NEW n \in Nodes, PublishFails(n) PROVE SentInv'
  BY <1>3 DEF PublishFails, TypeInv, SentInv
<1>4. ASSUME NEW n \in Nodes, NEW m \in Nodes, Serialise(n, m) PROVE SentInv'
  <2>1. /\ pref[n] \in Prefs /\ wire[n][m][pref[n]] + 1 \in Nat
        /\ wire' = [wire EXCEPT ![n][m][pref[n]] = wire[n][m][pref[n]] + 1]
        /\ UNCHANGED <<pc, links, changes>>
    BY <1>4 DEF Serialise, TypeInv
  <2>2. \A x, y \in Nodes, q \in Prefs :
           wire'[x][y][q] = IF x = n /\ y = m /\ q = pref[n] THEN wire[x][y][q] + 1 ELSE wire[x][y][q]
    BY <2>1 DEF TypeInv
  <2>3. \A x, y \in Nodes : pending'[x][y] = IF x = n /\ y = m THEN pending[x][y] - 1 ELSE pending[x][y]
    BY <1>4 DEF Serialise, TypeInv
  <2> QED BY <2>1, <2>2, <2>3 DEF TypeInv, SentInv
<1>5. ASSUME NEW n \in Nodes, NEW m \in Nodes, NEW p \in Prefs, Handle(n, m, p) \/ Lose(n, m, p)
      PROVE  SentInv'
  <2>1. /\ wire' = [wire EXCEPT ![n][m][p] = wire[n][m][p] - 1] /\ wire[n][m][p] - 1 \in Nat
        /\ UNCHANGED <<pc, pending, links, changes>>
    BY <1>5 DEF Handle, Lose, TypeInv
  <2>2. \A x, y \in Nodes, q \in Prefs :
           wire'[x][y][q] = IF x = n /\ y = m /\ q = p THEN wire[x][y][q] - 1 ELSE wire[x][y][q]
    BY <2>1 DEF TypeInv
  <2> QED BY <2>1, <2>2 DEF TypeInv, SentInv
<1>6. ASSUME NEW n \in Nodes, NEW m \in Nodes, AddPeer(n, m) \/ RemovePeer(n, m) PROVE SentInv'
  <2>1. links' \subseteq Pairs
    BY <1>6, NetAssumption DEF AddPeer, RemovePeer, SentInv
  <2> QED BY <1>6, <2>1 DEF AddPeer, RemovePeer, SentInv
<1>7. ASSUME NEW n \in Nodes, NEW p \in Prefs, PublishForeign(n, p) PROVE SentInv'
  <2>1. /\ changes[n] < MaxChanges[n] /\ changes' = [changes EXCEPT ![n] = @ + 1]
        /\ UNCHANGED <<pc, pending, links>>
    BY <1>7 DEF PublishForeign
  <2>2. \A x, y \in Nodes, q \in Prefs :
           wire'[x][y][q] = wire[x][y][q] \/ (x = n /\ wire'[x][y][q] = wire[x][y][q] + 1)
    BY <1>7, ForeignUpdate
  <2>3. /\ changes' \in [Nodes -> Nat]
        /\ \A x \in Nodes : changes'[x] = IF x = n THEN changes[x] + 1 ELSE changes[x]
    BY <2>1 DEF SentInv
  <2>4. ASSUME NEW x \in Nodes, NEW y \in Nodes, NEW q \in Prefs
        PROVE  pending'[x][y] + wire'[x][y][q] + (IF pc'[x] = "publish" THEN 1 ELSE 0) <= changes'[x]
    <3>1. /\ pending[x][y] \in Nat /\ wire[x][y][q] \in Nat /\ changes[x] \in Nat
          /\ pending[x][y] + wire[x][y][q] + (IF pc[x] = "publish" THEN 1 ELSE 0) <= changes[x]
      BY DEF TypeInv, SentInv
    <3> QED BY <2>1, <2>2, <2>3, <3>1
  <2>5. \A x \in Nodes : changes'[x] <= MaxChanges[x]
    BY <2>1, <2>3 DEF SentInv
  <2> QED BY <2>1, <2>3, <2>4, <2>5 DEF SentInv
<1>8. CASE UNCHANGED vars
  BY <1>8 DEF vars, SentInv
<1> QED BY <1>1, <1>2, <1>3, <1>4, <1>5, <1>6, <1>7, <1>8 DEF Next, NodeStep, NetStep

\* Every reachable state is well typed, and a node never has more announcements
\* under way to a peer than it has made changes.
THEOREM TypeCorrect == Spec => []TypeOK
<1>1. Init => SentInv
  BY BoundAssumption, NetAssumption DEF Init, SentInv
<1>2. TypeInv /\ SentInv => TypeOK
  <2> SUFFICES ASSUME TypeInv, SentInv PROVE TypeOK
    OBVIOUS
  <2>1. \A n, m \in Nodes, p \in Prefs :
           pending[n][m] + wire[n][m][p] <= changes[n] /\ changes[n] <= MaxChanges[n]
    <3> SUFFICES ASSUME NEW n \in Nodes, NEW m \in Nodes, NEW p \in Prefs
                 PROVE  pending[n][m] + wire[n][m][p] <= changes[n] /\ changes[n] <= MaxChanges[n]
      OBVIOUS
    <3>1. /\ pending[n][m] \in Nat /\ wire[n][m][p] \in Nat /\ changes[n] \in Nat
          /\ pending[n][m] + wire[n][m][p] + (IF pc[n] = "publish" THEN 1 ELSE 0) <= changes[n]
          /\ changes[n] <= MaxChanges[n]
      BY DEF TypeInv, SentInv
    <3> QED BY <3>1
  <2> QED BY <2>1 DEF TypeInv, SentInv, TypeOK
<1> QED BY <1>1, <1>2, InitTyped, TypeStep, SentStep, PTL DEF Spec

-----------------------------------------------------------------------------
(* Any network *)

\* A preference in a table, on the wire or in force is one its node has held,
\* unless that runs another program.
RumourInv ==
    /\ \A n \in Nodes : pref[n] \in held[n]
    /\ \A n \in Nodes \ Foreign, m \in Nodes, p \in Prefs : wire[n][m][p] > 0 => p \in held[n]
    /\ NoRumours

LEMMA RumourStep == TypeInv /\ RumourInv /\ [Next]_vars => RumourInv'
<1> SUFFICES ASSUME TypeInv, RumourInv, [Next]_vars PROVE RumourInv'
  OBVIOUS
<1> USE DEF RumourInv, NoRumours
<1>1. ASSUME NEW n \in Nodes, NEW s \in Shards, Advertise(n, s) PROVE RumourInv'
  <2> DEFINE p == IF s \in pref[n] THEN pref[n] \ {s} ELSE pref[n] \cup {s}
  <2>1. /\ pref' = [pref EXCEPT ![n] = p] /\ held' = [held EXCEPT ![n] = @ \cup {p}]
        /\ UNCHANGED <<wire, table>>
    BY <1>1 DEF Advertise
  <2> HIDE DEF p
  <2>2. \A x \in Nodes : held[x] \subseteq held'[x]
    BY <2>1 DEF TypeInv
  <2>3. \A x \in Nodes : pref'[x] \in held'[x]
    BY <2>1 DEF TypeInv
  <2> QED BY <2>1, <2>2, <2>3
<1>2. ASSUME NEW n \in Nodes, Publish(n) \/ PublishFails(n) PROVE RumourInv'
  BY <1>2 DEF Publish, PublishFails
<1>3. ASSUME NEW n \in Nodes, NEW m \in Nodes, Serialise(n, m) PROVE RumourInv'
  <2>1. /\ wire' = [wire EXCEPT ![n][m][pref[n]] = wire[n][m][pref[n]] + 1]
        /\ wire[n][m][pref[n]] + 1 \in Nat /\ pref[n] \in Prefs
        /\ UNCHANGED <<pref, table, held>>
    BY <1>3 DEF Serialise, TypeInv
  <2>2. \A x, y \in Nodes, q \in Prefs :
           wire'[x][y][q] > 0 => wire[x][y][q] > 0 \/ (x = n /\ q = pref[n])
    BY <2>1, WireUpdate
  <2> QED BY <2>1, <2>2
<1>4. ASSUME NEW n \in Nodes, NEW m \in Nodes, NEW p \in Prefs,
             Handle(n, m, p) \/ Lose(n, m, p)
      PROVE  RumourInv'
  <2>1. /\ wire' = [wire EXCEPT ![n][m][p] = wire[n][m][p] - 1]
        /\ wire[n][m][p] - 1 \in Nat /\ wire[n][m][p] > 0
        /\ UNCHANGED <<pref, held>>
    BY <1>4 DEF Handle, Lose, TypeInv
  <2>2. \A x, y \in Nodes, q \in Prefs : wire'[x][y][q] > 0 => wire[x][y][q] > 0
    BY <2>1, WireUpdate
  <2>3. \A x, y \in Nodes : table'[y][x] = table[y][x] \/ (x = n /\ table'[y][x] = p)
    BY <1>4, TableUpdate DEF Handle, Lose
  <2> QED BY <2>1, <2>2, <2>3
<1>5. ASSUME NEW n \in Nodes, NEW m \in Nodes, AddPeer(n, m) \/ RemovePeer(n, m)
      PROVE  RumourInv'
  BY <1>5 DEF AddPeer, RemovePeer
<1>6. ASSUME NEW n \in Nodes \cap Foreign, NEW p \in Prefs, PublishForeign(n, p) PROVE RumourInv'
  <2>1. \A x \in Nodes \ Foreign, y \in Nodes, q \in Prefs : wire'[x][y][q] = wire[x][y][q]
    BY <1>6, ForeignUpdate
  <2> QED BY <1>6, <2>1 DEF PublishForeign
<1>7. CASE UNCHANGED vars
  BY <1>7 DEF vars
<1> QED BY <1>1, <1>2, <1>3, <1>4, <1>5, <1>6, <1>7 DEF Next, NodeStep, NetStep

\* In any network, whatever is lost, reordered or disconnected and whatever other
\* programs announce, a table never holds a preference its peer has not had, if
\* that runs this program (shardmanager.go:310-316).
THEOREM NoRumoursEver == Spec => []NoRumours
<1>1. Init => TypeInv /\ RumourInv
  <2>1. Init => RumourInv
    BY DEF Init, RumourInv, NoRumours
  <2> QED BY <2>1, InitTyped
<1>2. TypeInv /\ RumourInv /\ [Next]_vars => (TypeInv /\ RumourInv)'
  BY TypeStep, RumourStep
<1>3. TypeInv /\ RumourInv => NoRumours
  BY DEF RumourInv
<1> QED BY <1>1, <1>2, <1>3, PTL DEF Spec

-----------------------------------------------------------------------------
(* Steady peers *)

\* An entry is exact as soon as its peer's announcements have been handled.
EntryIsExact ==
    \A n, m \in Nodes : Sure(n, m) /\ Settled(n, m) => table[m][n] = pref[n]

\* Fixed links are up; of a steady node, a change not yet published follows a
\* drained wire and what is on the wire is the preference in force; settled
\* entries are exact.
SteadyInv ==
    /\ Fixed \subseteq links
    /\ \A n \in Steady : pc[n] = "publish" => Drained(n)
    /\ \A n \in Steady, m \in Nodes, p \in Prefs : wire[n][m][p] > 0 => p = pref[n]
    /\ EntryIsExact

LEMMA SureLinked ==
    ASSUME SteadyInv, NEW n \in Nodes, NEW m \in Nodes, Sure(n, m)
    PROVE  n \in Steady /\ m \in Linked(n)
<1>1. {n, m} \in Pairs
  BY NetAssumption DEF Sure
<1>2. n # m
  <2>1. \A k \in Nodes : {n, m} # {k}
    BY <1>1 DEF Pairs
  <2> QED BY <2>1
<1> QED BY <1>2 DEF Linked, SteadyInv, Sure

LEMMA SteadyStep == TypeInv /\ SteadyInv /\ [Next]_vars => SteadyInv'
<1> SUFFICES ASSUME TypeInv, SteadyInv, [Next]_vars PROVE SteadyInv'
  OBVIOUS
<1> USE NetAssumption
<1>1. ASSUME NEW n \in Nodes, NEW s \in Shards, Advertise(n, s) PROVE SteadyInv'
  <2>1. /\ \A x \in Nodes : x # n => pref'[x] = pref[x] /\ pc'[x] = pc[x]
        /\ pc'[n] = "publish" /\ (n \in Steady => Drained(n))
        /\ UNCHANGED <<pending, wire, table, links>>
    BY <1>1 DEF Advertise, TypeInv
  <2>2. \A x \in Nodes : Drained(x)' <=> Drained(x)
    BY <2>1 DEF Drained
  <2>3. \A x \in Steady, m \in Nodes, p \in Prefs : wire'[x][m][p] > 0 => p = pref'[x]
    BY <2>1 DEF SteadyInv, Drained, TypeInv
  <2>4. EntryIsExact'
    BY <2>1 DEF SteadyInv, EntryIsExact, Settled, Sure
  <2> QED BY <2>1, <2>2, <2>3, <2>4 DEF SteadyInv
<1>2. ASSUME NEW n \in Nodes, Publish(n) PROVE SteadyInv'
  <2>1. /\ \A x, y \in Nodes :
             pending'[x][y] = IF x = n /\ y \in Linked(n) THEN pending[x][y] + 1
                                                         ELSE pending[x][y]
        /\ pc'[n] = "idle" /\ \A x \in Nodes : x # n => pc'[x] = pc[x]
        /\ UNCHANGED <<pref, wire, table, links>>
    BY <1>2, PendingUpdate DEF Publish, TypeInv
  <2>2. \A x \in Nodes : x # n => (Drained(x)' <=> Drained(x))
    BY <2>1 DEF Drained
  <2>3. \A y \in Nodes : Sure(n, y) => pending'[n][y] # 0
    BY <2>1, SureLinked DEF TypeInv
  <2>4. EntryIsExact'
    BY <2>1, <2>3 DEF SteadyInv, EntryIsExact, Settled, Sure
  <2>5. \A x \in Steady : pc'[x] = "publish" => Drained(x)'
    BY <2>1, <2>2 DEF SteadyInv
  <2> QED BY <2>1, <2>4, <2>5 DEF SteadyInv
<1>3. ASSUME NEW n \in Nodes, PublishFails(n) PROVE SteadyInv'
  <2>1. /\ n \notin Steady /\ \A x \in Nodes : x # n => pc'[x] = pc[x]
        /\ UNCHANGED <<pref, pending, wire, table, links>>
    BY <1>3 DEF PublishFails, TypeInv
  <2>2. \A x \in Nodes : Drained(x)' <=> Drained(x)
    BY <2>1 DEF Drained
  <2>3. EntryIsExact'
    BY <2>1 DEF SteadyInv, EntryIsExact, Settled, Sure
  <2> QED BY <2>1, <2>2, <2>3 DEF SteadyInv
<1>4. ASSUME NEW n \in Nodes, NEW m \in Nodes, Serialise(n, m) PROVE SteadyInv'
  <2>1. /\ wire' = [wire EXCEPT ![n][m][pref[n]] = wire[n][m][pref[n]] + 1]
        /\ wire[n][m][pref[n]] + 1 \in Nat /\ pref[n] \in Prefs
        /\ \A x, y \in Nodes : x # n \/ y # m => pending'[x][y] = pending[x][y]
        /\ UNCHANGED <<pref, pc, table, links>>
    BY <1>4 DEF Serialise, TypeInv
  <2>2. \A x, y \in Nodes, q \in Prefs :
           wire'[x][y][q] = IF x = n /\ y = m /\ q = pref[n]
                              THEN wire[n][m][pref[n]] + 1 ELSE wire[x][y][q]
    BY <2>1 DEF TypeInv
  <2>3. n \in Steady => pc[n] # "publish"
    BY <1>4 DEF Serialise, SteadyInv, Drained, TypeInv
  <2>4. \A x \in Steady : pc'[x] = "publish" => Drained(x)'
    BY <2>1, <2>2, <2>3 DEF SteadyInv, Drained
  <2>5. \A x \in Steady, y \in Nodes, q \in Prefs : wire'[x][y][q] > 0 => q = pref'[x]
    BY <2>1, <2>2 DEF SteadyInv
  <2>6. ~Settled(n, m)'
    <3>1. wire'[n][m][pref[n]] # 0 /\ pref[n] \in Prefs
      BY <2>1, <2>2 DEF TypeInv
    <3> QED BY <3>1 DEF Settled
  <2>7. EntryIsExact'
    BY <2>1, <2>2, <2>6 DEF SteadyInv, EntryIsExact, Settled, Sure
  <2> QED BY <2>1, <2>4, <2>5, <2>7 DEF SteadyInv
<1>5. ASSUME NEW n \in Nodes, NEW m \in Nodes, NEW p \in Prefs,
             Handle(n, m, p) \/ Lose(n, m, p)
      PROVE  SteadyInv'
  <2>1. /\ wire' = [wire EXCEPT ![n][m][p] = wire[n][m][p] - 1]
        /\ wire[n][m][p] - 1 \in Nat /\ wire[n][m][p] > 0
        /\ UNCHANGED <<pref, pc, pending, links>>
    BY <1>5 DEF Handle, Lose, TypeInv
  <2>2. \A x, y \in Nodes, q \in Prefs :
           wire'[x][y][q] = IF x = n /\ y = m /\ q = p
                              THEN wire[n][m][p] - 1 ELSE wire[x][y][q]
    BY <2>1 DEF TypeInv
  <2>3. \/ ~Sure(n, m)
        \/ p = pref[n] /\ table'[m][n] = p
    <3>1. CASE Handle(n, m, p) /\ Sure(n, m)
      <4>1. p = pref[n]
        BY <3>1, <2>1 DEF SteadyInv, Sure
      <4>2. table'[m][n] = p
        BY <3>1, TableUpdate DEF Handle
      <4> QED BY <4>1, <4>2
    <3> QED BY <3>1, <1>5 DEF Lose
  <2>4. \A x, y \in Nodes : x # n \/ y # m => table'[y][x] = table[y][x]
    BY <1>5, TableUpdate DEF Handle, Lose
  <2>5. n \in Steady => pc[n] # "publish"
    <3>1. ~Drained(n)
      BY <2>1 DEF Drained
    <3> QED BY <3>1 DEF SteadyInv
  <2>6. \A x \in Steady : pc'[x] = "publish" => Drained(x)'
    BY <2>1, <2>2, <2>5 DEF SteadyInv, Drained
  <2>7. \A x \in Steady, y \in Nodes, q \in Prefs : wire'[x][y][q] > 0 => q = pref'[x]
    BY <2>1, <2>2 DEF SteadyInv
  <2>8. EntryIsExact'
    <3> SUFFICES ASSUME NEW x \in Nodes, NEW y \in Nodes, Sure(x, y), Settled(x, y)'
                 PROVE  table'[y][x] = pref'[x]
      BY DEF EntryIsExact, Sure
    <3>1. CASE x = n /\ y = m
      BY <3>1, <2>1, <2>3
    <3>2. CASE x # n \/ y # m
      <4>1. Settled(x, y)
        BY <3>2, <2>1, <2>2 DEF Settled
      <4> QED BY <4>1, <3>2, <2>1, <2>4 DEF SteadyInv, EntryIsExact
    <3> QED BY <3>1, <3>2
  <2> QED BY <2>1, <2>6, <2>7, <2>8 DEF SteadyInv
<1>6. ASSUME NEW n \in Nodes, NEW m \in Nodes, AddPeer(n, m) \/ RemovePeer(n, m)
      PROVE  SteadyInv'
  <2>1. Fixed \subseteq links' /\ UNCHANGED <<pref, pc, pending, wire, table>>
    BY <1>6 DEF AddPeer, RemovePeer, SteadyInv
  <2> QED BY <2>1 DEF SteadyInv, EntryIsExact, Settled, Drained
<1>7. ASSUME NEW n \in Nodes \cap Foreign, NEW p \in Prefs, PublishForeign(n, p) PROVE SteadyInv'
  <2>1. /\ \A x \in Steady, y \in Nodes, q \in Prefs : wire'[x][y][q] = wire[x][y][q]
        /\ UNCHANGED <<pref, pc, pending, table, links>>
    BY <1>7, ForeignUpdate DEF PublishForeign
  <2>2. \A x \in Steady : Drained(x)' <=> Drained(x)
    BY <2>1 DEF Drained
  <2>3. EntryIsExact'
    BY <2>1 DEF SteadyInv, EntryIsExact, Settled, Sure
  <2> QED BY <2>1, <2>2, <2>3 DEF SteadyInv
<1>8. CASE UNCHANGED vars
  BY <1>8 DEF vars, SteadyInv, EntryIsExact, Settled, Drained
<1> QED BY <1>1, <1>2, <1>3, <1>4, <1>5, <1>6, <1>7, <1>8 DEF Next, NodeStep, NetStep

\* DiscoverShard, once every announcement of a steady peer on a link that stays
\* has been handled, lists that peer for exactly the shards it is in, whatever
\* happens to the other nodes and links (rpcserver.go:130-168, discovery.go:59-76).
THEOREM SteadyDiscovery == Spec => []DiscoveryIsRight
<1>1. Init => TypeInv /\ SteadyInv
  <2>1. Init => SteadyInv
    BY NetAssumption DEF Init, SteadyInv, EntryIsExact, Prefs
  <2> QED BY <2>1, InitTyped
<1>2. TypeInv /\ SteadyInv /\ [Next]_vars => (TypeInv /\ SteadyInv)'
  BY TypeStep, SteadyStep
<1>3. TypeInv /\ SteadyInv => DiscoveryIsRight
  <2> SUFFICES ASSUME SteadyInv, NEW n \in Nodes, NEW m \in Nodes,
                      Sure(m, n), Settled(m, n), NEW ts \in SUBSET Shards,
                      NEW s \in DOMAIN DiscoverShard(n, ts)
               PROVE  /\ n \notin DiscoverShard(n, ts)[s]
                      /\ m \in DiscoverShard(n, ts)[s] <=> s \in pref[m]
    BY DEF DiscoveryIsRight, Finds
  <2>1. table[n][m] = pref[m] /\ m # n
    BY SureLinked DEF SteadyInv, EntryIsExact, Linked
  <2>2. DiscoverShard(n, ts)[s] = FindPeers(n, s)
    BY DEF DiscoverShard
  <2> QED BY <2>1, <2>2 DEF FindPeers, GetPeersInShard
<1> QED BY <1>1, <1>2, <1>3, PTL DEF Spec
=============================================================================
