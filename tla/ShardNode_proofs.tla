-------------------------- MODULE ShardNode_proofs --------------------------
(***************************************************************************)
(* Theorems about ShardNode, for any number of shards, clients, requests   *)
(* and handles:                                                            *)
(*   - under any interleaving and any failure, no nil is dereferenced and  *)
(*     the map of subscriptions holds no dangling handle;                  *)
(*   - on a node with one table entry, under any race and any failure, an  *)
(*     echo changes nothing and a shard alone in its byte is changed in    *)
(*     the list by the one client that asks for it;                        *)
(*   - if announcements are published, table, subscriptions and pubsub     *)
(*     agree on such a shard, success means what it says of it, and it is  *)
(*     handled as Membership says, whatever happens in the other bytes;    *)
(*   - when no byte is shared and nothing fails, that is every shard.      *)
(***************************************************************************)
EXTENDS ShardNode, TLAPS

-----------------------------------------------------------------------------
(* Types and pointers. *)

TypeInv == TypeOK /\ NoNilDereference

\* No step of any client or of the echo, from a well-typed state, leaves the
\* types or makes a later step follow a nil.
LEMMA TypeStep == TypeInv /\ [Next]_vars => TypeInv'
<1> SUFFICES ASSUME TypeInv, [Next]_vars PROVE TypeInv'
  OBVIOUS
<1> USE DEF TypeInv, TypeOK, NoNilDereference, Labels, mem, sub, call, Goto
<1>1. ASSUME NEW c \in Clients, NEW b \in Requests[c], SubscribeShard(c, b)
      PROVE  TypeInv'
  BY <1>1, RequestsAssumption DEF SubscribeShard, Accept
<1>2. ASSUME NEW c \in Clients, NEW b \in Requests[c], UnsubscribeShard(c, b)
      PROVE  TypeInv'
  BY <1>2, RequestsAssumption DEF UnsubscribeShard, Accept
<1>3. ASSUME NEW c \in Clients, Check(c) PROVE TypeInv'
  <2>1. CASE (cur[c] \in Listening) <=> (op[c] = "listen")
    <3>1. Return(c, TRUE) /\ UNCHANGED <<mem, sub, call, ptr, byt>>
      BY <1>3, <2>1 DEF Check
    <3> QED
      BY <3>1 DEF Return
  <2>2. CASE ~((cur[c] \in Listening) <=> (op[c] = "listen"))
    BY <1>3, <2>2 DEF Check
  <2> QED
    BY <2>1, <2>2
<1>4. ASSUME NEW c \in Clients, Fetch(c) PROVE TypeInv'
  BY <1>4, NilAssumption DEF Fetch
<1>5. ASSUME NEW c \in Clients, Refetch(c) PROVE TypeInv'
  BY <1>5, NilAssumption DEF Refetch
<1>6. ASSUME NEW c \in Clients, UnsetRead(c) PROVE TypeInv'
  BY <1>6, NilAssumption DEF UnsetRead
<1>7. ASSUME NEW c \in Clients, AddFetch(c) PROVE TypeInv'
  BY <1>7, NilAssumption DEF AddFetch, Refs
<1>8. ASSUME NEW c \in Clients, AddStore(c) PROVE TypeInv'
  BY <1>8, NilAssumption DEF AddStore
<1>9. ASSUME NEW c \in Clients, GetPref(c) PROVE TypeInv'
  BY <1>9, NilAssumption DEF GetPref
<1>10. ASSUME NEW c \in Clients, NextShard(c) PROVE TypeInv'
  BY <1>10, NilAssumption DEF NextShard
<1>11. ASSUME NEW c \in Clients, EndCall(c) PROVE TypeInv'
  BY <1>11, NilAssumption DEF EndCall
<1>12. ASSUME NEW c \in Clients, Decide(c) PROVE TypeInv'
  BY <1>12, NilAssumption DEF Decide
<1>13. ASSUME NEW c \in Clients, Recheck(c) PROVE TypeInv'
  BY <1>13, NilAssumption DEF Recheck
<1>14. ASSUME NEW c \in Clients, UnsetWrite(c) PROVE TypeInv'
  BY <1>14, NilAssumption DEF UnsetWrite, WriteByte
<1>15. ASSUME NEW c \in Clients, SetRead(c) PROVE TypeInv'
  <2>1. CASE cur[c] \in Shards
    BY <1>15, <2>1, NilAssumption DEF SetRead, Return
  <2>2. CASE ~(cur[c] \in Shards)
    <3>1. /\ Return(c, FALSE) /\ ptr' = [ptr EXCEPT ![c] = Nil]
          /\ UNCHANGED <<mem, sub, call, byt>>
      BY <1>15, <2>2 DEF SetRead
    <3> QED
      BY <3>1 DEF Return
  <2> QED
    BY <2>1, <2>2
<1>16. ASSUME NEW c \in Clients, SetWrite(c) PROVE TypeInv'
  BY <1>16, NilAssumption DEF SetWrite, WriteByte
<1>17. ASSUME NEW c \in Clients, Publish(c) PROVE TypeInv'
  BY <1>17, NilAssumption DEF Publish
<1>18. ASSUME NEW c \in Clients, PublishFails(c) PROVE TypeInv'
  BY <1>18, NilAssumption DEF PublishFails, Return
<1>19. ASSUME NEW c \in Clients, Subscribe(c) PROVE TypeInv'
  BY <1>19, NilAssumption DEF Subscribe, FreeSubs
<1>20. ASSUME NEW c \in Clients, SubscribeFails(c) PROVE TypeInv'
  BY <1>20, NilAssumption DEF SubscribeFails, Return
<1>21. ASSUME NEW c \in Clients, StoreSub(c) PROVE TypeInv'
  BY <1>21, NilAssumption DEF StoreSub, Return
<1>22. ASSUME NEW c \in Clients, FetchSub(c) PROVE TypeInv'
  <2>1. CASE subs[cur[c]] = Nil
    <3>1. Return(c, TRUE) /\ UNCHANGED <<mem, sub, call, ptr, byt>>
      BY <1>22, <2>1 DEF FetchSub
    <3> QED
      BY <3>1 DEF Return
  <2>2. CASE ~(subs[cur[c]] = Nil)
    BY <1>22, <2>2, NilAssumption DEF FetchSub, Return
  <2> QED
    BY <2>1, <2>2
<1>23. ASSUME NEW c \in Clients, Cancel(c) PROVE TypeInv'
  BY <1>23, NilAssumption DEF Cancel
<1>24. ASSUME NEW c \in Clients, DeleteSub(c) PROVE TypeInv'
  BY <1>24, NilAssumption DEF DeleteSub, Return
<1>25. ASSUME NEW r \in Refs, Echo(r) PROVE TypeInv'
  BY <1>25, NilAssumption DEF Echo, Refs
<1>26. ASSUME NEW r \in Refs, EchoDropped(r) PROVE TypeInv'
  BY <1>26 DEF EchoDropped
<1>27. CASE UNCHANGED vars
  BY <1>27 DEF vars
<1> QED
  BY <1>1, <1>2, <1>3, <1>4, <1>5, <1>6, <1>7, <1>8, <1>9, <1>10, <1>11, <1>12, <1>13, <1>14, <1>15, <1>16, <1>17, <1>18, <1>19, <1>20, <1>21, <1>22, <1>23, <1>24, <1>25, <1>26, <1>27
  DEF Next, LockStep, FreeStep

LEMMA TypeInit == Init => TypeInv
  BY NumShardsAssumption, NilAssumption, BoundsAssumption
  DEF Init, TypeInv, TypeOK, NoNilDereference, Labels, Refs

\* Whatever the interleaving and whatever fails, every variable keeps its type.
THEOREM TypeCorrect == Spec => []TypeOK
  BY TypeInit, TypeStep, PTL DEF Spec, TypeInv

\* Whatever the interleaving and whatever fails, no step of ListenShard and
\* UnlistenShard follows a nil pointer or a missing handle.
THEOREM PointersAreSound == Spec => []NoNilDereference
  BY TypeInit, TypeStep, PTL DEF Spec, TypeInv

-----------------------------------------------------------------------------
(* Subscription handles. *)

\* Labels at which a client is in the middle of using a handle.
HandleLabels == {"storesub", "cancel", "deletesub"}

\* Nobody but its subscriber knows a handle that is not stored yet; a handle is
\* stored for one shard; whoever is cancelling a handle works on that shard, and
\* the handle is subscribed to its topic or to none.
HandleInv ==
    /\ \A c \in Clients : pc[c] = "storesub" =>
          /\ held[c] \in SubIDs /\ live[held[c]] = cur[c]
          /\ \A s \in Shards : subs[s] # held[c]
          /\ \A d \in Clients \ {c} : held[d] # held[c]
    /\ \A c \in Clients : pc[c] \in {"cancel", "deletesub"} =>
          /\ held[c] \in SubIDs
          /\ live[held[c]] \in {cur[c], Nil}
          /\ \A s \in Shards : subs[s] = held[c] => s = cur[c]
    /\ \A s, t \in Shards : subs[s] # Nil /\ subs[s] = subs[t] => s = t

DanglingInv == HandleInv /\ NoDanglingSub

\* A step away from the handles preserves the invariant: one that changes
\* neither subs nor live nor held, and moves a client that is not using a handle
\* to a label where it still is not.
LEMMA HandleFrame ==
    ASSUME DanglingInv, NEW c \in Clients, pc \in [Clients -> Labels],
           UNCHANGED sub, pc[c] \notin HandleLabels, pc'[c] \notin HandleLabels,
           \A d \in Clients \ {c} : pc'[d] = pc[d] /\ cur'[d] = cur[d]
    PROVE  DanglingInv'
<1>1. \A d \in Clients : pc'[d] \in HandleLabels =>
         pc'[d] = pc[d] /\ cur'[d] = cur[d]
  OBVIOUS
<1>2. \A d \in Clients : pc[d] = "deletesub" => pc'[d] = "deletesub" /\ cur'[d] = cur[d]
  BY DEF HandleLabels
<1>3. HandleInv'
  BY <1>1 DEF DanglingInv, HandleInv, HandleLabels, sub
<1>4. NoDanglingSub'
  BY <1>2 DEF DanglingInv, NoDanglingSub, sub
<1> QED
  BY <1>3, <1>4 DEF DanglingInv

LEMMA HandleStep == TypeInv /\ DanglingInv /\ [Next]_vars => DanglingInv'
<1> SUFFICES ASSUME TypeInv, DanglingInv, [Next]_vars PROVE DanglingInv'
  OBVIOUS
<1>0. TypeOK /\ pc \in [Clients -> Labels]
  BY DEF TypeInv, TypeOK
<1>1. ASSUME NEW c \in Clients, NEW b \in Requests[c],
             SubscribeShard(c, b) \/ UnsubscribeShard(c, b)
      PROVE  DanglingInv'
  BY <1>0, <1>1, HandleFrame
  DEF SubscribeShard, UnsubscribeShard, Accept, Goto, HandleLabels
<1>2. ASSUME NEW c \in Clients, LockStep(c) PROVE DanglingInv'
  <2>1. /\ pc[c] \notin HandleLabels /\ pc'[c] \notin HandleLabels
        /\ UNCHANGED <<sub, cur>>
        /\ \A d \in Clients \ {c} : pc'[d] = pc[d]
    BY <1>0, <1>2
    DEF LockStep, Check, Fetch, Refetch, UnsetRead, AddFetch, AddStore, GetPref,
        Goto, Return, HandleLabels, call
  <2> QED
    BY <1>0, <2>1, HandleFrame
<1>3. ASSUME NEW c \in Clients,
             \/ NextShard(c) \/ EndCall(c) \/ Decide(c) \/ Recheck(c)
             \/ UnsetWrite(c) \/ SetRead(c) \/ SetWrite(c)
             \/ Publish(c) \/ PublishFails(c) \/ SubscribeFails(c)
      PROVE  DanglingInv'
  <2>1. /\ pc[c] \notin HandleLabels /\ pc'[c] \notin HandleLabels
        /\ UNCHANGED sub
        /\ \A d \in Clients \ {c} : pc'[d] = pc[d] /\ cur'[d] = cur[d]
    BY <1>0, <1>3
    DEF NextShard, EndCall, Decide, Recheck, UnsetWrite, SetRead, SetWrite,
        Publish, PublishFails, SubscribeFails, Goto, Return, HandleLabels, call, TypeOK
  <2> QED
    BY <1>0, <2>1, HandleFrame
<1>4. ASSUME NEW c \in Clients, Subscribe(c) PROVE DanglingInv'
  <2>1. PICK x \in FreeSubs : /\ live' = [live EXCEPT ![x] = cur[c]]
                              /\ held' = [held EXCEPT ![c] = x]
    BY <1>4 DEF Subscribe
  <2>2. /\ x \in SubIDs /\ (\A s \in Shards : subs[s] # x) /\ (\A d \in Clients : held[d] # x)
        /\ pc' = [pc EXCEPT ![c] = "storesub"] /\ subs' = subs /\ cur' = cur
        /\ pc[c] = "subscribe"
    BY <1>4 DEF Subscribe, FreeSubs, Goto, call
  <2>3. HandleInv'
    BY <1>0, <2>1, <2>2, NilAssumption DEF DanglingInv, HandleInv, TypeOK
  <2>4. NoDanglingSub'
    BY <1>0, <2>1, <2>2 DEF DanglingInv, NoDanglingSub, TypeOK
  <2> QED
    BY <2>3, <2>4 DEF DanglingInv
<1>5. ASSUME NEW c \in Clients, StoreSub(c) PROVE DanglingInv'
  <2>1. /\ pc[c] = "storesub" /\ pc' = [pc EXCEPT ![c] = "next"]
        /\ subs' = [subs EXCEPT ![cur[c]] = held[c]]
        /\ held' = [held EXCEPT ![c] = Nil] /\ live' = live /\ cur' = cur
        /\ cur[c] \in Shards
    BY <1>5 DEF StoreSub, Return, Goto, call, TypeInv, NoNilDereference
  <2>2. HandleInv'
    BY <1>0, <2>1, NilAssumption DEF DanglingInv, HandleInv, TypeOK
  <2>3. NoDanglingSub'
    BY <1>0, <2>1, NilAssumption DEF DanglingInv, HandleInv, NoDanglingSub, TypeOK
  <2> QED
    BY <2>2, <2>3 DEF DanglingInv
<1>6. ASSUME NEW c \in Clients, FetchSub(c) PROVE DanglingInv'
  <2>1. CASE subs[cur[c]] = Nil
    BY <1>0, <1>6, <2>1, HandleFrame
    DEF FetchSub, Return, Goto, HandleLabels, sub, call
  <2>2. CASE subs[cur[c]] # Nil
    <3>1. /\ pc[c] = "fetchsub" /\ pc' = [pc EXCEPT ![c] = "cancel"]
          /\ held' = [held EXCEPT ![c] = subs[cur[c]]]
          /\ subs' = subs /\ live' = live /\ cur' = cur /\ cur[c] \in Shards
      BY <1>6, <2>2 DEF FetchSub, Goto, call, TypeInv, NoNilDereference
    <3>2. HandleInv'
      <4>1. live[subs[cur[c]]] \in {cur[c], Nil} /\ subs[cur[c]] \in SubIDs
        BY <1>0, <2>2, <3>1 DEF DanglingInv, NoDanglingSub, TypeOK
      <4> QED
        BY <1>0, <2>2, <3>1, <4>1 DEF DanglingInv, HandleInv, TypeOK
    <3>3. NoDanglingSub'
      BY <1>0, <2>2, <3>1 DEF DanglingInv, NoDanglingSub, TypeOK
    <3> QED
      BY <3>2, <3>3 DEF DanglingInv
  <2> QED
    BY <2>1, <2>2
<1>7. ASSUME NEW c \in Clients, Cancel(c) PROVE DanglingInv'
  <2>1. /\ pc[c] = "cancel" /\ pc' = [pc EXCEPT ![c] = "deletesub"]
        /\ live' = [live EXCEPT ![held[c]] = Nil]
        /\ subs' = subs /\ held' = held /\ cur' = cur
    BY <1>7 DEF Cancel, Goto, call
  <2>2. HandleInv'
    BY <1>0, <2>1 DEF DanglingInv, HandleInv, TypeOK
  <2>3. NoDanglingSub'
    BY <1>0, <2>1 DEF DanglingInv, HandleInv, NoDanglingSub, TypeOK
  <2> QED
    BY <2>2, <2>3 DEF DanglingInv
<1>8. ASSUME NEW c \in Clients, DeleteSub(c) PROVE DanglingInv'
  <2>1. /\ pc[c] = "deletesub" /\ pc' = [pc EXCEPT ![c] = "next"]
        /\ subs' = [subs EXCEPT ![cur[c]] = Nil]
        /\ held' = [held EXCEPT ![c] = Nil] /\ live' = live /\ cur' = cur
        /\ cur[c] \in Shards
    BY <1>8 DEF DeleteSub, Return, Goto, call, TypeInv, NoNilDereference
  <2>2. HandleInv'
    BY <1>0, <2>1, NilAssumption DEF DanglingInv, HandleInv, TypeOK
  <2>3. NoDanglingSub'
    BY <1>0, <2>1, NilAssumption DEF DanglingInv, NoDanglingSub, TypeOK
  <2> QED
    BY <2>2, <2>3 DEF DanglingInv
<1>9. ASSUME NEW r \in Refs, Echo(r) \/ EchoDropped(r) PROVE DanglingInv'
  BY <1>9 DEF Echo, EchoDropped, DanglingInv, HandleInv, NoDanglingSub, sub, call
<1>10. CASE UNCHANGED vars
  BY <1>10 DEF vars, DanglingInv, HandleInv, NoDanglingSub, sub, call
<1> QED
  BY <1>1, <1>2, <1>3, <1>4, <1>5, <1>6, <1>7, <1>8, <1>9, <1>10
  DEF Next, FreeStep

LEMMA DanglingInit == Init => DanglingInv
  BY DEF Init, DanglingInv, HandleInv, NoDanglingSub

\* Whatever the interleaving and whatever fails, the map of subscriptions holds
\* a cancelled handle only while the call that cancelled it is about to delete
\* the entry, and never a handle of another shard.
THEOREM NoDanglingHandles == Spec => []NoDanglingSub
  BY DanglingInit, TypeInit, TypeStep, HandleStep, PTL DEF Spec, DanglingInv

-----------------------------------------------------------------------------
(* One slice.  What follows is about a node whose table entry exists before a
   second client appears; calls may race and fail in any way. *)

\* Nobody else can make a second slice: the node has an entry, or one client.
OneEntry == Warm \/ \A c, d \in Clients : c = d

\* Shard s is alone in its byte: at most one client ever asks for a shard that
\* is kept there.  Nothing is said of the other bytes.
Lone(s) == \A c, d \in Clients :
              ids(c) \cap ByteOf(s) # {} /\ ids(d) \cap ByteOf(s) # {} => c = d

LoneShards == {s \in Shards : Lone(s)}

\* A client works on shards of its own requests.
OwnShards == \A c \in Clients : todo[c] \subseteq ids(c) /\ cur[c] \in ids(c) \cup {Nil}

\* The client's slice: the one of the warm node, else its own.
TheRef(c) == IF Warm THEN BootRef ELSE c

\* Every pointer anywhere leads to one slice; until it is stored, nobody but its
\* allocator can have a bit in it.
OneSlice ==
    /\ Warm => table = BootRef
    /\ \A r \in Refs : inflight[r] > 0 => table = r
    /\ \A c \in Clients :
          /\ table \in {TheRef(c), Nil}
          /\ ptr[c] \in {TheRef(c), Nil}
          /\ table = Nil /\ pc[c] \in {"setread", "setwrite"} => heap[TheRef(c)] = {}
          /\ table = Nil /\ pc[c] = "addstore" => heap[TheRef(c)] = {cur[c]}

\* What is about to be written back is one byte, the one of the client's shard;
\* if nobody else asks for shards of that byte, it is what the slice still holds.
OwnByte ==
    \A c \in Clients : pc[c] \in {"setwrite", "unset"} =>
        /\ byt[c] \subseteq ByteOf(cur[c])
        /\ cur[c] \in LoneShards => byt[c] = heap[ptr[c]] \cap ByteOf(cur[c])

MemInv == OwnShards /\ OneSlice /\ OwnByte

\* Client c takes a step.
ClientStep(c) == \/ \E b \in Requests[c] : SubscribeShard(c, b) \/ UnsubscribeShard(c, b)
                 \/ LockStep(c)
                 \/ FreeStep(c)

\* A step of c leaves the other clients where they are, and lone shards other
\* than the one it works on as they are listed.
Keeps(c) ==
    /\ \A d \in Clients \ {c} :
          /\ pc'[d] = pc[d] /\ op'[d] = op[d] /\ todo'[d] = todo[d] /\ cur'[d] = cur[d]
          /\ ptr'[d] = ptr[d] /\ byt'[d] = byt[d] /\ held'[d] = held[d] /\ ok'[d] = ok[d]
          /\ cur[d] \in LoneShards /\ pc[d] = "addstore" /\ cur[d] \in heap[ptr[d]]
                => cur[d] \in heap'[ptr[d]]
    /\ \A t \in LoneShards : t # cur[c] => (t \in Listening' <=> t \in Listening)

LEMMA ByteFacts ==
    ASSUME NEW s \in Shards
    PROVE  /\ s \in ByteOf(s) /\ ByteOf(s) \subseteq Shards
           /\ \A t \in ByteOf(s) : ByteOf(t) = ByteOf(s)
  BY DEF ByteOf

LEMMA OwnCur ==
    ASSUME OwnShards, NEW c \in Clients, cur[c] \in Shards
    PROVE  cur[c] \in ids(c)
  BY NilAssumption, NumShardsAssumption DEF OwnShards, Shards

\* A shard that one client asks for is in the byte of a lone shard only if that
\* client is the one who uses the byte.
LEMMA LoneByte ==
    ASSUME NEW c \in Clients, NEW d \in Clients, c # d,
           NEW s \in ids(c), s \in Shards, NEW t \in ids(d), t \in LoneShards
    PROVE  s # t /\ ByteOf(s) \cap ByteOf(t) = {}
<1>1. t \in ByteOf(t) /\ Lone(t) /\ t \in Shards
  BY ByteFacts DEF LoneShards
<1>2. ASSUME s \in ByteOf(t) PROVE FALSE
  BY <1>1, <1>2 DEF Lone
<1>3. ASSUME NEW u \in ByteOf(s), u \in ByteOf(t) PROVE FALSE
  BY <1>1, <1>2, <1>3, ByteFacts
<1> QED
  BY <1>1, <1>2, <1>3

\* Two clients at work are in different bytes if one of them is at a lone shard.
LEMMA LoneApart ==
    ASSUME OwnShards, NEW c \in Clients, NEW d \in Clients, c # d,
           cur[c] \in Shards, cur[d] \in LoneShards
    PROVE  cur[c] # cur[d] /\ ByteOf(cur[c]) \cap ByteOf(cur[d]) = {}
<1>1. cur[c] \in ids(c) /\ cur[d] \in ids(d)
  BY OwnCur DEF LoneShards
<1> QED
  BY <1>1, LoneByte

\* Whoever is at a shard that is not lone is not in the byte of one that is.
LEMMA CrowdApart ==
    ASSUME NEW s \in Shards, s \notin LoneShards, NEW t \in LoneShards
    PROVE  t # s /\ t \notin ByteOf(s)
  BY ByteFacts DEF LoneShards, Lone

\* A pointer that is not nil leads to the slice in the table, once there is one.
LEMMA PointerIsTable ==
    ASSUME TypeInv, OneSlice, NEW c \in Clients, ptr[c] # Nil, table # Nil
    PROVE  ptr[c] = table /\ Listening = heap[ptr[c]]
  BY DEF OneSlice, Listening

\* Without an entry there is one client, and every shard is lone.
LEMMA ColdIsAlone ==
    ASSUME OneEntry, OneSlice, table = Nil, NEW c \in Clients
    PROVE  /\ ~Warm /\ (\A d \in Clients : d = c) /\ LoneShards = Shards
           /\ TheRef(c) = c /\ c # Nil /\ c \in Refs
<1>1. ~Warm
  BY NilAssumption DEF OneSlice
<1>2. \A d, e \in Clients : d = e
  BY <1>1 DEF OneEntry
<1>3. LoneShards = Shards
  BY <1>2 DEF LoneShards, Lone
<1> QED
  BY <1>1, <1>2, <1>3, NilAssumption DEF TheRef, Refs

\* A step of c is a step of nobody else.
LEMMA OthersStay ==
    ASSUME TypeOK, NEW c \in Clients, ClientStep(c), NEW d \in Clients, d # c
    PROVE  /\ pc'[d] = pc[d] /\ op'[d] = op[d] /\ todo'[d] = todo[d] /\ cur'[d] = cur[d]
           /\ ptr'[d] = ptr[d] /\ byt'[d] = byt[d] /\ held'[d] = held[d] /\ ok'[d] = ok[d]
<1> USE DEF mem, sub, call, Goto, Return
<1>1. CASE \/ \E b \in Requests[c] : SubscribeShard(c, b) \/ UnsubscribeShard(c, b)
           \/ NextShard(c) \/ EndCall(c)
  BY <1>1 DEF SubscribeShard, UnsubscribeShard, Accept, NextShard, EndCall, TypeOK
<1>2. CASE LockStep(c)
  BY <1>2 DEF LockStep, Check, Fetch, Refetch, UnsetRead, AddFetch, AddStore, GetPref, TypeOK
<1>3. CASE FreeStep(c) /\ ~NextShard(c) /\ ~EndCall(c)
  BY <1>3
  DEF FreeStep, Decide, Recheck, UnsetWrite, SetRead, SetWrite, Publish, PublishFails, Subscribe,
      SubscribeFails, StoreSub, FetchSub, Cancel, DeleteSub, TypeOK
<1> QED
  BY <1>1, <1>2, <1>3 DEF ClientStep

\* Steps that write no slice and store no pointer in the table.
LEMMA ReadStep ==
    ASSUME TypeInv, MemInv, NEW c \in Clients, ClientStep(c),
           ~SetWrite(c), ~UnsetWrite(c), ~AddFetch(c), ~AddStore(c)
    PROVE  MemInv' /\ Keeps(c) /\ Listening' = Listening /\ heap' = heap /\ table' = table
<1> USE DEF mem, sub, call, Goto, Return
<1>0. TypeOK /\ NoNilDereference /\ OwnShards /\ OneSlice /\ OwnByte
  BY DEF TypeInv, MemInv
<1>1. \A d \in Clients \ {c} :
         /\ pc'[d] = pc[d] /\ op'[d] = op[d] /\ todo'[d] = todo[d] /\ cur'[d] = cur[d]
         /\ ptr'[d] = ptr[d] /\ byt'[d] = byt[d] /\ held'[d] = held[d] /\ ok'[d] = ok[d]
  BY <1>0, OthersStay
<1>2. /\ heap' = heap /\ table' = table
      /\ todo'[c] \subseteq ids(c) /\ cur'[c] \in ids(c) \cup {Nil}
      /\ ptr'[c] \in {table, ptr[c], Nil}
      /\ pc'[c] \notin {"addstore", "setread"}
      /\ pc'[c] \in {"setwrite", "unset"} => /\ pc'[c] = "setwrite" => pc[c] = "setread"
                                            /\ byt'[c] = heap[ptr'[c]] \cap ByteOf(cur[c])
                                            /\ cur'[c] = cur[c]
  <2>1. CASE \/ \E b \in Requests[c] : SubscribeShard(c, b) \/ UnsubscribeShard(c, b)
             \/ NextShard(c) \/ EndCall(c)
    BY <1>0, <2>1
    DEF SubscribeShard, UnsubscribeShard, Accept, NextShard, EndCall, TypeOK, OwnShards, ids
  <2>2. CASE \/ Check(c) \/ Fetch(c) \/ Decide(c) \/ Refetch(c) \/ Recheck(c)
             \/ UnsetRead(c) \/ SetRead(c) \/ GetPref(c)
    BY <1>0, <2>2
    DEF Check, Fetch, Decide, Refetch, Recheck, UnsetRead, SetRead, GetPref, TypeOK, OwnShards
  <2>3. CASE \/ Publish(c) \/ PublishFails(c) \/ Subscribe(c) \/ SubscribeFails(c) \/ StoreSub(c)
             \/ FetchSub(c) \/ Cancel(c) \/ DeleteSub(c)
    BY <1>0, <2>3
    DEF Publish, PublishFails, Subscribe, SubscribeFails, StoreSub, FetchSub, Cancel, DeleteSub,
        TypeOK, OwnShards
  <2> QED
    BY <2>1, <2>2, <2>3 DEF ClientStep, LockStep, FreeStep
<1>3. OwnShards'
  BY <1>0, <1>1, <1>2 DEF OwnShards
<1>4. \A r \in Refs : inflight'[r] > 0 => table = r
  <2>1. CASE Publish(c)
    <3>1. ptr[c] = table /\ inflight' = [inflight EXCEPT ![ptr[c]] = @ + 1]
      BY <1>0, <2>1, PointerIsTable DEF Publish, NoNilDereference
    <3> QED
      BY <1>0, <3>1 DEF OneSlice, TypeOK
  <2>2. CASE ~Publish(c)
    <3>1. inflight' = inflight
      BY <2>2
      DEF ClientStep, SubscribeShard, UnsubscribeShard, Accept, LockStep, Check, Fetch, Refetch,
          UnsetRead, GetPref, FreeStep, NextShard, EndCall, Decide, Recheck, SetRead, PublishFails,
          Subscribe, SubscribeFails, StoreSub, FetchSub, Cancel, DeleteSub
    <3> QED
      BY <1>0, <3>1 DEF OneSlice
  <2> QED
    BY <2>1, <2>2
<1>5. OneSlice'
  BY <1>0, <1>1, <1>2, <1>4 DEF OneSlice, TheRef
<1>6. OwnByte'
  <2>1. \A s : heap[ptr'[c]] \cap ByteOf(s) \subseteq ByteOf(s)
    OBVIOUS
  <2> QED
    BY <1>0, <1>1, <1>2, <2>1 DEF OwnByte, LoneShards
<1>7. Listening' = Listening
  BY <1>2 DEF Listening
<1> QED
  BY <1>1, <1>2, <1>3, <1>5, <1>6, <1>7 DEF MemInv, Keeps

\* Writing back a byte that is still what the slice holds changes one shard.
LEMMA WriteOneShard ==
    ASSUME TypeOK, NEW c \in Clients, ptr[c] \in Refs, cur[c] \in Shards,
           byt[c] = heap[ptr[c]] \cap ByteOf(cur[c])
    PROVE  /\ WriteByte(c, byt[c] \cup {cur[c]})
                => heap' = [heap EXCEPT ![ptr[c]] = @ \cup {cur[c]}]
           /\ WriteByte(c, byt[c] \ {cur[c]})
                => heap' = [heap EXCEPT ![ptr[c]] = @ \ {cur[c]}]
<1> DEFINE h == heap[ptr[c]]
<1>1. h \subseteq Shards /\ cur[c] \in ByteOf(cur[c])
  BY DEF TypeOK, ByteOf
<1>2. (h \ ByteOf(cur[c])) \cup (byt[c] \cup {cur[c]}) = h \cup {cur[c]}
  BY <1>1
<1>3. (h \ ByteOf(cur[c])) \cup (byt[c] \ {cur[c]}) = h \ {cur[c]}
  BY <1>1
<1> QED
  BY <1>2, <1>3 DEF WriteByte, TypeOK

\* The two writes of a byte.
LEMMA WriteStep ==
    ASSUME OneEntry, TypeInv, MemInv, NEW c \in Clients, SetWrite(c) \/ UnsetWrite(c)
    PROVE  /\ MemInv' /\ Keeps(c)
           /\ cur[c] \in Shards /\ ptr[c] \in Refs
           /\ cur[c] \in LoneShards =>
                 /\ SetWrite(c) => heap' = [heap EXCEPT ![ptr[c]] = @ \cup {cur[c]}]
                 /\ UnsetWrite(c) => heap' = [heap EXCEPT ![ptr[c]] = @ \ {cur[c]}]
<1> USE DEF mem, sub, call, Goto
<1>0. TypeOK /\ NoNilDereference /\ OwnShards /\ OneSlice /\ OwnByte
  BY DEF TypeInv, MemInv
<1>1. PICK s \in Shards : s = cur[c]
  BY <1>0 DEF SetWrite, UnsetWrite, NoNilDereference
<1>2. /\ UNCHANGED <<table, inflight, sub, call, ptr>>
      /\ ptr[c] \in Refs /\ ptr[c] # Nil /\ ptr[c] = TheRef(c)
      /\ \/ pc[c] = "setwrite" /\ pc'[c] = "addstore"
         \/ pc[c] = "unset" /\ pc'[c] = "getpref" /\ table # Nil
  BY <1>0 DEF SetWrite, UnsetWrite, NoNilDereference, TypeOK, OneSlice
<1>3. s \in LoneShards =>
         /\ SetWrite(c) => heap' = [heap EXCEPT ![ptr[c]] = @ \cup {s}]
         /\ UnsetWrite(c) => heap' = [heap EXCEPT ![ptr[c]] = @ \ {s}]
  BY <1>0, <1>1, <1>2, WriteOneShard DEF SetWrite, UnsetWrite, OwnByte
<1>4. \A d \in Clients \ {c} :
         /\ pc'[d] = pc[d] /\ op'[d] = op[d] /\ todo'[d] = todo[d] /\ cur'[d] = cur[d]
         /\ ptr'[d] = ptr[d] /\ byt'[d] = byt[d] /\ held'[d] = held[d] /\ ok'[d] = ok[d]
  BY <1>0, OthersStay DEF ClientStep, FreeStep
<1>5. \A r \in Refs : \A t \in Shards \ ByteOf(s) : t \in heap'[r] <=> t \in heap[r]
  <2>1. ASSUME NEW b, b \subseteq ByteOf(s), WriteByte(c, b)
        PROVE  \A r \in Refs : \A t \in Shards \ ByteOf(s) : t \in heap'[r] <=> t \in heap[r]
    BY <1>0, <1>1, <2>1 DEF WriteByte, TypeOK
  <2>2. byt[c] \cup {s} \subseteq ByteOf(s) /\ byt[c] \ {s} \subseteq ByteOf(s)
    BY <1>0, <1>1, <1>2, ByteFacts DEF OwnByte
  <2> QED
    BY <1>1, <2>1, <2>2 DEF SetWrite, UnsetWrite
<1>6. \A r \in Refs : \A t \in LoneShards \ {s} : t \in heap'[r] <=> t \in heap[r]
  <2>1. CASE s \in LoneShards
    BY <1>0, <1>2, <1>3, <2>1 DEF TypeOK
  <2>2. CASE s \notin LoneShards
    BY <1>5, <2>2, CrowdApart DEF LoneShards
  <2> QED
    BY <2>1, <2>2
<1>7. \A t \in LoneShards : t # cur[c] => (t \in Listening' <=> t \in Listening)
  BY <1>0, <1>1, <1>2, <1>6 DEF Listening, TypeOK
<1>8. ASSUME NEW d \in Clients \ {c}, cur[d] \in LoneShards
      PROVE  s # cur[d] /\ ByteOf(s) \cap ByteOf(cur[d]) = {}
  BY <1>0, <1>1, <1>8, LoneApart
<1>9. Keeps(c)
  <2>1. ASSUME NEW d \in Clients \ {c}, cur[d] \in LoneShards, pc[d] = "addstore",
               cur[d] \in heap[ptr[d]]
        PROVE  cur[d] \in heap'[ptr[d]]
    <3>1. ptr[d] \in Refs
      BY <1>0, <2>1 DEF NoNilDereference, TypeOK
    <3> QED
      BY <1>6, <1>8, <2>1, <3>1
  <2> QED
    BY <1>4, <1>7, <2>1 DEF Keeps
<1>10. OneSlice'
  <2>1. table = Nil => \A d \in Clients : d = c
    BY <1>0, ColdIsAlone
  <2>2. table = Nil => heap'[TheRef(c)] = {s} /\ pc'[c] = "addstore"
    <3> SUFFICES ASSUME table = Nil PROVE heap'[TheRef(c)] = {s} /\ pc'[c] = "addstore"
      OBVIOUS
    <3>1. s \in LoneShards
      BY <1>0, ColdIsAlone
    <3>2. pc[c] = "setwrite" /\ SetWrite(c) /\ heap[TheRef(c)] = {}
      BY <1>0, <1>2 DEF OneSlice, SetWrite, UnsetWrite
    <3> QED
      BY <1>0, <1>2, <1>3, <3>1, <3>2 DEF TypeOK
  <2>3. table' = table /\ ptr' = ptr /\ inflight' = inflight /\ cur' = cur
    BY <1>2
  <2> QED
    BY <1>0, <1>1, <2>1, <2>2, <2>3 DEF OneSlice, TheRef
<1>11. OwnByte'
  <2> SUFFICES ASSUME NEW d \in Clients, pc'[d] \in {"setwrite", "unset"}
               PROVE  /\ byt'[d] \subseteq ByteOf(cur'[d])
                      /\ cur'[d] \in LoneShards => byt'[d] = heap'[ptr'[d]] \cap ByteOf(cur'[d])
    BY DEF OwnByte, LoneShards
  <2>1. d # c /\ pc[d] = pc'[d] /\ cur' = cur /\ ptr' = ptr /\ byt'[d] = byt[d]
    BY <1>2, <1>4
  <2>2. /\ cur[d] \in Shards /\ ptr[d] \in Refs /\ byt[d] \subseteq ByteOf(cur[d])
        /\ cur[d] \in LoneShards => byt[d] = heap[ptr[d]] \cap ByteOf(cur[d])
    BY <1>0, <2>1 DEF OwnByte, NoNilDereference, TypeOK
  <2>3. ASSUME cur[d] \in LoneShards
        PROVE  heap'[ptr[d]] \cap ByteOf(cur[d]) = heap[ptr[d]] \cap ByteOf(cur[d])
    <3>1. ByteOf(cur[d]) \subseteq Shards \ ByteOf(s)
      BY <1>8, <2>1, <2>2, <2>3, ByteFacts
    <3> QED
      BY <1>5, <2>2, <3>1
  <2> QED
    BY <2>1, <2>2, <2>3
<1>12. OwnShards'
  BY <1>0, <1>2 DEF OwnShards
<1> QED
  BY <1>1, <1>2, <1>3, <1>9, <1>10, <1>11, <1>12 DEF MemInv

\* AddPeerListeningShard's accesses to the table.
LEMMA AddStep ==
    ASSUME OneEntry, TypeInv, MemInv, NEW c \in Clients, AddFetch(c) \/ AddStore(c)
    PROVE  /\ MemInv' /\ Keeps(c)
           /\ ~(AddStore(c) /\ table = Nil) => Listening' = Listening
           /\ AddStore(c) /\ table = Nil => Listening = {} /\ Listening' = {cur[c]}
<1> USE DEF mem, sub, call, Goto
<1>0. TypeOK /\ NoNilDereference /\ OwnShards /\ OneSlice /\ OwnByte
  BY DEF TypeInv, MemInv
<1>1. /\ UNCHANGED <<inflight, sub, call, byt>>
      /\ pc'[c] \notin {"setwrite", "unset"}
  BY <1>0 DEF AddFetch, AddStore, TypeOK
<1>2. \A d \in Clients \ {c} :
         /\ pc'[d] = pc[d] /\ op'[d] = op[d] /\ todo'[d] = todo[d] /\ cur'[d] = cur[d]
         /\ ptr'[d] = ptr[d] /\ byt'[d] = byt[d] /\ held'[d] = held[d] /\ ok'[d] = ok[d]
  BY <1>0, OthersStay DEF ClientStep, LockStep
<1>3. OwnShards'
  BY <1>0, <1>1 DEF OwnShards
<1>4. CASE table # Nil
  <2>1. /\ table' = table /\ heap' = heap /\ ptr'[c] = table
        /\ pc'[c] \in {"setread", "getpref"}
    BY <1>0, <1>4, PointerIsTable DEF AddFetch, AddStore, TypeOK, NoNilDereference
  <2>2. Listening' = Listening
    BY <2>1 DEF Listening
  <2>3. OneSlice' /\ OwnByte'
    BY <1>0, <1>1, <1>2, <1>4, <2>1 DEF OneSlice, OwnByte, TheRef, LoneShards
  <2> QED
    BY <1>2, <1>3, <1>4, <2>1, <2>2, <2>3 DEF MemInv, Keeps
<1>5. CASE table = Nil
  <2>1. ~Warm /\ (\A d \in Clients : d = c) /\ TheRef(c) = c /\ c # Nil /\ c \in Refs
    BY <1>0, <1>5, ColdIsAlone
  <2>2. \A r \in Refs : inflight[r] = 0
    BY <1>0, <1>5, NilAssumption DEF OneSlice, TypeOK, Refs
  <2>3. CASE AddFetch(c)
    <3>1. table' = Nil /\ ptr'[c] = c /\ heap'[c] = {} /\ pc'[c] = "setread"
      BY <1>0, <1>5, <2>1, <2>3 DEF AddFetch, TypeOK
    <3>2. Listening' = Listening
      BY <1>5, <3>1 DEF Listening
    <3>3. OneSlice' /\ OwnByte'
      BY <1>0, <1>1, <1>5, <2>1, <2>2, <3>1 DEF OneSlice, OwnByte, TheRef
    <3>4. ~AddStore(c)
      BY <2>3 DEF AddFetch, AddStore
    <3> QED
      BY <1>2, <1>3, <2>1, <3>2, <3>3, <3>4 DEF MemInv, Keeps
  <2>4. CASE AddStore(c)
    <3>1. /\ pc'[c] = "getpref" /\ heap' = heap /\ ptr' = ptr
          /\ table' = c /\ ptr[c] = c /\ heap[c] = {cur[c]}
      BY <1>0, <1>5, <2>1, <2>4 DEF AddStore, NoNilDereference, OneSlice, TypeOK
    <3>2. Listening' = {cur[c]} /\ Listening = {}
      BY <1>5, <2>1, <3>1 DEF Listening
    <3>3. OneSlice' /\ OwnByte'
      BY <1>0, <1>1, <2>1, <2>2, <3>1 DEF OneSlice, OwnByte, TheRef
    <3> QED
      BY <1>2, <1>3, <1>5, <2>1, <2>4, <3>2, <3>3 DEF MemInv, Keeps
  <2> QED
    BY <2>3, <2>4
<1> QED
  BY <1>4, <1>5

LEMMA EchoStep ==
    ASSUME TypeInv, MemInv, NEW r \in Refs, Echo(r) \/ EchoDropped(r)
    PROVE  /\ MemInv' /\ Listening' = Listening
           /\ UNCHANGED <<heap, table, sub, call, pc, ptr, byt, ok>>
<1> USE DEF mem, sub, call
<1>0. TypeOK /\ OwnShards /\ OneSlice /\ OwnByte
  BY DEF TypeInv, MemInv
<1>1. /\ UNCHANGED <<heap, table, sub, call, pc, ptr, byt, ok>>
      /\ \A q \in Refs : inflight'[q] > 0 => inflight[q] > 0
  BY <1>0 DEF Echo, EchoDropped, OneSlice, TypeOK
<1>2. Listening' = Listening
  BY <1>1 DEF Listening
<1>3. OwnShards' /\ OneSlice' /\ OwnByte'
  BY <1>0, <1>1 DEF OwnShards, OneSlice, OwnByte, TheRef, LoneShards
<1> QED
  BY <1>1, <1>2, <1>3 DEF MemInv

LEMMA MemClient ==
    ASSUME OneEntry, TypeInv, MemInv, NEW c \in Clients, ClientStep(c)
    PROVE  MemInv' /\ Keeps(c)
  BY ReadStep, WriteStep, AddStep

LEMMA MemStep == OneEntry /\ TypeInv /\ MemInv /\ [Next]_vars => MemInv'
<1> SUFFICES ASSUME OneEntry, TypeInv, MemInv, [Next]_vars PROVE MemInv'
  OBVIOUS
<1>1. CASE UNCHANGED vars
  BY <1>1 DEF vars, mem, sub, call, MemInv, OwnShards, OneSlice, OwnByte, TheRef, LoneShards
<1> QED
  BY <1>1, MemClient, EchoStep DEF Next, ClientStep

LEMMA MemInit == Init => MemInv
<1> SUFFICES ASSUME Init PROVE MemInv
  OBVIOUS
<1>1. OwnShards /\ OwnByte
  BY DEF Init, OwnShards, OwnByte
<1>2. OneSlice
  BY BoundsAssumption DEF Init, OneSlice, TheRef
<1> QED
  BY <1>1, <1>2 DEF MemInv

\* If the node has an entry before a second client appears, an echo, however
\* late, leaves the node's own entry as it is, whatever calls race and fail.
THEOREM OneEntryEcho == OneEntry => (Spec => EchoChangesNothing)
<1> SUFFICES ASSUME OneEntry PROVE Spec => EchoChangesNothing
  OBVIOUS
<1>1. TypeInv /\ MemInv /\ [Next]_vars
         => [\A r \in Refs : Echo(r) => Listening' = Listening]_vars
  BY EchoStep
<1> QED
  BY <1>1, TypeInit, TypeStep, MemInit, MemStep, PTL DEF Spec, EchoChangesNothing

\* A shard that is alone in its byte appears in the list, or vanishes from it,
\* only by the write of a client that is working on it.
OwnerChanges ==
    [][\A s \in LoneShards : (s \in Listening') # (s \in Listening) =>
          \E c \in Clients : cur[c] = s /\ (SetWrite(c) \/ UnsetWrite(c) \/ AddStore(c))]_vars

\* Calls that race for other bytes, and calls that fail, do not touch the shard.
THEOREM OneEntryOwner == OneEntry => (Spec => OwnerChanges)
<1> SUFFICES ASSUME OneEntry PROVE Spec => OwnerChanges
  OBVIOUS
<1> DEFINE Owned == \A s \in LoneShards : (s \in Listening') # (s \in Listening) =>
                       \E c \in Clients : cur[c] = s /\ (SetWrite(c) \/ UnsetWrite(c) \/ AddStore(c))
<1>1. ASSUME TypeInv, MemInv, [Next]_vars PROVE [Owned]_vars
  <2>1. ASSUME NEW c \in Clients, ClientStep(c) PROVE Owned
    <3>1. \A t \in LoneShards : t # cur[c] => (t \in Listening' <=> t \in Listening)
      BY <1>1, <2>1, MemClient DEF Keeps
    <3>2. SetWrite(c) \/ UnsetWrite(c) \/ AddStore(c) \/ Listening' = Listening
      BY <1>1, <2>1, ReadStep, AddStep
    <3> QED
      BY <3>1, <3>2
  <2>2. ASSUME NEW r \in Refs, Echo(r) \/ EchoDropped(r) PROVE Owned
    BY <1>1, <2>2, EchoStep
  <2> QED
    BY <1>1, <2>1, <2>2 DEF Next, ClientStep
<1> QED
  BY <1>1, TypeInit, TypeStep, MemInit, MemStep, PTL DEF Spec, OwnerChanges

-----------------------------------------------------------------------------
(* Lone shards.  On a node with one entry, the shards that are alone in their
   byte, while other bytes are raced for and pubsub may fail. *)

\* Whoever publishes is never refused.
PublishWorks == "publish" \notin MayFail

\* No handle, and no subscription to the topic, for s.  Where publishing can
\* fail nothing is claimed: an UnlistenShard that fails there leaves the handle,
\* and the next ListenShard adds another.
Apart(s) == "publish" \notin MayFail => subs[s] = Nil /\ \A x \in SubIDs : live[x] # s

\* One handle for s, and it alone is subscribed to the topic.
Joined(s) == "publish" \notin MayFail => /\ subs[s] # Nil
                                        /\ \A x \in SubIDs : live[x] = s <=> x = subs[s]

\* What may be left of s after it was listed: a subscription, or none if
\* subscribing can fail.
Followed(s) == Joined(s) \/ ("subscribe" \in MayFail /\ Apart(s))

\* How far the call of client c has come determines what is true of its shard.
ListenPhase(c, s) ==
    /\ pc[c] \in {"fetch", "decide", "addfetch", "setread", "setwrite"}
          => s \notin Listening /\ Apart(s)
    /\ pc[c] = "addstore" => s \in heap[ptr[c]] /\ Apart(s)
    /\ pc[c] \in {"getpref", "publish", "subscribe"} => s \in Listening /\ Apart(s)
    /\ pc[c] = "storesub" =>
          /\ s \in Listening
          /\ "publish" \notin MayFail => /\ subs[s] = Nil
                                        /\ \A x \in SubIDs : live[x] = s <=> x = held[c]
    /\ pc[c] \notin {"refetch", "recheck", "lock", "unset", "fetchsub", "cancel", "deletesub"}

UnlistenPhase(c, s) ==
    /\ pc[c] \in {"fetch", "decide", "refetch", "recheck", "lock", "unset"}
          => s \in Listening /\ Followed(s)
    /\ pc[c] \in {"getpref", "publish", "fetchsub"} => s \notin Listening /\ Followed(s)
    /\ pc[c] = "cancel" => /\ s \notin Listening /\ Joined(s)
                           /\ "publish" \notin MayFail => held[c] = subs[s]
    /\ pc[c] = "deletesub" =>
          /\ s \notin Listening
          /\ "publish" \notin MayFail => subs[s] # Nil /\ \A x \in SubIDs : live[x] # s
    /\ pc[c] \notin {"addfetch", "setread", "setwrite", "addstore", "subscribe", "storesub"}

Settled(s) == (s \in Listening /\ Followed(s)) \/ (s \notin Listening /\ Apart(s))

Phase(c) == cur[c] \in LoneShards =>
    /\ pc[c] = "check" => Settled(cur[c])
    /\ op[c] = "listen" /\ pc[c] \notin {"idle", "next", "check"} => ListenPhase(c, cur[c])
    /\ op[c] = "unlisten" /\ pc[c] \notin {"idle", "next", "check"} => UnlistenPhase(c, cur[c])

QuietSettled == \A s \in LoneShards : Quiet(s) => Settled(s)

LocalInv == (\A c \in Clients : Phase(c)) /\ QuietSettled

\* A step that changes nothing in subs and pubsub that concerns shard t.
SameTopic(t) == /\ subs'[t] = subs[t]
                /\ \A x \in SubIDs : live'[x] = t <=> live[x] = t

\* Nor its place in the list.
Same(t) == (t \in Listening' <=> t \in Listening) /\ SameTopic(t)

LEMMA TopicKeeps ==
    ASSUME NEW t \in Shards, SameTopic(t)
    PROVE  /\ Apart(t) <=> Apart(t)'
           /\ Joined(t) <=> Joined(t)'
           /\ Followed(t) <=> Followed(t)'
<1>1. Apart(t) <=> Apart(t)'
  BY DEF SameTopic, Apart
<1>2. Joined(t) <=> Joined(t)'
  BY DEF SameTopic, Joined
<1> QED
  BY <1>1, <1>2 DEF Followed

LEMMA SameKeeps ==
    ASSUME NEW t \in Shards, Same(t)
    PROVE  /\ Settled(t) <=> Settled(t)'
           /\ Apart(t) <=> Apart(t)'
           /\ Joined(t) <=> Joined(t)'
           /\ Followed(t) <=> Followed(t)'
  BY TopicKeeps DEF Same, Settled

\* A step of client c that leaves the topics of the other lone shards alone
\* preserves the invariant if it does so for c itself.
LEMMA LocalFrame ==
    ASSUME TypeInv, MemInv, LocalInv, NEW c \in Clients, Keeps(c), cur' = cur, op' = op,
           \A t \in LoneShards : t # cur[c] => SameTopic(t),
           cur[c] \in LoneShards =>
              Phase(c)' /\ (pc'[c] \in {"idle", "next"} => Settled(cur[c])')
    PROVE  LocalInv'
<1>0. OwnShards /\ LoneShards \subseteq Shards
  BY DEF MemInv, LoneShards
<1>1. \A t \in LoneShards : t # cur[c] => Same(t)
  BY DEF Keeps, Same
<1>2. ASSUME NEW d \in Clients PROVE Phase(d)'
  <2> SUFFICES ASSUME cur[d] \in LoneShards, d # c PROVE Phase(d)'
    BY DEF Phase, LoneShards
  <2>1. cur[d] # cur[c]
    BY <1>0, LoneApart
  <2>2. Same(cur[d]) /\ cur[d] \in Shards
    BY <1>0, <1>1, <2>1
  <2>3. Phase(d)
    BY DEF LocalInv
  <2>4. /\ cur'[d] = cur[d] /\ pc'[d] = pc[d] /\ op'[d] = op[d]
        /\ ptr'[d] = ptr[d] /\ held'[d] = held[d]
        /\ pc[d] = "addstore" /\ cur[d] \in heap[ptr[d]] => cur[d] \in heap'[ptr[d]]
    BY DEF Keeps
  <2>5. pc[d] = "check" => Settled(cur[d])'
    BY <2>2, <2>3, SameKeeps DEF Phase
  <2>6. ListenPhase(d, cur[d]) => ListenPhase(d, cur[d])'
    BY <2>2, <2>4, SameKeeps DEF ListenPhase, Same, SameTopic
  <2>7. UnlistenPhase(d, cur[d]) => UnlistenPhase(d, cur[d])'
    BY <2>2, <2>4, SameKeeps DEF UnlistenPhase, Same, SameTopic
  <2> QED
    BY <2>3, <2>4, <2>5, <2>6, <2>7 DEF Phase
<1>3. QuietSettled'
  <2> SUFFICES ASSUME NEW t \in LoneShards, Quiet(t)' PROVE Settled(t)'
    BY DEF QuietSettled, LoneShards
  <2>1. CASE t = cur[c]
    BY <2>1 DEF Quiet
  <2>2. CASE t # cur[c]
    <3>1. Quiet(t)
      BY <2>2 DEF Quiet, Keeps
    <3> QED
      BY <1>0, <1>1, <2>2, <3>1, SameKeeps DEF LocalInv, QuietSettled
  <2> QED
    BY <2>1, <2>2
<1> QED
  BY <1>2, <1>3 DEF LocalInv

\* Steps of the RPC loop: they start, advance and end a request.
LEMMA LoopSteps ==
    ASSUME TypeInv, MemInv, LocalInv, NEW c \in Clients,
           \/ \E b \in Requests[c] : SubscribeShard(c, b) \/ UnsubscribeShard(c, b)
           \/ NextShard(c) \/ EndCall(c)
    PROVE  LocalInv'
<1> USE DEF mem, sub, call, Goto
<1>0. TypeOK /\ OwnShards /\ QuietSettled /\ (\A d \in Clients : Phase(d)) /\ LoneShards \subseteq Shards
  BY DEF TypeInv, MemInv, LocalInv, LoneShards
<1>1. /\ UNCHANGED <<mem, sub, ptr, byt>>
      /\ pc[c] \in {"idle", "next"} /\ pc'[c] \in {"idle", "next", "check"}
      /\ \A d \in Clients \ {c} : pc'[d] = pc[d] /\ cur'[d] = cur[d] /\ op'[d] = op[d]
  BY <1>0 DEF SubscribeShard, UnsubscribeShard, Accept, NextShard, EndCall, TypeOK
<1>2. \A t \in Shards : Same(t)
  BY <1>1 DEF Same, SameTopic, Listening
<1>3. \A t \in Shards : Settled(t) => Settled(t)'
  BY <1>2, SameKeeps
<1>4. ASSUME NEW d \in Clients, d # c PROVE Phase(d)'
  <2>1. /\ cur'[d] = cur[d] /\ pc'[d] = pc[d] /\ op'[d] = op[d]
        /\ ptr'[d] = ptr[d] /\ held'[d] = held[d] /\ heap' = heap
    BY <1>1, <1>4
  <2> SUFFICES ASSUME cur[d] \in LoneShards PROVE Phase(d)'
    BY <2>1 DEF Phase, LoneShards
  <2>2. ListenPhase(d, cur[d]) => ListenPhase(d, cur[d])'
    BY <1>0, <1>2, <2>1, SameKeeps DEF ListenPhase, Same, SameTopic
  <2>3. UnlistenPhase(d, cur[d]) => UnlistenPhase(d, cur[d])'
    BY <1>0, <1>2, <2>1, SameKeeps DEF UnlistenPhase, Same, SameTopic
  <2> QED
    BY <1>0, <1>3, <2>1, <2>2, <2>3 DEF Phase
<1>5. Phase(c)'
  <2>1. CASE pc'[c] = "check"
    <3>1. PICK s \in todo[c] : pc[c] = "next" /\ cur'[c] = s
      BY <1>0, <2>1 DEF NextShard, EndCall, SubscribeShard, UnsubscribeShard, Accept, TypeOK
    <3>2. ASSUME s \in LoneShards PROVE Settled(s)'
      <4>1. Quiet(s)
        <5> SUFFICES ASSUME NEW d \in Clients, d # c, cur[d] = s PROVE FALSE
          BY <3>1 DEF Quiet
        <5>1. cur[d] \in ids(d) /\ s \in ids(c)
          BY <1>0, <3>1, <3>2, OwnCur DEF OwnShards
        <5> QED
          BY <1>0, <3>2, <5>1, LoneByte
      <4> QED
        BY <1>0, <1>3, <3>2, <4>1 DEF QuietSettled
    <3> QED
      BY <2>1, <3>1, <3>2 DEF Phase, LoneShards
  <2>2. CASE pc'[c] # "check"
    BY <1>1, <2>2 DEF Phase
  <2> QED
    BY <2>1, <2>2
<1>6. QuietSettled'
  <2> SUFFICES ASSUME NEW t \in LoneShards, Quiet(t)' PROVE Settled(t)'
    BY DEF QuietSettled, LoneShards
  <2>1. Quiet(t)
    BY <1>1 DEF Quiet
  <2> QED
    BY <1>0, <1>3, <2>1 DEF QuietSettled
<1> QED
  BY <1>4, <1>5, <1>6 DEF LocalInv

\* Steps that look something up, and publishing.
LEMMA LookSteps ==
    ASSUME TypeInv, MemInv, LocalInv, NEW c \in Clients,
           \/ Check(c) \/ Fetch(c) \/ Decide(c) \/ Refetch(c) \/ Recheck(c)
           \/ UnsetRead(c) \/ SetRead(c) \/ GetPref(c) \/ Publish(c)
    PROVE  LocalInv'
<1> USE DEF mem, sub, call, Goto
<1>0. TypeOK /\ NoNilDereference /\ OneSlice /\ Phase(c)
  BY DEF TypeInv, MemInv, LocalInv
<1>1. Keeps(c) /\ Listening' = Listening /\ UNCHANGED <<sub, call>>
  <2>1. Keeps(c) /\ Listening' = Listening
    BY ReadStep DEF ClientStep, LockStep, FreeStep, Check, Fetch, Decide, Refetch, Recheck, UnsetRead,
       SetRead, GetPref, Publish, SetWrite, UnsetWrite, AddFetch, AddStore
  <2>2. UNCHANGED <<sub, call>>
    BY DEF Check, Fetch, Decide, Refetch, Recheck, UnsetRead, SetRead, GetPref, Publish
  <2> QED
    BY <2>1, <2>2
<1>2. \A t \in Shards : SameTopic(t) /\ Same(t)
  BY <1>1 DEF Same, SameTopic
<1>3. ASSUME cur[c] \in LoneShards
      PROVE  Phase(c)' /\ (pc'[c] \in {"idle", "next"} => Settled(cur[c])')
  <2>0. PICK s \in Shards : s = cur[c] /\ s \in LoneShards
    BY <1>3 DEF LoneShards
  <2>1. /\ (Settled(s) <=> Settled(s)') /\ (Apart(s) <=> Apart(s)')
        /\ (Joined(s) <=> Joined(s)') /\ (Followed(s) <=> Followed(s)')
        /\ Listening' = Listening /\ cur' = cur /\ op' = op /\ held' = held
        /\ op[c] \in {"listen", "unlisten"}
    BY <1>0, <1>1, <1>2, SameKeeps DEF TypeOK
  <2>2. CASE Check(c)
    <3>1. /\ pc[c] = "check" /\ Settled(s)
          /\ pc'[c] = (IF (s \in Listening) <=> (op[c] = "listen") THEN "next" ELSE "fetch")
      BY <1>0, <2>0, <2>2 DEF Check, Return, Phase, TypeOK
    <3> QED
      BY <2>0, <2>1, <3>1 DEF Phase, ListenPhase, UnlistenPhase, Settled
  <2>3. CASE Fetch(c)
    <3>1. pc[c] = "fetch" /\ pc'[c] = (IF table = Nil THEN "addfetch" ELSE "decide")
      BY <1>0, <2>3 DEF Fetch, TypeOK
    <3>2. table = Nil => s \notin Listening
      BY DEF Listening
    <3> QED
      BY <1>0, <2>0, <2>1, <3>1, <3>2 DEF Phase, ListenPhase, UnlistenPhase
  <2>4. CASE Decide(c) \/ Recheck(c)
    <3>1. Listening = heap[ptr[c]]
      BY <1>0, <2>4, PointerIsTable DEF Decide, Recheck, NoNilDereference
    <3>2. \/ pc[c] = "decide" /\ pc'[c] = (IF s \in Listening THEN "refetch" ELSE "addfetch")
          \/ pc[c] = "recheck" /\ pc'[c] = (IF s \in Listening THEN "lock" ELSE "getpref")
      BY <1>0, <2>0, <2>4, <3>1 DEF Decide, Recheck, TypeOK
    <3> QED
      BY <1>0, <2>0, <2>1, <3>2 DEF Phase, ListenPhase, UnlistenPhase
  <2>5. CASE Refetch(c) \/ UnsetRead(c) \/ SetRead(c) \/ GetPref(c) \/ Publish(c)
    <3>1. \/ pc[c] = "refetch" /\ pc'[c] = "recheck"
          \/ pc[c] = "lock" /\ pc'[c] = "unset"
          \/ pc[c] = "setread" /\ pc'[c] = "setwrite"
          \/ pc[c] = "getpref" /\ pc'[c] = "publish"
          \/ pc[c] = "publish" /\ pc'[c] = (IF op[c] = "listen" THEN "subscribe" ELSE "fetchsub")
      BY <1>0, <2>0, <2>5 DEF Refetch, UnsetRead, SetRead, GetPref, Publish, TypeOK
    <3> QED
      BY <1>0, <2>0, <2>1, <3>1 DEF Phase, ListenPhase, UnlistenPhase
  <2> QED
    BY <2>2, <2>3, <2>4, <2>5
<1> QED
  BY <1>1, <1>2, <1>3, LocalFrame DEF LoneShards

\* The steps that change the list.
LEMMA ListSteps ==
    ASSUME OneEntry, TypeInv, MemInv, LocalInv, NEW c \in Clients,
           SetWrite(c) \/ UnsetWrite(c) \/ AddFetch(c) \/ AddStore(c)
    PROVE  LocalInv'
<1> USE DEF mem, sub, call, Goto
<1>0. TypeOK /\ NoNilDereference /\ OneSlice /\ Phase(c)
  BY DEF TypeInv, MemInv, LocalInv
<1>1. Keeps(c) /\ UNCHANGED <<sub, call>>
  BY WriteStep, AddStep DEF SetWrite, UnsetWrite, AddFetch, AddStore
<1>2. \A t \in Shards : SameTopic(t)
  BY <1>1 DEF SameTopic
<1>3. ASSUME cur[c] \in LoneShards
      PROVE  Phase(c)' /\ pc'[c] \notin {"idle", "next"}
  <2>0. PICK s \in Shards : s = cur[c] /\ s \in LoneShards
    BY <1>3 DEF LoneShards
  <2>1. /\ (Apart(s) <=> Apart(s)') /\ (Joined(s) <=> Joined(s)') /\ (Followed(s) <=> Followed(s)')
        /\ cur' = cur /\ op' = op
    BY <1>1, <1>2, TopicKeeps
  <2>2. CASE SetWrite(c)
    <3>1. s \in heap'[ptr'[c]] /\ pc[c] = "setwrite" /\ pc'[c] = "addstore"
      <4>1. ptr[c] \in Refs /\ heap' = [heap EXCEPT ![ptr[c]] = @ \cup {s}]
        BY <2>0, <2>2, WriteStep
      <4>2. ptr' = ptr /\ pc[c] = "setwrite" /\ pc' = [pc EXCEPT ![c] = "addstore"]
        BY <2>2 DEF SetWrite
      <4> QED
        BY <1>0, <4>1, <4>2 DEF TypeOK
    <3>2. op[c] = "listen" /\ Apart(s)
      BY <1>0, <2>0, <3>1 DEF Phase, ListenPhase, UnlistenPhase, TypeOK
    <3> QED
      BY <2>0, <2>1, <3>1, <3>2 DEF Phase, ListenPhase
  <2>3. CASE UnsetWrite(c)
    <3>1. pc[c] = "unset" /\ pc'[c] = "getpref" /\ table' = table
      BY <1>0, <2>3 DEF UnsetWrite, TypeOK
    <3>2. op[c] = "unlisten" /\ Followed(s)
      BY <1>0, <2>0, <3>1 DEF Phase, ListenPhase, UnlistenPhase, TypeOK
    <3>3. ptr[c] = table /\ table # Nil /\ ptr[c] \in Refs
      BY <1>0, <3>1, PointerIsTable DEF NoNilDereference, TypeOK
    <3>4. heap' = [heap EXCEPT ![ptr[c]] = @ \ {s}]
      BY <2>0, <2>3, WriteStep
    <3>5. s \notin Listening'
      BY <1>0, <3>1, <3>3, <3>4 DEF TypeOK, Listening
    <3> QED
      BY <2>0, <2>1, <3>1, <3>2, <3>5 DEF Phase, UnlistenPhase
  <2>4. CASE AddFetch(c)
    <3>1. pc[c] = "addfetch" /\ pc'[c] = "setread" /\ Listening' = Listening
      BY <1>0, <2>4, AddStep DEF AddFetch, AddStore, TypeOK
    <3>2. op[c] = "listen" /\ ListenPhase(c, s)
      BY <1>0, <2>0, <3>1 DEF Phase, UnlistenPhase, TypeOK
    <3> QED
      BY <2>0, <2>1, <3>1, <3>2 DEF Phase, ListenPhase
  <2>5. CASE AddStore(c)
    <3>1. pc[c] = "addstore" /\ pc'[c] = "getpref"
      BY <1>0, <2>5 DEF AddStore, TypeOK
    <3>2. op[c] = "listen" /\ s \in heap[ptr[c]] /\ Apart(s)
      BY <1>0, <2>0, <3>1 DEF Phase, ListenPhase, UnlistenPhase, TypeOK
    <3>3. s \in Listening'
      <4>1. table # Nil => Listening = heap[ptr[c]]
        BY <1>0, <3>1, PointerIsTable DEF NoNilDereference
      <4> QED
        BY <2>0, <2>5, <3>2, <4>1, AddStep
    <3> QED
      BY <2>0, <2>1, <3>1, <3>2, <3>3 DEF Phase, ListenPhase
  <2> QED
    BY <2>2, <2>3, <2>4, <2>5
<1> QED
  BY <1>1, <1>2, <1>3, LocalFrame DEF LoneShards

\* SubscribeTopic and UnsubscribeTopic.  A client that is not at a lone shard
\* cancels no handle of one: the handle it fetched is of its own shard's topic.
LEMMA TopicSteps ==
    ASSUME TypeInv, DanglingInv, MemInv, LocalInv, NEW c \in Clients,
           \/ PublishFails(c) \/ Subscribe(c) \/ SubscribeFails(c) \/ StoreSub(c)
           \/ FetchSub(c) \/ Cancel(c) \/ DeleteSub(c)
    PROVE  LocalInv'
<1> USE DEF mem, sub, call, Goto
<1>0. TypeOK /\ NoNilDereference /\ Phase(c) /\ HandleInv
  BY DEF TypeInv, LocalInv, DanglingInv
<1>1. PICK s \in Shards : s = cur[c]
  BY <1>0 DEF PublishFails, Subscribe, SubscribeFails, StoreSub, FetchSub, Cancel, DeleteSub,
     NoNilDereference
<1>2. Keeps(c) /\ Listening' = Listening
  BY ReadStep DEF ClientStep, FreeStep, PublishFails, Subscribe, SubscribeFails, StoreSub, FetchSub,
     Cancel, DeleteSub, SetWrite, UnsetWrite, AddFetch, AddStore
<1>3. UNCHANGED call /\ s # Nil /\ Nil \notin Shards
  <2>1. UNCHANGED call
    BY DEF PublishFails, Subscribe, SubscribeFails, StoreSub, FetchSub, Cancel, DeleteSub
  <2>2. Nil \notin Shards
    BY NilAssumption, NumShardsAssumption DEF Shards
  <2> QED
    BY <2>1, <2>2
<1>4. \A t \in LoneShards : t # s => SameTopic(t)
  <2> SUFFICES ASSUME NEW t \in Shards, t # s PROVE SameTopic(t)
    BY DEF LoneShards
  <2>1. CASE Subscribe(c)
    <3>1. PICK x \in FreeSubs : live' = [live EXCEPT ![x] = s]
      BY <1>1, <2>1 DEF Subscribe
    <3>2. x \in SubIDs /\ live[x] = Nil /\ subs' = subs
      BY <2>1 DEF FreeSubs, Subscribe
    <3> QED
      BY <1>0, <1>3, <3>1, <3>2 DEF SameTopic, TypeOK
  <2>2. CASE \/ PublishFails(c) \/ SubscribeFails(c) \/ StoreSub(c) \/ FetchSub(c)
             \/ DeleteSub(c)
    BY <1>0, <1>1, <2>2 DEF PublishFails, SubscribeFails, StoreSub, FetchSub, DeleteSub, SameTopic,
       TypeOK
  <2>3. CASE Cancel(c)
    <3>1. live' = [live EXCEPT ![held[c]] = Nil] /\ subs' = subs
      BY <2>3 DEF Cancel
    <3>2. held[c] \in SubIDs /\ live[held[c]] \in {s, Nil}
      BY <1>0, <1>1, <2>3 DEF HandleInv, Cancel
    <3> QED
      BY <1>0, <1>3, <3>1, <3>2 DEF SameTopic, TypeOK
  <2> QED
    BY <2>1, <2>2, <2>3
<1>5. ASSUME s \in LoneShards
      PROVE  Phase(c)' /\ (pc'[c] \in {"idle", "next"} => Settled(s)')
  <2>1. CASE Subscribe(c)
    <3>1. PICK x \in FreeSubs : /\ live' = [live EXCEPT ![x] = s]
                                /\ held' = [held EXCEPT ![c] = x]
      BY <1>1, <2>1 DEF Subscribe
    <3>2. x \in SubIDs /\ live[x] = Nil /\ held'[c] = x /\ subs' = subs
          /\ pc[c] = "subscribe" /\ pc'[c] = "storesub"
      BY <1>0, <2>1, <3>1 DEF Subscribe, FreeSubs, TypeOK
    <3>3. op[c] = "listen" /\ s \in Listening /\ Apart(s)
      BY <1>0, <1>1, <1>5, <3>2 DEF Phase, ListenPhase, UnlistenPhase, TypeOK
    <3>4. "publish" \notin MayFail => \A y \in SubIDs : live'[y] = s <=> y = held'[c]
      BY <1>0, <3>1, <3>2, <3>3 DEF Apart, TypeOK
    <3> QED
      BY <1>1, <1>2, <1>3, <3>2, <3>3, <3>4 DEF Phase, ListenPhase, Apart
  <2>2. CASE SubscribeFails(c)
    <3>1. /\ pc[c] = "subscribe" /\ pc'[c] = "next" /\ "subscribe" \in MayFail
          /\ subs' = subs /\ live' = live
      BY <1>0, <2>2 DEF SubscribeFails, Return, TypeOK
    <3>2. s \in Listening /\ Apart(s)
      BY <1>0, <1>1, <1>5, <3>1 DEF Phase, ListenPhase, UnlistenPhase, TypeOK
    <3>3. Settled(s)'
      BY <1>2, <3>1, <3>2 DEF Settled, Followed, Apart
    <3> QED
      BY <3>1, <3>3 DEF Phase
  <2>3. CASE StoreSub(c)
    <3>1. /\ pc[c] = "storesub" /\ pc'[c] = "next" /\ live' = live
          /\ subs'[s] = held[c] /\ held[c] # Nil
      BY <1>0, <1>1, <2>3 DEF StoreSub, Return, NoNilDereference, TypeOK
    <3>2. /\ s \in Listening
          /\ "publish" \notin MayFail => \A x \in SubIDs : live[x] = s <=> x = held[c]
      BY <1>0, <1>1, <1>5, <3>1 DEF Phase, ListenPhase, UnlistenPhase, TypeOK
    <3>3. Settled(s)'
      BY <1>2, <3>1, <3>2 DEF Settled, Followed, Joined
    <3> QED
      BY <3>1, <3>3 DEF Phase
  <2>4. CASE FetchSub(c)
    <3>1. op[c] = "unlisten" /\ s \notin Listening /\ Followed(s) /\ pc[c] = "fetchsub"
      BY <1>0, <1>1, <1>5, <2>4 DEF FetchSub, Phase, ListenPhase, UnlistenPhase, TypeOK
    <3>2. subs' = subs /\ live' = live
      BY <2>4 DEF FetchSub
    <3>3. CASE subs[s] = Nil
      <4>1. pc'[c] = "next"
        BY <1>0, <1>1, <2>4, <3>3 DEF FetchSub, Return, TypeOK
      <4>2. Settled(s)'
        BY <1>2, <3>1, <3>2, <3>3 DEF Settled, Followed, Joined, Apart
      <4> QED
        BY <4>1, <4>2 DEF Phase
    <3>4. CASE subs[s] # Nil
      <4>1. pc'[c] = "cancel" /\ held'[c] = subs[s]
        BY <1>0, <1>1, <2>4, <3>4 DEF FetchSub, TypeOK
      <4>2. Joined(s)
        BY <3>1, <3>4 DEF Followed, Apart, Joined
      <4> QED
        BY <1>1, <1>2, <1>3, <3>1, <3>2, <4>1, <4>2 DEF Phase, UnlistenPhase, Joined
    <3> QED
      BY <3>3, <3>4
  <2>5. CASE Cancel(c)
    <3>1. /\ pc[c] = "cancel" /\ pc'[c] = "deletesub" /\ subs' = subs /\ held' = held
          /\ live' = [live EXCEPT ![held[c]] = Nil]
      BY <1>0, <2>5 DEF Cancel, TypeOK
    <3>2. /\ op[c] = "unlisten" /\ s \notin Listening /\ Joined(s)
          /\ "publish" \notin MayFail => held[c] = subs[s]
      BY <1>0, <1>1, <1>5, <3>1 DEF Phase, ListenPhase, UnlistenPhase, TypeOK
    <3>3. "publish" \notin MayFail => \A x \in SubIDs : live'[x] # s
      BY <1>0, <1>3, <3>1, <3>2 DEF Joined, TypeOK
    <3> QED
      BY <1>1, <1>2, <1>3, <3>1, <3>2, <3>3 DEF Phase, UnlistenPhase, Joined
  <2>6. CASE DeleteSub(c)
    <3>1. /\ pc[c] = "deletesub" /\ pc'[c] = "next" /\ live' = live /\ subs'[s] = Nil
      BY <1>0, <1>1, <2>6 DEF DeleteSub, Return, TypeOK
    <3>2. s \notin Listening /\ ("publish" \notin MayFail => \A x \in SubIDs : live[x] # s)
      BY <1>0, <1>1, <1>5, <3>1 DEF Phase, ListenPhase, UnlistenPhase, TypeOK
    <3>3. Settled(s)'
      BY <1>2, <3>1, <3>2 DEF Settled, Apart
    <3> QED
      BY <3>1, <3>3 DEF Phase
  <2>7. CASE PublishFails(c)
    BY <1>0, <2>7 DEF PublishFails, Return, Phase, Settled, Followed, Joined, Apart, TypeOK
  <2> QED
    BY <2>1, <2>2, <2>3, <2>4, <2>5, <2>6, <2>7
<1> QED
  BY <1>1, <1>2, <1>3, <1>4, <1>5, LocalFrame

LEMMA LocalStep ==
    OneEntry /\ TypeInv /\ DanglingInv /\ MemInv /\ LocalInv /\ [Next]_vars => LocalInv'
<1> SUFFICES ASSUME OneEntry, TypeInv, DanglingInv, MemInv, LocalInv, [Next]_vars
             PROVE  LocalInv'
  OBVIOUS
<1>1. ASSUME NEW c \in Clients, LockStep(c) PROVE LocalInv'
  BY <1>1, LookSteps, ListSteps DEF LockStep
<1>2. ASSUME NEW c \in Clients, FreeStep(c) PROVE LocalInv'
  BY <1>2, LoopSteps, LookSteps, ListSteps, TopicSteps DEF FreeStep
<1>3. ASSUME UNCHANGED <<heap, table, sub, call, pc, ptr>> PROVE LocalInv'
  <2>1. Listening' = Listening
    BY <1>3 DEF Listening
  <2> QED
    BY <1>3, <2>1
    DEF sub, call, LocalInv, Phase, ListenPhase, UnlistenPhase, QuietSettled, Quiet, Settled,
        Followed, Apart, Joined, LoneShards
<1>4. ASSUME NEW r \in Refs, Echo(r) \/ EchoDropped(r) PROVE LocalInv'
  BY <1>3, <1>4, EchoStep
<1>5. CASE UNCHANGED vars
  BY <1>3, <1>5 DEF vars, mem
<1> QED
  BY <1>1, <1>2, <1>4, <1>5, LoopSteps DEF Next

LEMMA LocalInit == Init => LocalInv
<1> SUFFICES ASSUME Init PROVE LocalInv
  OBVIOUS
<1>1. Listening = {}
  BY DEF Init, Listening, Refs
<1>2. \A c \in Clients : Phase(c)
  BY NilAssumption, NumShardsAssumption DEF Init, Phase, Shards, LoneShards
<1>3. QuietSettled
  BY <1>1, NilAssumption, NumShardsAssumption
  DEF Init, QuietSettled, Settled, Apart, Shards, LoneShards
<1> QED
  BY <1>2, <1>3 DEF LocalInv

\* What can be relied on for a shard that is alone in its byte, when no call is
\* working on it: there is at most one subscription to its topic, it is the one
\* in subs, and a subscribed shard is listed.  If subscribing does not fail, the
\* shard is listed exactly when it is subscribed.
LoneAgreement ==
    \A s \in LoneShards : Quiet(s) =>
        /\ IsCollationSubscribed(s) => IsShardListened(s)
        /\ IsCollationSubscribed(s) => live[subs[s]] = s
        /\ \A x \in SubIDs : live[x] = s => subs[s] = x
        /\ "subscribe" \notin MayFail => Agree(s)

\* For every number of clients, shards and requests: one byte's shards are kept
\* in order by the one client that uses them, although other clients race for
\* other bytes of the slice and subscriptions fail.
THEOREM LocalAgreement == OneEntry /\ PublishWorks => (Spec => []LoneAgreement)
<1> SUFFICES ASSUME OneEntry, PublishWorks PROVE Spec => []LoneAgreement
  OBVIOUS
<1>1. TypeInv /\ LocalInv => LoneAgreement
  BY DEF TypeInv, TypeOK, LocalInv, QuietSettled, LoneAgreement, LoneShards, Settled, Followed,
     Agree, Apart, Joined, PublishWorks, IsShardListened, IsCollationSubscribed
<1> QED
  BY <1>1, TypeInit, TypeStep, DanglingInit, HandleStep, MemInit, MemStep, LocalInit, LocalStep, PTL
  DEF Spec

-----------------------------------------------------------------------------
(* Success of ListenShard. *)

\* A call between two shards has its last one listed; one that has not begun
\* has no shard.
ListedInv ==
    \A c \in Clients :
       /\ pc[c] = "idle" => cur[c] = Nil
       /\ pc[c] = "next" /\ ok[c] /\ op[c] = "listen" /\ cur[c] \in LoneShards
             => cur[c] \in Listening

LEMMA ListedStep ==
    OneEntry /\ PublishWorks /\ TypeInv /\ MemInv /\ LocalInv /\ ListedInv /\ [Next]_vars
        => ListedInv'
<1> SUFFICES ASSUME OneEntry, PublishWorks, TypeInv, MemInv, LocalInv, ListedInv, [Next]_vars,
                    NEW c \in Clients
             PROVE  /\ pc'[c] = "idle" => cur'[c] = Nil
                    /\ pc'[c] = "next" /\ ok'[c] /\ op'[c] = "listen" /\ cur'[c] \in LoneShards
                          => cur'[c] \in Listening'
  BY DEF ListedInv, LoneShards
<1> USE DEF mem, sub, call, Goto
<1>0. TypeOK /\ Phase(c) /\ OwnShards
  BY DEF TypeInv, LocalInv, MemInv
<1>1. CASE \E b \in Requests[c] : SubscribeShard(c, b) \/ UnsubscribeShard(c, b)
  <2>1. pc'[c] = "next" /\ cur'[c] = Nil
    BY <1>0, <1>1 DEF SubscribeShard, UnsubscribeShard, Accept, ListedInv, TypeOK
  <2> QED
    BY <2>1, NilAssumption, NumShardsAssumption DEF Shards, LoneShards
<1>2. CASE EndCall(c)
  BY <1>0, <1>2 DEF EndCall, TypeOK
<1>3. CASE Check(c)
  <2>1. /\ cur' = cur /\ op' = op /\ Listening' = Listening /\ pc'[c] # "idle"
        /\ pc'[c] = "next" => (cur[c] \in Listening <=> op[c] = "listen")
    BY <1>0, <1>3 DEF Check, Return, TypeOK, Listening
  <2> QED
    BY <2>1
<1>4. CASE StoreSub(c)
  <2>1. cur' = cur /\ op' = op /\ Listening' = Listening /\ pc'[c] = "next" /\ pc[c] = "storesub"
    BY <1>0, <1>4 DEF StoreSub, Return, TypeOK, Listening
  <2>2. op[c] = "listen" /\ cur[c] \in LoneShards => cur[c] \in Listening
    BY <1>0, <2>1 DEF Phase, ListenPhase
  <2> QED
    BY <2>1, <2>2
<1>5. CASE FetchSub(c) \/ DeleteSub(c)
  <2>1. cur' = cur /\ op' = op /\ pc'[c] # "idle" /\ pc[c] \in {"fetchsub", "deletesub"}
    BY <1>0, <1>5 DEF FetchSub, DeleteSub, Return, TypeOK
  <2>2. ~(op[c] = "listen" /\ cur[c] \in LoneShards)
    BY <1>0, <2>1 DEF Phase, ListenPhase
  <2> QED
    BY <2>1, <2>2
<1>6. CASE SetRead(c)
  <2>1. cur' = cur /\ pc'[c] # "idle" /\ (pc'[c] = "next" => cur[c] \notin Shards)
    BY <1>0, <1>6 DEF SetRead, Return, TypeOK
  <2> QED
    BY <2>1 DEF LoneShards
<1>7. CASE SubscribeFails(c)
  BY <1>0, <1>7 DEF SubscribeFails, Return, TypeOK
<1>8. CASE \/ NextShard(c) \/ Fetch(c) \/ Refetch(c) \/ UnsetRead(c) \/ AddFetch(c) \/ AddStore(c)
          \/ GetPref(c) \/ Decide(c) \/ Recheck(c) \/ UnsetWrite(c) \/ SetWrite(c) \/ Publish(c)
          \/ Subscribe(c) \/ Cancel(c)
  <2>1. pc'[c] \notin {"idle", "next"}
    BY <1>0, <1>8
    DEF NextShard, Fetch, Refetch, UnsetRead, AddFetch, AddStore, GetPref, Decide, Recheck, UnsetWrite,
        SetWrite, Publish, Subscribe, Cancel, TypeOK
  <2> QED
    BY <2>1
<1>9. ~PublishFails(c)
  BY DEF PublishWorks, PublishFails
<1>10. ASSUME NEW d \in Clients, d # c, ClientStep(d)
       PROVE  /\ pc'[c] = "idle" => cur'[c] = Nil
              /\ pc'[c] = "next" /\ ok'[c] /\ op'[c] = "listen" /\ cur'[c] \in LoneShards
                    => cur'[c] \in Listening'
  <2>1. Keeps(d)
    BY <1>10, MemClient
  <2>2. /\ pc'[c] = pc[c] /\ cur'[c] = cur[c] /\ op'[c] = op[c] /\ ok'[c] = ok[c]
        /\ cur[c] \in LoneShards /\ cur[c] # cur[d] => (cur[c] \in Listening' <=> cur[c] \in Listening)
    BY <1>10, <2>1 DEF Keeps
  <2>3. cur[c] \in LoneShards => cur[c] # cur[d]
    BY <1>0, <1>10, LoneApart DEF LoneShards
  <2> QED
    BY <2>2, <2>3 DEF ListedInv
<1>11. CASE \E r \in Refs : Echo(r) \/ EchoDropped(r)
  BY <1>11, EchoStep DEF Echo, EchoDropped, ListedInv
<1>12. CASE UNCHANGED vars
  BY <1>12 DEF vars, Listening, ListedInv
<1> QED
  BY <1>1, <1>2, <1>3, <1>4, <1>5, <1>6, <1>7, <1>8, <1>9, <1>10, <1>11, <1>12
  DEF Next, ClientStep, LockStep, FreeStep

\* A ListenShard that returned no error, for a shard alone in its byte: until
\* its caller goes on the shard is listed, and subscribed if subscribing cannot
\* fail.  (Where it can, the shard may be listed since an earlier call that
\* failed to subscribe, and ListenShard then has nothing to do.)
LoneListen ==
    \A c \in Clients :
        /\ pc[c] = "next" /\ ok[c] /\ op[c] = "listen" /\ cur[c] \in LoneShards
        => /\ IsShardListened(cur[c])
           /\ "subscribe" \notin MayFail => IsCollationSubscribed(cur[c])

\* Success means what it says for a shard that no other client's requests share
\* a byte with, whatever the other clients do to each other.
THEOREM LocalListen == OneEntry /\ PublishWorks => (Spec => []LoneListen)
<1> SUFFICES ASSUME OneEntry, PublishWorks PROVE Spec => []LoneListen
  OBVIOUS
<1>1. Init => ListedInv
  BY NilAssumption, NumShardsAssumption DEF Init, ListedInv
<1>2. MemInv /\ LocalInv /\ ListedInv => LoneListen
  <2> SUFFICES ASSUME MemInv, LocalInv, ListedInv, NEW c \in Clients,
                      pc[c] = "next", ok[c], op[c] = "listen", cur[c] \in LoneShards
               PROVE  /\ IsShardListened(cur[c])
                      /\ "subscribe" \notin MayFail => IsCollationSubscribed(cur[c])
    BY DEF LoneListen
  <2>1. Quiet(cur[c])
    <3> SUFFICES ASSUME NEW d \in Clients, d # c, cur[d] = cur[c] PROVE FALSE
      BY DEF Quiet
    <3> QED
      BY LoneApart DEF MemInv, LoneShards
  <2>2. Settled(cur[c]) /\ cur[c] \in Listening
    BY <2>1 DEF LocalInv, QuietSettled, ListedInv
  <2> QED
    BY <2>2 DEF Settled, Followed, Joined, PublishWorks, IsShardListened, IsCollationSubscribed
<1> QED
  BY <1>1, <1>2, ListedStep, TypeInit, TypeStep, DanglingInit, HandleStep, MemInit, MemStep,
     LocalInit, LocalStep, PTL
  DEF Spec

-----------------------------------------------------------------------------
(* Lone shards are handled as Membership says. *)

\* The ids that are one client's business: the shards alone in their byte, and
\* the ids that setShard refuses.
OwnIDs == LoneShards \cup (Nat \ Shards)

\* What can be seen of these ids.
OwnListed == Listening \cap OwnIDs
OwnSubscribed == SubscribedShards \cap OwnIDs
OwnTodo == [c \in Clients |-> UnlistedTodo[c] \cap OwnIDs]
OwnLate == [c \in Clients |-> LateShards[c] \cap OwnIDs]
OwnRequests == [c \in Clients |-> {b \cap OwnIDs : b \in Requests[c]}]

OwnMembers == INSTANCE Membership WITH
    Requests <- OwnRequests, listed <- OwnListed, subscribed <- OwnSubscribed,
    busy <- BusyClients, todo <- OwnTodo, late <- OwnLate

\* A step of c leaves alone what Membership knows of the other clients.
Others(c) == \A d \in Clients : d # c =>
                /\ pc'[d] = pc[d] /\ todo'[d] = todo[d] /\ cur'[d] = cur[d]
                /\ table' = Nil <=> table = Nil

LEMMA OthersLemma ==
    ASSUME OneEntry, TypeInv, MemInv, NEW c \in Clients, ClientStep(c)
    PROVE  Others(c)
<1>1. TypeInv' /\ MemInv'
  BY TypeStep, MemClient DEF Next, ClientStep
<1>2. ASSUME NEW d \in Clients, d # c PROVE table # Nil /\ table' # Nil
  BY <1>1, <1>2, NilAssumption DEF OneEntry, MemInv, OneSlice
<1> QED
  BY <1>2, OthersStay DEF Others, TypeInv

\* What such a step does to the abstract state of the clients.
LEMMA BarFrame ==
    ASSUME TypeOK, NEW c \in Clients, Others(c)
    PROVE  /\ OwnTodo' = [OwnTodo EXCEPT ![c] = (todo'[c] \cup Unlisted(c)') \cap OwnIDs]
           /\ OwnLate' = [OwnLate EXCEPT ![c] = Unfollowed(c)' \cap OwnIDs]
           /\ BusyClients' = IF pc'[c] = "idle" THEN BusyClients \ {c} ELSE BusyClients \cup {c}
           /\ OwnTodo[c] = (todo[c] \cup Unlisted(c)) \cap OwnIDs
           /\ OwnLate[c] = Unfollowed(c) \cap OwnIDs
<1>0. OwnIDs' = OwnIDs
  BY DEF OwnIDs, LoneShards
<1>1. \A d \in Clients : d # c => /\ Unlisted(d)' = Unlisted(d)
                                 /\ Unfollowed(d)' = Unfollowed(d)
  BY DEF Others, Unlisted, Unfollowed
<1>2. OwnTodo' = [OwnTodo EXCEPT ![c] = (todo'[c] \cup Unlisted(c)') \cap OwnIDs]
  BY <1>0, <1>1 DEF OwnTodo, UnlistedTodo, Others
<1>3. OwnLate' = [OwnLate EXCEPT ![c] = Unfollowed(c)' \cap OwnIDs]
  BY <1>0, <1>1 DEF OwnLate, LateShards
<1>4. BusyClients' = IF pc'[c] = "idle" THEN BusyClients \ {c} ELSE BusyClients \cup {c}
  BY DEF BusyClients, Others
<1> QED
  BY <1>2, <1>3, <1>4 DEF OwnTodo, OwnLate, UnlistedTodo, LateShards

\* A step of c between two points that Membership does not tell apart.
LEMMA BarSame ==
    ASSUME TypeOK, NEW c \in Clients, Others(c),
           (todo'[c] \cup Unlisted(c)') \cap OwnIDs = (todo[c] \cup Unlisted(c)) \cap OwnIDs,
           Unfollowed(c)' \cap OwnIDs = Unfollowed(c) \cap OwnIDs,
           pc[c] # "idle", pc'[c] # "idle", op' = op,
           OwnListed' = OwnListed, OwnSubscribed' = OwnSubscribed
    PROVE  UNCHANGED OwnMembers!vars
<1>1. OwnTodo' = OwnTodo /\ OwnLate' = OwnLate
  <2>1. /\ OwnTodo' = [OwnTodo EXCEPT ![c] = OwnTodo[c]]
        /\ OwnLate' = [OwnLate EXCEPT ![c] = OwnLate[c]]
    BY BarFrame
  <2>2. OwnTodo = [OwnTodo EXCEPT ![c] = OwnTodo[c]] /\ OwnLate = [OwnLate EXCEPT ![c] = OwnLate[c]]
    BY DEF OwnTodo, OwnLate
  <2> QED
    BY <2>1, <2>2
<1>2. BusyClients' = BusyClients
  BY DEF BusyClients, Others
<1> QED
  BY <1>1, <1>2 DEF OwnMembers!vars

\* A request names a shard once: the one being handled is an id that is off
\* the list.
Once == \A c \in Clients : pc[c] \notin {"idle", "next"} => cur[c] \in Nat \ todo[c]

LEMMA OnceStep == TypeOK /\ Once /\ [Next]_vars => Once'
<1> SUFFICES ASSUME TypeOK, Once, [Next]_vars PROVE Once'
  OBVIOUS
<1> USE DEF mem, sub, call, Goto
<1>1. ASSUME NEW c \in Clients,
             \/ \E b \in Requests[c] : SubscribeShard(c, b) \/ UnsubscribeShard(c, b)
             \/ NextShard(c) \/ EndCall(c)
      PROVE  Once'
  BY <1>1 DEF TypeOK, Once, SubscribeShard, UnsubscribeShard, Accept, NextShard, EndCall
<1>2. ASSUME NEW c \in Clients, LockStep(c) PROVE Once'
  BY <1>2 DEF TypeOK, Once, LockStep, Check, Fetch, Refetch, UnsetRead, AddFetch, AddStore, GetPref,
              Return
<1>3. ASSUME NEW c \in Clients, FreeStep(c), ~NextShard(c), ~EndCall(c) PROVE Once'
  BY <1>3 DEF TypeOK, Once, FreeStep, Decide, Recheck, UnsetWrite, SetRead, SetWrite, Publish,
              PublishFails, Subscribe, SubscribeFails, StoreSub, FetchSub, Cancel, DeleteSub, Return
<1>4. ASSUME NEW r \in Refs, Echo(r) \/ EchoDropped(r) PROVE Once'
  BY <1>4 DEF Once, Echo, EchoDropped
<1>5. CASE UNCHANGED vars
  BY <1>5 DEF Once, vars
<1> QED
  BY <1>1, <1>2, <1>3, <1>4, <1>5 DEF Next

\* The steps by which a call comes and goes.
LEMMA LoopMaps ==
    ASSUME OneEntry, TypeInv, MemInv, NEW c \in Clients,
           \/ \E b \in Requests[c] : SubscribeShard(c, b) \/ UnsubscribeShard(c, b)
           \/ NextShard(c) \/ EndCall(c)
    PROVE  [OwnMembers!Next]_(OwnMembers!vars)
<1> USE DEF mem, sub, call, Goto
<1>0. TypeOK /\ Others(c)
  BY OthersLemma DEF TypeInv, ClientStep, FreeStep
<1>1. OwnListed' = OwnListed /\ OwnSubscribed' = OwnSubscribed
  <2>1. Listening' = Listening /\ SubscribedShards' = SubscribedShards
    BY DEF SubscribeShard, UnsubscribeShard, Accept, NextShard, EndCall, Listening,
           SubscribedShards, IsCollationSubscribed
  <2> QED
    BY <2>1 DEF OwnListed, OwnSubscribed, OwnIDs, LoneShards
<1>2. ASSUME NEW b \in Requests[c], NEW o \in {"listen", "unlisten"}, Accept(c, o, b)
      PROVE  OwnMembers!Begin(c, o, b \cap OwnIDs) /\ b \cap OwnIDs \in OwnRequests[c]
  <2>1. /\ c \notin BusyClients /\ pc'[c] = "next" /\ todo'[c] = b
        /\ op' = [op EXCEPT ![c] = o]
        /\ Unlisted(c)' = {} /\ Unfollowed(c)' = {} /\ Unfollowed(c) = {}
    BY <1>0, <1>2 DEF Accept, TypeOK, BusyClients, Unlisted, Unfollowed
  <2>2. OwnLate' = OwnLate
    BY <1>0, <2>1, BarFrame DEF OwnLate
  <2>3. todo'[c] \cup Unlisted(c)' = b
    BY <2>1
  <2>4. /\ OwnTodo' = [OwnTodo EXCEPT ![c] = b \cap OwnIDs]
        /\ BusyClients' = BusyClients \cup {c}
    BY <1>0, <2>1, <2>3, BarFrame
  <2> QED
    BY <1>1, <2>1, <2>2, <2>4 DEF OwnMembers!Begin, OwnRequests
<1>3. ASSUME NextShard(c) PROVE UNCHANGED OwnMembers!vars
  <2>1. PICK s \in todo[c] : cur'[c] = s /\ todo'[c] = todo[c] \ {s}
    BY <1>0, <1>3 DEF NextShard, TypeOK
  <2>2. /\ Unlisted(c)' = {s} /\ Unfollowed(c)' = {} /\ Unfollowed(c) = {} /\ Unlisted(c) = {}
        /\ op' = op /\ pc[c] # "idle" /\ pc'[c] # "idle"
    BY <1>0, <1>3, <2>1 DEF NextShard, TypeOK, Unlisted, Unfollowed
  <2>3. todo'[c] \cup Unlisted(c)' = todo[c] \cup Unlisted(c)
    BY <2>1, <2>2
  <2> QED
    BY <1>0, <1>1, <2>2, <2>3, BarSame
<1>4. ASSUME EndCall(c) PROVE OwnMembers!End(c)
  <2>1. /\ c \in BusyClients /\ pc'[c] = "idle" /\ todo'[c] = {} /\ todo[c] = {} /\ op' = op
        /\ Unlisted(c)' = {} /\ Unfollowed(c)' = {} /\ Unfollowed(c) = {} /\ Unlisted(c) = {}
    BY <1>0, <1>4 DEF EndCall, TypeOK, BusyClients, Unlisted, Unfollowed
  <2>2. /\ OwnLate' = OwnLate /\ OwnTodo' = OwnTodo
        /\ BusyClients' = BusyClients \ {c}
        /\ OwnTodo[c] = {} /\ OwnLate[c] = {}
    BY <1>0, <2>1, BarFrame DEF OwnLate, OwnTodo
  <2> QED
    BY <1>1, <2>1, <2>2 DEF OwnMembers!End
<1> QED
  BY <1>2, <1>3, <1>4 DEF SubscribeShard, UnsubscribeShard, OwnMembers!Next

\* A client at work on a shard of a shared byte, whatever it does there, is not
\* seen to do anything.
LEMMA AwayMaps ==
    ASSUME OneEntry, TypeInv, MemInv, NEW c \in Clients, ClientStep(c),
           pc[c] \notin {"idle", "next"}, cur[c] \notin OwnIDs
    PROVE  UNCHANGED OwnMembers!vars
<1> USE DEF mem, sub, call, Goto
<1>0. TypeOK /\ TypeOK' /\ Others(c) /\ Keeps(c)
  BY OthersLemma, MemClient, TypeStep DEF TypeInv, Next, ClientStep
<1>1. /\ UNCHANGED call /\ pc'[c] # "idle"
      /\ \A t \in Shards : t # cur[c] => subs'[t] = subs[t]
  <2>1. ~NextShard(c) /\ ~EndCall(c)
        /\ \A b \in Requests[c] : ~SubscribeShard(c, b) /\ ~UnsubscribeShard(c, b)
    BY DEF NextShard, EndCall, SubscribeShard, UnsubscribeShard, Accept
  <2>2. CASE LockStep(c)
    BY <1>0, <2>2
    DEF LockStep, Check, Fetch, Refetch, UnsetRead, AddFetch, AddStore, GetPref, Return, TypeOK
  <2>3. CASE FreeStep(c)
    BY <1>0, <2>1, <2>3
    DEF FreeStep, Decide, Recheck, UnsetWrite, SetRead, SetWrite, Publish, PublishFails, Subscribe,
        SubscribeFails, StoreSub, FetchSub, Cancel, DeleteSub, Return, TypeOK
  <2> QED
    BY <2>1, <2>2, <2>3 DEF ClientStep
<1>2. /\ Unlisted(c)' \cap OwnIDs = {} /\ Unlisted(c) \cap OwnIDs = {}
      /\ Unfollowed(c)' \cap OwnIDs = {} /\ Unfollowed(c) \cap OwnIDs = {}
  BY <1>1 DEF Unlisted, Unfollowed
<1>3. OwnListed' = OwnListed
  <2>1. Listening \subseteq Shards /\ Listening' \subseteq Shards
    BY <1>0 DEF Listening, TypeOK
  <2>2. OwnIDs \cap Shards = LoneShards /\ OwnIDs' = OwnIDs
    BY DEF OwnIDs, LoneShards
  <2>3. \A t \in LoneShards : t \in Listening' <=> t \in Listening
    BY <1>0, <2>2 DEF Keeps
  <2> QED
    BY <2>1, <2>2, <2>3 DEF OwnListed
<1>4. OwnSubscribed' = OwnSubscribed
  BY <1>1 DEF OwnSubscribed, OwnIDs, LoneShards, SubscribedShards, IsCollationSubscribed
<1>5. (todo'[c] \cup Unlisted(c)') \cap OwnIDs = (todo[c] \cup Unlisted(c)) \cap OwnIDs
  BY <1>1, <1>2
<1> QED
  BY <1>0, <1>1, <1>2, <1>3, <1>4, <1>5, BarSame

\* Looking things up: Membership sees a step only where the call passes the
\* shard over.
LEMMA LookMaps ==
    ASSUME OneEntry, TypeInv, MemInv, LocalInv, Once, NEW c \in Clients, cur[c] \in OwnIDs,
           \/ Check(c) \/ Fetch(c) \/ Decide(c) \/ Refetch(c) \/ Recheck(c) \/ UnsetRead(c)
           \/ SetRead(c) \/ GetPref(c) \/ Publish(c)
    PROVE  [OwnMembers!Next]_(OwnMembers!vars)
<1> USE DEF mem, sub, call, Goto
<1>0. TypeOK /\ NoNilDereference /\ OneSlice /\ Phase(c) /\ Others(c)
  BY OthersLemma DEF TypeInv, MemInv, LocalInv, ClientStep, LockStep, FreeStep
<1>1. UNCHANGED <<todo, cur, table, op>> /\ pc[c] # "idle" /\ pc'[c] # "idle"
  BY <1>0 DEF Check, Fetch, Decide, Refetch, Recheck, UnsetRead, SetRead, GetPref, Publish, Return,
     TypeOK
<1>2. OwnListed' = OwnListed /\ OwnSubscribed' = OwnSubscribed
  <2>1. Listening' = Listening /\ SubscribedShards' = SubscribedShards
    BY DEF Check, Fetch, Decide, Refetch, Recheck, UnsetRead, SetRead, GetPref, Publish,
       Listening, SubscribedShards, IsCollationSubscribed
  <2> QED
    BY <2>1 DEF OwnListed, OwnSubscribed, OwnIDs, LoneShards
<1>3. ASSUME pc'[c] = "next", pc[c] \in {"check", "setread"}
      PROVE  OwnMembers!PassOver(c, cur[c])
  <2>1. OwnMembers!Idle(c, cur[c])
    <3>1. Listening \subseteq Shards
      BY <1>0 DEF Listening, TypeOK
    <3>2. pc[c] = "check" => (cur[c] \in Listening <=> op[c] = "listen")
      BY <1>3, <1>0 DEF Check, Fetch, Decide, Refetch, Recheck, UnsetRead, SetRead, GetPref, Publish,
         TypeOK
    <3>3. pc[c] = "setread" => cur[c] \notin Shards
      BY <1>3, <1>0 DEF Check, Fetch, Decide, Refetch, Recheck, UnsetRead, SetRead, GetPref, Publish,
         TypeOK
    <3> QED
      BY <1>3, <3>1, <3>2, <3>3 DEF OwnMembers!Idle, OwnListed
  <2>2. Unlisted(c) = {cur[c]} /\ Unlisted(c)' = {} /\ Unfollowed(c) = {} /\ Unfollowed(c)' = {}
    BY <1>1, <1>3 DEF Unlisted, Unfollowed
  <2>3. (todo'[c] \cup Unlisted(c)') \cap OwnIDs = ((todo[c] \cup Unlisted(c)) \cap OwnIDs) \ {cur[c]}
    BY <1>1, <1>3, <2>2 DEF Once
  <2>4. OwnLate' = OwnLate /\ BusyClients' = BusyClients
    <3>1. OwnLate' = OwnLate
      BY <1>0, <2>2, BarFrame DEF OwnLate
    <3>2. BusyClients' = BusyClients
      BY <1>0, <1>1 DEF BusyClients, Others
    <3> QED
      BY <3>1, <3>2
  <2>5. OwnTodo' = [OwnTodo EXCEPT ![c] = OwnTodo[c] \ {cur[c]}]
    BY <1>0, <2>3, BarFrame
  <2>6. cur[c] \in OwnTodo[c] /\ OwnLate[c] = {}
    BY <1>0, <2>2, BarFrame
  <2> QED
    BY <1>1, <1>2, <2>1, <2>4, <2>5, <2>6 DEF OwnMembers!PassOver
<1>4. ASSUME ~(pc'[c] = "next" /\ pc[c] \in {"check", "setread"})
      PROVE  UNCHANGED OwnMembers!vars
  <2>1. pc[c] = "recheck" => cur[c] \in heap[ptr[c]]
    <3> SUFFICES ASSUME pc[c] = "recheck" PROVE cur[c] \in heap[ptr[c]]
      OBVIOUS
    <3>1. cur[c] \in LoneShards /\ ptr[c] # Nil /\ table # Nil
      BY <1>0 DEF NoNilDereference, OwnIDs
    <3>2. cur[c] \in Listening
      BY <1>0, <3>1 DEF Phase, ListenPhase, UnlistenPhase, TypeOK
    <3> QED
      BY <1>0, <3>1, <3>2, PointerIsTable
  <2>2. Unlisted(c)' = Unlisted(c) /\ Unfollowed(c)' = Unfollowed(c)
    BY <1>0, <1>1, <1>4, <2>1 DEF Check, Fetch, Decide, Refetch, Recheck, UnsetRead, SetRead, GetPref,
       Publish, Return, TypeOK, Unlisted, Unfollowed
  <2> QED
    BY <1>0, <1>1, <1>2, <2>2, BarSame
<1>5. OwnMembers!PassOver(c, cur[c]) => OwnMembers!Next
  <2>1. OwnTodo[c] \subseteq OwnTodo[c] \cup OwnLate[c]
    OBVIOUS
  <2> QED
    BY <2>1 DEF OwnMembers!Next, OwnMembers!Handle, OwnMembers!PassOver
<1> QED
  BY <1>3, <1>4, <1>5

\* The writes that can be seen in the list.
LEMMA ListMaps ==
    ASSUME OneEntry, TypeInv, MemInv, LocalInv, Once, NEW c \in Clients, cur[c] \in OwnIDs,
           SetWrite(c) \/ UnsetWrite(c) \/ AddFetch(c) \/ AddStore(c)
    PROVE  [OwnMembers!Next]_(OwnMembers!vars)
<1> USE DEF mem, sub, call, Goto
<1>0. TypeOK /\ NoNilDereference /\ OneSlice /\ Phase(c) /\ Others(c)
  BY OthersLemma DEF TypeInv, MemInv, LocalInv, ClientStep, LockStep, FreeStep
<1>1. /\ UNCHANGED <<todo, cur, op>> /\ pc[c] # "idle" /\ pc'[c] # "idle"
      /\ OwnSubscribed' = OwnSubscribed /\ OwnIDs' = OwnIDs
  BY <1>0 DEF SetWrite, UnsetWrite, AddFetch, AddStore, TypeOK, OwnIDs, LoneShards, OwnSubscribed,
     SubscribedShards, IsCollationSubscribed
<1>2. ASSUME AddFetch(c) \/ (AddStore(c) /\ table # Nil) \/ (SetWrite(c) /\ table = Nil)
      PROVE  UNCHANGED OwnMembers!vars
  <2>1. Unlisted(c)' = Unlisted(c) /\ Unfollowed(c)' = Unfollowed(c)
    BY <1>0, <1>2 DEF AddFetch, AddStore, SetWrite, NoNilDereference, TypeOK, Unlisted, Unfollowed
  <2>2. Listening' = Listening
    <3>1. CASE SetWrite(c) /\ table = Nil
      BY <3>1 DEF SetWrite, Listening
    <3>2. CASE AddFetch(c) \/ (AddStore(c) /\ table # Nil)
      <4>1. ~(AddStore(c) /\ table = Nil)
        BY <3>2 DEF AddFetch, AddStore
      <4> QED
        BY <3>2, <4>1, AddStep
    <3> QED
      BY <1>2, <3>1, <3>2
  <2>3. OwnListed' = OwnListed
    BY <1>1, <2>2 DEF OwnListed
  <2> QED
    BY <1>0, <1>1, <2>1, <2>3, BarSame
<1>3. ASSUME UnsetWrite(c) \/ (AddStore(c) /\ table = Nil) \/ (SetWrite(c) /\ table # Nil)
      PROVE  OwnMembers!List(c, cur[c])
  <2>1. PICK s \in LoneShards : s = cur[c] /\ s \in Shards /\ s \in OwnIDs
    BY <1>0, <1>3 DEF SetWrite, UnsetWrite, AddStore, NoNilDereference, OwnIDs
  <2>2. /\ Unlisted(c) = {s} /\ Unlisted(c)' = {} /\ Unfollowed(c) = {} /\ Unfollowed(c)' = {s}
    BY <1>0, <1>1, <1>3, <2>1 DEF SetWrite, UnsetWrite, AddStore, NoNilDereference, TypeOK, Unlisted,
       Unfollowed
  <2>3. /\ OwnTodo' = [OwnTodo EXCEPT ![c] = OwnTodo[c] \ {s}]
        /\ OwnLate' = [OwnLate EXCEPT ![c] = {s}]
        /\ s \in OwnTodo[c] /\ OwnLate[c] = {}
    <3>1. (todo'[c] \cup Unlisted(c)') \cap OwnIDs = ((todo[c] \cup Unlisted(c)) \cap OwnIDs) \ {s}
      BY <1>1, <1>3, <2>1, <2>2 DEF Once, SetWrite, UnsetWrite, AddStore
    <3>2. Unfollowed(c)' \cap OwnIDs = {s}
      BY <2>1, <2>2
    <3> QED
      BY <1>0, <2>1, <2>2, <3>1, <3>2, BarFrame
  <2>4. BusyClients' = BusyClients
    BY <1>0, <1>1 DEF BusyClients, Others
  <2>5. /\ Listening' = IF op[c] = "listen" THEN Listening \cup {s} ELSE Listening \ {s}
        /\ op[c] = "listen" => s \notin Listening
        /\ op[c] # "listen" => s \in Listening
    <3>1. CASE UnsetWrite(c)
      <4>1. /\ op[c] = "unlisten" /\ s \in Listening /\ ptr[c] = table /\ table # Nil
            /\ ptr[c] \in Refs /\ table' = table
        BY <1>0, <2>1, <3>1 DEF UnsetWrite, Phase, ListenPhase, UnlistenPhase, TypeOK,
           NoNilDereference, OneSlice
      <4>2. heap' = [heap EXCEPT ![ptr[c]] = @ \ {s}]
        BY <2>1, <3>1, WriteStep
      <4> QED
        BY <1>0, <4>1, <4>2 DEF Listening, TypeOK
    <3>2. CASE SetWrite(c) /\ table # Nil
      <4>1. /\ op[c] = "listen" /\ s \notin Listening /\ ptr[c] = table /\ table # Nil
            /\ ptr[c] \in Refs /\ table' = table
        BY <1>0, <2>1, <3>2 DEF SetWrite, Phase, ListenPhase, UnlistenPhase, TypeOK,
           NoNilDereference, OneSlice
      <4>2. heap' = [heap EXCEPT ![ptr[c]] = @ \cup {s}]
        BY <2>1, <3>2, WriteStep
      <4> QED
        BY <1>0, <4>1, <4>2 DEF Listening, TypeOK
    <3>3. CASE AddStore(c) /\ table = Nil
      <4>1. op[c] = "listen"
        BY <1>0, <2>1, <3>3 DEF AddStore, Phase, UnlistenPhase, TypeOK
      <4> QED
        BY <2>1, <3>3, <4>1, AddStep
    <3> QED
      BY <1>3, <3>1, <3>2, <3>3
  <2>6. /\ OwnListed' = IF op[c] = "listen" THEN OwnListed \cup {s} ELSE OwnListed \ {s}
        /\ op[c] = "listen" => s \notin OwnListed
        /\ op[c] # "listen" => s \in OwnListed
    BY <1>1, <2>1, <2>5 DEF OwnListed
  <2> QED
    BY <1>1, <2>1, <2>3, <2>4, <2>6 DEF OwnMembers!List, OwnMembers!Idle, OwnMembers!Change
<1>4. OwnMembers!List(c, cur[c]) => OwnMembers!Next
  <2>1. OwnTodo[c] \subseteq OwnTodo[c] \cup OwnLate[c]
    OBVIOUS
  <2> QED
    BY <2>1 DEF OwnMembers!Next, OwnMembers!Handle, OwnMembers!List
<1> QED
  BY <1>2, <1>3, <1>4

\* Joining and leaving the topic, of which Membership sees the change in subs.
LEMMA TopicMaps ==
    ASSUME OneEntry, TypeInv, MemInv, LocalInv, NEW c \in Clients, cur[c] \in OwnIDs,
           \/ PublishFails(c) \/ Subscribe(c) \/ SubscribeFails(c) \/ StoreSub(c)
           \/ FetchSub(c) \/ Cancel(c) \/ DeleteSub(c)
    PROVE  [OwnMembers!Next]_(OwnMembers!vars)
<1> USE DEF mem, sub, call, Goto
<1>0. TypeOK /\ NoNilDereference /\ Phase(c) /\ Others(c)
  BY OthersLemma DEF TypeInv, LocalInv, ClientStep, FreeStep
<1>1. PICK s \in LoneShards : s = cur[c] /\ s \in Shards /\ s \in OwnIDs
  BY <1>0 DEF PublishFails, Subscribe, SubscribeFails, StoreSub, FetchSub, Cancel, DeleteSub,
     NoNilDereference, OwnIDs
<1>2. /\ OwnListed' = OwnListed /\ OwnIDs' = OwnIDs
      /\ UNCHANGED <<todo, cur, op, table>> /\ pc[c] # "idle" /\ pc'[c] # "idle"
      /\ Unlisted(c) = {} /\ Unlisted(c)' = {} /\ Unfollowed(c) = {s}
      /\ OwnTodo' = OwnTodo /\ BusyClients' = BusyClients
  <2>1. /\ Listening' = Listening /\ OwnIDs' = OwnIDs
        /\ UNCHANGED <<todo, cur, op, table>> /\ pc[c] # "idle" /\ pc'[c] # "idle"
        /\ Unlisted(c) = {} /\ Unlisted(c)' = {} /\ Unfollowed(c) = {s}
    BY <1>0, <1>1 DEF PublishFails, Subscribe, SubscribeFails, StoreSub, FetchSub, Cancel,
       DeleteSub, Return, TypeOK, Listening, OwnIDs, LoneShards, Unlisted, Unfollowed
  <2>2. OwnTodo' = OwnTodo
    BY <1>0, <2>1, BarFrame DEF OwnTodo
  <2>3. BusyClients' = BusyClients
    BY <1>0, <2>1 DEF BusyClients, Others
  <2> QED
    BY <2>1, <2>2, <2>3 DEF OwnListed
<1>3. ASSUME Subscribe(c) \/ (FetchSub(c) /\ subs[s] # Nil) \/ Cancel(c)
      PROVE  UNCHANGED OwnMembers!vars
  <2>2. Unfollowed(c)' = {s} /\ subs' = subs
    BY <1>0, <1>1, <1>2, <1>3 DEF Subscribe, FetchSub, Cancel, TypeOK, Unfollowed
  <2>3. OwnSubscribed' = OwnSubscribed
    BY <1>2, <2>2 DEF OwnSubscribed, SubscribedShards, IsCollationSubscribed
  <2> QED
    BY <1>0, <1>2, <2>2, <2>3, BarSame
<1>4. ASSUME StoreSub(c) \/ (FetchSub(c) /\ subs[s] = Nil) \/ DeleteSub(c)
      PROVE  OwnMembers!Follow(c, s)
  <2>1. Unfollowed(c)' = {}
    BY <1>0, <1>1, <1>4 DEF StoreSub, FetchSub, DeleteSub, Return, TypeOK, Unfollowed
  <2>2. OwnLate' = [OwnLate EXCEPT ![c] = {}] /\ s \in OwnLate[c]
    BY <1>0, <1>1, <1>2, <2>1, BarFrame
  <2>3. SubscribedShards' = IF op[c] = "listen" THEN SubscribedShards \cup {s}
                                                ELSE SubscribedShards \ {s}
    <3>1. /\ StoreSub(c) => op[c] = "listen" /\ held[c] # Nil
          /\ FetchSub(c) \/ DeleteSub(c) => op[c] # "listen"
      BY <1>0, <1>1 DEF StoreSub, FetchSub, DeleteSub, NoNilDereference, Phase, ListenPhase,
         UnlistenPhase, TypeOK
    <3> QED
      BY <1>0, <1>1, <1>4, <3>1 DEF StoreSub, FetchSub, DeleteSub, SubscribedShards,
         IsCollationSubscribed, TypeOK
  <2>4. OwnSubscribed' = IF op[c] = "listen" THEN OwnSubscribed \cup {s} ELSE OwnSubscribed \ {s}
    BY <1>1, <1>2, <2>3 DEF OwnSubscribed
  <2> QED
    BY <1>2, <2>2, <2>4 DEF OwnMembers!Follow, OwnMembers!Change
<1>5. ASSUME PublishFails(c) \/ SubscribeFails(c) PROVE OwnMembers!Abandon(c, s)
  <2>1. Unfollowed(c)' = {} /\ subs' = subs
    BY <1>0, <1>5 DEF PublishFails, SubscribeFails, Return, TypeOK, Unfollowed
  <2>2. OwnLate' = [OwnLate EXCEPT ![c] = {}] /\ s \in OwnLate[c]
    BY <1>0, <1>1, <1>2, <2>1, BarFrame
  <2>3. OwnMembers!Asks(c) \cap MayFail # {}
    <3>1. SubscribeFails(c) => op[c] = "listen"
      BY <1>0, <1>1 DEF SubscribeFails, Phase, UnlistenPhase, TypeOK
    <3> QED
      BY <1>5, <3>1 DEF PublishFails, SubscribeFails, OwnMembers!Asks
  <2>4. OwnSubscribed' = OwnSubscribed
    BY <1>2, <2>1 DEF OwnSubscribed, SubscribedShards, IsCollationSubscribed
  <2> QED
    BY <1>2, <2>2, <2>3, <2>4 DEF OwnMembers!Abandon
<1>6. OwnMembers!Follow(c, s) \/ OwnMembers!Abandon(c, s) => OwnMembers!Next
  BY DEF OwnMembers!Next, OwnMembers!Handle, OwnMembers!Follow, OwnMembers!Abandon
<1> QED
  BY <1>3, <1>4, <1>5, <1>6

LEMMA OwnMembersInit == Init => OwnMembers!Init
<1> SUFFICES ASSUME Init PROVE OwnMembers!Init
  OBVIOUS
<1>1. Listening = {} /\ SubscribedShards = {} /\ BusyClients = {}
  BY DEF Init, Listening, Refs, SubscribedShards, IsCollationSubscribed, BusyClients
<1>2. UnlistedTodo = [c \in Clients |-> {}] /\ LateShards = [c \in Clients |-> {}]
  BY DEF Init, UnlistedTodo, LateShards, Unlisted, Unfollowed
<1>3. OwnListed = {} /\ OwnSubscribed = {}
  BY <1>1 DEF OwnListed, OwnSubscribed
<1>4. OwnTodo = [c \in Clients |-> {}] /\ OwnLate = [c \in Clients |-> {}]
  BY <1>2 DEF OwnTodo, OwnLate
<1> QED
  BY <1>1, <1>3, <1>4 DEF Init, OwnMembers!Init

LEMMA OwnMembersStep ==
    OneEntry /\ TypeInv /\ MemInv /\ LocalInv /\ Once /\ [Next]_vars
        => [OwnMembers!Next]_(OwnMembers!vars)
<1> SUFFICES ASSUME OneEntry, TypeInv, MemInv, LocalInv, Once, [Next]_vars
             PROVE  [OwnMembers!Next]_(OwnMembers!vars)
  OBVIOUS
<1>1. ASSUME NEW c \in Clients, ClientStep(c) PROVE [OwnMembers!Next]_(OwnMembers!vars)
  <2>2. CASE pc[c] \in {"idle", "next"}
    <3>1. \/ \E b \in Requests[c] : SubscribeShard(c, b) \/ UnsubscribeShard(c, b)
          \/ NextShard(c) \/ EndCall(c)
      BY <1>1, <2>2
      DEF ClientStep, LockStep, FreeStep, Check, Fetch, Refetch, UnsetRead, AddFetch, AddStore,
          GetPref, Decide, Recheck, UnsetWrite, SetRead, SetWrite, Publish, PublishFails, Subscribe,
          SubscribeFails, StoreSub, FetchSub, Cancel, DeleteSub
    <3> QED
      BY <3>1, LoopMaps
  <2>3. CASE pc[c] \notin {"idle", "next"} /\ cur[c] \notin OwnIDs
    BY <1>1, <2>3, AwayMaps
  <2>4. CASE pc[c] \notin {"idle", "next"} /\ cur[c] \in OwnIDs
    BY <1>1, <2>4, LoopMaps, LookMaps, ListMaps, TopicMaps DEF ClientStep, LockStep, FreeStep
  <2> QED
    BY <2>2, <2>3, <2>4
<1>2. ASSUME Listening' = Listening, UNCHANGED <<subs, pc, op, todo, cur, table>>
      PROVE  UNCHANGED OwnMembers!vars
  <2>1. UNCHANGED <<SubscribedShards, UnlistedTodo, LateShards, BusyClients, OwnIDs>>
    BY <1>2 DEF SubscribedShards, IsCollationSubscribed, BusyClients, UnlistedTodo, LateShards,
       Unlisted, Unfollowed, OwnIDs, LoneShards
  <2> QED
    BY <1>2, <2>1 DEF OwnMembers!vars, OwnListed, OwnSubscribed, OwnTodo, OwnLate
<1>3. ASSUME NEW r \in Refs, Echo(r) \/ EchoDropped(r) PROVE UNCHANGED OwnMembers!vars
  BY <1>2, <1>3, EchoStep DEF sub, call
<1>4. CASE UNCHANGED vars
  BY <1>2, <1>4 DEF vars, mem, sub, call, Listening
<1> QED
  BY <1>1, <1>3, <1>4 DEF Next, ClientStep

\* For every number of clients, shards and requests, on a node with one entry:
\* what is seen of the shards that are alone in their byte are the steps of
\* Membership, whatever happens in the other bytes and whichever calls of
\* Publish and Subscribe fail.
THEOREM LocalMembership == OneEntry => (Spec => OwnMembers!Spec)
<1> SUFFICES ASSUME OneEntry PROVE Spec => OwnMembers!Spec
  OBVIOUS
<1>1. Init => Once
  BY DEF Init, Once
<1>2. TypeInv => TypeOK
  BY DEF TypeInv
<1> QED
  BY <1>1, <1>2, OnceStep, TypeInit, TypeStep, DanglingInit, HandleStep, MemInit, MemStep,
     LocalInit, LocalStep, OwnMembersInit, OwnMembersStep, PTL
  DEF Spec, OwnMembers!Spec

-----------------------------------------------------------------------------
(* Isolated calls, for which every shard is lone. *)

\* Concurrent calls keep to themselves: no two clients ask for shards of one
\* byte, and all use one slice.
Separate ==
    /\ \A c, d \in Clients : c # d =>
          \A s \in ids(c), t \in ids(d) : s \div byteSize # t \div byteSize
    /\ OneEntry

\* And pubsub does not fail.
Isolated == Separate /\ MayFail = {}

LEMMA SeparateIsLone ==
    ASSUME Separate
    PROVE  OneEntry /\ LoneShards = Shards /\ OwnIDs = Nat
<1>1. ASSUME NEW s \in Shards, NEW c \in Clients, NEW d \in Clients,
             ids(c) \cap ByteOf(s) # {}, ids(d) \cap ByteOf(s) # {}
      PROVE  c = d
  BY <1>1 DEF Separate, ByteOf
<1>2. LoneShards = Shards
  BY <1>1 DEF LoneShards, Lone
<1>3. Shards \subseteq Nat
  BY NumShardsAssumption DEF Shards
<1> QED
  BY <1>2, <1>3 DEF Separate, OwnIDs

\* Calls that keep to themselves leave table, subscriptions and pubsub in
\* agreement: for every number of clients, shards and requests, as long as no
\* two clients ask for shards of one byte, the node's slice exists before a
\* second client appears, and pubsub does not fail.
THEOREM IsolatedAgreement == Isolated => (Spec => []ShardAgreement)
<1> SUFFICES ASSUME Isolated PROVE Spec => []ShardAgreement
  OBVIOUS
<1>1. OneEntry /\ PublishWorks /\ LoneShards = Shards
  BY SeparateIsLone DEF Isolated, PublishWorks
<1>2. LoneAgreement => ShardAgreement
  BY <1>1 DEF LoneAgreement, ShardAgreement, Isolated
<1> QED
  BY <1>1, <1>2, LocalAgreement, PTL

\* Under the same conditions a ListenShard that returned no error has its shard
\* in the list and a subscription for it, until its caller goes on.
THEOREM IsolatedListen == Isolated => (Spec => []NilMeansListening)
<1> SUFFICES ASSUME Isolated PROVE Spec => []NilMeansListening
  OBVIOUS
<1>1. OneEntry /\ PublishWorks /\ LoneShards = Shards
  BY SeparateIsLone DEF Isolated, PublishWorks
<1>2. LoneListen => NilMeansListening
  BY <1>1 DEF LoneListen, NilMeansListening, Isolated
<1> QED
  BY <1>1, <1>2, LocalListen, PTL

\* Nothing is left out when every id is some client's own.
AllOwn == /\ OwnListed = Listening /\ OwnSubscribed = SubscribedShards
          /\ OwnTodo = UnlistedTodo /\ OwnLate = LateShards

LEMMA OwnIsAll ==
    ASSUME Separate, TypeInv, Once
    PROVE  AllOwn
<1>0. OwnIDs = Nat /\ Shards \subseteq Nat
  BY SeparateIsLone, NumShardsAssumption DEF Shards
<1>1. Listening \subseteq Nat /\ SubscribedShards \subseteq Nat
  BY <1>0 DEF TypeInv, TypeOK, Listening, SubscribedShards
<1>2. ASSUME NEW c \in Clients
      PROVE  UnlistedTodo[c] \subseteq Nat /\ LateShards[c] \subseteq Nat
  BY <1>0, <1>2 DEF Once, UnlistedTodo, LateShards, Unlisted, Unfollowed, TypeInv, TypeOK
<1>3. OwnTodo = UnlistedTodo
  BY <1>0, <1>2 DEF OwnTodo, UnlistedTodo
<1>4. OwnLate = LateShards
  BY <1>0, <1>2 DEF OwnLate, LateShards
<1> QED
  BY <1>0, <1>1, <1>3, <1>4 DEF AllOwn, OwnListed, OwnSubscribed

\* For every number of clients, shards and requests: calls that keep to
\* themselves, with their twenty steps per shard, are seen from outside as the
\* calls of Membership, whether or not pubsub fails.
THEOREM SeparateMembership == Separate => (Spec => ImplementsMembership)
<1> SUFFICES ASSUME Separate PROVE Spec => ImplementsMembership
  OBVIOUS
<1>1. OneEntry
  BY SeparateIsLone
<1>2. Init => Once
  BY DEF Init, Once
<1>3. TypeInv => TypeOK
  BY DEF TypeInv
<1>4. TypeInv /\ Once => AllOwn
  BY OwnIsAll
<1>5. AllOwn /\ OwnMembers!Init => Members!Init
  BY DEF AllOwn, OwnMembers!Init, Members!Init
<1>6. ASSUME AllOwn, AllOwn', [OwnMembers!Next]_(OwnMembers!vars)
      PROVE  [Members!Next]_(Members!vars)
  <2>0. OwnRequests = Requests
    <3>1. ASSUME NEW c \in Clients PROVE {b \cap Nat : b \in Requests[c]} = Requests[c]
      BY RequestsAssumption
    <3> QED
      BY <3>1, SeparateIsLone, RequestsAssumption DEF OwnRequests
  <2>1. /\ OwnListed = Listening /\ OwnSubscribed = SubscribedShards
        /\ OwnTodo = UnlistedTodo /\ OwnLate = LateShards
        /\ OwnListed' = Listening' /\ OwnSubscribed' = SubscribedShards'
        /\ OwnTodo' = UnlistedTodo' /\ OwnLate' = LateShards'
    BY <1>6 DEF AllOwn
  <2>2. ASSUME NEW c, NEW s, OwnMembers!Handle(c, s) PROVE Members!Handle(c, s)
    BY <2>1, <2>2
    DEF OwnMembers!Handle, OwnMembers!PassOver, OwnMembers!List, OwnMembers!Follow,
        OwnMembers!Abandon, OwnMembers!Idle, OwnMembers!Change, OwnMembers!Asks, Members!Handle,
        Members!PassOver, Members!List, Members!Follow, Members!Abandon, Members!Idle,
        Members!Change, Members!Asks
  <2>3. ASSUME NEW c, NEW o, NEW b, OwnMembers!Begin(c, o, b) PROVE Members!Begin(c, o, b)
    BY <2>1, <2>3 DEF OwnMembers!Begin, Members!Begin
  <2>4. ASSUME NEW c, OwnMembers!End(c) PROVE Members!End(c)
    BY <2>1, <2>4 DEF OwnMembers!End, Members!End
  <2>5. UNCHANGED OwnMembers!vars => UNCHANGED Members!vars
    BY <2>1 DEF OwnMembers!vars, Members!vars
  <2> QED
    BY <1>6, <2>0, <2>1, <2>2, <2>3, <2>4, <2>5 DEF OwnMembers!Next, Members!Next
<1> QED
  BY <1>1, <1>2, <1>3, <1>4, <1>5, <1>6, OnceStep, TypeInit, TypeStep, LocalMembership, PTL
  DEF Spec, ImplementsMembership, Members!Spec, OwnMembers!Spec
=============================================================================
