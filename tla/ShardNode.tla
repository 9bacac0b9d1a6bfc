------------------------------ MODULE ShardNode ------------------------------
(***************************************************************************)
(* One node's shard subscriptions under concurrent RPC calls.              *)
(*                                                                         *)
(* Every SubscribeShard / UnsubscribeShard RPC runs in a goroutine of its  *)
(* own and calls ShardManager.ListenShard / UnlistenShard for each shard   *)
(* of the request.  A call changes three places that no lock spans:        *)
(*   - the node's own entry in ShardPrefTable, a pointer to a byte slice   *)
(*     that the announcements in flight share with the table;              *)
(*   - the map subs of collation subscriptions;                            *)
(*   - the pubsub service, where a live subscription joins the topic.      *)
(* A step of this module is what happens between two points where another  *)
(* goroutine can be seen: a lock held briefly is one step, a memory access *)
(* outside any lock is one step, a byte's |= is a read and a write.        *)
(*                                                                         *)
(* A byte slice is represented by the set of shards whose bit is 1, which  *)
(* module ListeningShards shows to be sound; the byte of a shard remains   *)
(* the unit of reading and writing.                                        *)
(***************************************************************************)
EXTENDS Integers, FiniteSets

CONSTANTS
    numShards,    \* main.go: 100
    Clients,      \* RPC goroutines
    Requests,     \* Requests[c]: the sets of shard ids c may ask for
    SubIDs,       \* (bound) pubsub subscription handles
    MaxInflight,  \* (bound) announcements per slice not yet echoed to the node
    Warm,         \* the node has listened to and left some shard before
    MayFail,      \* which calls into pubsub may fail: "publish", "subscribe"
    BootRef,      \* the slice in the table of a warm node
    Nil

byteSize == 8

ASSUME NumShardsAssumption == numShards \in Nat \ {0}

ASSUME RequestsAssumption ==
    Requests \in [Clients -> SUBSET (SUBSET Nat)]

ASSUME NilAssumption ==
    /\ Nil \notin Clients \cup {BootRef}
    /\ Nil \notin SubIDs
    /\ Nil \notin Nat
    /\ BootRef \notin Clients

ASSUME BoundsAssumption == MaxInflight \in Nat \ {0} /\ Warm \in BOOLEAN

Shards == 0 .. numShards - 1

\* Ids a request may name; the ones >= numShards are refused by setShard.
ids(c) == UNION Requests[c]

\* (mutant) the whole slice is read and written back
ByteOf_Slice(s) == Shards

\* The shards kept in the same byte as s.
ByteOf(s) == {t \in Shards : t \div byteSize = s \div byteSize}

\* A slice is named after the client that allocated it: a client allocates only
\* while the table has no entry, so it never has two slices anyone else can see.
Refs == Clients \cup {BootRef}

VARIABLES
    heap,      \* heap[r]: the shards whose bit is 1 in slice r
    table,     \* shardPrefMap[self]: the slice in use, or Nil
    inflight,  \* inflight[r]: own announcements still to be echoed, sharing r
    subs,      \* subs[s]: the handle in ShardManager.subs, or Nil
    live,      \* live[x]: the topic handle x is subscribed to in pubsub, or Nil
    pc,        \* pc[c]: the next step of c
    op,        \* op[c]: "listen" or "unlisten"
    todo,      \* todo[c]: shards of the request not handled yet
    cur,       \* cur[c]: the shard being handled
    ptr,       \* ptr[c]: a slice fetched from the table under the read lock
    byt,       \* byt[c]: a byte read from a slice and about to be written back
    held,      \* held[c]: a handle returned by Subscribe or read from subs
    ok         \* ok[c]: the last ListenShard / UnlistenShard returned no error

mem == <<heap, table, inflight>>
sub == <<subs, live, held>>
call == <<op, todo, cur>>
vars == <<mem, sub, call, pc, ptr, byt, ok>>

-----------------------------------------------------------------------------
Init ==
    /\ heap = [r \in Refs |-> {}]
    /\ table = IF Warm THEN BootRef ELSE Nil
    /\ inflight = [r \in Refs |-> 0]
    /\ subs = [s \in Shards |-> Nil]
    /\ live = [x \in SubIDs |-> Nil]
    /\ pc = [c \in Clients |-> "idle"]
    /\ op = [c \in Clients |-> "listen"]
    /\ todo = [c \in Clients |-> {}]
    /\ cur = [c \in Clients |-> Nil]
    /\ ptr = [c \in Clients |-> Nil]
    /\ byt = [c \in Clients |-> {}]
    /\ held = [c \in Clients |-> Nil]
    /\ ok = [c \in Clients |-> TRUE]

Goto(c, l) == pc' = [pc EXCEPT ![c] = l]

\* ListenShard or UnlistenShard returns to the loop of the RPC handler.
Return(c, noErr) == Goto(c, "next") /\ ok' = [ok EXCEPT ![c] = noErr]

\* The table's write lock is held while unsetShard runs; every other critical
\* section of the table is one step, taken when the lock is free.
Locked == \E c \in Clients : pc[c] = "unset"

\* What GetPeerListeningShardSlice(self) returns.
Listening == IF table = Nil THEN {} ELSE heap[table]

\* Handles nobody refers to.
FreeSubs == {x \in SubIDs : /\ live[x] = Nil
                            /\ \A s \in Shards : subs[s] # x
                            /\ \A c \in Clients : held[c] # x}

-----------------------------------------------------------------------------
(* The RPC handlers: a loop over the shards of the request. *)

Accept(c, o, b) ==
    /\ pc[c] = "idle"
    /\ todo' = [todo EXCEPT ![c] = b]
    /\ op' = [op EXCEPT ![c] = o]
    /\ Goto(c, "next")
    /\ UNCHANGED <<mem, sub, cur, ptr, byt, ok>>

\* (bound) started only while handles are left for every request under way.
SubscribeShard(c, b) ==
    /\ \A d \in Clients : \A e \in Requests[d] :
          Cardinality(FreeSubs) >= Cardinality(Clients) * Cardinality(e)
    /\ Accept(c, "listen", b)

UnsubscribeShard(c, b) == Accept(c, "unlisten", b)

\* (mutant) the loop does not advance
NextShard_Repeats(c) ==
    /\ pc[c] = "next"
    /\ \E s \in todo[c] : cur' = [cur EXCEPT ![c] = s]
    /\ Goto(c, "check")
    /\ UNCHANGED <<mem, sub, op, todo, ptr, byt, ok>>

NextShard(c) ==
    /\ pc[c] = "next"
    /\ \E s \in todo[c] :
          /\ cur' = [cur EXCEPT ![c] = s]
          /\ todo' = [todo EXCEPT ![c] = @ \ {s}]
    /\ Goto(c, "check")
    /\ UNCHANGED <<mem, sub, op, ptr, byt, ok>>

\* The handlers log the shards that failed and return success in any case.
EndCall(c) ==
    /\ pc[c] = "next"
    /\ todo[c] = {}
    /\ Goto(c, "idle")
    /\ cur' = [cur EXCEPT ![c] = Nil]
    /\ ok' = [ok EXCEPT ![c] = TRUE]
    /\ UNCHANGED <<mem, sub, op, todo, ptr, byt>>

-----------------------------------------------------------------------------
(* ListenShard and UnlistenShard: IsShardListened, then Advertise. *)

\* (mutant) the list is not looked at first
Check_Omitted(c) ==
    /\ pc[c] = "check"
    /\ ~Locked
    /\ Goto(c, "fetch")
    /\ UNCHANGED <<mem, sub, call, ptr, byt, ok>>

Check(c) ==
    /\ pc[c] = "check"
    /\ ~Locked
    /\ IF (cur[c] \in Listening) <=> (op[c] = "listen")
         THEN Return(c, TRUE)
         ELSE Goto(c, "fetch") /\ UNCHANGED ok
    /\ UNCHANGED <<mem, sub, call, ptr, byt>>

\* (mutant) isPeerRecorded is not asked first
Fetch_Unrecorded(c) ==
    /\ pc[c] = "fetch"
    /\ ~Locked
    /\ ptr' = [ptr EXCEPT ![c] = table]
    /\ Goto(c, "decide")
    /\ UNCHANGED <<mem, sub, call, byt, ok>>

\* IsPeerListeningShard gets the pointer under the read lock ...
Fetch(c) ==
    /\ pc[c] = "fetch"
    /\ ~Locked
    /\ ptr' = [ptr EXCEPT ![c] = table]
    /\ Goto(c, IF table = Nil THEN "addfetch" ELSE "decide")
    /\ UNCHANGED <<mem, sub, call, byt, ok>>

\* ... and looks at the bit without it.  Advertise toggles: it removes a shard
\* that is listened to and adds one that is not, whoever is calling.
Decide(c) ==
    /\ pc[c] = "decide"
    /\ Goto(c, IF cur[c] \in heap[ptr[c]] THEN "refetch" ELSE "addfetch")
    /\ UNCHANGED <<mem, sub, call, ptr, byt, ok>>

-----------------------------------------------------------------------------
(* RemovePeerListeningShard *)

Refetch(c) ==
    /\ pc[c] = "refetch"
    /\ ~Locked
    /\ ptr' = [ptr EXCEPT ![c] = table]
    /\ Goto(c, "recheck")
    /\ UNCHANGED <<mem, sub, call, byt, ok>>

Recheck(c) ==
    /\ pc[c] = "recheck"
    /\ Goto(c, IF cur[c] \in heap[ptr[c]] THEN "lock" ELSE "getpref")
    /\ UNCHANGED <<mem, sub, call, ptr, byt, ok>>

\* Takes the write lock, looks the entry up again and reads the byte.
UnsetRead(c) ==
    /\ pc[c] = "lock"
    /\ ~Locked
    /\ ptr' = [ptr EXCEPT ![c] = table]
    /\ byt' = [byt EXCEPT ![c] = heap[table] \cap ByteOf(cur[c])]
    /\ Goto(c, "unset")
    /\ UNCHANGED <<mem, sub, call, ok>>

WriteByte(c, b) ==
    heap' = [heap EXCEPT ![ptr[c]] = (@ \ ByteOf(cur[c])) \cup b]

\* Writes the byte back and releases the lock.
UnsetWrite(c) ==
    /\ pc[c] = "unset"
    /\ WriteByte(c, byt[c] \ {cur[c]})
    /\ byt' = [byt EXCEPT ![c] = {}]
    /\ Goto(c, "getpref")
    /\ UNCHANGED <<table, inflight, sub, call, ptr, ok>>

-----------------------------------------------------------------------------
(* AddPeerListeningShard *)

\* Takes the slice in the table, or a new one when there is none.
AddFetch(c) ==
    /\ pc[c] = "addfetch"
    /\ ~Locked
    /\ IF table = Nil
         THEN /\ ptr' = [ptr EXCEPT ![c] = c]
              /\ heap' = [heap EXCEPT ![c] = {}]
         ELSE /\ ptr' = [ptr EXCEPT ![c] = table]
              /\ UNCHANGED heap
    /\ Goto(c, "setread")
    /\ UNCHANGED <<table, inflight, sub, call, byt, ok>>

\* (mutant) the id is not checked against numShards
SetRead_NoLimit(c) ==
    /\ pc[c] = "setread"
    /\ byt' = [byt EXCEPT ![c] = heap[ptr[c]] \cap ByteOf(cur[c])]
    /\ Goto(c, "setwrite")
    /\ UNCHANGED <<mem, sub, call, ptr, ok>>

\* setShard runs without the lock: it refuses an id that is too large, else
\* reads the byte ...
SetRead(c) ==
    /\ pc[c] = "setread"
    /\ IF cur[c] \in Shards
         THEN /\ byt' = [byt EXCEPT ![c] = heap[ptr[c]] \cap ByteOf(cur[c])]
              /\ Goto(c, "setwrite")
              /\ UNCHANGED <<ptr, ok>>
         ELSE /\ Return(c, FALSE)
              /\ ptr' = [ptr EXCEPT ![c] = Nil]
              /\ UNCHANGED byt
    /\ UNCHANGED <<mem, sub, call>>

\* ... and writes it back with one more bit.
SetWrite(c) ==
    /\ pc[c] = "setwrite"
    /\ WriteByte(c, byt[c] \cup {cur[c]})
    /\ byt' = [byt EXCEPT ![c] = {}]
    /\ Goto(c, "addstore")
    /\ UNCHANGED <<table, inflight, sub, call, ptr, ok>>

AddStore(c) ==
    /\ pc[c] = "addstore"
    /\ ~Locked
    /\ table' = ptr[c]
    /\ Goto(c, "getpref")
    /\ UNCHANGED <<heap, inflight, sub, call, ptr, byt, ok>>

-----------------------------------------------------------------------------
(* The rest of Advertise: publish the slice that is now in the table. *)

GetPref(c) ==
    /\ pc[c] = "getpref"
    /\ ~Locked
    /\ ptr' = [ptr EXCEPT ![c] = table]
    /\ Goto(c, "publish")
    /\ UNCHANGED <<mem, sub, call, byt, ok>>

\* toBytes does not copy: the message holds the slice itself.
Publish(c) ==
    /\ pc[c] = "publish"
    /\ inflight[ptr[c]] < MaxInflight
    /\ inflight' = [inflight EXCEPT ![ptr[c]] = @ + 1]
    /\ Goto(c, IF op[c] = "listen" THEN "subscribe" ELSE "fetchsub")
    /\ ptr' = [ptr EXCEPT ![c] = Nil]
    /\ UNCHANGED <<heap, table, sub, call, byt, ok>>

PublishFails(c) ==
    /\ pc[c] = "publish"
    /\ "publish" \in MayFail
    /\ Return(c, FALSE)
    /\ ptr' = [ptr EXCEPT ![c] = Nil]
    /\ UNCHANGED <<mem, sub, call, byt>>

\* (mutant) the handler stores a new value without fromBytes
Echo_Empty(r) ==
    /\ inflight[r] > 0
    /\ ~Locked
    /\ inflight' = [inflight EXCEPT ![r] = @ - 1]
    /\ table' = r
    /\ heap' = [heap EXCEPT ![r] = {}]
    /\ UNCHANGED <<sub, call, pc, ptr, byt, ok>>

\* pubsub hands the node its own message, not serialised; makeShardPrefHandler
\* then makes the slice in it the node's table entry.
Echo(r) ==
    /\ inflight[r] > 0
    /\ ~Locked
    /\ inflight' = [inflight EXCEPT ![r] = @ - 1]
    /\ table' = r
    /\ UNCHANGED <<heap, sub, call, pc, ptr, byt, ok>>

\* pubsub drops a message when the subscriber's buffer is full.
EchoDropped(r) ==
    /\ inflight[r] > 0
    /\ inflight' = [inflight EXCEPT ![r] = @ - 1]
    /\ UNCHANGED <<heap, table, sub, call, pc, ptr, byt, ok>>

-----------------------------------------------------------------------------
(* SubscribeTopic and UnsubscribeTopic for the collations of cur[c]. *)

Subscribe(c) ==
    /\ pc[c] = "subscribe"
    /\ \E x \in FreeSubs :
          /\ live' = [live EXCEPT ![x] = cur[c]]
          /\ held' = [held EXCEPT ![c] = x]
    /\ Goto(c, "storesub")
    /\ UNCHANGED <<mem, subs, call, ptr, byt, ok>>

SubscribeFails(c) ==
    /\ pc[c] = "subscribe"
    /\ "subscribe" \in MayFail
    /\ Return(c, FALSE)
    /\ UNCHANGED <<mem, sub, call, ptr, byt>>

\* (mutant) the handle is not stored
StoreSub_Forgets(c) ==
    /\ pc[c] = "storesub"
    /\ held' = [held EXCEPT ![c] = Nil]
    /\ Return(c, TRUE)
    /\ UNCHANGED <<mem, subs, live, call, ptr, byt>>

StoreSub(c) ==
    /\ pc[c] = "storesub"
    /\ subs' = [subs EXCEPT ![cur[c]] = held[c]]
    /\ held' = [held EXCEPT ![c] = Nil]
    /\ Return(c, TRUE)
    /\ UNCHANGED <<mem, live, call, ptr, byt>>

FetchSub(c) ==
    /\ pc[c] = "fetchsub"
    /\ IF subs[cur[c]] = Nil
         THEN Return(c, TRUE) /\ UNCHANGED held
         ELSE /\ held' = [held EXCEPT ![c] = subs[cur[c]]]
              /\ Goto(c, "cancel")
              /\ UNCHANGED ok
    /\ UNCHANGED <<mem, subs, live, call, ptr, byt>>

\* (mutant) the entry is left in subs
Cancel_KeepsEntry(c) ==
    /\ pc[c] = "cancel"
    /\ live' = [live EXCEPT ![held[c]] = Nil]
    /\ held' = [held EXCEPT ![c] = Nil]
    /\ Return(c, TRUE)
    /\ UNCHANGED <<mem, subs, call, ptr, byt>>

Cancel(c) ==
    /\ pc[c] = "cancel"
    /\ live' = [live EXCEPT ![held[c]] = Nil]
    /\ Goto(c, "deletesub")
    /\ UNCHANGED <<mem, subs, held, call, ptr, byt, ok>>

\* delete(n.subs, topic), whatever the entry holds by now.
DeleteSub(c) ==
    /\ pc[c] = "deletesub"
    /\ subs' = [subs EXCEPT ![cur[c]] = Nil]
    /\ held' = [held EXCEPT ![c] = Nil]
    /\ Return(c, TRUE)
    /\ UNCHANGED <<mem, live, call, ptr, byt>>

-----------------------------------------------------------------------------
\* Steps that wait for the table's lock.
LockStep(c) == \/ Check(c) \/ Fetch(c) \/ Refetch(c) \/ UnsetRead(c)
               \/ AddFetch(c) \/ AddStore(c) \/ GetPref(c)

\* Steps that do not.
FreeStep(c) == \/ NextShard(c) \/ EndCall(c) \/ Decide(c) \/ Recheck(c)
               \/ UnsetWrite(c) \/ SetRead(c) \/ SetWrite(c)
               \/ Publish(c) \/ PublishFails(c)
               \/ Subscribe(c) \/ SubscribeFails(c) \/ StoreSub(c)
               \/ FetchSub(c) \/ Cancel(c) \/ DeleteSub(c)

Next == \/ \E c \in Clients :
              \/ \E b \in Requests[c] : SubscribeShard(c, b) \/ UnsubscribeShard(c, b)
              \/ LockStep(c)
              \/ FreeStep(c)
        \/ \E r \in Refs : Echo(r) \/ EchoDropped(r)

Spec == Init /\ [][Next]_vars

\* A goroutine that can run does run.  Go's RWMutex starves nobody and a channel
\* serves blocked senders in turn, so a step that waits for the table's lock or
\* for room in pubsub is taken if it is possible again and again.  The consumer
\* of the listeningShard topic runs for as long as the node does.
Fairness == /\ \A c \in Clients : /\ WF_vars(FreeStep(c))
                                  /\ SF_vars(LockStep(c))
                                  /\ SF_vars(Publish(c))
            /\ \A r \in Refs : SF_vars(Echo(r))

FairSpec == Spec /\ Fairness

-----------------------------------------------------------------------------
(* Properties *)

Labels == {"idle", "next", "check", "fetch", "decide", "refetch", "recheck",
           "lock", "unset", "addfetch", "setread", "setwrite", "addstore",
           "getpref", "publish", "subscribe", "storesub", "fetchsub", "cancel",
           "deletesub"}

\* Every variable has its type.
TypeOK ==
    /\ heap \in [Refs -> SUBSET Shards]
    /\ table \in Refs \cup {Nil}
    /\ inflight \in [Refs -> Nat]
    /\ subs \in [Shards -> SubIDs \cup {Nil}]
    /\ live \in [SubIDs -> Shards \cup {Nil}]
    /\ pc \in [Clients -> Labels]
    /\ op \in [Clients -> {"listen", "unlisten"}]
    /\ todo \in [Clients -> SUBSET Nat]
    /\ cur \in [Clients -> Nat \cup {Nil}]
    /\ ptr \in [Clients -> Refs \cup {Nil}]
    /\ byt \in [Clients -> SUBSET Shards]
    /\ held \in [Clients -> SubIDs \cup {Nil}]
    /\ ok \in [Clients -> BOOLEAN]

\* A step that follows the pointer it fetched from the table finds a slice, one
\* that uses a handle holds one, and one that touches subs does so for a legal
\* shard: none of the unchecked dereferences of AddPeerListeningShard,
\* RemovePeerListeningShard, Advertise and UnsubscribeTopic meets a nil.
NoNilDereference ==
    \A c \in Clients :
        /\ pc[c] \in {"decide", "recheck", "setread", "setwrite", "addstore",
                      "unset", "publish"} => ptr[c] # Nil
        /\ pc[c] \in {"decide", "refetch", "recheck", "lock", "unset", "getpref",
                      "publish"}
              => table # Nil
        /\ pc[c] \in {"storesub", "cancel"} => held[c] # Nil
        /\ pc[c] \in {"refetch", "recheck", "lock", "unset", "setwrite", "addstore",
                      "getpref", "publish", "subscribe", "storesub", "fetchsub",
                      "cancel", "deletesub"} => cur[c] \in Shards

\* No call is working on shard s.
Quiet(s) == \A c \in Clients : pc[c] \in {"idle", "next"} \/ cur[c] # s

IsShardListened(s) == s \in Listening
IsCollationSubscribed(s) == subs[s] # Nil

\* What the table, the map of subscriptions and pubsub say of s agrees: the
\* node listens to s exactly when subs holds a handle for it, that handle is
\* subscribed to the shard's topic, and no other handle is.
Agree(s) ==
    /\ IsShardListened(s) <=> IsCollationSubscribed(s)
    /\ IsCollationSubscribed(s) => live[subs[s]] = s
    /\ \A x \in SubIDs : live[x] = s => subs[s] = x

\* TestListenShard's assertions, at every moment at which no call is working on
\* the shard and not only after one call on an idle node: IsShardListened,
\* IsCollationSubscribed and membership of the topic say the same.
ShardAgreement == \A s \in Shards : Quiet(s) => Agree(s)

\* subs never holds a handle that pubsub has cancelled, except between the two
\* steps of an UnsubscribeTopic that is about to delete it, and never a handle
\* of another shard's topic.
NoDanglingSub ==
    \A s \in Shards : subs[s] # Nil =>
        \/ live[subs[s]] = s
        \/ /\ live[subs[s]] = Nil
           /\ \E c \in Clients : /\ pc[c] = "deletesub"
                                 /\ cur[c] = s
                                 /\ held[c] = subs[s]

\* A ListenShard that returned no error has done its work: TestListenShard calls
\* it twice and then expects the shard to be listened to and subscribed.
NilMeansListening ==
    \A c \in Clients :
        /\ pc[c] = "next" /\ ok[c] /\ op[c] = "listen" /\ cur[c] \in Shards
        => IsShardListened(cur[c]) /\ IsCollationSubscribed(cur[c])

\* Handling the node's own announcement does not change the shards it listens
\* to, although the message was published some steps ago and the table has
\* changed since: the bytes are shared, not copied.
EchoChangesNothing ==
    [][\A r \in Refs : Echo(r) => Listening' = Listening]_vars

\* The shard c is working on, while the list does not show the outcome yet.  A
\* bit written into a slice that is not in the table cannot be seen.
Unlisted(c) ==
    IF \/ pc[c] \in {"check", "fetch", "decide", "refetch", "recheck", "lock", "unset",
                     "addfetch", "setread", "setwrite"}
       \/ pc[c] = "addstore" /\ table = Nil
    THEN {cur[c]} ELSE {}

\* The shard whose place in the list c has changed, until subs follows.
Unfollowed(c) ==
    IF \/ pc[c] \in {"getpref", "publish", "subscribe", "storesub", "fetchsub", "cancel",
                     "deletesub"}
       \/ pc[c] = "addstore" /\ table # Nil
    THEN {cur[c]} ELSE {}

SubscribedShards == {s \in Shards : IsCollationSubscribed(s)}
BusyClients == {c \in Clients : pc[c] # "idle"}
UnlistedTodo == [c \in Clients |-> todo[c] \cup Unlisted(c)]
LateShards == [c \in Clients |-> Unfollowed(c)]

Members == INSTANCE Membership WITH
    listed <- Listening, subscribed <- SubscribedShards, busy <- BusyClients,
    todo <- UnlistedTodo, late <- LateShards

\* Seen from outside, the calls of SubscribeShard and UnsubscribeShard, some
\* twenty steps per shard, are those of Membership: nobody sees a shard appear,
\* vanish and reappear, a neighbour's change undone, or, unless pubsub has failed,
\* a subscription without its place in the list.
ImplementsMembership == Members!Spec

\* Every call returns: no goroutine waits for ever for the lock or for pubsub.
CallsReturn == \A c \in Clients : (pc[c] # "idle") ~> (pc[c] = "idle")
=============================================================================
