-------------------------------- MODULE Session --------------------------------
(***************************************************************************)
(* Command line clients and the server they talk to: every invocation of   *)
(* the program with -client (main and runClient in main.go, cli.go) is a   *)
(* process that checks its arguments, makes one RPC and exits with status  *)
(* 0 or 1; the server (Lifecycle) may be starting, stopping or gone.       *)
(*                                                                         *)
(* The handlers in rpcserver.go run concurrently.  What SubscribeShard and *)
(* UnsubscribeShard do to the node, the failures they swallow included, is *)
(* Membership, which ShardNode is shown to implement                       *)
(* (ShardNode_proofs!SeparateMembership) on a node that has its entry in   *)
(* the table, where, as the assumption on the command lines says,          *)
(* different callers name shards that are kept in different bytes.         *)
(***************************************************************************)
EXTENDS Lifecycle, Sequences

CONSTANTS Shards,    \* legal shard ids
          Lines,     \* Lines[c]: the command lines c may run
          Number,    \* the number an argument stands for, where it does
          PeerIDs,   \* arguments that are peer ids
          Bootnodes, \* arguments that are lists of multiaddresses
          MayFail,   \* which calls into pubsub may fail: "publish", "subscribe"
          MaxStops   \* (bound) calls of StopServer that overlap

VARIABLES
    cli,         \* cli[c]: "calling", "waiting", or how the process ended
    line,        \* line[c]: its command line, while it can still matter
    listed,      \* the shards in the node's preference
    subscribed,  \* the shards in ShardManager.subs
    todo,        \* todo[c]: shards a (un)subscribing call has still to handle
    late,        \* late[c]: its shard whose subscription has to follow
    scan,        \* scan[c]: shards getShards has still to look at
    shown,       \* shown[c]: shards it has found
    left,        \* left[c]: collations still to broadcast
    halfway,     \* (history) shards whose last change pubsub let down
    ever,        \* (history) what c asks about was true at some moment of its call
    always       \* (history) ... and at every moment of it

nodeVars == <<listed, subscribed, todo, late>>
readVars == <<scan, shown, left>>
histVars == <<halfway, ever, always>>
cliVars == <<cli, line>>
vars == <<lifeVars, cliVars, nodeVars, readVars, histVars>>

-----------------------------------------------------------------------------
(* Command lines *)

IsInt(a) == a \in DOMAIN Number
AllInts(as) == \A i \in DOMAIN as : IsInt(as[i])
Cmd(l) == l[1]
Args(l) == Tail(l)

doAddPeer(as) == Len(as) = 3 /\ IsInt(as[2]) /\ IsInt(as[3])
doDiscover(as) == AllInts(as)
doSubShard(as) == Len(as) > 1 /\ AllInts(as) /\ Number[as[1]] >= 0
doUnsubShard(as) == Len(as) > 0 /\ AllInts(as)
doBroadcastCollation(as) == Len(as) = 4 /\ AllInts(as)
doListShardPeer(as) == AllInts(as)
doRemovePeer(as) == Len(as) = 1 /\ as[1] \in PeerIDs
doBootstrap(as) == Len(as) \in {1, 2} /\ as[1] \in {"start", "stop"}

\* Commands that look at no argument, or at none that could be wrong.
Plain == {"identify", "getsubshard", "stop", "listpeer", "listtopicpeer"}

\* runClient finds the command and its arguments in order.
runClient(l) ==
    /\ l # << >>
    /\ \/ Cmd(l) \in Plain
       \/ Cmd(l) = "addpeer" /\ doAddPeer(Args(l))
       \/ Cmd(l) = "discovershard" /\ doDiscover(Args(l))
       \/ Cmd(l) = "subshard" /\ doSubShard(Args(l))
       \/ Cmd(l) = "unsubshard" /\ doUnsubShard(Args(l))
       \/ Cmd(l) = "broadcastcollation" /\ doBroadcastCollation(Args(l))
       \/ Cmd(l) = "listshardpeer" /\ doListShardPeer(Args(l))
       \/ Cmd(l) = "removepeer" /\ doRemovePeer(Args(l))
       \/ Cmd(l) = "bootstrap" /\ doBootstrap(Args(l))

Ints(as) == {Number[as[i]] : i \in DOMAIN as}

\* The shards of a subshard or unsubshard; subshard's first argument is
\* numShardPeerToConnect.
Named(l) ==
    CASE Cmd(l) = "subshard" -> Ints(Tail(Args(l)))
      [] Cmd(l) = "unsubshard" -> Ints(Args(l))
      [] OTHER -> {}

\* shardID, numCollations and collationSize of a broadcastcollation.
ShardArg(l) == Number[l[2]]
NumberArg(l) == Number[l[3]]
SizeArg(l) == Number[l[4]]

\* Shard ids to subscribe are not negative, and different callers name shards of
\* different bytes.
ASSUME LinesAssumption ==
    /\ Lines \in [Callers -> SUBSET Seq(STRING)]
    /\ Shards \subseteq Nat /\ MaxStops \in Nat
    /\ \A a \in DOMAIN Number : Number[a] \in Int
    /\ \A c, d \in Callers : \A l \in Lines[c], k \in Lines[d] : runClient(l) /\ runClient(k) =>
          /\ Named(l) \subseteq Nat
          /\ c # d => \A s \in Named(l), t \in Named(k) : s \div 8 # t \div 8

-----------------------------------------------------------------------------
Init ==
    /\ LifeInit
    /\ cli = [c \in Callers |-> "none"]
    /\ line = [c \in Callers |-> << >>]
    /\ listed = {} /\ subscribed = {}
    /\ todo = [c \in Callers |-> {}]
    /\ late = [c \in Callers |-> {}]
    /\ scan = [c \in Callers |-> {}]
    /\ shown = [c \in Callers |-> {}]
    /\ left = [c \in Callers |-> 0]
    /\ halfway = {}
    /\ ever = [c \in Callers |-> {}]
    /\ always = [c \in Callers |-> {}]

\* The handler of command k is running for c.
Serving(c, k) == Running(c) /\ Cmd(line[c]) = k

Subscribing(c) == Serving(c, "subshard") \/ Serving(c, "unsubshard")

Node == INSTANCE Membership WITH
    Clients <- Callers,
    Requests <- [c \in Callers |-> {}],
    busy <- {c \in Callers : Subscribing(c)},
    op <- [c \in Callers |-> IF line[c] # << >> /\ Cmd(line[c]) = "subshard"
                               THEN "listen" ELSE "unlisten"]

-----------------------------------------------------------------------------
(* The client process *)

Ended(c) == cli[c] \notin {"calling", "waiting"}

\* main: a line that makes no sense is fatal, the version is printed without a
\* call.  (bounds) Nobody turns to a server that has been stopped, and while calls
\* of StopServer wait only stop is launched, up to MaxStops; a process launched
\* before may still call.
Launch(c, l) ==
    /\ Ended(c) /\ ~stopped
    /\ asleep > 0 => l # << >> /\ Cmd(l) = "stop" /\ asleep < MaxStops
    /\ line' = [line EXCEPT ![c] = IF runClient(l) THEN l ELSE << >>]
    /\ cli' = [cli EXCEPT ![c] = IF runClient(l) THEN "calling"
                                ELSE IF l # << >> /\ Cmd(l) = "version" THEN "none"
                                ELSE "usage"]
    /\ shown' = [shown EXCEPT ![c] = {}]
    /\ ever' = [ever EXCEPT ![c] = {}]
    /\ always' = [always EXCEPT ![c] = {}]
    /\ UNCHANGED <<lifeVars, nodeVars, scan, left, halfway>>

\* What c's command asks about, in terms of the node's two sets.
Asked(l, li, su) ==
    CASE Cmd(l) = "getsubshard" -> li
      [] Cmd(l) = "broadcastcollation" -> su \cap {ShardArg(l)}
      [] OTHER -> {}

\* callIdentify and the other functions that call have one shape: dial, send,
\* wait, and be fatal on an error or print the answer.  Dial does not wait, the
\* request goes out when the connection stands, and the server starts its handler.
Call(c) ==
    /\ cli[c] = "calling" /\ cli' = [cli EXCEPT ![c] = "waiting"]
    /\ Accept(c)
    /\ LET l == line[c] IN
         /\ todo' = [todo EXCEPT ![c] = Named(l)]
         /\ scan' = [scan EXCEPT ![c] = IF Cmd(l) = "getsubshard" THEN Shards ELSE {}]
         /\ left' = [left EXCEPT ![c] = IF Cmd(l) = "broadcastcollation" /\ NumberArg(l) > 0
                                          THEN NumberArg(l) ELSE 0]
         /\ ever' = [ever EXCEPT ![c] = Asked(l, listed, subscribed)]
         /\ always' = [always EXCEPT ![c] = Asked(l, listed, subscribed)]
    /\ UNCHANGED <<line, listed, subscribed, late, shown, halfway>>

\* A call fails at once when nothing listens at the address.
NoServer(c) ==
    /\ cli[c] = "calling" /\ ~Reachable
    /\ cli' = [cli EXCEPT ![c] = "lost"]
    /\ line' = [line EXCEPT ![c] = << >>]
    /\ UNCHANGED <<lifeVars, nodeVars, readVars, histVars>>

Exit(c, how) ==
    /\ cli[c] = "waiting" /\ cli' = [cli EXCEPT ![c] = how]
    /\ call' = [call EXCEPT ![c] = "idle"]
    /\ todo' = [todo EXCEPT ![c] = {}]
    /\ late' = [late EXCEPT ![c] = {}]
    /\ scan' = [scan EXCEPT ![c] = {}]
    /\ left' = [left EXCEPT ![c] = 0]
    /\ line' = IF how \in {"failed", "lost"} THEN [line EXCEPT ![c] = << >>] ELSE line
    /\ UNCHANGED <<main, catcher, asleep, stopped, sent, listed, subscribed, shown, histVars>>

\* The answer arrives: the process prints it and ends with status 0, or prints
\* the error, a refusal of BroadcastCollation or another, and ends with status 1.
Receive(c) == \/ call[c] = "ok" /\ Exit(c, "success")
              \/ call[c] = "refused" /\ Exit(c, "refused")
              \/ call[c] = "error" /\ Exit(c, "failed")

\* (mutant) a broken connection is no error
Disconnected_Success(c) == (call[c] = "cut" \/ Down) /\ Exit(c, "success")

\* (mutant) a server that died is not noticed
Disconnected_Waits(c) == call[c] = "cut" /\ Exit(c, "lost")

\* The connection breaks before the answer: status 1.  There is no deadline.
Disconnected(c) == (call[c] = "cut" \/ Down) /\ Exit(c, "lost")

-----------------------------------------------------------------------------
(* The handlers *)

\* getShards runs under the read lock, which keeps unsetShard out but not
\* setShard.
Scanning == \E c \in Callers : /\ Serving(c, "getsubshard")
                              /\ scan[c] # {} /\ scan[c] # Shards

\* History of the calls under way, when the node's sets have changed.
Observe ==
    LET now(c) == Asked(line[c], listed', subscribed') IN
    /\ ever' = [c \in Callers |-> IF Running(c) THEN ever[c] \cup now(c) ELSE ever[c]]
    /\ always' = [c \in Callers |-> IF Running(c) THEN always[c] \cap now(c) ELSE always[c]]

\* (mutant) the answer does not wait for the shards
SubscribeShard_Eager(c) ==
    /\ Subscribing(c) /\ Reply(c, "ok")
    /\ UNCHANGED <<cliVars, nodeVars, readVars, histVars>>

\* One step of ListenShard or UnlistenShard as others see it.  An error is logged
\* and swallowed: the loop goes on with the next shard.
HandleShard(c, s) ==
    \/ (Node!PassOver(c, s) \/ Node!List(c, s)) /\ UNCHANGED halfway
    \/ Node!Follow(c, s) /\ halfway' = halfway \ {s}
    \/ Node!Abandon(c, s) /\ halfway' = halfway \cup {s}

\* SubscribeShard and UnsubscribeShard: one shard after the other, and success
\* whatever became of them.
SubscribeShard(c) ==
    /\ Subscribing(c)
    /\ \/ /\ UNCHANGED <<lifeVars, cliVars, readVars>>
          /\ \E s \in todo[c] \cup late[c] : HandleShard(c, s)
          /\ listed \subseteq listed' \/ ~Scanning
          /\ Observe
       \/ /\ todo[c] = {} /\ late[c] = {} /\ Reply(c, "ok")
          /\ UNCHANGED <<cliVars, nodeVars, readVars, histVars>>

\* (mutant) the scan stops at the first shard that is not set
GetSubscribedShard_Stops(c) ==
    /\ Serving(c, "getsubshard")
    /\ IF scan[c] = {} THEN Reply(c, "ok") /\ UNCHANGED readVars
       ELSE LET s == CHOOSE t \in scan[c] : \A u \in scan[c] : t <= u IN
            /\ shown' = [shown EXCEPT ![c] = @ \cup ({s} \cap listed)]
            /\ scan' = [scan EXCEPT ![c] = IF s \in listed THEN @ \ {s} ELSE {}]
            /\ UNCHANGED <<lifeVars, left>>
    /\ UNCHANGED <<cliVars, nodeVars, histVars>>

\* GetSubscribedShard looks at one bit after the other.
GetSubscribedShard(c) ==
    /\ Serving(c, "getsubshard")
    /\ IF scan[c] = {} THEN Reply(c, "ok") /\ UNCHANGED readVars
       ELSE LET s == CHOOSE t \in scan[c] : \A u \in scan[c] : t <= u IN
            /\ shown' = [shown EXCEPT ![c] = @ \cup ({s} \cap listed)]
            /\ scan' = [scan EXCEPT ![c] = @ \ {s}]
            /\ UNCHANGED <<lifeVars, left>>
    /\ UNCHANGED <<cliVars, nodeVars, histVars>>

\* BroadcastCollation: a collation at a time, each only if the shard is
\* subscribed at that moment; the first that is not, or that pubsub does not
\* publish, ends the call.
BroadcastCollation(c) ==
    /\ Serving(c, "broadcastcollation")
    /\ \/ left[c] = 0 /\ Reply(c, "ok") /\ UNCHANGED left
       \/ /\ left[c] > 0 /\ SizeArg(line[c]) >= 0
          /\ IF ShardArg(line[c]) \in subscribed
               THEN \/ left' = [left EXCEPT ![c] = @ - 1] /\ UNCHANGED lifeVars
                    \/ "publish" \in MayFail /\ Reply(c, "error") /\ UNCHANGED left
               ELSE Reply(c, "refused") /\ UNCHANGED left
    /\ UNCHANGED <<cliVars, nodeVars, scan, shown, histVars>>

\* What a handler can panic over: a slice of negative size to make; an id that
\* isShardSet may take for a byte past the end (module ListeningShards says which
\* and when); an address that ma.StringCast cannot read; and, when calls of
\* Bootstrap overlap, a cancel function that is nil (module Bootstrap).
MayPanic(c) ==
    LET l == line[c] IN
    \/ Serving(c, "broadcastcollation") /\ left[c] > 0 /\ SizeArg(l) < 0
    \/ Serving(c, "discovershard") /\ \E n \in Ints(Args(l)) : n <= -8
    \/ /\ Serving(c, "bootstrap")
       /\ \/ l[2] = "start" /\ ~(Len(l) = 3 /\ l[3] \in Bootnodes)
          \/ l[2] = "stop" /\ \E d \in Callers \ {c} : Serving(d, "bootstrap")

\* A panic in a handler ends the process.
HandlerPanics(c) ==
    /\ MayPanic(c)
    /\ main' = "fatal"
    /\ UNCHANGED <<catcher, call, asleep, stopped, sent, cliVars, nodeVars, readVars, histVars>>

\* Identify, ListPeer, ListTopicPeer (also for listshardpeer) and DiscoverShard
\* only read, and succeed unless they panic.
ReadOnly == {"identify", "listpeer", "listtopicpeer", "listshardpeer", "discovershard"}

Look(c) ==
    /\ \E k \in ReadOnly : Serving(c, k)
    /\ Reply(c, "ok")
    /\ UNCHANGED <<cliVars, nodeVars, readVars, histVars>>

\* AddPeer, RemovePeer and Bootstrap change links and the DHT, which are the
\* subject of PrefGossip and Bootstrap, and may fail.
Connect(c) ==
    /\ \E k \in {"addpeer", "removepeer", "bootstrap"} : Serving(c, k)
    /\ Reply(c, "ok") \/ Reply(c, "error")
    /\ UNCHANGED <<cliVars, nodeVars, readVars, histVars>>

Halt(c) ==
    /\ Serving(c, "stop")
    /\ StopServer(c)
    /\ UNCHANGED <<cliVars, nodeVars, readVars, histVars>>

-----------------------------------------------------------------------------
HandlerStep(c) == \/ SubscribeShard(c) \/ GetSubscribedShard(c) \/ BroadcastCollation(c)
                  \/ HandlerPanics(c) \/ Look(c) \/ Connect(c) \/ Halt(c)

ClientStep(c) == Call(c) \/ NoServer(c) \/ Receive(c) \/ Disconnected(c)

ServerStep(A) == A /\ UNCHANGED <<cliVars, nodeVars, readVars, histVars>>

Next == \/ \E c \in Callers : \/ \E l \in Lines[c] : Launch(c, l)
                             \/ ClientStep(c) \/ HandlerStep(c)
        \/ ServerStep(MainStep) \/ ServerStep(CatcherStep) \/ ServerStep(TimerStops)
        \/ ServerStep(SignalKills) \/ ServerStep(Signal)

Spec == Init /\ [][Next]_vars

\* Every goroutine and every process runs and the sleep ends; a handler that
\* waits for the table's lock gets it.  Nobody has to call or to signal.
FairSpec ==
    /\ Spec
    /\ WF_vars(ServerStep(MainStep)) /\ WF_vars(ServerStep(CatcherStep)) /\ WF_vars(ServerStep(TimerStops))
    /\ \A c \in Callers : /\ WF_vars(ClientStep(c)) /\ SF_vars(HandlerStep(c))

-----------------------------------------------------------------------------
(* Properties *)

\* Every variable has its type; a call is under way exactly for a process that
\* waits for it.
TypeOK ==
    /\ LifeTypeOK
    /\ cli \in [Callers -> {"none", "usage", "calling", "waiting", "success", "refused", "failed", "lost"}]
    /\ line \in [Callers -> Seq(STRING)]
    /\ listed \subseteq Shards /\ subscribed \subseteq Shards
    /\ todo \in [Callers -> SUBSET Nat] /\ left \in [Callers -> Nat]
    /\ late \in [Callers -> SUBSET Shards] /\ scan \in [Callers -> SUBSET Shards]
    /\ shown \in [Callers -> SUBSET Shards]
    /\ halfway \subseteq Shards
    /\ ever \in [Callers -> SUBSET Shards] /\ always \in [Callers -> SUBSET Shards]
    /\ \A c \in Callers : call[c] # "idle" <=> cli[c] = "waiting"

\* Status 0 tells the truth about the node, whatever the other clients are
\* doing and however the server fares:
\*   - getsubshard prints the shards listed all along and none that never was
\*     during the call, although its scan is not atomic;
\*   - a broadcastcollation that sent something was in a subscribed shard, and
\*     one refused as "broadcasting to a not subscribed shard" was not all along
\*     (cli-example/iterate_all_rpc_call.sh expects "exit code should be 1").
ReplyIsTrue ==
    \A c \in Callers :
       LET l == line[c] IN
       /\ cli[c] = "success" /\ Cmd(l) = "getsubshard"
             => always[c] \subseteq shown[c] /\ shown[c] \subseteq ever[c]
       /\ cli[c] = "success" /\ Cmd(l) = "broadcastcollation" /\ NumberArg(l) > 0
             => ShardArg(l) \in ever[c]
       /\ cli[c] = "refused" /\ Cmd(l) = "broadcastcollation"
             => ShardArg(l) \notin always[c]

\* What a subshard or unsubshard with status 0 has done is done in the list, and
\* stays so until its caller changes it, whatever the other callers do and whether
\* or not the server is being stopped.  It is done in the subscriptions too, save
\* for shards that pubsub has let down since they were last in order: the handlers
\* swallow that error (rpcserver.go:185-190), and a second subshard finds such a
\* shard listed and passes over it.
ExitZeroHolds ==
    \A c \in Callers :
       LET l == line[c] IN
       /\ cli[c] = "success" /\ Cmd(l) = "subshard"
             => /\ Named(l) \cap Shards \subseteq listed
                /\ (Named(l) \cap Shards) \ halfway \subseteq subscribed
       /\ cli[c] = "success" /\ Cmd(l) = "unsubshard"
             => Named(l) \cap listed = {} /\ Named(l) \cap subscribed \subseteq halfway

\* Every client process ends although its call has no deadline: also when it
\* connects while the server is starting, and when the server stops, is killed
\* or panics under it.
CliExits == \A c \in Callers : ~Ended(c) ~> Ended(c)

\* A StopServer that was taken up ends the process, whether its answer gets
\* through within the second or is cut off by another StopServer or a signal
\* (rpcserver.go:347-351).
StopServerStops ==
    \A c \in Callers : (call[c] # "idle" /\ Cmd(line[c]) = "stop") ~> Down
=============================================================================
