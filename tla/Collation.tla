------------------------------ MODULE Collation ------------------------------
(***************************************************************************)
(* Broadcasting in one shard: the nodes' subscriptions to its collation    *)
(* topic, the validator that asks the host side about every message, and   *)
(* the RPCs that publish (shardmanager.go, eventrpc.go, rpcserver.go).     *)
(*                                                                         *)
(* SubscribeGeneral builds the validator from the context it was called    *)
(* with, and pubsub keeps the first validator of a topic: registering      *)
(* another fails, and SubscribeTopic does not look at the error.  gRPC     *)
(* cancels the context of an RPC when its handler returns.                 *)
(***************************************************************************)
EXTENDS Naturals, FiniteSets

CONSTANTS Nodes,
          Msgs,         \* messages somebody publishes, each at most once
          Valid,        \* the messages the host side judges valid
          LongContext,  \* nodes where ListenShard gets a context that outlives it
          Flaky,        \* nodes where Subscribe, Publish and calls to the host can fail
          Calls,        \* broadcasting RPCs that can be under way at a time
          At(_),        \* At(c): the node that serves call c
          MaxBatch      \* (bound) collations in a call of BroadcastCollation

ASSUME MsgAssumption == Valid \subseteq Msgs

ASSUME NodesAssumption == LongContext \subseteq Nodes /\ Flaky \subseteq Nodes

ASSUME CallsAssumption == \A c \in Calls : At(c) \in Nodes

ASSUME BatchAssumption == MaxBatch \in Nat \ {0}

VARIABLES
    subscribed,  \* nodes with a live pubsub subscription to the topic
    subs,        \* nodes whose ShardManager.subs has the topic
    validator,   \* context of n's validator: "none", "live" or "cancelled"
    rpc,         \* rpc[n]: next step of the (un)subscribing call at n
    sender,      \* sender[c]: next step of the broadcasting call c
    left,        \* left[c]: collations that call has still to publish
    inbox,       \* inbox[n]: messages n has yet to validate
    seen,        \* seen[n]: messages n has got so far
    accepted,    \* accepted[n]: messages n has validated and passed on
    joined,      \* (history) nodes where a call that subscribed has returned
    racing,      \* (history) calls past their check when their node last left
    late         \* (history) late[c]: collations sent by c since its node left

subsVars == <<subscribed, subs, validator, rpc, joined>>
netVars == <<inbox, seen, accepted>>
sendVars == <<sender, left, racing, late>>
vars == <<subsVars, netVars, sendVars>>

Init ==
    /\ subscribed = {}
    /\ subs = {}
    /\ validator = [n \in Nodes |-> "none"]
    /\ rpc = [n \in Nodes |-> "idle"]
    /\ sender = [c \in Calls |-> "idle"]
    /\ left = [c \in Calls |-> 0]
    /\ inbox = [n \in Nodes |-> {}]
    /\ seen = [n \in Nodes |-> {}]
    /\ accepted = [n \in Nodes |-> {}]
    /\ joined = {}
    /\ racing = {}
    /\ late = [c \in Calls |-> 0]

Goto(n, l) == rpc' = [rpc EXCEPT ![n] = l]

-----------------------------------------------------------------------------
(* SubscribeCollation, inside an RPC *)

\* ListenShard comes this far when the shard is not listened to; after a failed
\* call that takes an UnlistenShard first, which changes nothing here.
SubscribeCollation(n) ==
    /\ rpc[n] = "idle" /\ n \notin subs
    /\ Goto(n, "subscribe")
    /\ UNCHANGED <<subscribed, subs, validator, joined, netVars, sendVars>>

Subscribe(n) ==
    /\ rpc[n] = "subscribe"
    /\ subscribed' = subscribed \cup {n}
    /\ Goto(n, "store")
    /\ UNCHANGED <<subs, validator, joined, netVars, sendVars>>

SubscribeFails(n) ==
    /\ n \in Flaky
    /\ rpc[n] = "subscribe"
    /\ Goto(n, "return")
    /\ UNCHANGED <<subscribed, subs, validator, joined, netVars, sendVars>>

StoreSub(n) ==
    /\ rpc[n] = "store"
    /\ subs' = subs \cup {n}
    /\ late' = [c \in Calls |-> IF At(c) = n THEN 0 ELSE late[c]]
    /\ racing' = {c \in racing : At(c) # n}
    /\ Goto(n, "register")
    /\ UNCHANGED <<subscribed, validator, joined, netVars, sender, left>>

\* Only the first validator of the topic is registered; it holds this call's
\* context.
RegisterValidator(n) ==
    /\ rpc[n] = "register"
    /\ validator' = [validator EXCEPT ![n] = IF @ = "none" THEN "live" ELSE @]
    /\ Goto(n, "return")
    /\ UNCHANGED <<subscribed, subs, joined, netVars, sendVars>>

\* (mutant) the call's context is cancelled whoever owns it
Return_CancelsAll(n) ==
    /\ rpc[n] = "return"
    /\ validator' = [validator EXCEPT ![n] = IF @ = "live" THEN "cancelled" ELSE @]
    /\ joined' = joined \cup ({n} \cap subs)
    /\ Goto(n, "idle")
    /\ UNCHANGED <<subscribed, subs, netVars, sendVars>>

\* The call returns, and its context with it unless the caller keeps it.  A live
\* validator is this call's: those of earlier calls are already cancelled.
Return(n) ==
    /\ rpc[n] = "return"
    /\ validator' = [validator EXCEPT
                       ![n] = IF @ = "live" /\ n \notin LongContext THEN "cancelled" ELSE @]
    /\ joined' = joined \cup ({n} \cap subs)
    /\ Goto(n, "idle")
    /\ UNCHANGED <<subscribed, subs, netVars, sendVars>>

-----------------------------------------------------------------------------
(* UnsubscribeCollation: the validator stays *)

UnsubscribeCollation(n) ==
    /\ rpc[n] = "idle" /\ n \in subs
    /\ Goto(n, "cancel")
    /\ UNCHANGED <<subscribed, subs, validator, joined, netVars, sendVars>>

\* (mutant) the validator goes with the subscription
CancelSub_Unregisters(n) ==
    /\ rpc[n] = "cancel"
    /\ subscribed' = subscribed \ {n}
    /\ validator' = [validator EXCEPT ![n] = "none"]
    /\ Goto(n, "delete")
    /\ UNCHANGED <<subs, joined, netVars, sendVars>>

CancelSub(n) ==
    /\ rpc[n] = "cancel"
    /\ subscribed' = subscribed \ {n}
    /\ Goto(n, "delete")
    /\ UNCHANGED <<subs, validator, joined, netVars, sendVars>>

DeleteSub(n) ==
    /\ rpc[n] = "delete"
    /\ subs' = subs \ {n}
    /\ racing' = {c \in Calls : IF At(c) = n THEN sender[c] = "publish" ELSE c \in racing}
    /\ Goto(n, "idle")
    /\ UNCHANGED <<subscribed, validator, joined, netVars, sender, left, late>>

-----------------------------------------------------------------------------
(* Publishing *)

Fresh == Msgs \ UNION {seen[k] : k \in Nodes}

\* pubsub takes a message from its own node: it is validated like any other.
Publish(n, m) ==
    /\ inbox' = [inbox EXCEPT ![n] = @ \cup {m}]
    /\ seen' = [seen EXCEPT ![n] = @ \cup {m}]
    /\ UNCHANGED accepted

\* RPC BroadcastCollation (a batch) and SendCollation (a batch of one).  gRPC
\* serves every call in a goroutine of its own.
BroadcastCollation(c, k) ==
    /\ sender[c] = "idle"
    /\ sender' = [sender EXCEPT ![c] = "check"]
    /\ left' = [left EXCEPT ![c] = k]
    /\ UNCHANGED <<subsVars, netVars, racing, late>>

\* The first error ends the call, and the rest of the batch is not sent.
SenderFails(c) ==
    /\ sender' = [sender EXCEPT ![c] = "idle"]
    /\ left' = [left EXCEPT ![c] = 0]
    /\ UNCHANGED <<subsVars, netVars, racing, late>>

\* broadcastCollationMessage looks for the topic in subs, without which it
\* fails ...
CheckSubscribed(c) ==
    /\ sender[c] = "check"
    /\ IF At(c) \in subs
         THEN /\ sender' = [sender EXCEPT ![c] = "publish"]
              /\ UNCHANGED <<subsVars, netVars, left, racing, late>>
         ELSE SenderFails(c)

PublishFails(c) == At(c) \in Flaky /\ sender[c] = "publish" /\ SenderFails(c)

\* m is published, and the call goes on at l.
Published(c, m, l) ==
    /\ sender[c] = "publish"
    /\ m \in Fresh
    /\ Publish(At(c), m)
    /\ left' = [left EXCEPT ![c] = @ - 1]
    /\ late' = [late EXCEPT ![c] = IF At(c) \in subs THEN 0 ELSE @ + 1]
    /\ sender' = [sender EXCEPT ![c] = l]
    /\ UNCHANGED <<subsVars, racing>>

\* (mutant) the subscription is checked once for the batch
PublishCollation_ChecksOnce(c, m) ==
    Published(c, m, IF left[c] = 1 THEN "idle" ELSE "publish")

\* ... and publishes later, without a lock in between.
PublishCollation(c, m) ==
    Published(c, m, IF left[c] = 1 THEN "idle" ELSE "check")

\* RPC Send with a topic publishes whatever the node is subscribed to.
Send(n, m) ==
    /\ m \in Fresh
    /\ Publish(n, m)
    /\ UNCHANGED <<subsVars, sendVars>>

-----------------------------------------------------------------------------
(* Validation *)

\* What the validator of n can get from the host side for m: the verdict, or an
\* error when its context is cancelled or the call fails.
Receive(n, m) ==
    IF validator[n] = "cancelled" THEN {"error"}
    ELSE {IF m \in Valid THEN "valid" ELSE "invalid"}
            \cup IF n \in Flaky THEN {"error"} ELSE {}

\* (mutant) an error from the host side counts as a yes
Verdicts_FailOpen(n, m) ==
    IF validator[n] = "none" THEN {"pass"}
    ELSE {IF a = "invalid" THEN "drop" ELSE "pass" : a \in Receive(n, m)}

\* The outcomes of validating m at n; without a validator everything passes.
Verdicts(n, m) ==
    IF validator[n] = "none" THEN {"pass"}
    ELSE {IF a = "valid" THEN "pass" ELSE "drop" : a \in Receive(n, m)}

\* pubsub passes an accepted message to the subscribed nodes that have not seen
\* it; a node that is not subscribed does not take it.
Accept(n, m) ==
    /\ m \in inbox[n] /\ "pass" \in Verdicts(n, m)
    /\ LET next == {k \in subscribed \ {n} : m \notin seen[k]} IN
         /\ inbox' = [k \in Nodes |-> IF k = n THEN inbox[k] \ {m}
                                      ELSE IF k \in next THEN inbox[k] \cup {m}
                                      ELSE inbox[k]]
         /\ seen' = [k \in Nodes |-> IF k \in next THEN seen[k] \cup {m} ELSE seen[k]]
    /\ accepted' = [accepted EXCEPT ![n] = @ \cup {m}]
    /\ UNCHANGED <<subsVars, sendVars>>

Reject(n, m) ==
    /\ m \in inbox[n] /\ "drop" \in Verdicts(n, m)
    /\ inbox' = [inbox EXCEPT ![n] = @ \ {m}]
    /\ UNCHANGED <<seen, accepted, subsVars, sendVars>>

-----------------------------------------------------------------------------
SubscribeStep(n) == \/ Subscribe(n) \/ SubscribeFails(n) \/ StoreSub(n)
                    \/ RegisterValidator(n) \/ Return(n)

UnsubscribeStep(n) == CancelSub(n) \/ DeleteSub(n)

ValidateStep(n, m) == Accept(n, m) \/ Reject(n, m)

Next ==
    \/ \E n \in Nodes :
         \/ SubscribeCollation(n) \/ SubscribeStep(n)
         \/ UnsubscribeCollation(n) \/ UnsubscribeStep(n)
         \/ \E m \in Msgs : Send(n, m) \/ ValidateStep(n, m)
    \/ \E c \in Calls :
         \/ CheckSubscribed(c) \/ PublishFails(c)
         \/ \E k \in 1..MaxBatch : BroadcastCollation(c, k)
         \/ \E m \in Msgs : PublishCollation(c, m)

Spec == Init /\ [][Next]_vars

\* The validator of every message is run.
FairSpec == Spec /\ \A n \in Nodes, m \in Msgs : WF_vars(ValidateStep(n, m))

-----------------------------------------------------------------------------
\* Every variable has its type.
TypeOK ==
    /\ subscribed \subseteq Nodes
    /\ subs \subseteq Nodes
    /\ validator \in [Nodes -> {"none", "live", "cancelled"}]
    /\ rpc \in [Nodes -> {"idle", "subscribe", "store", "register", "return",
                          "cancel", "delete"}]
    /\ sender \in [Calls -> {"idle", "check", "publish"}]
    /\ left \in [Calls -> 0..MaxBatch]
    /\ inbox \in [Nodes -> SUBSET Msgs]
    /\ seen \in [Nodes -> SUBSET Msgs]
    /\ accepted \in [Nodes -> SUBSET Msgs]
    /\ joined \subseteq Nodes
    /\ racing \subseteq Calls
    /\ late \in [Calls -> Nat]

\* The call that subscribed has done its work, and none has undone it yet.
Listening(n) == n \in subs /\ rpc[n] \notin {"store", "register"}

\* From the moment a node first listens it passes on only what its host side
\* judges valid: errors, cancelled contexts, leaving and subscribing again let
\* nothing else through, and the gap between Subscribe and the registration of
\* the validator (shardmanager.go:258-268) is never there a second time.
OnlyJudged ==
    [][\A n \in Nodes : n \in joined \/ Listening(n)
                           => accepted'[n] \ accepted[n] \subseteq Valid]_vars

\* After a node has left the shard, only the broadcasting calls that were past
\* their check at that moment still send, and each of them one collation at most,
\* however long its batch (shardmanager.go:466-481): as many collations can be
\* late as calls were publishing, and calls that start or check later send none.
LateOncePerCall ==
    \A c \in Calls : late[c] <= IF c \in racing THEN 1 ELSE 0

\* A valid collation that reaches the validator of a node whose host side
\* answers is passed on: a node can broadcast and receive in the shards it has
\* subscribed to.
ValidPasses ==
    \A n \in Nodes \ Flaky, m \in Valid : m \in inbox[n] => Verdicts(n, m) = {"pass"}

\* A valid message that such a node publishes or receives gets to every node
\* that is subscribed then and stays so, whatever calls are under way.
ReachesSubscribers ==
    \A n \in Nodes \ Flaky, k \in Nodes, m \in Valid :
       (m \in inbox[n] /\ k \in subscribed) ~> (m \in seen[k] \/ k \notin subscribed)
=============================================================================
