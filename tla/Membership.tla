------------------------------ MODULE Membership ------------------------------
(***************************************************************************)
(* What a node promises the callers of SubscribeShard and UnsubscribeShard:*)
(* a call handles every shard of its request once.  A shard that is        *)
(* already where the call wants it, or that does not exist, is passed      *)
(* over; for any other the list that GetSubscribedShard returns changes    *)
(* first and the subscription that broadcasting asks for follows, both     *)
(* before the call goes on; where pubsub fails in between the list stays   *)
(* changed and the subscription does not follow.  Each of these is one     *)
(* step, whatever the other calls are doing.                               *)
(***************************************************************************)
CONSTANTS Shards,
          Clients,
          Requests,  \* Requests[c]: the sets of shard ids c may ask for
          MayFail    \* which calls into pubsub may fail: "publish", "subscribe"

VARIABLES
    listed,      \* the shards the node says it listens to
    subscribed,  \* the shards whose collations it is subscribed to
    busy,        \* clients with a call under way
    op,          \* op[c]: "listen" or "unlisten"
    todo,        \* todo[c]: shards of the request not handled yet
    late         \* late[c]: the shard whose subscription has to follow, in a set

vars == <<listed, subscribed, busy, op, todo, late>>

Init ==
    /\ listed = {}
    /\ subscribed = {}
    /\ busy = {}
    /\ op = [c \in Clients |-> "listen"]
    /\ todo = [c \in Clients |-> {}]
    /\ late = [c \in Clients |-> {}]

Begin(c, o, b) ==
    /\ c \notin busy
    /\ busy' = busy \cup {c}
    /\ op' = [op EXCEPT ![c] = o]
    /\ todo' = [todo EXCEPT ![c] = b]
    /\ UNCHANGED <<listed, subscribed, late>>

\* The list already says of s what the call wants, or never will.
Idle(c, s) == IF op[c] = "listen" THEN s \in listed \/ s \notin Shards ELSE s \notin listed

PassOver(c, s) ==
    /\ s \in todo[c] /\ late[c] = {}
    /\ Idle(c, s)
    /\ todo' = [todo EXCEPT ![c] = @ \ {s}]
    /\ UNCHANGED <<listed, subscribed, busy, op, late>>

Change(set, c, s) == IF op[c] = "listen" THEN set \cup {s} ELSE set \ {s}

List(c, s) ==
    /\ s \in todo[c] /\ late[c] = {}
    /\ ~Idle(c, s)
    /\ listed' = Change(listed, c, s)
    /\ todo' = [todo EXCEPT ![c] = @ \ {s}]
    /\ late' = [late EXCEPT ![c] = {s}]
    /\ UNCHANGED <<subscribed, busy, op>>

Follow(c, s) ==
    /\ s \in late[c]
    /\ subscribed' = Change(subscribed, c, s)
    /\ late' = [late EXCEPT ![c] = {}]
    /\ UNCHANGED <<listed, busy, op, todo>>

\* What a call that lists or strikes out has still to ask of pubsub.
Asks(c) == IF op[c] = "listen" THEN {"publish", "subscribe"} ELSE {"publish"}

Abandon(c, s) ==
    /\ s \in late[c]
    /\ Asks(c) \cap MayFail # {}
    /\ late' = [late EXCEPT ![c] = {}]
    /\ UNCHANGED <<listed, subscribed, busy, op, todo>>

End(c) ==
    /\ c \in busy /\ todo[c] = {} /\ late[c] = {}
    /\ busy' = busy \ {c}
    /\ UNCHANGED <<listed, subscribed, op, todo, late>>

Handle(c, s) == PassOver(c, s) \/ List(c, s) \/ Follow(c, s) \/ Abandon(c, s)

Next == \E c \in Clients :
           \/ \E o \in {"listen", "unlisten"}, b \in Requests[c] : Begin(c, o, b)
           \/ \E s \in todo[c] \cup late[c] : Handle(c, s)
           \/ End(c)

Spec == Init /\ [][Next]_vars
=============================================================================
