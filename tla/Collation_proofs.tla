--------------------------- MODULE Collation_proofs ---------------------------
(***************************************************************************)
(* Proofs about Collation, for any set of nodes and messages and any bound *)
(* on the batches.                                                         *)
(***************************************************************************)
EXTENDS Collation, TLAPS

\* What a broadcasting call keeps: there is something left to send while it
\* runs; at a node in subs nothing is late; at a node that is not, only a racing
\* call is past its check, and a call that has sent late has to check again.  A
\* call that unsubscribes finds the entry it is to delete.
SendInv ==
    /\ \A n \in Nodes : rpc[n] \in {"cancel", "delete"} => n \in subs
    /\ \A c \in Calls :
         /\ sender[c] # "idle" => left[c] > 0
         /\ At(c) \in subs => late[c] = 0
         /\ At(c) \notin subs /\ sender[c] = "publish" => c \in racing
         /\ late[c] = 0 \/ (late[c] = 1 /\ c \in racing /\ sender[c] # "publish")

\* A call that subscribes starts without an entry in subs, and whoever listens
\* or has listened has a validator.
JudgeInv ==
    \A n \in Nodes :
      /\ rpc[n] \in {"subscribe", "store"} => n \notin subs
      /\ n \in joined \/ Listening(n) => validator[n] # "none"

\* The broadcasting calls and pubsub leave the subscriptions alone.
LEMMA OtherSteps ==
    ASSUME \/ \E n \in Nodes, m \in Msgs : Send(n, m) \/ ValidateStep(n, m)
           \/ \E c \in Calls :
                \/ CheckSubscribed(c) \/ PublishFails(c)
                \/ \E k \in 1..MaxBatch : BroadcastCollation(c, k)
                \/ \E m \in Msgs : PublishCollation(c, m)
    PROVE  UNCHANGED subsVars
BY DEF CheckSubscribed, PublishFails, SenderFails, BroadcastCollation, PublishCollation,
       Published, Send, ValidateStep, Accept, Reject

\* The steps of the (un)subscribing call.
CallStep(n) == \/ SubscribeCollation(n) \/ SubscribeStep(n)
               \/ UnsubscribeCollation(n) \/ UnsubscribeStep(n)

LEMMA TypeStep == TypeOK /\ SendInv /\ [Next]_vars => TypeOK'
<1> SUFFICES ASSUME TypeOK, SendInv, [Next]_vars PROVE TypeOK'
  OBVIOUS
<1> USE BatchAssumption DEF TypeOK
<1>1. ASSUME NEW n \in Nodes, CallStep(n) PROVE TypeOK'
  <2> USE DEF Goto, netVars, sendVars
  <2>1. CASE SubscribeCollation(n)
    BY <2>1 DEF SubscribeCollation
  <2>2. CASE Subscribe(n) \/ SubscribeFails(n)
    BY <2>2 DEF Subscribe, SubscribeFails
  <2>3. CASE StoreSub(n)
    BY <2>3 DEF StoreSub
  <2>4. CASE RegisterValidator(n)
    BY <2>4 DEF RegisterValidator
  <2>5. CASE Return(n)
    BY <2>5 DEF Return
  <2>6. CASE UnsubscribeCollation(n) \/ UnsubscribeStep(n)
    BY <2>6 DEF UnsubscribeCollation, UnsubscribeStep, CancelSub, DeleteSub
  <2> QED BY <1>1, <2>1, <2>2, <2>3, <2>4, <2>5, <2>6 DEF CallStep, SubscribeStep
<1>2. ASSUME NEW c \in Calls, NEW k \in 1..MaxBatch, BroadcastCollation(c, k) PROVE TypeOK'
  BY <1>2 DEF BroadcastCollation, subsVars, netVars
<1>3. ASSUME NEW c \in Calls, CheckSubscribed(c) \/ PublishFails(c) PROVE TypeOK'
  BY <1>3 DEF CheckSubscribed, PublishFails, SenderFails, subsVars, netVars
<1>4. ASSUME NEW c \in Calls, NEW m \in Msgs, PublishCollation(c, m) PROVE TypeOK'
  <2>1. left[c] \in 1..MaxBatch /\ At(c) \in Nodes
    BY <1>4, CallsAssumption DEF PublishCollation, Published, SendInv
  <2>2. left' \in [Calls -> 0..MaxBatch]
    BY <1>4, <2>1 DEF PublishCollation, Published
  <2>3. late' \in [Calls -> Nat] /\ sender' \in [Calls -> {"idle", "check", "publish"}]
    BY <1>4 DEF PublishCollation, Published
  <2> QED BY <1>4, <2>1, <2>2, <2>3 DEF PublishCollation, Published, Publish, subsVars
<1>5. ASSUME NEW n \in Nodes, NEW m \in Msgs, Send(n, m) PROVE TypeOK'
  BY <1>5 DEF Send, Publish, subsVars, sendVars
<1>6. ASSUME NEW n \in Nodes, NEW m \in Msgs, ValidateStep(n, m) PROVE TypeOK'
  BY <1>6 DEF ValidateStep, Accept, Reject, subsVars, sendVars
<1>7. CASE UNCHANGED vars
  BY <1>7 DEF vars, subsVars, netVars, sendVars
<1> QED BY <1>1, <1>2, <1>3, <1>4, <1>5, <1>6, <1>7 DEF Next, CallStep

LEMMA SendStep == TypeOK /\ SendInv /\ [Next]_vars => SendInv'
<1> SUFFICES ASSUME TypeOK, SendInv, [Next]_vars PROVE SendInv'
  OBVIOUS
<1> USE CallsAssumption DEF TypeOK, SendInv, Goto
<1>1. ASSUME NEW n \in Nodes, StoreSub(n) PROVE SendInv'
  BY <1>1 DEF StoreSub
<1>2. ASSUME NEW n \in Nodes, DeleteSub(n) PROVE SendInv'
  <2>1. /\ subs' = subs \ {n} /\ sender' = sender /\ left' = left /\ late' = late
        /\ racing' = {c \in Calls : IF At(c) = n THEN sender[c] = "publish" ELSE c \in racing}
        /\ n \in subs /\ rpc' = [rpc EXCEPT ![n] = "idle"]
    BY <1>2 DEF DeleteSub
  <2>2. ASSUME NEW c \in Calls
        PROVE  /\ At(c) \notin subs' /\ sender[c] = "publish" => c \in racing'
               /\ late[c] = 0 \/ (late[c] = 1 /\ c \in racing' /\ sender[c] # "publish")
    <3>1. CASE At(c) = n
      BY <2>1, <3>1
    <3>2. CASE At(c) # n
      BY <2>1, <3>2
    <3> QED BY <3>1, <3>2
  <2> QED BY <2>1, <2>2
<1>3. ASSUME NEW n \in Nodes, CallStep(n), ~StoreSub(n), ~DeleteSub(n) PROVE SendInv'
  BY <1>3 DEF CallStep, SubscribeCollation, SubscribeStep, Subscribe, SubscribeFails,
              RegisterValidator, Return, UnsubscribeCollation, UnsubscribeStep, CancelSub, sendVars
<1>4. ASSUME NEW c \in Calls, NEW k \in 1..MaxBatch, BroadcastCollation(c, k) PROVE SendInv'
  BY <1>4 DEF BroadcastCollation, subsVars
<1>5. ASSUME NEW c \in Calls, CheckSubscribed(c) \/ PublishFails(c) PROVE SendInv'
  BY <1>5 DEF CheckSubscribed, PublishFails, SenderFails, subsVars
<1>6. ASSUME NEW c \in Calls, NEW m \in Msgs, PublishCollation(c, m) PROVE SendInv'
  <2>1. late[c] = 0 /\ left[c] > 0 /\ (At(c) \notin subs => c \in racing)
    BY <1>6 DEF PublishCollation, Published
  <2>2. /\ left' = [left EXCEPT ![c] = @ - 1]
        /\ late' = [late EXCEPT ![c] = IF At(c) \in subs THEN 0 ELSE @ + 1]
        /\ sender' = [sender EXCEPT ![c] = IF left[c] = 1 THEN "idle" ELSE "check"]
        /\ subs' = subs /\ racing' = racing /\ rpc' = rpc
    BY <1>6 DEF PublishCollation, Published, subsVars
  <2>3. ASSUME NEW d \in Calls
        PROVE  /\ sender'[d] # "idle" => left'[d] > 0
               /\ At(d) \in subs => late'[d] = 0
               /\ At(d) \notin subs /\ sender'[d] = "publish" => d \in racing
               /\ late'[d] = 0 \/ (late'[d] = 1 /\ d \in racing /\ sender'[d] # "publish")
    <3>1. CASE d = c
      BY <2>1, <2>2, <3>1
    <3>2. CASE d # c
      <4>1. sender'[d] = sender[d] /\ left'[d] = left[d] /\ late'[d] = late[d]
        BY <2>2, <3>2
      <4> QED BY <4>1
    <3> QED BY <3>1, <3>2
  <2> QED BY <2>2, <2>3
<1>7. ASSUME UNCHANGED <<subs, rpc, sendVars>> PROVE SendInv'
  BY <1>7 DEF sendVars
<1>8. ASSUME NEW n \in Nodes, NEW m \in Msgs, Send(n, m) \/ ValidateStep(n, m) PROVE SendInv'
  BY <1>7, <1>8 DEF Send, ValidateStep, Accept, Reject, subsVars
<1>9. CASE UNCHANGED vars
  BY <1>7, <1>9 DEF vars, subsVars
<1>10. ASSUME NEW n \in Nodes, CallStep(n) PROVE SendInv'
  BY <1>1, <1>2, <1>3, <1>10
<1> HIDE DEF TypeOK, SendInv
<1> QED BY <1>4, <1>5, <1>6, <1>8, <1>9, <1>10 DEF Next, CallStep

LEMMA TypeAndSend == Spec => [](TypeOK /\ SendInv)
<1>1. Init => TypeOK /\ SendInv
  BY BatchAssumption DEF Init, TypeOK, SendInv
<1> QED BY <1>1, TypeStep, SendStep, PTL DEF Spec

\* Every variable keeps its type, for any nodes, messages and batches; in
\* particular no batch is counted below zero (rpcserver.go:276-293).
THEOREM TypeCorrect == Spec => []TypeOK
BY TypeAndSend, PTL

\* For any nodes, any number of concurrent broadcasting calls and batches of any
\* length: after a node has left the shard, the calls that were past their check
\* send at most one collation each and no other call sends any
\* (shardmanager.go:466-481).
THEOREM LeaversStop == Spec => []LateOncePerCall
<1>1. TypeOK /\ SendInv => LateOncePerCall
  BY DEF TypeOK, SendInv, LateOncePerCall
<1> QED BY <1>1, TypeAndSend, PTL

-----------------------------------------------------------------------------
LEMMA JudgeStep == TypeOK /\ JudgeInv /\ [Next]_vars => JudgeInv'
<1> SUFFICES ASSUME TypeOK, JudgeInv, [Next]_vars PROVE JudgeInv'
  OBVIOUS
<1> USE DEF TypeOK, JudgeInv, Listening, Goto
<1>1. ASSUME NEW n \in Nodes, SubscribeCollation(n) PROVE JudgeInv'
  BY <1>1 DEF SubscribeCollation
<1>2. ASSUME NEW n \in Nodes, Subscribe(n) PROVE JudgeInv'
  BY <1>2 DEF Subscribe
<1>3. ASSUME NEW n \in Nodes, SubscribeFails(n) PROVE JudgeInv'
  BY <1>3 DEF SubscribeFails
<1>4. ASSUME NEW n \in Nodes, StoreSub(n) PROVE JudgeInv'
  BY <1>4 DEF StoreSub
<1>5. ASSUME NEW n \in Nodes, RegisterValidator(n) PROVE JudgeInv'
  BY <1>5 DEF RegisterValidator
<1>6. ASSUME NEW n \in Nodes, Return(n) PROVE JudgeInv'
  BY <1>6 DEF Return
<1>7. ASSUME NEW n \in Nodes, UnsubscribeCollation(n) PROVE JudgeInv'
  BY <1>7 DEF UnsubscribeCollation
<1>8. ASSUME NEW n \in Nodes, CancelSub(n) \/ DeleteSub(n) PROVE JudgeInv'
  BY <1>8 DEF CancelSub, DeleteSub
<1>9. CASE UNCHANGED subsVars
  BY <1>9 DEF subsVars
<1>10. CASE UNCHANGED vars
  BY <1>9, <1>10 DEF vars
<1> QED
  BY <1>1, <1>2, <1>3, <1>4, <1>5, <1>6, <1>7, <1>8, <1>9, <1>10, OtherSteps
  DEF Next, SubscribeStep, UnsubscribeStep

LEMMA JudgeAlways == Spec => [](TypeOK /\ JudgeInv)
<1>1. Init => JudgeInv
  BY DEF Init, JudgeInv, Listening
<1> QED BY <1>1, JudgeStep, TypeCorrect, PTL DEF Spec

\* With any nodes, messages and failures, a node that listens or has listened
\* passes on only what its host side judges valid (shardmanager.go:249-285 and
\* 358-402).
THEOREM ListenersJudge == Spec => OnlyJudged
<1>1. TypeOK /\ JudgeInv /\ [Next]_vars =>
         [\A n \in Nodes : n \in joined \/ Listening(n)
                             => accepted'[n] \ accepted[n] \subseteq Valid]_vars
  <2> SUFFICES ASSUME TypeOK, JudgeInv, [Next]_vars, NEW x \in Nodes, x \in joined \/ Listening(x)
               PROVE  accepted'[x] \ accepted[x] \subseteq Valid
    OBVIOUS
  <2>1. ASSUME NEW n \in Nodes, NEW m \in Msgs, Accept(n, m)
        PROVE  accepted'[x] \ accepted[x] \subseteq Valid
    <3>1. accepted' = [accepted EXCEPT ![n] = @ \cup {m}] /\ "pass" \in Verdicts(n, m)
      BY <2>1 DEF Accept
    <3>2. CASE x = n
      <4>1. validator[n] # "none"
        BY <3>2 DEF JudgeInv
      <4>2. "valid" \in Receive(n, m)
        BY <3>1, <4>1 DEF Verdicts
      <4>3. m \in Valid
        BY <4>2 DEF Receive
      <4> QED BY <3>1, <3>2, <4>3 DEF TypeOK
    <3>3. CASE x # n
      BY <3>1, <3>3 DEF TypeOK
    <3> QED BY <3>2, <3>3
  <2>2. ASSUME UNCHANGED accepted PROVE accepted'[x] \ accepted[x] \subseteq Valid
    BY <2>2
  <2>3. \/ UNCHANGED accepted
        \/ \E n \in Nodes, m \in Msgs : Accept(n, m)
    BY DEF Next, vars, netVars, SubscribeCollation, SubscribeStep, Subscribe,
           SubscribeFails, StoreSub, RegisterValidator, Return, UnsubscribeCollation,
           UnsubscribeStep, CancelSub, DeleteSub, CheckSubscribed, PublishFails, SenderFails,
           BroadcastCollation, PublishCollation, Published, Send, Publish, ValidateStep, Reject
  <2> QED BY <2>1, <2>2, <2>3
<1> QED BY <1>1, JudgeAlways, PTL DEF Spec, OnlyJudged

=============================================================================
