---------------------------- MODULE Session_proofs ----------------------------
(***************************************************************************)
(* Proofs about Session, for any callers, command lines and shards, and    *)
(* however often the server is signalled or stopped.                       *)
(***************************************************************************)
EXTENDS Session, SequenceTheorems, TLAPS

\* A process that calls or has called does so with a proper command line.
LineInv ==
    \A c \in Callers :
       cli[c] \in {"calling", "waiting", "success", "refused"} => line[c] \in Lines[c] /\ runClient(line[c])

TypeInv == TypeOK /\ LineInv

-----------------------------------------------------------------------------
(* What the arguments of a proper command line are *)

LEMMA NamedNat ==
    ASSUME NEW c \in Callers, NEW l \in Lines[c], runClient(l)
    PROVE  l \in Seq(STRING) /\ Named(l) \subseteq Nat
BY LinesAssumption

LEMMA OwnShards ==
    ASSUME NEW c \in Callers, NEW d \in Callers, c # d,
           NEW l \in Lines[c], NEW k \in Lines[d], runClient(l), runClient(k)
    PROVE  Named(l) \cap Named(k) = {}
<1>1. \A s \in Named(l), t \in Named(k) : s \div 8 # t \div 8
  BY LinesAssumption
<1> QED BY <1>1

LEMMA NumberInt ==
    ASSUME NEW c \in Callers, NEW l \in Lines[c], runClient(l), Cmd(l) = "broadcastcollation"
    PROVE  NumberArg(l) \in Int
<1>1. l \in Seq(STRING) /\ l # << >>
  BY LinesAssumption DEF runClient
<1>2. doBroadcastCollation(Tail(l))
  BY DEF runClient, Args, Plain
<1>3. Len(Tail(l)) = 4 /\ Tail(l)[2] \in DOMAIN Number
  <2>1. Len(Tail(l)) = 4 /\ AllInts(Tail(l))
    BY <1>2 DEF doBroadcastCollation
  <2>2. Tail(l) \in Seq(STRING)
    BY <1>1
  <2>3. 2 \in DOMAIN Tail(l)
    <3>1. DOMAIN Tail(l) = 1 .. Len(Tail(l))
      BY ONLY <2>2, LenProperties, Zenon
    <3>2. 2 \in 1 .. 4
      OBVIOUS
    <3> QED BY <2>1, <3>1, <3>2
  <2> QED BY <2>1, <2>3 DEF AllInts, IsInt
<1>4. Tail(l)[2] = l[3]
  <2>1. Len(Tail(l)) = Len(l) - 1 /\ \A i \in 1 .. Len(Tail(l)) : Tail(l)[i] = l[i + 1]
    BY <1>1, HeadTailProperties
  <2> QED BY <1>3, <2>1
<1> QED BY <1>3, <1>4, LinesAssumption DEF NumberArg

LEMMA AskedType ==
    ASSUME TypeOK, NEW l
    PROVE  Asked(l, listed, subscribed) \in SUBSET Shards
BY DEF TypeOK, Asked

-----------------------------------------------------------------------------
(* Types *)

\* The server's own steps touch its variables only.
LEMMA LifeStep ==
    ASSUME TypeOK,
           \/ MainStep \/ CatcherStep \/ TimerStops \/ SignalKills \/ Signal
    PROVE  /\ LifeTypeOK'
           /\ \A c \in Callers : call'[c] = "idle" <=> call[c] = "idle"
<1> USE LifeAssumption DEF TypeOK, LifeTypeOK
<1>1. CASE MainStep
  BY <1>1 DEF MainStep, NewRpcEventNotifier, makeNode, Listen, SignalNotify, StartCatcher,
              Serve, ServeReturns, Main
<1>2. CASE CatcherStep
  BY <1>2 DEF CatcherStep, CatcherReceives, CatcherStops, Stop
<1>3. CASE TimerStops
  BY <1>3 DEF TimerStops, Stop
<1>4. CASE SignalKills \/ Signal
  BY <1>4 DEF SignalKills, Signal
<1> QED BY <1>1, <1>2, <1>3, <1>4

\* A step of SubscribeShard that handles a shard.
HandlesShard(c, s) ==
    /\ s \in todo[c] \cup late[c]
    /\ UNCHANGED <<lifeVars, cliVars, readVars>> /\ Observe
    /\ HandleShard(c, s)

\* A call that has to change a shard lists it or strikes it out first, ...
Lists(c, s) ==
    /\ s \in todo[c] /\ late[c] = {}
    /\ IF Cmd(line[c]) = "subshard" THEN s \in Shards \ listed /\ listed' = listed \cup {s}
                                   ELSE s \in listed /\ listed' = listed \ {s}
    /\ todo' = [todo EXCEPT ![c] = @ \ {s}]
    /\ late' = [late EXCEPT ![c] = {s}]
    /\ subscribed' = subscribed /\ halfway' = halfway

\* ... and the subscription follows ...
Follows(c, s) ==
    /\ s \in late[c]
    /\ subscribed' = IF Cmd(line[c]) = "subshard" THEN subscribed \cup {s} ELSE subscribed \ {s}
    /\ late' = [late EXCEPT ![c] = {}]
    /\ todo' = todo /\ listed' = listed /\ halfway' = halfway \ {s}

\* ... or fails to.
Abandons(c, s) ==
    /\ s \in late[c]
    /\ late' = [late EXCEPT ![c] = {}]
    /\ todo' = todo /\ listed' = listed /\ subscribed' = subscribed
    /\ halfway' = halfway \cup {s}

\* There is nothing to change.
Passes(c, s) ==
    /\ s \in todo[c] /\ late[c] = {}
    /\ IF Cmd(line[c]) = "subshard" THEN s \in listed \/ s \notin Shards ELSE s \notin listed
    /\ todo' = [todo EXCEPT ![c] = @ \ {s}]
    /\ listed' = listed /\ subscribed' = subscribed /\ late' = late /\ halfway' = halfway

\* What a step of SubscribeShard does: Membership's actions, for this module's
\* state.
LEMMA HandleEffect ==
    ASSUME TypeInv, NEW c \in Callers, NEW s, Subscribing(c), HandlesShard(c, s)
    PROVE  Lists(c, s) \/ Follows(c, s) \/ Abandons(c, s) \/ Passes(c, s)
<1>1. line[c] # << >>
  <2>1. cli[c] = "waiting"
    BY DEF TypeInv, TypeOK, Subscribing, Serving, Running
  <2> QED BY <2>1 DEF TypeInv, LineInv, runClient
<1> DEFINE o == [d \in Callers |-> IF line[d] # << >> /\ Cmd(line[d]) = "subshard"
                                    THEN "listen" ELSE "unlisten"]
<1>2. (o[c] = "listen") <=> (Cmd(line[c]) = "subshard")
  BY <1>1
<1>3. Node!PassOver(c, s) /\ halfway' = halfway => Passes(c, s)
  BY <1>2 DEF Node!PassOver, Node!Idle, Passes
<1>4. Node!List(c, s) /\ halfway' = halfway => Lists(c, s)
  BY <1>2 DEF Node!List, Node!Idle, Node!Change, Lists
<1>5. Node!Follow(c, s) /\ halfway' = halfway \ {s} => Follows(c, s)
  BY <1>2 DEF Node!Follow, Node!Change, Follows
<1>6. Node!Abandon(c, s) /\ halfway' = halfway \cup {s} => Abandons(c, s)
  BY DEF Node!Abandon, Abandons
<1> QED BY <1>3, <1>4, <1>5, <1>6 DEF HandlesShard, HandleShard

LEMMA TypeStep == TypeInv /\ [Next]_vars => TypeInv'
<1> SUFFICES ASSUME TypeInv, [Next]_vars PROVE TypeInv'
  OBVIOUS
<1>a. TypeOK /\ LineInv
  BY DEF TypeInv
<1>1. ASSUME NEW c \in Callers, NEW l \in Lines[c], Launch(c, l) PROVE TypeInv'
  <2>1. l \in Seq(STRING) /\ << >> \in Seq(STRING)
    BY LinesAssumption
  <2> QED BY <1>1, <1>a, <2>1 DEF Launch, Ended, TypeInv, TypeOK, LineInv, LifeTypeOK, lifeVars, nodeVars
<1>2. ASSUME NEW c \in Callers, Call(c) PROVE TypeInv'
  <2> DEFINE l == line[c]
             n == IF Cmd(l) = "broadcastcollation" /\ NumberArg(l) > 0 THEN NumberArg(l) ELSE 0
             sc == IF Cmd(l) = "getsubshard" THEN Shards ELSE {}
             as == Asked(l, listed, subscribed)
  <2>1. l \in Lines[c] /\ runClient(l)
    BY <1>2, <1>a DEF Call, LineInv
  <2>2. Named(l) \in SUBSET Nat /\ n \in Nat /\ sc \in SUBSET Shards /\ as \in SUBSET Shards
    BY <1>a, <2>1, NamedNat, NumberInt, AskedType
  <2>3. /\ cli[c] = "calling" /\ cli' = [cli EXCEPT ![c] = "waiting"]
        /\ call' = [call EXCEPT ![c] = "running"]
        /\ UNCHANGED <<main, catcher, asleep, stopped, sent, line, listed, subscribed, late, shown,
                       halfway>>
        /\ todo' = [todo EXCEPT ![c] = Named(l)] /\ scan' = [scan EXCEPT ![c] = sc]
        /\ left' = [left EXCEPT ![c] = n]
        /\ ever' = [ever EXCEPT ![c] = as] /\ always' = [always EXCEPT ![c] = as]
    BY <1>2 DEF Call, Accept
  <2> HIDE DEF n, sc, as
  <2>4. TypeOK'
    BY <1>a, <2>2, <2>3 DEF TypeOK, LifeTypeOK
  <2>5. LineInv'
    BY <1>a, <2>1, <2>3 DEF TypeOK, LineInv
  <2> QED BY <2>4, <2>5 DEF TypeInv
<1>3. ASSUME NEW c \in Callers, NoServer(c) PROVE TypeInv'
  BY <1>3, <1>a DEF NoServer, TypeInv, TypeOK, LineInv, LifeTypeOK, lifeVars, nodeVars, readVars, histVars
<1>4. ASSUME NEW c \in Callers, Receive(c) \/ Disconnected(c) PROVE TypeInv'
  <2>1. PICK how \in {"success", "refused", "failed", "lost"} : Exit(c, how)
    BY <1>4 DEF Receive, Disconnected
  <2>2. TypeOK'
    BY <1>a, <2>1 DEF Exit, TypeOK, LifeTypeOK, histVars
  <2>3. LineInv'
    BY <1>a, <2>1 DEF Exit, TypeOK, LineInv
  <2> QED BY <2>2, <2>3 DEF TypeInv
<1>5. ASSUME NEW c \in Callers, NEW s, Subscribing(c), HandlesShard(c, s) PROVE TypeInv'
  <2>1. UNCHANGED <<lifeVars, cliVars, readVars>>
    BY <1>5 DEF HandlesShard
  <2>e. Lists(c, s) \/ Follows(c, s) \/ Abandons(c, s) \/ Passes(c, s)
    BY <1>5, HandleEffect
  <2>2. listed' \in SUBSET Shards /\ subscribed' \in SUBSET Shards /\ halfway' \in SUBSET Shards
    BY <1>a, <2>e DEF Lists, Follows, Abandons, Passes, TypeOK
  <2>3. \A d \in Callers : Asked(line[d], listed', subscribed') \in SUBSET Shards
    BY <2>2 DEF Asked
  <2>4. ever' \in [Callers -> SUBSET Shards] /\ always' \in [Callers -> SUBSET Shards]
    BY <1>5, <1>a, <2>3 DEF HandlesShard, Observe, TypeOK
  <2>5. todo' \in [Callers -> SUBSET Nat]
    <3>1. CASE todo' = todo
      BY <1>a, <3>1 DEF TypeOK
    <3>2. CASE todo' = [todo EXCEPT ![c] = @ \ {s}]
      BY <1>a, <3>2 DEF TypeOK
    <3> QED BY <2>e, <3>1, <3>2 DEF Lists, Follows, Abandons, Passes
  <2>6. late' \in [Callers -> SUBSET Shards]
    <3>1. CASE late' = late
      BY <1>a, <3>1 DEF TypeOK
    <3>2. CASE late' = [late EXCEPT ![c] = {}]
      BY <1>a, <3>2 DEF TypeOK
    <3>3. CASE late' = [late EXCEPT ![c] = {s}] /\ s \in Shards
      BY <1>a, <3>3 DEF TypeOK
    <3>4. listed \subseteq Shards
      BY <1>a DEF TypeOK
    <3> QED BY <2>e, <3>1, <3>2, <3>3, <3>4 DEF Lists, Follows, Abandons, Passes
  <2> QED BY <1>a, <2>1, <2>2, <2>4, <2>5, <2>6
          DEF TypeInv, TypeOK, LineInv, LifeTypeOK, lifeVars, cliVars, readVars
<1>6. ASSUME NEW c \in Callers, NEW r \in {"ok", "refused", "error"}, Reply(c, r),
             UNCHANGED <<cliVars, nodeVars, readVars, histVars>>
      PROVE  TypeInv'
  BY <1>6, <1>a DEF Reply, Running, TypeInv, TypeOK, LineInv, LifeTypeOK, cliVars, nodeVars, readVars, histVars
<1>7. ASSUME NEW c \in Callers, Halt(c) PROVE TypeInv'
  BY <1>7, <1>a DEF Halt, StopServer, Running, TypeInv, TypeOK, LineInv, LifeTypeOK, cliVars, nodeVars, readVars, histVars
<1>8. ASSUME NEW c \in Callers, HandlerPanics(c) PROVE TypeInv'
  BY <1>8, <1>a DEF HandlerPanics, TypeInv, TypeOK, LineInv, LifeTypeOK, cliVars, nodeVars, readVars, histVars
<1>9. ASSUME NEW c \in Callers, GetSubscribedShard(c) PROVE TypeInv'
  <2>1. CASE scan[c] = {}
    BY <1>6, <1>9, <2>1 DEF GetSubscribedShard, readVars
  <2>2. CASE scan[c] # {}
    <3> DEFINE t == CHOOSE u \in scan[c] : \A v \in scan[c] : u <= v
               sh == {t} \cap listed
    <3>1. /\ shown' = [shown EXCEPT ![c] = @ \cup sh]
          /\ scan' = [scan EXCEPT ![c] = @ \ {t}]
          /\ UNCHANGED <<lifeVars, left, cliVars, nodeVars, histVars>>
      BY <1>9, <2>2 DEF GetSubscribedShard
    <3>2. sh \in SUBSET Shards
      BY <1>a DEF TypeOK
    <3> HIDE DEF t, sh
    <3>3. shown' \in [Callers -> SUBSET Shards] /\ scan' \in [Callers -> SUBSET Shards]
      BY <1>a, <3>1, <3>2 DEF TypeOK
    <3> QED BY <1>a, <3>1, <3>3
            DEF TypeInv, TypeOK, LineInv, LifeTypeOK, lifeVars, cliVars, nodeVars, histVars
  <2> QED BY <2>1, <2>2
<1>10. ASSUME NEW c \in Callers, BroadcastCollation(c) PROVE TypeInv'
  <2>1. CASE UNCHANGED left
    <3>1. PICK r \in {"ok", "refused", "error"} : Reply(c, r)
      BY <1>10, <1>a, <2>1 DEF BroadcastCollation, TypeOK
    <3> QED BY <1>6, <1>10, <2>1, <3>1 DEF BroadcastCollation, readVars
  <2>2. CASE left[c] > 0 /\ left' = [left EXCEPT ![c] = @ - 1] /\ UNCHANGED lifeVars
    BY <1>10, <1>a, <2>2
    DEF BroadcastCollation, TypeInv, TypeOK, LineInv, LifeTypeOK, lifeVars, cliVars, nodeVars, histVars
  <2> QED BY <1>10, <2>1, <2>2 DEF BroadcastCollation
<1>11. ASSUME NEW c \in Callers, SubscribeShard(c) PROVE TypeInv'
  <2>1. CASE \E s \in todo[c] \cup late[c] : HandlesShard(c, s)
    BY <1>5, <1>11, <2>1 DEF SubscribeShard
  <2>2. CASE Reply(c, "ok") /\ UNCHANGED <<cliVars, nodeVars, readVars, histVars>>
    BY <1>6, <2>2
  <2> QED BY <1>11, <2>1, <2>2 DEF SubscribeShard, HandlesShard
<1>12. ASSUME NEW c \in Callers, Look(c) \/ Connect(c) PROVE TypeInv'
  BY <1>6, <1>12 DEF Look, Connect
<1>13. ASSUME \/ ServerStep(MainStep) \/ ServerStep(CatcherStep) \/ ServerStep(TimerStops)
              \/ ServerStep(SignalKills) \/ ServerStep(Signal)
       PROVE  TypeInv'
  <2>1. LifeTypeOK' /\ \A c \in Callers : call'[c] = "idle" <=> call[c] = "idle"
    BY <1>13, <1>a, LifeStep DEF ServerStep
  <2> QED BY <1>13, <1>a, <2>1
          DEF ServerStep, TypeInv, TypeOK, LineInv, cliVars, nodeVars, readVars, histVars
<1>14. CASE UNCHANGED vars
  BY <1>14, <1>a
  DEF vars, TypeInv, TypeOK, LineInv, LifeTypeOK, lifeVars, cliVars, nodeVars, readVars, histVars
<1> QED
  BY <1>1, <1>2, <1>3, <1>4, <1>7, <1>8, <1>9, <1>10, <1>11, <1>12, <1>13, <1>14
  DEF Next, ClientStep, HandlerStep

LEMMA TypeAlways == Spec => []TypeInv
<1>1. Init => TypeInv
  <2> SUFFICES ASSUME Init PROVE TypeInv
    OBVIOUS
  <2>1. line \in [Callers -> Seq(STRING)]
    BY DEF Init
  <2>2. LifeTypeOK
    <3>1. sent \in 0 .. Signals /\ asleep \in Nat
      BY LifeAssumption DEF Init, LifeInit
    <3>2. call \in [Callers -> {"idle", "running", "ok", "refused", "error", "cut"}]
      BY DEF Init, LifeInit
    <3> QED BY <3>1, <3>2 DEF Init, LifeInit, LifeTypeOK
  <2>3. LineInv
    BY DEF Init, LineInv
  <2>4. TypeOK
    BY <2>1, <2>2 DEF Init, LifeInit, TypeOK
  <2> QED BY <2>3, <2>4 DEF TypeInv
<1> QED BY <1>1, TypeStep, PTL DEF Spec

\* Every reachable state is well typed, for any callers, lines and shards; in
\* particular a call is under way exactly for a process that waits for it.
THEOREM TypeCorrect == Spec => []TypeOK
<1>1. TypeInv => TypeOK
  BY DEF TypeInv
<1> QED BY <1>1, TypeAlways, PTL

-----------------------------------------------------------------------------
(* What a step can do to the calls under way *)

\* The server starts, is signalled, stops or ends; Stop cuts every call.
ServerMoves ==
    /\ UNCHANGED <<cliVars, nodeVars, readVars, histVars>>
    /\ Down => Down'
    /\ \/ call' = call /\ stopped' = stopped
       \/ stopped' /\ call' = [c \in Callers |-> IF call[c] = "idle" THEN "idle" ELSE "cut"]

\* A handler returns, having come to its end.
Answers(c, r) ==
    /\ Running(c) /\ call' = [call EXCEPT ![c] = r]
    /\ UNCHANGED <<main, stopped, cliVars, nodeVars, readVars, histVars>>
    /\ Cmd(line[c]) = "getsubshard" => r = "ok" /\ scan[c] = {}
    /\ Cmd(line[c]) = "broadcastcollation" =>
          /\ r = "ok" => left[c] = 0
          /\ r = "refused" => ShardArg(line[c]) \notin subscribed
    /\ Cmd(line[c]) \in {"subshard", "unsubshard"} => r = "ok" /\ todo[c] = {} /\ late[c] = {}

\* GetSubscribedShard looks at shard t.
Finds(c, t) ==
    /\ Serving(c, "getsubshard")
    /\ shown' = [shown EXCEPT ![c] = @ \cup ({t} \cap listed)]
    /\ scan' = [scan EXCEPT ![c] = @ \ {t}]
    /\ UNCHANGED <<lifeVars, left, cliVars, nodeVars, histVars>>

\* BroadcastCollation sends a collation.
Sends(c) ==
    /\ Serving(c, "broadcastcollation") /\ ShardArg(line[c]) \in subscribed
    /\ left[c] > 0 /\ left' = [left EXCEPT ![c] = @ - 1]
    /\ UNCHANGED <<lifeVars, cliVars, nodeVars, scan, shown, histVars>>

\* The process of c ends.
Leaves(c, how) ==
    /\ Exit(c, how)
    /\ \/ how = "success" /\ call[c] = "ok"
       \/ how = "refused" /\ call[c] = "refused"
       \/ how = "failed" /\ call[c] = "error"
       \/ how = "lost" /\ (call[c] = "cut" \/ Down)

CallerMoves(c) ==
    \/ \E l \in Lines[c] : Launch(c, l)
    \/ Call(c) \/ NoServer(c)
    \/ \E how \in {"success", "refused", "failed", "lost"} : Leaves(c, how)
    \/ \E s : Subscribing(c) /\ HandlesShard(c, s)
    \/ \E r \in {"ok", "refused", "error"} : Answers(c, r)
    \/ \E t : Finds(c, t)
    \/ Sends(c)

LEMMA StepCases ==
    ASSUME TypeInv, [Next]_vars
    PROVE  ServerMoves \/ \E c \in Callers : CallerMoves(c)
<1>1. ASSUME NEW c \in Callers, ClientStep(c) PROVE CallerMoves(c)
  <2>1. CASE Call(c) \/ NoServer(c)
    BY <2>1 DEF CallerMoves
  <2>2. CASE Receive(c) \/ Disconnected(c)
    <3>1. \E how \in {"success", "refused", "failed", "lost"} : Leaves(c, how)
      BY <2>2 DEF Receive, Disconnected, Leaves
    <3> QED BY <3>1 DEF CallerMoves
  <2> QED BY <1>1, <2>1, <2>2 DEF ClientStep
<1>2. ASSUME NEW c \in Callers, HandlerStep(c) PROVE CallerMoves(c) \/ ServerMoves
  <2>1. CASE SubscribeShard(c)
    <3>1. CASE Reply(c, "ok") /\ todo[c] = {} /\ late[c] = {} /\ UNCHANGED <<cliVars, nodeVars, readVars, histVars>>
      <4>1. Answers(c, "ok")
        BY <2>1, <3>1 DEF SubscribeShard, Subscribing, Serving, Reply, Answers
      <4> QED BY <4>1 DEF CallerMoves
    <3>2. CASE \E s \in todo[c] \cup late[c] : Subscribing(c) /\ HandlesShard(c, s)
      BY <3>2 DEF CallerMoves
    <3> QED BY <2>1, <3>1, <3>2 DEF SubscribeShard, HandlesShard
  <2>2. CASE GetSubscribedShard(c)
    <3>1. CASE scan[c] = {}
      <4>1. Answers(c, "ok")
        BY <2>2, <3>1 DEF GetSubscribedShard, Serving, Reply, Answers, readVars
      <4> QED BY <4>1 DEF CallerMoves
    <3>2. CASE scan[c] # {}
      <4>1. \E t : Finds(c, t)
        BY <2>2, <3>2 DEF GetSubscribedShard, Finds
      <4> QED BY <4>1 DEF CallerMoves
    <3> QED BY <3>1, <3>2
  <2>3. CASE BroadcastCollation(c)
    <3>1. Sends(c) \/ Answers(c, "ok") \/ Answers(c, "refused") \/ Answers(c, "error")
      BY <2>3 DEF BroadcastCollation, Serving, Reply, Sends, Answers, readVars, lifeVars
    <3> QED BY <3>1 DEF CallerMoves
  <2>4. CASE HandlerPanics(c)
    BY <2>4 DEF HandlerPanics, ServerMoves, Down
  <2>5. CASE Look(c) \/ Connect(c) \/ Halt(c)
    <3>1. Answers(c, "ok") \/ Answers(c, "error")
      BY <2>5 DEF Look, Connect, Halt, ReadOnly, Serving, Reply, StopServer, Answers
    <3> QED BY <3>1 DEF CallerMoves
  <2> QED BY <1>2, <2>1, <2>2, <2>3, <2>4, <2>5 DEF HandlerStep
<1>3. ASSUME \/ ServerStep(MainStep) \/ ServerStep(CatcherStep) \/ ServerStep(TimerStops)
             \/ ServerStep(SignalKills) \/ ServerStep(Signal)
      PROVE  ServerMoves
  <2> SUFFICES ASSUME MainStep \/ CatcherStep \/ TimerStops \/ SignalKills \/ Signal
               PROVE  /\ Down => Down'
                      /\ \/ call' = call /\ stopped' = stopped
                         \/ Stop
    BY <1>3 DEF ServerStep, ServerMoves, Stop
  <2>1. CASE MainStep
    BY <2>1 DEF MainStep, NewRpcEventNotifier, makeNode, Listen, SignalNotify, StartCatcher,
                Serve, ServeReturns, Main, Down
  <2>2. CASE CatcherStep \/ TimerStops
    BY <2>2 DEF CatcherStep, CatcherReceives, CatcherStops, TimerStops, Down
  <2>3. CASE SignalKills \/ Signal
    BY <2>3 DEF SignalKills, Signal, Down
  <2> QED BY <2>1, <2>2, <2>3
<1>4. CASE UNCHANGED vars
  BY <1>4 DEF vars, lifeVars, ServerMoves, Down
<1>5. ASSUME NEW c \in Callers, NEW l \in Lines[c], Launch(c, l) PROVE CallerMoves(c)
  BY <1>5 DEF CallerMoves
<1> QED BY <1>1, <1>2, <1>3, <1>4, <1>5 DEF Next

-----------------------------------------------------------------------------
(* ReplyIsTrue *)

\* The history of a call that runs brackets what it asks about.
Brackets(c) ==
    Running(c) => /\ always[c] \subseteq Asked(line[c], listed, subscribed)
                  /\ Asked(line[c], listed, subscribed) \subseteq ever[c]

\* What a scan has found was true once, what it has passed was not all along.
ScanIsTrue(c) ==
    Cmd(line[c]) = "getsubshard" =>
       /\ cli[c] = "calling" => shown[c] = {}
       /\ call[c] \in {"running", "ok"} \/ cli[c] = "success" => shown[c] \subseteq ever[c]
       /\ call[c] = "running" => always[c] \subseteq shown[c] \cup scan[c]
       /\ call[c] = "ok" \/ cli[c] = "success" => always[c] \subseteq shown[c]

\* A batch that is not whole any more, or is refused, has met the shard's state.
BatchIsTrue(c) ==
    Cmd(line[c]) = "broadcastcollation" =>
       /\ call[c] = "running" /\ NumberArg(line[c]) > 0
             => left[c] = NumberArg(line[c]) \/ ShardArg(line[c]) \in ever[c]
       /\ (call[c] = "ok" \/ cli[c] = "success") /\ NumberArg(line[c]) > 0
             => ShardArg(line[c]) \in ever[c]
       /\ call[c] = "refused" \/ cli[c] = "refused" => ShardArg(line[c]) \notin always[c]

ReplyInv == \A c \in Callers : Brackets(c) /\ ScanIsTrue(c) /\ BatchIsTrue(c)

\* A caller whose own variables do not change, and whose question has the same
\* answer, keeps what it knows; its call may be cut and the server may end.
LEMMA ReplyFrame ==
    ASSUME TypeInv, ReplyInv, NEW c \in Callers, Down => Down',
           cli'[c] = cli[c], line'[c] = line[c], scan'[c] = scan[c], shown'[c] = shown[c],
           left'[c] = left[c], ever'[c] = ever[c], always'[c] = always[c],
           listed' = listed, subscribed' = subscribed,
           call'[c] = call[c] \/ call'[c] \in {"idle", "cut"}
    PROVE  (Brackets(c) /\ ScanIsTrue(c) /\ BatchIsTrue(c))'
<1>1. Brackets(c)'
  BY DEF ReplyInv, Brackets, Running, Asked, ShardArg, Cmd
<1>2. ScanIsTrue(c)'
  BY DEF ReplyInv, ScanIsTrue, Cmd
<1>3. BatchIsTrue(c)'
  BY DEF ReplyInv, BatchIsTrue, Cmd, NumberArg, ShardArg
<1> QED BY <1>1, <1>2, <1>3

LEMMA ReplyStep == TypeInv /\ ReplyInv /\ [Next]_vars => ReplyInv'
<1> SUFFICES ASSUME TypeInv, ReplyInv, [Next]_vars, NEW c \in Callers
             PROVE  (Brackets(c) /\ ScanIsTrue(c) /\ BatchIsTrue(c))'
  BY DEF ReplyInv
<1>t. TypeOK /\ TypeInv'
  BY TypeStep DEF TypeInv
<1>i. Brackets(c) /\ ScanIsTrue(c) /\ BatchIsTrue(c)
  BY DEF ReplyInv
<1>1. CASE ServerMoves
  <2>1. /\ Down => Down'
        /\ cli' = cli /\ line' = line /\ scan' = scan /\ shown' = shown /\ left' = left
        /\ ever' = ever /\ always' = always /\ listed' = listed /\ subscribed' = subscribed
    BY <1>1 DEF ServerMoves, cliVars, nodeVars, readVars, histVars
  <2>2. call'[c] = call[c] \/ call'[c] \in {"idle", "cut"}
    BY <1>1 DEF ServerMoves
  <2> QED BY <2>1, <2>2, ReplyFrame
<1>2. ASSUME NEW e \in Callers, NEW l \in Lines[e], Launch(e, l)
      PROVE  (Brackets(c) /\ ScanIsTrue(c) /\ BatchIsTrue(c))'
  <2>1. CASE e # c
    BY <1>2, <1>t, <2>1, ReplyFrame DEF Launch, TypeOK, LifeTypeOK, lifeVars, nodeVars, Down
  <2>2. CASE e = c
    <3>1. call'[c] = "idle" /\ cli'[c] \in {"calling", "none", "usage"} /\ shown'[c] = {}
      BY <1>2, <1>t, <2>2 DEF Launch, Ended, TypeOK, lifeVars
    <3> QED BY <3>1 DEF Brackets, Running, ScanIsTrue, BatchIsTrue
  <2> QED BY <2>1, <2>2
<1>3. ASSUME NEW e \in Callers, Call(e)
      PROVE  (Brackets(c) /\ ScanIsTrue(c) /\ BatchIsTrue(c))'
  <2>1. CASE e # c
    BY <1>3, <1>t, <2>1, ReplyFrame DEF Call, Accept, TypeOK, LifeTypeOK, Down
  <2>2. CASE e = c
    <3> DEFINE as == Asked(line[c], listed, subscribed)
    <3>1. /\ cli[c] = "calling" /\ cli'[c] = "waiting" /\ call'[c] = "running"
          /\ line' = line /\ listed' = listed /\ subscribed' = subscribed /\ shown' = shown
          /\ ever'[c] = as /\ always'[c] = as
          /\ Cmd(line[c]) = "getsubshard" => scan'[c] = Shards
          /\ Cmd(line[c]) = "broadcastcollation" /\ NumberArg(line[c]) > 0
                => left'[c] = NumberArg(line[c])
      BY <1>3, <1>t, <2>2 DEF Call, Accept, TypeOK, LifeTypeOK
    <3>2. as \in SUBSET Shards
      BY <1>t, AskedType
    <3> HIDE DEF as
    <3>3. Brackets(c)'
      BY <3>1 DEF Brackets, as, Asked, ShardArg, Cmd
    <3>4. ScanIsTrue(c)'
      BY <1>i, <3>1, <3>2 DEF ScanIsTrue, Cmd
    <3>5. BatchIsTrue(c)'
      BY <3>1 DEF BatchIsTrue, Cmd, NumberArg, ShardArg
    <3> QED BY <3>3, <3>4, <3>5
  <2> QED BY <2>1, <2>2
<1>4. ASSUME NEW e \in Callers, NoServer(e)
      PROVE  (Brackets(c) /\ ScanIsTrue(c) /\ BatchIsTrue(c))'
  <2>1. CASE e # c
    BY <1>4, <1>t, <2>1, ReplyFrame
    DEF NoServer, TypeOK, LifeTypeOK, lifeVars, nodeVars, readVars, histVars, Down
  <2>2. CASE e = c
    <3>1. call'[c] = "idle" /\ cli'[c] = "lost"
      BY <1>4, <1>t, <2>2 DEF NoServer, TypeOK, lifeVars
    <3> QED BY <3>1 DEF Brackets, Running, ScanIsTrue, BatchIsTrue
  <2> QED BY <2>1, <2>2
<1>5. ASSUME NEW e \in Callers, NEW how \in {"success", "refused", "failed", "lost"}, Leaves(e, how)
      PROVE  (Brackets(c) /\ ScanIsTrue(c) /\ BatchIsTrue(c))'
  <2>0. Exit(e, how)
    BY <1>5 DEF Leaves
  <2>1. CASE e # c
    BY <1>t, <2>0, <2>1, ReplyFrame DEF Exit, TypeOK, LifeTypeOK, histVars, Down
  <2>2. CASE e = c
    <3>1. /\ call'[c] = "idle" /\ cli'[c] = how /\ shown' = shown /\ ever' = ever /\ always' = always
          /\ how \in {"success", "refused"} => line' = line
      BY <1>t, <2>0, <2>2 DEF Exit, TypeOK, LifeTypeOK, histVars
    <3>2. CASE how = "success"
      <4>1. call[c] = "ok" /\ line' = line
        BY <1>5, <2>2, <3>1, <3>2 DEF Leaves
      <4> QED BY <1>i, <3>1, <3>2, <4>1
              DEF Brackets, Running, ScanIsTrue, BatchIsTrue, Cmd, NumberArg, ShardArg
    <3>3. CASE how = "refused"
      <4>1. call[c] = "refused" /\ line' = line
        BY <1>5, <2>2, <3>1, <3>3 DEF Leaves
      <4> QED BY <1>i, <3>1, <3>3, <4>1
              DEF Brackets, Running, ScanIsTrue, BatchIsTrue, Cmd, NumberArg, ShardArg
    <3>4. CASE how \in {"failed", "lost"}
      BY <3>1, <3>4 DEF Brackets, Running, ScanIsTrue, BatchIsTrue
    <3> QED BY <3>2, <3>3, <3>4
  <2> QED BY <2>1, <2>2
<1>6. ASSUME NEW e \in Callers, NEW s, Subscribing(e), HandlesShard(e, s)
      PROVE  (Brackets(c) /\ ScanIsTrue(c) /\ BatchIsTrue(c))'
  <2> DEFINE now == Asked(line[c], listed', subscribed')
  <2>1. /\ main' = main /\ call' = call /\ cli' = cli /\ line' = line /\ scan' = scan
        /\ shown' = shown /\ left' = left /\ (Down' <=> Down)
    BY <1>6 DEF HandlesShard, lifeVars, cliVars, readVars, Down
  <2>2. /\ ever'[c] = IF Running(c) THEN ever[c] \cup now ELSE ever[c]
        /\ always'[c] = IF Running(c) THEN always[c] \cap now ELSE always[c]
    BY <1>6 DEF HandlesShard, Observe
  <2>3. Brackets(c)'
    <3>1. Running(c)' <=> Running(c)
      BY <2>1 DEF Running
    <3>2. Asked(line[c], listed, subscribed)' = now
      BY <2>1 DEF Asked, Cmd, ShardArg
    <3> HIDE DEF now
    <3> QED BY <2>1, <2>2, <3>1, <3>2 DEF Brackets
  <2> HIDE DEF now
  <2>4. ScanIsTrue(c)'
    BY <1>i, <2>1, <2>2 DEF ScanIsTrue, Cmd
  <2>5. BatchIsTrue(c)'
    BY <1>i, <2>1, <2>2 DEF BatchIsTrue, Cmd, NumberArg, ShardArg
  <2> QED BY <2>3, <2>4, <2>5
<1>7. ASSUME NEW e \in Callers, NEW r \in {"ok", "refused", "error"}, Answers(e, r)
      PROVE  (Brackets(c) /\ ScanIsTrue(c) /\ BatchIsTrue(c))'
  <2>1. /\ main' = main /\ cli' = cli /\ line' = line /\ scan' = scan /\ shown' = shown /\ left' = left
        /\ ever' = ever /\ always' = always /\ listed' = listed /\ subscribed' = subscribed
    BY <1>7 DEF Answers, cliVars, nodeVars, readVars, histVars
  <2>2. CASE e # c
    <3>1. call'[c] = call[c] /\ (Down => Down')
      BY <1>7, <1>t, <2>1, <2>2 DEF Answers, TypeOK, LifeTypeOK, Down
    <3> QED BY <2>1, <3>1, ReplyFrame
  <2>3. CASE e = c
    <3>1. Running(c) /\ call[c] = "running" /\ call'[c] = r
      BY <1>7, <1>t, <2>3 DEF Answers, Running, TypeOK, LifeTypeOK
    <3>2. Brackets(c)'
      BY <3>1 DEF Brackets, Running
    <3>3. ScanIsTrue(c)'
      BY <1>7, <1>i, <1>t, <2>1, <2>3, <3>1 DEF Answers, ScanIsTrue, Cmd, TypeOK
    <3>4. BatchIsTrue(c)'
      <4>1. CASE Cmd(line[c]) = "broadcastcollation"
        <5>1. /\ r = "ok" => left[c] = 0
              /\ r = "refused" => ShardArg(line[c]) \notin subscribed
          BY <1>7, <2>3, <4>1 DEF Answers
        <5>2. r = "refused" => ShardArg(line[c]) \notin always[c]
          BY <1>i, <3>1, <4>1, <5>1 DEF Brackets, Asked
        <5>3. call[c] # "idle" <=> cli[c] = "waiting"
          BY <1>t DEF TypeOK
        <5> QED BY <1>i, <2>1, <3>1, <4>1, <5>1, <5>2, <5>3 DEF BatchIsTrue, Cmd, NumberArg, ShardArg
      <4>2. CASE Cmd(line[c]) # "broadcastcollation"
        BY <2>1, <4>2 DEF BatchIsTrue, Cmd
      <4> QED BY <4>1, <4>2
    <3> QED BY <3>2, <3>3, <3>4
  <2> QED BY <2>2, <2>3
<1>8. ASSUME NEW e \in Callers, NEW t, Finds(e, t)
      PROVE  (Brackets(c) /\ ScanIsTrue(c) /\ BatchIsTrue(c))'
  <2>1. /\ main' = main /\ call' = call /\ cli' = cli /\ line' = line /\ left' = left
        /\ ever' = ever /\ always' = always /\ listed' = listed /\ subscribed' = subscribed
    BY <1>8 DEF Finds, lifeVars, cliVars, nodeVars, histVars
  <2>2. CASE e # c
    BY <1>8, <1>t, <2>1, <2>2, ReplyFrame DEF Finds, TypeOK, Down
  <2>3. CASE e = c
    <3>1. /\ Running(c) /\ call[c] = "running" /\ Cmd(line[c]) = "getsubshard"
          /\ shown'[c] = shown[c] \cup ({t} \cap listed) /\ scan'[c] = scan[c] \ {t}
          /\ cli[c] = "waiting"
      BY <1>8, <1>t, <2>3 DEF Finds, Serving, Running, TypeOK
    <3>2. always[c] \subseteq listed /\ listed \subseteq ever[c]
      BY <1>i, <3>1 DEF Brackets, Asked
    <3>3. Brackets(c)'
      BY <1>i, <2>1 DEF Brackets, Running, Down, Asked, Cmd, ShardArg
    <3>4. ScanIsTrue(c)'
      BY <1>i, <2>1, <3>1, <3>2 DEF ScanIsTrue, Cmd
    <3>5. BatchIsTrue(c)'
      BY <2>1, <3>1 DEF BatchIsTrue, Cmd
    <3> QED BY <3>3, <3>4, <3>5
  <2> QED BY <2>2, <2>3
<1>9. ASSUME NEW e \in Callers, Sends(e)
      PROVE  (Brackets(c) /\ ScanIsTrue(c) /\ BatchIsTrue(c))'
  <2>1. /\ main' = main /\ call' = call /\ cli' = cli /\ line' = line /\ scan' = scan /\ shown' = shown
        /\ ever' = ever /\ always' = always /\ listed' = listed /\ subscribed' = subscribed
    BY <1>9 DEF Sends, lifeVars, cliVars, nodeVars, histVars
  <2>2. CASE e # c
    BY <1>9, <1>t, <2>1, <2>2, ReplyFrame DEF Sends, TypeOK, Down
  <2>3. CASE e = c
    <3>1. /\ Running(c) /\ call[c] = "running" /\ Cmd(line[c]) = "broadcastcollation"
          /\ ShardArg(line[c]) \in subscribed
      BY <1>9, <2>3 DEF Sends, Serving, Running
    <3>2. ShardArg(line[c]) \in ever[c]
      BY <1>i, <3>1 DEF Brackets, Asked
    <3>3. Brackets(c)'
      BY <1>i, <2>1 DEF Brackets, Running, Down, Asked, Cmd, ShardArg
    <3>4. ScanIsTrue(c)'
      BY <2>1, <3>1 DEF ScanIsTrue, Cmd
    <3>5. BatchIsTrue(c)'
      BY <1>i, <2>1, <3>1, <3>2 DEF BatchIsTrue, Cmd, NumberArg, ShardArg
    <3> QED BY <3>3, <3>4, <3>5
  <2> QED BY <2>2, <2>3
<1>10. ServerMoves \/ \E e \in Callers : CallerMoves(e)
  BY StepCases
<1> QED
  BY <1>1, <1>2, <1>3, <1>4, <1>5, <1>6, <1>7, <1>8, <1>9, <1>10 DEF CallerMoves

\* Whatever the other clients do meanwhile and however the server fares, status
\* 0 of getsubshard and of broadcastcollation, and a refusal of the latter, tell
\* the truth, for any callers, lines and shards.
THEOREM RepliesAreTrue == Spec => []ReplyIsTrue
<1>1. Init => ReplyInv
  BY DEF Init, LifeInit, ReplyInv, Brackets, Running, ScanIsTrue, BatchIsTrue
<1>2. ReplyInv => ReplyIsTrue
  BY DEF ReplyInv, ReplyIsTrue, ScanIsTrue, BatchIsTrue
<1> QED BY <1>1, <1>2, TypeAlways, ReplyStep, PTL DEF Spec

-----------------------------------------------------------------------------
(* ExitZeroHolds *)

\* Shard s is as command line l wants it, as far as pubsub went along.
InPlace(l, s) ==
    IF Cmd(l) = "subshard" THEN s \in Shards => s \in listed /\ (s \in subscribed \/ s \in halfway)
                           ELSE s \notin listed /\ (s \notin subscribed \/ s \in halfway)

\* Stop cuts every call, and only Stop does.
CutInv ==
    \A c \in Callers : /\ call[c] = "cut" => stopped
                       /\ call[c] \in {"running", "ok", "refused", "error"} => ~stopped

\* A handler deals with the shards its line names; one that has ended cleanly
\* has none in the middle.
NamesInv ==
    \A c \in Callers :
       /\ todo[c] # {} \/ late[c] # {} => cli[c] = "waiting"
       /\ todo[c] \subseteq Named(line[c]) /\ late[c] \subseteq Named(line[c])
       /\ \A s, u \in late[c] : s = u
       /\ call[c] \in {"ok", "refused", "error"} => late[c] = {}

\* While the server is up, list and subscriptions differ only in the middle of a
\* call's shard, and where pubsub has failed.
AgreeInv ==
    ~stopped /\ ~Down =>
       \A s \in Shards : \/ s \in listed <=> s \in subscribed
                         \/ s \in halfway
                         \/ \E c \in Callers : s \in late[c]

\* What a call has dealt with is in place, for its shard in the middle in the
\* list already.
Done(c) ==
    Cmd(line[c]) \in {"subshard", "unsubshard"} =>
       /\ Running(c) => /\ \A s \in Named(line[c]) \ (todo[c] \cup late[c]) : InPlace(line[c], s)
                        /\ \A s \in late[c] : s \in listed <=> Cmd(line[c]) = "subshard"
       /\ call[c] = "ok" \/ cli[c] = "success" => \A s \in Named(line[c]) : InPlace(line[c], s)

DoneInv == \A c \in Callers : Done(c)

ExitInv == CutInv /\ NamesInv /\ AgreeInv /\ DoneInv

LEMMA CutStep == TypeInv /\ CutInv /\ [Next]_vars => CutInv'
<1> SUFFICES ASSUME TypeInv, CutInv, [Next]_vars PROVE CutInv'
  OBVIOUS
<1>t. TypeOK
  BY DEF TypeInv
<1>1. CASE ServerMoves
  BY <1>1, <1>t DEF ServerMoves, CutInv, TypeOK, LifeTypeOK
<1>2. ASSUME NEW c \in Callers, CallerMoves(c) PROVE CutInv'
  <2>1. stopped' = stopped
    BY <1>2 DEF CallerMoves, Launch, Call, Accept, NoServer, Leaves, Exit, HandlesShard, Answers,
                Finds, Sends, lifeVars
  <2>2. \/ call' = call
        \/ call' = [call EXCEPT ![c] = "idle"]
        \/ ~stopped /\ \E r \in {"running", "ok", "refused", "error"} : call' = [call EXCEPT ![c] = r]
    <3>1. CASE \E r \in {"ok", "refused", "error"} : Answers(c, r)
      BY <3>1 DEF Answers, Running, CutInv
    <3>2. CASE Call(c)
      BY <3>2 DEF Call, Accept
    <3>3. CASE \E how \in {"success", "refused", "failed", "lost"} : Leaves(c, how)
      BY <3>3 DEF Leaves, Exit
    <3>4. CASE \/ \E l \in Lines[c] : Launch(c, l)
              \/ NoServer(c) \/ (\E s : HandlesShard(c, s)) \/ (\E t : Finds(c, t)) \/ Sends(c)
      BY <3>4 DEF Launch, NoServer, HandlesShard, Finds, Sends, lifeVars
    <3> QED BY <1>2, <3>1, <3>2, <3>3, <3>4 DEF CallerMoves
  <2>3. \A d \in Callers : \/ call'[d] = call[d]
                           \/ call'[d] = "idle"
                           \/ call'[d] \in {"running", "ok", "refused", "error"} /\ ~stopped
    BY <1>t, <2>2 DEF TypeOK, LifeTypeOK
  <2> QED BY <2>1, <2>3 DEF CutInv
<1> QED BY <1>1, <1>2, StepCases

LEMMA NamesStep == TypeInv /\ NamesInv /\ [Next]_vars => NamesInv'
<1> SUFFICES ASSUME TypeInv, NamesInv, [Next]_vars PROVE NamesInv'
  OBVIOUS
<1>t. TypeOK
  BY DEF TypeInv
<1>1. CASE ServerMoves
  BY <1>1, <1>t DEF ServerMoves, NamesInv, TypeOK, LifeTypeOK, cliVars, nodeVars, Named, Cmd, Args
<1>2. ASSUME NEW c \in Callers, NEW l \in Lines[c], Launch(c, l) PROVE NamesInv'
  <2>1. /\ todo' = todo /\ late' = late /\ call' = call /\ todo[c] = {} /\ late[c] = {}
        /\ \A d \in Callers \ {c} : line'[d] = line[d] /\ cli'[d] = cli[d]
    BY <1>2, <1>t DEF Launch, Ended, NamesInv, nodeVars, lifeVars, TypeOK
  <2> QED BY <2>1 DEF NamesInv
<1>3. ASSUME NEW c \in Callers, Call(c) PROVE NamesInv'
  <2>1. /\ todo' = [todo EXCEPT ![c] = Named(line[c])] /\ late' = late /\ line' = line
        /\ cli' = [cli EXCEPT ![c] = "waiting"] /\ call' = [call EXCEPT ![c] = "running"]
    BY <1>3 DEF Call, Accept
  <2> QED BY <1>t, <2>1 DEF NamesInv, TypeOK, LifeTypeOK
<1>4. ASSUME NEW c \in Callers, NoServer(c) PROVE NamesInv'
  <2>1. /\ todo' = todo /\ late' = late /\ call' = call /\ todo[c] = {} /\ late[c] = {}
        /\ \A d \in Callers \ {c} : line'[d] = line[d] /\ cli'[d] = cli[d]
    BY <1>4, <1>t DEF NoServer, NamesInv, nodeVars, lifeVars, TypeOK
  <2> QED BY <2>1 DEF NamesInv
<1>5. ASSUME NEW c \in Callers, NEW how \in {"success", "refused", "failed", "lost"}, Exit(c, how) PROVE NamesInv'
  <2>1. /\ todo'[c] = {} /\ late'[c] = {}
        /\ \A d \in Callers \ {c} : /\ line'[d] = line[d] /\ cli'[d] = cli[d] /\ call'[d] = call[d]
                                    /\ todo'[d] = todo[d] /\ late'[d] = late[d]
    BY <1>5, <1>t DEF Exit, TypeOK, LifeTypeOK
  <2> QED BY <2>1 DEF NamesInv
<1>6. ASSUME NEW c \in Callers, NEW s, Subscribing(c), HandlesShard(c, s) PROVE NamesInv'
  <2>1. line' = line /\ cli' = cli /\ call' = call
    BY <1>6 DEF HandlesShard, lifeVars, cliVars
  <2>2. cli[c] = "waiting" /\ call[c] = "running"
    BY <1>6, <1>t DEF Subscribing, Serving, Running, TypeOK
  <2>3. /\ \A d \in Callers \ {c} : todo'[d] = todo[d] /\ late'[d] = late[d]
        /\ todo'[c] \subseteq todo[c] /\ late'[c] \subseteq todo[c] \cup late[c]
        /\ late'[c] \subseteq {s} \/ late'[c] = late[c]
    BY <1>6, <1>t, HandleEffect DEF Lists, Follows, Abandons, Passes, TypeOK
  <2> QED BY <2>1, <2>2, <2>3 DEF NamesInv
<1>7. ASSUME NEW c \in Callers, NEW r \in {"ok", "refused", "error"}, Answers(c, r) PROVE NamesInv'
  <2>1. /\ line' = line /\ cli' = cli /\ todo' = todo /\ late' = late
        /\ \A d \in Callers \ {c} : call'[d] = call[d]
    BY <1>7, <1>t DEF Answers, cliVars, nodeVars, TypeOK, LifeTypeOK
  <2>2. late[c] = {}
    <3>1. CASE Cmd(line[c]) \in {"subshard", "unsubshard"}
      BY <1>7, <3>1 DEF Answers
    <3>2. CASE Cmd(line[c]) \notin {"subshard", "unsubshard"}
      BY <3>2 DEF NamesInv, Named
    <3> QED BY <3>1, <3>2
  <2> QED BY <2>1, <2>2 DEF NamesInv
<1>8. ASSUME NEW c \in Callers, (\E t : Finds(c, t)) \/ Sends(c) PROVE NamesInv'
  BY <1>8 DEF Finds, Sends, lifeVars, cliVars, nodeVars, NamesInv
<1> QED BY <1>1, <1>2, <1>3, <1>4, <1>5, <1>6, <1>7, <1>8, StepCases DEF CallerMoves, Leaves

LEMMA AgreeStep == TypeInv /\ ExitInv /\ [Next]_vars => AgreeInv'
<1> SUFFICES ASSUME TypeInv, ExitInv, [Next]_vars, ~stopped', ~Down', NEW s \in Shards
             PROVE  (s \in listed <=> s \in subscribed)' \/ s \in halfway' \/ \E c \in Callers : s \in late'[c]
  BY DEF AgreeInv
<1>t. TypeOK /\ CutInv /\ NamesInv /\ AgreeInv
  BY DEF TypeInv, ExitInv
<1>1. CASE ServerMoves
  BY <1>1, <1>t DEF ServerMoves, AgreeInv, nodeVars, histVars
<1>2. ASSUME NEW c \in Callers, CallerMoves(c)
      PROVE  (s \in listed <=> s \in subscribed)' \/ s \in halfway' \/ \E d \in Callers : s \in late'[d]
  <2>1. stopped' = stopped /\ main' = main
    BY <1>2 DEF CallerMoves, Launch, Call, Accept, NoServer, Leaves, Exit, HandlesShard, Answers,
                Finds, Sends, lifeVars
  <2>2. (s \in listed <=> s \in subscribed) \/ s \in halfway \/ \E d \in Callers : s \in late[d]
    BY <1>t, <2>1 DEF AgreeInv, Down
  <2>3. CASE UNCHANGED <<listed, subscribed, late, halfway>>
    BY <2>2, <2>3
  <2>4. ASSUME NEW how \in {"success", "refused", "failed", "lost"}, Leaves(c, how)
        PROVE  UNCHANGED <<listed, subscribed, late, halfway>>
    <3>1. late[c] = {}
      BY <1>t, <2>1, <2>4 DEF Leaves, CutInv, NamesInv, Down
    <3> QED BY <1>t, <2>4, <3>1 DEF Leaves, Exit, TypeOK, histVars
  <2>5. ASSUME NEW u, Subscribing(c), HandlesShard(c, u)
        PROVE  (s \in listed <=> s \in subscribed)' \/ s \in halfway' \/ \E d \in Callers : s \in late'[d]
    <3>1. Lists(c, u) \/ Follows(c, u) \/ Abandons(c, u) \/ Passes(c, u)
      BY <2>5, HandleEffect
    <3>2. CASE Passes(c, u)
      BY <2>3, <3>2 DEF Passes
    <3>3. CASE Lists(c, u)
      BY <1>t, <2>2, <3>3 DEF Lists, TypeOK
    <3>4. CASE Follows(c, u)
      <4>1. s = u => s \in listed <=> Cmd(line[c]) = "subshard"
        BY <2>5, <3>4 DEF Follows, ExitInv, DoneInv, Done, Subscribing, Serving
      <4>2. CASE s = u
        BY <3>4, <4>1, <4>2 DEF Follows
      <4>3. CASE s # u
        <5>1. late[c] = {u}
          BY <1>t, <3>4 DEF Follows, NamesInv
        <5> QED BY <1>t, <2>2, <3>4, <4>3, <5>1 DEF Follows, TypeOK
      <4> QED BY <4>2, <4>3
    <3>5. CASE Abandons(c, u)
      <4>1. late[c] = {u}
        BY <1>t, <3>5 DEF Abandons, NamesInv
      <4> QED BY <1>t, <2>2, <3>5, <4>1 DEF Abandons, TypeOK
    <3> QED BY <3>1, <3>2, <3>3, <3>4, <3>5
  <2>6. CASE \/ \E l \in Lines[c] : Launch(c, l)
            \/ Call(c) \/ NoServer(c) \/ \E r \in {"ok", "refused", "error"} : Answers(c, r)
            \/ \E t : Finds(c, t)
            \/ Sends(c)
    BY <2>3, <2>6 DEF Launch, Call, NoServer, Answers, Finds, Sends, nodeVars, histVars
  <2> QED BY <1>2, <2>3, <2>4, <2>5, <2>6 DEF CallerMoves
<1> QED BY <1>1, <1>2, StepCases

LEMMA DoneFrame ==
    ASSUME NEW c \in Callers, Done(c), Down => Down',
           cli'[c] = cli[c], line'[c] = line[c], todo'[c] = todo[c], late'[c] = late[c],
           listed' = listed, subscribed' = subscribed, halfway' = halfway,
           call'[c] = call[c] \/ call'[c] \in {"idle", "cut"}
    PROVE  Done(c)'
<1>1. \A s : InPlace(line[c], s)' <=> InPlace(line[c], s)
  BY DEF InPlace, Cmd
<1>2. Named(line[c])' = Named(line[c]) /\ Cmd(line[c])' = Cmd(line[c])
  BY DEF Named, Cmd, Args
<1> QED BY <1>1, <1>2 DEF Done, Running

\* The shard a call has just handled is in place or in the middle.
LEMMA HandledIsDone ==
    ASSUME TypeInv, ExitInv, NEW c \in Callers, NEW s, Subscribing(c), HandlesShard(c, s)
    PROVE  Done(c)'
<1>t. TypeOK /\ CutInv /\ NamesInv /\ AgreeInv /\ Done(c)
  BY DEF TypeInv, ExitInv, DoneInv
<1>1. /\ cli' = cli /\ line' = line /\ call' = call /\ main' = main
      /\ Named(line[c])' = Named(line[c]) /\ Cmd(line[c])' = Cmd(line[c])
  BY DEF HandlesShard, lifeVars, cliVars, Named, Cmd, Args
<1>2. Running(c) /\ call[c] = "running" /\ cli[c] = "waiting" /\ ~stopped /\ ~Down
  BY <1>t DEF Subscribing, Serving, Running, TypeOK, CutInv
<1>3. Cmd(line[c]) \in {"subshard", "unsubshard"}
  BY DEF Subscribing, Serving
<1>4. /\ \A u \in Named(line[c]) \ (todo[c] \cup late[c]) : InPlace(line[c], u)
      /\ \A u \in late[c] : u \in listed <=> Cmd(line[c]) = "subshard"
  BY <1>t, <1>2, <1>3 DEF Done
<1>5. SUFFICES /\ \A u \in Named(line[c]) \ (todo'[c] \cup late'[c]) : InPlace(line[c], u)'
               /\ \A u \in late'[c] : u \in listed' <=> Cmd(line[c]) = "subshard"
  BY <1>1, <1>2 DEF Done
<1>6. CASE Passes(c, s)
  <2>1. s \in Shards => (s \in listed <=> s \in subscribed) \/ s \in halfway
    <3>1. ASSUME NEW d \in Callers, s \in late[d] PROVE FALSE
      <4>1. d # c
        BY <1>6, <3>1 DEF Passes
      <4>2. s \in Named(line[c]) /\ s \in Named(line[d])
        BY <1>t, <1>6, <3>1 DEF NamesInv, Passes
      <4>3. cli[d] = "waiting"
        BY <1>t, <3>1 DEF NamesInv
      <4> QED BY <1>2, <4>1, <4>2, <4>3, OwnShards DEF TypeInv, LineInv
    <3> QED BY <1>t, <1>2, <3>1 DEF AgreeInv
  <2>2. InPlace(line[c], s)
    BY <1>6, <1>t, <2>1 DEF Passes, InPlace, TypeOK
  <2>3. \A u : InPlace(line[c], u)' <=> InPlace(line[c], u)
    BY <1>1, <1>6 DEF Passes, InPlace
  <2>4. todo'[c] = todo[c] \ {s} /\ late'[c] = late[c] /\ listed' = listed
    BY <1>6, <1>t DEF Passes, TypeOK
  <2> QED BY <1>4, <2>2, <2>3, <2>4
<1>7. CASE Lists(c, s)
  <2>1. todo'[c] = todo[c] \ {s} /\ late'[c] = {s} /\ late[c] = {}
    BY <1>7, <1>t DEF Lists, TypeOK
  <2>2. \A u : u # s /\ InPlace(line[c], u) => InPlace(line[c], u)'
    BY <1>1, <1>7 DEF Lists, InPlace
  <2>3. s \in listed' <=> Cmd(line[c]) = "subshard"
    BY <1>7 DEF Lists
  <2> QED BY <1>4, <2>1, <2>2, <2>3
<1>8. CASE Follows(c, s)
  <2>1. todo'[c] = todo[c] /\ late'[c] = {} /\ late[c] = {s} /\ listed' = listed
    BY <1>8, <1>t DEF Follows, TypeOK, NamesInv
  <2>2. \A u : u # s /\ InPlace(line[c], u) => InPlace(line[c], u)'
    BY <1>1, <1>8 DEF Follows, InPlace
  <2>3. InPlace(line[c], s)'
    BY <1>1, <1>3, <1>4, <1>8, <2>1 DEF Follows, InPlace
  <2> QED BY <1>4, <2>1, <2>2, <2>3
<1>9. CASE Abandons(c, s)
  <2>1. todo'[c] = todo[c] /\ late'[c] = {} /\ late[c] = {s} /\ listed' = listed
    BY <1>9, <1>t DEF Abandons, TypeOK, NamesInv
  <2>2. \A u : u # s /\ InPlace(line[c], u) => InPlace(line[c], u)'
    BY <1>1, <1>9 DEF Abandons, InPlace
  <2>3. InPlace(line[c], s)'
    BY <1>1, <1>3, <1>4, <1>9, <2>1 DEF Abandons, InPlace
  <2> QED BY <1>4, <2>1, <2>2, <2>3
<1> QED BY <1>6, <1>7, <1>8, <1>9, HandleEffect

LEMMA DoneStep == TypeInv /\ ExitInv /\ [Next]_vars => DoneInv'
<1> SUFFICES ASSUME TypeInv, ExitInv, [Next]_vars, NEW c \in Callers PROVE Done(c)'
  BY DEF DoneInv
<1>t. TypeOK /\ NamesInv /\ Done(c)
  BY DEF TypeInv, ExitInv, DoneInv
<1>1. CASE ServerMoves
  <2>1. /\ Down => Down'
        /\ cli' = cli /\ line' = line /\ todo' = todo /\ late' = late
        /\ listed' = listed /\ subscribed' = subscribed /\ halfway' = halfway
        /\ call'[c] = call[c] \/ call'[c] \in {"idle", "cut"}
    BY <1>1 DEF ServerMoves, cliVars, nodeVars, histVars
  <2> QED BY <1>t, <2>1, DoneFrame
<1>2. ASSUME NEW e \in Callers, NEW l \in Lines[e], Launch(e, l) PROVE Done(c)'
  <2>1. CASE e # c
    BY <1>2, <1>t, <2>1, DoneFrame DEF Launch, TypeOK, LifeTypeOK, lifeVars, nodeVars, Down
  <2>2. CASE e = c
    <3>1. call'[c] = "idle" /\ cli'[c] \in {"calling", "none", "usage"}
      BY <1>2, <1>t, <2>2 DEF Launch, Ended, TypeOK, lifeVars
    <3> QED BY <3>1 DEF Done, Running
  <2> QED BY <2>1, <2>2
<1>3. ASSUME NEW e \in Callers, Call(e) PROVE Done(c)'
  <2>1. CASE e # c
    BY <1>3, <1>t, <2>1, DoneFrame DEF Call, Accept, TypeOK, LifeTypeOK, Down
  <2>2. CASE e = c
    <3>1. /\ cli[c] = "calling" /\ cli'[c] = "waiting" /\ call'[c] = "running" /\ late' = late
          /\ line' = line /\ todo'[c] = Named(line[c])
      BY <1>3, <1>t, <2>2 DEF Call, Accept, TypeOK, LifeTypeOK
    <3>2. late[c] = {}
      BY <1>t, <3>1 DEF NamesInv
    <3>3. Named(line[c])' = Named(line[c])
      BY <3>1 DEF Named, Cmd, Args
    <3> QED BY <3>1, <3>2, <3>3 DEF Done
  <2> QED BY <2>1, <2>2
<1>4. ASSUME NEW e \in Callers, NoServer(e) PROVE Done(c)'
  <2>1. CASE e # c
    BY <1>4, <1>t, <2>1, DoneFrame DEF NoServer, TypeOK, LifeTypeOK, lifeVars, nodeVars, histVars, Down
  <2>2. CASE e = c
    <3>1. call'[c] = "idle" /\ cli'[c] = "lost"
      BY <1>4, <1>t, <2>2 DEF NoServer, TypeOK, lifeVars
    <3> QED BY <3>1 DEF Done, Running
  <2> QED BY <2>1, <2>2
<1>5. ASSUME NEW e \in Callers, NEW how \in {"success", "refused", "failed", "lost"}, Leaves(e, how) PROVE Done(c)'
  <2>0. Exit(e, how)
    BY <1>5 DEF Leaves
  <2>1. CASE e # c
    BY <1>t, <2>0, <2>1, DoneFrame DEF Exit, TypeOK, LifeTypeOK, histVars, Down
  <2>2. CASE e = c
    <3>1. call'[c] = "idle" /\ cli'[c] = how /\ listed' = listed /\ subscribed' = subscribed /\ halfway' = halfway
      BY <1>t, <2>0, <2>2 DEF Exit, TypeOK, LifeTypeOK, histVars
    <3>2. CASE how = "success"
      <4>1. line' = line /\ call[c] = "ok"
        BY <1>5, <2>0, <2>2, <3>2 DEF Leaves, Exit
      <4>2. Named(line[c])' = Named(line[c]) /\ Cmd(line[c])' = Cmd(line[c])
        BY <4>1 DEF Named, Cmd, Args
      <4>3. \A s : InPlace(line[c], s)' <=> InPlace(line[c], s)
        BY <3>1, <4>1 DEF InPlace, Cmd
      <4> QED BY <1>t, <3>1, <4>1, <4>2, <4>3 DEF Done, Running
    <3>3. CASE how # "success"
      BY <3>1, <3>3 DEF Done, Running
    <3> QED BY <3>2, <3>3
  <2> QED BY <2>1, <2>2
<1>6. ASSUME NEW e \in Callers, NEW s, Subscribing(e), HandlesShard(e, s) PROVE Done(c)'
  <2>1. CASE e = c
    BY <1>6, <2>1, HandledIsDone
  <2>2. CASE e # c /\ cli[c] \in {"waiting", "success"}
    <3>1. s \in Named(line[e]) /\ cli[e] = "waiting"
      BY <1>6, <1>t DEF HandlesShard, NamesInv
    <3>2. s \notin Named(line[c])
      BY <2>2, <3>1, OwnShards DEF TypeInv, LineInv
    <3>3. /\ cli' = cli /\ line' = line /\ call' = call /\ main' = main
          /\ Named(line[c])' = Named(line[c]) /\ Cmd(line[c])' = Cmd(line[c])
      BY <1>6 DEF HandlesShard, lifeVars, cliVars, Named, Cmd, Args
    <3>4. Lists(e, s) \/ Follows(e, s) \/ Abandons(e, s) \/ Passes(e, s)
      BY <1>6, HandleEffect
    <3>5. todo'[c] = todo[c] /\ late'[c] = late[c]
      BY <1>t, <2>2, <3>4 DEF Lists, Follows, Abandons, Passes, TypeOK
    <3>6. ASSUME NEW u \in Named(line[c])
          PROVE  /\ u \in listed' <=> u \in listed
                 /\ u \in subscribed' <=> u \in subscribed
                 /\ u \in halfway' <=> u \in halfway
      <4>1. u # s
        BY <3>2, <3>6
      <4>2. CASE Lists(e, s)
        BY <4>1, <4>2 DEF Lists
      <4>3. CASE Follows(e, s)
        BY <4>1, <4>3 DEF Follows
      <4>4. CASE Abandons(e, s) \/ Passes(e, s)
        BY <4>1, <4>4 DEF Abandons, Passes
      <4> QED BY <3>4, <4>2, <4>3, <4>4
    <3>7. \A u \in Named(line[c]) : InPlace(line[c], u) => InPlace(line[c], u)'
      BY <3>3, <3>6 DEF InPlace
    <3>8. late[c] \subseteq Named(line[c])
      BY <1>t DEF NamesInv
    <3>9. (Running(c)' <=> Running(c)) /\ call'[c] = call[c] /\ cli'[c] = cli[c]
      BY <3>3 DEF Running, Down
    <3> QED BY <1>t, <3>3, <3>5, <3>6, <3>7, <3>8, <3>9 DEF Done
  <2>3. CASE cli[c] \notin {"waiting", "success"}
    <3>1. call'[c] = "idle" /\ cli'[c] = cli[c]
      BY <1>6, <1>t, <2>3 DEF HandlesShard, lifeVars, cliVars, TypeOK
    <3> QED BY <2>3, <3>1 DEF Done, Running
  <2> QED BY <2>1, <2>2, <2>3
<1>7. ASSUME NEW e \in Callers, NEW r \in {"ok", "refused", "error"}, Answers(e, r) PROVE Done(c)'
  <2>1. /\ main' = main /\ cli' = cli /\ line' = line /\ todo' = todo /\ late' = late
        /\ listed' = listed /\ subscribed' = subscribed /\ halfway' = halfway
    BY <1>7 DEF Answers, cliVars, nodeVars, histVars
  <2>2. CASE e # c
    BY <1>7, <1>t, <2>1, <2>2, DoneFrame DEF Answers, TypeOK, LifeTypeOK, Down
  <2>3. CASE e = c
    <3>1. Running(c) /\ cli[c] = "waiting" /\ call'[c] = r
      BY <1>7, <1>t, <2>3 DEF Answers, Running, TypeOK, LifeTypeOK
    <3>2. Cmd(line[c]) \in {"subshard", "unsubshard"} => \A s \in Named(line[c]) : InPlace(line[c], s)
      BY <1>7, <1>t, <2>3, <3>1 DEF Answers, Done
    <3>3. Named(line[c])' = Named(line[c]) /\ Cmd(line[c])' = Cmd(line[c])
      BY <2>1 DEF Named, Cmd, Args
    <3>4. \A s : InPlace(line[c], s)' <=> InPlace(line[c], s)
      BY <2>1 DEF InPlace, Cmd
    <3> QED BY <3>1, <3>2, <3>3, <3>4 DEF Done, Running
  <2> QED BY <2>2, <2>3
<1>8. ASSUME NEW e \in Callers, (\E t : Finds(e, t)) \/ Sends(e) PROVE Done(c)'
  <2>1. /\ main' = main /\ call' = call /\ cli' = cli /\ line' = line /\ todo' = todo /\ late' = late
        /\ listed' = listed /\ subscribed' = subscribed /\ halfway' = halfway
    BY <1>8 DEF Finds, Sends, lifeVars, cliVars, nodeVars, histVars
  <2> QED BY <1>t, <2>1, DoneFrame DEF Down
<1> QED BY <1>1, <1>2, <1>3, <1>4, <1>5, <1>6, <1>7, <1>8, StepCases DEF CallerMoves

\* What a subshard or unsubshard with status 0 has done is in the list, and in the
\* subscriptions unless pubsub let the shard down, until its caller changes it:
\* for any callers whose shards are in different bytes, whatever fails.
THEOREM ExitZeroIsDone == Spec => []ExitZeroHolds
<1>1. Init => ExitInv
  BY DEF Init, LifeInit, ExitInv, CutInv, NamesInv, AgreeInv, DoneInv, Done, Running
<1>2. TypeInv /\ ExitInv /\ [Next]_vars => ExitInv'
  BY CutStep, NamesStep, AgreeStep, DoneStep DEF ExitInv
<1>3. ExitInv => ExitZeroHolds
  BY DEF ExitInv, DoneInv, Done, InPlace, ExitZeroHolds
<1> QED BY <1>1, <1>2, <1>3, TypeAlways, PTL DEF Spec
=============================================================================
