------------------------------ MODULE Bootstrap ------------------------------
(***************************************************************************)
(* Starting and stopping the DHT's bootstrapping (node.go), with the       *)
(* connection attempts that precede it (bootstrap.go).                     *)
(*                                                                         *)
(* The RPC Bootstrap runs StartBootstrapping or StopBootstrapping in a     *)
(* goroutine of its own.  The two fields they share, doBootstrapping and   *)
(* cancelBootstrapping, are guarded by no lock, so every access is a step. *)
(* bootstrapConnect dials all peers at once and collects the failures in a *)
(* channel that has room for one error per peer.                           *)
(***************************************************************************)
EXTENDS Naturals, FiniteSets

CONSTANTS Callers,    \* goroutines that run the RPC Bootstrap
          Peers,      \* the bootnodes of the request
          Routines,   \* (bound) contexts handed to dht.Bootstrap
          DHTMayFail, \* dht.Bootstrap may return an error
          BadAddress, \* a request may carry an address that is not a peer's
          Nil

ASSUME NilAssumption == Nil \notin Routines

ASSUME FiniteAssumption == IsFiniteSet(Peers)

ASSUME FailureAssumption == DHTMayFail \in BOOLEAN /\ BadAddress \in BOOLEAN

VARIABLES
    doBootstrapping,      \* Node.doBootstrapping
    cancelBootstrapping,  \* Node.cancelBootstrapping: the context it cancels, or Nil
    running,              \* contexts whose DHT routine has not been cancelled
    pc,                   \* pc[c]: the next step of c
    ctx,                  \* ctx[c]: the context c has created, or Nil
    dial,                 \* dial[c][p]: "none", "dialing", "failed" or "done"
    up,                   \* up[c]: peers c's goroutines have connected to
    errs,                 \* errs[c]: number of errors in c's channel
    closed,               \* closed[c]: c's channel is closed
    verdict               \* verdict[c]: result of c's last bootstrapConnect

flags == <<doBootstrapping, cancelBootstrapping, running>>
conn == <<dial, up, errs, closed, verdict>>
vars == <<flags, conn, pc, ctx>>

Init ==
    /\ doBootstrapping = FALSE
    /\ cancelBootstrapping = Nil
    /\ running = {}
    /\ pc = [c \in Callers |-> "idle"]
    /\ ctx = [c \in Callers |-> Nil]
    /\ dial = [c \in Callers |-> [p \in Peers |-> "none"]]
    /\ up = [c \in Callers |-> {}]
    /\ errs = [c \in Callers |-> 0]
    /\ closed = [c \in Callers |-> FALSE]
    /\ verdict = [c \in Callers |-> "none"]

Goto(c, l) == pc' = [pc EXCEPT ![c] = l]

\* A panic in any goroutine ends the process.
Dead == \E c \in Callers : pc[c] = "panic"

\* The next step of c, and of c's goroutine for p, while the process lives.
At(c, l) == ~Dead /\ pc[c] = l

DialAt(c, p, l) == ~Dead /\ dial[c][p] = l

-----------------------------------------------------------------------------
(* StartBootstrapping *)

\* convertPeers comes first: an address without a peer's id ends the call with an
\* error, and one that is no multiaddress at all panics in ma.StringCast.
ConvertPeersFails(c) ==
    /\ At(c, "idle") /\ BadAddress
    /\ \E l \in {"idle", "panic"} : Goto(c, l)
    /\ UNCHANGED <<flags, conn, ctx>>

\* The early return, else bootstrapConnect: with no peers it returns an error
\* at once, otherwise it starts one goroutine per peer.
Start(c) ==
    /\ At(c, "idle")
    /\ IF doBootstrapping
         THEN UNCHANGED <<pc, conn>>
         ELSE /\ up' = [up EXCEPT ![c] = {}]
              /\ errs' = [errs EXCEPT ![c] = 0]
              /\ closed' = [closed EXCEPT ![c] = FALSE]
              /\ IF Peers = {}
                   THEN /\ verdict' = [verdict EXCEPT ![c] = "error"]
                        /\ Goto(c, "dht")
                        /\ UNCHANGED dial
                   ELSE /\ verdict' = [verdict EXCEPT ![c] = "none"]
                        /\ dial' = [dial EXCEPT ![c] = [p \in Peers |-> "dialing"]]
                        /\ Goto(c, "wait")
    /\ UNCHANGED <<flags, ctx>>

\* (mutant) the channel is made one place short
Room_OneShort == Cardinality(Peers) - 1

\* make(chan error, len(peers))
Room == Cardinality(Peers)

\* The goroutine for p: Connect succeeds ...
DialSucceeds(c, p) ==
    /\ DialAt(c, p, "dialing")
    /\ up' = [up EXCEPT ![c] = @ \cup {p}]
    /\ dial' = [dial EXCEPT ![c][p] = "done"]
    /\ UNCHANGED <<flags, pc, ctx, errs, closed, verdict>>

\* ... or fails ...
DialFails(c, p) ==
    /\ DialAt(c, p, "dialing")
    /\ dial' = [dial EXCEPT ![c][p] = "failed"]
    /\ UNCHANGED <<flags, pc, ctx, up, errs, closed, verdict>>

\* (mutant) the channel is made without a buffer: the send waits for a receiver
SendErr_Unbuffered(c, p) ==
    /\ DialAt(c, p, "failed")
    /\ UNCHANGED vars

\* ... and then the error goes into the channel, before the deferred wg.Done; a
\* full channel blocks the goroutine.
SendErr(c, p) ==
    /\ DialAt(c, p, "failed")
    /\ errs[c] < Room
    /\ errs' = [errs EXCEPT ![c] = @ + 1]
    /\ dial' = [dial EXCEPT ![c][p] = "done"]
    /\ UNCHANGED <<flags, pc, ctx, up, closed, verdict>>

\* (mutant) the channel is closed before the goroutines are done
Wait_Omitted(c) ==
    /\ At(c, "wait")
    /\ closed' = [closed EXCEPT ![c] = TRUE]
    /\ Goto(c, "drain")
    /\ UNCHANGED <<flags, ctx, dial, up, errs, verdict>>

\* wg.Wait, then close.
Wait(c) ==
    /\ At(c, "wait")
    /\ \A p \in Peers : dial[c][p] = "done"
    /\ closed' = [closed EXCEPT ![c] = TRUE]
    /\ Goto(c, "drain")
    /\ UNCHANGED <<flags, ctx, dial, up, errs, verdict>>

\* (mutant) one failure is enough
Drain_AnyError(c) ==
    /\ At(c, "drain")
    /\ verdict' = [verdict EXCEPT ![c] = IF errs[c] > 0 THEN "error" ELSE "ok"]
    /\ errs' = [errs EXCEPT ![c] = 0]
    /\ Goto(c, "dht")
    /\ UNCHANGED <<flags, ctx, dial, up, closed>>

\* Count the errors; StartBootstrapping does not look at the result.
Drain(c) ==
    /\ At(c, "drain")
    /\ verdict' = [verdict EXCEPT
                     ![c] = IF errs[c] = Cardinality(Peers) THEN "error" ELSE "ok"]
    /\ errs' = [errs EXCEPT ![c] = 0]
    /\ Goto(c, "dht")
    /\ UNCHANGED <<flags, ctx, dial, up, closed>>

FreeRoutines == {x \in Routines : /\ x \notin running
                                  /\ x # cancelBootstrapping
                                  /\ \A c \in Callers : ctx[c] # x}

\* context.WithCancel and dht.Bootstrap, which starts its own goroutine.
DHTBootstrap(c) ==
    /\ At(c, "dht")
    /\ \E x \in FreeRoutines :
          /\ running' = running \cup {x}
          /\ ctx' = [ctx EXCEPT ![c] = x]
    /\ Goto(c, "setflag")
    /\ UNCHANGED <<doBootstrapping, cancelBootstrapping, conn>>

DHTBootstrapFails(c) ==
    /\ At(c, "dht")
    /\ DHTMayFail
    /\ Goto(c, "idle")
    /\ UNCHANGED <<flags, conn, ctx>>

SetFlag(c) ==
    /\ At(c, "setflag")
    /\ doBootstrapping' = TRUE
    /\ Goto(c, "setcancel")
    /\ UNCHANGED <<cancelBootstrapping, running, conn, ctx>>

SetCancel(c) ==
    /\ At(c, "setcancel")
    /\ cancelBootstrapping' = ctx[c]
    /\ ctx' = [ctx EXCEPT ![c] = Nil]
    /\ Goto(c, "idle")
    /\ UNCHANGED <<doBootstrapping, running, conn>>

-----------------------------------------------------------------------------
(* StopBootstrapping *)

Stop(c) ==
    /\ At(c, "idle")
    /\ Goto(c, IF doBootstrapping THEN "cancel" ELSE "idle")
    /\ UNCHANGED <<flags, conn, ctx>>

\* (mutant) the routine is not cancelled
Cancel_Omitted(c) ==
    /\ At(c, "cancel")
    /\ Goto(c, "clearflag")
    /\ UNCHANGED <<flags, conn, ctx>>

\* Calls the cancel function; a nil function panics and takes the process down.
Cancel(c) ==
    /\ At(c, "cancel")
    /\ IF cancelBootstrapping = Nil
         THEN Goto(c, "panic") /\ UNCHANGED running
         ELSE /\ running' = running \ {cancelBootstrapping}
              /\ Goto(c, "clearflag")
    /\ UNCHANGED <<doBootstrapping, cancelBootstrapping, conn, ctx>>

ClearFlag(c) ==
    /\ At(c, "clearflag")
    /\ doBootstrapping' = FALSE
    /\ Goto(c, "clearcancel")
    /\ UNCHANGED <<cancelBootstrapping, running, conn, ctx>>

ClearCancel(c) ==
    /\ At(c, "clearcancel")
    /\ cancelBootstrapping' = Nil
    /\ Goto(c, "idle")
    /\ UNCHANGED <<doBootstrapping, running, conn, ctx>>

-----------------------------------------------------------------------------
DialStep(c) == \E p \in Peers : DialSucceeds(c, p) \/ DialFails(c, p) \/ SendErr(c, p)

StartStep(c) == \/ Wait(c) \/ Drain(c) \/ DHTBootstrap(c) \/ DHTBootstrapFails(c)
                \/ SetFlag(c) \/ SetCancel(c)

StopStep(c) == Cancel(c) \/ ClearFlag(c) \/ ClearCancel(c)

Next == \E c \in Callers : \/ ConvertPeersFails(c) \/ Start(c) \/ Stop(c)
                           \/ DialStep(c) \/ StartStep(c) \/ StopStep(c)

Spec == Init /\ [][Next]_vars

\* Goroutines that can run do run, and a dial ends: Connect has a timeout.
Fairness == \A c \in Callers : /\ WF_vars(DialStep(c))
                               /\ WF_vars(StartStep(c))
                               /\ WF_vars(StopStep(c))

FairSpec == Spec /\ Fairness

-----------------------------------------------------------------------------
Labels == {"idle", "wait", "drain", "dht", "setflag", "setcancel", "cancel",
           "clearflag", "clearcancel", "panic"}

\* Every variable has its type.
TypeOK ==
    /\ doBootstrapping \in BOOLEAN
    /\ cancelBootstrapping \in Routines \cup {Nil}
    /\ running \subseteq Routines
    /\ pc \in [Callers -> Labels]
    /\ ctx \in [Callers -> Routines \cup {Nil}]
    /\ dial \in [Callers -> [Peers -> {"none", "dialing", "failed", "done"}]]
    /\ up \in [Callers -> SUBSET Peers]
    /\ errs \in [Callers -> Nat]
    /\ closed \in [Callers -> BOOLEAN]
    /\ verdict \in [Callers -> {"none", "ok", "error"}]

\* No call is under way.
Quiet == \A c \in Callers : pc[c] \in {"idle", "panic"}

\* Between calls the two fields tell the truth about the DHT: it bootstraps
\* exactly when doBootstrapping says so, and then cancelBootstrapping reaches the
\* one routine that does.
FieldsTellTruth ==
    Quiet => /\ doBootstrapping => running = {cancelBootstrapping}
             /\ ~doBootstrapping => running = {} /\ cancelBootstrapping = Nil

\* A goroutine that has an error to report finds a free place in the channel:
\* nothing is received before Wait ends, and Wait ends only when all have reported,
\* so one place too few would block the call for ever (bootstrap.go:33).
SendersHaveRoom ==
    \A c \in Callers, p \in Peers : dial[c][p] = "failed" => errs[c] < Room

\* No goroutine of bootstrapConnect is left that could send into the channel
\* after it was closed.
NoSendAfterClose ==
    \A c \in Callers : closed[c] => \A p \in Peers : dial[c][p] = "done"

\* bootstrapConnect fails exactly when no attempt has succeeded ("our failure
\* condition is when no connection attempt succeeded", bootstrap.go:60).
VerdictIsRight ==
    \A c \in Callers : pc[c] = "dht" => (verdict[c] = "error" <=> up[c] = {})

\* Every call returns, unless the process dies: the goroutines of bootstrapConnect
\* never block on the channel, so its Wait ends.
CallsReturn == \A c \in Callers : (pc[c] # "idle") ~> (pc[c] = "idle" \/ Dead)

\* A call that stopped bootstrapping has stopped it: once every call has
\* returned and the flag is down, no DHT routine is left running.
StopStops == Quiet /\ ~doBootstrapping => running = {}
=============================================================================
