------------------------------- MODULE Lifecycle -------------------------------
(***************************************************************************)
(* A server process from start to exit (runServer and makeNode in main.go, *)
(* NewRpcEventNotifier in eventrpc.go, runRPCServer and StopServer in      *)
(* rpcserver.go): the start-up steps that may fail, the life of an RPC,    *)
(* and the two ways to stop the process, an interrupt or terminate signal  *)
(* and StopServer.  What the other RPCs do while they run, and who calls   *)
(* them, is in Session.                                                    *)
(***************************************************************************)
EXTENDS Integers, FiniteSets

CONSTANTS Callers,  \* who calls, each one call at a time
          Signals   \* how many signals the process is sent

ASSUME LifeAssumption == Signals \in Nat

VARIABLES
    main,     \* next step of the main goroutine, or how it ended
    catcher,  \* the goroutine of runRPCServer that waits for a signal
    call,     \* call[c]: "idle", "running", the handler's result, or "cut"
    asleep,   \* goroutines of StopServer that have not stopped the server yet
    stopped,  \* the gRPC server has been stopped
    sent      \* (bound) signals sent after signal.Notify, at most Signals

lifeVars == <<main, catcher, call, asleep, stopped, sent>>

LifeInit ==
    /\ main = "notifier"
    /\ catcher = "none"
    /\ call = [c \in Callers |-> "idle"]
    /\ asleep = 0
    /\ stopped = FALSE
    /\ sent = 0

\* The process has ended, with status 0 or with an error.
Down == main \in {"exit", "fatal"}

-----------------------------------------------------------------------------
(* Start-up *)

Main(from, to) == main = from /\ main' = to /\ UNCHANGED <<call, asleep, stopped, sent>>

\* With port 0 the mock notifier is used and nothing can fail.
NewRpcEventNotifier == (Main("notifier", "node") \/ Main("notifier", "fatal")) /\ UNCHANGED catcher

\* An error of the bootstrapping is ignored.
makeNode == (Main("node", "listen") \/ Main("node", "fatal")) /\ UNCHANGED catcher

Listen == (Main("listen", "notify") \/ Main("listen", "fatal")) /\ UNCHANGED catcher

SignalNotify == Main("notify", "go") /\ UNCHANGED catcher

\* (mutant) the goroutine is not started
StartCatcher_Omitted == Main("go", "serve") /\ UNCHANGED catcher

StartCatcher == Main("go", "serve") /\ catcher' = "started"

\* The goroutine runs when it is scheduled.
CatcherReceives ==
    /\ ~Down
    /\ catcher = "started" /\ catcher' = "receiving"
    /\ UNCHANGED <<main, call, asleep, stopped, sent>>

\* Serve on a server that was stopped before is an error.
Serve == (IF stopped THEN Main("serve", "fatal") ELSE Main("serve", "serving")) /\ UNCHANGED catcher

\* Stop makes Serve return, and main returns with it.
ServeReturns == stopped /\ Main("serving", "exit") /\ UNCHANGED catcher

-----------------------------------------------------------------------------
(* RPCs *)

\* From Listen on a connection is taken up, to be served once Serve runs.
Reachable == main \in {"notify", "go", "serve"} \/ (main = "serving" /\ ~stopped)

Accept(c) ==
    /\ main = "serving" /\ ~stopped
    /\ call[c] = "idle"
    /\ call' = [call EXCEPT ![c] = "running"]
    /\ UNCHANGED <<main, catcher, asleep, stopped, sent>>

Running(c) == call[c] = "running" /\ ~Down

\* The handler returns r, "ok" or an error; the answer is on its way.
Reply(c, r) ==
    /\ Running(c)
    /\ call' = [call EXCEPT ![c] = r]
    /\ UNCHANGED <<main, catcher, asleep, stopped, sent>>

\* (mutant) nothing is started
StopServer_Nothing(c) == Reply(c, "ok")

\* StopServer leaves the stopping to a goroutine and answers.
StopServer(c) ==
    /\ Running(c)
    /\ call' = [call EXCEPT ![c] = "ok"]
    /\ asleep' = asleep + 1
    /\ UNCHANGED <<main, catcher, stopped, sent>>

\* Stop of the gRPC server cuts the connections, so that calls under way are
\* not answered; a second Stop does nothing more.  A handler that still runs
\* can no longer be seen by anybody: the process is about to end.
Stop ==
    /\ stopped' = TRUE
    /\ call' = [c \in Callers |-> IF call[c] = "idle" THEN "idle" ELSE "cut"]

\* A sleep of a second is over, whether or not the answer got through.
TimerStops ==
    /\ ~Down
    /\ asleep > 0 /\ asleep' = asleep - 1
    /\ Stop
    /\ UNCHANGED <<main, catcher, sent>>

-----------------------------------------------------------------------------
(* Signals *)

\* Before signal.Notify a signal ends the process.
SignalKills ==
    /\ Signals > 0
    /\ main \in {"notifier", "node", "listen", "notify"}
    /\ main' = "fatal"
    /\ UNCHANGED <<catcher, call, asleep, stopped, sent>>

\* Afterwards it is offered to the channel, which has no buffer: unless the
\* goroutine is receiving at this moment it is dropped.
Signal ==
    /\ main \in {"go", "serve", "serving"}
    /\ sent < Signals /\ sent' = sent + 1
    /\ catcher' = IF catcher = "receiving" THEN "caught" ELSE catcher
    /\ UNCHANGED <<main, call, asleep, stopped>>

\* (mutant) the goroutine ends without Stop
CatcherStops_Ends ==
    /\ ~Down
    /\ catcher = "caught" /\ catcher' = "done"
    /\ UNCHANGED <<main, call, asleep, stopped, sent>>

CatcherStops ==
    /\ ~Down
    /\ catcher = "caught" /\ catcher' = "done"
    /\ Stop
    /\ UNCHANGED <<main, asleep, sent>>

-----------------------------------------------------------------------------
MainStep == \/ NewRpcEventNotifier \/ makeNode \/ Listen \/ SignalNotify
            \/ StartCatcher \/ Serve \/ ServeReturns

CatcherStep == CatcherReceives \/ CatcherStops

\* Every variable has its type, and a server that serves, or has served, has
\* the goroutine that waits for a signal.
LifeTypeOK ==
    /\ main \in {"notifier", "node", "listen", "notify", "go", "serve", "serving", "exit", "fatal"}
    /\ catcher \in {"none", "started", "receiving", "caught", "done"}
    /\ call \in [Callers -> {"idle", "running", "ok", "refused", "error", "cut"}]
    /\ asleep \in Nat
    /\ stopped \in BOOLEAN
    /\ sent \in 0..Signals
    /\ main \in {"serve", "serving", "exit"} => catcher # "none"

\* A signal that the goroutine received ends the process, also when it comes
\* before Serve (rpcserver.go:546-550).
CaughtStops == (catcher = "caught") ~> Down
=============================================================================
