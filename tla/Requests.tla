------------------------------- MODULE Requests -------------------------------
(***************************************************************************)
(* Direct requests between nodes (requests.go): requestShardPeer and       *)
(* generalRequest on the asking side, onShardPeerRequest and               *)
(* onGeneralRequest on the other, one stream per request.                  *)
(*                                                                         *)
(* A side ends a stream by closing it, which the other side reads as the   *)
(* end of the data, or by a reset, which ends both directions at once.     *)
(* generalRequest never closes its side.  The handlers end with FullClose: *)
(* close, wait for the other side's close, and reset if it does not come.  *)
(* All the requests of the model go to one node, whose process an id that  *)
(* isShardSet takes for a byte past the end brings down.                   *)
(***************************************************************************)
EXTENDS Naturals, FiniteSets

CONSTANTS Reqs,       \* requests, each with a stream of its own
          General,    \* those made by generalRequest, the others ask for peers
          Wild,       \* those asking for the peers of an id below -7
          Unreliable  \* streams cannot be opened or break

ASSUME ReqAssumption ==
    General \subseteq Reqs /\ Wild \subseteq Reqs \ General /\ Unreliable \in BOOLEAN

VARIABLES
    client,    \* client[r]: next step of the asking side, or its result
    handler,   \* handler[r]: next step of the handler
    up, down,  \* requests whose question, or answer, is on its way
    clientClosed, handlerClosed,  \* streams a side has closed
    broken,    \* streams that were reset
    dead,      \* the answering process has ended
    answered   \* (history) requests the other node has an answer to

vars == <<client, handler, up, down, clientClosed, handlerClosed, broken, dead, answered>>

Init ==
    /\ client = [r \in Reqs |-> "idle"]
    /\ handler = [r \in Reqs |-> "none"]
    /\ up = {} /\ down = {}
    /\ clientClosed = {} /\ handlerClosed = {} /\ broken = {}
    /\ dead = FALSE
    /\ answered = {}

Client(r, l) == client' = [client EXCEPT ![r] = l]
Handler(r, l) == handler' = [handler EXCEPT ![r] = l]

-----------------------------------------------------------------------------
(* The asking side *)

NewStream(r) ==
    /\ client[r] = "idle" /\ ~dead
    /\ Client(r, "send")
    /\ Handler(r, "read")
    /\ UNCHANGED <<dead, up, down, clientClosed, handlerClosed, broken, answered>>

NewStreamFails(r) ==
    /\ Unreliable \/ dead
    /\ client[r] = "idle"
    /\ Client(r, "error")
    /\ UNCHANGED <<dead, handler, up, down, clientClosed, handlerClosed, broken, answered>>

\* Only requestShardPeer has a deferred Close.
Leave(r, result) ==
    /\ Client(r, result)
    /\ clientClosed' = IF r \in General THEN clientClosed ELSE clientClosed \cup {r}

\* The write is buffered and the error of the flush is dropped: on a reset
\* stream only a message longer than the buffer is seen to fail.
SendRequest(r) ==
    /\ client[r] = "send"
    /\ \/ r \notin broken /\ Client(r, "read") /\ up' = up \cup {r} /\ UNCHANGED clientClosed
       \/ r \in broken /\ Client(r, "read") /\ UNCHANGED <<up, clientClosed>>
       \/ r \in broken /\ Leave(r, "error") /\ UNCHANGED up
    /\ UNCHANGED <<dead, handler, down, handlerClosed, broken, answered>>

ReadResponse(r) ==
    /\ client[r] = "read" /\ r \in down
    /\ Leave(r, "ok")
    /\ down' = down \ {r}
    /\ UNCHANGED <<dead, handler, up, handlerClosed, broken, answered>>

\* (mutant) the end of the data is taken for an empty response
ReadResponseFails_Empty(r) ==
    /\ client[r] = "read"
    /\ r \in broken \/ r \in handlerClosed \ down
    /\ Leave(r, "ok")
    /\ UNCHANGED <<dead, handler, up, down, handlerClosed, broken, answered>>

\* (mutant) only the other side's close ends the wait
ReadResponseFails_IgnoresReset(r) ==
    /\ client[r] = "read"
    /\ r \in handlerClosed \ down
    /\ Leave(r, "error")
    /\ UNCHANGED <<dead, handler, up, down, handlerClosed, broken, answered>>

\* The stream has ended without a response, or was reset before it was read.
ReadResponseFails(r) ==
    /\ client[r] = "read"
    /\ r \in broken \/ r \in handlerClosed \ down
    /\ Leave(r, "error")
    /\ UNCHANGED <<dead, handler, up, down, handlerClosed, broken, answered>>

-----------------------------------------------------------------------------
(* The handlers *)

\* onShardPeerRequest has its answer in the table; the other asks the host.
ReadRequest(r) ==
    /\ handler[r] = "read" /\ r \in up
    /\ up' = up \ {r}
    /\ IF r \in General THEN Handler(r, "ask") /\ UNCHANGED answered
       ELSE Handler(r, "reply") /\ answered' = answered \cup {r}
    /\ UNCHANGED <<dead, client, down, clientClosed, handlerClosed, broken>>

\* GetPeersInShard asks isShardSet of every entry it has, and isShardSet reads the
\* byte unchecked.  With an entry in the table, a wild id ends the process.
ReadRequestPanics(r) ==
    /\ handler[r] = "read" /\ r \in up \cap Wild
    /\ dead' = TRUE
    /\ handler' = [q \in Reqs |-> IF handler[q] = "none" THEN "none" ELSE "gone"]
    /\ broken' = broken \cup {q \in Reqs : handler[q] # "none"}
    /\ UNCHANGED <<client, up, down, clientClosed, handlerClosed, answered>>

ReadRequestFails(r) ==
    /\ handler[r] = "read"
    /\ r \in broken \/ r \in clientClosed \ up
    /\ Handler(r, "close")
    /\ UNCHANGED <<dead, client, up, down, clientClosed, handlerClosed, broken, answered>>

HostAnswers(r) ==
    /\ handler[r] = "ask"
    /\ Handler(r, "reply")
    /\ answered' = answered \cup {r}
    /\ UNCHANGED <<dead, client, up, down, clientClosed, handlerClosed, broken>>

\* An error of the host side, or a refusal: no response is sent.
HostRefuses(r) ==
    /\ handler[r] = "ask"
    /\ Handler(r, "close")
    /\ UNCHANGED <<dead, client, up, down, clientClosed, handlerClosed, broken, answered>>

Reply(r) ==
    /\ handler[r] = "reply"
    /\ down' = IF r \in broken THEN down ELSE down \cup {r}
    /\ Handler(r, "close")
    /\ UNCHANGED <<dead, client, up, clientClosed, handlerClosed, broken, answered>>

\* (mutant) the deferred call is Close
FullClose_OnlyCloses(r) ==
    /\ handler[r] = "close"
    /\ handlerClosed' = handlerClosed \cup {r}
    /\ Handler(r, "gone")
    /\ UNCHANGED <<dead, client, up, down, clientClosed, broken, answered>>

\* (mutant) the deferred call is missing
FullClose_Omitted(r) ==
    /\ handler[r] = "close"
    /\ Handler(r, "gone")
    /\ UNCHANGED <<dead, client, up, down, clientClosed, handlerClosed, broken, answered>>

\* The deferred FullClose closes ...
FullClose(r) ==
    /\ handler[r] = "close"
    /\ handlerClosed' = handlerClosed \cup {r}
    /\ Handler(r, "await")
    /\ UNCHANGED <<dead, client, up, down, clientClosed, broken, answered>>

\* ... waits for the other side ...
AwaitEOF(r) ==
    /\ handler[r] = "await"
    /\ r \in clientClosed \cup broken
    /\ Handler(r, "gone")
    /\ UNCHANGED <<dead, client, up, down, clientClosed, handlerClosed, broken, answered>>

\* (mutant) nobody gives up waiting
EOFTimeout_Never(r) ==
    /\ handler[r] = "await"
    /\ UNCHANGED vars

\* ... or gives up and resets.
EOFTimeout(r) ==
    /\ handler[r] = "await"
    /\ Handler(r, "gone")
    /\ broken' = broken \cup {r}
    /\ UNCHANGED <<dead, client, up, down, clientClosed, handlerClosed, answered>>

\* The connection is lost.
Break(r) ==
    /\ Unreliable
    /\ handler[r] # "none"
    /\ broken' = broken \cup {r}
    /\ UNCHANGED <<dead, client, handler, up, down, clientClosed, handlerClosed, answered>>

-----------------------------------------------------------------------------
ClientStep(r) == SendRequest(r) \/ ReadResponse(r) \/ ReadResponseFails(r)

HostStep(r) == HostAnswers(r) \/ HostRefuses(r)

HandlerStep(r) == \/ ReadRequest(r) \/ ReadRequestPanics(r) \/ ReadRequestFails(r) \/ Reply(r)
                  \/ FullClose(r) \/ AwaitEOF(r) \/ EOFTimeout(r)

Next == \E r \in Reqs : \/ NewStream(r) \/ NewStreamFails(r) \/ Break(r)
                        \/ ClientStep(r) \/ HostStep(r) \/ HandlerStep(r)

Spec == Init /\ [][Next]_vars

\* Both sides run.  The handler asks its host without a deadline, so the host
\* may keep a handler waiting for ever.
FairSpec == Spec /\ \A r \in Reqs : WF_vars(ClientStep(r)) /\ WF_vars(HandlerStep(r))

-----------------------------------------------------------------------------
\* Every variable has its type, and no message outlives its handling.
TypeOK ==
    /\ client \in [Reqs -> {"idle", "send", "read", "ok", "error"}]
    /\ handler \in [Reqs -> {"none", "read", "ask", "reply", "close", "await", "gone"}]
    /\ up \subseteq {r \in Reqs : handler[r] # "none" /\ r \notin down}
    /\ dead \in BOOLEAN
    /\ {down, answered, clientClosed, handlerClosed, broken} \subseteq SUBSET Reqs

\* The call has come back.
Returned(r) == client[r] \in {"ok", "error"}

\* A call succeeds only with an answer: when the host side refuses, or the
\* stream ends early, the caller gets an error and never an empty response.
OkMeansAnswered == \A r \in Reqs : client[r] = "ok" => r \in answered

\* When both sides are through, the stream is closed in both directions or
\* reset, although generalRequest leaves its side open (requests.go:153-178).
NoStreamLeaks ==
    \A r \in Reqs : Returned(r) /\ handler[r] = "gone" =>
                       r \in broken \/ r \in clientClosed \cap handlerClosed

\* Every call returns unless a host keeps its handler waiting: also when the
\* handler sends nothing.  A handler asks once, so a call whose host has answered
\* or refused does return.
CallsReturn == \A r \in Reqs : (client[r] # "idle") ~> (Returned(r) \/ handler[r] = "ask")

\* A call has no deadline of its own, but it does not outlive its stream: when
\* that breaks it returns, even if the host never answers (requests.go:173).
BrokenReturns == \A r \in Reqs : (client[r] # "idle" /\ r \in broken) ~> Returned(r)

\* Every handler ends, unless its host keeps it waiting.
HandlersEnd == \A r \in Reqs : (handler[r] # "none") ~> (handler[r] \in {"gone", "ask"})
=============================================================================
