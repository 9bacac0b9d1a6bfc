---------------------------- MODULE Requests_proofs ----------------------------
(***************************************************************************)
(* Proofs about Requests, for any set of requests of both kinds, with or   *)
(* without streams that break.                                             *)
(***************************************************************************)
EXTENDS Requests, TLAPS

\* The types alone.
TypeInv ==
    /\ client \in [Reqs -> {"idle", "send", "read", "ok", "error"}]
    /\ handler \in [Reqs -> {"none", "read", "ask", "reply", "close", "await", "gone"}]
    /\ up \subseteq Reqs /\ down \subseteq Reqs /\ answered \subseteq Reqs
    /\ clientClosed \subseteq Reqs /\ handlerClosed \subseteq Reqs /\ broken \subseteq Reqs
    /\ dead \in BOOLEAN

\* How far the two sides of a stream can be apart.
StreamInv ==
    \A r \in Reqs :
      /\ client[r] = "idle" => handler[r] = "none"
      /\ handler[r] = "none" => client[r] \in {"idle", "error"}
      /\ r \in up => client[r] \notin {"idle", "send"} /\ handler[r] # "none"
      /\ handler[r] \in {"ask", "reply"} \/ r \in answered
            => client[r] \notin {"idle", "send"} /\ r \notin up
      /\ handler[r] = "reply" \/ r \in down => r \in answered
      /\ client[r] = "ok" => r \in answered
      /\ handler[r] = "await" => r \in handlerClosed
      /\ handler[r] = "gone" => r \in broken \/ r \in clientClosed \cap handlerClosed

LEMMA TypeStep == TypeInv /\ [Next]_vars => TypeInv'
<1> SUFFICES ASSUME TypeInv, [Next]_vars PROVE TypeInv'
  OBVIOUS
<1> USE DEF TypeInv, Client, Handler
<1>1. ASSUME NEW r \in Reqs, NewStream(r) \/ NewStreamFails(r) \/ Break(r) PROVE TypeInv'
  BY <1>1 DEF NewStream, NewStreamFails, Break
<1>2. ASSUME NEW r \in Reqs, ClientStep(r) PROVE TypeInv'
  BY <1>2 DEF ClientStep, SendRequest, ReadResponse, ReadResponseFails, Leave
<1>3. ASSUME NEW r \in Reqs, HostStep(r) PROVE TypeInv'
  BY <1>3 DEF HostStep, HostAnswers, HostRefuses
<1>4. ASSUME NEW r \in Reqs, HandlerStep(r) PROVE TypeInv'
  BY <1>4 DEF HandlerStep, ReadRequest, ReadRequestPanics, ReadRequestFails, Reply, FullClose, AwaitEOF, EOFTimeout
<1>5. CASE UNCHANGED vars
  BY <1>5 DEF vars
<1> QED BY <1>1, <1>2, <1>3, <1>4, <1>5 DEF Next

LEMMA StreamStep == TypeInv /\ StreamInv /\ [Next]_vars => StreamInv'
<1> SUFFICES ASSUME TypeInv, StreamInv, [Next]_vars PROVE StreamInv'
  OBVIOUS
<1> USE DEF TypeInv, StreamInv, Client, Handler
<1>1. ASSUME NEW r \in Reqs, NewStream(r) PROVE StreamInv'
  BY <1>1 DEF NewStream
<1>2. ASSUME NEW r \in Reqs, NewStreamFails(r) PROVE StreamInv'
  BY <1>2 DEF NewStreamFails
<1>3. ASSUME NEW r \in Reqs, Break(r) PROVE StreamInv'
  BY <1>3 DEF Break
<1>4. ASSUME NEW r \in Reqs, SendRequest(r) PROVE StreamInv'
  BY <1>4 DEF SendRequest, Leave
<1>5. ASSUME NEW r \in Reqs, ReadResponse(r) PROVE StreamInv'
  BY <1>5 DEF ReadResponse, Leave
<1>6. ASSUME NEW r \in Reqs, ReadResponseFails(r) PROVE StreamInv'
  BY <1>6 DEF ReadResponseFails, Leave
<1>7. ASSUME NEW r \in Reqs, ReadRequest(r) PROVE StreamInv'
  BY <1>7 DEF ReadRequest
<1>8. ASSUME NEW r \in Reqs, ReadRequestFails(r) PROVE StreamInv'
  BY <1>8 DEF ReadRequestFails
<1>9. ASSUME NEW r \in Reqs, HostAnswers(r) PROVE StreamInv'
  BY <1>9 DEF HostAnswers
<1>10. ASSUME NEW r \in Reqs, HostRefuses(r) PROVE StreamInv'
  BY <1>10 DEF HostRefuses
<1>11. ASSUME NEW r \in Reqs, Reply(r) PROVE StreamInv'
  BY <1>11 DEF Reply
<1>12. ASSUME NEW r \in Reqs, FullClose(r) PROVE StreamInv'
  BY <1>12 DEF FullClose
<1>13. ASSUME NEW r \in Reqs, AwaitEOF(r) \/ EOFTimeout(r) PROVE StreamInv'
  BY <1>13 DEF AwaitEOF, EOFTimeout
<1>14. ASSUME NEW r \in Reqs, ReadRequestPanics(r) PROVE StreamInv'
  BY <1>14 DEF ReadRequestPanics
<1>15. CASE UNCHANGED vars
  BY <1>15 DEF vars
<1> HIDE DEF TypeInv, StreamInv
<1> QED
  BY <1>1, <1>2, <1>3, <1>4, <1>5, <1>6, <1>7, <1>8, <1>9, <1>10, <1>11, <1>12, <1>13, <1>14, <1>15
  DEF Next, ClientStep, HostStep, HandlerStep

LEMMA StreamAlways == Spec => [](TypeInv /\ StreamInv)
<1>1. Init => TypeInv /\ StreamInv
  BY DEF Init, TypeInv, StreamInv
<1> QED BY <1>1, TypeStep, StreamStep, PTL DEF Spec

\* Every variable keeps its type, and no question is still on its way when its
\* answer is.
THEOREM TypeCorrect == Spec => []TypeOK
<1>1. TypeInv /\ StreamInv => TypeOK
  BY DEF TypeInv, StreamInv, TypeOK
<1> QED BY <1>1, StreamAlways, PTL

\* For any requests, and wherever streams break, a call succeeds only with an
\* answer of the other node's host or table (requests.go:60-80 and 122-178).
THEOREM AnswersAreReal == Spec => []OkMeansAnswered
<1>1. StreamInv => OkMeansAnswered
  BY DEF StreamInv, OkMeansAnswered
<1> QED BY <1>1, StreamAlways, PTL

\* For any requests, and wherever streams break, no stream is left open when both
\* sides are through, although generalRequest never closes (requests.go:153-178).
THEOREM StreamsAreReleased == Spec => []NoStreamLeaks
<1>1. StreamInv => NoStreamLeaks
  BY DEF StreamInv, NoStreamLeaks
<1> QED BY <1>1, StreamAlways, PTL
=============================================================================
