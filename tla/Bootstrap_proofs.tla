--------------------------- MODULE Bootstrap_proofs ---------------------------
(***************************************************************************)
(* Proofs about Bootstrap.  For any number of concurrent calls and peers,  *)
(* bootstrapConnect never sends into a closed channel and counts right.    *)
(* With calls that do not overlap, the fields of the node tell the truth.  *)
(***************************************************************************)
EXTENDS Bootstrap, FiniteSetTheorems, TLAPS

\* One goroutine makes all the calls.
Serial == \E c \in Callers : Callers = {c}

\* Every action keeps the types.
LEMMA TypeStep == TypeOK /\ [Next]_vars => TypeOK'
<1> SUFFICES ASSUME TypeOK, [Next]_vars PROVE TypeOK'
  OBVIOUS
<1> USE DEF TypeOK, Labels, Goto, flags, conn, At, DialAt
<1>1. ASSUME NEW c \in Callers, Start(c) PROVE TypeOK'
  <2>1. CASE doBootstrapping
    BY <1>1, <2>1 DEF Start
  <2>2. CASE ~doBootstrapping
    <3>1. /\ up' = [up EXCEPT ![c] = {}] /\ errs' = [errs EXCEPT ![c] = 0]
          /\ closed' = [closed EXCEPT ![c] = FALSE]
          /\ \/ /\ verdict' = [verdict EXCEPT ![c] = "error"]
                /\ pc' = [pc EXCEPT ![c] = "dht"] /\ dial' = dial
             \/ /\ verdict' = [verdict EXCEPT ![c] = "none"]
                /\ pc' = [pc EXCEPT ![c] = "wait"]
                /\ dial' = [dial EXCEPT ![c] = [p \in Peers |-> "dialing"]]
          /\ UNCHANGED <<doBootstrapping, cancelBootstrapping, running, ctx>>
      BY <1>1, <2>2, Zenon DEF Start
    <3>2. closed' \in [Callers -> BOOLEAN]
      BY <3>1, Zenon
    <3>3. up' \in [Callers -> SUBSET Peers] /\ errs' \in [Callers -> Nat]
      BY <3>1
    <3>4. dial' \in [Callers -> [Peers -> {"none", "dialing", "failed", "done"}]]
      BY <3>1
    <3>5. pc' \in [Callers -> Labels] /\ verdict' \in [Callers -> {"none", "ok", "error"}]
      BY <3>1
    <3> QED BY <3>1, <3>2, <3>3, <3>4, <3>5
  <2> QED BY <2>1, <2>2
<1>2. ASSUME NEW c \in Callers, Stop(c) PROVE TypeOK'
  BY <1>2 DEF Stop
<1>3. ASSUME NEW c \in Callers, NEW p \in Peers, DialSucceeds(c, p) PROVE TypeOK'
  BY <1>3 DEF DialSucceeds
<1>4. ASSUME NEW c \in Callers, NEW p \in Peers, DialFails(c, p) PROVE TypeOK'
  BY <1>4 DEF DialFails
<1>5. ASSUME NEW c \in Callers, NEW p \in Peers, SendErr(c, p) PROVE TypeOK'
  BY <1>5 DEF SendErr
<1>6. ASSUME NEW c \in Callers, Wait(c) PROVE TypeOK'
  BY <1>6 DEF Wait
<1>7. ASSUME NEW c \in Callers, Drain(c) PROVE TypeOK'
  BY <1>7 DEF Drain
<1>8. ASSUME NEW c \in Callers, DHTBootstrap(c) PROVE TypeOK'
  BY <1>8 DEF DHTBootstrap, FreeRoutines
<1>9. ASSUME NEW c \in Callers, DHTBootstrapFails(c) PROVE TypeOK'
  BY <1>9 DEF DHTBootstrapFails
<1>10. ASSUME NEW c \in Callers, SetFlag(c) PROVE TypeOK'
  BY <1>10 DEF SetFlag
<1>11. ASSUME NEW c \in Callers, SetCancel(c) PROVE TypeOK'
  BY <1>11 DEF SetCancel
<1>12. ASSUME NEW c \in Callers, Cancel(c) PROVE TypeOK'
  BY <1>12 DEF Cancel
<1>13. ASSUME NEW c \in Callers, ClearFlag(c) PROVE TypeOK'
  BY <1>13 DEF ClearFlag
<1>14. ASSUME NEW c \in Callers, ClearCancel(c) PROVE TypeOK'
  BY <1>14 DEF ClearCancel
<1>15. CASE UNCHANGED vars
  BY <1>15 DEF vars
<1>16. ASSUME NEW c \in Callers, ConvertPeersFails(c) PROVE TypeOK'
  BY <1>16 DEF ConvertPeersFails
<1> QED
  BY <1>1, <1>2, <1>3, <1>4, <1>5, <1>6, <1>7, <1>8, <1>9, <1>10, <1>11, <1>12,
     <1>13, <1>14, <1>15, <1>16 DEF Next, DialStep, StartStep, StopStep

-----------------------------------------------------------------------------
(* bootstrapConnect, for any number of callers and peers *)

\* The peers whose failure c's goroutines have reported.
Reported(c) == {p \in Peers : dial[c][p] = "done"} \ up[c]

\* What is true of one call of bootstrapConnect: a goroutine is done when its
\* peer is connected or its error is in the channel, which is closed only when
\* all are done.
ConnectInv1(c) ==
    /\ up[c] \subseteq {p \in Peers : dial[c][p] = "done"}
    /\ pc[c] = "wait" => errs[c] = Cardinality(Reported(c)) /\ ~closed[c]
    /\ pc[c] = "drain" => /\ errs[c] = Cardinality(Reported(c))
                          /\ \A p \in Peers : dial[c][p] = "done"
    /\ pc[c] \notin {"wait"} =>
          /\ errs[c] = 0 \/ pc[c] = "drain"
          /\ \A p \in Peers : dial[c][p] \in {"none", "done"}
    /\ closed[c] => \A p \in Peers : dial[c][p] = "done"
    /\ pc[c] = "dht" => (verdict[c] = "error" <=> up[c] = {})

ConnectInv == \A c \in Callers : ConnectInv1(c)

\* The steps of one caller leave the bootstrapConnect of the others alone.
LEMMA OtherCaller ==
    ASSUME NEW c, NEW d, ConnectInv1(d), c # d,
           pc'[d] = pc[d], dial'[d] = dial[d], up'[d] = up[d],
           errs'[d] = errs[d], closed'[d] = closed[d], verdict'[d] = verdict[d]
    PROVE  ConnectInv1(d)'
BY DEF ConnectInv1, Reported

LEMMA ReportedFinite == \A c : IsFiniteSet(Reported(c)) /\ Cardinality(Reported(c)) \in Nat
<1> SUFFICES ASSUME NEW c PROVE IsFiniteSet(Reported(c)) /\ Cardinality(Reported(c)) \in Nat
  OBVIOUS
<1>1. Reported(c) \subseteq Peers
  BY DEF Reported
<1> QED BY <1>1, FiniteAssumption, FS_Subset, FS_CardinalityType

\* The steps that touch neither the goroutines nor the channel, and do not enter
\* bootstrapConnect, keep ConnectInv.
LEMMA FlagStep ==
    ASSUME TypeOK, ConnectInv, NEW c \in Callers, NEW l \in Labels,
           pc' = [pc EXCEPT ![c] = l], UNCHANGED conn,
           pc[c] \notin {"wait", "drain"}, l \notin {"wait", "drain", "dht"}
    PROVE  ConnectInv'
<1> SUFFICES ASSUME NEW d \in Callers PROVE ConnectInv1(d)'
  BY DEF ConnectInv
<1>1. CASE d # c
  BY <1>1, OtherCaller DEF ConnectInv, TypeOK, conn
<1>2. CASE d = c
  BY <1>2 DEF ConnectInv, ConnectInv1, TypeOK, conn
<1> QED BY <1>1, <1>2

LEMMA ConnectStep == TypeOK /\ ConnectInv /\ [Next]_vars => ConnectInv'
<1> SUFFICES ASSUME TypeOK, ConnectInv, [Next]_vars PROVE ConnectInv'
  OBVIOUS
<1> USE DEF At, DialAt
<1>1. ASSUME NEW c \in Callers, Start(c) PROVE ConnectInv'
  <2>1. CASE doBootstrapping
    <3>1. UNCHANGED <<pc, dial, up, errs, closed, verdict>>
      BY <1>1, <2>1, Zenon DEF Start, conn
    <3> QED BY <3>1 DEF ConnectInv, ConnectInv1, Reported
  <2>2. CASE ~doBootstrapping
    <3> SUFFICES ASSUME NEW d \in Callers PROVE ConnectInv1(d)'
      BY DEF ConnectInv
    <3>1. /\ up' = [up EXCEPT ![c] = {}] /\ errs' = [errs EXCEPT ![c] = 0]
          /\ closed' = [closed EXCEPT ![c] = FALSE]
          /\ \/ /\ Peers = {}
                /\ verdict' = [verdict EXCEPT ![c] = "error"]
                /\ pc' = [pc EXCEPT ![c] = "dht"] /\ dial' = dial
             \/ /\ verdict' = [verdict EXCEPT ![c] = "none"]
                /\ pc' = [pc EXCEPT ![c] = "wait"]
                /\ dial' = [dial EXCEPT ![c] = [p \in Peers |-> "dialing"]]
      BY <1>1, <2>2, Zenon DEF Start, Goto
    <3>2. CASE d # c
      <4>1. closed'[d] = closed[d]
        BY <3>1, <3>2, Zenon DEF TypeOK
      <4>2. /\ pc'[d] = pc[d] /\ dial'[d] = dial[d] /\ up'[d] = up[d]
            /\ errs'[d] = errs[d] /\ verdict'[d] = verdict[d]
        BY <3>1, <3>2 DEF TypeOK
      <4> QED BY <4>1, <4>2, <3>2, OtherCaller DEF ConnectInv
    <3>3. CASE d = c
      <4>1. ~closed'[c]
        BY <3>1, Zenon DEF TypeOK
      <4>2. up'[c] = {} /\ errs'[c] = 0
        BY <3>1 DEF TypeOK
      <4>3. CASE Peers = {} /\ pc'[c] = "dht" /\ verdict'[c] = "error"
        BY <4>1, <4>2, <4>3, <3>3 DEF ConnectInv1
      <4>4. CASE pc'[c] = "wait" /\ dial'[c] = [p \in Peers |-> "dialing"]
        <5>1. Reported(c)' = {}
          BY <4>4 DEF Reported
        <5> QED BY <5>1, <4>1, <4>2, <4>4, <3>3, FS_EmptySet DEF ConnectInv1
      <4> QED BY <3>1, <4>3, <4>4 DEF TypeOK
    <3> QED BY <3>2, <3>3
  <2> QED BY <2>1, <2>2
<1>2. ASSUME NEW c \in Callers, Stop(c) PROVE ConnectInv'
  BY <1>2, FlagStep DEF Stop, Goto, Labels, conn
<1>3. ASSUME NEW c \in Callers, NEW p \in Peers, DialSucceeds(c, p) PROVE ConnectInv'
  <2> SUFFICES ASSUME NEW d \in Callers PROVE ConnectInv1(d)'
    BY DEF ConnectInv
  <2> USE DEF DialSucceeds, TypeOK
  <2>1. CASE d # c
    BY <1>3, <2>1, OtherCaller DEF ConnectInv
  <2>2. CASE d = c
    <3>1. /\ up'[c] = up[c] \cup {p} /\ pc'[c] = pc[c] /\ errs'[c] = errs[c]
          /\ \A q \in Peers : dial'[c][q] = IF q = p THEN "done" ELSE dial[c][q]
          /\ closed' = closed
      BY <1>3
    <3>2. dial[c][p] = "dialing" /\ pc[c] = "wait" /\ ~closed[c]
      BY <1>3 DEF ConnectInv, ConnectInv1
    <3>3. Reported(c)' = Reported(c)
      BY <3>1, <3>2 DEF Reported
    <3> QED BY <3>1, <3>2, <3>3, <2>2 DEF ConnectInv, ConnectInv1
  <2> QED BY <2>1, <2>2
<1>4. ASSUME NEW c \in Callers, NEW p \in Peers, DialFails(c, p) PROVE ConnectInv'
  <2> SUFFICES ASSUME NEW d \in Callers PROVE ConnectInv1(d)'
    BY DEF ConnectInv
  <2> USE DEF DialFails, TypeOK
  <2>1. CASE d # c
    BY <1>4, <2>1, OtherCaller DEF ConnectInv
  <2>2. CASE d = c
    <3>1. /\ up' = up /\ pc' = pc /\ errs' = errs /\ closed' = closed
          /\ \A q \in Peers : dial'[c][q] = IF q = p THEN "failed" ELSE dial[c][q]
      BY <1>4
    <3>2. dial[c][p] = "dialing" /\ pc[c] = "wait" /\ ~closed[c] /\ p \notin up[c]
      BY <1>4 DEF ConnectInv, ConnectInv1
    <3>3. Reported(c)' = Reported(c)
      BY <3>1, <3>2 DEF Reported
    <3> QED BY <3>1, <3>2, <3>3, <2>2 DEF ConnectInv, ConnectInv1
  <2> QED BY <2>1, <2>2
<1>5. ASSUME NEW c \in Callers, NEW p \in Peers, SendErr(c, p) PROVE ConnectInv'
  <2> SUFFICES ASSUME NEW d \in Callers PROVE ConnectInv1(d)'
    BY DEF ConnectInv
  <2> USE DEF SendErr, TypeOK
  <2>1. CASE d # c
    BY <1>5, <2>1, OtherCaller DEF ConnectInv
  <2>2. CASE d = c
    <3>1. /\ up' = up /\ pc' = pc /\ errs'[c] = errs[c] + 1 /\ closed' = closed
          /\ \A q \in Peers : dial'[c][q] = IF q = p THEN "done" ELSE dial[c][q]
      BY <1>5
    <3>2. dial[c][p] = "failed" /\ pc[c] = "wait" /\ ~closed[c] /\ p \notin up[c]
      BY <1>5 DEF ConnectInv, ConnectInv1
    <3>3. Reported(c)' = Reported(c) \cup {p} /\ p \notin Reported(c)
      BY <3>1, <3>2 DEF Reported
    <3>4. Cardinality(Reported(c) \cup {p}) = Cardinality(Reported(c)) + 1
      BY <3>3, ReportedFinite, FS_AddElement
    <3>5. errs'[c] = Cardinality(Reported(c))'
      BY <3>1, <3>2, <3>3, <3>4 DEF ConnectInv, ConnectInv1
    <3>6. up'[c] \subseteq {q \in Peers : dial'[c][q] = "done"}
      BY <3>1 DEF ConnectInv, ConnectInv1
    <3> QED BY <3>1, <3>2, <3>5, <3>6, <2>2 DEF ConnectInv1
  <2> QED BY <2>1, <2>2
<1>6. ASSUME NEW c \in Callers, Wait(c) PROVE ConnectInv'
  <2> SUFFICES ASSUME NEW d \in Callers PROVE ConnectInv1(d)'
    BY DEF ConnectInv
  <2>1. /\ pc[c] = "wait" /\ \A p \in Peers : dial[c][p] = "done"
        /\ pc' = [pc EXCEPT ![c] = "drain"] /\ closed' = [closed EXCEPT ![c] = TRUE]
        /\ UNCHANGED <<dial, up, errs, verdict>>
    BY <1>6, Zenon DEF Wait, Goto
  <2>2. CASE d # c
    <3>1. closed'[d] = closed[d]
      BY <2>1, <2>2, Zenon DEF TypeOK
    <3> QED BY <3>1, <2>1, <2>2, OtherCaller DEF ConnectInv, TypeOK
  <2>3. CASE d = c
    BY <2>1, <2>3 DEF ConnectInv, ConnectInv1, Reported, TypeOK
  <2> QED BY <2>2, <2>3
<1>7. ASSUME NEW c \in Callers, Drain(c) PROVE ConnectInv'
  <2> SUFFICES ASSUME NEW d \in Callers PROVE ConnectInv1(d)'
    BY DEF ConnectInv
  <2> USE DEF Drain, TypeOK, Goto
  <2>1. CASE d # c
    BY <1>7, <2>1, OtherCaller DEF ConnectInv
  <2>2. CASE d = c
    <3>0. \A p \in Peers : dial[c][p] = "done"
      BY <1>7 DEF ConnectInv, ConnectInv1
    <3>1. Reported(c) = Peers \ up[c] /\ up[c] \subseteq Peers
      BY <3>0 DEF Reported
    <3>2. errs[c] = Cardinality(Peers) <=> up[c] = {}
      <4>1. up[c] = {} => errs[c] = Cardinality(Peers)
        <5>1. up[c] = {} => Reported(c) = Peers
          BY <3>1
        <5> QED BY <5>1, <1>7 DEF ConnectInv, ConnectInv1
      <4>2. ASSUME up[c] # {} PROVE errs[c] # Cardinality(Peers)
        <5>1. Reported(c) \subseteq Peers /\ Reported(c) # Peers
          BY <3>1, <4>2
        <5>2. Cardinality(Reported(c)) # Cardinality(Peers)
          <6> HIDE DEF Drain, TypeOK, Goto
          <6>1. Reported(c) \in SUBSET Peers /\ IsFiniteSet(Peers)
            BY <5>1, FiniteAssumption
          <6>2. Cardinality(Peers) = Cardinality(Reported(c)) => Peers = Reported(c)
            BY ONLY <6>1, FS_Subset
          <6> QED BY <5>1, <6>2
        <5> QED BY <5>2, <1>7 DEF ConnectInv, ConnectInv1
      <4> QED BY <4>1, <4>2
    <3>3. /\ pc'[c] = "dht" /\ errs'[c] = 0 /\ dial' = dial /\ up' = up /\ closed' = closed
          /\ verdict'[c] = IF errs[c] = Cardinality(Peers) THEN "error" ELSE "ok"
      BY <1>7
    <3> QED BY <1>7, <2>2, <3>2, <3>3 DEF ConnectInv, ConnectInv1
  <2> QED BY <2>1, <2>2
<1>8. ASSUME NEW c \in Callers, DHTBootstrap(c) PROVE ConnectInv'
  BY <1>8, FlagStep DEF DHTBootstrap, Goto, Labels
<1>9. ASSUME NEW c \in Callers, DHTBootstrapFails(c) PROVE ConnectInv'
  BY <1>9, FlagStep DEF DHTBootstrapFails, Goto, Labels
<1>10. ASSUME NEW c \in Callers, SetFlag(c) PROVE ConnectInv'
  BY <1>10, FlagStep DEF SetFlag, Goto, Labels
<1>11. ASSUME NEW c \in Callers, SetCancel(c) PROVE ConnectInv'
  BY <1>11, FlagStep DEF SetCancel, Goto, Labels
<1>12. ASSUME NEW c \in Callers, Cancel(c) PROVE ConnectInv'
  BY <1>12, FlagStep DEF Cancel, Goto, Labels
<1>13. ASSUME NEW c \in Callers, ClearFlag(c) PROVE ConnectInv'
  BY <1>13, FlagStep DEF ClearFlag, Goto, Labels
<1>14. ASSUME NEW c \in Callers, ClearCancel(c) PROVE ConnectInv'
  BY <1>14, FlagStep DEF ClearCancel, Goto, Labels
<1>15. CASE UNCHANGED vars
  <2>1. /\ pc' = pc /\ dial' = dial /\ up' = up /\ errs' = errs
        /\ closed' = closed /\ verdict' = verdict
    BY <1>15, Zenon DEF vars, conn
  <2>2. ASSUME NEW d \in Callers PROVE ConnectInv1(d)'
    <3>1. Cardinality(Reported(d))' = Cardinality(Reported(d))
      BY <2>1, Zenon DEF Reported
    <3> QED BY <2>1, <3>1 DEF ConnectInv, ConnectInv1
  <2> QED BY <2>2 DEF ConnectInv
<1>16. ASSUME NEW c \in Callers, ConvertPeersFails(c) PROVE ConnectInv'
  BY <1>16, FlagStep DEF ConvertPeersFails, Goto, Labels
<1> QED
  BY <1>1, <1>2, <1>3, <1>4, <1>5, <1>6, <1>7, <1>8, <1>9, <1>10, <1>11, <1>12,
     <1>13, <1>14, <1>15, <1>16 DEF Next, DialStep, StartStep, StopStep

LEMMA InitTyped == Init => TypeOK /\ ConnectInv
<1> SUFFICES ASSUME Init PROVE TypeOK /\ ConnectInv
  OBVIOUS
<1>1. doBootstrapping \in BOOLEAN /\ closed \in [Callers -> BOOLEAN]
  BY Zenon DEF Init
<1>2. TypeOK
  BY <1>1 DEF Init, TypeOK, Labels
<1>3. ASSUME NEW c \in Callers PROVE ConnectInv1(c)
  <2>1. closed[c] = FALSE
    BY Zenon DEF Init
  <2>2. up[c] = {} /\ pc[c] = "idle" /\ errs[c] = 0 /\ \A p \in Peers : dial[c][p] = "none"
    BY DEF Init
  <2>3. up[c] \subseteq {p \in Peers : dial[c][p] = "done"}
    BY <2>2
  <2> QED BY <2>1, <2>2, <2>3, Zenon DEF ConnectInv1
<1> QED BY <1>2, <1>3 DEF ConnectInv

\* TypeOK and ConnectInv hold in every state of every behaviour.
LEMMA ConnectAlways == Spec => [](TypeOK /\ ConnectInv)
<1>1. TypeOK /\ ConnectInv /\ [Next]_vars => (TypeOK /\ ConnectInv)'
  BY TypeStep, ConnectStep
<1> QED BY <1>1, InitTyped, PTL DEF Spec

\* Every variable keeps its type.
THEOREM TypeCorrect == Spec => []TypeOK
BY ConnectAlways, PTL

\* However many calls overlap, and for any number of bootnodes, a goroutine with an
\* error to report never blocks: the errors already in the channel are those of
\* other peers of the same call, so one place per peer is enough (bootstrap.go:33).
THEOREM ChannelHasRoom == Spec => []SendersHaveRoom
<1>1. TypeOK /\ ConnectInv => SendersHaveRoom
  <2> SUFFICES ASSUME TypeOK, ConnectInv,
                      NEW c \in Callers, NEW p \in Peers, dial[c][p] = "failed"
               PROVE  errs[c] < Room
    BY DEF SendersHaveRoom
  <2>1. p \notin Reported(c) /\ Reported(c) \subseteq Peers
    BY DEF Reported
  <2>2. errs[c] = Cardinality(Reported(c))
    BY DEF ConnectInv, ConnectInv1
  <2>3. Reported(c) \in SUBSET Peers /\ IsFiniteSet(Peers)
    BY <2>1, FiniteAssumption
  <2>4. /\ Cardinality(Reported(c)) <= Cardinality(Peers)
        /\ Cardinality(Peers) = Cardinality(Reported(c)) => Peers = Reported(c)
    BY ONLY <2>3, FS_Subset
  <2>5. Cardinality(Peers) \in Nat /\ Cardinality(Reported(c)) \in Nat
    BY FiniteAssumption, FS_CardinalityType, ReportedFinite
  <2> QED BY <2>1, <2>2, <2>4, <2>5 DEF Room
<1> QED BY <1>1, ConnectAlways, PTL

\* However many calls overlap and whichever dials fail, no goroutine is left to
\* send when bootstrapConnect closes its channel (bootstrap.go:58-62).
THEOREM ChannelIsSafe == Spec => []NoSendAfterClose
<1>1. ConnectInv => NoSendAfterClose
  BY DEF ConnectInv, ConnectInv1, NoSendAfterClose
<1> QED BY <1>1, ConnectAlways, PTL

\* bootstrapConnect reports failure exactly when no peer was reached, for any
\* number of peers (bootstrap.go:60-73).
THEOREM CountIsRight == Spec => []VerdictIsRight
<1>1. ConnectInv => VerdictIsRight
  BY DEF ConnectInv, ConnectInv1, VerdictIsRight
<1> QED BY <1>1, ConnectAlways, PTL

-----------------------------------------------------------------------------
(* The fields of the node, when calls do not overlap *)

Off == ~doBootstrapping /\ running = {} /\ cancelBootstrapping = Nil

On == doBootstrapping /\ running = {cancelBootstrapping} /\ cancelBootstrapping # Nil

\* What the only caller has done so far.
FieldInv ==
    \A c \in Callers :
      /\ pc[c] \in {"idle", "panic"} => On \/ Off
      /\ pc[c] \in {"wait", "drain", "dht"} => Off
      /\ pc[c] = "setflag" => /\ ~doBootstrapping /\ cancelBootstrapping = Nil
                              /\ running = {ctx[c]} /\ ctx[c] # Nil
      /\ pc[c] = "setcancel" => doBootstrapping /\ running = {ctx[c]} /\ ctx[c] # Nil
      /\ pc[c] = "cancel" => On
      /\ pc[c] = "clearflag" => doBootstrapping /\ running = {}
      /\ pc[c] = "clearcancel" => ~doBootstrapping /\ running = {}

LEMMA FieldStep == Serial /\ TypeOK /\ FieldInv /\ [Next]_vars => FieldInv'
<1> SUFFICES ASSUME Serial, TypeOK, FieldInv, [Next]_vars PROVE FieldInv'
  OBVIOUS
<1> USE DEF TypeOK, FieldInv, On, Off, Goto, flags, conn, At, DialAt
<1>0. \A c, d \in Callers : c = d
  BY DEF Serial
<1>1. ASSUME NEW c \in Callers, Start(c) PROVE FieldInv'
  <2>1. /\ UNCHANGED <<doBootstrapping, cancelBootstrapping, running, ctx>>
        /\ \/ doBootstrapping /\ pc' = pc
           \/ ~doBootstrapping /\ pc' = [pc EXCEPT ![c] = "dht"]
           \/ ~doBootstrapping /\ pc' = [pc EXCEPT ![c] = "wait"]
        /\ pc[c] = "idle"
    BY <1>1, Zenon DEF Start
  <2> QED BY <1>0, <2>1
<1>2. ASSUME NEW c \in Callers, Stop(c) PROVE FieldInv'
  BY <1>0, <1>2 DEF Stop
<1>3. ASSUME NEW c \in Callers, DialStep(c) PROVE FieldInv'
  BY <1>3 DEF DialStep, DialSucceeds, DialFails, SendErr
<1>6. ASSUME NEW c \in Callers, Wait(c) PROVE FieldInv'
  <2>1. /\ UNCHANGED <<doBootstrapping, cancelBootstrapping, running, ctx>>
        /\ pc[c] = "wait" /\ pc' = [pc EXCEPT ![c] = "drain"]
    BY <1>6, Zenon DEF Wait
  <2> QED BY <1>0, <2>1
<1>7. ASSUME NEW c \in Callers, Drain(c) PROVE FieldInv'
  BY <1>0, <1>7 DEF Drain
<1>8. ASSUME NEW c \in Callers, DHTBootstrap(c) PROVE FieldInv'
  BY <1>0, <1>8, NilAssumption DEF DHTBootstrap, FreeRoutines
<1>9. ASSUME NEW c \in Callers, DHTBootstrapFails(c) PROVE FieldInv'
  BY <1>0, <1>9 DEF DHTBootstrapFails
<1>10. ASSUME NEW c \in Callers, SetFlag(c) PROVE FieldInv'
  BY <1>0, <1>10 DEF SetFlag
<1>11. ASSUME NEW c \in Callers, SetCancel(c) PROVE FieldInv'
  BY <1>0, <1>11 DEF SetCancel
<1>12. ASSUME NEW c \in Callers, Cancel(c) PROVE FieldInv'
  BY <1>0, <1>12 DEF Cancel
<1>13. ASSUME NEW c \in Callers, ClearFlag(c) PROVE FieldInv'
  BY <1>0, <1>13 DEF ClearFlag
<1>14. ASSUME NEW c \in Callers, ClearCancel(c) PROVE FieldInv'
  BY <1>0, <1>14 DEF ClearCancel
<1>15. CASE UNCHANGED vars
  BY <1>15 DEF vars
<1>16. ASSUME NEW c \in Callers, ConvertPeersFails(c) PROVE FieldInv'
  BY <1>0, <1>16 DEF ConvertPeersFails
<1> QED
  BY <1>1, <1>2, <1>3, <1>6, <1>7, <1>8, <1>9, <1>10, <1>11, <1>12, <1>13, <1>14,
     <1>15, <1>16 DEF Next, StartStep, StopStep

LEMMA FieldAlways == Serial => (Spec => [](TypeOK /\ FieldInv))
<1> SUFFICES ASSUME Serial PROVE Spec => [](TypeOK /\ FieldInv)
  OBVIOUS
<1>1. Init => TypeOK /\ FieldInv
  <2>1. Init => FieldInv
    BY DEF Init, FieldInv, Off
  <2> QED BY <2>1, InitTyped
<1>2. TypeOK /\ FieldInv /\ [Next]_vars => (TypeOK /\ FieldInv)'
  BY TypeStep, FieldStep
<1> QED BY <1>1, <1>2, PTL DEF Spec

\* Between calls that do not overlap, doBootstrapping and cancelBootstrapping
\* describe the one DHT routine that runs, or say that there is none (node.go:56-90).
THEOREM SerialFields == Serial => (Spec => []FieldsTellTruth)
<1> SUFFICES ASSUME Serial PROVE Spec => []FieldsTellTruth
  OBVIOUS
<1>1. TypeOK /\ FieldInv => FieldsTellTruth
  BY DEF Serial, FieldInv, FieldsTellTruth, Quiet, On, Off
<1> QED BY <1>1, FieldAlways, PTL

\* What two overlapping starts break holds between calls that do not overlap: when
\* the flag is down no DHT routine is left running (node.go:78-90).
THEOREM SerialStopStops == Serial => (Spec => []StopStops)
<1>1. FieldsTellTruth => StopStops
  BY DEF FieldsTellTruth, StopStops
<1> QED BY <1>1, SerialFields, PTL
=============================================================================
