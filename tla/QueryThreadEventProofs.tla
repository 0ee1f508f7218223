----------------------- MODULE QueryThreadEventProofs -----------------------
(***************************************************************************)
(* Theorems about what pgQueryThread does to the backend once it is        *)
(* cancelled, what it tells its owner, the results its locals point to and *)
(* which of them it returns.  They build on the invariant of               *)
(* QueryThreadProofs: a cancel signal can only reach its own query because *)
(* the loop is never left with a backend that still works on it.           *)
(***************************************************************************)
EXTENDS QueryThreadProofs, FiniteSetTheorems

-----------------------------------------------------------------------------
(* Cancellation                                                            *)

\* A signal on its way was sent by a cancelled thread to a live backend that
\* has a command to do.
SignalHasTarget == cancelReq => cancelled /\ link = "up" /\ backend # "idle"

\* pgConn holds a cancel handle only between SetConnCancel and
\* ResetConnCancel.
HandleInUse == cancelConn => pc \in InExecute \cup {"after"}

\* The query that was sent in spite of a cancellation is the last one.
LastSend ==
    /\ sentCancelled \in 0..1
    /\ sentCancelled = 1 => cancelled /\ pc \notin {"entry", "execute"}

CInv == SignalHasTarget /\ HandleInUse /\ LastSend

LEMMA InitCInv == Init => CInv
  BY DEF Init, ConnInit, CInv, SignalHasTarget, HandleInUse, LastSend

\* The steps of the worker outside the loop.
LEMMA OutsideKeepsCInv ==
    ASSUME IInv, CInv,
           StartQuery \/ NothingQueued \/ AfterExecute \/ LoopOrExit
              \/ Refuse \/ SendQuery
    PROVE  CInv'
  <1>1. CASE StartQuery
    BY <1>1
    DEF StartQuery, CInv, SignalHasTarget, HandleInUse, LastSend, InExecute, serverVars
  <1>2. CASE NothingQueued
    BY <1>2
    DEF NothingQueued, CInv, SignalHasTarget, HandleInUse, LastSend, InExecute,
        Loop, connVars
  <1>3. CASE AfterExecute
    BY <1>3
    DEF AfterExecute, ResetConnCancel, CInv, SignalHasTarget, HandleInUse,
        LastSend, serverVars
  <1>4. CASE LoopOrExit
    <2>1. sentCancelled = 1 => pc' = "exited"
      BY <1>4 DEF LoopOrExit, Stop, CInv, LastSend
    <2> QED
      BY <1>4, <2>1
      DEF LoopOrExit, CInv, SignalHasTarget, HandleInUse, LastSend, InExecute,
          Loop, connVars
  <1>5. CASE Refuse
    <2>1. pc = "execute" /\ pc' = "after"
      BY <1>5 DEF Refuse, ReturnWith
    <2> QED
      BY <1>5, <2>1
      DEF Refuse, CInv, SignalHasTarget, HandleInUse, LastSend, connVars
  <1>6. CASE SendQuery
    <2>1. sentCancelled = 0
      BY <1>6 DEF SendQuery, CInv, LastSend
    <2>2. sentCancelled' \in 0..1 /\ (sentCancelled' = 1 => cancelled') /\ pc' = "top"
      BY <1>6, <2>1 DEF SendQuery
    <2>3. SignalHasTarget'
      BY <1>6 DEF SendQuery, PQsendQuery, CInv, SignalHasTarget
    <2>4. HandleInUse'
      BY <1>6 DEF SendQuery, HandleInUse, InExecute, Loop
    <2> QED
      BY <2>2, <2>3, <2>4 DEF CInv, LastSend
  <1> QED
    BY <1>1, <1>2, <1>3, <1>4, <1>5, <1>6

\* A cancellation that is passed on.
LEMMA SignalSent ==
    ASSUME IInv, CInv, PassCancelOn, cancelled,
           UNCHANGED <<cancelled, link, backend>>
    PROVE  SignalHasTarget' /\ (cancelConn' => cancelConn)
  <1>1. cancelReq' => cancelReq \/ (link = "up" /\ backend # "idle")
    BY DEF PassCancelOn, CancelRequest, IInv, TypeOK, ConnTypeOK
  <1>2. cancelConn' => cancelConn
    BY DEF PassCancelOn, CancelRequest
  <1> QED
    BY <1>1, <1>2 DEF CInv, SignalHasTarget

\* The steps of the worker in the loop: a signal is only sent for a cancelled
\* query, and the loop ends in front of AfterExecute.
LEMMA InsideKeepsCInv ==
    ASSUME IInv, CInv,
           CheckCancelled \/ Consume \/ Lost \/ Fetch \/ DrainConsume \/ DrainGet
              \/ CopyPoll \/ CopyConsume \/ CopyLost \/ CopyEnd \/ SaveResult
              \/ OutOfLoop
    PROVE  CInv'
  <1>1. pc \in Loop /\ pc' \in Loop \cup {"after"}
    BY DEF CheckCancelled, Consume, Lost, Fetch, DrainConsume, DrainGet,
           CopyPoll, CopyConsume, CopyLost, CopyEnd, SaveResult, OutOfLoop,
           ReturnCancelled, ReturnWith, ConnectionLost, Loop
  <1>2. UNCHANGED <<cancelled, sentCancelled>>
    BY DEF CheckCancelled, Consume, Lost, Fetch, DrainConsume, DrainGet,
           CopyPoll, CopyConsume, CopyLost, CopyEnd, SaveResult, OutOfLoop
  <1>3. UNCHANGED <<link, backend>>
    BY DEF CheckCancelled, Consume, Lost, Fetch, DrainConsume, DrainGet,
           CopyPoll, CopyConsume, CopyLost, CopyEnd, SaveResult, OutOfLoop,
           PQconsumeInput, ConsumeFails, ReadDead, connVars, serverVars
  <1>4. LastSend'
    BY <1>1, <1>2 DEF CInv, LastSend, Loop
  <1>5. SignalHasTarget' /\ (cancelConn' => cancelConn)
    <2>1. CASE UNCHANGED <<cancelReq, cancelConn>>
      BY <1>2, <1>3, <2>1 DEF CInv, SignalHasTarget
    <2>2. CASE cancelled /\ PassCancelOn
      BY <1>2, <1>3, <2>2, SignalSent
    <2>3. (cancelled /\ PassCancelOn) \/ UNCHANGED <<cancelReq, cancelConn>>
      BY DEF CheckCancelled, Consume, Lost, Fetch, DrainConsume, DrainGet,
             CopyPoll, CopyConsume, CopyLost, CopyEnd, SaveResult, OutOfLoop,
             PQconsumeInput, ConsumeFails, ReadDead, connVars, serverVars
    <2> QED
      BY <2>1, <2>2, <2>3
  <1>6. HandleInUse'
    BY <1>1, <1>5 DEF HandleInUse, InExecute
  <1> QED
    BY <1>4, <1>5, <1>6 DEF CInv

\* The owner and the session.
LEMMA OthersKeepCInv ==
    ASSUME IInv, CInv, Owner \/ Session \/ UNCHANGED vars
    PROVE  CInv'
  <1>1. CASE AddQuery \/ HandleEvent \/ UNCHANGED vars
    BY <1>1
    DEF AddQuery, HandleEvent, vars, connVars, CInv, SignalHasTarget,
        HandleInUse, LastSend
  <1>2. CASE CancelExecution
    BY <1>2
    DEF CancelExecution, connVars, CInv, SignalHasTarget, HandleInUse, LastSend
  <1>3. CASE Destroy
    <2>1. pc = "exited" /\ pc' = "deleted"
      BY <1>3 DEF Destroy
    <2> QED
      BY <1>3, <2>1
      DEF Destroy, connVars, CInv, SignalHasTarget, HandleInUse, LastSend,
          InExecute, Loop
  <1>4. CASE Session
    <2>1. UNCHANGED <<cancelled, pc, sentCancelled>>
      BY <1>4 DEF Session, InSession
    <2>2. UNCHANGED cancelConn
      BY <1>4
      DEF Session, InSession, Environment, ServerStart, ServerSend,
          ServerCancel, NetDrop
    <2>3. cancelReq' => cancelReq /\ link' = link /\ backend' = backend
      BY <1>4
      DEF Session, InSession, Environment, ServerStart, ServerSend,
          ServerCancel, NetDrop
    <2> QED
      BY <2>1, <2>2, <2>3 DEF CInv, SignalHasTarget, HandleInUse, LastSend
  <1> QED
    BY <1>1, <1>2, <1>3, <1>4 DEF Owner

LEMMA NextCInv == IInv /\ CInv /\ [Next]_vars => CInv'
  BY OutsideKeepsCInv, InsideKeepsCInv, OthersKeepCInv DEF Next, Worker

THEOREM CancellationInvariance == Spec => []CInv
  BY InitCInv, NextCInv, Invariance, PTL DEF Spec

\* A cancel signal is pending only while the loop of a cancelled thread runs,
\* and the handle that sends it does not outlive Execute: whatever runs next
\* on the connection cannot be hit by it.
THEOREM CancelStaysOwn == Spec => []CancelOnlyOwnQuery
  <1>1. IInv /\ CInv => CancelOnlyOwnQuery
    <2> SUFFICES ASSUME IInv, CInv PROVE CancelOnlyOwnQuery
      OBVIOUS
    <2>1. pc \in Loop \cup {"execute", "after"} \cup Between
      BY DEF IInv, TypeOK, InExecute
    <2>2. cancelReq => cancelled /\ pc \in Loop
      BY <2>1 DEF IInv, ConnReusable, CInv, SignalHasTarget
    <2> QED
      BY <2>2 DEF CInv, HandleInUse, CancelOnlyOwnQuery
  <1> QED
    BY <1>1, Invariance, CancellationInvariance, PTL

\* Entry looks at m_cancelled behind Execute and not before it: a cancelled
\* thread sends one more query at the most.
THEOREM OneSendAfterCancel == Spec => []AtMostOneSentAfterCancel
  <1>1. CInv => AtMostOneSentAfterCancel
    BY DEF CInv, LastSend, AtMostOneSentAfterCancel
  <1> QED
    BY <1>1, CancellationInvariance, PTL
-----------------------------------------------------------------------------
(* Events.  Every step of the specification has one of five shapes.        *)

\* A step inside Execute: it may note a code, and tells nobody.
Runs ==
    /\ pc \in InExecute /\ pc' \in InExecute
    /\ UNCHANGED <<currIndex, set, events, raised>>
    /\ rc' = rc \/ \E code \in ReturnCode : SetRc(code)

\* A step out of Execute: the code is final, the event (if any) is posted,
\* and rows that were promised are kept.
Returns ==
    /\ pc \in InExecute
    /\ UNCHANGED currIndex
    /\ \/ UNCHANGED set /\ ReturnCancelled
       \/ \E code \in ReturnCode \ {"cancelled"} :
             /\ ReturnWith(code)
             /\ \/ UNCHANGED set /\ code # "tuples"
                \/ \E r \in Result : set' = [set EXCEPT ![currIndex] = r]

\* A step between two queries, of the session, or of an owner that neither
\* takes an event nor deletes the thread.
Rests ==
    /\ pc' = pc \/ {pc, pc'} \subseteq (Between \ {"deleted"}) \cup {"after"}
    /\ UNCHANGED <<currIndex, rc, set, events, raised>>

LEMMA LoopShapes ==
    ASSUME IInv,
           Refuse \/ SendQuery \/ CheckCancelled \/ Consume \/ Lost \/ Fetch
              \/ DrainConsume \/ DrainGet \/ CopyPoll \/ CopyConsume \/ CopyLost
              \/ CopyEnd \/ SaveResult \/ OutOfLoop
    PROVE  Runs \/ Returns
  <1>1. CASE Refuse
    <2>1. /\ pc \in InExecute /\ UNCHANGED <<currIndex, set>>
          /\ \E code \in {"conn_lost", "string_invalid", "send_query"} : ReturnWith(code)
      BY <1>1 DEF Refuse, InExecute
    <2> QED
      BY <2>1 DEF Returns, ReturnCode
  <1>2. CASE SendQuery \/ CopyPoll \/ CopyConsume \/ CopyEnd \/ SaveResult \/ DrainGet
    BY <1>2
    DEF SendQuery, CopyPoll, CopyConsume, CopyEnd, SaveResult, DrainGet, Runs,
        InExecute, Loop, queryVars
  <1>3. CASE CheckCancelled
    BY <1>3 DEF CheckCancelled, Runs, InExecute, Loop, ReturnCode
  <1>4. CASE Consume
    BY <1>4 DEF Consume, Runs, InExecute, Loop, ReturnCode
  <1>5. CASE Fetch
    <2>1. /\ pc \in InExecute /\ pc' \in InExecute
          /\ UNCHANGED <<currIndex, set, events, raised>>
      BY <1>5 DEF Fetch, InExecute, Loop
    <2>2. rc' = rc \/ \E code \in ReturnCode : SetRc(code)
      BY <1>5 DEF Fetch, ReturnCode
    <2> QED
      BY <2>1, <2>2 DEF Runs
  <1>6. CASE Lost \/ CopyLost
    <2>1. pc \in InExecute /\ UNCHANGED <<currIndex, set>>
      BY <1>6 DEF Lost, CopyLost, InExecute, Loop
    <2>2. ReturnCancelled \/ \E code \in {"conn_lost", "consume_input"} : ReturnWith(code)
      BY <1>6 DEF Lost, CopyLost, ConnectionLost
    <2> QED
      BY <2>1, <2>2 DEF Returns, ReturnCode
  <1>7. CASE DrainConsume
    <2>1. pc \in InExecute /\ UNCHANGED <<currIndex, set>>
      BY <1>7 DEF DrainConsume, InExecute, Loop
    <2>2. \/ ReturnCancelled
          \/ UNCHANGED <<rc, events, raised>> /\ pc' \in {"drain_get", "out"}
      BY <1>7 DEF DrainConsume
    <2> QED
      BY <2>1, <2>2 DEF Runs, Returns, InExecute, Loop
  <1>8. CASE OutOfLoop
    <2>1. pc \in InExecute /\ UNCHANGED currIndex
      BY <1>8 DEF OutOfLoop, InExecute, Loop
    <2>2. CASE UNCHANGED set /\ ReturnCancelled
      BY <2>1, <2>2 DEF Returns
    <2>3. CASE ~(UNCHANGED set /\ ReturnCancelled)
      <3> DEFINE code == IF Outcome = NoResult THEN "error" ELSE Outcome.kind
      <3>1. /\ ReturnWith(code)
            /\ IF Outcome.kind = "tuples"
               THEN set' = [set EXCEPT ![currIndex] = Outcome]
               ELSE UNCHANGED set
        BY <1>8, <2>3 DEF OutOfLoop
      <3>2. Outcome \in Result \cup {NoResult}
        BY DEF Outcome, IInv, TypeOK
      <3>3. code \in ReturnCode \ {"cancelled"} /\ (code = "tuples" => Outcome \in Result)
        BY <3>2 DEF Result, ResultKind, ReturnCode
      <3>4. Outcome.kind = "tuples" => code = "tuples"
        BY <3>2 DEF NoResult
      <3>5. code = "tuples" => Outcome.kind = "tuples"
        BY <3>2 DEF NoResult
      <3> HIDE DEF code
      <3> QED
        BY <2>1, <3>1, <3>3, <3>4, <3>5 DEF Returns
    <2> QED
      BY <2>2, <2>3
  <1> QED
    BY <1>1, <1>2, <1>3, <1>4, <1>5, <1>6, <1>7, <1>8

LEMMA StepShapes ==
    ASSUME IInv, [Next]_vars
    PROVE  Runs \/ Returns \/ Rests \/ StartQuery \/ HandleEvent \/ Destroy
  <1>1. CASE NothingQueued \/ AfterExecute \/ LoopOrExit
    BY <1>1
    DEF NothingQueued, AfterExecute, LoopOrExit, Rests, Between, queryVars
  <1>2. CASE AddQuery \/ CancelExecution \/ Session \/ UNCHANGED vars
    BY <1>2
    DEF AddQuery, CancelExecution, Session, InSession, vars, Rests, queryVars
  <1> QED
    BY <1>1, <1>2, LoopShapes DEF Next, Worker, Owner
\* Nobody is told when there is nobody to tell.
NoCallerNoEvent == ~HasCaller => \A i \in Index : raised[i] = 0

\* No two events that wait are about the same query: releasing the rows of
\* one cannot take them from another.
EventsDistinct ==
    \A j, k \in 1..Len(events) : events[j] = events[k] => j = k

EInv ==
    /\ OneEventPerQuery
    /\ NoCallerNoEvent
    /\ pc # "deleted" => EventsDistinct
    /\ PendingEventsHaveData

LEMMA InitEInv == Init => EInv
  <1> SUFFICES ASSUME Init PROVE EInv
    OBVIOUS
  <1>1. /\ events = <<>> /\ currIndex = 0 /\ \A i \in Index : raised[i] = 0
        /\ \A i \in Index : i \in Nat /\ i > 0
    BY MaxQueriesAssumption DEF Init, Index
  <1>2. OneEventPerQuery /\ NoCallerNoEvent
    BY <1>1 DEF OneEventPerQuery, NoCallerNoEvent, Finished
  <1> QED
    BY <1>1, <1>2 DEF EInv, EventsDistinct, PendingEventsHaveData

\* What Finished means while Execute runs, and between two calls of it.
LEMMA FinishedWhen ==
    ASSUME IInv
    PROVE  /\ pc \in InExecute => \A i \in Index : Finished(i) <=> i < currIndex
           /\ pc \notin InExecute => \A i \in Index : Finished(i) <=> i <= currIndex
           /\ \A i \in Index : i \in Nat
           /\ currIndex \in Nat
  <1>1. pc \in InExecute <=> pc \notin Between \cup {"after"}
    BY DEF IInv, TypeOK, InExecute, Loop, Between
  <1>2. currIndex \in Nat /\ \A i \in Index : i \in Nat
    BY MaxQueriesAssumption DEF IInv, TypeOK, Index
  <1> QED
    BY <1>1, <1>2 DEF Finished

\* The queries that wait to be handled.
LEMMA Pending ==
    ASSUME IInv
    PROVE  /\ Len(events) \in Nat
           /\ \A j \in 1..Len(events) : events[j] \in Index
  BY ElementOfSeq DEF IInv, TypeOK

\* Noting a code of the query that runs disturbs no answer that was given.
LEMMA RunsKeepEInv ==
    ASSUME IInv, EInv, Runs
    PROVE  EInv'
  <1>1. /\ \A i \in Index : Finished(i) <=> i < currIndex
        /\ currIndex \in Nat /\ \A i \in Index : i \in Nat
    BY FinishedWhen DEF Runs
  <1>2. pc' \notin Between \cup {"after"} /\ pc \notin Between
    BY DEF Runs, InExecute, Loop, Between
  <1>3. currIndex' = currIndex /\ events' = events /\ raised' = raised /\ set' = set
    BY DEF Runs
  <1>4. \A i \in Index : Finished(i)' <=> Finished(i)
    BY <1>1, <1>2, <1>3 DEF Finished
  <1>5. \A i \in Index : Finished(i) => rc'[i] = rc[i]
    BY <1>1 DEF Runs, SetRc, IInv, TypeOK
  <1>6. OneEventPerQuery'
    BY <1>3, <1>4, <1>5 DEF EInv, OneEventPerQuery
  <1>7. PendingEventsHaveData'
    <2>1. pc # "deleted"
      BY <1>2 DEF Between
    <2> QED
      BY <1>3, <1>4, <1>5, <2>1, Pending DEF EInv, PendingEventsHaveData
  <1>8. pc # "deleted"
    BY <1>2 DEF Between
  <1> QED
    BY <1>3, <1>6, <1>7, <1>8 DEF EInv, NoCallerNoEvent, EventsDistinct

\* The event that is posted when Execute returns is the first one about its
\* query.
LEMMA ReturnsKeepEInv ==
    ASSUME IInv, EInv, Returns
    PROVE  EInv'
  <1>1. /\ \A i \in Index : Finished(i) <=> i < currIndex
        /\ currIndex \in Nat /\ \A i \in Index : i \in Nat
    BY FinishedWhen DEF Returns
  <1>2. pc' = "after" /\ pc # "deleted" /\ currIndex \in Index /\ currIndex' = currIndex
    <2>1. pc \in InExecute
      BY DEF Returns
    <2> QED
      BY <2>1, Current DEF Returns, ReturnWith, ReturnCancelled, IInv, InExecute, Loop
  <1>3. \A i \in Index : Finished(i)' <=> (Finished(i) \/ i = currIndex)
    BY <1>1, <1>2 DEF Finished
  <1>4. ~Finished(currIndex)
    BY <1>1, <1>2
  <1>5. /\ rc' \in [Index -> ReturnCode]
        /\ \A i \in Index : i # currIndex => rc'[i] = rc[i] /\ set'[i] = set[i]
    <2>1. \E code \in ReturnCode : SetRc(code)
      BY DEF Returns, ReturnWith, ReturnCancelled, ReturnCode
    <2>2. \A i \in Index : i # currIndex => set'[i] = set[i]
      BY DEF Returns, IInv, TypeOK
    <2> QED
      BY <2>1, <2>2 DEF SetRc, IInv, TypeOK
  <1>6. rc'[currIndex] = "tuples" => set'[currIndex] \in Result
    <2>1. CASE ReturnCancelled
      BY <1>2, <2>1 DEF ReturnCancelled, SetRc, IInv, TypeOK
    <2>2. CASE \E code \in ReturnCode \ {"cancelled"} :
                  /\ ReturnWith(code)
                  /\ \/ UNCHANGED set /\ code # "tuples"
                     \/ \E r \in Result : set' = [set EXCEPT ![currIndex] = r]
      BY <1>2, <2>2 DEF ReturnWith, SetRc, IInv, TypeOK
    <2> QED
      BY <2>1, <2>2 DEF Returns
  <1>7. \/ RaiseEvent /\ (rc'[currIndex] = "cancelled" => EventOnCancellation)
        \/ NoEvent /\ rc'[currIndex] = "cancelled" /\ ~EventOnCancellation
    BY <1>2 DEF Returns, ReturnWith, ReturnCancelled, SetRc, IInv, TypeOK
  <1>8. OneEventPerQuery' /\ NoCallerNoEvent'
    <2>1. HasCaller => raised[currIndex] = 0
      BY <1>2, <1>4 DEF EInv, OneEventPerQuery
    <2>2. /\ \A i \in Index : i # currIndex => raised'[i] = raised[i]
          /\ HasCaller => raised'[currIndex] =
                IF rc'[currIndex] = "cancelled" => EventOnCancellation THEN 1 ELSE 0
          /\ ~HasCaller => raised' = raised
      <3>1. CASE NoEvent
        BY <1>7, <2>1, <3>1 DEF NoEvent, RaiseEvent, IInv, TypeOK
      <3>2. CASE RaiseEvent /\ (rc'[currIndex] = "cancelled" => EventOnCancellation)
        BY <1>2, <2>1, <3>2 DEF RaiseEvent, IInv, TypeOK
      <3> QED
        BY <1>7, <3>1, <3>2
    <2>3. OneEventPerQuery'
      BY <1>3, <1>4, <1>5, <2>2 DEF EInv, OneEventPerQuery
    <2>4. NoCallerNoEvent'
      BY <2>2 DEF EInv, NoCallerNoEvent
    <2> QED
      BY <2>3, <2>4
  <1>9. \A j \in 1..Len(events) : events[j] \in Index /\ events[j] # currIndex /\ Finished(events[j])
    BY <1>2, <1>4, Pending DEF EInv, PendingEventsHaveData
  <1>10. \/ events' = events
         \/ /\ Len(events') = Len(events) + 1
            /\ Len(events) \in Nat
            /\ \A j \in 1..Len(events) : events'[j] = events[j]
            /\ events'[Len(events) + 1] = currIndex
    <2>1. events \in Seq(Index)
      BY DEF IInv, TypeOK
    <2>2. events' = events \/ events' = Append(events, currIndex)
      BY <1>7 DEF RaiseEvent, NoEvent
    <2> QED
      BY <1>2, <2>1, <2>2, AppendProperties
  <1>11. \A j \in 1..Len(events') :
            \/ j \in 1..Len(events) /\ events'[j] = events[j]
            \/ j = Len(events) + 1 /\ events'[j] = currIndex
    BY <1>10
  <1>12. EventsDistinct'
    BY <1>2, <1>9, <1>11 DEF EInv, EventsDistinct
  <1>13. PendingEventsHaveData'
    <2>1. ASSUME NEW j \in 1..Len(events')
          PROVE  /\ Finished(events[j])'
                 /\ rc'[events'[j]] = "tuples" => set'[events'[j]] # NoResult
      <3>1. CASE j \in 1..Len(events) /\ events'[j] = events[j]
        <4>1. Finished(events[j])'
          BY <1>1, <1>2, <1>9, <3>1 DEF Finished
        <4>2. rc'[events'[j]] = "tuples" => set'[events'[j]] # NoResult
          BY <1>2, <1>5, <1>9, <3>1 DEF EInv, PendingEventsHaveData
        <4> QED
          BY <4>1, <4>2
      <3>2. CASE events'[j] = currIndex
        <4>1. NoResult \notin Result
          BY DEF Result, NoResult, ResultKind
        <4>2. Finished(events[j])'
          BY <1>2, <3>2 DEF Finished
        <4> QED
          BY <1>6, <3>2, <4>1, <4>2
      <3> QED
        BY <1>11, <3>1, <3>2
    <2> QED
      BY <2>1 DEF PendingEventsHaveData
  <1> QED
    BY <1>8, <1>12, <1>13 DEF EInv
\* The next query has not been answered yet.
LEMMA StartKeepsEInv ==
    ASSUME IInv, EInv, StartQuery
    PROVE  EInv'
  <1>1. /\ pc = "entry" /\ pc' = "execute" /\ currIndex' = currIndex + 1
        /\ UNCHANGED <<events, raised, set>>
        /\ rc' = [rc EXCEPT ![currIndex + 1] = "string_invalid"]
    BY DEF StartQuery, MarkRunning
  <1>2. /\ \A i \in Index : Finished(i) <=> i <= currIndex
        /\ currIndex \in Nat /\ \A i \in Index : i \in Nat
    BY <1>1, FinishedWhen DEF InExecute, Loop
  <1>3. \A i \in Index : Finished(i)' <=> Finished(i)
    BY <1>1, <1>2 DEF Finished, Between
  <1>4. \A i \in Index : Finished(i) => rc'[i] = rc[i]
    <2>1. \A i \in Index : Finished(i) => i # currIndex + 1
      BY <1>2
    <2> QED
      BY <1>1, <2>1 DEF IInv, TypeOK
  <1>5. OneEventPerQuery' /\ NoCallerNoEvent'
    BY <1>1, <1>3, <1>4 DEF EInv, OneEventPerQuery, NoCallerNoEvent
  <1>6. PendingEventsHaveData' /\ EventsDistinct'
    BY <1>1, <1>3, <1>4, Pending DEF EInv, PendingEventsHaveData, EventsDistinct
  <1> QED
    BY <1>5, <1>6 DEF EInv

\* Rows are released with the event that announced them.
LEMMA OwnerKeepsEInv ==
    ASSUME IInv, EInv, HandleEvent \/ Destroy
    PROVE  EInv'
  <1>1. UNCHANGED <<currIndex, rc, raised>>
    BY DEF HandleEvent, Destroy
  <1>2. \A i \in Index : Finished(i)' <=> Finished(i)
    BY <1>1 DEF HandleEvent, Destroy, Finished, Between
  <1>3. OneEventPerQuery' /\ NoCallerNoEvent'
    BY <1>1, <1>2 DEF EInv, OneEventPerQuery, NoCallerNoEvent
  <1>4. CASE Destroy
    BY <1>3, <1>4 DEF Destroy, EInv, PendingEventsHaveData
  <1>5. CASE HandleEvent
    <2>1. /\ pc # "deleted" /\ pc' = pc /\ events \in Seq(Index) /\ events # <<>>
          /\ events' = Tail(events)
          /\ set' = [set EXCEPT ![Head(events)] = set[Head(events)]]
             \/ set' = [set EXCEPT ![Head(events)] = NoResult]
      BY <1>5 DEF HandleEvent, IInv, TypeOK
    <2>2. /\ Len(events') = Len(events) - 1
          /\ \A j \in 1..Len(events') : events'[j] = events[j + 1]
          /\ Head(events) = events[1]
          /\ Len(events) \in Nat /\ Len(events) > 0
      BY <2>1, HeadTailProperties
    <2>3. \A j \in 1..Len(events') : j + 1 \in 1..Len(events) /\ 1 \in 1..Len(events) /\ j + 1 # 1
      BY <2>2
    <2>4. EventsDistinct
      BY <2>1 DEF EInv
    <2>5. \A j, k \in 1..Len(events') : events'[j] = events'[k] => j = k
      <3>1. SUFFICES ASSUME NEW j \in 1..Len(events'), NEW k \in 1..Len(events'),
                            events'[j] = events'[k]
                     PROVE  j = k
        OBVIOUS
      <3>2. j + 1 = k + 1
        BY <2>2, <2>3, <2>4, <3>1 DEF EventsDistinct
      <3> QED
        BY <2>2, <3>2
    <2>6. ASSUME NEW j \in 1..Len(events')
          PROVE  /\ Finished(events[j + 1])
                 /\ events[j + 1] \in Index
                 /\ events[j + 1] # Head(events)
                 /\ rc[events[j + 1]] = "tuples" => set[events[j + 1]] # NoResult
      BY <2>1, <2>2, <2>3, <2>4, Pending DEF EInv, PendingEventsHaveData, EventsDistinct
    <2>7. \A i \in Index : i # Head(events) => set'[i] = set[i]
      BY <2>1 DEF IInv, TypeOK
    <2>8. PendingEventsHaveData'
      BY <1>1, <1>2, <2>2, <2>6, <2>7 DEF PendingEventsHaveData
    <2> QED
      BY <1>3, <2>1, <2>5, <2>8 DEF EInv, EventsDistinct
  <1> QED
    BY <1>4, <1>5

LEMMA RestsKeepEInv ==
    ASSUME IInv, EInv, Rests
    PROVE  EInv'
  <1>1. UNCHANGED <<currIndex, rc, set, events, raised>>
    BY DEF Rests
  <1>2. \A i \in Index : Finished(i)' <=> Finished(i)
    BY <1>1 DEF Rests, Finished
  <1>3. pc' = "deleted" <=> pc = "deleted"
    BY DEF Rests
  <1> QED
    BY <1>1, <1>2, <1>3, Pending
    DEF EInv, OneEventPerQuery, NoCallerNoEvent, EventsDistinct, PendingEventsHaveData

LEMMA NextEInv == IInv /\ EInv /\ [Next]_vars => EInv'
  BY StepShapes, RunsKeepEInv, ReturnsKeepEInv, StartKeepsEInv, OwnerKeepsEInv,
     RestsKeepEInv

THEOREM EventInvariance == Spec => []EInv
  BY InitEInv, NextEInv, Invariance, PTL DEF Spec

\* Each way out of Execute posts exactly one event, or none where the owner
\* asked not to hear of a cancellation, and no other step posts one.
THEOREM EachQueryAnsweredOnce == Spec => []OneEventPerQuery
  <1>1. EInv => OneEventPerQuery
    BY DEF EInv
  <1> QED
    BY <1>1, EventInvariance, PTL

\* The rows an event announces are there until it is handled: no other query
\* of the queue, and no other event, takes them away.
THEOREM EventsKeepTheirData == Spec => []PendingEventsHaveData
  <1>1. EInv => PendingEventsHaveData
    BY DEF EInv
  <1> QED
    BY <1>1, EventInvariance, PTL

\* A finished query keeps its code, and its rows until they are released.
LEMMA FinishedStays ==
    ASSUME IInv, [Next]_vars, NEW i \in Index, Finished(i)
    PROVE  rc'[i] = rc[i] /\ set'[i] \in {set[i], NoResult}
  <1>1. i \in Nat /\ currIndex \in Nat
    BY FinishedWhen
  <1>2. CASE Runs
    <2>1. i # currIndex
      BY <1>1, <1>2, FinishedWhen DEF Runs
    <2> QED
      BY <1>2, <2>1 DEF Runs, SetRc, IInv, TypeOK
  <1>3. CASE Returns
    <2>1. i # currIndex
      BY <1>1, <1>3, FinishedWhen DEF Returns
    <2>2. rc'[i] = rc[i]
      BY <1>3, <2>1 DEF Returns, ReturnWith, ReturnCancelled, SetRc, IInv, TypeOK
    <2>3. set'[i] = set[i]
      BY <1>3, <2>1 DEF Returns, IInv, TypeOK
    <2> QED
      BY <2>2, <2>3
  <1>4. CASE Rests
    BY <1>4 DEF Rests
  <1>5. CASE StartQuery
    <2>1. pc = "entry"
      BY <1>5 DEF StartQuery
    <2>2. i # currIndex + 1
      BY <1>1, <2>1, FinishedWhen DEF InExecute, Loop
    <2> QED
      BY <1>5, <2>2 DEF StartQuery, MarkRunning, IInv, TypeOK
  <1>6. CASE HandleEvent
    BY <1>6 DEF HandleEvent, IInv, TypeOK
  <1>7. CASE Destroy
    BY <1>7 DEF Destroy
  <1> QED
    BY <1>2, <1>3, <1>4, <1>5, <1>6, <1>7, StepShapes

\* Once the event of a query is posted, its code stays what it is and its
\* rows are at most released.
THEOREM AnswersStayStable == Spec => AnnouncedResultStable
  <1>1. ASSUME IInv, EInv, [Next]_vars, NEW i \in Index, raised[i] > 0
        PROVE  rc'[i] = rc[i] /\ set'[i] \in {set[i], NoResult}
    <2>1. Finished(i)
      BY <1>1 DEF EInv, OneEventPerQuery, NoCallerNoEvent
    <2> QED
      BY <1>1, <2>1, FinishedStays
  <1>2. IInv /\ EInv /\ [Next]_vars =>
          [\A i \in Index : raised[i] > 0 =>
             rc'[i] = rc[i] /\ set'[i] \in {set[i], NoResult}]_vars
    BY <1>1
  <1> QED
    BY <1>2, Invariance, EventInvariance, PTL DEF Spec, AnnouncedResultStable

-----------------------------------------------------------------------------
(* The PGresults that Execute's locals point to                            *)

\* A local was obtained by one of the calls of PQgetResult so far: the result
\* of the next call is another one.
LocalsAreOld ==
    /\ pc \in InExecute => res.k <= fetched /\ result.k <= fetched /\ lastResult.k <= fetched
    /\ pc = "execute" => result = NoResult /\ lastResult = NoResult

RInv == LocalsAreOld /\ ResultsOwned

LEMMA InitRInv == Init => RInv
  BY DEF Init, RInv, LocalsAreOld, ResultsOwned, InExecute, Loop

\* PQgetResult returns something new.
LEMMA NewIsNew ==
    ASSUME IInv, RInv, pc \in InExecute, NEW kind \in ResultKind, GotResult(NewResult(kind))
    PROVE  /\ NewResult(kind) \notin {res, result, lastResult, NoResult}
           /\ NewResult(kind) \in held'
           /\ held \subseteq held'
           /\ NewResult(kind).k = fetched'
           /\ fetched' = fetched + 1 /\ fetched \in Nat
           /\ res.k \in Nat /\ result.k \in Nat /\ lastResult.k \in Nat
  <1>1. fetched \in Nat /\ res.k \in Nat /\ result.k \in Nat /\ lastResult.k \in Nat
    BY DEF IInv, TypeOK, Result, NoResult
  <1>2. NewResult(kind).k = fetched + 1
    BY DEF NewResult
  <1>3. NewResult(kind) \notin {res, result, lastResult}
    BY <1>1, <1>2 DEF RInv, LocalsAreOld
  <1>4. NewResult(kind) # NoResult
    BY <1>1, <1>2 DEF NoResult
  <1> QED
    BY <1>1, <1>2, <1>3, <1>4 DEF GotResult

LEMMA FetchKeepsRInv ==
    ASSUME IInv, RInv, Fetch \/ CopyEnd
    PROVE  RInv'
  <1>1. pc \in Loop /\ pc \in InExecute /\ pc' \in {"out", "drain", "save", "copy"}
    BY DEF Fetch, CopyEnd, Loop, InExecute
  <1>2. CASE UNCHANGED <<res, result, lastResult, fetched, held>> /\ pc' # "save"
    BY <1>1, <1>2 DEF RInv, LocalsAreOld, ResultsOwned, InExecute, Loop
  <1>3. CASE \E kind \in ResultKind :
                /\ GotResult(NewResult(kind))
                /\ lastResult' = lastResult
                /\ \/ result' = NewResult(kind) /\ res' = res /\ pc' # "save"
                   \/ result' = result /\ res' = NewResult(kind)
    <2>1. PICK kind \in ResultKind :
                /\ GotResult(NewResult(kind))
                /\ lastResult' = lastResult
                /\ \/ result' = NewResult(kind) /\ res' = res /\ pc' # "save"
                   \/ result' = result /\ res' = NewResult(kind)
      BY <1>3
    <2> DEFINE r == NewResult(kind)
    <2>2. /\ r \notin {res, result, lastResult, NoResult}
          /\ r \in held' /\ held \subseteq held'
          /\ r.k = fetched' /\ fetched' = fetched + 1 /\ fetched \in Nat
          /\ res.k \in Nat /\ result.k \in Nat /\ lastResult.k \in Nat
      BY <1>1, <2>1, NewIsNew
    <2> HIDE DEF r
    <2>3. LocalsAreOld'
      <3>1. res.k <= fetched /\ result.k <= fetched /\ lastResult.k <= fetched
        BY <1>1 DEF RInv, LocalsAreOld
      <3>2. res'.k <= fetched' /\ result'.k <= fetched' /\ lastResult'.k <= fetched'
        BY <2>1, <2>2, <3>1 DEF r
      <3> QED
        BY <1>1, <3>2 DEF LocalsAreOld
    <2>4. ResultsOwned'
      BY <1>1, <2>1, <2>2 DEF RInv, ResultsOwned, r
    <2> QED
      BY <2>3, <2>4 DEF RInv
  <1>4. CASE Fetch
    <2>1. CASE Head(stream) = "ready"
      BY <1>2, <1>4, <2>1 DEF Fetch
    <2>2. CASE Head(stream) # "ready"
      <3>1. Head(stream) \in ResultKind
        BY <1>4, <2>2 DEF Fetch, ResultKind
      <3>2. /\ GotResult(NewResult(Head(stream)))
            /\ lastResult' = lastResult
            /\ \/ result' = NewResult(Head(stream)) /\ res' = res /\ pc' # "save"
               \/ result' = result /\ res' = NewResult(Head(stream))
        BY <1>4, <2>2 DEF Fetch
      <3> QED
        BY <1>3, <3>1, <3>2
    <2> QED
      BY <2>1, <2>2
  <1>5. CASE CopyEnd
    <2>1. CASE TakeItem
      <3>1. Head(stream) \in Item /\ Head(stream) # "row" /\ sent > 0
        BY <1>5, <2>1, TakeItemKeeps DEF CopyEnd, TakeItem, IInv, CopyEndSeen
      <3>2. CASE Head(stream) = "ready"
        BY <1>2, <1>5, <3>1, <3>2 DEF CopyEnd, ReadDead, IInv, TypeOK
      <3>3. CASE Head(stream) # "ready"
        <4>1. Head(stream) \in ResultKind
          BY <3>1, <3>3 DEF Item
        <4>2. /\ res' = NewResult(Head(stream)) /\ GotResult(NewResult(Head(stream)))
              /\ UNCHANGED <<result, lastResult>>
          BY <1>5, <3>1, <3>3 DEF CopyEnd, ReadDead
        <4> QED
          BY <1>3, <4>1, <4>2
      <3> QED
        BY <3>2, <3>3
    <2>2. CASE ~TakeItem
      <3>1. /\ res' = NewResult("error") /\ GotResult(NewResult("error"))
            /\ UNCHANGED <<result, lastResult>>
        BY <1>5, <2>2 DEF CopyEnd
      <3> QED
        BY <1>3, <3>1 DEF ResultKind
    <2> QED
      BY <2>1, <2>2
  <1> QED
    BY <1>4, <1>5

LEMMA LoopKeepsRInv ==
    ASSUME IInv, RInv,
           Refuse \/ SendQuery \/ CheckCancelled \/ Consume \/ Lost
              \/ DrainConsume \/ DrainGet \/ CopyPoll \/ CopyConsume \/ CopyLost
              \/ SaveResult \/ OutOfLoop
    PROVE  RInv'
  <1> USE DEF RInv, LocalsAreOld, ResultsOwned, InExecute, Loop
  <1>1. CASE SendQuery
    BY <1>1 DEF SendQuery, localVars
  <1>2. CASE Consume \/ DrainGet \/ CopyPoll \/ CopyConsume
    BY <1>2 DEF Consume, DrainGet, CopyPoll, CopyConsume, localVars
  <1>3. CASE Refuse \/ Lost \/ CopyLost \/ OutOfLoop
    <2>1. pc' = "after"
      BY <1>3 DEF Refuse, Lost, CopyLost, OutOfLoop, ReturnWith, ReturnCancelled, ConnectionLost
    <2> QED
      BY <2>1
  <1>4. CASE DrainConsume
    <2>1. pc' = "after" \/ (pc' # "save" /\ pc' # "execute" /\ pc = "drain"
             /\ UNCHANGED <<res, result, lastResult, fetched, held>>)
      BY <1>4 DEF DrainConsume, ReturnCancelled
    <2> QED
      BY <2>1
  <1>5. CASE CheckCancelled
    <2>1. fetched \in Nat /\ NoResult.k <= fetched
      BY DEF IInv, TypeOK, NoResult
    <2>2. /\ pc = "top" /\ pc' = "consume" /\ UNCHANGED <<res, result, fetched>>
          /\ \/ lastResult' = lastResult /\ held' = held
             \/ lastResult' = NoResult /\ held' = held \ {lastResult}
      BY <1>5 DEF CheckCancelled, Cleared
    <2> QED
      BY <2>1, <2>2
  <1>6. CASE SaveResult
    <2>1. /\ pc = "save" /\ pc' = "top" /\ UNCHANGED <<res, fetched>>
          /\ \/ result' = res /\ lastResult' = lastResult /\ held' = held
             \/ result' = result /\ lastResult' = res /\ held' = held \ {lastResult}
      BY <1>6 DEF SaveResult, Cleared
    <2> QED
      BY <2>1
  <1> QED
    BY <1>1, <1>2, <1>3, <1>4, <1>5, <1>6

LEMMA RestKeepsRInv ==
    ASSUME IInv, RInv,
           StartQuery \/ NothingQueued \/ AfterExecute \/ LoopOrExit \/ Owner
              \/ Session \/ UNCHANGED vars
    PROVE  RInv'
  <1>1. CASE StartQuery
    BY <1>1 DEF StartQuery, RInv, LocalsAreOld, ResultsOwned, InExecute, Loop, NoResult
  <1>2. CASE NothingQueued \/ AfterExecute \/ LoopOrExit \/ Destroy
    <2>1. pc' \in Between
      BY <1>2 DEF NothingQueued, AfterExecute, LoopOrExit, Destroy, Between
    <2> QED
      BY <2>1 DEF RInv, LocalsAreOld, ResultsOwned, InExecute, Loop, Between
  <1>3. CASE AddQuery \/ CancelExecution \/ HandleEvent \/ Session \/ UNCHANGED vars
    <2>1. UNCHANGED <<pc, res, result, lastResult, fetched, held>>
      BY <1>3
      DEF AddQuery, CancelExecution, HandleEvent, Session, InSession, vars, localVars
    <2> QED
      BY <2>1 DEF RInv, LocalsAreOld, ResultsOwned
  <1> QED
    BY <1>1, <1>2, <1>3 DEF Owner

LEMMA NextRInv == IInv /\ RInv /\ [Next]_vars => RInv'
  BY FetchKeepsRInv, LoopKeepsRInv, RestKeepsRInv DEF Next, Worker

\* Through every path of Execute a pointer that is still used points to a
\* PGresult that has not been cleared, and never two to the same one.
THEOREM NoClearedResultUsed == Spec => []ResultsOwned
  <1>1. RInv => ResultsOwned
    BY DEF RInv
  <1> QED
    BY <1>1, InitRInv, NextRInv, Invariance, PTL DEF Spec

-----------------------------------------------------------------------------
(* Counting the results of a query                                         *)

\* Counting the members of a set of positions up to one of them.
LEMMA CountUpTo ==
    ASSUME NEW S \in SUBSET (Nat \ {0}), NEW p \in Nat
    PROVE  /\ IsFiniteSet(UpTo(S, p))
           /\ Cardinality(UpTo(S, p)) \in Nat
           /\ Cardinality(UpTo(S, 0)) = 0
           /\ Cardinality(UpTo(S, p + 1)) =
                 Cardinality(UpTo(S, p)) + (IF p + 1 \in S THEN 1 ELSE 0)
  <1>0. \A s \in S : s \in Nat /\ s > 0
    OBVIOUS
  <1>1. IsFiniteSet(UpTo(S, p))
    <2>1. UpTo(S, p) \in SUBSET Nat /\ \A s \in UpTo(S, p) : s <= p
      BY <1>0 DEF UpTo
    <2> QED
      BY <2>1, FS_BoundedSetOfNaturals
  <1>2. Cardinality(UpTo(S, p)) \in Nat
    BY <1>1, FS_CardinalityType
  <1>3. UpTo(S, 0) = {}
    <2>1. \A s \in S : ~(s <= 0)
      BY <1>0
    <2> QED
      BY <2>1 DEF UpTo
  <1>6. \A s \in S : s <= p + 1 <=> s <= p \/ s = p + 1
    BY <1>0
  <1>7. ~(p + 1 <= p) /\ p + 1 <= p + 1
    OBVIOUS
  <1>4. CASE p + 1 \in S
    <2>1. UpTo(S, p + 1) = UpTo(S, p) \cup {p + 1}
      BY <1>4, <1>6 DEF UpTo
    <2>2. p + 1 \notin UpTo(S, p)
      BY <1>7 DEF UpTo
    <2>3. Cardinality(UpTo(S, p + 1)) = Cardinality(UpTo(S, p)) + 1
      BY <1>1, <2>1, <2>2, FS_AddElement
    <2> QED
      BY <1>1, <1>2, <1>3, <1>4, <2>3, FS_EmptySet
  <1>5. CASE p + 1 \notin S
    <2>1. UpTo(S, p + 1) = UpTo(S, p)
      BY <1>5, <1>6 DEF UpTo
    <2> QED
      BY <1>1, <1>2, <1>3, <1>5, <2>1, FS_EmptySet
  <1> QED
    BY <1>4, <1>5

\* No two positions have the same number.
LEMMA NumbersDiffer ==
    ASSUME NEW S \in SUBSET (Nat \ {0}), NEW i \in S, NEW j \in S,
           Cardinality(UpTo(S, i)) = Cardinality(UpTo(S, j))
    PROVE  i = j
  <1>1. ASSUME NEW a \in S, NEW b \in S, a < b
        PROVE  Cardinality(UpTo(S, a)) # Cardinality(UpTo(S, b))
    <2>3. a \in Nat /\ b \in Nat /\ \A s \in S : s \in Nat
      OBVIOUS
    <2>4. \A s \in S : s <= a => s <= b
      BY <1>1, <2>3
    <2>1. IsFiniteSet(UpTo(S, b)) /\ UpTo(S, a) \in SUBSET UpTo(S, b)
      <3>1. IsFiniteSet(UpTo(S, b))
        BY <2>3, CountUpTo
      <3>2. UpTo(S, a) \in SUBSET UpTo(S, b)
        BY <2>4 DEF UpTo
      <3> QED
        BY <3>1, <3>2
    <2>2. b \in UpTo(S, b) /\ b \notin UpTo(S, a)
      BY <1>1 DEF UpTo
    <2> QED
      BY <2>1, <2>2, FS_Subset
  <1>2. i \in Nat /\ j \in Nat
    OBVIOUS
  <1>3. i < j \/ j < i \/ i = j
    BY <1>2
  <1> QED
    BY <1>1, <1>3

\* What is known of a script.
LEMMA ScriptFacts ==
    ASSUME NEW q, q.script \in Script
    PROVE  /\ Len(q.script) \in Nat /\ Len(q.script) > 0
           /\ q.script \in Seq(Item \ {"ready"})
           /\ \A j \in 1..Len(q.script) : q.script[j] \in Item \ {"ready"}
           /\ q.script[Len(q.script)] \in {"tuples", "command", "error"}
           /\ \A j \in 1..Len(q.script) : q.script[j] = "error" => j = Len(q.script)
           /\ \A j \in 1..Len(q.script) - 1 :
                 /\ q.script[j] = "copyin" =>
                       j = Len(q.script) - 1 /\ q.script[j + 1] = "error"
                 /\ q.script[j] \in {"copyout", "row"} =>
                       q.script[j + 1] \in {"row", "command", "error"}
                 /\ q.script[j + 1] = "row" => q.script[j] \in {"copyout", "row"}
           /\ q.script[1] # "row"
           /\ Answers(q) \in SUBSET (Nat \ {0})
           /\ Choices(q) \in SUBSET (Nat \ {0})
           /\ Len(q.script) \in Choices(q)
  <1> DEFINE s == q.script
             n == Len(s)
  <1>1. /\ s \in Seq(Item \ {"ready"}) /\ s # <<>> /\ s[1] # "row"
        /\ s[n] \in {"tuples", "command", "error"}
        /\ \A i \in 1 .. n - 1 :
              /\ s[i] # "error"
              /\ s[i] = "copyin" => i = n - 1 /\ s[i + 1] = "error"
              /\ s[i] \in {"copyout", "row"} => s[i + 1] \in {"row", "command", "error"}
              /\ s[i + 1] = "row" => s[i] \in {"copyout", "row"}
    BY DEF Script
  <1>2. n \in Nat /\ n > 0
    BY <1>1, EmptySeq
  <1>3. \A j \in 1..n : s[j] \in Item \ {"ready"}
    BY <1>1, ElementOfSeq
  <1>4. Answers(q) \in SUBSET (Nat \ {0}) /\ Choices(q) \in SUBSET (Nat \ {0}) /\ n \in Choices(q)
    BY <1>1, <1>2 DEF Answers, Choices
  <1>5. \A j \in 1..n : j # n => j \in 1..n - 1
    BY <1>2
  <1> QED
    BY <1>1, <1>2, <1>3, <1>4, <1>5

\* Which result is the documented one, and that it is no COPY.
LEMMA ChosenIs ==
    ASSUME NEW q, q.script \in Script
    PROVE  /\ EndsInError(q) => Chosen(q) = Len(q.script)
           /\ \A j \in 1..Len(q.script) : ~EndsInError(q) /\ IsNth(q, j) => Chosen(q) = j
           /\ (\A j \in 1..Len(q.script) : ~IsNth(q, j)) => Chosen(q) = Len(q.script)
           /\ Chosen(q) \in 1..Len(q.script)
           /\ q.script[Chosen(q)] \in {"tuples", "command", "error"}
  <1> DEFINE n == Len(q.script)
  <1>1. n \in Nat /\ n > 0 /\ n \in Choices(q) /\ Choices(q) \in SUBSET (Nat \ {0})
    BY ScriptFacts
  <1>2. Choices(q) \subseteq 1..n
    BY DEF Choices, Answers
  <1>3. EndsInError(q) => Chosen(q) = n
    BY DEF Chosen
  <1>4. ASSUME NEW j \in 1..n, ~EndsInError(q), IsNth(q, j)
        PROVE  Chosen(q) = j
    <2>1. j \in Choices(q)
      BY <1>4 DEF IsNth
    <2>2. \A i \in Choices(q) : IsNth(q, i) => i = j
      BY <1>1, <1>4, <2>1, NumbersDiffer DEF IsNth
    <2> QED
      BY <1>4, <2>1, <2>2 DEF Chosen
  <1>5. (\A j \in 1..n : ~IsNth(q, j)) => Chosen(q) = n
    BY <1>2 DEF Chosen
  <1>6. Chosen(q) \in 1..n /\ q.script[Chosen(q)] \in {"tuples", "command", "error"}
    <2>1. CASE Chosen(q) = n
      BY <1>1, <2>1, ScriptFacts
    <2>2. CASE Chosen(q) # n
      <3>1. PICK j \in 1..n : ~EndsInError(q) /\ IsNth(q, j)
        BY <1>3, <1>5, <2>2
      <3>2. Chosen(q) = j /\ j \in Choices(q) /\ j # n
        BY <1>4, <2>2, <3>1 DEF IsNth
      <3>3. q.script[j] \in Item \ {"ready"} /\ q.script[j] \notin {"row", "copyout", "error"}
        BY <3>2, ScriptFacts DEF Choices, Answers
      <3>4. q.script[j] # "copyin"
        <4>1. SUFFICES ASSUME q.script[j] = "copyin" PROVE FALSE
          OBVIOUS
        <4>2. j \in 1..n - 1
          BY <1>1, <3>2
        <4>3. j = n - 1 /\ q.script[j + 1] = "error"
          BY <4>1, <4>2, ScriptFacts
        <4>4. q.script[n] = "error" /\ q.script[n - 1] \notin {"copyout", "row"}
          BY <1>1, <4>1, <4>3
        <4> QED
          BY <3>1, <4>4 DEF EndsInError
      <3> QED
        BY <3>2, <3>3, <3>4 DEF Item, ResultKind
    <2> QED
      BY <2>1, <2>2
  <1> QED
    BY <1>3, <1>4, <1>5, <1>6
-----------------------------------------------------------------------------
(* The result a query returns                                              *)

\* s is what the session has still to hand out when p items of the answer of
\* q have been taken.
IsRest(s, q, p) ==
    /\ Len(s) = Len(q.script) + 1 - p
    /\ \A i \in 1..Len(s) : s[i] = Append(q.script, "ready")[p + i]

\* The PGresult of the jth item of the current query's answer.
ResultOf(j) == [q |-> currIndex, k |-> Number(Query, j), kind |-> Query.script[j]]

\* How many of the first p items are results to choose from.
Counted(q, p) == Cardinality(UpTo(Choices(q), p))

Copying == {"copy", "copy_consume", "copy_end"}
Polling == {"top", "consume", "fetch"}

\* The first p items of the answer have been taken, no error that ends the
\* command among them, and PQgetResult returned those that are no rows.
ReadSoFar(q, p) ==
    /\ IsRest(stream, q, p)
    /\ fetched = Number(q, p)
    /\ p = Len(q.script) => ~EndsInError(q)
    /\ pc \in Copying <=> p > 0 /\ q.script[p] \in {"copyout", "row"}

\* Execute has counted the results to choose from up to the pth item, kept
\* the wanted one if it is among them, and has the last in lastResult if not.
ChosenSoFar(q, p) ==
    /\ retrieved = Counted(q, p)
    /\ result = NoResult => \A j \in 1..p : ~IsNth(q, j)
    /\ result # NoResult => \E j \in 1..p : IsNth(q, j) /\ result = ResultOf(j)
    /\ pc \in Polling /\ p > 0 /\ result = NoResult => lastResult = ResultOf(p)

\* What an execution nobody cancelled knows of its answer.
Choosing ==
    ~cancelled =>
        /\ pc = "execute" => retrieved = 0 /\ fetched = 0 /\ result = NoResult
        /\ pc \in Polling \cup Copying =>
              \E p \in 0..Len(Query.script) : ReadSoFar(Query, p) /\ ChosenSoFar(Query, p)
        /\ pc = "save" =>
              \E p \in 0..Len(Query.script) - 1 :
                  /\ ReadSoFar(Query, p + 1) /\ ChosenSoFar(Query, p)
                  /\ p + 1 \in Choices(Query)
                  /\ res = ResultOf(p + 1)
        /\ pc \in {"drain", "drain_get"} =>
              EndsInError(Query) /\ result = ResultOf(Len(Query.script))
        /\ pc = "out" => Outcome = ResultOf(Chosen(Query))

\* libpq calls a connection bad only once it found the network gone, and a
\* query that has not been answered has no rows yet.
NothingEarly ==
    /\ status = "bad" => link = "down"
    /\ \A i \in Index : ~Finished(i) => set[i] = NoResult

WInv == Choosing /\ NothingEarly /\ RightResult

LEMMA InitWInv == Init => WInv
  <1> SUFFICES ASSUME Init PROVE WInv
    OBVIOUS
  <1>1. /\ pc = "entry" /\ status = "ok" /\ currIndex = 0
        /\ \A i \in Index : set[i] = NoResult
    BY DEF Init, ConnInit
  <1>2. Choosing
    BY <1>1 DEF Choosing, Polling, Copying
  <1>3. \A i \in 1..Len(queries) : ~Finished(i)
    <2>1. Len(queries) \in Nat
      BY InitIInv DEF IInv, TypeOK
    <2> QED
      BY <1>1, <2>1 DEF Finished, Between
  <1> QED
    BY <1>1, <1>2, <1>3 DEF WInv, NothingEarly, RightResult

\* Execute's query is one of the queue and has a script.
LEMMA CurrentScript ==
    ASSUME IInv, pc \in InExecute
    PROVE  /\ currIndex \in Index /\ currIndex \in 1..Len(queries) /\ currIndex # 0
           /\ Query \in Queries /\ Query.script \in Script
  <1>1. currIndex \in Index /\ Query \in Queries
    BY Current DEF IInv
  <1>2. currIndex <= Len(queries) /\ currIndex \in Nat /\ currIndex > 0
    BY MaxQueriesAssumption DEF IInv, TypeOK, CurrentQueued, InExecute, Loop
  <1> QED
    BY <1>1, <1>2, QueriesAssumption DEF IInv, TypeOK

\* The conversation of a query that is sent.
LEMMA SentRest ==
    ASSUME NEW q, q.script \in Script
    PROVE  IsRest(Append(q.script, "ready"), q, 0)
  <1>1. Len(Append(q.script, "ready")) = Len(q.script) + 1 /\ Len(q.script) \in Nat
    BY ScriptFacts, AppendProperties
  <1> QED
    BY <1>1 DEF IsRest

\* Taking an item moves on by one position.
LEMMA TakenRest ==
    ASSUME NEW s \in Seq(Item), s # <<>>, NEW q, q.script \in Script,
           NEW p \in 0..Len(q.script), IsRest(s, q, p)
    PROVE  /\ p < Len(q.script) => Head(s) = q.script[p + 1] /\ IsRest(Tail(s), q, p + 1)
           /\ p = Len(q.script) => Head(s) = "ready"
  <1> DEFINE n == Len(q.script)
             a == Append(q.script, "ready")
             t == Tail(s)
  <1>1. n \in Nat /\ q.script \in Seq(Item \ {"ready"})
    BY ScriptFacts
  <1>2. a[n + 1] = "ready" /\ \A j \in 1..n : a[j] = q.script[j]
    BY <1>1, AppendProperties
  <1>3. Len(s) = n + 1 - p /\ \A i \in 1..Len(s) : s[i] = a[p + i]
    BY DEF IsRest
  <1>4. Head(s) = s[1] /\ Len(t) = Len(s) - 1 /\ \A i \in 1..Len(t) : t[i] = s[i + 1]
    BY HeadTailProperties
  <1> HIDE DEF n, a, t
  <1>5. p \in 0..n /\ p \in Nat
    BY <1>1 DEF n
  <1>6. 1 \in 1..Len(s) /\ Head(s) = a[p + 1]
    BY <1>1, <1>3, <1>4, <1>5
  <1>7. p < n => p + 1 \in 1..n
    BY <1>1, <1>5
  <1>8. ASSUME p < n
        PROVE  Len(t) = n + 1 - (p + 1) /\ \A i \in 1..Len(t) : t[i] = a[(p + 1) + i]
    <2>1. Len(t) = n - p
      BY <1>1, <1>3, <1>4, <1>5
    <2>2. \A i \in 1..Len(t) : i + 1 \in 1..Len(s) /\ p + (i + 1) = (p + 1) + i
      BY <1>1, <1>3, <1>5, <2>1
    <2> QED
      BY <1>1, <1>3, <1>4, <1>5, <2>1, <2>2
  <1> QED
    BY <1>1, <1>2, <1>5, <1>6, <1>7, <1>8 DEF IsRest, n, a, t

\* Passing an item moves the count of results by one, unless it is a row.
LEMMA NumberNext ==
    ASSUME NEW q, q.script \in Script, NEW p \in 0..Len(q.script) - 1
    PROVE  /\ Number(q, p) \in Nat /\ Counted(q, p) \in Nat
           /\ Number(q, p + 1) =
                 IF q.script[p + 1] = "row" THEN Number(q, p) ELSE Number(q, p) + 1
           /\ Counted(q, p + 1) =
                 IF q.script[p + 1] \in {"row", "copyout"} THEN Counted(q, p)
                                                           ELSE Counted(q, p) + 1
           /\ p + 1 \in Choices(q) <=> q.script[p + 1] \notin {"row", "copyout"}
           /\ p \in Nat /\ p + 1 \in 1..Len(q.script)
  <1>1. /\ Len(q.script) \in Nat
        /\ Answers(q) \in SUBSET (Nat \ {0}) /\ Choices(q) \in SUBSET (Nat \ {0})
    BY ScriptFacts
  <1>2. p \in Nat /\ p + 1 \in 1..Len(q.script)
    BY <1>1
  <1>3. p + 1 \in Answers(q) <=> q.script[p + 1] # "row"
    BY <1>2 DEF Answers
  <1>4. p + 1 \in Choices(q) <=> q.script[p + 1] \notin {"row", "copyout"}
    BY <1>3 DEF Choices
  <1>5. /\ Number(q, p) \in Nat
        /\ Number(q, p + 1) = Number(q, p) + (IF p + 1 \in Answers(q) THEN 1 ELSE 0)
    BY <1>1, <1>2, CountUpTo DEF Number
  <1>6. /\ Counted(q, p) \in Nat
        /\ Counted(q, p + 1) = Counted(q, p) + (IF p + 1 \in Choices(q) THEN 1 ELSE 0)
    BY <1>1, <1>2, CountUpTo DEF Counted
  <1> QED
    BY <1>2, <1>3, <1>4, <1>5, <1>6

LEMMA NumberNone ==
    ASSUME NEW q, q.script \in Script
    PROVE  Number(q, 0) = 0 /\ Counted(q, 0) = 0
  BY ScriptFacts, CountUpTo DEF Number, Counted

\* A step of Execute that takes nothing and gets nothing.
LEMMA StillChoosing ==
    ASSUME Choosing,
           UNCHANGED <<stream, fetched, retrieved, result, lastResult, queries,
                       currIndex, cancelled>>,
           \/ pc \in Polling /\ pc' \in Polling
           \/ pc \in Copying /\ pc' \in Copying
    PROVE  Choosing'
  <1>1. SUFFICES ASSUME ~cancelled PROVE Choosing'
    BY DEF Choosing
  <1>2. PICK p \in 0..Len(Query.script) : ReadSoFar(Query, p) /\ ChosenSoFar(Query, p)
    BY <1>1 DEF Choosing
  <1>3. /\ Query' = Query /\ \A j : ResultOf(j)' = ResultOf(j)
        /\ pc \in Copying <=> pc' \in Copying
        /\ pc \in Polling <=> pc' \in Polling
        /\ pc' \in Polling \cup Copying
    BY DEF Query, ResultOf, Polling, Copying
  <1>4. ReadSoFar(Query, p)'
    BY <1>2, <1>3 DEF ReadSoFar
  <1>5. ChosenSoFar(Query, p)'
    BY <1>2, <1>3 DEF ChosenSoFar
  <1>6. p \in 0..Len(Query'.script)
    BY <1>3
  <1> QED
    BY <1>3, <1>4, <1>5, <1>6 DEF Choosing, Polling, Copying

\* A step to where Execute is not, or not any more, about to choose.
LEMMA NotChoosing ==
    ASSUME pc' \notin Polling \cup Copying \cup {"execute", "save", "drain", "drain_get", "out"}
    PROVE  Choosing'
  BY DEF Choosing

LEMMA OutsideKeepsChoosing ==
    ASSUME IInv, Choosing,
           StartQuery \/ NothingQueued \/ AfterExecute \/ LoopOrExit
              \/ Refuse \/ SendQuery \/ Lost \/ CopyLost \/ OutOfLoop
    PROVE  Choosing'
  <1>1. CASE StartQuery
    BY <1>1 DEF StartQuery, Choosing, Polling, Copying
  <1>2. CASE NothingQueued \/ AfterExecute \/ LoopOrExit
    <2>1. pc' \in Between
      BY <1>2 DEF NothingQueued, AfterExecute, LoopOrExit, Between
    <2> QED
      BY <2>1, NotChoosing DEF Between, Polling, Copying
  <1>3. CASE Refuse \/ Lost \/ CopyLost \/ OutOfLoop
    <2>1. pc' = "after"
      BY <1>3 DEF Refuse, Lost, CopyLost, OutOfLoop, ReturnWith, ReturnCancelled, ConnectionLost
    <2> QED
      BY <2>1, NotChoosing DEF Polling, Copying
  <1>4. CASE SendQuery
    <2>1. SUFFICES ASSUME ~cancelled PROVE Choosing'
      BY <1>4 DEF SendQuery, Choosing
    <2>2. Query.script \in Script /\ pc = "execute"
      BY <1>4, CurrentScript DEF SendQuery, InExecute
    <2>3. retrieved = 0 /\ fetched = 0 /\ result = NoResult
      BY <2>1, <2>2 DEF Choosing
    <2>4. /\ stream' = Append(Query.script, "ready") /\ pc' = "top"
          /\ UNCHANGED <<queries, currIndex, fetched, retrieved, result, lastResult>>
      BY <1>4 DEF SendQuery, PQsendQuery, queryVars, localVars
    <2>5. Query' = Query
      BY <2>4 DEF Query
    <2>6. IsRest(stream', Query', 0) /\ Number(Query, 0) = 0 /\ Counted(Query, 0) = 0
      BY <2>2, <2>4, <2>5, SentRest, NumberNone
    <2>7. Len(Query.script) \in Nat /\ Len(Query.script) > 0
      BY <2>2, ScriptFacts
    <2>8. ReadSoFar(Query, 0)'
      BY <2>3, <2>4, <2>5, <2>6, <2>7 DEF ReadSoFar, Copying
    <2>9. ChosenSoFar(Query, 0)'
      BY <2>3, <2>4, <2>5, <2>6 DEF ChosenSoFar
    <2>10. 0 \in 0..Len(Query'.script)
      BY <2>5, <2>7
    <2> QED
      BY <2>4, <2>8, <2>9, <2>10 DEF Choosing, Polling, Copying
  <1> QED
    BY <1>1, <1>2, <1>3, <1>4

\* What Execute waits for next.
LEMMA NextItem ==
    ASSUME IInv, TakeItem, Query.script \in Script, NEW p \in 0..Len(Query.script),
           ReadSoFar(Query, p)
    PROVE  /\ p < Len(Query.script) => Head(stream) = Query.script[p + 1]
                                       /\ IsRest(stream', Query, p + 1)
                                       /\ p \in 0..Len(Query.script) - 1
           /\ p = Len(Query.script) => Head(stream) = "ready"
           /\ p < Len(Query.script) \/ p = Len(Query.script)
           /\ Head(stream) = "ready" => p = Len(Query.script)
  <1>1. stream \in Seq(Item) /\ stream # <<>> /\ stream' = Tail(stream)
    BY DEF IInv, TypeOK, ConnTypeOK, TakeItem
  <1>2. IsRest(stream, Query, p)
    BY DEF ReadSoFar
  <1>3. Len(Query.script) \in Nat
    BY ScriptFacts
  <1>4. /\ p < Len(Query.script) => Head(stream) = Query.script[p + 1]
                                       /\ IsRest(stream', Query, p + 1)
        /\ p = Len(Query.script) => Head(stream) = "ready"
    BY <1>1, <1>2, TakenRest
  <1>5. p < Len(Query.script) \/ p = Len(Query.script)
    BY <1>3
  <1>6. p < Len(Query.script) => p \in 0..Len(Query.script) - 1 /\ p + 1 \in 1..Len(Query.script)
    BY <1>3
  <1>7. p < Len(Query.script) => Head(stream) # "ready"
    BY <1>4, <1>6, ScriptFacts
  <1> QED
    BY <1>4, <1>5, <1>6, <1>7

\* The local of Execute that a result of PQgetResult ends up in.
LEMMA NewIsResultOf ==
    ASSUME NEW p, fetched + 1 = Number(Query, p + 1)
    PROVE  NewResult(Query.script[p + 1]) = ResultOf(p + 1)
  BY DEF NewResult, ResultOf

LEMMA ResultIsThere ==
    ASSUME IInv, pc \in InExecute
    PROVE  \A j : ResultOf(j) # NoResult
  BY CurrentScript DEF ResultOf, NoResult

\* Where the conversation ends, the outcome is the documented one.
LEMMA OutcomeChosen ==
    ASSUME IInv, pc = "fetch", Query.script \in Script,
           ReadSoFar(Query, Len(Query.script)), ChosenSoFar(Query, Len(Query.script))
    PROVE  Outcome = ResultOf(Chosen(Query))
  <1> DEFINE n == Len(Query.script)
  <1>1. n \in Nat /\ n > 0
    BY ScriptFacts
  <1>2. ~EndsInError(Query)
    BY DEF ReadSoFar
  <1>3. CASE result = NoResult
    <2>1. lastResult = ResultOf(n)
      BY <1>1, <1>3 DEF ChosenSoFar, Polling
    <2>2. Chosen(Query) = n
      BY <1>3, ChosenIs DEF ChosenSoFar
    <2> QED
      BY <1>3, <2>1, <2>2 DEF Outcome
  <1>4. CASE result # NoResult
    <2>1. PICK j \in 1..n : IsNth(Query, j) /\ result = ResultOf(j)
      BY <1>4 DEF ChosenSoFar
    <2>2. Chosen(Query) = j
      BY <1>2, <2>1, ChosenIs
    <2> QED
      BY <1>4, <2>1, <2>2 DEF Outcome
  <1> QED
    BY <1>3, <1>4

\* A result to choose from has arrived and waits to be looked at.
LEMMA ToSave ==
    ASSUME IInv, IInv', ~cancelled, Query.script \in Script, pc \in InExecute,
           NEW p \in 0..Len(Query.script) - 1,
           ReadSoFar(Query, p), ChosenSoFar(Query, p),
           IsRest(stream', Query, p + 1),
           Query.script[p + 1] \notin {"row", "copyout"},
           p + 1 = Len(Query.script) => ~EndsInError(Query),
           fetched' = fetched + 1, res' = NewResult(Query.script[p + 1]),
           pc' = "save",
           UNCHANGED <<retrieved, result, queries, currIndex, cancelled>>
    PROVE  Choosing'
  <1>1. Query' = Query /\ \A j : ResultOf(j)' = ResultOf(j)
    BY DEF Query, ResultOf
  <1>2. /\ fetched' = Number(Query, p + 1)
        /\ p + 1 \in Choices(Query)
        /\ res' = ResultOf(p + 1)
    BY NumberNext, NewIsResultOf DEF ReadSoFar
  <1>3. ReadSoFar(Query, p + 1)'
    BY <1>1, <1>2 DEF ReadSoFar, Copying
  <1>4. ChosenSoFar(Query, p)'
    BY <1>1 DEF ChosenSoFar, Polling
  <1>5. p \in 0..Len(Query'.script) - 1
    BY <1>1
  <1>6. p + 1 \in Choices(Query') /\ res' = ResultOf(p + 1)'
    BY <1>1, <1>2
  <1> HIDE DEF Choosing
  <1>7. \E r \in 0..Len(Query'.script) - 1 :
           /\ ReadSoFar(Query, r + 1)' /\ ChosenSoFar(Query, r)'
           /\ r + 1 \in Choices(Query')
           /\ res' = ResultOf(r + 1)'
    BY <1>3, <1>4, <1>5, <1>6
  <1> QED
    BY <1>7 DEF Choosing, Polling, Copying

\* A row, or the start of a COPY TO STDOUT, is passed.
LEMMA ToCopy ==
    ASSUME ~cancelled, Query.script \in Script,
           NEW p \in 0..Len(Query.script) - 1,
           ReadSoFar(Query, p), ChosenSoFar(Query, p),
           IsRest(stream', Query, p + 1),
           Query.script[p + 1] \in {"row", "copyout"},
           fetched' = IF Query.script[p + 1] = "row" THEN fetched ELSE fetched + 1,
           pc' \in Copying,
           UNCHANGED <<retrieved, result, queries, currIndex, cancelled>>
    PROVE  Choosing'
  <1>1. Query' = Query /\ \A j : ResultOf(j)' = ResultOf(j)
    BY DEF Query, ResultOf
  <1>2. Len(Query.script) \in Nat /\ p \in Nat
    BY NumberNext, ScriptFacts
  <1>3. /\ fetched' = Number(Query, p + 1)
        /\ retrieved' = Counted(Query, p + 1)
        /\ p + 1 \notin Choices(Query)
    BY NumberNext DEF ReadSoFar, ChosenSoFar
  <1>4. p + 1 # Len(Query.script)
    BY ScriptFacts
  <1>5. ReadSoFar(Query, p + 1)'
    BY <1>1, <1>2, <1>3, <1>4 DEF ReadSoFar, Copying
  <1>6. ChosenSoFar(Query, p + 1)'
    <2>1. \A j \in 1..p + 1 : j \in 1..p \/ j = p + 1
      BY <1>2
    <2>2. \A j \in 1..p : j \in 1..p + 1
      BY <1>2
    <2>3. ~IsNth(Query, p + 1)
      BY <1>3 DEF IsNth
    <2>4. result' = NoResult => \A j \in 1..p + 1 : ~IsNth(Query, j)
      BY <2>1, <2>3 DEF ChosenSoFar
    <2>5. result' # NoResult => \E j \in 1..p + 1 : IsNth(Query, j) /\ result' = ResultOf(j)
      BY <2>2 DEF ChosenSoFar
    <2>6. pc' \notin Polling
      BY DEF Polling, Copying
    <2> QED
      BY <1>1, <1>3, <2>4, <2>5, <2>6 DEF ChosenSoFar
  <1>7. p + 1 \in 0..Len(Query'.script)
    BY <1>1, <1>2
  <1> QED
    BY <1>5, <1>6, <1>7 DEF Choosing, Polling, Copying

LEMMA FetchKeepsChoosing ==
    ASSUME IInv, IInv', Choosing, Fetch
    PROVE  Choosing'
  <1>1. SUFFICES ASSUME ~cancelled PROVE Choosing'
    BY DEF Fetch, Choosing
  <1>2. pc = "fetch" /\ pc \in InExecute /\ pc \in Polling /\ TakeItem
    BY DEF Fetch, InExecute, Loop, Polling
  <1>3. Query.script \in Script /\ currIndex # 0
    BY <1>2, CurrentScript
  <1>4. PICK p \in 0..Len(Query.script) : ReadSoFar(Query, p) /\ ChosenSoFar(Query, p)
    BY <1>1, <1>2 DEF Choosing
  <1>5. UNCHANGED <<queries, currIndex, cancelled, lastResult, retrieved>>
    BY DEF Fetch
  <1>6. Query' = Query /\ \A j : ResultOf(j)' = ResultOf(j)
    BY <1>5 DEF Query, ResultOf
  <1> DEFINE n == Len(Query.script)
             kind == Head(stream)
  <1>7. CASE p = n
    <2>1. kind = "ready"
      BY <1>2, <1>3, <1>4, <1>7, NextItem
    <2>2. pc' = "out" /\ result' = result
      BY <2>1 DEF Fetch
    <2>3. Outcome = ResultOf(Chosen(Query))
      BY <1>2, <1>3, <1>4, <1>7, OutcomeChosen
    <2>4. Outcome' = Outcome
      BY <1>5, <2>2 DEF Outcome
    <2>5. Outcome' = ResultOf(Chosen(Query))'
      BY <1>6, <2>3, <2>4
    <2> QED
      BY <2>2, <2>5 DEF Choosing, Polling, Copying
  <1>8. CASE p < n
    <2>1. p \in 0..n - 1 /\ kind = Query.script[p + 1] /\ IsRest(stream', Query, p + 1)
      BY <1>2, <1>3, <1>4, <1>8, NextItem
    <2>2. p + 1 \in 1..n /\ n \in Nat /\ p \in Nat
      BY <1>3, <2>1, NumberNext, ScriptFacts
    <2>3. kind # "ready"
      BY <1>3, <2>1, <2>2, ScriptFacts
    <2>4. CASE kind = "error"
      <3>1. p + 1 = n
        BY <1>3, <2>1, <2>2, <2>4, ScriptFacts
      <3>2. p > 0 => Query.script[p] \notin {"copyout", "row"}
        BY <1>2, <1>4 DEF ReadSoFar, Polling, Copying
      <3>3. EndsInError(Query)
        <4>1. n - 1 = p /\ (n > 1 => p > 0)
          BY <2>2, <3>1
        <4> QED
          BY <2>1, <2>4, <3>1, <3>2, <4>1 DEF EndsInError
      <3>4. pc' = "drain" /\ result' = NewResult(kind)
        BY <2>4 DEF Fetch
      <3>5. fetched + 1 = Number(Query, p + 1)
        BY <1>3, <1>4, <2>1, <2>4, NumberNext DEF ReadSoFar
      <3>6. result' = ResultOf(n)
        BY <2>1, <3>1, <3>4, <3>5, NewIsResultOf
      <3>7. (EndsInError(Query) /\ result = ResultOf(Len(Query.script)))'
        BY <1>6, <3>3, <3>6
      <3> QED
        BY <3>4, <3>7 DEF Choosing, Polling, Copying
    <2>5. CASE kind = "copyout"
      <3>1. pc' = "copy" /\ fetched' = fetched + 1 /\ result' = result
        BY <2>5 DEF Fetch, GotResult
      <3>2. pc' \in Copying
        BY <3>1 DEF Copying
      <3>3. fetched' = IF Query.script[p + 1] = "row" THEN fetched ELSE fetched + 1
        BY <2>1, <2>5, <3>1
      <3> HIDE DEF n, kind
      <3> QED
        BY <1>1, <1>3, <1>4, <1>5, <2>1, <2>5, <3>1, <3>2, <3>3, ToCopy DEF n, kind
    <2>6. CASE kind \in {"copyin", "tuples", "command"}
      <3>1. /\ pc' = "save" /\ fetched' = fetched + 1 /\ result' = result
            /\ res' = NewResult(kind)
        BY <2>6 DEF Fetch, GotResult
      <3>2. p + 1 = n => ~EndsInError(Query)
        BY <2>1, <2>6 DEF EndsInError
      <3> QED
        BY <1>1, <1>2, <1>3, <1>4, <1>5, <2>1, <2>6, <3>1, <3>2, ToSave
    <2>7. kind \in {"ready", "error", "copyin", "copyout", "tuples", "command"}
      BY DEF Fetch
    <2> QED
      BY <2>3, <2>4, <2>5, <2>6, <2>7
  <1> QED
    BY <1>2, <1>3, <1>4, <1>7, <1>8, NextItem

LEMMA CopyKeepsChoosing ==
    ASSUME IInv, IInv', Choosing, CopyPoll \/ CopyEnd
    PROVE  Choosing'
  <1>1. SUFFICES ASSUME ~cancelled PROVE Choosing'
    BY DEF CopyPoll, CopyEnd, Choosing, queryVars
  <1>2. pc \in Copying /\ pc \in InExecute
    BY DEF CopyPoll, CopyEnd, Copying, InExecute, Loop
  <1>3. Query.script \in Script
    BY <1>2, CurrentScript
  <1>4. PICK p \in 0..Len(Query.script) : ReadSoFar(Query, p) /\ ChosenSoFar(Query, p)
    BY <1>1, <1>2 DEF Choosing
  <1>5. /\ p > 0 /\ Query.script[p] \in {"copyout", "row"} /\ p # Len(Query.script)
        /\ Len(Query.script) \in Nat
    BY <1>2, <1>3, <1>4, ScriptFacts DEF ReadSoFar
  <1>6. UNCHANGED <<queries, currIndex, cancelled, result, lastResult, retrieved>>
    BY DEF CopyPoll, CopyEnd, queryVars
  <1>7. CASE CopyPoll /\ stream' = stream
    <2>1. pc' \in Copying /\ fetched' = fetched
      BY <1>7 DEF CopyPoll, Copying
    <2> QED
      BY <1>2, <1>6, <1>7, <2>1, StillChoosing
  <1>8. CASE CopyPoll /\ stream' # stream
    <2>1. TakeItem /\ Head(stream) = "row" /\ pc' \in Copying /\ fetched' = fetched
      BY <1>8 DEF CopyPoll, connVars, Copying
    <2>2. /\ p \in 0..Len(Query.script) - 1
          /\ Query.script[p + 1] = "row" /\ IsRest(stream', Query, p + 1)
      BY <1>3, <1>4, <1>5, <2>1, NextItem
    <2>3. fetched' = IF Query.script[p + 1] = "row" THEN fetched ELSE fetched + 1
      BY <2>1, <2>2
    <2> QED
      BY <1>1, <1>3, <1>4, <1>6, <2>1, <2>2, <2>3, ToCopy
  <1>9. CASE CopyEnd
    <2>1. TakeItem /\ sent > 0 /\ Head(stream) # "row"
      <3>1. sent > 0 /\ stream # <<>> /\ stream[1] # "row" /\ stream \in Seq(Item)
        BY <1>9 DEF CopyEnd, IInv, CopyEndSeen, TypeOK, ConnTypeOK
      <3>2. Head(stream) = stream[1]
        BY <3>1
      <3> QED
        BY <1>9, <3>1, <3>2 DEF CopyEnd, ReadDead
    <2>2. /\ p \in 0..Len(Query.script) - 1
          /\ Query.script[p + 1] = Head(stream) /\ IsRest(stream', Query, p + 1)
          /\ Head(stream) # "ready"
      BY <1>3, <1>4, <1>5, <2>1, NextItem
    <2>3. p \in 1..Len(Query.script) - 1
      BY <1>5, <2>2
    <2>4. Query.script[p + 1] \in {"command", "error"}
      BY <1>3, <1>5, <2>1, <2>2, <2>3, ScriptFacts
    <2>5. p + 1 = Len(Query.script) => ~EndsInError(Query)
      <3>1. p + 1 = Len(Query.script) => Len(Query.script) > 1 /\ Len(Query.script) - 1 = p
        BY <1>5, <2>3
      <3> QED
        BY <1>5, <3>1 DEF EndsInError
    <2>6. /\ pc' = "save" /\ fetched' = fetched + 1
          /\ res' = NewResult(Query.script[p + 1])
      <3>1. ~ReadDead
        BY <2>1 DEF ReadDead, IInv, TypeOK, ConnTypeOK
      <3> QED
        BY <1>9, <2>2, <3>1 DEF CopyEnd, GotResult
    <2> QED
      BY <1>1, <1>2, <1>3, <1>4, <1>6, <2>2, <2>4, <2>5, <2>6, ToSave
  <1> QED
    BY <1>7, <1>8, <1>9

LEMMA SaveKeepsChoosing ==
    ASSUME IInv, Choosing, SaveResult
    PROVE  Choosing'
  <1>1. SUFFICES ASSUME ~cancelled PROVE Choosing'
    BY DEF SaveResult, Choosing
  <1>2. pc = "save" /\ pc \in InExecute /\ pc' = "top"
    BY DEF SaveResult, InExecute, Loop
  <1>3. Query.script \in Script
    BY <1>2, CurrentScript
  <1>4. PICK p \in 0..Len(Query.script) - 1 :
           /\ ReadSoFar(Query, p + 1) /\ ChosenSoFar(Query, p)
           /\ p + 1 \in Choices(Query)
           /\ res = ResultOf(p + 1)
    BY <1>1, <1>2 DEF Choosing
  <1>5. /\ UNCHANGED <<queries, currIndex, cancelled, stream, fetched>>
        /\ retrieved' = retrieved + 1
    BY DEF SaveResult, connVars, queryVars
  <1>6. Query' = Query /\ \A j : ResultOf(j)' = ResultOf(j)
    BY <1>5 DEF Query, ResultOf
  <1>7. p \in Nat /\ p + 1 \in 1..Len(Query.script) /\ Len(Query.script) \in Nat
    BY <1>3, <1>4, NumberNext, ScriptFacts
  <1>8. retrieved' = Counted(Query, p + 1)
    BY <1>3, <1>4, <1>5, NumberNext DEF ChosenSoFar
  <1>9. Wanted <=> IsNth(Query, p + 1)
    BY <1>1, <1>4, <1>5, <1>8 DEF Wanted, IsNth, Counted
  <1>10. ReadSoFar(Query, p + 1)'
    <2>1. pc \notin Copying /\ pc' \notin Copying
      BY <1>2 DEF Copying
    <2> QED
      BY <1>4, <1>5, <1>6, <2>1 DEF ReadSoFar
  <1>11. ChosenSoFar(Query, p + 1)'
    <2>1. \A j \in 1..p + 1 : j \in 1..p \/ j = p + 1
      BY <1>7
    <2>2. \A j \in 1..p : j \in 1..p + 1
      BY <1>7
    <2>3. res # NoResult
      BY <1>2, <1>4, ResultIsThere
    <2>4. p + 1 \in 1..p + 1
      BY <1>7
    <2>5. CASE Wanted
      <3>1. result' = res
        BY <2>5 DEF SaveResult
      <3>2. \E j \in 1..p + 1 : IsNth(Query, j) /\ result' = ResultOf(j)
        BY <1>4, <1>9, <2>4, <2>5, <3>1
      <3> QED
        BY <1>6, <1>8, <2>3, <3>1, <3>2 DEF ChosenSoFar
    <2>6. CASE ~Wanted
      <3>1. result' = result /\ lastResult' = ResultOf(p + 1)
        BY <1>4, <2>6 DEF SaveResult
      <3>2. result' = NoResult => \A j \in 1..p + 1 : ~IsNth(Query, j)
        BY <1>4, <1>9, <2>1, <2>6, <3>1 DEF ChosenSoFar
      <3>3. result' # NoResult => \E j \in 1..p + 1 : IsNth(Query, j) /\ result' = ResultOf(j)
        BY <1>4, <2>2, <3>1 DEF ChosenSoFar
      <3> QED
        BY <1>6, <1>8, <3>1, <3>2, <3>3 DEF ChosenSoFar
    <2> QED
      BY <2>5, <2>6
  <1>12. p + 1 \in 0..Len(Query'.script)
    BY <1>6, <1>7
  <1> QED
    BY <1>2, <1>10, <1>11, <1>12 DEF Choosing, Polling, Copying

\* Behind an error nothing is looked at any more.
LEMMA DrainKeepsChoosing ==
    ASSUME IInv, Choosing, DrainConsume \/ DrainGet
    PROVE  Choosing'
  <1>1. SUFFICES ASSUME ~cancelled PROVE Choosing'
    BY DEF DrainConsume, DrainGet, Choosing, queryVars
  <1>2. pc \in {"drain", "drain_get"} /\ pc \in InExecute
    BY DEF DrainConsume, DrainGet, InExecute, Loop
  <1>3. EndsInError(Query) /\ result = ResultOf(Len(Query.script))
    BY <1>1, <1>2 DEF Choosing
  <1>4. /\ UNCHANGED <<queries, currIndex, cancelled, result, lastResult>>
        /\ pc' \in {"drain", "drain_get", "out"}
    BY <1>1 DEF DrainConsume, DrainGet, queryVars, localVars
  <1>5. Query' = Query /\ \A j : ResultOf(j)' = ResultOf(j)
    BY <1>4 DEF Query, ResultOf
  <1>6. (EndsInError(Query) /\ result = ResultOf(Len(Query.script)))'
    BY <1>3, <1>4, <1>5
  <1>7. (Outcome = ResultOf(Chosen(Query)))'
    <2>1. Chosen(Query) = Len(Query.script) /\ result # NoResult
      BY <1>2, <1>3, CurrentScript, ChosenIs, ResultIsThere
    <2>2. Outcome' = result
      BY <1>4, <2>1 DEF Outcome
    <2> QED
      BY <1>3, <1>5, <2>1, <2>2
  <1> QED
    BY <1>4, <1>6, <1>7 DEF Choosing, Polling, Copying

LEMMA PollKeepsChoosing ==
    ASSUME IInv, Choosing, CheckCancelled \/ Consume \/ CopyConsume
    PROVE  Choosing'
  <1>1. SUFFICES ASSUME ~cancelled PROVE Choosing'
    BY DEF CheckCancelled, Consume, CopyConsume, Choosing, queryVars
  <1>2. UNCHANGED <<stream, fetched, retrieved, result, lastResult, queries,
                    currIndex, cancelled>>
    BY <1>1
    DEF CheckCancelled, Consume, CopyConsume, PQconsumeInput, ConsumeFails,
        queryVars, localVars
  <1>3. \/ pc \in Polling /\ pc' \in Polling
        \/ pc \in Copying /\ pc' \in Copying
        \/ pc' \in {"lost", "copy_lost"}
    BY DEF CheckCancelled, Consume, CopyConsume, Polling, Copying
  <1> QED
    BY <1>2, <1>3, StillChoosing, NotChoosing DEF Polling, Copying

LEMMA OthersKeepChoosing ==
    ASSUME IInv, CInv, Choosing, Owner \/ Session \/ UNCHANGED vars
    PROVE  Choosing'
  <1>1. CASE CancelExecution
    BY <1>1 DEF CancelExecution, Choosing
  <1>2. CASE Destroy
    BY <1>2, NotChoosing DEF Destroy, Polling, Copying
  <1>3. CASE AddQuery \/ HandleEvent \/ Session \/ UNCHANGED vars
    <2>1. SUFFICES ASSUME ~cancelled PROVE Choosing'
      BY <1>3 DEF AddQuery, HandleEvent, Session, InSession, vars, Choosing
    <2>2. UNCHANGED <<fetched, retrieved, res, result, lastResult, currIndex,
                      cancelled, pc>>
      BY <1>3 DEF AddQuery, HandleEvent, Session, InSession, vars, localVars
    <2>3. stream' = stream
      <3>1. ~ServerCancel
        BY <2>1 DEF ServerCancel, CInv, SignalHasTarget
      <3> QED
        BY <1>3, <3>1
        DEF AddQuery, HandleEvent, Session, InSession, Environment, ServerStart,
            ServerSend, NetDrop, vars, connVars
    <2>4. CASE pc \in InExecute
      <3>1. currIndex \in 1..Len(queries) /\ queries \in Seq(Queries)
        BY <2>4, CurrentScript DEF IInv, TypeOK
      <3>2. Query' = Query
        <4>1. CASE AddQuery
          <5>1. PICK q \in Queries : queries' = Append(queries, q)
            BY <4>1 DEF AddQuery
          <5>2. queries'[currIndex] = queries[currIndex]
            BY <3>1, <5>1, AppendProperties
          <5> QED
            BY <2>2, <5>2 DEF Query
        <4>2. CASE queries' = queries
          BY <2>2, <4>2 DEF Query
        <4> QED
          BY <1>3, <4>1, <4>2 DEF HandleEvent, Session, InSession, vars
      <3>3. \A j : ResultOf(j)' = ResultOf(j)
        BY <2>2, <3>2 DEF ResultOf
      <3>4. Outcome' = Outcome
        BY <2>2 DEF Outcome
      <3>5. \A p \in 0..Len(Query.script) + 1 : ReadSoFar(Query, p)' <=> ReadSoFar(Query, p)
        BY <2>2, <2>3, <3>2 DEF ReadSoFar
      <3>6. \A p \in 0..Len(Query.script) : ChosenSoFar(Query, p)' <=> ChosenSoFar(Query, p)
        BY <2>2, <3>2, <3>3 DEF ChosenSoFar
      <3> QED
        BY <2>1, <2>2, <3>2, <3>3, <3>4, <3>5, <3>6 DEF Choosing
    <2>5. CASE pc \notin InExecute
      BY <2>2, <2>5, NotChoosing DEF InExecute, Loop, Polling, Copying
    <2> QED
      BY <2>4, <2>5
  <1> QED
    BY <1>1, <1>2, <1>3 DEF Owner

LEMMA NextChoosing == IInv /\ CInv /\ Choosing /\ [Next]_vars => Choosing'
  BY NextIInv, OutsideKeepsChoosing, FetchKeepsChoosing, CopyKeepsChoosing,
     SaveKeepsChoosing, DrainKeepsChoosing, PollKeepsChoosing, OthersKeepChoosing
  DEF Next, Worker

\* What has happened stays so: nothing repairs the network, withdraws a
\* cancellation, or changes a query that is queued.
LEMMA NothingUndone ==
    ASSUME IInv, [Next]_vars
    PROVE  /\ link' = "up" => link = "up"
           /\ cancelled => cancelled'
           /\ status' = "bad" => status = "bad" \/ link' = "down"
           /\ pc' # "deleted" =>
                 /\ pc # "deleted"
                 /\ \A i \in 1..Len(queries) :
                       i \in 1..Len(queries') /\ queries'[i] = queries[i]
  <1>1. CASE Worker
    <2>1. UNCHANGED <<queries, cancelled>> /\ pc # "deleted"
      BY <1>1
      DEF Worker, StartQuery, NothingQueued, AfterExecute, LoopOrExit, Refuse,
          SendQuery, CheckCancelled, Consume, Lost, Fetch, DrainConsume, DrainGet,
          CopyPoll, CopyConsume, CopyLost, CopyEnd, SaveResult, OutOfLoop, queryVars
    <2>2. link' = link
      BY <1>1
      DEF Worker, StartQuery, NothingQueued, AfterExecute, LoopOrExit, Refuse,
          SendQuery, CheckCancelled, Consume, Lost, Fetch, DrainConsume, DrainGet,
          CopyPoll, CopyConsume, CopyLost, CopyEnd, SaveResult, OutOfLoop,
          PQsendQuery, PQconsumeInput, ConsumeFails, ReadDead, connVars, serverVars
    <2>3. status' = status \/ link = "down"
      <3>1. CASE ConsumeFails \/ ReadDead
        BY <3>1 DEF ConsumeFails, ConsumeSucceeds, ReadDead, IInv, TypeOK, ConnTypeOK
      <3>2. CASE ~(ConsumeFails \/ ReadDead)
        BY <1>1, <3>2
        DEF Worker, StartQuery, NothingQueued, AfterExecute, LoopOrExit, Refuse,
            SendQuery, CheckCancelled, Consume, Lost, Fetch, DrainConsume, DrainGet,
            CopyPoll, CopyConsume, CopyLost, CopyEnd, SaveResult, OutOfLoop,
            PQsendQuery, PQconsumeInput, connVars, serverVars
      <3> QED
        BY <3>1, <3>2
    <2> QED
      BY <2>1, <2>2, <2>3
  <1>2. CASE AddQuery
    <2>1. PICK q \in Queries : queries' = Append(queries, q)
      BY <1>2 DEF AddQuery
    <2>2. \A i \in 1..Len(queries) : i \in 1..Len(queries') /\ queries'[i] = queries[i]
      BY <2>1, AppendProperties DEF IInv, TypeOK
    <2> QED
      BY <1>2, <2>2 DEF AddQuery, connVars
  <1>3. CASE CancelExecution \/ HandleEvent \/ UNCHANGED vars
    BY <1>3 DEF CancelExecution, HandleEvent, vars, connVars, queryVars
  <1>4. CASE Destroy
    BY <1>4 DEF Destroy, connVars
  <1>5. CASE Session
    <2>1. UNCHANGED <<queries, cancelled, pc>>
      BY <1>5 DEF Session, InSession
    <2>2. UNCHANGED status /\ (link' = "up" => link = "up")
      BY <1>5
      DEF Session, InSession, Environment, ServerStart, ServerSend, ServerCancel, NetDrop
    <2> QED
      BY <2>1, <2>2
  <1> QED
    BY <1>1, <1>2, <1>3, <1>4, <1>5 DEF Next, Owner

\* A way out of Execute with no result: what went wrong, or a cancellation.
Fails(code) ==
    /\ code \notin {"tuples", "command", "error"}
    /\ SetRc(code)
    /\ UNCHANGED set
    /\ link = "up" /\ ~cancelled => code = "string_invalid" /\ ~Query.encodable

\* A way out of Execute with the documented result, and its rows if it has
\* any.
Delivers ==
    /\ SetRc(Query.script[Chosen(Query)])
    /\ \/ UNCHANGED set
       \/ set' = [set EXCEPT ![currIndex] = ResultOf(Chosen(Query))]

LEMMA ReturnShapes ==
    ASSUME IInv, WInv, Returns, [Next]_vars
    PROVE  /\ UNCHANGED <<queries, currIndex, link, cancelled>>
           /\ Delivers \/ \E code \in ReturnCode : Fails(code)
  <1>1. /\ pc \in InExecute /\ pc' = "after"
        /\ currIndex' = currIndex
    BY DEF Returns, ReturnWith, ReturnCancelled
  <1>2. Refuse \/ Lost \/ CopyLost \/ OutOfLoop \/ (DrainConsume /\ cancelled /\ ConsumeFails)
    BY <1>1
    DEF Next, Worker, Owner, Session, InSession, vars, StartQuery, NothingQueued,
        AfterExecute, LoopOrExit, SendQuery, CheckCancelled, Consume, Fetch,
        DrainConsume, DrainGet, CopyPoll, CopyConsume, CopyEnd, SaveResult,
        AddQuery, CancelExecution, HandleEvent, Destroy, InExecute, Loop
  <1>3. UNCHANGED <<queries, link, cancelled>>
    BY <1>2
    DEF Refuse, Lost, CopyLost, OutOfLoop, DrainConsume, ConsumeFails, connVars, serverVars
  <1>4. link = "up" => status = "ok"
    BY DEF WInv, NothingEarly, IInv, TypeOK, ConnTypeOK
  <1>5. CASE Refuse
    <2>1. link = "up" => ~SendMayFail
      BY <1>5 DEF Refuse, SendMayFail, IInv, ConnReusable
    <2>2. ASSUME status # "ok", ReturnWith("conn_lost")
          PROVE  Fails("conn_lost")
      BY <1>4, <1>5, <2>2 DEF Refuse, Fails, ReturnWith
    <2>3. ASSUME ~Query.encodable, ReturnWith("string_invalid")
          PROVE  Fails("string_invalid")
      BY <1>5, <2>3 DEF Refuse, Fails, ReturnWith
    <2>4. ASSUME SendMayFail, ReturnWith("send_query")
          PROVE  Fails("send_query")
      BY <1>5, <2>1, <2>4 DEF Refuse, Fails, ReturnWith
    <2> QED
      BY <1>1, <1>3, <1>5, <2>2, <2>3, <2>4 DEF Refuse, ReturnCode
  <1>6. CASE Lost \/ CopyLost
    <2>1. link = "down"
      BY <1>6 DEF Lost, CopyLost, IInv, LoopLeft
    <2>2. \E code \in {"cancelled", "conn_lost", "consume_input"} : SetRc(code)
      BY <1>6 DEF Lost, CopyLost, ReturnCancelled, ConnectionLost, ReturnWith
    <2>3. UNCHANGED set
      BY <1>6 DEF Lost, CopyLost
    <2>4. \E code \in ReturnCode : Fails(code)
      BY <2>1, <2>2, <2>3 DEF Fails, ReturnCode
    <2> QED
      BY <1>1, <1>3, <2>4
  <1>7. CASE DrainConsume /\ cancelled /\ ConsumeFails
    <2>1. SetRc("cancelled") /\ UNCHANGED set /\ cancelled
      BY <1>1, <1>7 DEF DrainConsume, ReturnCancelled
    <2>2. Fails("cancelled")
      BY <2>1 DEF Fails
    <2> QED
      BY <1>1, <1>3, <2>2 DEF ReturnCode
  <1>8. CASE OutOfLoop /\ cancelled
    <2>1. Fails("cancelled")
      BY <1>8 DEF OutOfLoop, ReturnCancelled, Fails
    <2> QED
      BY <1>1, <1>3, <2>1 DEF ReturnCode
  <1>9. CASE OutOfLoop /\ ~cancelled
    <2>1. Outcome = ResultOf(Chosen(Query)) /\ Outcome # NoResult
      BY <1>1, <1>9, ResultIsThere DEF OutOfLoop, WInv, Choosing
    <2>2. Outcome.kind = Query.script[Chosen(Query)]
      BY <2>1 DEF ResultOf
    <2>3. SetRc(Outcome.kind)
      BY <1>9, <2>1 DEF OutOfLoop, ReturnWith
    <2>4. UNCHANGED set \/ set' = [set EXCEPT ![currIndex] = Outcome]
      BY <1>9 DEF OutOfLoop
    <2>5. Delivers
      BY <2>1, <2>2, <2>3, <2>4 DEF Delivers
    <2> QED
      BY <1>1, <1>3, <2>5
  <1> QED
    BY <1>2, <1>5, <1>6, <1>7, <1>8, <1>9

LEMMA NextNothingEarly ==
    ASSUME IInv, NothingEarly, [Next]_vars
    PROVE  NothingEarly'
  <1>1. status' = "bad" => link' = "down"
    <2>1. link' \in {"up", "down"}
      BY NextIInv DEF IInv, TypeOK, ConnTypeOK
    <2> QED
      BY <2>1, NothingUndone DEF NothingEarly
  <1>2. ASSUME NEW i \in Index, ~Finished(i)'
        PROVE  set'[i] = NoResult
    <2>1. i \in Nat /\ currIndex \in Nat
      BY FinishedWhen
    <2>2. CASE Runs \/ Rests
      <3>1. ~Finished(i)
        <4>1. CASE Runs
          BY <1>2, <2>1, <4>1 DEF Runs, Finished, InExecute, Loop, Between
        <4>2. CASE Rests
          BY <1>2, <4>2 DEF Rests, Finished
        <4> QED
          BY <2>2, <4>1, <4>2
      <3> QED
        BY <2>2, <3>1 DEF Runs, Rests, NothingEarly
    <2>3. CASE Returns
      <3>1. pc' = "after" /\ currIndex' = currIndex
        BY <2>3 DEF Returns, ReturnWith, ReturnCancelled
      <3>2. i # currIndex /\ ~Finished(i)
        BY <1>2, <2>1, <3>1 DEF Finished
      <3>3. set'[i] = set[i]
        BY <2>3, <3>2 DEF Returns, IInv, TypeOK
      <3> QED
        BY <3>2, <3>3 DEF NothingEarly
    <2>4. CASE StartQuery
      <3>1. currIndex' = currIndex + 1 /\ set' = set
        BY <2>4 DEF StartQuery
      <3>2. ~Finished(i)
        BY <1>2, <2>1, <3>1 DEF Finished
      <3> QED
        BY <3>1, <3>2 DEF NothingEarly
    <2>5. CASE HandleEvent
      <3>1. ~Finished(i)
        BY <1>2, <2>5 DEF HandleEvent, Finished
      <3>2. set'[i] \in {set[i], NoResult}
        BY <2>5 DEF HandleEvent, IInv, TypeOK
      <3> QED
        BY <3>1, <3>2 DEF NothingEarly
    <2>6. CASE Destroy
      BY <2>6 DEF Destroy
    <2> QED
      BY <2>2, <2>3, <2>4, <2>5, <2>6, StepShapes
  <1> QED
    BY <1>1, <1>2 DEF NothingEarly

\* The promise, for one query.
Right(i) ==
    LET q == queries[i] IN
    /\ rc[i] \in {"tuples", "command", "error"} => rc[i] = q.script[Chosen(q)]
    /\ set[i] # NoResult => set[i].q = i /\ set[i].k = Number(q, Chosen(q))
    /\ link = "up" /\ ~cancelled =>
          rc[i] \in {"tuples", "command", "error"}
              \cup (IF q.encodable THEN {} ELSE {"string_invalid"})

\* The query that Execute returns from.
LEMMA ReturnsRight ==
    ASSUME IInv, WInv, Returns, [Next]_vars
    PROVE  Right(currIndex)'
  <1>1. /\ currIndex \in Index /\ Query \in Queries /\ Query.script \in Script
        /\ pc \in InExecute
    BY CurrentScript DEF Returns
  <1>2. UNCHANGED <<queries, currIndex, link, cancelled>>
    BY ReturnShapes
  <1>3. set[currIndex] = NoResult
    BY <1>1, FinishedWhen DEF WInv, NothingEarly
  <1>4. rc \in [Index -> ReturnCode] /\ set \in [Index -> Result \cup {NoResult}]
    BY DEF IInv, TypeOK
  <1> DEFINE c == Chosen(Query)
  <1>5. CASE Delivers
    <2>1. rc'[currIndex] = Query.script[c] /\ Query.script[c] \in {"tuples", "command", "error"}
      BY <1>1, <1>4, <1>5, ChosenIs DEF Delivers, SetRc
    <2>2. set'[currIndex] # NoResult => set'[currIndex] = ResultOf(c)
      BY <1>1, <1>3, <1>4, <1>5 DEF Delivers
    <2>3. ResultOf(c).q = currIndex /\ ResultOf(c).k = Number(Query, c)
      BY DEF ResultOf
    <2> HIDE DEF c
    <2> QED
      BY <1>2, <2>1, <2>2, <2>3 DEF Right, Query, c
  <1>6. CASE \E code \in ReturnCode : Fails(code)
    <2>1. PICK code \in ReturnCode : Fails(code)
      BY <1>6
    <2>2. /\ rc'[currIndex] = code /\ code \notin {"tuples", "command", "error"}
          /\ set'[currIndex] = NoResult
          /\ link = "up" /\ ~cancelled => code = "string_invalid" /\ ~Query.encodable
      BY <1>1, <1>3, <1>4, <2>1 DEF Fails, SetRc
    <2> QED
      BY <1>2, <2>2 DEF Right, Query
  <1> QED
    BY <1>5, <1>6, ReturnShapes

\* An answer that was right stays right.
LEMMA StaysRight ==
    ASSUME IInv, [Next]_vars, pc' # "deleted",
           NEW i \in Index, i \in 1..Len(queries), Finished(i), Right(i)
    PROVE  Right(i)'
  <1>1. queries'[i] = queries[i] /\ (link' = "up" => link = "up") /\ (cancelled => cancelled')
    BY NothingUndone
  <1>2. rc'[i] = rc[i] /\ set'[i] \in {set[i], NoResult}
    BY FinishedStays
  <1> QED
    BY <1>1, <1>2 DEF Right

\* Only a return from Execute finishes a query.
LEMMA FinishedBy ==
    ASSUME IInv, [Next]_vars, NEW i \in Index, Finished(i)', ~Finished(i)
    PROVE  Returns /\ i = currIndex /\ currIndex' = currIndex
  <1>1. i \in Nat /\ currIndex \in Nat
    BY FinishedWhen
  <1>2. CASE Returns
    <2>1. currIndex' = currIndex
      BY <1>2 DEF Returns
    <2> QED
      BY <1>1, <1>2, <2>1 DEF Finished
  <1>3. ~Runs
    BY <1>1 DEF Runs, Finished, InExecute, Loop, Between
  <1>4. ~Rests
    BY DEF Rests, Finished
  <1>5. ~StartQuery
    BY <1>1 DEF StartQuery, Finished, Between
  <1>6. ~HandleEvent
    BY DEF HandleEvent, Finished
  <1>7. ~Destroy
    BY DEF Destroy, Finished, Between
  <1> QED
    BY <1>2, <1>3, <1>4, <1>5, <1>6, <1>7, StepShapes

LEMMA NextRightResult ==
    ASSUME IInv, WInv, [Next]_vars
    PROVE  RightResult'
  <1>1. SUFFICES ASSUME pc' # "deleted", NEW i \in 1..Len(queries'), Finished(i)'
                 PROVE  Right(i)'
    BY DEF RightResult, Right
  <1>2. IInv' /\ pc # "deleted"
    BY <1>1, NextIInv, NothingUndone
  <1>3. i \in Index
    BY <1>2, MaxQueriesAssumption DEF IInv, TypeOK, Index
  <1>4. CASE Finished(i)
    <2>1. i \in 1..Len(queries)
      <3>1. i \in Nat /\ i >= 1 /\ currIndex \in Nat
        BY <1>3, FinishedWhen
      <3>2. i <= currIndex
        BY <1>4, <3>1 DEF Finished
      <3>3. currIndex <= Len(queries) /\ Len(queries) \in Nat
        BY <1>2 DEF IInv, TypeOK, CurrentQueued
      <3> QED
        BY <3>1, <3>2, <3>3
    <2>2. Right(i)
      BY <1>2, <1>4, <2>1 DEF WInv, RightResult, Right
    <2> QED
      BY <1>1, <1>3, <1>4, <2>1, <2>2, StaysRight
  <1>5. CASE ~Finished(i)
    <2>1. Returns /\ i = currIndex /\ currIndex' = currIndex
      BY <1>1, <1>3, <1>5, FinishedBy
    <2>2. Right(currIndex)'
      BY <2>1, ReturnsRight
    <2> QED
      BY <2>1, <2>2 DEF Right
  <1> QED
    BY <1>4, <1>5

LEMMA NextWInv == IInv /\ CInv /\ WInv /\ [Next]_vars => WInv'
  BY NextChoosing, NextNothingEarly, NextRightResult DEF WInv

\* Whatever the answer, a query that was neither cancelled nor lost reports
\* the result the component asked for, an error that ended the command first.
THEOREM ResultIsRight == Spec => []RightResult
  <1>1. WInv => RightResult
    BY DEF WInv
  <1> QED
    BY <1>1, InitWInv, NextWInv, Invariance, CancellationInvariance, PTL DEF Spec

=============================================================================
