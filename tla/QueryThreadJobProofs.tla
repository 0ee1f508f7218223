------------------------ MODULE QueryThreadJobProofs ------------------------
(***************************************************************************)
(* The refinement: a pgQueryThread made for a single query, as the query   *)
(* tool makes it, implements QueryJob, whatever the query, the backend and *)
(* the network do.  The point that is not obvious is the code it answers   *)
(* with: PQgetResult also returns PGRES_COPY_IN and PGRES_COPY_OUT, and    *)
(* neither may become the outcome.  The last section is the safety half of *)
(* "every query is answered": Execute and the backend never both wait.     *)
(***************************************************************************)
EXTENDS QueryThreadJob, QueryThreadEventProofs

-----------------------------------------------------------------------------
(* No outcome is a COPY                                                    *)

\* What follows a COPY in a conversation: the refusal of one from the
\* client, the rows and the end of one to the client.
CopyShape(s) ==
    \A i \in 1..Len(s) :
        /\ s[i] = "copyin" => i < Len(s) /\ s[i + 1] = "error"
        /\ s[i] \in {"copyout", "row"} => i < Len(s) /\ s[i + 1] \in {"row", "command", "error"}

\* The copy loop reads rows, and an item that ends them.
RowsAhead ==
    pc \in {"copy", "copy_consume", "copy_end"} =>
        stream # <<>> /\ stream[1] \in {"row", "command", "error"}

\* A COPY FROM STDIN that was kept is followed by its error.
ErrorAhead == stream # <<>> /\ stream[1] = "error"

Overruled(r) ==
    r.kind = "copyin" /\ pc \in Loop =>
        \/ pc \in {"top", "consume", "lost", "fetch"} /\ ErrorAhead
        \/ pc \in {"drain", "drain_get", "out"} /\ result.kind = "error"

CopiesOverruled ==
    /\ Overruled(result)
    /\ Overruled(lastResult)
    /\ pc = "save" => /\ res.kind # "copyout"
                      /\ res.kind = "copyin" => ErrorAhead
    /\ pc \in Loop => result.kind # "copyout" /\ lastResult.kind # "copyout"

KInv == CopyShape(stream) /\ RowsAhead /\ CopiesOverruled

LEMMA InitKInv == Init => KInv
  BY DEF Init, ConnInit, KInv, CopyShape, RowsAhead, CopiesOverruled, Overruled, Loop

LEMMA SentShape ==
    ASSUME NEW s \in Script
    PROVE  CopyShape(Append(s, "ready"))
  <1> DEFINE t == Append(s, "ready")
             n == Len(s)
  <1>1. /\ s \in Seq(Item \ {"ready"}) /\ n \in Nat /\ n > 0
        /\ s[n] \in {"tuples", "command", "error"}
        /\ \A i \in 1..n - 1 :
              /\ s[i] = "copyin" => i = n - 1 /\ s[i + 1] = "error"
              /\ s[i] \in {"copyout", "row"} => s[i + 1] \in {"row", "command", "error"}
    BY EmptySeq DEF Script
  <1>2. Len(t) = n + 1 /\ t[n + 1] = "ready" /\ \A i \in 1..n : t[i] = s[i]
    BY <1>1, AppendProperties
  <1> HIDE DEF t, n
  <1>3. ASSUME NEW i \in 1..n + 1
        PROVE  /\ t[i] = "copyin" => i < n + 1 /\ t[i + 1] = "error"
               /\ t[i] \in {"copyout", "row"} => i < n + 1 /\ t[i + 1] \in {"row", "command", "error"}
    <2>1. (i \in 1..n - 1 /\ i + 1 \in 1..n /\ i < n + 1 /\ i \in 1..n) \/ i = n \/ i = n + 1
      BY <1>1
    <2>2. CASE i \in 1..n - 1 /\ i + 1 \in 1..n /\ i < n + 1 /\ i \in 1..n
      BY <1>1, <1>2, <2>2
    <2>3. CASE i = n
      BY <1>1, <1>2, <2>3
    <2>4. CASE i = n + 1
      BY <1>2, <2>4
    <2> QED
      BY <2>1, <2>2, <2>3, <2>4
  <1> QED
    BY <1>2, <1>3 DEF CopyShape, t

LEMMA TakenShape ==
    ASSUME NEW s \in Seq(Item), s # <<>>, CopyShape(s)
    PROVE  /\ CopyShape(Tail(s))
           /\ s[1] = "copyin" => Tail(s) # <<>> /\ Tail(s)[1] = "error"
           /\ s[1] \in {"copyout", "row"} =>
                 Tail(s) # <<>> /\ Tail(s)[1] \in {"row", "command", "error"}
  <1> DEFINE n == Len(s)
             t == Tail(s)
  <1>1. n \in Nat /\ n > 0 /\ Len(t) = n - 1 /\ \A i \in 1..Len(t) : t[i] = s[i + 1]
    BY HeadTailProperties, EmptySeq
  <1>3. \A i \in 1..n :
          /\ s[i] = "copyin" => i < n /\ s[i + 1] = "error"
          /\ s[i] \in {"copyout", "row"} => i < n /\ s[i + 1] \in {"row", "command", "error"}
    BY DEF CopyShape
  <1> HIDE DEF n, t
  <1>2. t = <<>> => Len(t) = 0
    OBVIOUS
  <1>4. ASSUME NEW i \in 1..n - 1
        PROVE  /\ t[i] = "copyin" => i < n - 1 /\ t[i + 1] = "error"
               /\ t[i] \in {"copyout", "row"} => i < n - 1 /\ t[i + 1] \in {"row", "command", "error"}
    <2>1. i + 1 \in 1..n /\ t[i] = s[i + 1]
      BY <1>1
    <2>2. i + 1 < n => i < n - 1 /\ i + 1 \in 1..Len(t)
      BY <1>1
    <2>3. i + 1 < n => t[i + 1] = s[(i + 1) + 1]
      BY <1>1, <2>2
    <2> QED
      BY <1>3, <2>1, <2>2, <2>3
  <1>5. 1 \in 1..n /\ (1 < n => 1 \in 1..Len(t) /\ t[1] = s[1 + 1] /\ Len(t) # 0)
    BY <1>1
  <1> QED
    BY <1>1, <1>2, <1>3, <1>4, <1>5 DEF CopyShape, t

LEMMA AbortedShape ==
    ASSUME NEW s \in Seq(Item), NEW n \in 0..Len(s), n < Len(s), s[n + 1] # "ready",
           \A i \in 1..Len(s) : (s[i] = "ready") <=> (i = Len(s)),
           CopyShape(s)
    PROVE  /\ CopyShape(Aborted(s, n))
           /\ Aborted(s, n) # <<>>
           /\ Aborted(s, n)[1] \in {s[1], "error"}
  <1> DEFINE t == Aborted(s, n)
  <1>1. /\ n \in Nat /\ Len(t) = n + 2
        /\ \A i \in 1..n : t[i] = s[i]
        /\ t = SubSeq(s, 1, n) \o <<"error", "ready">>
    BY CancelKeepsConversation DEF Aborted
  <1>2. t[n + 1] = "error" /\ t[n + 2] = "ready"
    <2>1. SubSeq(s, 1, n) \in Seq(Item) /\ Len(SubSeq(s, 1, n)) = n
      BY SubSeqProperties
    <2>2. <<"error", "ready">> \in Seq(Item) /\ Len(<<"error", "ready">>) = 2
      BY DEF Item, ResultKind
    <2>3. \A i \in 1..(n + 2) :
             t[i] = IF i <= n THEN SubSeq(s, 1, n)[i] ELSE <<"error", "ready">>[i - n]
      BY <1>1, <2>1, <2>2, ConcatProperties
    <2>4. n + 1 \in 1..(n + 2) /\ n + 2 \in 1..(n + 2) /\ ~(n + 1 <= n) /\ ~(n + 2 <= n)
          /\ (n + 1) - n = 1 /\ (n + 2) - n = 2
      BY <1>1
    <2> QED
      BY <2>3, <2>4
  <1>3. \A i \in 1..Len(s) :
          /\ s[i] = "copyin" => s[i + 1] = "error"
          /\ s[i] \in {"copyout", "row"} => s[i + 1] \in {"row", "command", "error"}
    BY DEF CopyShape
  <1>4. \A i \in 1..n : i \in 1..Len(s)
    OBVIOUS
  <1>5. t = <<>> => Len(t) = 0
    OBVIOUS
  <1> HIDE DEF t
  <1>6. ASSUME NEW i \in 1..n + 2
        PROVE  /\ t[i] = "copyin" => i < n + 2 /\ t[i + 1] = "error"
               /\ t[i] \in {"copyout", "row"} => i < n + 2 /\ t[i + 1] \in {"row", "command", "error"}
    <2>1. (i \in 1..n /\ i + 1 \in 1..n /\ i < n + 2) \/ (i = n /\ i \in 1..n) \/ i = n + 1 \/ i = n + 2
      BY <1>1
    <2>2. CASE i \in 1..n /\ i + 1 \in 1..n /\ i < n + 2
      BY <1>1, <1>3, <1>4, <2>2
    <2>3. CASE i = n /\ i \in 1..n
      BY <1>1, <1>2, <2>3
    <2>4. CASE i = n + 1
      BY <1>2, <2>4
    <2>5. CASE i = n + 2
      BY <1>2, <2>5
    <2> QED
      BY <2>1, <2>2, <2>3, <2>4, <2>5
  <1>7. t[1] \in {s[1], "error"}
    <2>1. 1 \in 1..n \/ 1 = n + 1
      BY <1>1
    <2> QED
      BY <1>1, <1>2, <2>1
  <1> QED
    BY <1>1, <1>5, <1>6, <1>7 DEF CopyShape, t

\* Whichever item Execute takes.
LEMMA TakeKeepsShape ==
    ASSUME IInv, KInv, TakeItem
    PROVE  /\ CopyShape(stream')
           /\ Head(stream) = stream[1]
           /\ stream[1] = "copyin" => ErrorAhead'
           /\ stream[1] \in {"copyout", "row"} =>
                 stream' # <<>> /\ stream'[1] \in {"row", "command", "error"}
  <1>1. stream \in Seq(Item) /\ stream # <<>> /\ Head(stream) = stream[1]
    BY TakeItemKeeps DEF IInv, TypeOK, ConnTypeOK
  <1>2. stream' = Tail(stream)
    BY DEF TakeItem
  <1> QED
    BY <1>1, <1>2, TakenShape DEF KInv, ErrorAhead

\* A step of Execute that takes nothing from the conversation.
LEMMA StillKeepsKInv ==
    ASSUME IInv, RInv, KInv, stream' = stream,
           Refuse \/ CheckCancelled \/ Consume \/ Lost \/ CopyConsume
              \/ CopyLost \/ DrainConsume \/ SaveResult \/ OutOfLoop
    PROVE  KInv'
  <1> USE DEF KInv, RowsAhead, ErrorAhead, CopiesOverruled, Overruled, Loop
  <1>1. CASE Refuse \/ Lost \/ CopyLost \/ OutOfLoop
    <2>1. pc' = "after"
      BY <1>1 DEF Refuse, Lost, CopyLost, OutOfLoop, ReturnWith, ReturnCancelled, ConnectionLost
    <2> QED
      BY <2>1
  <1>2. CASE CheckCancelled
    <2>1. /\ pc = "top" /\ pc' = "consume" /\ result' = result
          /\ lastResult' = lastResult \/ lastResult' = NoResult
      BY <1>2 DEF CheckCancelled
    <2> QED
      BY <2>1 DEF NoResult
  <1>3. CASE Consume
    <2>1. /\ pc = "consume" /\ pc' \in {"top", "fetch", "lost"}
          /\ UNCHANGED <<result, lastResult>>
      BY <1>3 DEF Consume, localVars
    <2> QED
      BY <2>1
  <1>4. CASE CopyConsume
    <2>1. /\ pc = "copy_consume" /\ pc' \in {"copy", "copy_lost"}
          /\ UNCHANGED <<result, lastResult>>
      BY <1>4 DEF CopyConsume, localVars
    <2> QED
      BY <2>1
  <1>5. CASE DrainConsume
    <2>1. /\ pc = "drain"
          /\ \/ pc' = "after"
             \/ pc' \in {"drain_get", "out"} /\ UNCHANGED <<result, lastResult>>
      BY <1>5 DEF DrainConsume, ReturnCancelled
    <2> QED
      BY <2>1
  <1>6. CASE SaveResult
    <2>1. /\ pc = "save" /\ pc' = "top"
          /\ \/ result' = res /\ lastResult' = lastResult
             \/ result' = result /\ lastResult' = res
      BY <1>6 DEF SaveResult
    <2> QED
      BY <2>1
  <1> QED
    BY <1>1, <1>2, <1>3, <1>4, <1>5, <1>6

\* The steps that send the query or read its answer.
LEMMA ReadKeepsKInv ==
    ASSUME IInv, RInv, KInv,
           SendQuery \/ Fetch \/ DrainGet \/ CopyPoll \/ CopyEnd
    PROVE  KInv'
  <1> USE DEF RowsAhead, ErrorAhead, CopiesOverruled, Overruled, Loop
  <1>1. CASE SendQuery
    <2>1. Query \in Queries
      BY <1>1, Current DEF IInv, SendQuery, InExecute
    <2>2. CopyShape(stream')
      BY <1>1, <2>1, QueriesAssumption, SentShape DEF SendQuery, PQsendQuery
    <2>3. pc' = "top" /\ result' = NoResult /\ lastResult' = NoResult
      BY <1>1 DEF SendQuery, localVars, RInv, LocalsAreOld
    <2> QED
      BY <2>2, <2>3 DEF KInv, NoResult
  <1>2. CASE Fetch
    <2>1. /\ pc = "fetch" /\ Head(stream) = stream[1] /\ CopyShape(stream')
          /\ lastResult' = lastResult
          /\ stream[1] = "copyin" => ErrorAhead'
          /\ stream[1] = "copyout" =>
                 stream' # <<>> /\ stream'[1] \in {"row", "command", "error"}
          /\ result.kind # "copyout" /\ lastResult.kind # "copyout"
          /\ result.kind = "copyin" => stream[1] = "error"
          /\ lastResult.kind = "copyin" => stream[1] = "error"
      BY <1>2, TakeKeepsShape DEF Fetch, KInv
    <2>2. CASE stream[1] = "ready"
      <3>1. pc' = "out" /\ result' = result
        BY <1>2, <2>1, <2>2 DEF Fetch
      <3> QED
        BY <2>1, <2>2, <3>1 DEF KInv
    <2>3. CASE stream[1] = "error"
      <3>1. pc' = "drain" /\ result'.kind = "error"
        BY <1>2, <2>1, <2>3 DEF Fetch, NewResult
      <3> QED
        BY <2>1, <3>1 DEF KInv
    <2>4. CASE stream[1] = "copyout"
      <3>1. pc' = "copy" /\ result' = result
        BY <1>2, <2>1, <2>4 DEF Fetch
      <3> QED
        BY <2>1, <2>4, <3>1 DEF KInv
    <2>5. CASE stream[1] \in {"copyin", "tuples", "command"}
      <3>1. pc' = "save" /\ result' = result /\ res'.kind = stream[1]
        BY <1>2, <2>1, <2>5 DEF Fetch, NewResult
      <3> QED
        BY <2>1, <2>5, <3>1 DEF KInv
    <2> QED
      BY <1>2, <2>1, <2>2, <2>3, <2>4, <2>5 DEF Fetch
  <1>3. CASE DrainGet
    <2>1. /\ pc = "drain" \/ pc = "drain_get"
          /\ pc' \in {"drain", "out"}
          /\ UNCHANGED <<result, lastResult>>
      BY <1>3 DEF DrainGet, localVars
    <2>2. CopyShape(stream')
      <3>1. CASE TakeItem
        BY <3>1, TakeKeepsShape
      <3>2. CASE stream' = <<>>
        BY <3>2 DEF CopyShape
      <3> QED
        BY <1>3, <3>1, <3>2 DEF DrainGet, ReadDead
    <2> QED
      BY <2>1, <2>2 DEF KInv
  <1>4. CASE CopyPoll
    <2>1. /\ pc = "copy" /\ UNCHANGED <<result, lastResult>>
          /\ stream # <<>> /\ stream[1] \in {"row", "command", "error"}
          /\ pc' \in {"copy", "copy_consume", "copy_end"}
      BY <1>4 DEF CopyPoll, KInv
    <2>2. CASE stream' = stream
      BY <2>1, <2>2 DEF KInv
    <2>3. CASE TakeItem /\ Head(stream) = "row"
      BY <2>1, <2>3, TakeKeepsShape DEF KInv
    <2> QED
      BY <1>4, <2>2, <2>3 DEF CopyPoll, connVars
  <1>5. CASE CopyEnd
    <2>1. /\ pc = "copy_end" /\ UNCHANGED <<result, lastResult>>
          /\ stream # <<>> /\ stream[1] \in {"command", "error"}
          /\ result.kind \notin {"copyin", "copyout"}
          /\ lastResult.kind \notin {"copyin", "copyout"}
      BY <1>5 DEF CopyEnd, KInv, IInv, CopyEndSeen
    <2>2. CopyShape(stream')
      <3>1. CASE TakeItem
        BY <3>1, TakeKeepsShape
      <3>2. CASE stream' = <<>>
        BY <3>2 DEF CopyShape
      <3> QED
        BY <1>5, <3>1, <3>2 DEF CopyEnd, ReadDead
    <2>3. pc' = "save" /\ res'.kind \in {"command", "error"}
      <3>1. CASE TakeItem
        <4>1. Head(stream) = stream[1] /\ sent > 0
          BY <3>1, TakeKeepsShape DEF TakeItem
        <4> QED
          BY <1>5, <2>1, <4>1 DEF CopyEnd, ReadDead, NewResult, IInv, TypeOK
      <3>2. CASE ~TakeItem
        BY <1>5, <3>2 DEF CopyEnd, NewResult
      <3> QED
        BY <3>1, <3>2
    <2> QED
      BY <2>1, <2>2, <2>3 DEF KInv
  <1> QED
    BY <1>1, <1>2, <1>3, <1>4, <1>5

LEMMA RestKeepsKInv ==
    ASSUME IInv, KInv,
           StartQuery \/ NothingQueued \/ AfterExecute \/ LoopOrExit \/ Owner
              \/ Session \/ UNCHANGED vars
    PROVE  KInv'
  <1>1. CASE StartQuery \/ NothingQueued \/ AfterExecute \/ LoopOrExit \/ Destroy
    <2>1. stream' = stream
      BY <1>1 DEF StartQuery, NothingQueued, AfterExecute, LoopOrExit, Destroy, connVars
    <2>2. pc' \notin Loop
      BY <1>1 DEF StartQuery, NothingQueued, AfterExecute, LoopOrExit, Destroy, Loop
    <2> QED
      BY <2>1, <2>2 DEF KInv, RowsAhead, CopiesOverruled, Overruled, Loop
  <1>2. CASE (AddQuery \/ CancelExecution \/ HandleEvent \/ Session \/ UNCHANGED vars)
              /\ stream' = stream
    <2>1. UNCHANGED <<pc, res, result, lastResult>>
      BY <1>2
      DEF AddQuery, CancelExecution, HandleEvent, Session, InSession, vars, localVars
    <2> QED
      BY <1>2, <2>1 DEF KInv, RowsAhead, CopiesOverruled, Overruled, ErrorAhead
  <1>3. CASE Session /\ ServerCancel
    <2>1. /\ stream' = Aborted(stream, sent)
          /\ stream \in Seq(Item) /\ sent \in 0..Len(stream)
          /\ sent < Len(stream) /\ stream[sent + 1] # "ready"
      BY <1>3 DEF ServerCancel, Aborted, IInv, TypeOK, ConnTypeOK
    <2>2. CopyShape(stream') /\ stream' # <<>> /\ stream'[1] \in {stream[1], "error"}
      BY <2>1, AbortedShape DEF KInv, IInv, Conversation
    <2>3. UNCHANGED <<pc, res, result, lastResult>>
      BY <1>3 DEF Session, InSession, localVars
    <2> QED
      BY <2>2, <2>3 DEF KInv, RowsAhead, CopiesOverruled, Overruled, ErrorAhead
  <1>4. AddQuery \/ CancelExecution \/ HandleEvent \/ (Session /\ ~ServerCancel) \/ UNCHANGED vars
          => stream' = stream
    BY DEF AddQuery, CancelExecution, HandleEvent, Session, InSession, Environment,
           ServerStart, ServerSend, NetDrop, vars, connVars
  <1> QED
    BY <1>1, <1>2, <1>3, <1>4 DEF Owner

LEMMA NextKInv == IInv /\ RInv /\ KInv /\ [Next]_vars => KInv'
  <1> SUFFICES ASSUME IInv, RInv, KInv, [Next]_vars PROVE KInv'
    OBVIOUS
  <1>1. CASE Refuse \/ CheckCancelled \/ Consume \/ Lost \/ CopyConsume
               \/ CopyLost \/ DrainConsume \/ SaveResult \/ OutOfLoop
    <2>1. stream' = stream
      BY <1>1
      DEF Refuse, CheckCancelled, Consume, Lost, CopyConsume, CopyLost,
          DrainConsume, SaveResult, OutOfLoop, PQconsumeInput, ConsumeFails, connVars
    <2> QED
      BY <1>1, <2>1, StillKeepsKInv
  <1> QED
    BY <1>1, ReadKeepsKInv, RestKeepsKInv DEF Next, Worker
-----------------------------------------------------------------------------
(* A single query                                                          *)

Failures == {"conn_lost", "string_invalid", "send_query", "consume_input"}
FinalCode == Failures \cup {"tuples", "command", "error", "cancelled"}

\* The thread has its one query until it is deleted, runs it once, and ends.
SingleQuery ==
    /\ pc # "deleted" => Len(queries) = 1
    /\ currIndex = IF pc = "entry" THEN 0 ELSE 1

\* The query is answered with a code that QueryJob knows.
CodeIsFinal == Finished(1) => rc[1] \in FinalCode

QInv == SingleQuery /\ CodeIsFinal

\* A way out of Execute: a cancelled query says so, unless it failed before
\* it was sent, and the outcome of one that was not cancelled is no COPY.
AnswersQuery ==
    /\ pc \in InExecute
    /\ UNCHANGED <<queries, currIndex, cancelled>>
    /\ \/ cancelled /\ ReturnCancelled
       \/ \E code \in Failures : ReturnWith(code)
       \/ ~cancelled /\ \E code \in {"tuples", "command", "error"} : ReturnWith(code)

LEMMA AnswerShapes ==
    ASSUME IInv, KInv,
           Refuse \/ SendQuery \/ CheckCancelled \/ Consume \/ Lost \/ Fetch
              \/ DrainConsume \/ DrainGet \/ CopyPoll \/ CopyConsume \/ CopyLost
              \/ CopyEnd \/ SaveResult \/ OutOfLoop
    PROVE  AnswersQuery \/ (Runs /\ UNCHANGED <<queries, cancelled>>)
  <1>1. UNCHANGED <<queries, currIndex, cancelled>>
    BY DEF Refuse, SendQuery, CheckCancelled, Consume, Lost, Fetch, DrainConsume,
           DrainGet, CopyPoll, CopyConsume, CopyLost, CopyEnd, SaveResult,
           OutOfLoop, queryVars
  <1>2. CASE Refuse
    <2>1. pc \in InExecute /\ \E code \in Failures : ReturnWith(code)
      BY <1>2 DEF Refuse, InExecute, Failures
    <2> QED
      BY <1>1, <2>1 DEF AnswersQuery
  <1>3. CASE Lost \/ CopyLost
    <2>1. pc \in InExecute
      BY <1>3 DEF Lost, CopyLost, InExecute, Loop
    <2>2. (cancelled /\ ReturnCancelled) \/ \E code \in Failures : ReturnWith(code)
      BY <1>3 DEF Lost, CopyLost, ConnectionLost, Failures
    <2> QED
      BY <1>1, <2>1, <2>2 DEF AnswersQuery
  <1>4. CASE DrainConsume /\ pc' = "after"
    <2>1. pc \in InExecute /\ cancelled /\ ReturnCancelled
      BY <1>4 DEF DrainConsume, InExecute, Loop
    <2> QED
      BY <1>1, <2>1 DEF AnswersQuery
  <1>5. CASE OutOfLoop
    <2>1. pc = "out" /\ pc \in InExecute
      BY <1>5 DEF OutOfLoop, InExecute, Loop
    <2>2. CASE cancelled
      BY <1>1, <1>5, <2>1, <2>2 DEF OutOfLoop, AnswersQuery
    <2>3. CASE ~cancelled
      <3> DEFINE code == IF Outcome = NoResult THEN "error" ELSE Outcome.kind
      <3>1. ReturnWith(code)
        BY <1>5, <2>3 DEF OutOfLoop
      <3>2. Outcome \in Result \cup {NoResult}
        BY DEF Outcome, IInv, TypeOK
      <3>3. Outcome.kind \notin {"copyin", "copyout"}
        BY <2>1 DEF Outcome, KInv, CopiesOverruled, Overruled, Loop, NoResult
      <3>4. code \in {"tuples", "command", "error"}
        BY <3>2, <3>3 DEF Result, ResultKind
      <3> HIDE DEF code
      <3> QED
        BY <1>1, <2>1, <2>3, <3>1, <3>4 DEF AnswersQuery
    <2> QED
      BY <2>2, <2>3
  <1>6. CASE Returns /\ ~(Refuse \/ Lost \/ CopyLost \/ OutOfLoop \/ DrainConsume)
    <2>1. pc' = "after"
      BY <1>6 DEF Returns, ReturnWith, ReturnCancelled
    <2>2. FALSE
      BY <1>6, <2>1
      DEF SendQuery, CheckCancelled, Consume, Fetch, DrainGet, CopyPoll,
          CopyConsume, CopyEnd, SaveResult
    <2> QED
      BY <2>2
  <1>7. CASE Returns /\ DrainConsume
    <2>1. pc' = "after"
      BY <1>7 DEF Returns, ReturnWith, ReturnCancelled
    <2> QED
      BY <1>4, <1>7, <2>1
  <1> QED
    BY <1>1, <1>2, <1>3, <1>5, <1>6, <1>7, LoopShapes

LEMMA FirstIndex == 1 \in Index
  BY MaxQueriesAssumption DEF Index

LEMMA InitQInv == ASSUME ~MultiQueries, Init PROVE QInv
  BY DEF Init, QInv, SingleQuery, CodeIsFinal, Finished

LEMMA AnsweredCode ==
    ASSUME IInv, QInv, NEW code \in ReturnCode, SetRc(code), pc \in InExecute
    PROVE  rc'[1] = code /\ currIndex = 1
  <1>1. currIndex = 1
    BY DEF QInv, SingleQuery, InExecute, Loop
  <1> QED
    BY <1>1, FirstIndex DEF SetRc, IInv, TypeOK

\* What each step does to the query as QueryJob sees it.
LEMMA NextQInv ==
    ASSUME ~MultiQueries, IInv, KInv, QInv, [Next]_vars
    PROVE  QInv'
  <1>1. CASE StartQuery
    <2>1. pc = "entry" /\ pc' = "execute" /\ currIndex' = currIndex + 1 /\ queries' = queries
      BY <1>1 DEF StartQuery
    <2> QED
      BY <2>1 DEF QInv, SingleQuery, CodeIsFinal, Finished, Between
  <1>2. CASE NothingQueued
    BY <1>2 DEF NothingQueued, QInv, SingleQuery
  <1>3. CASE AfterExecute \/ LoopOrExit
    <2>1. /\ pc \in {"after", "check"} /\ pc' \in {"check", "exited"}
          /\ UNCHANGED <<queries, currIndex, rc>>
      BY <1>3 DEF AfterExecute, LoopOrExit, Stop, queryVars
    <2> QED
      BY <2>1 DEF QInv, SingleQuery, CodeIsFinal, Finished, Between
  <1>4. CASE Destroy
    BY <1>4 DEF Destroy, QInv, SingleQuery, CodeIsFinal, Finished, Between
  <1>5. CASE CancelExecution \/ HandleEvent \/ Session \/ UNCHANGED vars
    <2>1. UNCHANGED <<queries, currIndex, rc, pc>>
      BY <1>5 DEF CancelExecution, HandleEvent, Session, InSession, vars, queryVars
    <2> QED
      BY <2>1 DEF QInv, SingleQuery, CodeIsFinal, Finished
  <1>6. CASE Runs /\ UNCHANGED <<queries, cancelled>>
    <2>1. pc' \in InExecute /\ pc \in InExecute /\ UNCHANGED <<queries, currIndex>>
      BY <1>6 DEF Runs
    <2> QED
      BY <2>1 DEF QInv, SingleQuery, CodeIsFinal, Finished, InExecute, Loop, Between
  <1>7. CASE AnswersQuery
    <2>1. \E code \in FinalCode : SetRc(code)
      BY <1>7 DEF AnswersQuery, ReturnWith, ReturnCancelled, FinalCode
    <2>2. rc'[1] \in FinalCode
      BY <1>7, <2>1, AnsweredCode DEF AnswersQuery, FinalCode, Failures, ReturnCode
    <2>3. pc \in InExecute /\ pc' = "after" /\ UNCHANGED <<queries, currIndex>>
      BY <1>7 DEF AnswersQuery, ReturnWith, ReturnCancelled
    <2> QED
      BY <2>2, <2>3 DEF QInv, SingleQuery, CodeIsFinal, InExecute, Loop
  <1>8. CASE AddQuery
    BY <1>8 DEF AddQuery
  <1> QED
    BY <1>1, <1>2, <1>3, <1>4, <1>5, <1>6, <1>7, <1>8, AnswerShapes
    DEF Next, Worker, Owner

-----------------------------------------------------------------------------
(* The refinement                                                          *)

LEMMA InitIsJobInit ==
    ASSUME ~MultiQueries, Init
    PROVE  Job!JobInit
  <1>1. ~Finished(1)
    BY DEF Init, Finished
  <1> QED
    BY <1>1, FirstIndex DEF Init, Job!JobInit, JobPhase, JobCode

\* JobPhase and JobCode by the program counter.
LEMMA JobView ==
    ASSUME IInv, QInv
    PROVE  /\ pc \in InExecute \cup {"entry"} => JobPhase = "running" /\ JobCode = "none"
           /\ pc \in {"after", "check"} => JobPhase = "answered"
           /\ pc \in {"exited", "deleted"} => JobPhase = "ended"
           /\ pc \in {"after", "check", "exited", "deleted"} =>
                 JobCode = IF rc[1] \in Failures THEN "failed" ELSE rc[1]
           /\ raised[1] \in Nat
  <1>1. raised[1] \in Nat
    BY FirstIndex DEF IInv, TypeOK
  <1>2. pc \in InExecute \cup {"entry"} => ~Finished(1)
    BY DEF QInv, SingleQuery, Finished, InExecute, Loop, Between
  <1>3. pc \in {"after", "check", "exited", "deleted"} => Finished(1)
    BY DEF QInv, SingleQuery, Finished, Between
  <1>4. pc \in InExecute \cup {"entry"} => pc \notin {"exited", "deleted"}
    BY DEF InExecute, Loop
  <1> QED
    BY <1>1, <1>2, <1>3, <1>4 DEF JobPhase, JobCode, Failures

LEMMA AnswerIsJobAnswer ==
    ASSUME HasCaller, EventOnCancellation, IInv, IInv', QInv, QInv', AnswersQuery
    PROVE  Job!JobNext
  <1>1. pc \in InExecute /\ pc' = "after" /\ cancelled' = cancelled /\ currIndex = 1
    BY DEF AnswersQuery, ReturnWith, ReturnCancelled, QInv, SingleQuery, InExecute, Loop
  <1>2. JobPhase = "running" /\ JobCode = "none"
    BY <1>1, JobView
  <1>3. JobPhase' = "answered" /\ JobCode' = IF rc'[1] \in Failures THEN "failed" ELSE rc'[1]
    <2>1. Finished(1)'
      BY <1>1 DEF Finished, QInv, SingleQuery
    <2> QED
      BY <1>1, <2>1 DEF JobPhase, JobCode, Failures
  <1>4. raised'[1] = raised[1] + 1
    <2>1. RaiseEvent
      BY DEF AnswersQuery, ReturnWith, ReturnCancelled
    <2> QED
      BY <1>1, <2>1, FirstIndex DEF RaiseEvent, IInv, TypeOK
  <1>5. \/ cancelled /\ JobCode' = "cancelled"
        \/ JobCode' = "failed"
        \/ ~cancelled /\ JobCode' \in {"tuples", "command", "error"}
    <2>1. CASE cancelled /\ ReturnCancelled
      <3>1. rc'[1] = "cancelled"
        BY <1>1, <2>1, AnsweredCode DEF ReturnCancelled, ReturnCode
      <3> QED
        BY <1>3, <2>1, <3>1 DEF Failures
    <2>2. CASE \E code \in Failures : ReturnWith(code)
      <3>1. rc'[1] \in Failures
        BY <1>1, <2>2, AnsweredCode DEF ReturnWith, ReturnCode, Failures
      <3> QED
        BY <1>3, <3>1
    <2>3. CASE ~cancelled /\ \E code \in {"tuples", "command", "error"} : ReturnWith(code)
      <3>1. rc'[1] \in {"tuples", "command", "error"}
        BY <1>1, <2>3, AnsweredCode DEF ReturnWith, ReturnCode
      <3> QED
        BY <1>3, <2>3, <3>1 DEF Failures
    <2> QED
      BY <2>1, <2>2, <2>3 DEF AnswersQuery
  <1>6. \E c \in Job!Answers : Job!Answer(c)
    BY <1>1, <1>2, <1>3, <1>4, <1>5 DEF Job!Answers, Job!Answer
  <1> QED
    BY <1>6 DEF Job!JobNext

\* A step the window does not see.
LEMMA SameView ==
    ASSUME IInv, QInv, QInv',
           UNCHANGED <<rc, raised, cancelled>>,
           \/ pc' = pc /\ currIndex' = currIndex
           \/ pc = "after" /\ pc' = "check"
           \/ pc = "exited" /\ pc' = "deleted"
    PROVE  UNCHANGED Job!jobVars
  <1>1. Finished(1)' <=> Finished(1)
    BY DEF QInv, SingleQuery, Finished, Between
  <1> QED
    BY <1>1 DEF Job!jobVars, JobPhase, JobCode
\* A step before the answer, which leaves it open.
LEMMA StillRunning ==
    ASSUME IInv, QInv, QInv',
           pc \in InExecute \cup {"entry"}, pc' \in InExecute \cup {"entry"},
           UNCHANGED <<raised, cancelled>>
    PROVE  UNCHANGED Job!jobVars
  <1>1. ~Finished(1) /\ pc \notin {"exited", "deleted"}
    BY DEF QInv, SingleQuery, Finished, InExecute, Loop, Between
  <1>2. ~Finished(1)' /\ pc' \notin {"exited", "deleted"}
    BY DEF QInv, SingleQuery, Finished, InExecute, Loop, Between
  <1> QED
    BY <1>1, <1>2 DEF Job!jobVars, JobPhase, JobCode

LEMMA StepIsJobStep ==
    ASSUME ~MultiQueries, HasCaller, EventOnCancellation,
           IInv, IInv', KInv, QInv, QInv', [Next]_vars
    PROVE  [Job!JobNext]_Job!jobVars
  <1>1. CASE StartQuery
    <2>1. /\ pc = "entry" /\ pc' \in InExecute
          /\ UNCHANGED <<raised, cancelled>>
      BY <1>1 DEF StartQuery, InExecute
    <2> QED
      BY <2>1, StillRunning
  <1>2. CASE NothingQueued
    BY <1>2 DEF NothingQueued, QInv, SingleQuery
  <1>3. CASE AfterExecute
    BY <1>3, SameView DEF AfterExecute, queryVars
  <1>4. CASE LoopOrExit
    <2>1. /\ pc = "check" /\ pc' = "exited"
          /\ UNCHANGED <<rc, currIndex, cancelled, raised>>
      BY <1>4 DEF LoopOrExit, Stop, queryVars
    <2>2. Finished(1) /\ Finished(1)'
      BY <2>1 DEF QInv, SingleQuery, Finished, Between
    <2>3. Job!End
      BY <2>1, <2>2 DEF Job!End, JobPhase, JobCode
    <2> QED
      BY <2>3 DEF Job!JobNext
  <1>5. CASE Destroy
    BY <1>5, SameView DEF Destroy
  <1>6. CASE HandleEvent \/ Session \/ UNCHANGED vars
    <2>1. UNCHANGED <<rc, raised, cancelled, pc, currIndex>>
      BY <1>6 DEF HandleEvent, Session, InSession, vars
    <2> QED
      BY <2>1, SameView
  <1>7. CASE CancelExecution
    <2>1. /\ ~cancelled /\ cancelled' = TRUE
          /\ UNCHANGED <<pc, currIndex, rc, raised>>
      BY <1>7 DEF CancelExecution, queryVars
    <2>2. Job!Cancel
      BY <2>1 DEF Job!Cancel, JobPhase, JobCode, Finished
    <2> QED
      BY <2>2 DEF Job!JobNext
  <1>8. CASE Runs /\ UNCHANGED <<queries, cancelled>>
    <2>1. pc \in InExecute /\ pc' \in InExecute /\ UNCHANGED <<raised, cancelled>>
      BY <1>8 DEF Runs
    <2> QED
      BY <2>1, StillRunning
  <1>9. CASE AnswersQuery
    BY <1>9, AnswerIsJobAnswer
  <1>10. CASE AddQuery
    BY <1>10 DEF AddQuery
  <1> QED
    BY <1>1, <1>2, <1>3, <1>4, <1>5, <1>6, <1>7, <1>8, <1>9, <1>10, AnswerShapes
    DEF Next, Worker, Owner

\* A pgQueryThread with one query, an event handler, and the event on
\* cancellation switched on, as the query tool makes it, is a QueryJob: one
\* answer, one event with it, the end behind both, and no success once it
\* was cancelled before the answer.
THEOREM ThreadIsJob ==
    ASSUME ~MultiQueries, HasCaller, EventOnCancellation
    PROVE  Spec => ImplementsJob
  <1>1. Init => IInv /\ RInv /\ KInv /\ QInv /\ Job!JobInit
    BY InitIInv, InitRInv, InitKInv, InitQInv, InitIsJobInit
  <1>2. IInv /\ RInv /\ KInv /\ QInv /\ [Next]_vars => (IInv /\ RInv /\ KInv /\ QInv)'
    BY NextIInv, NextRInv, NextKInv, NextQInv
  <1>3. IInv /\ KInv /\ QInv /\ IInv' /\ QInv' /\ [Next]_vars => [Job!JobNext]_Job!jobVars
    BY StepIsJobStep
  <1> QED
    BY <1>1, <1>2, <1>3, PTL DEF Spec, ImplementsJob, Job!JobSpec

-----------------------------------------------------------------------------
(* Nobody waits for somebody who waits for him                             *)

\* An error ends a command, and rows come behind a COPY_OUT only.
AnswerShape(s) ==
    \A i \in 1..Len(s) :
        /\ s[i] = "error" => i = Len(s) - 1
        /\ s[i] = "row" /\ i > 1 => s[i - 1] \in {"copyout", "row"}

\* Only the copy loop finds rows, and the drain loop nothing but the end.
NothingUnexpected ==
    /\ pc \in Polling \cup {"save"} /\ stream # <<>> => stream[1] # "row"
    /\ pc \in {"drain", "drain_get"} => Len(stream) <= 1
    /\ pc = "fetch" => buffered > 0

\* The conversation is left at its end only.
EndNotSeen == link = "up" /\ pc \in Loop \ {"out"} => stream # <<>>

\* The backend is at work as long as it owes an item, and waits for COPY
\* data only while Execute can see that.
BackendAtWork ==
    /\ link = "up" /\ sent < Len(stream) => backend # "idle"
    /\ copyWait => sent > 0 /\ stream[sent] = "copyin"

VInv == AnswerShape(stream) /\ NothingUnexpected /\ EndNotSeen /\ BackendAtWork

LEMMA InitVInv == Init => VInv
  BY DEF Init, ConnInit, VInv, AnswerShape, NothingUnexpected, Polling, EndNotSeen,
         BackendAtWork, Loop

LEMMA SentAnswer ==
    ASSUME NEW s \in Script
    PROVE  /\ AnswerShape(Append(s, "ready"))
           /\ Append(s, "ready") # <<>>
           /\ Append(s, "ready")[1] # "row"
  <1> DEFINE t == Append(s, "ready")
             n == Len(s)
  <1>1. /\ s \in Seq(Item \ {"ready"}) /\ n \in Nat /\ n > 0
        /\ s[1] # "row"
        /\ \A i \in 1..n - 1 : s[i] # "error" /\ (s[i + 1] = "row" => s[i] \in {"copyout", "row"})
    BY EmptySeq DEF Script
  <1>2. /\ Len(t) = n + 1 /\ t[n + 1] = "ready" /\ t # <<>>
        /\ \A i \in 1..n : t[i] = s[i]
    BY <1>1, AppendProperties
  <1> HIDE DEF t, n
  <1>3. ASSUME NEW i \in 1..n + 1
        PROVE  /\ t[i] = "error" => i = n
               /\ t[i] = "row" /\ i > 1 => t[i - 1] \in {"copyout", "row"}
    <2>1. i \in 1..n - 1 \/ i = n \/ i = n + 1
      BY <1>1
    <2>2. i \in 1..n => t[i] = s[i]
      BY <1>2
    <2>3. i \in 1..n - 1 => i \in 1..n
      BY <1>1
    <2>4. t[i] = "error" => i = n
      BY <1>1, <1>2, <2>1, <2>2, <2>3
    <2>5. ASSUME t[i] = "row", i > 1
          PROVE  t[i - 1] \in {"copyout", "row"}
      <3>1. i \in 1..n
        BY <1>1, <1>2, <2>1, <2>5
      <3>2. i - 1 \in 1..n - 1 /\ (i - 1) + 1 = i /\ i - 1 \in 1..n
        BY <1>1, <2>5, <3>1
      <3> QED
        BY <1>1, <1>2, <2>2, <2>5, <3>1, <3>2
    <2> QED
      BY <2>4, <2>5
  <1>4. 1 \in 1..n /\ (n + 1) - 1 = n
    BY <1>1
  <1> QED
    BY <1>1, <1>2, <1>3, <1>4 DEF AnswerShape, t

LEMMA TakenAnswer ==
    ASSUME NEW s \in Seq(Item), s # <<>>, AnswerShape(s)
    PROVE  /\ AnswerShape(Tail(s))
           /\ s[1] = "error" => Len(Tail(s)) <= 1
           /\ s[1] \notin {"copyout", "row"} /\ Tail(s) # <<>> => Tail(s)[1] # "row"
  <1> DEFINE n == Len(s)
             t == Tail(s)
  <1>1. n \in Nat /\ n > 0 /\ Len(t) = n - 1 /\ \A i \in 1..Len(t) : t[i] = s[i + 1]
    BY HeadTailProperties, EmptySeq
  <1>2. \A i \in 1..n :
          /\ s[i] = "error" => i = n - 1
          /\ s[i] = "row" /\ i > 1 => s[i - 1] \in {"copyout", "row"}
    BY DEF AnswerShape
  <1>3. t \in Seq(Item) /\ (t # <<>> => Len(t) # 0)
    BY HeadTailProperties, EmptySeq
  <1> HIDE DEF n, t
  <1>4. ASSUME NEW i \in 1..n - 1
        PROVE  /\ t[i] = "error" => i = (n - 1) - 1
               /\ t[i] = "row" /\ i > 1 => t[i - 1] \in {"copyout", "row"}
    <2>1. i + 1 \in 1..n /\ t[i] = s[i + 1] /\ i + 1 > 1 /\ (i + 1) - 1 = i
      BY <1>1
    <2>2. i > 1 => i - 1 \in 1..n - 1 /\ (i - 1) + 1 = i
      BY <1>1
    <2>3. i > 1 => t[i - 1] = s[(i - 1) + 1]
      BY <1>1, <2>2
    <2>4. t[i] = "error" => i + 1 = n - 1
      BY <1>2, <2>1
    <2>5. t[i] = "row" => s[i] \in {"copyout", "row"}
      BY <1>2, <2>1
    <2> QED
      BY <1>1, <2>2, <2>3, <2>4, <2>5
  <1>5. 1 \in 1..n /\ (s[1] = "error" => n - 1 <= 1)
    <2>1. 1 \in 1..n
      BY <1>1
    <2> QED
      BY <1>1, <1>2, <2>1
  <1>6. n - 1 # 0 => t[1] = s[2] /\ (s[2] = "row" => s[1] \in {"copyout", "row"})
    <2>1. n - 1 # 0 => 1 \in 1..n - 1 /\ 2 \in 1..n /\ 2 > 1 /\ 2 - 1 = 1 /\ 1 + 1 = 2
      BY <1>1
    <2> QED
      BY <1>1, <1>2, <2>1
  <1> QED
    BY <1>1, <1>3, <1>4, <1>5, <1>6 DEF AnswerShape, t

LEMMA AbortedAnswer ==
    ASSUME NEW s \in Seq(Item), NEW n \in 0..Len(s), n < Len(s), s[n + 1] # "ready",
           \A i \in 1..Len(s) : (s[i] = "ready") <=> (i = Len(s)),
           AnswerShape(s)
    PROVE  AnswerShape(Aborted(s, n))
  <1> DEFINE t == Aborted(s, n)
             m == Len(s)
  <1>1. /\ n \in Nat /\ Len(t) = n + 2
        /\ \A i \in 1..n : t[i] = s[i]
        /\ \A i \in 1..n + 2 : (t[i] = "ready") <=> (i = n + 2)
    BY CancelKeepsConversation
  <1>2. t[n + 1] = "error"
    <2>1. SubSeq(s, 1, n) \in Seq(Item) /\ Len(SubSeq(s, 1, n)) = n
      BY SubSeqProperties
    <2>2. <<"error", "ready">> \in Seq(Item) /\ Len(<<"error", "ready">>) = 2
      BY DEF Item, ResultKind
    <2>3. \A i \in 1..(n + 2) :
             t[i] = IF i <= n THEN SubSeq(s, 1, n)[i] ELSE <<"error", "ready">>[i - n]
      BY <1>1, <2>1, <2>2, ConcatProperties DEF Aborted
    <2>4. n + 1 \in 1..(n + 2) /\ ~(n + 1 <= n) /\ (n + 1) - n = 1
      BY <1>1
    <2> QED
      BY <2>3, <2>4
  <1>3. /\ m \in Nat /\ n + 1 \in 1..m /\ n + 1 # m
        /\ \A i \in 1..m :
              /\ s[i] = "error" => i = m - 1
              /\ s[i] = "row" /\ i > 1 => s[i - 1] \in {"copyout", "row"}
    <2>1. m \in Nat /\ n + 1 \in 1..m
      BY <1>1
    <2> QED
      BY <2>1 DEF AnswerShape
  <1> HIDE DEF t, m
  <1>4. ASSUME NEW i \in 1..n + 2
        PROVE  /\ t[i] = "error" => i = (n + 2) - 1
               /\ t[i] = "row" /\ i > 1 => t[i - 1] \in {"copyout", "row"}
    <2>1. (i \in 1..n /\ i \in 1..m /\ i # m - 1) \/ i = n + 1 \/ i = n + 2
      BY <1>1, <1>3
    <2>2. CASE i \in 1..n /\ i \in 1..m /\ i # m - 1
      <3>1. i > 1 => i - 1 \in 1..n
        BY <1>1, <2>2
      <3> QED
        BY <1>1, <1>3, <2>2, <3>1
    <2>3. CASE i = n + 1
      BY <1>1, <1>2, <2>3
    <2>4. CASE i = n + 2
      <3>1. t[i] = "ready"
        BY <1>1, <2>4
      <3> QED
        BY <3>1
    <2> QED
      BY <2>1, <2>2, <2>3, <2>4
  <1> QED
    BY <1>1, <1>4 DEF AnswerShape, t

\* Whichever item Execute takes.
LEMMA TakeKeepsAnswer ==
    ASSUME IInv, VInv, TakeItem
    PROVE  /\ AnswerShape(stream')
           /\ Head(stream) = stream[1]
           /\ stream[1] = "error" => Len(stream') <= 1
           /\ stream[1] # "ready" => stream' # <<>>
           /\ stream[1] \notin {"copyout", "row"} /\ stream' # <<>> => stream'[1] # "row"
           /\ link = "up" /\ sent' < Len(stream') => backend # "idle"
           /\ copyWait /\ stream[1] # "copyin" => sent' > 0 /\ stream'[sent'] = "copyin"
  <1> DEFINE n == Len(stream)
             t == Tail(stream)
  <1>1. /\ stream \in Seq(Item) /\ stream # <<>> /\ Head(stream) = stream[1]
        /\ n \in Nat /\ sent \in 0..n /\ sent > 0
        /\ stream' = t /\ sent' = sent - 1
    BY TakeItemKeeps DEF IInv, TypeOK, ConnTypeOK, TakeItem
  <1>2. Len(t) = n - 1 /\ t \in Seq(Item) /\ \A i \in 1..n - 1 : t[i] = stream[i + 1]
    BY <1>1, HeadTailProperties
  <1>3. /\ AnswerShape(stream')
        /\ stream[1] = "error" => Len(stream') <= 1
        /\ stream[1] \notin {"copyout", "row"} /\ stream' # <<>> => stream'[1] # "row"
    BY <1>1, TakenAnswer DEF VInv
  <1>4. stream[1] # "ready" => stream' # <<>>
    <2>1. (stream[1] = "ready") <=> (1 = n)
      <3>1. 1 \in 1..n
        BY <1>1
      <3> QED
        BY <3>1 DEF IInv, Conversation
    <2>2. stream' = <<>> => n - 1 = 0
      BY <1>1, <1>2
    <2> QED
      BY <1>1, <2>1, <2>2
  <1>5. link = "up" /\ sent' < Len(stream') => backend # "idle"
    <2>1. Len(stream') = n - 1
      BY <1>1, <1>2
    <2> QED
      BY <1>1, <2>1 DEF VInv, BackendAtWork
  <1>6. ASSUME copyWait, stream[1] # "copyin"
        PROVE  sent' > 0 /\ stream'[sent'] = "copyin"
    <2>1. stream[sent] = "copyin" /\ sent # 1
      BY <1>6 DEF VInv, BackendAtWork
    <2>2. sent - 1 \in 1..n - 1 /\ (sent - 1) + 1 = sent
      BY <1>1, <2>1
    <2>3. t[sent - 1] = stream[sent]
      BY <1>2, <2>2
    <2> QED
      BY <1>1, <2>1, <2>2, <2>3
  <1> QED
    BY <1>1, <1>3, <1>4, <1>5, <1>6

\* A step that leaves the conversation as it is.
LEMMA StillKeepsVInv ==
    ASSUME IInv, VInv, UNCHANGED <<stream, sent, link, backend, copyWait>>,
           pc' \in Polling \cup {"save"} => pc \in Polling \cup {"save"},
           pc' \in {"drain", "drain_get"} => pc \in {"drain", "drain_get"},
           pc' = "fetch" => buffered' > 0,
           pc' \in Loop \ {"out"} => pc \in Loop \ {"out"}
    PROVE  VInv'
  BY DEF VInv, NothingUnexpected, EndNotSeen, BackendAtWork

LEMMA WorkerKeepsVInv ==
    ASSUME IInv, VInv,
           Refuse \/ CheckCancelled \/ Consume \/ Lost \/ CopyConsume \/ CopyLost
              \/ DrainConsume \/ SaveResult \/ OutOfLoop \/ StartQuery
              \/ NothingQueued \/ AfterExecute \/ LoopOrExit \/ Destroy
    PROVE  VInv'
  <1>0. UNCHANGED <<stream, sent, link, backend, copyWait>>
    BY DEF Refuse, CheckCancelled, Consume, Lost, CopyConsume, CopyLost,
           DrainConsume, SaveResult, OutOfLoop, StartQuery, NothingQueued,
           AfterExecute, LoopOrExit, Destroy, PQconsumeInput, ConsumeFails,
           connVars, serverVars
  <1> USE DEF Polling, Loop
  <1>1. CASE Refuse \/ Lost \/ CopyLost \/ OutOfLoop \/ StartQuery \/ NothingQueued
               \/ AfterExecute \/ LoopOrExit \/ Destroy
    <2>1. pc' \in {"after", "execute", "check", "entry", "exited", "deleted"}
      BY <1>1
      DEF Refuse, Lost, CopyLost, OutOfLoop, ReturnWith, ReturnCancelled,
          ConnectionLost, StartQuery, NothingQueued, AfterExecute, LoopOrExit, Destroy
    <2> QED
      BY <1>0, <2>1, StillKeepsVInv
  <1>2. CASE CheckCancelled \/ SaveResult
    <2>1. pc \in {"top", "save"} /\ pc' \in {"top", "consume"}
      BY <1>2 DEF CheckCancelled, SaveResult
    <2> QED
      BY <1>0, <2>1, StillKeepsVInv
  <1>3. CASE Consume
    <2>1. pc = "consume" /\ pc' \in {"top", "fetch", "lost"}
      BY <1>3 DEF Consume
    <2>2. pc' = "fetch" => buffered' > 0
      BY <1>3 DEF Consume, PQconsumeInput, IInv, TypeOK, ConnTypeOK
    <2> QED
      BY <1>0, <2>1, <2>2, StillKeepsVInv
  <1>4. CASE CopyConsume \/ DrainConsume
    <2>1. \/ pc = "copy_consume" /\ pc' \in {"copy", "copy_lost"}
          \/ pc = "drain" /\ pc' \in {"drain_get", "out", "after"}
      BY <1>4 DEF CopyConsume, DrainConsume, ReturnCancelled
    <2> QED
      BY <1>0, <2>1, StillKeepsVInv
  <1> QED
    BY <1>1, <1>2, <1>3, <1>4

\* What is left of a drained conversation.
LEMMA OnlyOne ==
    ASSUME NEW s \in Seq(Item), s # <<>>, Len(s) <= 1
    PROVE  1 \in 1..Len(s) /\ 1 = Len(s)
  <1> DEFINE n == Len(s)
  <1>1. n \in Nat /\ n # 0 /\ n <= 1
    BY EmptySeq
  <1> HIDE DEF n
  <1>2. n = 1
    BY <1>1
  <1> QED
    BY <1>2 DEF n

LEMMA ReadKeepsVInv ==
    ASSUME IInv, KInv, VInv,
           SendQuery \/ Fetch \/ DrainGet \/ CopyPoll \/ CopyEnd
    PROVE  VInv'
  <1> USE DEF NothingUnexpected, EndNotSeen, BackendAtWork, Polling, Loop
  <1>1. CASE SendQuery
    <2>1. Query.script \in Script
      BY <1>1, CurrentScript DEF SendQuery, InExecute
    <2>2. AnswerShape(stream') /\ stream' # <<>> /\ stream'[1] # "row"
      BY <1>1, <2>1, SentAnswer DEF SendQuery, PQsendQuery
    <2>3. ~copyWait /\ copyWait' = copyWait
      BY <1>1 DEF SendQuery, PQsendQuery, CanSend, VInv, IInv, TypeOK, ConnTypeOK
    <2>4. pc' = "top" /\ link' = link /\ (link = "up" => backend' = "sent")
      BY <1>1 DEF SendQuery, PQsendQuery
    <2> QED
      BY <2>2, <2>3, <2>4 DEF VInv
  <1>2. CASE Fetch
    <2>1. /\ pc = "fetch" /\ TakeItem /\ Head(stream) = stream[1]
          /\ link' = link /\ backend' = backend
          /\ stream[1] # "row"
      BY <1>2, TakeKeepsAnswer, TakeItemKeeps DEF Fetch, serverVars, PQputCopyEnd, VInv
    <2>2. AnswerShape(stream') /\ (link = "up" /\ sent' < Len(stream') => backend # "idle")
      BY <2>1, TakeKeepsAnswer
    <2>3. copyWait' => sent' > 0 /\ stream'[sent'] = "copyin"
      <3>1. CASE stream[1] = "copyin"
        <4>1. ~copyWait'
          BY <1>2, <2>1, <3>1 DEF Fetch, PQputCopyEnd
        <4> QED
          BY <4>1
      <3>2. CASE stream[1] # "copyin"
        <4>1. copyWait' = copyWait
          BY <1>2, <2>1, <3>2 DEF Fetch, serverVars
        <4> QED
          BY <2>1, <3>2, <4>1, TakeKeepsAnswer
      <3> QED
        BY <3>1, <3>2
    <2>4. /\ pc' = "out" => stream[1] = "ready"
          /\ pc' = "drain" => stream[1] = "error"
          /\ pc' = "save" => stream[1] \notin {"copyout", "row"}
          /\ pc' \in {"out", "drain", "save", "copy"}
          /\ pc' # "out" => stream[1] # "ready"
      BY <1>2, <2>1 DEF Fetch
    <2>5. NothingUnexpected'
      BY <2>1, <2>4, TakeKeepsAnswer
    <2>6. EndNotSeen'
      BY <2>1, <2>4, TakeKeepsAnswer
    <2> QED
      BY <2>1, <2>2, <2>3, <2>5, <2>6 DEF VInv
  <1>3. CASE DrainGet
    <2>1. pc = "drain_get" /\ pc' \in {"drain", "out"} /\ Len(stream) <= 1
      BY <1>3 DEF DrainGet, VInv
    <2>2. CASE TakeItem /\ UNCHANGED serverVars
                /\ pc' = IF Head(stream) = "ready" THEN "out" ELSE "drain"
      <3>1. stream # <<>> /\ Head(stream) = stream[1] /\ stream \in Seq(Item)
        BY <2>2, TakeItemKeeps DEF IInv, TypeOK, ConnTypeOK
      <3>3. stream[1] = "ready"
        <4>1. 1 \in 1..Len(stream) /\ 1 = Len(stream)
          BY <2>1, <3>1, OnlyOne
        <4> QED
          BY <4>1 DEF IInv, Conversation
      <3>4. pc' = "out"
        BY <2>2, <3>1, <3>3
      <3>5. copyWait' => sent' > 0 /\ stream'[sent'] = "copyin"
        BY <2>2, <3>3, TakeKeepsAnswer DEF serverVars
      <3>6. AnswerShape(stream') /\ (link' = "up" /\ sent' < Len(stream') => backend' # "idle")
        BY <2>2, TakeKeepsAnswer DEF serverVars
      <3> QED
        BY <3>4, <3>5, <3>6 DEF VInv
    <2>3. CASE ReadDead /\ pc' = "drain"
      <3>1. /\ stream' = <<>> /\ Len(stream') = 0 /\ AnswerShape(stream') /\ link' # "up"
            /\ copyWait' = copyWait /\ ~copyWait
        BY <2>3 DEF ReadDead, AnswerShape, serverVars, VInv
      <3> QED
        BY <2>3, <3>1 DEF VInv
    <2> QED
      BY <1>3, <2>2, <2>3 DEF DrainGet
  <1>4. CASE CopyPoll
    <2>1. pc = "copy" /\ pc' \in {"copy", "copy_consume", "copy_end"}
          /\ UNCHANGED <<link, backend, copyWait>>
      BY <1>4 DEF CopyPoll, connVars
    <2>2. CASE UNCHANGED <<stream, sent>>
      BY <2>1, <2>2, StillKeepsVInv
    <2>3. CASE TakeItem /\ Head(stream) = "row"
      <3>1. /\ stream[1] = "row" /\ AnswerShape(stream') /\ stream' # <<>>
            /\ link = "up" /\ sent' < Len(stream') => backend # "idle"
            /\ copyWait => sent' > 0 /\ stream'[sent'] = "copyin"
        BY <2>3, TakeKeepsAnswer
      <3> QED
        BY <2>1, <3>1 DEF VInv
    <2> QED
      BY <1>4, <2>2, <2>3 DEF CopyPoll, connVars
  <1>5. CASE CopyEnd
    <2>1. /\ pc = "copy_end" /\ sent > 0
          /\ stream[1] \in {"command", "error"}
      BY <1>5 DEF CopyEnd, KInv, RowsAhead, IInv, CopyEndSeen, TypeOK, ConnTypeOK
    <2>2. TakeItem /\ Head(stream) = stream[1] /\ UNCHANGED serverVars /\ pc' = "save"
      <3>1. TakeItem /\ UNCHANGED serverVars
        BY <1>5, <2>1 DEF CopyEnd, ReadDead
      <3>2. Head(stream) = stream[1]
        BY <3>1, TakeKeepsAnswer
      <3> QED
        BY <1>5, <2>1, <3>1, <3>2 DEF CopyEnd, ReadDead
    <2>3. /\ AnswerShape(stream') /\ stream' # <<>> /\ stream'[1] # "row"
          /\ link = "up" /\ sent' < Len(stream') => backend # "idle"
          /\ copyWait => sent' > 0 /\ stream'[sent'] = "copyin"
      BY <2>1, <2>2, TakeKeepsAnswer
    <2> QED
      BY <2>2, <2>3 DEF VInv, serverVars
  <1> QED
    BY <1>1, <1>2, <1>3, <1>4, <1>5

LEMMA SessionKeepsVInv ==
    ASSUME IInv, KInv, VInv, Session
    PROVE  VInv'
  <1>1. UNCHANGED pc
    BY DEF Session, InSession
  <1>2. CASE ServerStart
    <2>1. UNCHANGED <<stream, sent, link, copyWait, buffered>> /\ backend' = "busy"
      BY <1>2 DEF ServerStart
    <2> QED
      BY <1>1, <2>1 DEF VInv, NothingUnexpected, EndNotSeen, BackendAtWork
  <1>3. CASE ServerSend
    <2>1. /\ UNCHANGED <<stream, link, buffered>> /\ sent' = sent + 1
          /\ sent \in 0..Len(stream) /\ sent < Len(stream)
          /\ copyWait' = (stream[sent + 1] = "copyin")
          /\ backend = "busy"
          /\ stream[sent + 1] # "ready" => backend' = backend
      BY <1>3 DEF ServerSend, IInv, TypeOK, ConnTypeOK
    <2>2. sent + 1 \in 1..Len(stream) /\ sent + 1 > 0
      BY <2>1
    <2>3. (stream[sent + 1] = "ready") <=> (sent + 1 = Len(stream))
      BY <2>2 DEF IInv, Conversation
    <2>4. link' = "up" /\ sent' < Len(stream') => backend' # "idle"
      BY <2>1, <2>3
    <2>5. copyWait' => sent' > 0 /\ stream'[sent'] = "copyin"
      BY <2>1, <2>2
    <2> QED
      BY <1>1, <2>1, <2>4, <2>5 DEF VInv, NothingUnexpected, EndNotSeen, BackendAtWork
  <1>4. CASE ServerCancel
    <2>1. /\ stream' = Aborted(stream, sent)
          /\ stream \in Seq(Item) /\ sent \in 0..Len(stream) /\ sent \in Nat
          /\ sent < Len(stream) /\ stream[sent + 1] # "ready"
          /\ \A i \in 1..Len(stream) : (stream[i] = "ready") <=> (i = Len(stream))
          /\ UNCHANGED <<link, sent, buffered, backend>> /\ backend = "busy" /\ ~copyWait'
      BY <1>4 DEF ServerCancel, Aborted, IInv, TypeOK, ConnTypeOK, Conversation
    <2>2. AnswerShape(stream')
      BY <2>1, AbortedAnswer DEF VInv
    <2>3. /\ Len(stream') = sent + 2
          /\ \A i \in 1..sent : stream'[i] = stream[i]
          /\ \A i \in 1..sent + 2 : (stream'[i] = "ready") <=> (i = sent + 2)
      BY <2>1, CancelKeepsConversation
    <2>4. stream' # <<>> /\ stream # <<>>
      BY <2>1, <2>3, EmptySeq
    <2>5. stream'[1] \in {stream[1], "error"}
      BY <2>1, AbortedShape DEF KInv
    <2>7. pc \notin {"drain", "drain_get"}
      <3>1. 1 <= sent + 1 /\ sent + 1 \in 1..Len(stream) /\ sent + 1 # Len(stream)
        BY <2>1
      <3>2. Len(stream) > 1
        BY <2>1, <3>1
      <3> QED
        BY <3>2 DEF VInv, NothingUnexpected
    <2>8. NothingUnexpected'
      BY <1>1, <2>1, <2>4, <2>5, <2>7 DEF VInv, NothingUnexpected
    <2> QED
      BY <1>1, <2>1, <2>2, <2>4, <2>8 DEF VInv, EndNotSeen, BackendAtWork
  <1>5. CASE NetDrop
    <2>1. UNCHANGED <<stream, buffered>> /\ link' # "up" /\ ~copyWait'
      BY <1>5 DEF NetDrop
    <2> QED
      BY <1>1, <2>1 DEF VInv, NothingUnexpected, EndNotSeen, BackendAtWork
  <1> QED
    BY <1>2, <1>3, <1>4, <1>5 DEF Session, InSession, Environment

LEMMA NextVInv == IInv /\ KInv /\ VInv /\ [Next]_vars => VInv'
  <1> SUFFICES ASSUME IInv, KInv, VInv, [Next]_vars PROVE VInv'
    OBVIOUS
  <1>1. CASE AddQuery \/ CancelExecution \/ HandleEvent \/ UNCHANGED vars
    <2>1. UNCHANGED <<stream, sent, link, backend, copyWait, buffered, pc>>
      BY <1>1 DEF AddQuery, CancelExecution, HandleEvent, vars, connVars
    <2> QED
      BY <2>1 DEF VInv, NothingUnexpected, EndNotSeen, BackendAtWork
  <1> QED
    BY <1>1, WorkerKeepsVInv, ReadKeepsVInv, SessionKeepsVInv DEF Next, Worker, Owner

\* Execute and the backend never both wait for the other: an item that
\* PQgetResult is asked for without blocking has arrived and is none that only
\* PQgetCopyData returns, and while nothing is on its way the backend still
\* has an item to send and does not wait for COPY data.
NeverWaitsInVain ==
    /\ pc = "fetch" => buffered > 0 /\ stream[1] # "row"
    /\ pc \in Loop \ {"out"} /\ link = "up" /\ sent = 0 =>
          stream # <<>> /\ backend # "idle" /\ ~copyWait

\* Whatever was queued and cancelled, the poll, the copy loop and the
\* blocking PQgetResult of Execute only ever wait for a backend that has the
\* next move: a COPY FROM STDIN, which this client cannot feed, and an error
\* do not leave both waiting.
THEOREM NoMutualWait == Spec => []NeverWaitsInVain
  <1>1. Init => IInv /\ RInv /\ KInv /\ VInv
    BY InitIInv, InitRInv, InitKInv, InitVInv
  <1>2. IInv /\ RInv /\ KInv /\ VInv /\ [Next]_vars => (IInv /\ RInv /\ KInv /\ VInv)'
    BY NextIInv, NextRInv, NextKInv, NextVInv
  <1>3. IInv /\ VInv => NeverWaitsInVain
    <2> SUFFICES ASSUME IInv, VInv PROVE NeverWaitsInVain
      OBVIOUS
    <2>1. stream # <<>> => 0 < Len(stream)
      BY EmptySeq DEF IInv, TypeOK, ConnTypeOK
    <2>2. pc = "fetch" => buffered > 0 /\ stream # <<>>
      BY DEF VInv, NothingUnexpected, IInv, TypeOK, ConnTypeOK
    <2> QED
      BY <2>1, <2>2
      DEF VInv, NothingUnexpected, EndNotSeen, BackendAtWork, NeverWaitsInVain, Polling
  <1> QED
    BY <1>1, <1>2, <1>3, PTL DEF Spec

=============================================================================
