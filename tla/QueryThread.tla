---------------------------- MODULE QueryThread ----------------------------
(***************************************************************************)
(* pgQueryThread (db/pgQueryThread.cpp): a joinable thread that runs the   *)
(* queries queued on it over one connection, posts a pgQueryResultEvent    *)
(* for each to the component that owns it, and may be cancelled from that  *)
(* component's thread at any moment.                                       *)
(*                                                                         *)
(* The worker is one process with a program counter: a step ends wherever  *)
(* the code reads m_cancelled again, calls into libpq, or hands something  *)
(* to another thread.  The owner (AddQuery, CancelExecution, the event     *)
(* handler, the destructor) and the session (module Connection) interleave *)
(* with it.  m_queriesLock is held while pc is in InExecute; AddQuery and  *)
(* CancelExecution do not take it, so it restricts nothing modelled here.  *)
(***************************************************************************)
EXTENDS Connection, FiniteSets

CONSTANTS
    Queries,             \* what may be queued: [script, nth, encodable]
    MaxQueries,          \* bound on the number of queued queries
    MultiQueries,        \* m_multiQueries: which constructor was used
    EventOnCancellation, \* m_eventOnCancellation
    HasCaller            \* m_caller is not NULL

\* A script is what the backend answers to the query string if left alone:
\* at least one result, an error last, COPY FROM STDIN refused by the client
\* and so answered by an error, and a COPY TO STDOUT closed by a completion
\* or an error.
Script ==
    {s \in Seq(Item \ {"ready"}) :
        /\ s # <<>>
        /\ s[1] # "row"
        /\ s[Len(s)] \in {"tuples", "command", "error"}
        /\ \A i \in 1 .. Len(s) - 1 :
              /\ s[i] # "error"
              /\ s[i] = "copyin" => i = Len(s) - 1 /\ s[i + 1] = "error"
              /\ s[i] \in {"copyout", "row"} => s[i + 1] \in {"row", "command", "error"}
              /\ s[i + 1] = "row" => s[i] \in {"copyout", "row"}}

ASSUME QueriesAssumption ==
    \A q \in Queries : /\ q.script \in Script
                       /\ q.nth \in Int
                       /\ q.encodable \in BOOLEAN
ASSUME MaxQueriesAssumption == MaxQueries \in Nat \ {0}
ASSUME ModesAssumption ==
    /\ MultiQueries \in BOOLEAN
    /\ EventOnCancellation \in BOOLEAN
    /\ HasCaller \in BOOLEAN

VARIABLES
    queries,       \* m_queries: what was queued, in order
    currIndex,     \* m_currIndex + 1; 0 before the first query
    rc,            \* m_returnCode of each query
    set,           \* m_resultSet of each query: the PGresult its pgSet owns
    cancelled,     \* m_cancelled
    events,        \* events posted to m_caller and not handled yet
    notice,        \* this thread's notice processor is registered
    pc,            \* where the worker is
    res,           \* Execute's local res
    result,        \* Execute's local result
    lastResult,    \* Execute's local lastResult
    retrieved,     \* Execute's local resultsRetrieved
    connCancelled, \* Execute's local connExecutionCancelled
    fetched,       \* history: results this query got from PQgetResult
    held,          \* history: PGresults obtained and not yet PQclear'ed or owned
    raised,        \* history: events posted for each query
    sentCancelled  \* history: queries sent although m_cancelled was set

queryVars == <<queries, currIndex, rc, set>>
localVars == <<res, result, lastResult, retrieved, connCancelled>>
ownerVars == <<queries, cancelled>>
vars == <<connVars, queries, currIndex, rc, set, cancelled, events, notice, pc,
          localVars, fetched, held, raised, sentCancelled>>

Index == 1..MaxQueries

\* A PGresult: the query it belongs to, its number among the results
\* PQgetResult returned for it, and its status.
Result == [q : Index, k : Nat \ {0}, kind : ResultKind]
NoResult == [q |-> 0, k |-> 0, kind |-> "none"]

\* m_returnCode: a PGresult status or a code of pgQueryResultEvent.  -2 is
\* both "not run yet" and PGQ_STRING_INVALID, -1 both the initial value and
\* PGQ_CONN_LOST; 0 and 1 are also what PQconsumeInput leaves behind.
ReturnCode == {"empty_query", "command", "tuples", "copyout", "copyin", "error",
               "conn_lost", "string_invalid", "send_query", "consume_input",
               "cancelled"}

Loop == {"top", "consume", "lost", "fetch", "drain", "drain_get", "copy",
         "copy_consume", "copy_lost", "copy_end", "save", "out"}
InExecute == Loop \cup {"execute"}
Between == {"entry", "check", "exited", "deleted"}

Init ==
    /\ ConnInit
    /\ IF MultiQueries THEN queries = <<>>
                       ELSE \E q \in Queries : queries = <<q>>
    /\ currIndex = 0
    /\ rc = [i \in Index |-> "conn_lost"]
    /\ set = [i \in Index |-> NoResult]
    /\ cancelled = FALSE
    /\ events = <<>>
    /\ notice = FALSE
    /\ pc = "entry"
    /\ res = NoResult /\ result = NoResult /\ lastResult = NoResult
    /\ retrieved = 0
    /\ connCancelled = FALSE
    /\ fetched = 0
    /\ held = {}
    /\ raised = [i \in Index |-> 0]
    /\ sentCancelled = 0

-----------------------------------------------------------------------------
(* Entry                                                                   *)

\* m_returnCode of the query that becomes current.  (Mutant: set before
\* m_currIndex is incremented.)
MutMarkCurrent == rc' = [rc EXCEPT ![currIndex] = "string_invalid"]

MarkRunning == rc' = [rc EXCEPT ![currIndex + 1] = "string_invalid"]

\* The next queued query becomes current.
StartQuery ==
    /\ pc = "entry"
    /\ currIndex < Len(queries)
    /\ SetConnCancel
    /\ currIndex' = currIndex + 1
    /\ MarkRunning
    /\ notice' = TRUE
    /\ pc' = "execute"
    /\ res' = NoResult /\ result' = NoResult /\ lastResult' = NoResult
    /\ retrieved' = 0
    /\ connCancelled' = FALSE
    /\ fetched' = 0
    /\ UNCHANGED <<status, stream, sent, buffered, serverVars, queries, set,
                   cancelled, events, held, raised, sentCancelled>>

NothingQueued ==
    /\ pc = "entry"
    /\ currIndex = Len(queries)
    /\ pc' = "check"
    /\ UNCHANGED <<connVars, queryVars, cancelled, events, notice, localVars,
                   fetched, held, raised, sentCancelled>>

\* Execute has returned.  (Mutant: the cancel handle is not reset.)
MutKeepConnCancel ==
    /\ pc = "after"
    /\ notice' = FALSE
    /\ pc' = "check"
    /\ UNCHANGED <<connVars, queryVars, cancelled, events, localVars, fetched,
                   held, raised, sentCancelled>>

AfterExecute ==
    /\ pc = "after"
    /\ notice' = FALSE
    /\ ResetConnCancel
    /\ pc' = "check"
    /\ UNCHANGED <<status, stream, sent, buffered, serverVars, queryVars,
                   cancelled, events, localVars, fetched, held, raised,
                   sentCancelled>>

\* (Mutant: m_cancelled is not looked at.)
MutNeverStop == ~MultiQueries

Stop == ~MultiQueries \/ cancelled

LoopOrExit ==
    /\ pc = "check"
    /\ pc' = IF Stop THEN "exited" ELSE "entry"
    /\ UNCHANGED <<connVars, queryVars, cancelled, events, notice, localVars,
                   fetched, held, raised, sentCancelled>>

-----------------------------------------------------------------------------
(* Execute                                                                 *)

Query == queries[currIndex]
SetRc(code) == rc' = [rc EXCEPT ![currIndex] = code]

\* PQclear of a local that may be NULL.
Cleared(r) == held \ {r}

\* AddPendingEvent.  (Mutant: the event names the previous query.)
MutRaisePrevious ==
    IF HasCaller
    THEN /\ events' = Append(events, currIndex - 1)
         /\ raised' = [raised EXCEPT ![currIndex] = @ + 1]
    ELSE UNCHANGED <<events, raised>>

RaiseEvent ==
    IF HasCaller
    THEN /\ events' = Append(events, currIndex)
         /\ raised' = [raised EXCEPT ![currIndex] = @ + 1]
    ELSE UNCHANGED <<events, raised>>

NoEvent == UNCHANGED <<events, raised>>

\* "return RaiseEvent(rc)"
ReturnWith(code) ==
    /\ SetRc(code)
    /\ RaiseEvent
    /\ pc' = "after"

\* The returns of a cancelled execution.  (Mutant: m_eventOnCancellation is
\* not looked at.)
MutReturnCancelled == ReturnWith("cancelled")

ReturnCancelled ==
    /\ SetRc("cancelled")
    /\ IF EventOnCancellation THEN RaiseEvent ELSE NoEvent
    /\ pc' = "after"

\* The checks before the query is sent, and the sending itself.  The
\* callable statements of EnterpriseDB's libpq are not built by default and
\* are left out.
Refuse ==
    /\ pc = "execute"
    /\ \/ status # "ok" /\ ReturnWith("conn_lost")
       \/ status = "ok" /\ ~Query.encodable /\ ReturnWith("string_invalid")
       \/ status = "ok" /\ Query.encodable /\ SendMayFail /\ ReturnWith("send_query")
    /\ UNCHANGED <<connVars, queries, currIndex, set, cancelled, notice,
                   localVars, fetched, held, sentCancelled>>

SendQuery ==
    /\ pc = "execute"
    /\ status = "ok"
    /\ Query.encodable
    /\ PQsendQuery(Query.script)
    /\ pc' = "top"
    /\ sentCancelled' = IF cancelled THEN sentCancelled + 1 ELSE sentCancelled
    /\ UNCHANGED <<queryVars, cancelled, events, notice, localVars, fetched,
                   held, raised>>

\* Pass the cancellation on to the backend, at most once per query.
\* (Mutant: it is noted but not passed on.)
MutKeepCancel == connCancelled' = TRUE /\ UNCHANGED <<cancelConn, cancelReq>>

PassCancelOn ==
    /\ connCancelled' = TRUE
    /\ IF connCancelled THEN UNCHANGED <<cancelConn, cancelReq>> ELSE CancelRequest

\* The first lines of the loop: a cancellation is noticed.
CheckCancelled ==
    /\ pc = "top"
    /\ pc' = "consume"
    /\ IF cancelled /\ rc[currIndex] # "cancelled"
       THEN /\ PassCancelOn
            /\ SetRc("cancelled")
            /\ held' = Cleared(lastResult)
            /\ lastResult' = NoResult
       ELSE UNCHANGED <<cancelConn, cancelReq, connCancelled, rc, held, lastResult>>
    /\ UNCHANGED <<status, link, stream, sent, buffered, backend, copyWait,
                   queries, currIndex, set, cancelled, events, notice, res,
                   result, retrieved, fetched, raised, sentCancelled>>

\* PQconsumeInput, whose value goes to m_returnCode, then PQisBusy.
Consume ==
    /\ pc = "consume"
    /\ \/ /\ PQconsumeInput
          /\ SetRc("command")
          /\ pc' = IF buffered' = 0 THEN "top" ELSE "fetch"
       \/ /\ ConsumeFails
          /\ SetRc("empty_query")
          /\ pc' = "lost"
    /\ UNCHANGED <<queries, currIndex, set, cancelled, events, notice,
                   localVars, fetched, held, raised, sentCancelled>>

ConnectionLost ==
    ReturnWith(IF status = "bad" THEN "conn_lost" ELSE "consume_input")

\* PQconsumeInput failed.
Lost ==
    /\ pc = "lost"
    /\ IF cancelled
       THEN /\ held' = Cleared(lastResult)
            /\ lastResult' = NoResult
            /\ ReturnCancelled
       ELSE /\ UNCHANGED <<held, lastResult>>
            /\ ConnectionLost
    /\ UNCHANGED <<connVars, queries, currIndex, set, cancelled, notice, res,
                   result, retrieved, connCancelled, fetched, sentCancelled>>

\* What PQgetResult returned, when it is not NULL.
NewResult(kind) == [q |-> currIndex, k |-> fetched + 1, kind |-> kind]

GotResult(r) ==
    /\ held' = held \cup {r}
    /\ fetched' = fetched + 1

\* PQgetResult in the main loop: what happens next depends on the status.
Fetch ==
    /\ pc = "fetch"
    /\ TakeItem
    /\ LET kind == Head(stream)
           r == NewResult(kind)
       IN  \/ /\ kind = "ready"
              /\ pc' = "out"
              /\ UNCHANGED <<serverVars, rc, res, result, fetched, held>>
           \/ /\ kind = "error"
              /\ GotResult(r)
              /\ result' = r
              /\ pc' = "drain"
              /\ UNCHANGED <<serverVars, rc, res>>
           \/ /\ kind = "copyin"
              /\ GotResult(r)
              /\ res' = r
              /\ SetRc("copyin")
              /\ PQputCopyEnd
              /\ pc' = "save"
              /\ UNCHANGED <<link, backend, cancelReq, result>>
           \/ /\ kind = "copyout"
              /\ GotResult(r)
              /\ res' = r
              /\ SetRc("copyout")
              /\ pc' = "copy"
              /\ UNCHANGED <<serverVars, result>>
           \/ /\ kind \in {"tuples", "command"}
              /\ GotResult(r)
              /\ res' = r
              /\ pc' = "save"
              /\ UNCHANGED <<serverVars, rc, result>>
    /\ UNCHANGED <<status, cancelConn, queries, currIndex, set, cancelled,
                   events, notice, lastResult, retrieved, connCancelled,
                   raised, sentCancelled>>

\* After an error: read the conversation to its end.  (Mutant: it is not.)
MutNoDrain ==
    /\ pc = "drain"
    /\ pc' = "out"
    /\ UNCHANGED <<connVars, queryVars, cancelled, events, notice, localVars,
                   fetched, held, raised, sentCancelled>>

DrainConsume ==
    /\ pc = "drain"
    /\ \/ /\ PQconsumeInput
          /\ pc' = "drain_get"
          /\ UNCHANGED <<rc, events, raised, held, result>>
       \/ /\ ConsumeFails
          /\ IF cancelled
             THEN /\ held' = Cleared(result)
                  /\ result' = NoResult
                  /\ ReturnCancelled
             ELSE /\ pc' = "out"
                  /\ UNCHANGED <<rc, events, raised, held, result>>
    /\ UNCHANGED <<queries, currIndex, set, cancelled, notice, res, lastResult,
                   retrieved, connCancelled, fetched, sentCancelled>>

\* The blocking PQgetResult of the drain loop; its results are cleared at
\* once.
DrainGet ==
    /\ pc = "drain_get"
    /\ \/ /\ TakeItem
          /\ UNCHANGED <<status, cancelConn, serverVars>>
          /\ pc' = IF Head(stream) = "ready" THEN "out" ELSE "drain"
       \/ ReadDead /\ pc' = "drain"
    /\ UNCHANGED <<queryVars, cancelled, events, notice, localVars, fetched,
                   held, raised, sentCancelled>>

\* PQgetCopyData in asynchronous mode, and the test of m_cancelled behind
\* it: a cancelled copy passes the cancellation on and polls again.
CopyPoll ==
    /\ pc = "copy"
    /\ IF buffered > 0 /\ Head(stream) # "row"
       THEN /\ pc' = "copy_end"
            /\ UNCHANGED <<connVars, connCancelled>>
       ELSE /\ pc' = IF cancelled \/ buffered > 0 THEN "copy" ELSE "copy_consume"
            /\ IF buffered > 0 THEN TakeItem ELSE UNCHANGED <<stream, sent, buffered>>
            /\ IF cancelled THEN PassCancelOn
                            ELSE UNCHANGED <<cancelConn, cancelReq, connCancelled>>
            /\ UNCHANGED <<status, link, backend, copyWait>>
    /\ UNCHANGED <<queryVars, cancelled, events, notice, res, result,
                   lastResult, retrieved, fetched, held, raised, sentCancelled>>

CopyConsume ==
    /\ pc = "copy_consume"
    /\ \/ PQconsumeInput /\ pc' = "copy"
       \/ ConsumeFails /\ pc' = "copy_lost"
    /\ UNCHANGED <<queryVars, cancelled, events, notice, localVars, fetched,
                   held, raised, sentCancelled>>

CopyLost ==
    /\ pc = "copy_lost"
    /\ IF cancelled
       THEN /\ held' = Cleared(result)
            /\ result' = NoResult
            /\ ReturnCancelled
       ELSE /\ UNCHANGED <<held, result>>
            /\ ConnectionLost
    /\ UNCHANGED <<connVars, queries, currIndex, set, cancelled, notice, res,
                   lastResult, retrieved, connCancelled, fetched, sentCancelled>>

\* The blocking PQgetResult behind the copied rows; it replaces the COPY_OUT
\* result in res, whatever its status.
CopyEnd ==
    /\ pc = "copy_end"
    /\ \/ /\ TakeItem
          /\ UNCHANGED <<status, cancelConn, serverVars>>
          /\ IF Head(stream) = "ready"
             THEN pc' = "out" /\ UNCHANGED <<res, fetched, held>>
             ELSE /\ res' = NewResult(Head(stream))
                  /\ GotResult(res')
                  /\ pc' = "save"
       \/ /\ ReadDead
          /\ res' = NewResult("error")
          /\ GotResult(res')
          /\ pc' = "save"
    /\ UNCHANGED <<queryVars, cancelled, events, notice, result, lastResult,
                   retrieved, connCancelled, raised, sentCancelled>>

\* The end of the loop body: keep the result the component asked for, or
\* make this one the last result.  (Mutants: the count is one behind; the
\* "continue" after a kept result is missing.)
MutWantedLate == ~cancelled /\ retrieved = Query.nth

Wanted == ~cancelled /\ retrieved + 1 = Query.nth

MutSaveTwice ==
    /\ pc = "save"
    /\ retrieved' = retrieved + 1
    /\ IF Wanted THEN result' = res ELSE UNCHANGED result
    /\ held' = Cleared(lastResult)
    /\ lastResult' = res
    /\ pc' = "top"
    /\ UNCHANGED <<connVars, queryVars, cancelled, events, notice, res,
                   connCancelled, fetched, raised, sentCancelled>>

SaveResult ==
    /\ pc = "save"
    /\ retrieved' = retrieved + 1
    /\ IF Wanted
       THEN result' = res /\ UNCHANGED <<lastResult, held>>
       ELSE /\ held' = Cleared(lastResult)
            /\ lastResult' = res
            /\ UNCHANGED result
    /\ pc' = "top"
    /\ UNCHANGED <<connVars, queryVars, cancelled, events, notice, res,
                   connCancelled, fetched, raised, sentCancelled>>

\* out_of_consume_input_loop, to the end.  PQresultStatus(NULL) is an error.
Outcome == IF result = NoResult THEN lastResult ELSE result

\* (Mutant: a cancellation is not noticed any more here.)
MutOutOfLoop ==
    /\ pc = "out"
    /\ result' = Outcome
    /\ IF Outcome.kind = "tuples" THEN set' = [set EXCEPT ![currIndex] = Outcome]
                                  ELSE UNCHANGED set
    /\ held' = IF Outcome.kind \in {"tuples", "error"} THEN Cleared(Outcome) ELSE held
    /\ ReturnWith(IF Outcome = NoResult THEN "error" ELSE Outcome.kind)
    /\ UNCHANGED <<connVars, queries, currIndex, cancelled, notice, res,
                   lastResult, retrieved, connCancelled, fetched, sentCancelled>>

OutOfLoop ==
    /\ pc = "out"
    /\ IF cancelled
       THEN /\ held' = Cleared(result)
            /\ result' = NoResult
            /\ ReturnCancelled
            /\ UNCHANGED set
       ELSE /\ result' = Outcome
            /\ IF Outcome.kind = "tuples"
               THEN set' = [set EXCEPT ![currIndex] = Outcome]
               ELSE UNCHANGED set
            /\ held' = IF Outcome.kind \in {"tuples", "error"} THEN Cleared(Outcome)
                                                                ELSE held
            /\ ReturnWith(IF Outcome = NoResult THEN "error" ELSE Outcome.kind)
    /\ UNCHANGED <<connVars, queries, currIndex, cancelled, notice, res,
                   lastResult, retrieved, connCancelled, fetched, sentCancelled>>

Worker ==
    \/ StartQuery \/ NothingQueued \/ AfterExecute \/ LoopOrExit
    \/ Refuse \/ SendQuery \/ CheckCancelled \/ Consume \/ Lost \/ Fetch
    \/ DrainConsume \/ DrainGet \/ CopyPoll \/ CopyConsume \/ CopyLost
    \/ CopyEnd \/ SaveResult \/ OutOfLoop

-----------------------------------------------------------------------------
(* The component that owns the thread                                      *)

AddQuery ==
    /\ MultiQueries
    /\ pc # "deleted"
    /\ Len(queries) < MaxQueries
    /\ \E q \in Queries : queries' = Append(queries, q)
    /\ UNCHANGED <<connVars, currIndex, rc, set, cancelled, events, notice, pc,
                   localVars, fetched, held, raised, sentCancelled>>

CancelExecution ==
    /\ pc # "deleted"
    /\ ~cancelled
    /\ cancelled' = TRUE
    /\ UNCHANGED <<connVars, queryVars, events, notice, pc, localVars, fetched,
                   held, raised, sentCancelled>>

\* The owner takes an event and, if it is done with the data, calls
\* pgBatchQuery::Release.  (Mutant: on the thread's current query.)
MutReleaseCurrent ==
    /\ pc # "deleted"
    /\ events # <<>>
    /\ events' = Tail(events)
    /\ set' = [set EXCEPT ![currIndex] = NoResult]
    /\ UNCHANGED <<connVars, queries, currIndex, rc, cancelled, notice, pc,
                   localVars, fetched, held, raised, sentCancelled>>

HandleEvent ==
    /\ pc # "deleted"
    /\ events # <<>>
    /\ events' = Tail(events)
    /\ \E r \in {set[Head(events)], NoResult} :
          set' = [set EXCEPT ![Head(events)] = r]
    /\ UNCHANGED <<connVars, queries, currIndex, rc, cancelled, notice, pc,
                   localVars, fetched, held, raised, sentCancelled>>

\* The destructor; every owner in the repository waits for the thread first.
Destroy ==
    /\ pc = "exited"
    /\ pc' = "deleted"
    /\ queries' = <<>>
    /\ set' = [i \in Index |-> NoResult]
    /\ notice' = FALSE
    /\ UNCHANGED <<connVars, currIndex, rc, cancelled, events, localVars,
                   fetched, held, raised, sentCancelled>>

Owner == AddQuery \/ CancelExecution \/ HandleEvent \/ Destroy

\* A step of the session alone.
InSession(A) ==
    /\ A
    /\ UNCHANGED <<queries, currIndex, rc, set, cancelled, events, notice, pc,
                   localVars, fetched, held, raised, sentCancelled>>

Session == InSession(Environment)

Next == Worker \/ Owner \/ Session

Spec == Init /\ [][Next]_vars

(***************************************************************************)
(* Fairness.  A running thread is scheduled again, and a live backend      *)
(* reads its input, obeys a cancel signal and ends a command that is done; *)
(* it owes neither a result nor a copied row, however long one waits.      *)
(* Nothing is assumed of the owner.  With Productive the backend also gets *)
(* on with every command.                                                  *)
(***************************************************************************)
FairSpec ==
    /\ Spec
    /\ WF_vars(Worker)
    /\ WF_vars(InSession(ServerStart))
    /\ WF_vars(InSession(ServerFlush))
    /\ WF_vars(InSession(ServerCancel))

Productive == WF_vars(InSession(ServerSend))

-----------------------------------------------------------------------------
(* Properties                                                              *)

\* Every variable has its type: in particular the index of the current query
\* never runs past the queries the bounds allow.
TypeOK ==
    /\ ConnTypeOK
    /\ queries \in Seq(Queries) /\ Len(queries) <= MaxQueries
    /\ currIndex \in 0..MaxQueries
    /\ rc \in [Index -> ReturnCode]
    /\ set \in [Index -> Result \cup {NoResult}]
    /\ cancelled \in BOOLEAN
    /\ events \in Seq(Index)
    /\ notice \in BOOLEAN
    /\ pc \in InExecute \cup Between \cup {"after"}
    /\ res \in Result \cup {NoResult}
    /\ result \in Result \cup {NoResult}
    /\ lastResult \in Result \cup {NoResult}
    /\ retrieved \in Nat
    /\ connCancelled \in BOOLEAN
    /\ fetched \in Nat
    /\ held \in SUBSET Result
    /\ raised \in [Index -> Nat]
    /\ sentCancelled \in Nat

\* Query i has been executed: Execute returned, or is about to.
Finished(i) == i < currIndex \/ (i = currIndex /\ pc \in Between \cup {"after"})

\* "We will need to consume all the results before quiting from the thread.
\* Otherwise - the connection object will become unusable": whichever way
\* Execute is left, cancelled or not, a session that is still up has nothing
\* unread and its backend has finished with the command.
ConnReusable ==
    link = "up" /\ pc \in Between \cup {"after", "execute"}
        => stream = <<>> /\ backend = "idle"

\* The component that asked hears about every query exactly once, and about
\* a cancelled one only if it wants to: no path through Execute raises two
\* events or forgets to raise one.
OneEventPerQuery ==
    HasCaller =>
        \A i \in Index :
            raised[i] = IF Finished(i) /\ (rc[i] = "cancelled" => EventOnCancellation)
                        THEN 1 ELSE 0

\* An event that waits to be handled is about a finished query, and if that
\* query returned rows they are still there.
PendingEventsHaveData ==
    pc # "deleted" =>
        \A j \in 1..Len(events) :
            /\ Finished(events[j])
            /\ rc[events[j]] = "tuples" => set[events[j]] # NoResult

\* A local pointer that is still used points to a PGresult that has not been
\* cleared, and no two of them are cleared for the same PGresult.
ResultsOwned ==
    pc \in Loop =>
        /\ result # NoResult => result \in held
        /\ lastResult # NoResult => lastResult \in held
        /\ pc = "save" => res \in held /\ res \notin {result, lastResult}
        /\ result # NoResult => result # lastResult

\* The result the comment above PQgetResult promises, computed from the
\* answer as a whole: an error that ends the command wins, then the nth
\* result if there is one, then the last.  COPY TO STDOUT counts once, by
\* the result that ends it.  A result is named by its position in the script.
Answers(q) == {j \in 1..Len(q.script) : q.script[j] # "row"}
Choices(q) == {j \in Answers(q) : q.script[j] # "copyout"}
UpTo(S, p) == {j \in S : j <= p}
EndsInError(q) ==
    LET n == Len(q.script)
    IN  q.script[n] = "error" /\ (n > 1 => q.script[n - 1] \notin {"copyout", "row"})
IsNth(q, j) == j \in Choices(q) /\ Cardinality(UpTo(Choices(q), j)) = q.nth
Chosen(q) ==
    IF ~EndsInError(q) /\ \E j \in Choices(q) : IsNth(q, j)
    THEN CHOOSE j \in Choices(q) : IsNth(q, j)
    ELSE Len(q.script)

\* The number a result has among those PQgetResult returns.
Number(q, j) == Cardinality(UpTo(Answers(q), j))

\* "if resultToRetrieve is given, the nth result will be returned, otherwise
\* the last result set will be returned": a query that was neither cancelled
\* nor lost reports the status of the chosen result and keeps its rows.
RightResult ==
    pc # "deleted" =>
        \A i \in 1..Len(queries) : Finished(i) =>
            LET q == queries[i] IN
            /\ rc[i] \in {"tuples", "command", "error"} => rc[i] = q.script[Chosen(q)]
            /\ set[i] # NoResult => set[i].q = i /\ set[i].k = Number(q, Chosen(q))
            /\ link = "up" /\ ~cancelled =>
                  rc[i] \in {"tuples", "command", "error"}
                      \cup (IF q.encodable THEN {} ELSE {"string_invalid"})

\* A cancel signal is only ever pending for a query of a thread that was
\* cancelled, and the handle that sends it does not outlive Execute: nothing
\* can cancel what runs on the connection afterwards.
CancelOnlyOwnQuery ==
    /\ cancelReq => cancelled /\ pc \in Loop
    /\ cancelConn => pc \in InExecute \cup {"after"}

\* m_cancelled is tested after Execute and not before it, so a queued query
\* may still be sent to the backend after the cancellation; but only one.
AtMostOneSentAfterCancel == sentCancelled <= 1

\* The return code and the rows of a query are what its event announced:
\* they do not change any more (the rows may be released) once it is posted.
AnnouncedResultStable ==
    [][\A i \in Index : raised[i] > 0 =>
          rc'[i] = rc[i] /\ set'[i] \in {set[i], NoResult}]_vars

\* Queued queries are answered: unless the thread is cancelled, every query
\* is finished in the end, also when it is a COPY FROM STDIN, which this
\* client cannot feed, and also when the network goes away.
QueryAnswered ==
    Productive => \A i \in Index : Len(queries) >= i ~> Finished(i) \/ cancelled

\* A cancelled thread ends, so that the owner's Wait() returns.
CancelEndsThread == Productive => (cancelled ~> pc \in {"exited", "deleted"})

\* A cancelled thread ends, or it is reading the rows of a COPY TO STDOUT.
CancelEndsAllButCopy ==
    Productive => (cancelled ~> pc \in {"exited", "deleted", "copy"})

\* A cancellation that meets a command the backend is working on ends its
\* execution, however long the backend would have worked on it, unless it
\* sends the rows of a COPY TO STDOUT or the signal is lost.
PromptCancel ==
    ~CancelCanFail =>
        (pc \in Loop /\ cancelled /\ ~connCancelled /\ backend = "busy"
            ~> pc \notin Loop \/ pc = "copy")

=============================================================================
