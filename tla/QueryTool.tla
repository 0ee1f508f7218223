----------------------------- MODULE QueryTool -----------------------------
(***************************************************************************)
(* The query tool's execution of a query: the window (frm/frmQuery.cpp),   *)
(* its result grid, which owns the pgQueryThread (ctl/ctlSQLResult.cpp),   *)
(* and that thread, seen as a QueryJob.                                    *)
(*                                                                         *)
(* All of the window runs in the GUI thread, whose handlers nest: stack    *)
(* holds the calls that are under way, the innermost first.  A handler is  *)
(* interrupted by others only in wxTheApp->Yield, and a Yield inside a     *)
(* Yield returns at once (onlyIfNeeded), so two calls are the most.  While *)
(* Abort waits for the thread, the GUI thread is blocked.  A dialog shuts  *)
(* the window off while it is shown and gives way to nothing modelled here.*)
(* pgScript, which has the tools to itself while it runs, is left to       *)
(* module PgScript.                                                        *)
(***************************************************************************)
EXTENDS QueryJob, Integers, Sequences

CONSTANTS
    MaxRuns,       \* bound on the number of executions
    AutoRollback,  \* MNU_AUTOROLLBACK is checked
    AutoCommit,    \* MNU_AUTOCOMMIT is checked
    Macros,        \* the user invokes macros while a query runs
    QuickFail      \* the thread may fail and end before Execute looks at it

ASSUME MaxRunsAssumption == MaxRuns \in Nat
ASSUME OptionsAssumption ==
    /\ AutoRollback \in BOOLEAN
    /\ AutoCommit \in BOOLEAN
    /\ Macros \in BOOLEAN
    /\ QuickFail \in BOOLEAN

VARIABLES
    jobRun,  \* the execution the thread was made for
    window,  \* "open"; "closed": Destroy() was called; "gone": deleted
    tools,   \* Execute enabled; Cancel enabled; neither
    stack,   \* calls in progress in the GUI thread: [at, run, code]
    runs,    \* number of executions so far
    exec,    \* sqlQueryExec: the execution whose tab it is, 0 for NULL
    events,  \* pgQueryResultEvents not handled yet: [run, code]
    tx,      \* what the last command left of the session's transaction
    answer,  \* history: what the thread of each execution answered
    completions, \* history: how often each execution was completed
    report   \* history: what its last completion told the user

toolVars == <<window, tools, stack, runs, exec>>
histVars == <<answer, completions, report>>
vars == <<jobVars, jobRun, toolVars, events, tx, histVars>>

Runs == 1..MaxRuns
NoReport == [what |-> "none", tab |-> 0, thread |-> 0]

\* QueryJob's phase, and "none" when ctlSQLResult::thread is NULL.
Running == phase \in {"running", "answered"}

Init ==
    /\ phase = "none" /\ code = "none" /\ cancelled = FALSE /\ announced = 0
    /\ jobRun = 0
    /\ window = "open"
    /\ tools = "execute"
    /\ stack = <<>>
    /\ runs = 0
    /\ exec = 0
    /\ events = <<>>
    /\ tx = "idle"
    /\ answer = [i \in Runs |-> "none"]
    /\ completions = [i \in Runs |-> 0]
    /\ report = [i \in Runs |-> NoReport]

-----------------------------------------------------------------------------
(* Calls                                                                   *)

\* Where a call gives way to other handlers: execQuery before it starts the
\* query, OnQueryComplete while it waits for the thread to end and before it
\* fills the grid.
Yields == {"exec", "wait", "show"}

CanDispatch ==
    \/ stack = <<>>
    \/ Len(stack) = 1 /\ Head(stack).at \in Yields

Top == Head(stack)
At(place) == stack # <<>> /\ Top.at = place
Call(place, i, c) == stack' = <<[at |-> place, run |-> i, code |-> c]>> \o stack
Become(place) == stack' = <<[Top EXCEPT !.at = place]>> \o Tail(stack)
Return == stack' = Tail(stack)

\* conn->GetTxStatus().
TxStatus == IF phase = "running" THEN "active" ELSE tx

\* completeQuery: the automatic rollback, the tools, the tab.  (Mutant: the
\* rollback is only done after a result.)
MutAfterRollback(t, what) ==
    IF AutoRollback /\ TxStatus # "active" /\ t = "inerror" /\ what = "done"
    THEN {"idle", "unknown"} ELSE {t}

AfterRollback(t, what) ==
    IF AutoRollback /\ TxStatus # "active" /\ t = "inerror"
    THEN {"idle", "unknown"} ELSE {t}

CompleteQuery(i, what, t) ==
    /\ tx' \in AfterRollback(t, what)
    /\ tools' = "execute"
    /\ exec' = 0
    /\ completions' = [completions EXCEPT ![i] = @ + 1]
    /\ report' = [report EXCEPT ![i] =
          [what |-> what, tab |-> exec, thread |-> IF phase = "none" THEN 0 ELSE jobRun]]

-----------------------------------------------------------------------------
(* Executing                                                               *)

\* execQuery up to its Yield, for OnExecute, OnExplain, OnCommit, OnRollback
\* and OnExecFile behind its dialog; and for OnMacroInvoke, which no tool
\* controls.
Execute ==
    /\ CanDispatch
    /\ window = "open"
    /\ tools = "execute" \/ Macros
    /\ runs < MaxRuns
    /\ runs' = runs + 1
    /\ tools' = "cancel"
    /\ exec' = runs'
    /\ Call("exec", runs', "none")
    /\ UNCHANGED <<jobVars, jobRun, window, events, tx, histVars>>

\* CancelExecution, if the thread is running; Abort then waits for it.
\* (Mutant: Abort only waits.)
MutStopThread == UNCHANGED cancelled

StopThread == cancelled' = (cancelled \/ Running)

\* execQuery behind its Yield: BEGIN if the query needs a transaction and
\* none is open (its outcome is not looked at), then ctlSQLResult::Execute,
\* which aborts what the grid's thread is doing.
PrepareQuery ==
    /\ At("exec")
    /\ \/ ~AutoCommit /\ TxStatus = "idle" /\ tx' \in {"intrans", "unknown"}
       \/ UNCHANGED tx
    /\ StopThread
    /\ Become(IF Running THEN "abort_create" ELSE "create")
    /\ UNCHANGED <<phase, code, announced, jobRun, window, tools, runs, exec,
                   events, histVars>>

\* The rest of Execute: the thread is replaced.  If the new one cannot be
\* created, the query is completed at once.  (Mutant: the old thread is run
\* again.)
MutCreateThread ==
    /\ At("create")
    /\ UNCHANGED <<code, cancelled, announced>>
    /\ \/ /\ phase' = "running"
          /\ jobRun' = Top.run
          /\ Become("started")
          /\ UNCHANGED <<tools, exec, tx, histVars>>
       \/ /\ phase' = "none"
          /\ CompleteQuery(Top.run, "nothing", tx)
          /\ Return
          /\ UNCHANGED <<jobRun, answer>>
    /\ UNCHANGED <<window, runs, events>>

CreateThread ==
    /\ At("create")
    /\ code' = "none" /\ cancelled' = FALSE /\ announced' = 0
    /\ \/ /\ phase' = "running"
          /\ jobRun' = Top.run
          /\ Become("started")
          /\ UNCHANGED <<tools, exec, tx, histVars>>
       \/ /\ phase' = "none"
          /\ CompleteQuery(Top.run, "nothing", tx)
          /\ Return
          /\ UNCHANGED <<jobRun, answer>>
    /\ UNCHANGED <<window, runs, events>>

\* The value of Execute: RunStatus() of a thread that was started.  The
\* negative codes mean failure.
StartReturns ==
    /\ At("started")
    /\ IF ~Running /\ code \in {"failed", "cancelled"}
       THEN CompleteQuery(Top.run, "nothing", tx)
       ELSE UNCHANGED <<tools, exec, tx, completions, report>>
    /\ Return
    /\ UNCHANGED <<jobVars, jobRun, window, runs, events, answer>>

\* (Mutant: the window offers to execute again at once.)
MutOnCancel ==
    /\ CanDispatch
    /\ window = "open"
    /\ tools = "cancel"
    /\ tools' = "execute"
    /\ StopThread
    /\ IF Running THEN Call("abort", jobRun, "none") ELSE UNCHANGED stack
    /\ UNCHANGED <<phase, code, announced, jobRun, window, runs, exec, events,
                   tx, histVars>>

OnCancel ==
    /\ CanDispatch
    /\ window = "open"
    /\ tools = "cancel"
    /\ tools' = "none"
    /\ StopThread
    /\ IF Running THEN Call("abort", jobRun, "none") ELSE UNCHANGED stack
    /\ UNCHANGED <<phase, code, announced, jobRun, window, runs, exec, events,
                   tx, histVars>>

\* Abort's Wait() returns and the thread is deleted.
AbortReturns ==
    /\ ~Running
    /\ \/ At("abort") /\ Return
       \/ At("abort_create") /\ Become("create")
       \/ At("abort_close") /\ Become("closing")
    /\ phase' = "none"
    /\ UNCHANGED <<code, cancelled, announced, jobRun, window, tools, runs, exec,
                   events, tx, histVars>>

-----------------------------------------------------------------------------
(* Completing                                                              *)

OnQueryComplete ==
    /\ CanDispatch
    /\ window # "gone"
    /\ events # <<>>
    /\ Call("wait", Head(events).run, Head(events).code)
    /\ events' = Tail(events)
    /\ UNCHANGED <<jobVars, jobRun, window, tools, runs, exec, tx, histVars>>

\* What the user is told of a query without rows: an error without an
\* SQLSTATE, which all but the server's errors are, counts as a lost
\* connection, and the user may have it reset.  (Mutant: the thread is asked
\* whether it was cancelled, not the event.)
MutOutcomes(eventCode) ==
    IF phase # "none" /\ code = "command" THEN {"done"}
    ELSE IF phase # "none" /\ code = "cancelled" THEN {"cancelled"}
    ELSE IF phase # "none" /\ code = "error" THEN {"error", "lost"}
    ELSE {"lost"}

Outcomes(eventCode) ==
    IF phase # "none" /\ code = "command" THEN {"done"}
    ELSE IF eventCode = "cancelled" THEN {"cancelled"}
    ELSE IF phase # "none" /\ code = "error" THEN {"error", "lost"}
    ELSE {"lost"}

HasRows == phase # "none" /\ code = "tuples"

\* The end of the loop at the head of OnQueryComplete.  (Mutant: the thread
\* is not waited for.)
MutThreadOver == TRUE

ThreadOver == ~Running

\* Rows are shown behind another Yield, unless they are exported or the
\* single row of an EXPLAIN; anything else is reported at once.
WaitOver ==
    /\ At("wait")
    /\ ThreadOver
    /\ \/ /\ HasRows
          /\ Become("show")
          /\ UNCHANGED <<tools, exec, tx, completions, report>>
       \/ /\ HasRows
          /\ CompleteQuery(Top.run, "done", tx)
          /\ Return
       \/ /\ ~HasRows
          /\ \E what \in Outcomes(Top.code) :
                \E t \in (IF what = "lost" THEN {tx, "idle", "unknown"} ELSE {tx}) :
                    CompleteQuery(Top.run, what, t)
          /\ Return
    /\ UNCHANGED <<jobVars, jobRun, window, runs, events, answer>>

\* The grid shows what the thread has now, and the executed text goes to the
\* history if that is a result.
ShowOver ==
    /\ At("show")
    /\ CompleteQuery(Top.run,
          IF ~Running /\ HasRows THEN "done" ELSE "nothing", tx)
    /\ Return
    /\ UNCHANGED <<jobVars, jobRun, window, runs, events, answer>>

-----------------------------------------------------------------------------
(* Closing                                                                 *)

\* OnClose up to its loop: it cancels what Cancel would cancel.
OnClose ==
    /\ CanDispatch
    /\ window = "open"
    /\ IF tools = "cancel" THEN tools' = "none" /\ StopThread
                           ELSE UNCHANGED <<tools, cancelled>>
    /\ Call(IF tools = "cancel" /\ Running THEN "abort_close" ELSE "closing", 0, "none")
    /\ UNCHANGED <<phase, code, announced, jobRun, window, runs, exec, events,
                   tx, histVars>>

\* The loop over RunStatus() ends.  The user may keep the window after all,
\* for a file that is not saved.
CloseOver ==
    /\ At("closing")
    /\ ~Running
    /\ Return
    /\ \/ UNCHANGED <<phase, window>>
       \/ phase' = "none" /\ window' = "closed"
    /\ UNCHANGED <<code, cancelled, announced, jobRun, tools, runs, exec, events,
                   tx, histVars>>

\* The pending deletion: ~frmQuery deletes the connections, and the base
\* class then the grid.
Deleted ==
    /\ stack = <<>>
    /\ window = "closed"
    /\ window' = "gone"
    /\ events' = <<>>
    /\ UNCHANGED <<jobVars, jobRun, tools, stack, runs, exec, tx, histVars>>

GUI ==
    \/ PrepareQuery \/ CreateThread \/ StartReturns \/ AbortReturns
    \/ WaitOver \/ ShowOver \/ CloseOver \/ Deleted

User == Execute \/ OnCancel \/ OnClose

-----------------------------------------------------------------------------
(* The thread                                                              *)

TxAfter(c) ==
    CASE c \in {"tuples", "command"} -> {"idle", "intrans"}
      [] c = "error"     -> {"idle", "inerror", "unknown"}
      [] c = "failed"    -> {tx, "unknown"}
      [] c = "cancelled" -> {"idle", "intrans", "inerror", "unknown"}

\* The event; a window that is gone hears nothing.  (Mutant: there is none
\* for a cancelled query.)
MutPosted(c) ==
    IF window = "gone" \/ c = "cancelled" THEN events
    ELSE Append(events, [run |-> jobRun, code |-> c])

Posted(c) ==
    IF window = "gone" THEN events
    ELSE Append(events, [run |-> jobRun, code |-> c])

AnswerQuery(c) ==
    /\ Answer(c)
    /\ tx' \in TxAfter(c)
    /\ answer' = [answer EXCEPT ![jobRun] = c]
    /\ events' = Posted(c)
    /\ UNCHANGED <<jobRun, toolVars, completions, report>>

EndThread ==
    /\ End
    /\ At("started") /\ code = "failed" => QuickFail
    /\ UNCHANGED <<jobRun, toolVars, events, tx, histVars>>

Worker == (\E c \in Answers : AnswerQuery(c)) \/ EndThread

Next == GUI \/ OnQueryComplete \/ User \/ Worker

Spec == Init /\ [][Next]_vars

(***************************************************************************)
(* Fairness.  The GUI thread goes on with what it is doing; a Yield comes  *)
(* to its end and a posted event is handled although the user keeps the    *)
(* program busy.  A query need not end by itself, but a cancelled one does *)
(* (see PromptCancel in QueryThread) and a thread that has answered ends.  *)
(* With Productive every query ends.                                       *)
(***************************************************************************)
FairSpec ==
    /\ Spec
    /\ WF_vars(GUI)
    /\ SF_vars(PrepareQuery) /\ SF_vars(WaitOver) /\ SF_vars(ShowOver)
    /\ SF_vars(OnQueryComplete)
    /\ WF_vars(Worker /\ (cancelled \/ phase = "answered"))

Productive == WF_vars(Worker)

-----------------------------------------------------------------------------
(* Properties                                                              *)

Frame == [at : Yields \cup {"create", "started", "abort", "abort_create",
                            "abort_close", "closing"},
          run : 0..MaxRuns,
          code : Answers \cup {"none"}]

\* Every variable has its type: handlers nest at most twice, and a thread
\* posts one event.
TypeOK ==
    /\ phase \in {"none", "running", "answered", "ended"}
    /\ code \in Answers \cup {"none"}
    /\ cancelled \in BOOLEAN
    /\ announced \in 0..1
    /\ jobRun \in 0..MaxRuns
    /\ window \in {"open", "closed", "gone"}
    /\ tools \in {"execute", "cancel", "none"}
    /\ stack \in Seq(Frame) /\ Len(stack) <= 2
    /\ runs \in 0..MaxRuns
    /\ exec \in 0..MaxRuns
    /\ events \in Seq([run : Runs, code : Answers])
    /\ tx \in {"idle", "intrans", "inerror", "unknown"}
    /\ answer \in [Runs -> Answers \cup {"none"}]
    /\ completions \in [Runs -> Nat]
    /\ report \in [Runs -> [what : {"none", "nothing", "done", "cancelled", "error", "lost"},
                            tab : 0..MaxRuns, thread : 0..MaxRuns]]

\* Execute is not offered, and a query is not about to be started, while the
\* thread of an earlier one is still using the connection: ctlSQLResult's
\* Execute never has anything to abort.
NoOverlap ==
    window = "open" /\ (tools = "execute" \/ At("exec") \/ At("create")) => ~Running

\* However an execution ends - by its event, by Cancel, by a thread that
\* cannot be created - it is completed once, before the next one is offered.
CompletedOnce ==
    \A i \in Runs :
        /\ completions[i] <= 1
        /\ window = "open" /\ tools = "execute" /\ i <= runs => completions[i] = 1

\* What the user is told of an execution is what its own thread answered.
\* The one exception is in the code: a query that was cancelled between its
\* answer and the end of its thread is reported as a lost connection.
ReportFitsAnswer ==
    \A i \in Runs :
        LET r == report[i] IN
        /\ r.what \in {"done", "error"} => r.thread = i
        /\ r.what = "done" => answer[i] \in {"tuples", "command"}
        /\ r.what = "error" => answer[i] = "error"
        /\ r.what = "cancelled" => answer[i] = "cancelled"
        /\ r.what = "lost" =>
              \/ answer[i] \in {"failed", "error"}
              \/ answer[i] # "cancelled" /\ r.thread = 0

\* "Automatically roll back a transaction if an error occurs": when the
\* window offers to execute again, whichever way the last query ended, the
\* session is not left in a failed transaction.
AutoRollbackDone ==
    AutoRollback /\ window = "open" /\ tools = "execute" => tx # "inerror"

\* "Remember the tab from which execute was called.  By the time query
\* completes, SQL tab selection may change": the completion of a query that
\* returned a result finds the tab it was executed from.
TabRemembered ==
    \A i \in Runs : report[i].what = "done" => report[i].tab = i

\* "To make sure conn is unused": no thread is running on the connection
\* the destructor deletes.
ConnUnused == window = "gone" => ~Running

\* If queries end, an execution is completed, however handlers are nested in
\* its Yields, or its window is closed.
ExecutionCompletes ==
    Productive => \A i \in Runs : runs = i ~> completions[i] > 0 \/ window # "open"

\* While the window waits in Abort the whole program does: the query that
\* was cancelled is completed although it would never have ended by itself.
CancelCompletes == At("abort") ~> tools = "execute" \/ window # "open"

=============================================================================
