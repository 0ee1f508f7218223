------------------------------ MODULE PgScript ------------------------------
(***************************************************************************)
(* pgScript in the query tool: the windows (frm/frmQuery.cpp), each with a *)
(* pgsApplication of its own (pgscript/pgsApplication.cpp), and the        *)
(* detached pgsThread that interprets a script.  The interpreter has       *)
(* static state, so one script may run in the whole program; the static    *)
(* flag frmQuery::ms_pgScriptRunning guards that, and the semaphore m_mutex*)
(* of each application says whether its thread still exists.               *)
(*                                                                         *)
(* The windows share the GUI thread.  A handler is one step, except where  *)
(* it gives way: OnExecScript to other events (wxTheApp->Yield) before it  *)
(* starts the thread, and writeScriptOutput while it waits for m_stream.   *)
(* A yield inside a yield returns at once (onlyIfNeeded).  Expressions,    *)
(* variables and the text of the output are left out.                      *)
(***************************************************************************)
EXTENDS Integers, Sequences

CONSTANTS
    Windows,    \* the query tool windows
    NoWindow,   \* none of them
    Closable,   \* those the user may close
    Scripts,    \* what may be executed
    MaxRuns     \* bound on the number of executions

\* What a script consists of: PRINT, PRINT with a query in its expression, a
\* query, WHILE 1 PRINT, and a statement that throws; or a syntax error,
\* found before anything is evaluated.  The empty script is left out.
Statement == {"print", "print_query", "query", "loop", "fail"}
Script == (Seq(Statement) \ {<<>>}) \cup {<<"syntax">>}

ASSUME NoWindowAssumption == NoWindow \notin Windows
ASSUME ScriptsAssumption == \A s \in Scripts : s \in Script
ASSUME ClosableAssumption == Closable \subseteq Windows
ASSUME MaxRunsAssumption == MaxRuns \in Nat

NoLock == [handler |-> "none", window |-> NoWindow]

VARIABLES
    flag,      \* frmQuery::ms_pgScriptRunning
    frame,     \* "open"; "closed": Destroy() was called; "gone": deleted
    tools,     \* Execute enabled; Cancel enabled; neither
    timer,     \* pgsTimer is running
    yielding,  \* the window whose OnExecScript is in Yield
    locking,   \* the handler that waits for m_stream in writeScriptOutput
    runs,      \* number of executions so far

    mutex,     \* pgsApplication::m_mutex
    stream,    \* who holds pgsApplication::m_stream
    appError,  \* m_last_error_line # -1
    output,    \* pgsOutputString is not empty
    events,    \* PGSCRIPT_COMPLETE events not handled yet

    pc,        \* where the pgsThread is; "none" if there is none
    todo,      \* statements the thread has still to evaluate
    stop,      \* the thread was asked to stop (TestDestroy)
    error      \* pgsThread::m_last_error_line # -1

uiVars == <<flag, frame, tools, timer, yielding, locking, runs>>
appVars == <<mutex, stream, appError, output, events>>
threadVars == <<pc, todo, stop, error>>
vars == <<uiVars, appVars, threadVars>>

\* Entry runs the interpreter; "leave" is behind it, "done" behind Complete.
Interpreting == {"parse", "stmt", "ask", "querying", "report", "print_end",
                 "check", "throw"}

Init ==
    /\ flag = FALSE
    /\ frame = [w \in Windows |-> "open"]
    /\ tools = [w \in Windows |-> "execute"]
    /\ timer = [w \in Windows |-> FALSE]
    /\ yielding = NoWindow
    /\ locking = NoLock
    /\ runs = 0
    /\ mutex = [w \in Windows |-> 1]
    /\ stream = [w \in Windows |-> "free"]
    /\ appError = [w \in Windows |-> FALSE]
    /\ output = [w \in Windows |-> FALSE]
    /\ events = [w \in Windows |-> 0]
    /\ pc = [w \in Windows |-> "none"]
    /\ todo = [w \in Windows |-> <<>>]
    /\ stop = [w \in Windows |-> FALSE]
    /\ error = [w \in Windows |-> FALSE]

-----------------------------------------------------------------------------
(* pgsApplication                                                          *)

IsRunning(w) == mutex[w] = 0

\* Complete: m_caller is the window; a window that is gone hears nothing.
\* (Mutant: the error line of an earlier script is kept.)
MutComplete(w, failed) ==
    /\ appError' = appError
    /\ flag' = flag
    /\ events' = [events EXCEPT ![w] = IF frame[w] = "gone" THEN 0 ELSE @ + 1]

Complete(w, failed) ==
    /\ appError' = [appError EXCEPT ![w] = failed]
    /\ flag' = flag
    /\ events' = [events EXCEPT ![w] = IF frame[w] = "gone" THEN 0 ELSE @ + 1]

\* ParseString creates the thread, whose constructor takes m_mutex, and
\* RunThread starts it; a thread that cannot be started is deleted again,
\* and its destructor completes the script and posts m_mutex.  If the
\* previous thread still exists nothing happens.
ParseString(w) ==
    IF IsRunning(w)
    THEN UNCHANGED <<flag, mutex, appError, events, threadVars>>
    ELSE \/ /\ mutex' = [mutex EXCEPT ![w] = 0]
            /\ appError' = [appError EXCEPT ![w] = FALSE]
            /\ pc' = [pc EXCEPT ![w] = "parse"]
            /\ \E s \in Scripts : todo' = [todo EXCEPT ![w] = s]
            /\ stop' = [stop EXCEPT ![w] = FALSE]
            /\ error' = [error EXCEPT ![w] = FALSE]
            /\ UNCHANGED <<flag, events>>
         \/ /\ Complete(w, FALSE)
            /\ error' = [error EXCEPT ![w] = FALSE]
            /\ UNCHANGED <<mutex, pc, todo, stop>>

\* Terminate: a thread that is just ending takes no notice.
Terminate(w) ==
    stop' = IF IsRunning(w) THEN [stop EXCEPT ![w] = TRUE] ELSE stop

-----------------------------------------------------------------------------
(* The windows                                                             *)

UIFree == locking = NoLock

\* "pgScript already running."  (Mutant: only this window is asked.)
MutAlreadyRunning(w) == IsRunning(w)

AlreadyRunning(w) == flag

\* OnExecScript up to its Yield.
OnExecScript(w) ==
    /\ UIFree
    /\ yielding = NoWindow
    /\ frame[w] = "open"
    /\ tools[w] = "execute"
    /\ ~AlreadyRunning(w)
    /\ runs < MaxRuns
    /\ flag' = TRUE
    /\ tools' = [tools EXCEPT ![w] = "cancel"]
    /\ yielding' = w
    /\ runs' = runs + 1
    /\ UNCHANGED <<frame, timer, locking, appVars, threadVars>>

\* OnExecScript behind its Yield.
StartScript(w) ==
    /\ UIFree
    /\ yielding = w
    /\ yielding' = NoWindow
    /\ ParseString(w)
    /\ timer' = [timer EXCEPT ![w] = TRUE]
    /\ UNCHANGED <<frame, tools, locking, runs, stream, output>>

OnCancel(w) ==
    /\ UIFree
    /\ frame[w] = "open"
    /\ tools[w] = "cancel"
    /\ tools' = [tools EXCEPT ![w] = "none"]
    /\ Terminate(w)
    /\ UNCHANGED <<flag, frame, timer, yielding, locking, runs, appVars,
                   pc, todo, error>>

\* A handler that calls writeScriptOutput: pgScriptTimer::Notify, and
\* OnScriptComplete, which stops the timer before.
Locking(handler, w) == locking' = [handler |-> handler, window |-> w]

TimerNotify(w) ==
    /\ UIFree
    /\ timer[w]
    /\ Locking("notify", w)
    /\ UNCHANGED <<flag, frame, tools, timer, yielding, runs, appVars, threadVars>>

OnScriptComplete(w) ==
    /\ UIFree
    /\ frame[w] # "gone"
    /\ events[w] > 0
    /\ events' = [events EXCEPT ![w] = @ - 1]
    /\ timer' = [timer EXCEPT ![w] = FALSE]
    /\ Locking("complete", w)
    /\ UNCHANGED <<flag, frame, tools, yielding, runs, mutex, stream, appError,
                   output, threadVars>>

\* writeScriptOutput once it has the stream.  (Mutant: only the timer shows
\* output.)
MutShow(w) ==
    output' = IF locking.handler = "notify" THEN [output EXCEPT ![w] = FALSE]
                                            ELSE output

Show(w) == output' = [output EXCEPT ![w] = FALSE]

WriteOutput(w) ==
    /\ locking.window = w
    /\ stream[w] = "free"
    /\ Show(w)
    /\ locking' = NoLock
    /\ IF locking.handler = "complete"
       THEN tools' = [tools EXCEPT ![w] = "execute"] /\ flag' = FALSE
       ELSE UNCHANGED <<tools, flag>>
    /\ UNCHANGED <<frame, timer, yielding, runs, mutex, stream, appError,
                   events, threadVars>>

\* OnClose.  A running script is terminated, not waited for.
OnClose(w) ==
    /\ UIFree
    /\ w \in Closable
    /\ frame[w] = "open"
    /\ frame' = [frame EXCEPT ![w] = "closed"]
    /\ IF tools[w] = "cancel"
       THEN tools' = [tools EXCEPT ![w] = "none"] /\ Terminate(w)
       ELSE UNCHANGED <<tools, stop>>
    /\ UNCHANGED <<flag, timer, yielding, locking, runs, appVars, pc, todo, error>>

\* The pending deletion, when the program is idle: the destructor deletes
\* the timer and the application, and pending events are dropped.  That the
\* thread may still be using the application is not modelled.
Deleted(w) ==
    /\ UIFree
    /\ yielding = NoWindow
    /\ frame[w] = "closed"
    /\ frame' = [frame EXCEPT ![w] = "gone"]
    /\ timer' = [timer EXCEPT ![w] = FALSE]
    /\ events' = [events EXCEPT ![w] = 0]
    /\ UNCHANGED <<flag, tools, yielding, locking, runs, mutex, stream,
                   appError, output, threadVars>>

UI(w) ==
    \/ OnExecScript(w) \/ StartScript(w) \/ OnCancel(w) \/ TimerNotify(w)
    \/ OnScriptComplete(w) \/ WriteOutput(w) \/ OnClose(w) \/ Deleted(w)

-----------------------------------------------------------------------------
(* pgsThread                                                               *)

Go(w, to) == pc' = [pc EXCEPT ![w] = to]
Current(w) == Head(todo[w])

\* The whole script is parsed before its first statement is evaluated.
Parse(w) ==
    /\ pc[w] = "parse"
    /\ Go(w, IF Current(w) = "syntax" THEN "throw" ELSE "stmt")
    /\ UNCHANGED <<uiVars, appVars, todo, stop, error>>

\* PRINT locks the output and evaluates its expression.
BeginPrint(w) ==
    /\ pc[w] = "stmt"
    /\ Current(w) \in {"print", "loop", "print_query"}
    /\ stream[w] = "free"
    /\ stream' = [stream EXCEPT ![w] = "thread"]
    /\ Go(w, IF Current(w) = "print_query" THEN "ask" ELSE "print_end")
    /\ UNCHANGED <<uiVars, mutex, appError, output, events, todo, stop, error>>

\* (Mutant: the output stays locked.)
MutUnlock(w) == UNCHANGED stream

Unlock(w) == stream' = [stream EXCEPT ![w] = "free"]

EndPrint(w) ==
    /\ pc[w] = "print_end"
    /\ output' = [output EXCEPT ![w] = TRUE]
    /\ Unlock(w)
    /\ Go(w, "check")
    /\ UNCHANGED <<uiVars, mutex, appError, events, todo, stop, error>>

BeginStatement(w) ==
    /\ pc[w] = "stmt"
    /\ \/ Current(w) = "query" /\ Go(w, "ask")
       \/ Current(w) = "fail" /\ Go(w, "throw")
    /\ UNCHANGED <<uiVars, appVars, todo, stop, error>>

\* Where pgsExecute::eval returns to.
AfterQuery(w) == IF Current(w) = "print_query" THEN "print_end" ELSE "check"

\* pgsExecute::eval: nothing is executed once the script is to stop, or if
\* the query's own thread cannot be started.
AskQuery(w) ==
    /\ pc[w] = "ask"
    /\ \/ ~stop[w] /\ Go(w, "querying")
       \/ Go(w, AfterQuery(w))
    /\ UNCHANGED <<uiVars, appVars, todo, stop, error>>

\* The query's thread ends; a script that is to stop waits for that too
\* (thread.Delete() on a joinable thread), and its query is not cancelled.
\* A success that comes too late is not reported.
QueryEnds(w) ==
    /\ pc[w] = "querying"
    /\ \/ Go(w, "report")
       \/ stop[w] /\ Go(w, AfterQuery(w))
    /\ UNCHANGED <<uiVars, appVars, todo, stop, error>>

\* The query and its messages are written under LockOutput.
ReportQuery(w) ==
    /\ pc[w] = "report"
    /\ stream[w] = "free"
    /\ output' = [output EXCEPT ![w] = TRUE]
    /\ Go(w, AfterQuery(w))
    /\ UNCHANGED <<uiVars, mutex, stream, appError, events, todo, stop, error>>

\* TestDestroy behind each statement and each turn of a loop.  (Mutant: a
\* loop does not ask.)
MutToStop(w) == stop[w] /\ Current(w) # "loop"

ToStop(w) == stop[w]

Remaining(w) == IF Current(w) = "loop" THEN todo[w] ELSE Tail(todo[w])

Check(w) ==
    /\ pc[w] = "check"
    /\ IF ToStop(w)
       THEN Go(w, "throw") /\ UNCHANGED todo
       ELSE /\ todo' = [todo EXCEPT ![w] = Remaining(w)]
            /\ Go(w, IF Remaining(w) = <<>> THEN "leave" ELSE "stmt")
    /\ UNCHANGED <<uiVars, appVars, stop, error>>

\* An exception, an interruption or a syntax error is written out with its
\* line and ends the script.
Throw(w) ==
    /\ pc[w] = "throw"
    /\ stream[w] = "free"
    /\ error' = [error EXCEPT ![w] = TRUE]
    /\ output' = [output EXCEPT ![w] = TRUE]
    /\ Go(w, "leave")
    /\ UNCHANGED <<uiVars, mutex, stream, appError, events, todo, stop>>

\* ~pgsThread: Complete, and then m_mutex.Post().  (Mutant: Complete posts
\* m_mutex as well.)
MutLeave(w) ==
    /\ pc[w] = "leave"
    /\ Complete(w, error[w])
    /\ mutex' = [mutex EXCEPT ![w] = @ + 1]
    /\ Go(w, "done")
    /\ UNCHANGED <<frame, tools, timer, yielding, locking, runs, stream,
                   output, todo, stop, error>>

Leave(w) ==
    /\ pc[w] = "leave"
    /\ Complete(w, error[w])
    /\ Go(w, "done")
    /\ UNCHANGED <<frame, tools, timer, yielding, locking, runs, mutex, stream,
                   output, todo, stop, error>>

Post(w) ==
    /\ pc[w] = "done"
    /\ mutex' = [mutex EXCEPT ![w] = @ + 1]
    /\ Go(w, "none")
    /\ UNCHANGED <<uiVars, stream, appError, output, events, todo, stop, error>>

Thread(w) ==
    \/ Parse(w) \/ BeginPrint(w) \/ EndPrint(w) \/ BeginStatement(w)
    \/ AskQuery(w) \/ QueryEnds(w) \/ ReportQuery(w) \/ Check(w) \/ Throw(w)
    \/ Leave(w) \/ Post(w)

Next == \E w \in Windows : UI(w) \/ Thread(w)

Spec == Init /\ [][Next]_vars

(***************************************************************************)
(* Fairness.  A thread is scheduled again and its queries end; a turn of   *)
(* the event loop handles every posted event and a Yield comes to its end, *)
(* however often the timer fires in between.  Nothing is assumed of the    *)
(* user or of the timer.                                                   *)
(***************************************************************************)
FairSpec ==
    /\ Spec
    /\ \A w \in Windows :
          /\ WF_vars(Thread(w))
          /\ SF_vars(StartScript(w))
          /\ SF_vars(OnScriptComplete(w))
          /\ WF_vars(WriteOutput(w))

-----------------------------------------------------------------------------
(* Properties                                                              *)

\* Every variable has its type; m_mutex is a binary semaphore, and whoever
\* waits for m_stream is a handler of some window.
TypeOK ==
    /\ flag \in BOOLEAN
    /\ frame \in [Windows -> {"open", "closed", "gone"}]
    /\ tools \in [Windows -> {"execute", "cancel", "none"}]
    /\ timer \in [Windows -> BOOLEAN]
    /\ yielding \in Windows \cup {NoWindow}
    /\ locking \in [handler : {"notify", "complete"}, window : Windows] \cup {NoLock}
    /\ runs \in 0..MaxRuns
    /\ mutex \in [Windows -> 0..1]
    /\ stream \in [Windows -> {"free", "thread"}]
    /\ appError \in [Windows -> BOOLEAN]
    /\ output \in [Windows -> BOOLEAN]
    /\ events \in [Windows -> Nat]
    /\ pc \in [Windows -> Interpreting \cup {"none", "leave", "done"}]
    /\ todo \in [Windows -> Seq(Statement \cup {"syntax"})]
    /\ stop \in [Windows -> BOOLEAN]
    /\ error \in [Windows -> BOOLEAN]

\* "Required because the pgScript parser isn't currently thread-safe": no
\* two threads are ever inside the interpreter, whatever is executed,
\* cancelled and closed in whichever window, and although a window that is
\* closed does not wait for its thread.
OneParser ==
    \A v, w \in Windows :
        pc[v] \in Interpreting /\ pc[w] \in Interpreting => v = w

\* A completion that waits to be handled is the only one, and it is about
\* the script executed last: the window shows this script's error line.
CompletionIsCurrent ==
    \A w \in Windows : events[w] > 0 =>
        /\ events[w] = 1
        /\ pc[w] \in {"done", "none"}
        /\ appError[w] = error[w]

\* When the flag is down, everything a completed script has written is on
\* display: no text is left behind to turn up in front of the output of a
\* later script.
OutputShown ==
    ~flag => \A w \in Windows : frame[w] = "open" => ~output[w]

Loops(w) == \E i \in 1..Len(todo[w]) : todo[w][i] = "loop"

\* A script that was started ends and its window says so: Execute is
\* offered again, unless the window is closed or a script loops.
ScriptCompletes ==
    \A w \in Windows :
        pc[w] = "parse" /\ ~Loops(w)
            ~> tools[w] = "execute" \/ frame[w] # "open"

\* The GUI thread does not wait for the output of a script for ever, unless
\* that script prints in an endless loop: the semaphore keeps no queue, and
\* may be the loop's every time.
UIResponsive ==
    \A w \in Windows :
        locking.window = w ~> locking = NoLock \/ Loops(w)

\* A script that was asked to stop ends, whatever it is doing, also in a
\* loop without an end.
CancelledScriptEnds ==
    \A w \in Windows : stop[w] /\ pc[w] # "none" ~> pc[w] = "none"

\* PRINT "prints an expression on the screen", whatever the expression.
PrintPrints ==
    \A w \in Windows :
        pc[w] = "stmt" /\ Current(w) \in {"print", "print_query"} ~> pc[w] = "check"

=============================================================================
