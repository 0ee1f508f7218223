------------------------------ MODULE Debugger ------------------------------
(***************************************************************************)
(* The PL debugger: dbgController with the handlers of its events, and the *)
(* commands of its window (debugger/dbgController.cpp, dbgEvents.cpp,      *)
(* frmDebugger.cpp).                                                       *)
(*                                                                         *)
(* The controller drives two query threads, which execute the queries that *)
(* were queued for them in order and post an event for each answer:        *)
(* m_dbgThread talks to the debugger's proxy, and in a direct session      *)
(* m_execConnThread executes the function that is debugged.  A thread ends *)
(* only when it was cancelled.                                             *)
(*                                                                         *)
(* All of the controller runs in the GUI thread, whose handlers nest where *)
(* one of them calls wxTheApp->Yield or shows a message box; stack holds   *)
(* the calls under way, the innermost first.  m_dbgThreadLock is locked in *)
(* the GUI thread only, and a wxMutex refuses a second Lock of its owner   *)
(* without waiting, a result nobody looks at: it holds off none of these   *)
(* handlers and is left out.                                               *)
(***************************************************************************)
EXTENDS Integers, Sequences

CONSTANTS
    MaxStarts,  \* bound on the starts of a session in one window
    MaxPending, \* bound on the queries and events under way when the user asks
                \* for something, in the first session; one less in the next
    MaxDepth,   \* bound on the nesting of handlers
    Hasty       \* the user may close or start over before a handler that yields
                \* ends and what was posted is handled

ASSUME BoundsAssumption ==
    /\ MaxStarts \in Nat /\ MaxPending \in Nat
    /\ MaxDepth \in Nat \ {0}
ASSUME HastyAssumption == Hasty \in BOOLEAN

VARIABLES
    kind,       \* m_sessionType
    window,     \* the window is open or closed
    tools,      \* the tools are enabled: [step, cont], cont being Continue
    conn,       \* m_dbgConn: usable, closed or broken, or deleted
    terminated, \* m_terminated
    stopping,   \* m_isStopping
    dbg,        \* m_dbgThread is not NULL
    queue,      \* its queries, the one it is executing first
    exec,       \* m_execConnThread
    execCancelled, \* CancelExecution was called on it
    pid,        \* m_currTargetPid is known
    stack,      \* calls in progress in the GUI thread: [at, by]
    events,     \* answers and notices not handled yet: [id, rc, current]
    starts,     \* number of starts
    shown,      \* a source is displayed
    stackOf,    \* the call stack on display: none, that of the position the
                \* program is at, or of an old one
    varsOf,     \* the variables on display, likewise
    brokenOff   \* history: this start failed, or its argument dialog was cancelled

dbgVars == <<dbg, queue>>
execVars == <<exec, execCancelled>>
flagVars == <<terminated, stopping>>
viewVars == <<shown, stackOf, varsOf>>
boundVars == <<kind, starts>>
vars == <<kind, window, tools, conn, flagVars, dbgVars, execVars, pid, stack,
          events, starts, viewVars, brokenOff>>

\* Queries that move the proxy in the program; the answers to all of them
\* are RESULT_ID_BREAKPOINT.
Moves == {"wait_breakpoint", "step", "frame"}
Queries == Moves \cup {"attach", "listener", "add_breakpoint", "wait_target",
                       "stack", "breakpoints", "vars", "set_breakpoint", "deposit"}

NoTools == [step |-> FALSE, cont |-> FALSE]

Init ==
    /\ kind \in {"direct", "incontext"}
    /\ window = "open"
    /\ tools = NoTools
    /\ conn = "ok"
    /\ terminated = FALSE /\ stopping = FALSE
    /\ dbg = FALSE /\ queue = <<>>
    /\ exec = "none" /\ execCancelled = FALSE
    /\ pid = FALSE
    /\ stack = <<>>
    /\ events = <<>>
    /\ starts = 0
    /\ shown = FALSE /\ stackOf = "none" /\ varsOf = "none"
    /\ brokenOff = FALSE

-----------------------------------------------------------------------------
(* Calls                                                                   *)

\* Where other handlers may come in: the single Yields of Start,
\* ResultTargetComplete and HandleQuery, the loop of Stop, a message box.
Yields == {"start", "complete", "error", "stop_loop", "box"}

Top == Head(stack)
At(place) == stack # <<>> /\ Top.at = place

CanDispatch ==
    \/ stack = <<>>
    \/ Len(stack) \in 1..(MaxDepth - 1) /\ Top.at \in Yields

\* A message box shuts the window off.
CanInput ==
    /\ CanDispatch
    /\ window = "open"
    /\ \A i \in DOMAIN stack : stack[i].at # "box"

Patient == Hasty \/ (stack = <<>> /\ events = <<>>)

Call(place, by) == stack' = <<[at |-> place, by |-> by]>> \o stack
Become(place, by) == stack' = <<[at |-> place, by |-> by]>> \o Tail(stack)
Return == stack' = Tail(stack)

CanRestart == conn = "bad"

\* frmDebugger::EnableToolsAndMenus: Continue stays, to restart.
EnableTools(enable) == tools' = [step |-> enable, cont |-> enable \/ CanRestart]

Age(current) == IF current THEN "current" ELSE "old"
Outdated(view) == IF view = "none" THEN "none" ELSE "old"

\* m_dbgThread->AddQuery.
AddQueries(qs) == queue' = queue \o qs

\* CancelExecution, Wait and delete of m_dbgThread.  The query it executes is
\* cancelled, which raises no event, or was just answered.
EndDebugThread ==
    /\ dbg' = FALSE /\ queue' = <<>>
    /\ \/ UNCHANGED events
       \/ /\ queue # <<>>
          /\ events' = Append(events, [id |-> Head(queue), rc |-> "ok", current |-> TRUE])

ExecRunning == exec \in {"running", "announced", "answered"}

-----------------------------------------------------------------------------
(* Stopping                                                                *)

\* The end of Stop, both threads gone, and what its caller does then: OnClose
\* deletes the connection and closes the window.
StopRest(below, by) ==
    /\ exec' = "none" /\ execCancelled' = FALSE
    /\ EndDebugThread
    /\ terminated' = TRUE /\ stopping' = FALSE
    /\ IF by = "close" THEN window' = "closed" /\ conn' = "deleted"
                       ELSE conn' = "bad" /\ UNCHANGED window
    /\ stack' = below

\* Stop up to its loop, called with the calls below it on the stack.  If the
\* session is over it returns true, in the middle of another Stop false: then
\* OnClose vetoes, and HandleQuery sets m_terminated all the same.
Stop(below, by) ==
    IF terminated \/ stopping
    THEN /\ IF by = "close" /\ terminated
            THEN window' = "closed" /\ conn' = "deleted"
            ELSE UNCHANGED <<window, conn>>
         /\ terminated' = (terminated \/ by = "error")
         /\ stack' = below
         /\ UNCHANGED <<stopping, dbgVars, events, execVars>>
    ELSE IF ExecRunning
    THEN /\ stopping' = TRUE
         /\ execCancelled' = TRUE
         /\ stack' = <<[at |-> "stop_loop", by |-> by]>> \o below
         /\ UNCHANGED <<window, conn, terminated, dbgVars, events, exec>>
    ELSE StopRest(below, by)

StopTools == IF terminated \/ stopping THEN UNCHANGED tools ELSE EnableTools(FALSE)

\* Stop's loop ends with the second thread, or when another handler has
\* deleted it.
LoopOver ==
    /\ At("stop_loop")
    /\ ~ExecRunning
    /\ StopRest(Tail(stack), Top.by)
    /\ UNCHANGED <<boundVars, tools, pid, viewVars, brokenOff>>

-----------------------------------------------------------------------------
(* Starting                                                                *)

\* Start up to its Yield, for the constructor and for Continue.  Either the
\* reconnection or the thread's creation may fail.
Start ==
    /\ CanInput /\ Patient
    /\ starts < MaxStarts
    /\ starts = 0 \/ (tools.cont /\ CanRestart)
    /\ starts' = starts + 1
    /\ EnableTools(FALSE)
    /\ \/ CanRestart /\ UNCHANGED <<conn, dbgVars, stack, brokenOff>>
       \/ /\ conn' = "ok"
          /\ dbg' = FALSE /\ queue' = <<>>
          /\ brokenOff' = TRUE
          /\ UNCHANGED stack
       \/ /\ conn' = "ok"
          /\ brokenOff' = FALSE
          /\ dbg' = TRUE /\ queue' = <<>>
          /\ Call("start", "user")
    /\ UNCHANGED <<kind, window, flagVars, execVars, pid, events, viewVars>>

\* The rest of Start.  In a direct session the user may be asked for the
\* arguments, and cancel; or the second thread may not be created.
Started ==
    /\ At("start")
    /\ \/ /\ kind = "direct"
          /\ terminated' = FALSE /\ stopping' = FALSE
          /\ exec' = "running" /\ execCancelled' = FALSE
          /\ Return
          /\ UNCHANGED <<window, tools, conn, dbgVars, events, brokenOff>>
       \/ /\ kind = "direct"
          /\ terminated' = TRUE /\ stopping' = FALSE
          /\ brokenOff' = TRUE
          /\ conn' = "bad"
          /\ tools' = [NoTools EXCEPT !.cont = TRUE]
          /\ Return
          /\ UNCHANGED <<window, dbgVars, execVars, events>>
       \/ /\ kind = "direct"
          /\ EnableTools(FALSE)
          /\ StopRest(Tail(stack), "return")
          /\ UNCHANGED brokenOff
       \/ /\ kind = "incontext"
          /\ terminated' = FALSE /\ stopping' = FALSE
          /\ AddQueries(<<"listener">>)
          /\ Return
          /\ UNCHANGED <<window, tools, conn, dbg, execVars, events, brokenOff>>
    /\ UNCHANGED <<boundVars, pid, viewVars>>

-----------------------------------------------------------------------------
(* Answers                                                                 *)

\* The event of a query, or a notice, is taken from the queue.
Dispatch(ids) ==
    /\ CanDispatch
    /\ window = "open"
    /\ events # <<>>
    /\ Head(events).id \in ids
    /\ events' = Tail(events)

\* OnStartDebugging: attach to the port of the PLDBGBREAK notice.
OnStartDebugging ==
    /\ Dispatch({"break"})
    /\ IF dbg THEN AddQueries(<<"attach">>) ELSE UNCHANGED queue
    /\ UNCHANGED <<boundVars, window, tools, conn, flagVars, dbg, execVars,
                   pid, stack, viewVars, brokenOff>>

\* What the handler of an answer asks next.
FollowUps ==
    [attach |-> {<<"wait_breakpoint">>, <<"wait_breakpoint", "set_breakpoint">>},
     listener |-> {<<"add_breakpoint">>},
     add_breakpoint |-> {<<"wait_target">>},
     wait_target |-> {<<"wait_breakpoint">>},
     wait_breakpoint |-> {<<"stack">>},
     step |-> {<<"stack">>},
     frame |-> {<<"stack">>},
     stack |-> {<<"breakpoints">>},
     breakpoints |-> {<<"vars">>},
     deposit |-> {<<>>, <<"vars">>},
     set_breakpoint |-> {<<>>},
     vars |-> {<<>>}]

\* (Mutants: the wait for a target, or the stack after a step, is forgotten.)
MutNoWait(id) == IF id = "add_breakpoint" THEN {<<>>} ELSE FollowUps[id]
MutNoStack(id) == IF id = "step" THEN {<<>>} ELSE FollowUps[id]

FollowUp(id) == FollowUps[id]

\* Any of the Result... handlers, its query having succeeded, while
\* m_dbgThread runs.
Answered ==
    /\ Dispatch(Queries)
    /\ LET e == Head(events) IN
       /\ dbg /\ e.rc = "ok"
       /\ \E qs \in FollowUp(e.id) : AddQueries(qs)
       /\ IF e.id \in Moves THEN EnableTools(TRUE)
          ELSE IF e.id \in {"attach", "add_breakpoint", "wait_target"} THEN EnableTools(FALSE)
          ELSE UNCHANGED tools
       /\ pid' = (pid \/ e.id = "wait_target")
       /\ shown' = (shown \/ e.id \in Moves)
       /\ stackOf' = IF e.id = "stack" THEN Age(e.current) ELSE stackOf
       /\ varsOf' = IF e.id = "vars" THEN Age(e.current) ELSE varsOf
    /\ UNCHANGED <<boundVars, window, conn, flagVars, dbg, execVars,
                   stack, brokenOff>>

\* HandleQuery up to its Yield, for a query that failed.
Failed ==
    /\ Dispatch(Queries)
    /\ LET e == Head(events) IN
       /\ dbg /\ e.rc # "ok"
       /\ EnableTools(FALSE)
       /\ Call("error", e.rc)
    /\ UNCHANGED <<boundVars, window, conn, flagVars, dbgVars, execVars, pid,
                   viewVars, brokenOff>>

\* HandleQuery without a thread: "exit this flow gracefully".
Ignored ==
    /\ Dispatch(Queries)
    /\ ~dbg
    /\ IF Head(events).id = "wait_target" THEN EnableTools(FALSE) ELSE UNCHANGED tools
    /\ UNCHANGED <<boundVars, window, conn, flagVars, dbgVars, execVars, pid, stack,
                   viewVars, brokenOff>>

\* HandleQuery behind its Yield.  IsAlive may find the connection broken.  An
\* in-context session whose target has gone waits for the next one; any
\* other ends, mostly behind a message box.
ErrorHandled ==
    /\ At("error")
    /\ \/ /\ conn = "ok" /\ Top.by = "fatal" /\ kind = "incontext" /\ pid
          /\ \/ /\ pid' = FALSE
                /\ AddQueries(<<"wait_target">>)
                /\ Return
                /\ UNCHANGED <<window, tools, conn, flagVars, dbg, execVars, events>>
             \/ Stop(Tail(stack), "error") /\ StopTools /\ UNCHANGED pid
       \/ /\ conn = "ok" => ~(Top.by = "fatal" /\ kind = "incontext" /\ pid)
          /\ Become("box", "error")
          /\ UNCHANGED <<window, tools, conn, flagVars, dbgVars, execVars, pid, events>>
       \/ /\ conn = "ok"
          /\ conn' = "bad"
          /\ Become("box", "error")
          /\ UNCHANGED <<window, tools, flagVars, dbgVars, execVars, pid, events>>
    /\ UNCHANGED <<boundVars, viewVars, brokenOff>>

BoxClosed ==
    /\ At("box")
    /\ Stop(Tail(stack), "error") /\ StopTools
    /\ UNCHANGED <<boundVars, pid, viewVars, brokenOff>>

\* ResultTargetComplete up to its Yield.  (Mutant: the flag is left to the end.)
MutTargetComplete ==
    /\ Dispatch({"complete"})
    /\ EnableTools(FALSE)
    /\ Call("complete", "user")
    /\ UNCHANGED <<boundVars, window, conn, flagVars, dbgVars, execVars, pid,
                   viewVars, brokenOff>>

TargetComplete ==
    /\ Dispatch({"complete"})
    /\ EnableTools(FALSE)
    /\ terminated' = TRUE
    /\ Call("complete", "user")
    /\ UNCHANGED <<boundVars, window, conn, stopping, dbgVars, execVars, pid,
                   viewVars, brokenOff>>

\* The rest of it: both threads are ended, if they are still there, and the
\* connection is closed.  (Mutant: the connection is left as it is.)
MutCompleted ==
    /\ At("complete")
    /\ exec' = "none" /\ execCancelled' = FALSE
    /\ EndDebugThread
    /\ tools' = [NoTools EXCEPT !.cont = CanRestart]
    /\ Return
    /\ UNCHANGED <<boundVars, window, conn, flagVars, pid,
                   viewVars, brokenOff>>

Completed ==
    /\ At("complete")
    /\ exec' = "none" /\ execCancelled' = FALSE
    /\ EndDebugThread
    /\ conn' = IF conn = "deleted" THEN conn ELSE "bad"
    /\ tools' = [NoTools EXCEPT !.cont = (conn' = "bad")]
    /\ Return
    /\ UNCHANGED <<boundVars, window, flagVars, pid,
                   viewVars, brokenOff>>

-----------------------------------------------------------------------------
(* Commands of the window                                                  *)

\* Countinue, StepOver, StepInto, SetBreakpoint, ClearBreakpoint,
\* UpdateBreakpoints, DepositValue and SelectFrame look at the flags only.
Listening == ~terminated /\ ~stopping

Ask(qs) ==
    /\ Len(queue) + Len(events) + starts <= MaxPending
    /\ IF Listening THEN AddQueries(qs) ELSE UNCHANGED queue
    /\ UNCHANGED <<kind, window, conn, flagVars, dbg, execVars, pid, stack,
                   events, starts, viewVars, brokenOff>>

Step ==
    /\ CanInput
    /\ tools.step \/ (tools.cont /\ ~CanRestart)
    /\ EnableTools(FALSE)
    /\ Ask(<<"step">>)

\* No tool controls these: they are clicks into the stack, the margin of
\* the source and the grid of the variables.
SelectFrame == CanInput /\ stackOf # "none" /\ Ask(<<"frame">>) /\ UNCHANGED tools
ToggleBreakpoint ==
    CanInput /\ shown /\ Ask(<<"set_breakpoint", "breakpoints">>) /\ UNCHANGED tools
DepositValue == CanInput /\ varsOf # "none" /\ Ask(<<"deposit">>) /\ UNCHANGED tools

OnStop ==
    /\ CanInput
    /\ tools.step
    /\ EnableTools(FALSE)
    /\ Stop(stack, "return")
    /\ UNCHANGED <<boundVars, pid, viewVars, brokenOff>>

\* frmDebugger::OnClose; the user has agreed.
OnClose ==
    /\ CanInput
    /\ stack = <<>> \/ Hasty
    /\ starts > 0
    /\ Stop(stack, "close") /\ StopTools
    /\ UNCHANGED <<boundVars, pid, viewVars, brokenOff>>

\* Nothing is left to do in a window that was closed.
Closed == window = "closed" /\ stack = <<>> /\ UNCHANGED vars

GUI ==
    \/ Started \/ LoopOver \/ ErrorHandled \/ BoxClosed \/ Completed

Handlers == OnStartDebugging \/ Answered \/ Failed \/ Ignored \/ TargetComplete

User ==
    \/ Start \/ Step \/ SelectFrame \/ ToggleBreakpoint \/ DepositValue
    \/ OnStop \/ OnClose

-----------------------------------------------------------------------------
(* The threads                                                             *)

guiVars == <<boundVars, window, tools, flagVars, pid, stack, viewVars, brokenOff>>

\* m_dbgThread's answer to its query, which then takes the next: "fatal" is
\* an error of the server, the end of the target included, "lost" anything
\* without a result.
AnswerQuery ==
    /\ dbg /\ queue # <<>>
    /\ queue' = Tail(queue)
    /\ \E rc \in {"ok", "fatal", "lost"} :
          /\ rc # "lost" => conn = "ok"
          /\ conn' = IF rc = "lost" /\ conn = "ok" THEN "bad" ELSE conn
          /\ LET e == [id |-> Head(queue), rc |-> rc, current |-> TRUE] IN
             IF rc = "ok" /\ e.id \in Moves
             THEN /\ events' = Append([i \in DOMAIN events |-> [events[i] EXCEPT !.current = FALSE]], e)
                  /\ stackOf' = Outdated(stackOf)
                  /\ varsOf' = Outdated(varsOf)
             ELSE /\ events' = Append(events, e)
                  /\ UNCHANGED <<stackOf, varsOf>>
    /\ UNCHANGED <<boundVars, window, tools, flagVars, dbg, execVars, pid, stack,
                   shown, brokenOff>>

\* The function stops at its first line: NoticeHandler, in the second
\* thread, does not listen when the session is terminated.
TargetStops ==
    /\ exec = "running"
    /\ exec' = "announced"
    /\ events' = IF terminated THEN events
                 ELSE Append(events, [id |-> "break", rc |-> "ok", current |-> TRUE])
    /\ UNCHANGED <<guiVars, conn, dbgVars, execCancelled>>

\* The function ends.  A query that was cancelled raises no event, one that
\* ended before the thread saw that does.  (Mutant: the thread was not told
\* SetEventOnCancellation(false).)
MutTargetEnds ==
    /\ exec \in {"running", "announced"}
    /\ exec' = "answered"
    /\ \E rc \in IF execCancelled THEN {"ok", "cancelled"} ELSE {"ok"} :
          events' = Append(events, [id |-> "complete", rc |-> rc, current |-> TRUE])
    /\ UNCHANGED <<guiVars, conn, dbgVars, execCancelled>>

TargetEnds ==
    /\ exec \in {"running", "announced"}
    /\ exec' = "answered"
    /\ \/ execCancelled /\ UNCHANGED events
       \/ events' = Append(events, [id |-> "complete", rc |-> "ok", current |-> TRUE])
    /\ UNCHANGED <<guiVars, conn, dbgVars, execCancelled>>

ExecEnds ==
    /\ exec = "answered" /\ execCancelled
    /\ exec' = "ended"
    /\ UNCHANGED <<guiVars, conn, dbgVars, execCancelled, events>>

Threads == AnswerQuery \/ TargetStops \/ TargetEnds \/ ExecEnds

Next == GUI \/ Handlers \/ User \/ Threads \/ Closed

Spec == Init /\ [][Next]_vars

-----------------------------------------------------------------------------
(* Properties                                                              *)

Events == [id : Queries \cup {"break", "complete"}, rc : {"ok", "fatal", "lost"}, current : BOOLEAN]

Frames == [at : Yields,
           by : {"user", "return", "close", "error", "fatal", "lost"}]

\* Every variable has its type, and handlers do not nest beyond the bound.
TypeOK ==
    /\ kind \in {"direct", "incontext"}
    /\ window \in {"open", "closed"}
    /\ tools \in [step : BOOLEAN, cont : BOOLEAN]
    /\ conn \in {"ok", "bad", "deleted"}
    /\ terminated \in BOOLEAN /\ stopping \in BOOLEAN
    /\ dbg \in BOOLEAN
    /\ queue \in Seq(Queries)
    /\ exec \in {"none", "running", "announced", "answered", "ended"}
    /\ execCancelled \in BOOLEAN
    /\ pid \in BOOLEAN
    /\ stack \in Seq(Frames) /\ Len(stack) <= MaxDepth
    /\ events \in Seq(Events)
    /\ starts \in 0..MaxStarts
    /\ shown \in BOOLEAN
    /\ stackOf \in {"none", "old", "current"}
    /\ varsOf \in {"none", "old", "current"}
    /\ brokenOff \in BOOLEAN

\* When a session has terminated - by Stop, by the end of the function, by an
\* error, or by several of them nested in each other's Yields - both threads
\* have ended and the connection is closed.  A cancelled argument dialog is
\* the exception.
NothingLeftBehind ==
    terminated /\ stack = <<>> /\ ~brokenOff =>
        ~dbg /\ exec = "none" /\ conn # "ok"

\* The commands that add to m_dbgThread's queue look at the two flags only,
\* and HandleQuery at the state before its Yield: the thread is there.
ThreadIsThere ==
    /\ Listening /\ shown => dbg
    /\ At("error") /\ conn = "ok" /\ kind = "incontext" /\ Top.by = "fatal" => dbg
    /\ Listening /\ ExecRunning => dbg

\* While a session lasts and nothing is under way, the tools are enabled:
\* the user is never left without a way to go on.
Quiet == stack = <<>> /\ events = <<>> /\ queue = <<>>
NotStranded ==
    Quiet /\ dbg /\ ~terminated => tools.step \/ exec # "none"

\* The stack and the variables that stay on display are those of the position
\* the program is at, however quickly the user went on.
ViewIsCurrent ==
    Quiet /\ dbg /\ tools.step => stackOf = "current" /\ varsOf = "current"

=============================================================================
