--------------------------- MODULE PgScriptProofs ---------------------------
(***************************************************************************)
(* Proofs about PgScript, for every set of windows and scripts and every   *)
(* bound on the executions.                                                *)
(*                                                                         *)
(* OneParser is not inductive: it needs to know who owns the flag.  An     *)
(* execution has the flag from OnExecScript until WriteOutput completes    *)
(* it, and passes through four stages: its handler yields, its thread      *)
(* runs, its completion waits in the queue, its handler waits for the      *)
(* output.  The invariant says that at most one window is in any of them,  *)
(* in one of them only, and only while the flag is up.  The last section   *)
(* says who holds the output lock, and that a PRINT which has to report    *)
(* the query in its expression waits for itself.                           *)
(***************************************************************************)
EXTENDS PgScript, TLAPS

Active == Interpreting \cup {"leave"}
Completing(w) == locking.handler = "complete" /\ locking.window = w

\* An execution of window w owns the flag.
Claims(w) ==
    \/ yielding = w
    \/ pc[w] \in Active
    \/ events[w] > 0
    \/ Completing(w)

\* m_mutex tells whether there is a thread.
MutexThread == \A w \in Windows : mutex[w] = 0 <=> pc[w] # "none"

ClaimNeedsFlag == \A w \in Windows : Claims(w) => flag

OneClaim == \A v, w \in Windows : Claims(v) /\ Claims(w) => v = w

OneStage ==
    \A w \in Windows :
        /\ yielding = w =>
              pc[w] \notin Active /\ events[w] = 0 /\ ~Completing(w)
        /\ pc[w] \in Active => events[w] = 0 /\ ~Completing(w)
        /\ events[w] > 0 => events[w] = 1 /\ ~Completing(w)

\* The error line that a completion carries.
ErrorCarried == \A w \in Windows : events[w] > 0 => appError[w] = error[w]

\* The interpreter has a current statement.
HasStatement == \A w \in Windows : pc[w] \in Interpreting => todo[w] # <<>>

IInv ==
    /\ TypeOK
    /\ HasStatement
    /\ MutexThread
    /\ ClaimNeedsFlag
    /\ OneClaim
    /\ OneStage
    /\ ErrorCarried

-----------------------------------------------------------------------------
(* Initial states                                                          *)

\* The program starts with no script and the flag down.
LEMMA InitIInv == Init => IInv
<1> SUFFICES ASSUME Init PROVE IInv
  OBVIOUS
<1>1. TypeOK
  <2>1. runs \in 0..MaxRuns
    BY MaxRunsAssumption DEF Init
  <2>2. yielding \in Windows \cup {NoWindow} /\ locking \in {NoLock}
    BY DEF Init
  <2>3. todo \in [Windows -> Seq(Statement \cup {"syntax"})]
    BY DEF Init
  <2>5. flag \in BOOLEAN
    BY DEF Init
  <2>4. /\ frame \in [Windows -> {"open", "closed", "gone"}]
        /\ tools \in [Windows -> {"execute", "cancel", "none"}]
        /\ timer \in [Windows -> BOOLEAN]
        /\ mutex \in [Windows -> 0..1]
        /\ stream \in [Windows -> {"free", "thread"}]
        /\ appError \in [Windows -> BOOLEAN]
        /\ output \in [Windows -> BOOLEAN]
        /\ events \in [Windows -> Nat]
        /\ pc \in [Windows -> Interpreting \cup {"none", "leave", "done"}]
        /\ stop \in [Windows -> BOOLEAN]
        /\ error \in [Windows -> BOOLEAN]
    BY DEF Init
  <2> QED
    BY <2>1, <2>2, <2>3, <2>4, <2>5 DEF TypeOK
<1>2. ASSUME NEW w \in Windows
      PROVE  /\ pc[w] = "none" /\ mutex[w] = 1 /\ events[w] = 0
             /\ yielding # w /\ ~Completing(w)
  <2>1. pc[w] = "none" /\ mutex[w] = 1 /\ events[w] = 0
    BY DEF Init
  <2>2. yielding # w
    BY NoWindowAssumption DEF Init
  <2>3. ~Completing(w)
    BY DEF Init, NoLock, Completing
  <2> QED
    BY <2>1, <2>2, <2>3
<1>3. HasStatement /\ MutexThread /\ ErrorCarried
  BY <1>2 DEF HasStatement, MutexThread, ErrorCarried, Interpreting
<1>4. ASSUME NEW w \in Windows PROVE ~Claims(w)
  <2>1. pc[w] = "none" /\ events[w] = 0 /\ yielding # w /\ ~Completing(w)
    BY <1>2
  <2>2. pc[w] \notin Active
    BY <2>1 DEF Active, Interpreting
  <2>3. ~(events[w] > 0)
    BY <2>1
  <2> QED
    BY <2>1, <2>2, <2>3 DEF Claims
<1>5. ClaimNeedsFlag /\ OneClaim
  BY <1>4 DEF ClaimNeedsFlag, OneClaim
<1>6. OneStage
  BY <1>2, <1>4 DEF OneStage, Claims
<1> QED
  BY <1>1, <1>3, <1>5, <1>6 DEF IInv

-----------------------------------------------------------------------------
(* Types                                                                   *)

\* A script is a sequence of statements with at least one element.
LEMMA ScriptTyped ==
  ASSUME NEW s \in Scripts
  PROVE  s \in Seq(Statement \cup {"syntax"}) /\ s # <<>>
<1>1. CASE s = <<"syntax">>
  BY <1>1
<1>2. CASE s \in Seq(Statement) \ {<<>>}
  BY <1>2
<1> QED
  BY <1>1, <1>2, ScriptsAssumption DEF Script

\* What is left of a script is a sequence of statements.
LEMMA RemainingTyped ==
  ASSUME NEW w \in Windows, TypeOK, todo[w] # <<>>
  PROVE  Remaining(w) \in Seq(Statement \cup {"syntax"})
BY DEF TypeOK, Remaining

\* The steps of the windows keep the types and the current statements.
LEMMA UITyped ==
  ASSUME NEW w \in Windows, IInv, UI(w)
  PROVE  TypeOK' /\ HasStatement'
<1> USE DEF IInv, TypeOK, HasStatement, uiVars, appVars, threadVars
<1>1. CASE OnExecScript(w)
  BY <1>1, MaxRunsAssumption DEF OnExecScript
<1>2. CASE StartScript(w)
  <2>1. CASE IsRunning(w)
    BY <1>2, <2>1 DEF StartScript, ParseString
  <2>2. CASE ~IsRunning(w) /\ Complete(w, FALSE) /\ error' = [error EXCEPT ![w] = FALSE]
             /\ UNCHANGED <<mutex, pc, todo, stop>>
    BY <1>2, <2>2 DEF StartScript, Complete
  <2>3. ASSUME NEW s \in Scripts, ~IsRunning(w),
               todo' = [todo EXCEPT ![w] = s],
               mutex' = [mutex EXCEPT ![w] = 0],
               appError' = [appError EXCEPT ![w] = FALSE],
               pc' = [pc EXCEPT ![w] = "parse"],
               stop' = [stop EXCEPT ![w] = FALSE],
               error' = [error EXCEPT ![w] = FALSE],
               UNCHANGED <<flag, events>>
        PROVE  TypeOK' /\ HasStatement'
    BY <1>2, <2>3, ScriptTyped DEF StartScript, Interpreting
  <2> QED
    BY <1>2, <2>1, <2>2, <2>3 DEF StartScript, ParseString
<1>3. CASE OnCancel(w)
  BY <1>3 DEF OnCancel, Terminate
<1>4. CASE TimerNotify(w)
  BY <1>4 DEF TimerNotify, Locking
<1>5. CASE OnScriptComplete(w)
  BY <1>5 DEF OnScriptComplete, Locking
<1>6. CASE WriteOutput(w)
  BY <1>6 DEF WriteOutput, Show
<1>7. CASE OnClose(w)
  BY <1>7 DEF OnClose, Terminate
<1>8. CASE Deleted(w)
  BY <1>8 DEF Deleted
<1> QED
  BY <1>1, <1>2, <1>3, <1>4, <1>5, <1>6, <1>7, <1>8 DEF UI

\* So do the steps of a thread.
LEMMA ThreadTyped ==
  ASSUME NEW w \in Windows, IInv, Thread(w)
  PROVE  TypeOK' /\ HasStatement'
<1> USE DEF IInv, TypeOK, HasStatement, uiVars, appVars, threadVars, Go,
            Interpreting
<1>1. CASE Parse(w)
  BY <1>1 DEF Parse
<1>2. CASE BeginPrint(w)
  BY <1>2 DEF BeginPrint
<1>3. CASE EndPrint(w)
  BY <1>3 DEF EndPrint, Unlock
<1>4. CASE BeginStatement(w)
  BY <1>4 DEF BeginStatement
<1>5. CASE AskQuery(w)
  BY <1>5 DEF AskQuery, AfterQuery
<1>6. CASE QueryEnds(w)
  BY <1>6 DEF QueryEnds, AfterQuery
<1>7. CASE ReportQuery(w)
  BY <1>7 DEF ReportQuery, AfterQuery
<1>8. CASE Check(w)
  <2>1. Remaining(w) \in Seq(Statement \cup {"syntax"})
    BY <1>8, RemainingTyped DEF Check
  <2>2. CASE ToStop(w)
    BY <1>8, <2>2 DEF Check
  <2>3. CASE ~ToStop(w)
    <3> HIDE DEF IInv
    <3>1. todo' = [todo EXCEPT ![w] = Remaining(w)]
      BY <1>8, <2>3 DEF Check
    <3>2. pc' = [pc EXCEPT ![w] = IF Remaining(w) = <<>> THEN "leave" ELSE "stmt"]
      BY <1>8, <2>3 DEF Check
    <3>3. UNCHANGED <<uiVars, appVars, stop, error>>
      BY <1>8 DEF Check
    <3>4. TypeOK'
      BY <2>1, <3>1, <3>2, <3>3 DEF IInv
    <3>5. HasStatement'
      BY <3>1, <3>2 DEF IInv
    <3> QED
      BY <3>4, <3>5
  <2> QED
    BY <2>2, <2>3
<1>9. CASE Throw(w)
  BY <1>9 DEF Throw
<1>10. CASE Leave(w)
  BY <1>10 DEF Leave, Complete
<1>11. CASE Post(w)
  <2>1. mutex[w] = 0
    BY <1>11 DEF Post, MutexThread
  <2>2. mutex' \in [Windows -> 0..1]
    BY <1>11, <2>1 DEF Post
  <2>3. pc' = [pc EXCEPT ![w] = "none"]
    BY <1>11 DEF Post
  <2> QED
    BY <1>11, <2>2, <2>3 DEF Post
<1> QED
  BY <1>1, <1>2, <1>3, <1>4, <1>5, <1>6, <1>7, <1>8, <1>9, <1>10, <1>11 DEF Thread

-----------------------------------------------------------------------------
(* Ownership                                                               *)

Ownership ==
    /\ MutexThread
    /\ ClaimNeedsFlag
    /\ OneClaim
    /\ OneStage
    /\ ErrorCarried

\* A step of window w that starts no thread, posts no event, and leaves the
\* flag and every claim as they are, or takes claims away.
LEMMA Quiet ==
  ASSUME IInv, UNCHANGED <<mutex, flag, appError>>,
         \A v \in Windows :
            /\ yielding' = v => yielding = v
            /\ Completing(v)' => Completing(v)
            /\ pc'[v] \in Active <=> pc[v] \in Active
            /\ pc'[v] = "none" <=> pc[v] = "none"
            /\ events'[v] = events[v] \/ events'[v] = 0
            /\ error'[v] = error[v] \/ pc[v] \in Active
  PROVE  Ownership'
<1> USE DEF IInv
<1>1. MutexThread'
  BY DEF MutexThread
<1>2. \A v \in Windows : Claims(v)' => Claims(v)
  BY DEF Claims
<1>3. ClaimNeedsFlag' /\ OneClaim'
  BY <1>2 DEF ClaimNeedsFlag, OneClaim
<1>4. OneStage'
  BY DEF OneStage
<1>5. ErrorCarried'
  BY DEF ErrorCarried, OneStage
<1> QED
  BY <1>1, <1>3, <1>4, <1>5 DEF Ownership

\* Nobody is completing once the lock is free or the timer waits for it.
LEMMA NotCompleting ==
  ASSUME NEW v \in Windows,
         locking' = NoLock \/ \E w : locking' = [handler |-> "notify", window |-> w]
  PROVE  ~Completing(v)'
<1>1. locking'.handler # "complete"
  BY DEF NoLock
<1> QED
  BY <1>1 DEF Completing

\* OnExecScript: the flag is down, so nothing is claimed yet.
LEMMA ExecOwnership ==
  ASSUME NEW w \in Windows, IInv, OnExecScript(w)
  PROVE  Ownership'
<1> USE DEF IInv, appVars, threadVars
<1>1. /\ ~flag /\ flag' = TRUE /\ yielding' = w
      /\ UNCHANGED <<locking, mutex, appError, events, pc, error>>
  BY DEF OnExecScript, AlreadyRunning
<1>2. \A v \in Windows : ~Claims(v)
  BY <1>1 DEF ClaimNeedsFlag
<1>3. \A v \in Windows : Completing(v)' = Completing(v)
  BY <1>1 DEF Completing
<1>4. \A v \in Windows : pc'[v] \notin Active /\ ~(events'[v] > 0) /\ ~Completing(v)'
  BY <1>1, <1>2, <1>3 DEF Claims
<1>5. \A v \in Windows : Claims(v)' => v = w
  BY <1>1, <1>4 DEF Claims
<1>6. ClaimNeedsFlag' /\ OneClaim'
  BY <1>1, <1>5 DEF ClaimNeedsFlag, OneClaim
<1>7. \A v \in Windows : events'[v] = 0
  BY <1>1, <1>4 DEF TypeOK
<1>8. OneStage'
  BY <1>4, <1>7 DEF OneStage
<1>9. MutexThread' /\ ErrorCarried'
  BY <1>1, <1>7 DEF MutexThread, ErrorCarried
<1> QED
  BY <1>6, <1>8, <1>9 DEF Ownership

\* StartScript: the window's claim passes from its handler to the thread, or
\* to the event of a thread that could not be started, or is lost.
LEMMA StartOwnership ==
  ASSUME NEW w \in Windows, IInv, StartScript(w)
  PROVE  Ownership'
<1> USE DEF IInv
<1>1. /\ yielding = w /\ yielding' = NoWindow /\ ParseString(w)
      /\ UNCHANGED locking
  BY DEF StartScript
<1>2. flag /\ \A v \in Windows : Claims(v) => v = w
  BY <1>1 DEF ClaimNeedsFlag, OneClaim, Claims
<1>3. pc[w] \notin Active /\ events[w] = 0 /\ ~Completing(w)
  BY <1>1 DEF OneStage
<1>4. \A v \in Windows : yielding' # v
  BY <1>1, NoWindowAssumption
<1>5. \A v \in Windows : Completing(v)' = Completing(v)
  BY <1>1 DEF Completing
<1>6. \A v \in Windows : v # w => pc[v] \notin Active /\ events[v] = 0 /\ ~Completing(v)
  BY <1>2 DEF Claims, TypeOK
<1>7. CASE IsRunning(w)
  <2>1. UNCHANGED <<flag, mutex, appError, events, pc, error>>
    BY <1>1, <1>7 DEF ParseString, threadVars
  <2> QED
    BY <2>1, <1>4, <1>5, Quiet
<1>8. CASE ~IsRunning(w) /\ Complete(w, FALSE) /\ error' = [error EXCEPT ![w] = FALSE]
           /\ UNCHANGED <<mutex, pc, todo, stop>>
  <2>1. flag' = flag /\ UNCHANGED <<mutex, pc>>
    BY <1>8 DEF Complete
  <2>2. events' = [events EXCEPT ![w] = IF frame[w] = "gone" THEN 0 ELSE @ + 1]
    BY <1>8 DEF Complete
  <2>3. events'[w] \in {0, 1} /\ \A v \in Windows : v # w => events'[v] = 0
    BY <1>3, <1>6, <2>2 DEF TypeOK
  <2>4. \A v \in Windows : pc'[v] \notin Active /\ ~Completing(v)'
    BY <1>3, <1>5, <1>6, <2>1
  <2>5. \A v \in Windows : Claims(v)' => v = w
    BY <1>4, <2>3, <2>4 DEF Claims
  <2>6. ClaimNeedsFlag' /\ OneClaim'
    BY <1>2, <2>1, <2>5 DEF ClaimNeedsFlag, OneClaim
  <2>7. OneStage'
    BY <1>4, <2>3, <2>4 DEF OneStage
  <2>8. appError'[w] = FALSE /\ error'[w] = FALSE
    BY <1>8 DEF Complete, TypeOK
  <2>11. \A v \in Windows : events'[v] > 0 => v = w
    BY <2>3
  <2>9. ErrorCarried'
    BY <2>8, <2>11 DEF ErrorCarried
  <2>10. MutexThread'
    BY <2>1 DEF MutexThread
  <2> QED
    BY <2>6, <2>7, <2>9, <2>10 DEF Ownership
<1>9. CASE ~IsRunning(w) /\ mutex' = [mutex EXCEPT ![w] = 0]
           /\ pc' = [pc EXCEPT ![w] = "parse"] /\ UNCHANGED <<flag, events>>
  <2>1. \A v \in Windows : events'[v] = 0 /\ ~Completing(v)'
    BY <1>3, <1>5, <1>6, <1>9
  <2>2. pc'[w] = "parse" /\ \A v \in Windows : v # w => pc'[v] = pc[v]
    BY <1>9 DEF TypeOK
  <2>3. \A v \in Windows : Claims(v)' => v = w
    BY <1>4, <1>6, <2>1, <2>2 DEF Claims
  <2>4. ClaimNeedsFlag' /\ OneClaim'
    BY <1>2, <1>9, <2>3 DEF ClaimNeedsFlag, OneClaim
  <2>5. OneStage' /\ ErrorCarried'
    BY <1>4, <2>1 DEF OneStage, ErrorCarried
  <2>6. mutex'[w] = 0 /\ \A v \in Windows : v # w => mutex'[v] = mutex[v]
    BY <1>9 DEF TypeOK
  <2>7. MutexThread'
    BY <2>2, <2>6 DEF MutexThread
  <2> QED
    BY <2>4, <2>5, <2>7 DEF Ownership
<1> QED
  BY <1>1, <1>7, <1>8, <1>9 DEF ParseString

\* WriteOutput: the handler of a completion gives the last claim back.
LEMMA WriteOwnership ==
  ASSUME NEW w \in Windows, IInv, WriteOutput(w)
  PROVE  Ownership'
<1> USE DEF IInv, threadVars
<1>1. /\ locking.window = w /\ locking' = NoLock
      /\ UNCHANGED <<yielding, mutex, appError, events, pc, error>>
  BY DEF WriteOutput
<1>2. \A v \in Windows : ~Completing(v)'
  BY <1>1, NotCompleting
<1>3. CASE locking.handler = "complete"
  <2>1. Completing(w)
    BY <1>1, <1>3 DEF Completing
  <2>2. \A v \in Windows : Claims(v) => v = w
    BY <2>1 DEF OneClaim, Claims
  <2>3. yielding # w /\ pc[w] \notin Active /\ ~(events[w] > 0)
    BY <2>1 DEF OneStage
  <2>4. \A v \in Windows : yielding # v /\ pc[v] \notin Active /\ ~(events[v] > 0)
    BY <2>2, <2>3 DEF Claims
  <2>5. \A v \in Windows : yielding' # v /\ pc'[v] \notin Active /\ ~(events'[v] > 0)
    BY <1>1, <2>4
  <2>6. \A v \in Windows : ~Claims(v)'
    BY <1>2, <2>5 DEF Claims
  <2>7. ClaimNeedsFlag' /\ OneClaim'
    BY <2>6 DEF ClaimNeedsFlag, OneClaim
  <2>8. OneStage' /\ ErrorCarried'
    BY <2>5 DEF OneStage, ErrorCarried
  <2>9. MutexThread'
    BY <1>1 DEF MutexThread
  <2> QED
    BY <2>7, <2>8, <2>9 DEF Ownership
<1>4. CASE locking.handler # "complete"
  <2>1. UNCHANGED flag
    BY <1>4 DEF WriteOutput
  <2> QED
    BY <1>1, <1>2, <2>1, Quiet
<1> QED
  BY <1>3, <1>4

\* OnScriptComplete: the claim passes from the event to its handler.
LEMMA CompleteOwnership ==
  ASSUME NEW w \in Windows, IInv, OnScriptComplete(w)
  PROVE  Ownership'
<1> USE DEF IInv, threadVars
<1>1. /\ events[w] > 0 /\ events' = [events EXCEPT ![w] = @ - 1]
      /\ locking' = [handler |-> "complete", window |-> w]
      /\ UNCHANGED <<flag, yielding, mutex, appError, pc, error>>
  BY DEF OnScriptComplete, Locking
<1>2. flag /\ \A v \in Windows : Claims(v) => v = w
  BY <1>1 DEF ClaimNeedsFlag, OneClaim, Claims
<1>3. events[w] = 1 /\ yielding # w /\ pc[w] \notin Active
  BY <1>1 DEF OneStage
<1>4. \A v \in Windows : v # w => yielding # v /\ pc[v] \notin Active /\ events[v] = 0
  BY <1>2 DEF Claims, TypeOK
<1>5. \A v \in Windows : events'[v] = 0
  BY <1>1, <1>3, <1>4 DEF TypeOK
<1>6. \A v \in Windows : yielding' # v /\ pc'[v] \notin Active
  BY <1>1, <1>3, <1>4
<1>7. \A v \in Windows : Completing(v)' => v = w
  BY <1>1 DEF Completing
<1>8. \A v \in Windows : Claims(v)' => v = w
  BY <1>5, <1>6, <1>7 DEF Claims
<1>9. ClaimNeedsFlag' /\ OneClaim'
  BY <1>1, <1>2, <1>8 DEF ClaimNeedsFlag, OneClaim
<1>10. OneStage' /\ ErrorCarried'
  BY <1>5, <1>6 DEF OneStage, ErrorCarried
<1>11. MutexThread'
  BY <1>1 DEF MutexThread
<1> QED
  BY <1>9, <1>10, <1>11 DEF Ownership

\* The steps of the windows keep the ownership.
LEMMA UIOwnership ==
  ASSUME NEW w \in Windows, IInv, UI(w)
  PROVE  Ownership'
<1> USE DEF appVars, threadVars
<1>1. CASE OnCancel(w)
  <2>1. UNCHANGED <<yielding, locking, flag, mutex, appError, events, pc, error>>
    BY <1>1 DEF OnCancel
  <2> QED
    BY <2>1, Quiet DEF Completing
<1>2. CASE TimerNotify(w)
  <2>1. /\ UNCHANGED <<yielding, flag, mutex, appError, events, pc, error>>
        /\ locking' = [handler |-> "notify", window |-> w]
    BY <1>2 DEF TimerNotify, Locking
  <2>2. \A v \in Windows : ~Completing(v)'
    BY <2>1, NotCompleting
  <2> QED
    BY <2>1, <2>2, Quiet
<1>3. CASE OnClose(w)
  <2>1. UNCHANGED <<yielding, locking, flag, mutex, appError, events, pc, error>>
    BY <1>3 DEF OnClose
  <2> QED
    BY <2>1, Quiet DEF Completing
<1>4. CASE Deleted(w)
  <2>1. /\ UNCHANGED <<yielding, locking, flag, mutex, appError, pc, error>>
        /\ events' = [events EXCEPT ![w] = 0]
    BY <1>4 DEF Deleted
  <2>2. \A v \in Windows : events'[v] = events[v] \/ events'[v] = 0
    BY <2>1 DEF IInv, TypeOK
  <2> QED
    BY <2>1, <2>2, Quiet DEF Completing
<1> QED
  BY <1>1, <1>2, <1>3, <1>4, ExecOwnership, StartOwnership, WriteOwnership,
     CompleteOwnership DEF UI

\* A step inside the interpreter, or out of it to the destructor.
LEMMA InterpreterStep ==
  ASSUME NEW w \in Windows, NEW to \in Active, IInv, pc[w] \in Active, Go(w, to),
         UNCHANGED <<uiVars, mutex, appError, events>>,
         \A v \in Windows : v # w => error'[v] = error[v]
  PROVE  Ownership'
<1>1. UNCHANGED <<yielding, locking, flag>>
  BY DEF uiVars
<1>2. pc'[w] = to /\ \A v \in Windows : v # w => pc'[v] = pc[v]
  BY DEF IInv, TypeOK, Go
<1>3. "none" \notin Active
  BY DEF Active, Interpreting
<1> QED
  BY <1>1, <1>2, <1>3, Quiet DEF Completing

\* The steps of a thread keep the ownership: its claim passes to the event
\* in Leave, and Post only takes the thread away.
LEMMA ThreadOwnership ==
  ASSUME NEW w \in Windows, IInv, Thread(w)
  PROVE  Ownership'
<1> DEFINE Inner ==
      \/ Parse(w) \/ BeginPrint(w) \/ EndPrint(w) \/ BeginStatement(w)
      \/ AskQuery(w) \/ QueryEnds(w) \/ ReportQuery(w) \/ Check(w)
<1>1. CASE Inner
  <2>1. pc[w] \in Active
    BY <1>1 DEF Parse, BeginPrint, EndPrint, BeginStatement, AskQuery,
                QueryEnds, ReportQuery, Check, Active, Interpreting
  <2>2. PICK to \in Active : Go(w, to)
    BY <1>1 DEF Parse, BeginPrint, EndPrint, BeginStatement, AskQuery,
                QueryEnds, ReportQuery, Check, AfterQuery, Active, Interpreting
  <2>3. UNCHANGED <<uiVars, mutex, appError, events, error>>
    BY <1>1 DEF Parse, BeginPrint, EndPrint, BeginStatement, AskQuery,
                QueryEnds, ReportQuery, Check, appVars
  <2> QED
    BY <2>1, <2>2, <2>3, InterpreterStep
<1>2. CASE Throw(w)
  <2>1. pc[w] \in Active /\ "leave" \in Active /\ Go(w, "leave")
    BY <1>2 DEF Throw, Active, Interpreting
  <2>2. UNCHANGED <<uiVars, mutex, appError, events>>
    BY <1>2 DEF Throw
  <2>3. \A v \in Windows : v # w => error'[v] = error[v]
    BY <1>2 DEF Throw, IInv, TypeOK
  <2> QED
    BY <2>1, <2>2, <2>3, InterpreterStep
<1>3. CASE Leave(w)
  <2> USE DEF IInv
  <2>1. /\ pc[w] \in Active /\ pc' = [pc EXCEPT ![w] = "done"]
        /\ events' = [events EXCEPT ![w] = IF frame[w] = "gone" THEN 0 ELSE @ + 1]
        /\ UNCHANGED <<flag, yielding, locking, mutex, error>>
    BY <1>3 DEF Leave, Complete, Go, Active
  <2>2. flag /\ \A v \in Windows : Claims(v) => v = w
    BY <2>1 DEF ClaimNeedsFlag, OneClaim, Claims
  <2>3. yielding # w /\ events[w] = 0 /\ ~Completing(w)
    BY <2>1 DEF OneStage
  <2>4. \A v \in Windows :
           v # w => yielding # v /\ pc[v] \notin Active /\ events[v] = 0 /\ ~Completing(v)
    BY <2>2 DEF Claims, TypeOK
  <2>5. pc'[w] = "done" /\ \A v \in Windows : v # w => pc'[v] = pc[v]
    BY <2>1 DEF TypeOK
  <2>6. events'[w] \in {0, 1} /\ \A v \in Windows : v # w => events'[v] = 0
    BY <2>1, <2>3, <2>4 DEF TypeOK
  <2>7. \A v \in Windows : Completing(v)' = Completing(v)
    BY <2>1 DEF Completing
  <2>8. "done" \notin Active
    BY DEF Active, Interpreting
  <2>9. \A v \in Windows : yielding' # v /\ pc'[v] \notin Active /\ ~Completing(v)'
    BY <2>1, <2>3, <2>4, <2>5, <2>7, <2>8
  <2>10. \A v \in Windows : Claims(v)' => v = w
    BY <2>6, <2>9 DEF Claims
  <2>11. ClaimNeedsFlag' /\ OneClaim'
    BY <2>1, <2>2, <2>10 DEF ClaimNeedsFlag, OneClaim
  <2>12. OneStage'
    BY <2>6, <2>9 DEF OneStage
  <2>13. appError'[w] = error'[w]
    BY <1>3, <2>1 DEF Leave, Complete, TypeOK
  <2>14. \A v \in Windows : events'[v] > 0 => v = w
    BY <2>6
  <2>15. ErrorCarried'
    BY <2>13, <2>14 DEF ErrorCarried
  <2>16. pc[w] # "none"
    BY <2>1 DEF Active, Interpreting
  <2>17. MutexThread'
    BY <2>1, <2>5, <2>16 DEF MutexThread
  <2> QED
    BY <2>11, <2>12, <2>15, <2>17 DEF Ownership
<1>4. CASE Post(w)
  <2> USE DEF IInv
  <2>1. /\ pc[w] = "done" /\ pc' = [pc EXCEPT ![w] = "none"]
        /\ mutex' = [mutex EXCEPT ![w] = @ + 1]
        /\ UNCHANGED <<flag, yielding, locking, appError, events, error>>
    BY <1>4 DEF Post, Go, uiVars
  <2>2. pc'[w] = "none" /\ \A v \in Windows : v # w => pc'[v] = pc[v]
    BY <2>1 DEF TypeOK
  <2>3. "none" \notin Active /\ "done" \notin Active
    BY DEF Active, Interpreting
  <2>4. \A v \in Windows : pc'[v] \in Active <=> pc[v] \in Active
    BY <2>1, <2>2, <2>3
  <2>5. \A v \in Windows : Completing(v)' <=> Completing(v)
    BY <2>1 DEF Completing
  <2>6. \A v \in Windows : Claims(v)' => Claims(v)
    BY <2>1, <2>4, <2>5 DEF Claims
  <2>7. ClaimNeedsFlag' /\ OneClaim'
    BY <2>1, <2>6 DEF ClaimNeedsFlag, OneClaim
  <2>8. OneStage'
    BY <2>1, <2>4, <2>5 DEF OneStage
  <2>9. ErrorCarried'
    BY <2>1 DEF ErrorCarried
  <2>10. mutex[w] = 0
    BY <2>1 DEF MutexThread
  <2>11. mutex'[w] = 1 /\ \A v \in Windows : v # w => mutex'[v] = mutex[v]
    BY <2>1, <2>10 DEF TypeOK
  <2>12. MutexThread'
    BY <2>2, <2>11 DEF MutexThread
  <2> QED
    BY <2>7, <2>8, <2>9, <2>12 DEF Ownership
<1> QED
  BY <1>1, <1>2, <1>3, <1>4 DEF Thread

-----------------------------------------------------------------------------
(* Theorems                                                                *)

\* Every step keeps the invariant.
LEMMA NextIInv == IInv /\ [Next]_vars => IInv'
<1> SUFFICES ASSUME IInv, [Next]_vars PROVE IInv'
  OBVIOUS
<1>1. ASSUME NEW w \in Windows, UI(w) PROVE IInv'
  BY <1>1, UITyped, UIOwnership DEF IInv, Ownership
<1>2. ASSUME NEW w \in Windows, Thread(w) PROVE IInv'
  BY <1>2, ThreadTyped, ThreadOwnership DEF IInv, Ownership
<1>3. CASE UNCHANGED vars
  BY <1>3 DEF vars, uiVars, appVars, threadVars, IInv, TypeOK, HasStatement,
     MutexThread, ClaimNeedsFlag, OneClaim, OneStage, ErrorCarried, Claims,
     Completing
<1> QED
  BY <1>1, <1>2, <1>3 DEF Next

\* An execution owns the flag through all its stages, in every behaviour of
\* the windows and their threads.
THEOREM ScriptInvariance == Spec => []IInv
<1> QED
  BY InitIInv, NextIInv, PTL DEF Spec

\* The semaphores, queues and program counters keep their types.
THEOREM ScriptTypes == Spec => []TypeOK
<1>1. IInv => TypeOK
  BY DEF IInv
<1> QED
  BY <1>1, ScriptInvariance, PTL

\* At most one thread is inside the interpreter, which has static state, for
\* any number of windows.
THEOREM ParserExclusion == Spec => []OneParser
<1>1. IInv => OneParser
  BY DEF IInv, OneClaim, OneParser, Claims, Active
<1> QED
  BY <1>1, ScriptInvariance, PTL

\* A completion in the queue is the only one of its window, no thread is
\* running behind it, and it carries this script's error line.
THEOREM CompletionStaysCurrent == Spec => []CompletionIsCurrent
<1>1. ASSUME IInv, NEW w \in Windows, events[w] > 0
      PROVE  events[w] = 1 /\ pc[w] \in {"done", "none"} /\ appError[w] = error[w]
  <2>1. events[w] = 1
    BY <1>1 DEF IInv, OneStage
  <2>2. pc[w] \notin Active
    BY <1>1, <2>1 DEF IInv, OneStage
  <2>3. pc[w] \in {"done", "none"}
    BY <2>2, <1>1 DEF IInv, TypeOK, Active
  <2>4. appError[w] = error[w]
    BY <1>1 DEF IInv, ErrorCarried
  <2> QED
    BY <2>1, <2>3, <2>4
<1>2. IInv => CompletionIsCurrent
  BY <1>1 DEF CompletionIsCurrent
<1> QED
  BY <1>2, ScriptInvariance, PTL

-----------------------------------------------------------------------------
(* Output                                                                  *)

\* Output that is not on display was written by a script whose completion,
\* which will show it, is still to come.
Pending(w) == pc[w] \in Active \/ events[w] > 0 \/ Completing(w)

OutputPending == \A w \in Windows : frame[w] # "gone" /\ output[w] => Pending(w)

\* The handlers keep it: only WriteOutput ends a completion, and it shows
\* the output.
LEMMA UIOutput ==
  ASSUME NEW w \in Windows, IInv, OutputPending, UI(w)
  PROVE  OutputPending'
<1> USE DEF uiVars, appVars, threadVars, IInv, TypeOK
<1>1. CASE OnExecScript(w) \/ OnCancel(w)
  <2>1. UNCHANGED <<frame, output, pc, events, locking>>
    BY <1>1 DEF OnExecScript, OnCancel
  <2> QED
    BY <2>1 DEF OutputPending, Pending, Completing
<1>2. CASE StartScript(w)
  <2>1. UNCHANGED <<frame, output, locking>>
    BY <1>2 DEF StartScript
  <2>2. \A v \in Windows : frame[v] # "gone" /\ events[v] > 0 => events'[v] > 0
    BY <1>2 DEF StartScript, ParseString, Complete
  <2>3. \A v \in Windows : pc[v] \in Active => pc'[v] \in Active
    BY <1>2 DEF StartScript, ParseString, Active, Interpreting
  <2> QED
    BY <2>1, <2>2, <2>3 DEF OutputPending, Pending, Completing
<1>3. CASE TimerNotify(w)
  <2>1. UNCHANGED <<frame, output, pc, events>> /\ locking = NoLock
    BY <1>3 DEF TimerNotify, UIFree
  <2>2. \A v \in Windows : ~Completing(v)
    BY <2>1 DEF Completing, NoLock
  <2> QED
    BY <2>1, <2>2 DEF OutputPending, Pending
<1>4. CASE OnScriptComplete(w)
  <2>1. /\ UNCHANGED <<frame, output, pc>> /\ locking = NoLock
        /\ events' = [events EXCEPT ![w] = @ - 1]
        /\ locking' = [handler |-> "complete", window |-> w]
    BY <1>4 DEF OnScriptComplete, UIFree, Locking
  <2>2. Completing(w)' /\ \A v \in Windows : ~Completing(v)
    BY <2>1 DEF Completing, NoLock
  <2>3. \A v \in Windows : v # w => events'[v] = events[v]
    BY <2>1
  <2> QED
    BY <2>1, <2>2, <2>3 DEF OutputPending, Pending
<1>5. CASE WriteOutput(w)
  <2>1. /\ UNCHANGED <<frame, pc, events>> /\ locking.window = w
        /\ output' = [output EXCEPT ![w] = FALSE]
    BY <1>5 DEF WriteOutput, Show
  <2>2. \A v \in Windows : v # w => ~Completing(v) /\ output'[v] = output[v]
    BY <2>1 DEF Completing
  <2>3. ~output'[w]
    BY <2>1
  <2> QED
    BY <2>1, <2>2, <2>3 DEF OutputPending, Pending
<1>6. CASE OnClose(w)
  <2>1. UNCHANGED <<output, pc, events, locking>> /\ frame' = [frame EXCEPT ![w] = "closed"]
        /\ frame[w] = "open"
    BY <1>6 DEF OnClose
  <2>2. \A v \in Windows : frame'[v] # "gone" => frame[v] # "gone"
    BY <2>1
  <2> QED
    BY <2>1, <2>2 DEF OutputPending, Pending, Completing
<1>7. CASE Deleted(w)
  <2>1. /\ UNCHANGED <<output, pc, locking>> /\ frame' = [frame EXCEPT ![w] = "gone"]
        /\ events' = [events EXCEPT ![w] = 0]
    BY <1>7 DEF Deleted
  <2>2. frame'[w] = "gone"
    BY <2>1
  <2>3. \A v \in Windows : v # w => frame'[v] = frame[v] /\ events'[v] = events[v]
    BY <2>1
  <2> QED
    BY <2>1, <2>2, <2>3 DEF OutputPending, Pending, Completing
<1> QED
  BY <1>1, <1>2, <1>3, <1>4, <1>5, <1>6, <1>7 DEF UI

\* So do the threads: they write only while they run, and leave an event.
LEMMA ThreadOutput ==
  ASSUME NEW w \in Windows, IInv, OutputPending, Thread(w)
  PROVE  OutputPending'
<1>1. UNCHANGED <<frame, locking>>
  BY DEF Thread, Parse, BeginPrint, EndPrint, BeginStatement, AskQuery, QueryEnds,
         ReportQuery, Check, Throw, Leave, Post, uiVars
<1>2. \A v \in Windows : Completing(v)' = Completing(v)
  BY <1>1 DEF Completing
<1>3. CASE Leave(w)
  <2>1. /\ UNCHANGED output /\ pc' = [pc EXCEPT ![w] = "done"]
        /\ events' = [events EXCEPT ![w] = IF frame[w] = "gone" THEN 0 ELSE @ + 1]
    BY <1>3 DEF Leave, Complete, Go
  <2>2. frame[w] # "gone" => events'[w] > 0
    BY <2>1 DEF IInv, TypeOK
  <2>3. \A v \in Windows : v # w => pc'[v] = pc[v] /\ events'[v] = events[v]
    BY <2>1 DEF IInv, TypeOK
  <2> QED
    BY <1>1, <1>2, <2>1, <2>2, <2>3 DEF OutputPending, Pending
<1>4. CASE Post(w)
  <2>1. UNCHANGED <<output, events>> /\ pc' = [pc EXCEPT ![w] = "none"] /\ pc[w] = "done"
    BY <1>4 DEF Post, Go
  <2>2. pc[w] \notin Active
    BY <2>1 DEF Active, Interpreting
  <2>3. \A v \in Windows : v # w => pc'[v] = pc[v]
    BY <2>1 DEF IInv, TypeOK
  <2> QED
    BY <1>1, <1>2, <2>1, <2>2, <2>3 DEF OutputPending, Pending
<1>5. CASE ~Leave(w) /\ ~Post(w)
  <2>1. PICK to \in Active : Go(w, to)
    BY <1>5 DEF Thread, Parse, BeginPrint, EndPrint, BeginStatement, AskQuery, QueryEnds,
                ReportQuery, Check, Throw, AfterQuery, Active, Interpreting
  <2>2. UNCHANGED events /\ output' \in {output, [output EXCEPT ![w] = TRUE]}
    BY <1>5 DEF Thread, Parse, BeginPrint, EndPrint, BeginStatement, AskQuery, QueryEnds,
                ReportQuery, Check, Throw, appVars
  <2>3. pc'[w] \in Active /\ \A v \in Windows : v # w => pc'[v] = pc[v]
    BY <2>1 DEF Go, IInv, TypeOK
  <2>4. \A v \in Windows : v # w => output'[v] = output[v]
    BY <2>2 DEF IInv, TypeOK
  <2> QED
    BY <1>1, <1>2, <2>2, <2>3, <2>4 DEF OutputPending, Pending
<1> QED
  BY <1>3, <1>4, <1>5

\* When no script claims the flag, everything scripts have written is on
\* display in every window that is open.
THEOREM OutputIsShown == Spec => []OutputShown
<1>1. Init => OutputPending
  BY DEF Init, OutputPending
<1>2. IInv /\ OutputPending /\ [Next]_vars => OutputPending'
  <2> SUFFICES ASSUME IInv, OutputPending, [Next]_vars PROVE OutputPending'
    OBVIOUS
  <2>1. CASE UNCHANGED vars
    BY <2>1 DEF vars, uiVars, appVars, threadVars, OutputPending, Pending, Completing
  <2> QED
    BY <2>1, UIOutput, ThreadOutput DEF Next
<1>3. IInv /\ OutputPending => OutputShown
  BY DEF IInv, ClaimNeedsFlag, Claims, OutputPending, Pending, OutputShown
<1> QED
  BY <1>1, <1>2, <1>3, ScriptInvariance, PTL DEF Spec

-----------------------------------------------------------------------------
(* The output lock                                                         *)

\* The evaluation of a PRINT, the query in its expression included.
InPrint(w) ==
    \/ pc[w] = "print_end"
    \/ pc[w] \in {"ask", "querying", "report"} /\ Current(w) = "print_query"

\* m_stream is taken exactly while a PRINT is evaluated: it is never left
\* locked by a thread that reports a query or an exception, loops, is told to
\* stop or ends.
LockedInPrint == \A w \in Windows : stream[w] = "thread" <=> InPrint(w)

\* A step of the thread of w that neither takes nor gives back the output.
LEMMA LockKept ==
  ASSUME NEW w \in Windows, TypeOK, LockedInPrint, NEW to, Go(w, to),
         UNCHANGED stream, \A v \in Windows : v # w => todo'[v] = todo[v],
         InPrint(w)' <=> InPrint(w)
  PROVE  LockedInPrint'
<1>1. \A v \in Windows : v # w => pc'[v] = pc[v]
  BY DEF Go, TypeOK
<1>2. \A v \in Windows : v # w => (InPrint(v)' <=> InPrint(v))
  BY <1>1 DEF InPrint, Current
<1> QED
  BY <1>2 DEF LockedInPrint

\* PRINT takes the output and gives it back.
LEMMA PrintLocks ==
  ASSUME NEW w \in Windows, IInv, LockedInPrint, BeginPrint(w) \/ EndPrint(w)
  PROVE  LockedInPrint'
<1> USE DEF IInv, TypeOK
<1>1. UNCHANGED todo
  BY DEF BeginPrint, EndPrint
<1>2. \A v \in Windows : v # w => pc'[v] = pc[v] /\ stream'[v] = stream[v]
  BY DEF BeginPrint, EndPrint, Go, Unlock
<1>3. \A v \in Windows : v # w => (InPrint(v)' <=> InPrint(v))
  BY <1>1, <1>2 DEF InPrint, Current
<1>4. stream'[w] = "thread" <=> InPrint(w)'
  <2>1. CASE BeginPrint(w)
    <3>1. /\ stream'[w] = "thread"
          /\ pc'[w] = IF Current(w) = "print_query" THEN "ask" ELSE "print_end"
      BY <2>1 DEF BeginPrint, Go
    <3> QED
      BY <1>1, <3>1 DEF InPrint, Current
  <2>2. CASE EndPrint(w)
    <3>1. stream'[w] = "free" /\ pc'[w] = "check"
      BY <2>2 DEF EndPrint, Go, Unlock
    <3> QED
      BY <3>1 DEF InPrint
  <2> QED
    BY <2>1, <2>2
<1> QED
  BY <1>2, <1>3, <1>4 DEF LockedInPrint

LEMMA ThreadLock ==
  ASSUME NEW w \in Windows, IInv, LockedInPrint, Thread(w)
  PROVE  LockedInPrint'
<1> USE DEF IInv
<1>1. CASE Parse(w) \/ BeginStatement(w) \/ Throw(w) \/ Leave(w) \/ Post(w)
  <2>1. PICK to \in {"throw", "stmt", "ask", "leave", "done", "none"} : Go(w, to)
    BY <1>1 DEF Parse, BeginStatement, Throw, Leave, Post
  <2>2. UNCHANGED <<stream, todo>>
    BY <1>1 DEF Parse, BeginStatement, Throw, Leave, Post, appVars
  <2>3. pc[w] \in {"parse", "stmt", "throw", "leave", "done"} /\ pc'[w] = to
    BY <1>1, <2>1 DEF Parse, BeginStatement, Throw, Leave, Post, Go, TypeOK
  <2>4. to = "ask" => Current(w) = "query" /\ Current(w)' = Current(w)
    <3>1. to = "ask" => pc'[w] = "ask"
      BY <2>3
    <3>2. to = "ask" => BeginStatement(w)
      BY <1>1, <3>1 DEF Parse, Throw, Leave, Post, Go, TypeOK
    <3> QED
      BY <2>2, <3>1, <3>2 DEF BeginStatement, Go, Current, TypeOK
  <2>5. ~InPrint(w) /\ ~InPrint(w)'
    BY <2>3, <2>4 DEF InPrint
  <2> QED
    BY <2>1, <2>2, <2>5, LockKept
<1>2. CASE AskQuery(w) \/ QueryEnds(w) \/ ReportQuery(w)
  <2>1. PICK to \in {"querying", "report", AfterQuery(w)} : Go(w, to)
    BY <1>2 DEF AskQuery, QueryEnds, ReportQuery
  <2>2. UNCHANGED <<stream, todo>>
    BY <1>2 DEF AskQuery, QueryEnds, ReportQuery, appVars
  <2>3. pc[w] \in {"ask", "querying", "report"} /\ pc'[w] = to
    BY <1>2, <2>1 DEF AskQuery, QueryEnds, ReportQuery, Go, TypeOK
  <2>4. Current(w)' = Current(w)
    BY <2>2 DEF Current
  <2>5. InPrint(w)' <=> InPrint(w)
    BY <2>3, <2>4 DEF InPrint, AfterQuery
  <2> QED
    BY <2>1, <2>2, <2>5, LockKept
<1>3. CASE Check(w)
  <2>1. PICK to \in {"throw", "leave", "stmt"} : Go(w, to)
    BY <1>3 DEF Check
  <2>2. UNCHANGED stream /\ \A v \in Windows : v # w => todo'[v] = todo[v]
    BY <1>3 DEF Check, appVars, TypeOK
  <2>3. pc[w] = "check" /\ pc'[w] = to
    BY <1>3, <2>1 DEF Check, Go, TypeOK
  <2>4. ~InPrint(w) /\ ~InPrint(w)'
    BY <2>3 DEF InPrint
  <2> QED
    BY <2>1, <2>2, <2>4, LockKept
<1> QED
  BY <1>1, <1>2, <1>3, PrintLocks DEF Thread

LEMMA UILock ==
  ASSUME NEW w \in Windows, IInv, LockedInPrint, UI(w)
  PROVE  LockedInPrint'
<1>1. UNCHANGED stream
  BY DEF UI, OnExecScript, StartScript, OnCancel, TimerNotify, OnScriptComplete,
         WriteOutput, OnClose, Deleted, appVars
<1>2. CASE UNCHANGED <<pc, todo>>
  BY <1>1, <1>2 DEF LockedInPrint, InPrint, Current
<1>3. CASE ~UNCHANGED <<pc, todo>>
  <2>1. StartScript(w)
    BY <1>3 DEF UI, OnExecScript, OnCancel, TimerNotify, OnScriptComplete,
                WriteOutput, OnClose, Deleted, threadVars
  <2>2. /\ ~IsRunning(w) /\ Go(w, "parse")
        /\ \A v \in Windows : v # w => todo'[v] = todo[v]
    BY <1>3, <2>1 DEF StartScript, ParseString, threadVars, Go, IInv, TypeOK
  <2>3. pc[w] = "none" /\ pc'[w] = "parse"
    BY <2>2 DEF IInv, MutexThread, IsRunning, Go, TypeOK
  <2>4. ~InPrint(w) /\ ~InPrint(w)'
    BY <2>3 DEF InPrint
  <2> QED
    BY <1>1, <2>2, <2>4, LockKept DEF IInv
<1> QED
  BY <1>2, <1>3

\* The output is locked in the midst of a PRINT only, so that a handler that
\* waits for it waits for the step that ends the PRINT, or for the query in
\* its expression.
THEOREM OutputLockedInPrint == Spec => []LockedInPrint
<1>1. Init => LockedInPrint
  BY DEF Init, LockedInPrint, InPrint
<1>2. IInv /\ LockedInPrint /\ [Next]_vars => LockedInPrint'
  <2> SUFFICES ASSUME IInv, LockedInPrint, [Next]_vars PROVE LockedInPrint'
    OBVIOUS
  <2>1. CASE UNCHANGED vars
    BY <2>1 DEF vars, appVars, threadVars, LockedInPrint, InPrint, Current
  <2> QED
    BY <2>1, UILock, ThreadLock DEF Next
<1> QED
  BY <1>1, <1>2, ScriptInvariance, PTL DEF Spec

\* A PRINT whose query has to be reported: LockOutput is called by the thread
\* that holds the output.
Hangs(w) == pc[w] = "report" /\ Current(w) = "print_query"

PrintOfQueryHangs ==
    [][\A w \in Windows :
          Hangs(w) => Hangs(w)' /\ (locking.window = w => locking' = locking)]_vars

\* Such a PRINT never goes on, and a handler that waits to show the output of
\* its window waits for ever, whatever is cancelled or closed.
THEOREM PrintOfQueryNeverEnds == Spec => PrintOfQueryHangs
<1>1. ASSUME IInv, LockedInPrint, Next, NEW w \in Windows, Hangs(w)
      PROVE  Hangs(w)' /\ (locking.window = w => locking' = locking)
  <2>1. stream[w] # "free" /\ pc[w] = "report"
    BY <1>1 DEF LockedInPrint, InPrint, Hangs
  <2>2. CASE \E v \in Windows : UI(v)
    <3>1. PICK v \in Windows : UI(v)
      BY <2>2
    <3>2. pc'[w] = pc[w] /\ todo'[w] = todo[w]
      <4>1. CASE StartScript(v)
        <5>1. v = w => IsRunning(v)
          BY <1>1, <2>1 DEF IInv, MutexThread, IsRunning
        <5>2. \/ UNCHANGED <<pc, todo>>
              \/ /\ ~IsRunning(v) /\ pc' = [pc EXCEPT ![v] = "parse"]
                 /\ \E s \in Scripts : todo' = [todo EXCEPT ![v] = s]
          BY <4>1 DEF StartScript, ParseString, threadVars
        <5> QED
          BY <1>1, <5>1, <5>2 DEF IInv, TypeOK
      <4>2. CASE ~StartScript(v)
        BY <3>1, <4>2 DEF UI, OnExecScript, OnCancel, TimerNotify,
              OnScriptComplete, WriteOutput, OnClose, Deleted, threadVars
      <4> QED
        BY <4>1, <4>2
    <3>3. ASSUME locking.window = w
          PROVE  locking' = locking
      <4>1. locking # NoLock
        BY <3>3, NoWindowAssumption DEF NoLock
      <4>2. ~WriteOutput(v)
        BY <2>1, <3>3 DEF WriteOutput
      <4> QED
        BY <3>1, <4>1, <4>2 DEF UI, UIFree, OnExecScript, StartScript, OnCancel,
              TimerNotify, OnScriptComplete, OnClose, Deleted
    <3> QED
      BY <1>1, <3>2, <3>3 DEF Hangs, Current
  <2>3. CASE \E v \in Windows : Thread(v)
    <3>1. PICK v \in Windows : Thread(v)
      BY <2>3
    <3>2. locking' = locking
      BY <3>1 DEF Thread, Parse, BeginPrint, EndPrint, BeginStatement, AskQuery,
            QueryEnds, ReportQuery, Check, Throw, Leave, Post, Complete, uiVars
    <3>3. v # w
      BY <2>1, <3>1 DEF Thread, Parse, BeginPrint, EndPrint, BeginStatement, AskQuery,
            QueryEnds, ReportQuery, Check, Throw, Leave, Post
    <3>4. /\ \E to : pc' = [pc EXCEPT ![v] = to]
          /\ todo' = todo \/ \E s : todo' = [todo EXCEPT ![v] = s]
      BY <3>1 DEF Thread, Parse, BeginPrint, EndPrint, BeginStatement, AskQuery,
            QueryEnds, ReportQuery, Check, Throw, Leave, Post, Go
    <3>5. pc'[w] = pc[w] /\ todo'[w] = todo[w]
      BY <1>1, <3>3, <3>4 DEF IInv, TypeOK
    <3> QED
      BY <1>1, <3>2, <3>5 DEF Hangs, Current
  <2> QED
    BY <1>1, <2>2, <2>3 DEF Next
<1>2. IInv /\ LockedInPrint /\ [Next]_vars =>
        [\A w \in Windows :
            Hangs(w) => Hangs(w)' /\ (locking.window = w => locking' = locking)]_vars
  BY <1>1
<1> QED
  BY <1>2, ScriptInvariance, OutputLockedInPrint, PTL DEF Spec, PrintOfQueryHangs

=============================================================================
