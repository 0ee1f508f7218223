-------------------------- MODULE QueryToolProofs --------------------------
(***************************************************************************)
(* Theorems about QueryTool, for any number of executions and both         *)
(* settings of its options, as long as the user invokes no macro while a   *)
(* query runs and no thread fails and ends before execQuery looks at it:   *)
(* the code guards against neither.                                        *)
(***************************************************************************)
EXTENDS QueryTool, TLAPS, SequenceTheorems

-----------------------------------------------------------------------------
(* The inductive invariant                                                 *)

\* A handler is only interrupted where it yields, and nothing is under way
\* in a window that is gone.
Nesting ==
    /\ \A i \in 1..Len(stack) : i > 1 => stack[i].at \in Yields
    /\ window = "gone" => stack = <<>> /\ events = <<>>

\* The claim to complete an execution: the handler that starts it, then its
\* thread, then its event, then the handler of that event.
Claiming == {"exec", "create", "wait", "show"}

OneClaim ==
    /\ \A i, j \in 1..Len(stack) :
          stack[i].at \in Claiming /\ stack[j].at \in Claiming => i = j
    /\ \A i \in 1..Len(stack) :
          stack[i].at \in Claiming => events = <<>> /\ phase # "running"
    /\ Len(events) <= 1
    /\ events # <<>> => phase # "running"

\* It is about the latest execution, and Execute is disabled meanwhile.
ClaimIsLatest ==
    /\ \A i \in 1..Len(stack) :
          stack[i].at \in Claiming => stack[i].run = runs /\ tools # "execute"
    /\ \A j \in 1..Len(events) : events[j].run = runs /\ tools # "execute"
    /\ phase = "running" => jobRun = runs /\ tools # "execute"
    /\ tools # "execute" => runs > 0

\* A thread that has answered and not ended is waited for.
AnsweredIsWaitedFor ==
    phase = "answered" /\ window # "gone" =>
        events # <<>> \/ \E i \in 1..Len(stack) : stack[i].at = "wait"

\* A thread that was just started cannot have been cancelled.
JustStarted ==
    At("started") => /\ ~cancelled /\ phase # "none" /\ code # "cancelled"
                     /\ phase = "ended" => code # "failed"

NothingToAbort == \A i \in 1..Len(stack) : stack[i].at # "abort_create"

\* Every execution but the latest was completed, once, and the latest was if
\* Execute is enabled again.
Counted ==
    \A i \in Runs :
        completions[i] = IF i < runs \/ (i = runs /\ tools = "execute") THEN 1 ELSE 0

Unannounced == phase = "running" => announced = 0

IInv == /\ TypeOK /\ Nesting /\ OneClaim /\ ClaimIsLatest /\ AnsweredIsWaitedFor
        /\ JustStarted /\ NothingToAbort /\ Counted /\ Unannounced

-----------------------------------------------------------------------------
(* The stack of calls                                                      *)

LEMMA Calling ==
    ASSUME NEW s \in Seq(Frame), NEW f \in Frame
    PROVE  /\ <<f>> \o s \in Seq(Frame)
           /\ Len(<<f>> \o s) = Len(s) + 1
           /\ (<<f>> \o s)[1] = f
           /\ Head(<<f>> \o s) = f
           /\ <<f>> \o s # <<>>
           /\ \A i \in 1..Len(s) + 1 : i # 1 => i - 1 \in 1..Len(s) /\ (<<f>> \o s)[i] = s[i - 1]
  <1> DEFINE t == <<f>> \o s
             n == Len(s)
  <1>1. <<f>> \in Seq(Frame) /\ Len(<<f>>) = 1 /\ <<f>>[1] = f /\ n \in Nat
    OBVIOUS
  <1>2. /\ t \in Seq(Frame) /\ Len(t) = 1 + n
        /\ \A i \in 1..1 + n : t[i] = IF i <= 1 THEN <<f>>[i] ELSE s[i - 1]
    BY <1>1, ConcatProperties
  <1>3. Len(<<>>) = 0
    OBVIOUS
  <1>4. t # <<>> => Head(t) = t[1]
    BY <1>2
  <1> HIDE DEF t, n
  <1>5. t[1] = f /\ t # <<>>
    BY <1>1, <1>2, <1>3
  <1>6. \A i \in 1..n + 1 : i # 1 => i - 1 \in 1..n /\ t[i] = s[i - 1]
    BY <1>1, <1>2
  <1> QED
    BY <1>1, <1>2, <1>4, <1>5, <1>6 DEF t, n

LEMMA Returning ==
    ASSUME NEW s \in Seq(Frame), s # <<>>
    PROVE  /\ Tail(s) \in Seq(Frame)
           /\ Len(Tail(s)) = Len(s) - 1
           /\ Len(s) > 0
           /\ Head(s) = s[1] /\ s[1] \in Frame
           /\ \A i \in 1..Len(Tail(s)) : i + 1 \in 1..Len(s) /\ Tail(s)[i] = s[i + 1]
           /\ Tail(s) # <<>> => Head(Tail(s)) = s[2] /\ 2 \in 1..Len(s)
  <1>1. /\ Tail(s) \in Seq(Frame) /\ Len(Tail(s)) = Len(s) - 1 /\ Len(s) \in Nat /\ Len(s) > 0
        /\ \A i \in 1..Len(Tail(s)) : Tail(s)[i] = s[i + 1]
    BY HeadTailProperties, EmptySeq
  <1>2. Head(s) = s[1] /\ s[1] \in Frame
    BY ElementOfSeq
  <1>3. Tail(s) # <<>> => Head(Tail(s)) = Tail(s)[1] /\ Len(Tail(s)) > 0
    BY <1>1, EmptySeq
  <1> QED
    BY <1>1, <1>2, <1>3

\* What the handler that runs does to the stack.
Pushes(f) ==
    /\ stack' \in Seq(Frame) /\ Len(stack') = Len(stack) + 1 /\ Len(stack') <= 2
    /\ stack' # <<>> /\ stack'[1] = f /\ Head(stack') = f
    /\ \A i \in 1..Len(stack') :
          i # 1 => i - 1 \in 1..Len(stack) /\ stack'[i] = stack[i - 1] /\ stack[i - 1].at \in Yields

Pops ==
    /\ stack' \in Seq(Frame) /\ Len(stack') = Len(stack) - 1 /\ Len(stack') <= 2
    /\ stack # <<>> /\ stack[1] = Top /\ Top \in Frame /\ 1 \in 1..Len(stack)
    /\ \A i \in 1..Len(stack') : i + 1 \in 1..Len(stack) /\ stack'[i] = stack[i + 1]
    /\ stack' # <<>> => Head(stack').at \in Yields

Replaces(f) ==
    /\ stack' \in Seq(Frame) /\ Len(stack') = Len(stack) /\ Len(stack') <= 2
    /\ stack # <<>> /\ stack[1] = Top /\ Top \in Frame /\ 1 \in 1..Len(stack)
    /\ stack' # <<>> /\ stack'[1] = f /\ Head(stack') = f
    /\ \A i \in 1..Len(stack') : i # 1 => i \in 1..Len(stack) /\ stack'[i] = stack[i]

LEMMA CallPushes ==
    ASSUME IInv, CanDispatch, NEW place, NEW i, NEW c,
           [at |-> place, run |-> i, code |-> c] \in Frame, Call(place, i, c)
    PROVE  Pushes([at |-> place, run |-> i, code |-> c])
  <1>1. stack \in Seq(Frame) /\ Len(stack) \in 0..1
    BY DEF IInv, TypeOK, CanDispatch
  <1>2. \A k \in 1..Len(stack) : stack[k].at \in Yields
    BY <1>1 DEF CanDispatch
  <1> QED
    BY <1>1, <1>2, Calling DEF Call, Pushes

LEMMA ReturnPops ==
    ASSUME IInv, stack # <<>>, Return
    PROVE  Pops
  <1>1. stack \in Seq(Frame) /\ Len(stack) <= 2
    BY DEF IInv, TypeOK
  <1>2. \A k \in 1..Len(stack) : k > 1 => stack[k].at \in Yields
    BY DEF IInv, Nesting
  <1> QED
    BY <1>1, <1>2, Returning DEF Return, Pops, Top

LEMMA BecomeReplaces ==
    ASSUME IInv, stack # <<>>, NEW place, Become(place),
           [Top EXCEPT !.at = place] \in Frame
    PROVE  Replaces([Top EXCEPT !.at = place])
  <1>1. stack \in Seq(Frame) /\ Len(stack) <= 2
    BY DEF IInv, TypeOK
  <1>2. /\ Tail(stack) \in Seq(Frame) /\ Len(Tail(stack)) = Len(stack) - 1 /\ Len(stack) > 0
        /\ Top = stack[1] /\ stack[1] \in Frame
        /\ \A i \in 1..Len(Tail(stack)) : i + 1 \in 1..Len(stack) /\ Tail(stack)[i] = stack[i + 1]
    BY <1>1, Returning DEF Top
  <1> DEFINE t == Tail(stack)
             f == [Top EXCEPT !.at = place]
  <1>3. /\ stack' \in Seq(Frame) /\ Len(stack') = Len(t) + 1
        /\ stack'[1] = f /\ Head(stack') = f /\ stack' # <<>>
        /\ \A i \in 1..Len(t) + 1 : i # 1 => i - 1 \in 1..Len(t) /\ stack'[i] = t[i - 1]
    BY <1>2, Calling DEF Become
  <1> HIDE DEF t, f
  <1>4. \A i \in 1..Len(stack') : i # 1 => i \in 1..Len(stack) /\ stack'[i] = stack[i]
    BY <1>1, <1>2, <1>3 DEF t
  <1>5. Len(stack') = Len(stack) /\ 1 \in 1..Len(stack)
    BY <1>1, <1>2, <1>3 DEF t
  <1> QED
    BY <1>1, <1>2, <1>3, <1>4, <1>5 DEF Replaces, f
-----------------------------------------------------------------------------
(* Completing                                                              *)

\* The top of the stack.
LEMMA TopFacts ==
    ASSUME IInv, stack # <<>>
    PROVE  1 \in 1..Len(stack) /\ stack[1] = Top /\ Top \in Frame /\ window # "gone"
  <1>1. stack \in Seq(Frame)
    BY DEF IInv, TypeOK
  <1> QED
    BY <1>1, Returning DEF Top, IInv, Nesting

\* The handler that starts a query, and the one that shows its rows, find no
\* thread that runs.
LEMMA NoThreadAt ==
    ASSUME IInv, stack # <<>>, Top.at \in {"exec", "create", "show"}
    PROVE  ~Running
  <1>1. 1 \in 1..Len(stack) /\ stack[1].at \in Claiming /\ stack[1].at # "wait" /\ window # "gone"
    BY TopFacts DEF Claiming
  <1>2. phase # "running" /\ events = <<>>
    BY <1>1 DEF IInv, OneClaim
  <1>3. ~\E i \in 1..Len(stack) : stack[i].at = "wait"
    BY <1>1 DEF IInv, OneClaim, Claiming
  <1> QED
    BY <1>1, <1>2, <1>3 DEF Running, IInv, AnsweredIsWaitedFor

TxState == {"idle", "intrans", "inerror", "unknown"}
Whats == {"none", "nothing", "done", "cancelled", "error", "lost"}

LEMMA CompletionTypes ==
    ASSUME TypeOK, NEW i \in Runs, NEW what \in Whats, NEW t \in TxState, CompleteQuery(i, what, t)
    PROVE  /\ tx' \in TxState
           /\ tools' = "execute"
           /\ exec' \in 0..MaxRuns
           /\ completions' \in [Runs -> Nat]
           /\ report' \in [Runs -> [what : Whats, tab : 0..MaxRuns, thread : 0..MaxRuns]]
  <1>1. tx' \in TxState /\ tools' = "execute"
    BY DEF CompleteQuery, AfterRollback, TxState
  <1>2. exec' \in 0..MaxRuns
    BY MaxRunsAssumption DEF CompleteQuery
  <1>3. completions' \in [Runs -> Nat]
    BY DEF CompleteQuery, TypeOK
  <1>4. [what |-> what, tab |-> exec, thread |-> IF phase = "none" THEN 0 ELSE jobRun]
           \in [what : Whats, tab : 0..MaxRuns, thread : 0..MaxRuns]
    BY MaxRunsAssumption DEF TypeOK
  <1>5. report' \in [Runs -> [what : Whats, tab : 0..MaxRuns, thread : 0..MaxRuns]]
    BY <1>4 DEF CompleteQuery, TypeOK, Whats
  <1> QED
    BY <1>1, <1>2, <1>3, <1>5

\* The handler that holds the claim gives it up and enables Execute.
LEMMA CompletionKeepsIInv ==
    ASSUME IInv, stack # <<>>, Top.at \in Claiming, ~Running, Return,
           NEW what \in Whats, NEW t \in TxState, CompleteQuery(Top.run, what, t),
           phase' \in {phase, "none"},
           code' \in Answers \cup {"none"}, cancelled' \in BOOLEAN, announced' \in 0..1,
           UNCHANGED <<jobRun, window, runs, events, answer>>
    PROVE  IInv'
  <1>1. /\ 1 \in 1..Len(stack) /\ stack[1] = Top /\ Top \in Frame /\ window # "gone"
        /\ Len(stack) <= 2 /\ stack \in Seq(Frame)
    BY TopFacts DEF IInv, TypeOK
  <1>2. /\ Top.run = runs /\ tools # "execute" /\ runs > 0 /\ runs \in Runs
        /\ events = <<>>
    <2>1. Top.run = runs /\ tools # "execute" /\ runs > 0 /\ events = <<>>
      BY <1>1 DEF IInv, ClaimIsLatest, OneClaim
    <2>2. runs \in 0..MaxRuns
      BY DEF IInv, TypeOK
    <2> QED
      BY <2>1, <2>2, MaxRunsAssumption DEF Runs
  <1>3. Len(stack) = 1
    <2>1. \A i \in 1..Len(stack) : i > 1 => stack[i].at \in Claiming
      BY DEF IInv, Nesting, Yields, Claiming
    <2>2. \A i \in 1..Len(stack) : stack[i].at \in Claiming => i = 1
      BY <1>1 DEF IInv, OneClaim
    <2>3. Len(stack) = 2 => 2 \in 1..Len(stack)
      OBVIOUS
    <2>4. Len(stack) \in Nat
      BY <1>1
    <2>5. Len(stack) = 1 \/ Len(stack) = 2
      <3>1. \A n \in Nat : n <= 2 /\ 1 \in 1..n => n = 1 \/ n = 2
        OBVIOUS
      <3> QED
        BY <1>1, <2>4, <3>1
    <2> QED
      BY <2>1, <2>2, <2>3, <2>5
  <1>4. stack' = <<>>
    <2>1. Tail(stack) \in Seq(Frame) /\ Len(Tail(stack)) = 0
      BY <1>1, <1>3, Returning
    <2> QED
      BY <2>1, EmptySeq DEF Return
  <1>5. /\ tx' \in TxState
        /\ tools' = "execute"
        /\ exec' \in 0..MaxRuns
        /\ completions' \in [Runs -> Nat]
        /\ report' \in [Runs -> [what : Whats, tab : 0..MaxRuns, thread : 0..MaxRuns]]
    BY <1>2, CompletionTypes DEF IInv
  <1>6. phase' \in {"none", "ended"}
    BY DEF Running, IInv, TypeOK
  <1>7. stack' \in Seq(Frame) /\ Len(stack') = 0
    BY <1>4
  <1>8. TypeOK'
    BY <1>5, <1>6, <1>7 DEF IInv, TypeOK, TxState, Whats
  <1>9. /\ Nesting' /\ OneClaim' /\ ClaimIsLatest' /\ AnsweredIsWaitedFor'
        /\ NothingToAbort' /\ JustStarted' /\ Unannounced'
    BY <1>1, <1>2, <1>4, <1>5, <1>6, <1>7
    DEF Nesting, OneClaim, ClaimIsLatest, AnsweredIsWaitedFor, NothingToAbort, JustStarted, At,
        Unannounced
  <1>10. Counted'
    <2>1. completions' = [completions EXCEPT ![runs] = @ + 1]
      BY <1>2 DEF CompleteQuery
    <2>2. completions[runs] = 0 /\ completions \in [Runs -> Nat]
      BY <1>2 DEF IInv, Counted, TypeOK
    <2>3. \A i \in Runs : completions'[i] = IF i = runs THEN 1 ELSE completions[i]
      BY <2>1, <2>2
    <2> QED
      BY <1>2, <1>5, <2>3 DEF IInv, Counted
  <1> QED
    BY <1>8, <1>9, <1>10 DEF IInv

-----------------------------------------------------------------------------
(* Executing                                                               *)

LEMMA ExecuteKeepsIInv ==
    ASSUME ~Macros, IInv, Execute
    PROVE  IInv'
  <1>1. /\ tools = "execute" /\ tools' = "cancel" /\ runs' = runs + 1
        /\ runs < MaxRuns /\ window = "open" /\ exec' = runs + 1
        /\ UNCHANGED <<jobVars, jobRun, window, events, tx, histVars>>
    BY DEF Execute
  <1>2. runs \in Nat /\ runs' \in 0..MaxRuns /\ runs' > 0
    BY <1>1, MaxRunsAssumption DEF IInv, TypeOK
  <1> DEFINE f == [at |-> "exec", run |-> runs + 1, code |-> "none"]
  <1>3. f \in Frame
    BY <1>1, <1>2 DEF Frame, Yields
  <1>4. Pushes(f)
    BY <1>1, <1>3, CallPushes DEF Execute
  <1>5. /\ \A i \in 1..Len(stack) : stack[i].at \notin Claiming
        /\ Len(events) = 0 /\ events = <<>> /\ phase # "running"
    <2>1. \A j \in 1..Len(events) : FALSE
      BY <1>1 DEF IInv, ClaimIsLatest
    <2>2. events \in Seq([run : Runs, code : Answers])
      BY DEF IInv, TypeOK
    <2> QED
      BY <1>1, <2>1, <2>2, EmptySeq DEF IInv, ClaimIsLatest
  <1>6. stack = <<>>
    <2>1. Len(stack) \in Nat /\ stack \in Seq(Frame)
      BY DEF IInv, TypeOK
    <2>2. \A i \in 2..Len(stack') : FALSE
      BY <1>4, <1>5, <2>1 DEF Pushes, Yields, Claiming
    <2>3. Len(stack) = 0
      BY <1>4, <2>1, <2>2 DEF Pushes
    <2> QED
      BY <2>1, <2>3, EmptySeq
  <1>7. stack' \in Seq(Frame) /\ Len(stack') = 1 /\ stack'[1] = f /\ Head(stack') = f
    BY <1>4, <1>6 DEF Pushes
  <1> HIDE DEF f
  <1>8. f.at = "exec" /\ f.run = runs'
    BY <1>1 DEF f
  <1>9. TypeOK'
    BY <1>1, <1>2, <1>7 DEF IInv, TypeOK, jobVars, histVars
  <1>10. \A i \in 1..Len(stack') : i = 1
    BY <1>7
  <1>11. phase # "answered"
    BY <1>1, <1>5, <1>6 DEF IInv, AnsweredIsWaitedFor
  <1>12. Nesting' /\ OneClaim' /\ ClaimIsLatest'
    BY <1>1, <1>2, <1>5, <1>7, <1>8, <1>10
    DEF Nesting, OneClaim, ClaimIsLatest, jobVars
  <1>13. AnsweredIsWaitedFor' /\ NothingToAbort' /\ JustStarted' /\ Unannounced'
    BY <1>1, <1>5, <1>7, <1>8, <1>10, <1>11
    DEF AnsweredIsWaitedFor, NothingToAbort, JustStarted, At, Top, jobVars, Unannounced
  <1>14. Counted'
    <2>1. \A i \in Runs : i \in Nat
      BY MaxRunsAssumption DEF Runs
    <2> QED
      BY <1>1, <1>2, <2>1 DEF IInv, Counted, histVars
  <1> QED
    BY <1>9, <1>12, <1>13, <1>14 DEF IInv

\* The handler that holds the claim goes on to its next step.
LEMMA ClaimMoves ==
    ASSUME IInv, stack # <<>>, Top.at \in Claiming, ~Running,
           NEW place \in Claiming, Become(place), tx' \in TxState,
           UNCHANGED <<jobVars, jobRun, window, tools, runs, exec, events, histVars>>
    PROVE  IInv'
  <1> DEFINE f == [Top EXCEPT !.at = place]
  <1>1. /\ 1 \in 1..Len(stack) /\ stack[1] = Top /\ Top \in Frame /\ window # "gone"
    BY TopFacts
  <1>2. f \in Frame /\ f.at = place /\ f.run = Top.run
    BY <1>1 DEF Frame, Claiming, Yields
  <1>3. Replaces(f)
    BY <1>2, BecomeReplaces
  <1>4. stack' # <<>> /\ Head(stack') = f
    BY <1>3 DEF Replaces
  <1> HIDE DEF f
  <1>5. /\ stack' \in Seq(Frame) /\ Len(stack') = Len(stack) /\ Len(stack') <= 2
        /\ stack'[1] = f
        /\ \A i \in 1..Len(stack') : i # 1 => i \in 1..Len(stack) /\ stack'[i] = stack[i]
    BY <1>3 DEF Replaces
  <1>6. TypeOK'
    BY <1>5 DEF IInv, TypeOK, TxState, jobVars, histVars
  <1>7. \A i \in 1..Len(stack') : /\ stack'[i].at \in Claiming <=> stack[i].at \in Claiming
                                  /\ stack'[i].run = stack[i].run
    BY <1>1, <1>2, <1>5
  <1>8. OneClaim' /\ ClaimIsLatest'
    BY <1>5, <1>7 DEF IInv, OneClaim, ClaimIsLatest, jobVars
  <1>9. Nesting'
    BY <1>1, <1>5 DEF IInv, Nesting
  <1>10. NothingToAbort'
    <2>1. place # "abort_create"
      BY DEF Claiming
    <2> QED
      BY <1>2, <1>5, <2>1 DEF IInv, NothingToAbort
  <1>11. AnsweredIsWaitedFor' /\ Unannounced' /\ Counted'
    BY DEF AnsweredIsWaitedFor, Unannounced, Counted, IInv, Running, jobVars, histVars
  <1>12. JustStarted'
    <2>1. place # "started"
      BY DEF Claiming
    <2>2. stack' # <<>> => Head(stack').at # "started"
      BY <1>2, <1>4, <2>1
    <2> QED
      BY <2>2 DEF JustStarted, At, Top
  <1> QED
    BY <1>6, <1>8, <1>9, <1>10, <1>11, <1>12 DEF IInv

\* A handler without a claim returns.
LEMMA IdleReturns ==
    ASSUME IInv, stack # <<>>, Top.at \notin Claiming, Return,
           phase' = phase \/ (~Running /\ phase' = "none"),
           window' \in {window, "closed"},
           UNCHANGED <<code, cancelled, announced, jobRun, tools, runs, exec, events, tx, histVars>>
    PROVE  IInv'
  <1>1. /\ 1 \in 1..Len(stack) /\ stack[1] = Top /\ Top \in Frame /\ window # "gone"
    BY TopFacts
  <1>2. Pops
    BY ReturnPops
  <1>3. /\ stack' \in Seq(Frame) /\ Len(stack') = Len(stack) - 1 /\ Len(stack') <= 2
        /\ Len(stack) \in Nat
        /\ \A i \in 1..Len(stack') : i + 1 \in 1..Len(stack) /\ stack'[i] = stack[i + 1]
    BY <1>2 DEF Pops, IInv, TypeOK
  <1>4. window' \in {"open", "closed"} /\ phase' \in {"none", "running", "answered", "ended"}
    BY <1>1 DEF IInv, TypeOK
  <1>5. TypeOK'
    BY <1>3, <1>4 DEF IInv, TypeOK, histVars
  <1>6. (phase' \in {phase, "none"} /\ phase' # "running") \/ phase' = phase
    OBVIOUS
  <1>7. Nesting'
    <2>1. \A i \in 1..Len(stack') : i > 1 => i + 1 > 1
      BY <1>3
    <2> QED
      BY <1>3, <1>4, <2>1 DEF IInv, Nesting
  <1>8. OneClaim'
    <2>1. \A i, j \in 1..Len(stack') : i + 1 = j + 1 => i = j
      BY <1>3
    <2> QED
      BY <1>3, <1>6, <2>1 DEF IInv, OneClaim
  <1>9. ClaimIsLatest' /\ NothingToAbort' /\ Unannounced' /\ Counted'
    BY <1>3, <1>6 DEF IInv, ClaimIsLatest, NothingToAbort, Unannounced, Counted, histVars
  <1>10. JustStarted'
    <2>1. stack' # <<>> => Head(stack').at # "started"
      BY <1>2 DEF Pops, Yields
    <2> QED
      BY <2>1 DEF JustStarted, At, Top
  <1>11. AnsweredIsWaitedFor'
    <2> SUFFICES ASSUME phase' = "answered", events' = <<>>
                 PROVE  \E i \in 1..Len(stack') : stack'[i].at = "wait"
      BY DEF AnsweredIsWaitedFor
    <2>1. PICK i \in 1..Len(stack) : stack[i].at = "wait"
      BY <1>1, <1>6 DEF IInv, AnsweredIsWaitedFor
    <2>2. i # 1
      BY <1>1, <2>1 DEF Claiming
    <2>3. i - 1 \in 1..Len(stack') /\ (i - 1) + 1 = i
      BY <1>3, <2>2
    <2> QED
      BY <1>3, <2>1, <2>3
  <1> QED
    BY <1>5, <1>7, <1>8, <1>9, <1>10, <1>11 DEF IInv

\* A handler without a claim is called, or only the tools change.
LEMMA IdleCalled ==
    ASSUME IInv, CanDispatch, window # "gone",
           NEW place \in {"abort", "abort_close", "closing"}, NEW i \in 0..MaxRuns,
           Call(place, i, "none") \/ stack' = stack,
           tools' = tools \/ (tools # "execute" /\ tools' = "none"),
           cancelled' \in BOOLEAN,
           UNCHANGED <<phase, code, announced, jobRun, window, runs, exec, events, tx, histVars>>
    PROVE  IInv'
  <1> DEFINE f == [at |-> place, run |-> i, code |-> "none"]
  <1>1. f \in Frame /\ f.at \in {"abort", "abort_close", "closing"}
    BY DEF Frame
  <1>2. tools' \in {"execute", "cancel", "none"} /\ (tools' = "execute" <=> tools = "execute")
    BY DEF IInv, TypeOK
  <1>3. CASE stack' = stack
    <2>1. ~At("started")
      BY DEF CanDispatch, At, Top, Yields
    <2>2. TypeOK'
      BY <1>2, <1>3 DEF IInv, TypeOK, histVars
    <2>3. Nesting' /\ OneClaim' /\ ClaimIsLatest' /\ AnsweredIsWaitedFor'
      BY <1>2, <1>3 DEF IInv, Nesting, OneClaim, ClaimIsLatest, AnsweredIsWaitedFor
    <2>4. NothingToAbort' /\ Counted' /\ Unannounced'
      BY <1>2, <1>3 DEF IInv, NothingToAbort, Counted, Unannounced, histVars
    <2>5. JustStarted'
      BY <1>3, <2>1 DEF JustStarted, At, Top
    <2> QED
      BY <2>2, <2>3, <2>4, <2>5 DEF IInv
  <1>4. CASE Call(place, i, "none")
    <2>1. Pushes(f)
      BY <1>1, <1>4, CallPushes
    <2> HIDE DEF f
    <2>2. /\ stack' \in Seq(Frame) /\ Len(stack') = Len(stack) + 1 /\ Len(stack') <= 2
          /\ Len(stack) \in Nat
          /\ stack' # <<>> /\ stack'[1] = f /\ Head(stack') = f
          /\ \A k \in 1..Len(stack') :
                k # 1 => k - 1 \in 1..Len(stack) /\ stack'[k] = stack[k - 1]
                         /\ stack[k - 1].at \in Yields
      BY <2>1 DEF Pushes, IInv, TypeOK
    <2>3. TypeOK'
      BY <1>2, <2>2 DEF IInv, TypeOK, histVars
    <2>4. Nesting'
      <3>1. \A k \in 1..Len(stack') : k > 1 => k # 1
        OBVIOUS
      <3> QED
        BY <2>2, <3>1 DEF IInv, Nesting
    <2>5. stack'[1].at \notin Claiming
      BY <1>1, <2>2 DEF Claiming
    <2>6. OneClaim'
      <3>1. \A k, j \in 1..Len(stack') : k - 1 = j - 1 => k = j
        BY <2>2
      <3> QED
        BY <2>2, <2>5, <3>1 DEF IInv, OneClaim
    <2>7. ClaimIsLatest'
      BY <1>2, <2>2, <2>5 DEF IInv, ClaimIsLatest
    <2>8. AnsweredIsWaitedFor'
      <3> SUFFICES ASSUME phase = "answered", events = <<>>
                   PROVE  \E k \in 1..Len(stack') : stack'[k].at = "wait"
        BY DEF AnsweredIsWaitedFor
      <3>1. PICK k \in 1..Len(stack) : stack[k].at = "wait"
        BY DEF IInv, AnsweredIsWaitedFor
      <3>2. k + 1 \in 1..Len(stack') /\ k + 1 # 1 /\ (k + 1) - 1 = k
        BY <2>2
      <3> QED
        BY <2>2, <3>1, <3>2
    <2>9. NothingToAbort'
      <3>1. f.at # "abort_create"
        BY <1>1
      <3> QED
        BY <2>2, <3>1 DEF IInv, NothingToAbort, Yields
    <2>10. Counted' /\ Unannounced'
      BY <1>2 DEF IInv, Counted, Unannounced, histVars
    <2>11. JustStarted'
      BY <1>1, <2>2 DEF JustStarted, At, Top
    <2> QED
      BY <2>3, <2>4, <2>6, <2>7, <2>8, <2>9, <2>10, <2>11 DEF IInv
  <1> QED
    BY <1>3, <1>4

-----------------------------------------------------------------------------
(* The handlers                                                            *)

LEMMA PrepareKeepsIInv ==
    ASSUME IInv, PrepareQuery
    PROVE  IInv'
  <1>1. stack # <<>> /\ Top.at = "exec"
    BY DEF PrepareQuery, At
  <1>2. ~Running
    BY <1>1, NoThreadAt
  <1>3. cancelled' = cancelled
    <2>1. cancelled' = (cancelled \/ Running)
      BY DEF PrepareQuery, StopThread
    <2>2. cancelled \in BOOLEAN
      BY DEF IInv, TypeOK
    <2> QED
      BY <1>2, <2>1, <2>2
  <1>4. Become("create")
    BY <1>2 DEF PrepareQuery
  <1>5. tx' \in TxState
    BY DEF PrepareQuery, IInv, TypeOK, TxState
  <1>6. UNCHANGED <<jobVars, jobRun, window, tools, runs, exec, events, histVars>>
    BY <1>3 DEF PrepareQuery, jobVars, histVars
  <1>7. Top.at \in Claiming /\ "create" \in Claiming
    BY <1>1 DEF Claiming
  <1> QED
    BY <1>1, <1>2, <1>4, <1>5, <1>6, <1>7, ClaimMoves

LEMMA CreateKeepsIInv ==
    ASSUME IInv, CreateThread
    PROVE  IInv'
  <1>1. stack # <<>> /\ Top.at = "create" /\ Top.at \in Claiming
    BY DEF CreateThread, At, Claiming
  <1>2. ~Running
    BY <1>1, NoThreadAt
  <1>3. /\ 1 \in 1..Len(stack) /\ stack[1] = Top /\ Top \in Frame /\ window # "gone"
    BY <1>1, TopFacts
  <1>4. /\ Top.run = runs /\ tools # "execute" /\ runs > 0 /\ events = <<>>
        /\ \A i \in 1..Len(stack) : i # 1 => stack[i].at \notin Claiming
    BY <1>1, <1>3 DEF IInv, OneClaim, ClaimIsLatest
  <1>5. runs \in Runs
    BY <1>4, MaxRunsAssumption DEF IInv, TypeOK, Runs
  <1>6. CASE phase' = "running" /\ jobRun' = Top.run /\ Become("started")
             /\ UNCHANGED <<tools, exec, tx, histVars>>
    <2> DEFINE f == [Top EXCEPT !.at = "started"]
    <2>1. f \in Frame /\ f.at = "started" /\ f.at \notin Claiming
      BY <1>3 DEF Frame, Claiming, Yields
    <2>2. Replaces(f)
      BY <1>1, <1>6, <2>1, BecomeReplaces
    <2> HIDE DEF f
    <2>3. /\ stack' \in Seq(Frame) /\ Len(stack') = Len(stack) /\ Len(stack') <= 2
          /\ stack' # <<>> /\ stack'[1] = f /\ Head(stack') = f
          /\ \A i \in 1..Len(stack') : i # 1 => i \in 1..Len(stack) /\ stack'[i] = stack[i]
      BY <2>2 DEF Replaces
    <2>4. /\ code' = "none" /\ cancelled' = FALSE /\ announced' = 0
          /\ UNCHANGED <<window, runs, events>>
      BY DEF CreateThread
    <2>5. jobRun' = runs /\ jobRun' \in 0..MaxRuns
      BY <1>4, <1>6 DEF IInv, TypeOK
    <2>6. TypeOK'
      <3>1. /\ phase' \in {"none", "running", "answered", "ended"}
            /\ code' \in Answers \cup {"none"} /\ cancelled' \in BOOLEAN /\ announced' \in 0..1
        <4>1. announced' \in 0..1
          BY <2>4
        <4>2. code' \in Answers \cup {"none"} /\ cancelled' \in BOOLEAN
          BY <2>4
        <4> QED
          BY <1>6, <4>1, <4>2
      <3> QED
        BY <1>6, <2>3, <2>4, <2>5, <3>1 DEF IInv, TypeOK, histVars
    <2>7. Nesting'
      <3>1. \A i \in 1..Len(stack') : i > 1 => i # 1
        OBVIOUS
      <3> QED
        BY <1>3, <2>3, <2>4, <3>1 DEF IInv, Nesting
    <2>8. \A i \in 1..Len(stack') : stack'[i].at \notin Claiming
      BY <1>4, <2>1, <2>3
    <2>9. OneClaim' /\ ClaimIsLatest'
      <3>1. Len(events') = 0 /\ events' = <<>>
        BY <1>4, <2>4
      <3> QED
        BY <1>4, <1>6, <2>4, <2>5, <2>8, <3>1 DEF OneClaim, ClaimIsLatest
    <2>10. AnsweredIsWaitedFor' /\ Unannounced'
      BY <1>6, <2>4 DEF AnsweredIsWaitedFor, Unannounced
    <2>11. NothingToAbort'
      <3>1. f.at # "abort_create"
        BY <2>1
      <3> QED
        BY <2>3, <3>1 DEF IInv, NothingToAbort
    <2>12. JustStarted'
      BY <1>6, <2>4 DEF JustStarted
    <2>13. Counted'
      BY <1>6, <2>4 DEF IInv, Counted, histVars
    <2> QED
      BY <2>6, <2>7, <2>9, <2>10, <2>11, <2>12, <2>13 DEF IInv
  <1>7. CASE phase' = "none" /\ CompleteQuery(Top.run, "nothing", tx) /\ Return
             /\ UNCHANGED <<jobRun, answer>>
    <2>1. /\ code' \in Answers \cup {"none"} /\ cancelled' \in BOOLEAN /\ announced' \in 0..1
          /\ UNCHANGED <<window, runs, events>>
      <3>1. /\ code' = "none" /\ cancelled' = FALSE /\ announced' = 0
            /\ UNCHANGED <<window, runs, events>>
        BY DEF CreateThread
      <3>2. announced' \in 0..1
        BY <3>1
      <3>3. code' \in Answers \cup {"none"} /\ cancelled' \in BOOLEAN
        BY <3>1
      <3> QED
        BY <3>1, <3>2, <3>3
    <2>2. "nothing" \in Whats /\ tx \in TxState
      BY DEF Whats, TxState, IInv, TypeOK
    <2>3. UNCHANGED <<jobRun, window, runs, events, answer>>
      BY <1>7, <2>1
    <2> QED
      BY <1>1, <1>2, <1>7, <2>1, <2>2, <2>3, CompletionKeepsIInv
  <1> QED
    BY <1>6, <1>7 DEF CreateThread

\* A thread that was just started has not failed, so Execute has succeeded.
LEMMA StartSucceeds ==
    ASSUME IInv, StartReturns
    PROVE  /\ stack # <<>> /\ Top.at \notin Claiming /\ Return
           /\ UNCHANGED <<tools, exec, tx, completions, report>>
           /\ UNCHANGED <<jobVars, jobRun, window, runs, events, answer>>
  <1>1. stack # <<>> /\ Top.at = "started" /\ Top.at \notin Claiming
    BY DEF StartReturns, At, Claiming
  <1>2. phase # "none" /\ code # "cancelled" /\ (phase = "ended" => code # "failed")
    BY <1>1 DEF IInv, JustStarted, At
  <1>3. Running \/ phase = "ended"
    BY <1>2 DEF IInv, TypeOK, Running
  <1>4. ~(~Running /\ code \in {"failed", "cancelled"})
    BY <1>2, <1>3
  <1> QED
    BY <1>1, <1>4 DEF StartReturns

LEMMA StartReturnsKeepsIInv ==
    ASSUME IInv, StartReturns
    PROVE  IInv'
  <1>1. /\ stack # <<>> /\ Top.at \notin Claiming /\ Return
        /\ UNCHANGED <<tools, exec, tx, completions, report>>
        /\ UNCHANGED <<jobVars, jobRun, window, runs, events, answer>>
    BY StartSucceeds
  <1>2. /\ phase' = phase /\ window' \in {window, "closed"}
        /\ UNCHANGED <<code, cancelled, announced, jobRun, tools, runs, exec, events, tx, histVars>>
    BY <1>1 DEF jobVars, histVars
  <1> QED
    BY <1>1, <1>2, IdleReturns

LEMMA CancelKeepsIInv ==
    ASSUME IInv, OnCancel
    PROVE  IInv'
  <1>1. /\ CanDispatch /\ window # "gone" /\ tools # "execute" /\ tools' = "none"
        /\ UNCHANGED <<phase, code, announced, jobRun, window, runs, exec, events, tx, histVars>>
    BY DEF OnCancel
  <1>2. cancelled' \in BOOLEAN
    BY DEF OnCancel, StopThread, Running, IInv, TypeOK
  <1>3. jobRun \in 0..MaxRuns
    BY DEF IInv, TypeOK
  <1>4. Call("abort", jobRun, "none") \/ stack' = stack
    BY DEF OnCancel
  <1> QED
    BY <1>1, <1>2, <1>3, <1>4, IdleCalled

LEMMA CloseKeepsIInv ==
    ASSUME IInv, OnClose
    PROVE  IInv'
  <1>1. /\ CanDispatch /\ window # "gone"
        /\ UNCHANGED <<phase, code, announced, jobRun, window, runs, exec, events, tx, histVars>>
    BY DEF OnClose
  <1>2. cancelled' \in BOOLEAN
    BY DEF OnClose, StopThread, Running, IInv, TypeOK
  <1>3. 0 \in 0..MaxRuns
    BY MaxRunsAssumption
  <1>4. PICK place \in {"abort_close", "closing"} : Call(place, 0, "none")
    BY DEF OnClose
  <1>5. tools' = tools \/ (tools # "execute" /\ tools' = "none")
    BY DEF OnClose
  <1> QED
    BY <1>1, <1>2, <1>3, <1>4, <1>5, IdleCalled

LEMMA AbortKeepsIInv ==
    ASSUME IInv, AbortReturns
    PROVE  IInv'
  <1>1. /\ stack # <<>> /\ Top.at \in {"abort", "abort_create", "abort_close"}
        /\ ~Running /\ phase' = "none"
        /\ UNCHANGED <<code, cancelled, announced, jobRun, window, tools, runs, exec,
                       events, tx, histVars>>
    BY DEF AbortReturns, At
  <1>2. /\ 1 \in 1..Len(stack) /\ stack[1] = Top /\ Top \in Frame /\ window # "gone"
    BY <1>1, TopFacts
  <1>3. Top.at # "abort_create"
    BY <1>2 DEF IInv, NothingToAbort
  <1>4. CASE At("abort") /\ Return
    <2>1. Top.at \notin Claiming
      BY <1>1 DEF Claiming
    <2> QED
      BY <1>1, <1>4, <2>1, IdleReturns
  <1>5. CASE At("abort_close") /\ Become("closing")
    <2> DEFINE f == [Top EXCEPT !.at = "closing"]
    <2>1. f \in Frame /\ f.at = "closing"
      BY <1>2 DEF Frame
    <2>2. Replaces(f)
      BY <1>1, <1>5, <2>1, BecomeReplaces
    <2> HIDE DEF f
    <2>3. /\ stack' \in Seq(Frame) /\ Len(stack') = Len(stack) /\ Len(stack') <= 2
          /\ stack' # <<>> /\ stack'[1] = f /\ Head(stack') = f
          /\ \A i \in 1..Len(stack') : i # 1 => i \in 1..Len(stack) /\ stack'[i] = stack[i]
      BY <2>2 DEF Replaces
    <2>4. TypeOK'
      BY <1>1, <2>3 DEF IInv, TypeOK, histVars
    <2>5. Nesting'
      <3>1. \A i \in 1..Len(stack') : i > 1 => i # 1
        OBVIOUS
      <3> QED
        BY <1>1, <1>2, <2>3, <3>1 DEF IInv, Nesting
    <2>6. f.at \notin Claiming
      BY <2>1 DEF Claiming
    <2>7. OneClaim' /\ ClaimIsLatest'
      BY <1>1, <2>3, <2>6 DEF IInv, OneClaim, ClaimIsLatest
    <2>8. AnsweredIsWaitedFor' /\ Unannounced'
      BY <1>1 DEF AnsweredIsWaitedFor, Unannounced
    <2>9. NothingToAbort' /\ JustStarted'
      BY <2>1, <2>3 DEF IInv, NothingToAbort, JustStarted, At, Top
    <2>10. Counted'
      BY <1>1 DEF IInv, Counted, histVars
    <2> QED
      BY <2>4, <2>5, <2>7, <2>8, <2>9, <2>10 DEF IInv
  <1> QED
    BY <1>3, <1>4, <1>5 DEF AbortReturns, At

LEMMA CompleteKeepsIInv ==
    ASSUME IInv, OnQueryComplete
    PROVE  IInv'
  <1>1. /\ CanDispatch /\ window # "gone" /\ events # <<>> /\ events' = Tail(events)
        /\ Call("wait", Head(events).run, Head(events).code)
        /\ UNCHANGED <<jobVars, jobRun, window, tools, runs, exec, tx, histVars>>
    BY DEF OnQueryComplete
  <1> DEFINE e == Head(events)
             f == [at |-> "wait", run |-> e.run, code |-> e.code]
  <1>2. events \in Seq([run : Runs, code : Answers]) /\ Len(events) <= 1
    BY DEF IInv, TypeOK, OneClaim
  <1>3. /\ Len(events) = 1 /\ e = events[1] /\ e \in [run : Runs, code : Answers]
        /\ events' = <<>>
    <2>1. Len(events) > 0 /\ Len(events) \in Nat
      BY <1>1, <1>2, EmptySeq
    <2>2. Len(events) = 1
      <3>1. Len(events) <= 1
        BY <1>2
      <3>2. \A n \in Nat : n > 0 /\ n <= 1 => n = 1
        OBVIOUS
      <3> QED
        BY <2>1, <3>1, <3>2
    <2>3. Tail(events) \in Seq([run : Runs, code : Answers]) /\ Len(Tail(events)) = 0
      BY <1>1, <1>2, <2>2, HeadTailProperties
    <2>4. e = events[1] /\ events[1] \in [run : Runs, code : Answers]
      <3>1. e = events[1]
        BY <1>1, <1>2
      <3>2. 1 \in 1..Len(events) /\ events \in Seq([run : Runs, code : Answers])
        BY <1>2, <2>2
      <3> QED
        BY <3>1, <3>2, ElementOfSeq
    <2> QED
      BY <1>1, <2>2, <2>3, <2>4, EmptySeq
  <1>4. e.run = runs /\ tools # "execute" /\ phase # "running"
    BY <1>1, <1>3 DEF IInv, ClaimIsLatest, OneClaim
  <1>5. f \in Frame /\ f.at = "wait" /\ f.run = runs
    BY <1>3, <1>4 DEF Frame, Yields, Runs
  <1>6. Pushes(f)
    BY <1>1, <1>5, CallPushes
  <1> HIDE DEF e, f
  <1>7. /\ stack' \in Seq(Frame) /\ Len(stack') = 1 /\ stack'[1] = f /\ Head(stack') = f
        /\ stack' # <<>>
    <2>1. \A i \in 1..Len(stack) : stack[i].at \notin Claiming
      BY <1>1 DEF IInv, OneClaim
    <2>2. \A i \in 1..Len(stack') : i = 1
      BY <1>6, <2>1 DEF Pushes, Claiming, Yields
    <2>3. Len(stack') = 1
      <3>1. \A n \in Nat : (\A i \in 1..n+1 : i = 1) => n + 1 = 1
        OBVIOUS
      <3>2. Len(stack) \in Nat /\ Len(stack') = Len(stack) + 1
        BY <1>6 DEF Pushes, IInv, TypeOK
      <3> QED
        BY <2>2, <3>1, <3>2
    <2> QED
      BY <1>6, <2>3 DEF Pushes
  <1>8. events' \in Seq([run : Runs, code : Answers]) /\ Len(events') = 0
    BY <1>3
  <1>9. TypeOK'
    BY <1>1, <1>7, <1>8 DEF IInv, TypeOK, jobVars, histVars
  <1>10. \A i \in 1..Len(stack') : i = 1 /\ stack'[i] = f
    BY <1>7
  <1>11. Nesting' /\ OneClaim' /\ ClaimIsLatest'
    <2>1. /\ stack' \in Seq(Frame) /\ events' = <<>> /\ Len(events') = 0
          /\ UNCHANGED <<phase, tools, runs, window>>
      BY <1>1, <1>3, <1>8, <1>7 DEF jobVars
    <2>2. tools # "execute" => runs > 0
      BY DEF IInv, ClaimIsLatest
    <2>3. Nesting'
      BY <1>1, <1>10, <2>1 DEF Nesting
    <2>4. OneClaim'
      BY <1>4, <1>10, <2>1 DEF OneClaim
    <2>5. ClaimIsLatest'
      BY <1>4, <1>5, <1>10, <2>1, <2>2 DEF ClaimIsLatest
    <2> QED
      BY <2>3, <2>4, <2>5
  <1>12. AnsweredIsWaitedFor' /\ NothingToAbort' /\ JustStarted'
    <2>1. 1 \in 1..Len(stack') /\ stack'[1].at = "wait"
      BY <1>5, <1>7
    <2> QED
      BY <1>5, <1>7, <1>10, <2>1 DEF AnsweredIsWaitedFor, NothingToAbort, JustStarted, At, Top
  <1>13. Counted' /\ Unannounced'
    BY <1>1 DEF IInv, Counted, Unannounced, histVars, jobVars
  <1> QED
    BY <1>9, <1>11, <1>12, <1>13 DEF IInv

LEMMA WaitKeepsIInv ==
    ASSUME IInv, WaitOver
    PROVE  IInv'
  <1>1. /\ stack # <<>> /\ Top.at = "wait" /\ Top.at \in Claiming /\ "show" \in Claiming
        /\ ~Running
        /\ UNCHANGED <<jobVars, jobRun, window, runs, events, answer>>
    BY DEF WaitOver, At, ThreadOver, Claiming
  <1>2. tx \in TxState /\ Whats = {"none", "nothing", "done", "cancelled", "error", "lost"}
    BY DEF IInv, TypeOK, TxState, Whats
  <1>3. /\ phase' \in {phase, "none"} /\ code' \in Answers \cup {"none"}
        /\ cancelled' \in BOOLEAN /\ announced' \in 0..1
        /\ UNCHANGED <<jobRun, window, runs, events, answer>>
    BY <1>1 DEF IInv, TypeOK, jobVars
  <1>4. CASE Become("show") /\ UNCHANGED <<tools, exec, tx, completions, report>>
    <2>1. tx' \in TxState
      BY <1>2, <1>4
    <2>2. UNCHANGED <<jobVars, jobRun, window, tools, runs, exec, events, histVars>>
      BY <1>1, <1>4 DEF histVars
    <2> QED
      BY <1>1, <1>4, <2>1, <2>2, ClaimMoves
  <1>5. CASE CompleteQuery(Top.run, "done", tx) /\ Return
    <2>1. "done" \in Whats
      BY <1>2
    <2> QED
      BY <1>1, <1>2, <1>3, <1>5, <2>1, CompletionKeepsIInv
  <1>6. CASE /\ \E what \in Outcomes(Top.code) :
                   \E t \in (IF what = "lost" THEN {tx, "idle", "unknown"} ELSE {tx}) :
                       CompleteQuery(Top.run, what, t)
             /\ Return
    <2>1. PICK what \in Outcomes(Top.code) :
             \E t \in (IF what = "lost" THEN {tx, "idle", "unknown"} ELSE {tx}) :
                 CompleteQuery(Top.run, what, t)
      BY <1>6
    <2>2. PICK t \in (IF what = "lost" THEN {tx, "idle", "unknown"} ELSE {tx}) :
             CompleteQuery(Top.run, what, t)
      BY <2>1
    <2>3. what \in Whats
      BY <1>2 DEF Outcomes
    <2>4. t \in TxState
      BY <1>2 DEF TxState
    <2> QED
      BY <1>1, <1>3, <1>6, <2>2, <2>3, <2>4, CompletionKeepsIInv
  <1> QED
    BY <1>4, <1>5, <1>6 DEF WaitOver

LEMMA ShowKeepsIInv ==
    ASSUME IInv, ShowOver
    PROVE  IInv'
  <1>1. /\ stack # <<>> /\ Top.at = "show" /\ Top.at \in Claiming
        /\ Return
        /\ UNCHANGED <<jobVars, jobRun, window, runs, events, answer>>
    BY DEF ShowOver, At, Claiming
  <1>2. ~Running
    BY <1>1, NoThreadAt
  <1>3. /\ phase' \in {phase, "none"} /\ code' \in Answers \cup {"none"}
        /\ cancelled' \in BOOLEAN /\ announced' \in 0..1
        /\ UNCHANGED <<jobRun, window, runs, events, answer>>
        /\ tx \in TxState
    BY <1>1 DEF IInv, TypeOK, jobVars, TxState
  <1>4. PICK what \in {"done", "nothing"} : CompleteQuery(Top.run, what, tx)
    BY DEF ShowOver
  <1>5. what \in Whats
    BY DEF Whats
  <1> QED
    BY <1>1, <1>2, <1>3, <1>4, <1>5, CompletionKeepsIInv

LEMMA CloseOverKeepsIInv ==
    ASSUME IInv, CloseOver
    PROVE  IInv'
  <1>1. /\ stack # <<>> /\ Top.at = "closing" /\ Top.at \notin Claiming
        /\ ~Running /\ Return
        /\ UNCHANGED <<code, cancelled, announced, jobRun, tools, runs, exec, events,
                       tx, histVars>>
    BY DEF CloseOver, At, Claiming
  <1>2. phase' = phase \/ (~Running /\ phase' = "none")
    BY <1>1 DEF CloseOver
  <1>3. window' \in {window, "closed"}
    BY DEF CloseOver
  <1> QED
    BY <1>1, <1>2, <1>3, IdleReturns

LEMMA DeletedKeepsIInv ==
    ASSUME IInv, Deleted
    PROVE  IInv'
  <1>1. /\ stack = <<>> /\ window' = "gone" /\ events' = <<>> /\ stack' = <<>>
        /\ UNCHANGED <<jobVars, jobRun, tools, stack, runs, exec, tx, histVars>>
    BY DEF Deleted
  <1>2. /\ Len(stack') = 0 /\ Len(events') = 0
        /\ events' \in Seq([run : Runs, code : Answers])
    BY <1>1
  <1>3. TypeOK'
    BY <1>1, <1>2 DEF IInv, TypeOK, jobVars, histVars
  <1>4. Nesting' /\ OneClaim' /\ AnsweredIsWaitedFor' /\ NothingToAbort'
    BY <1>1, <1>2 DEF Nesting, OneClaim, AnsweredIsWaitedFor, NothingToAbort
  <1>5. ClaimIsLatest' /\ Counted' /\ Unannounced' /\ JustStarted'
    BY <1>1, <1>2
    DEF IInv, ClaimIsLatest, Counted, Unannounced, JustStarted, At, jobVars, histVars
  <1> QED
    BY <1>3, <1>4, <1>5 DEF IInv

LEMMA AnswerKeepsIInv ==
    ASSUME IInv, NEW c \in Answers, AnswerQuery(c)
    PROVE  IInv'
  <1>1. /\ phase = "running" /\ phase' = "answered" /\ code' = c
        /\ announced' = announced + 1 /\ cancelled' = cancelled
        /\ c = "cancelled" => cancelled
    BY DEF AnswerQuery, Answer
  <1>2. /\ answer' = [answer EXCEPT ![jobRun] = c] /\ events' = Posted(c)
        /\ tx' \in TxAfter(c)
        /\ UNCHANGED <<jobRun, window, tools, stack, runs, exec, completions, report>>
    BY DEF AnswerQuery, toolVars
  <1>3. tx' \in TxState
    <2>1. c \in {"tuples", "command", "error", "failed", "cancelled"}
      BY DEF Answers
    <2>2. tx \in TxState
      BY DEF IInv, TypeOK, TxState
    <2> QED
      BY <1>2, <2>1, <2>2 DEF TxAfter, TxState
  <1>4. jobRun = runs /\ tools # "execute" /\ runs > 0 /\ runs \in Runs
    BY <1>1, MaxRunsAssumption DEF IInv, ClaimIsLatest, TypeOK, Runs
  <1>5. announced' \in 0..1
    BY <1>1 DEF IInv, Unannounced
  <1> DEFINE e == [run |-> runs, code |-> c]
  <1>6. events = <<>> /\ \A i \in 1..Len(stack) : stack[i].at \notin Claiming
    BY <1>1 DEF IInv, OneClaim
  <1>7. events' = IF window = "gone" THEN <<>> ELSE <<e>>
    <2>1. Append(<<>>, e) = <<e>>
      OBVIOUS
    <2> QED
      BY <1>2, <1>4, <1>6, <2>1 DEF Posted
  <1>8. e \in [run : Runs, code : Answers] /\ e.run = runs
    BY <1>4
  <1> HIDE DEF e
  <1>9. /\ events' \in Seq([run : Runs, code : Answers])
        /\ Len(events') <= 1
        /\ \A j \in 1..Len(events') : events'[j] = e
        /\ window # "gone" => events' # <<>>
    <2>1. CASE window = "gone"
      <3>1. <<>> \in Seq([run : Runs, code : Answers]) /\ Len(<<>>) = 0
        OBVIOUS
      <3> QED
        BY <1>7, <2>1, <3>1
    <2>2. CASE window # "gone"
      <3>1. events' = <<e>>
        BY <1>7, <2>2
      <3>2. <<e>> \in Seq([run : Runs, code : Answers])
        BY <1>8
      <3>3. Len(<<e>>) = 1 /\ <<e>>[1] = e /\ <<e>> # <<>>
        OBVIOUS
      <3> QED
        BY <3>1, <3>2, <3>3
    <2> QED
      BY <2>1, <2>2
  <1>10. TypeOK'
    <2>1. answer' \in [Runs -> Answers \cup {"none"}]
      BY <1>2 DEF IInv, TypeOK
    <2>2. code' \in Answers \cup {"none"} /\ cancelled' \in BOOLEAN
          /\ phase' \in {"none", "running", "answered", "ended"}
      BY <1>1 DEF IInv, TypeOK
    <2> QED
      BY <1>2, <1>3, <1>5, <1>9, <2>1, <2>2 DEF IInv, TypeOK, TxState
  <1>11. Nesting'
    BY <1>2, <1>7 DEF IInv, Nesting
  <1>12. OneClaim' /\ ClaimIsLatest'
    BY <1>1, <1>2, <1>4, <1>6, <1>8, <1>9 DEF OneClaim, ClaimIsLatest
  <1>13. AnsweredIsWaitedFor' /\ NothingToAbort' /\ Unannounced' /\ Counted'
    BY <1>1, <1>2, <1>9 DEF IInv, AnsweredIsWaitedFor, NothingToAbort, Unannounced, Counted
  <1>14. JustStarted'
    BY <1>1, <1>2 DEF IInv, JustStarted, At, Top
  <1> QED
    BY <1>10, <1>11, <1>12, <1>13, <1>14 DEF IInv

LEMMA EndKeepsIInv ==
    ASSUME ~QuickFail, IInv, EndThread
    PROVE  IInv'
  <1>1. /\ phase = "answered" /\ phase' = "ended"
        /\ UNCHANGED <<code, cancelled, announced, jobRun, window, tools, stack, runs, exec,
                       events, tx, histVars>>
    BY DEF EndThread, End, toolVars
  <1>2. At("started") => code # "failed"
    BY DEF EndThread
  <1>3. TypeOK'
    BY <1>1 DEF IInv, TypeOK, histVars
  <1>4. Nesting' /\ OneClaim' /\ ClaimIsLatest' /\ NothingToAbort'
    BY <1>1 DEF IInv, Nesting, OneClaim, ClaimIsLatest, NothingToAbort
  <1>5. AnsweredIsWaitedFor' /\ Counted' /\ Unannounced'
    BY <1>1 DEF IInv, AnsweredIsWaitedFor, Counted, Unannounced, histVars
  <1>6. JustStarted'
    BY <1>1, <1>2 DEF IInv, JustStarted, At, Top
  <1> QED
    BY <1>3, <1>4, <1>5, <1>6 DEF IInv

-----------------------------------------------------------------------------
(* The theorems                                                            *)

LEMMA InitIInv == Init => IInv
  <1> SUFFICES ASSUME Init PROVE IInv
    OBVIOUS
  <1>1. /\ stack = <<>> /\ events = <<>> /\ Len(stack) = 0 /\ Len(events) = 0
        /\ phase = "none" /\ window = "open" /\ tools = "execute" /\ runs = 0
    BY DEF Init
  <1>2. 0 \in 0..MaxRuns /\ 0 \in 0..1
    BY MaxRunsAssumption
  <1>3. NoReport \in [what : {"none", "nothing", "done", "cancelled", "error", "lost"},
                      tab : 0..MaxRuns, thread : 0..MaxRuns]
    BY <1>2 DEF NoReport
  <1>4. stack \in Seq(Frame) /\ events \in Seq([run : Runs, code : Answers])
    BY <1>1
  <1>5. 0 \in Nat
    OBVIOUS
  <1>6. TypeOK
    <2>1. /\ phase \in {"none", "running", "answered", "ended"}
          /\ code \in Answers \cup {"none"}
          /\ cancelled \in BOOLEAN
          /\ window \in {"open", "closed", "gone"}
          /\ tools \in {"execute", "cancel", "none"}
          /\ tx \in {"idle", "intrans", "inerror", "unknown"}
      BY DEF Init
    <2>2. announced \in 0..1 /\ jobRun \in 0..MaxRuns /\ runs \in 0..MaxRuns /\ exec \in 0..MaxRuns
      BY <1>2 DEF Init
    <2>3. answer \in [Runs -> Answers \cup {"none"}] /\ completions \in [Runs -> Nat]
      BY <1>5 DEF Init
    <2>4. report \in [Runs -> [what : {"none", "nothing", "done", "cancelled", "error", "lost"},
                               tab : 0..MaxRuns, thread : 0..MaxRuns]]
      BY <1>3 DEF Init
    <2>5. Len(stack) <= 2
      BY <1>1
    <2> QED
      BY <1>4, <2>1, <2>2, <2>3, <2>4, <2>5 DEF TypeOK
  <1>7. \A i \in Runs : i \in Nat /\ i > 0
    BY MaxRunsAssumption DEF Runs
  <1>8. Nesting /\ OneClaim /\ ClaimIsLatest /\ AnsweredIsWaitedFor /\ NothingToAbort
        /\ Unannounced /\ JustStarted
    BY <1>1 DEF Nesting, OneClaim, ClaimIsLatest, AnsweredIsWaitedFor, NothingToAbort,
                Unannounced, JustStarted, At
  <1>9. Counted
    BY <1>1, <1>7 DEF Counted, Init
  <1> QED
    BY <1>6, <1>8, <1>9 DEF IInv

LEMMA NextKeepsIInv ==
    ASSUME ~Macros, ~QuickFail, IInv, [Next]_vars
    PROVE  IInv'
  <1>1. CASE Next
    <2>1. CASE GUI
      BY <2>1, PrepareKeepsIInv, CreateKeepsIInv, StartReturnsKeepsIInv, AbortKeepsIInv,
         WaitKeepsIInv, ShowKeepsIInv, CloseOverKeepsIInv, DeletedKeepsIInv DEF GUI
    <2>2. CASE OnQueryComplete
      BY <2>2, CompleteKeepsIInv
    <2>3. CASE User
      BY <2>3, ExecuteKeepsIInv, CancelKeepsIInv, CloseKeepsIInv DEF User
    <2>4. CASE Worker
      BY <2>4, AnswerKeepsIInv, EndKeepsIInv DEF Worker
    <2> QED
      BY <1>1, <2>1, <2>2, <2>3, <2>4 DEF Next
  <1>2. CASE UNCHANGED vars
    <2>1. UNCHANGED <<phase, code, cancelled, announced, jobRun, window, tools, stack, runs,
                      exec, events, tx, answer, completions, report>>
      BY <1>2 DEF vars, jobVars, toolVars, histVars
    <2>2. TypeOK' /\ Nesting' /\ OneClaim' /\ ClaimIsLatest'
      BY <2>1 DEF IInv, TypeOK, Nesting, OneClaim, ClaimIsLatest
    <2>3. AnsweredIsWaitedFor' /\ JustStarted' /\ NothingToAbort' /\ Counted' /\ Unannounced'
      BY <2>1 DEF IInv, AnsweredIsWaitedFor, JustStarted, NothingToAbort, Counted, Unannounced,
                  At, Top
    <2> QED
      BY <2>2, <2>3 DEF IInv
  <1> QED
    BY <1>1, <1>2

\* The inductive invariant holds throughout: one handler, thread or event at
\* a time has the claim to complete the latest execution of frmQuery.
THEOREM Invariance ==
    ASSUME ~Macros, ~QuickFail
    PROVE  Spec => []IInv
  <1>1. IInv /\ [Next]_vars => IInv'
    BY NextKeepsIInv
  <1> QED
    BY <1>1, InitIInv, PTL DEF Spec

\* Handlers of the window nest at most twice, and a thread posts one event.
THEOREM WindowTypes ==
    ASSUME ~Macros, ~QuickFail
    PROVE  Spec => []TypeOK
  <1>1. IInv => TypeOK
    BY DEF IInv
  <1> QED
    BY <1>1, Invariance, PTL

\* execQuery is never reached while a thread of the grid still runs, so
\* ctlSQLResult::Execute has nothing to abort.
THEOREM QueriesDoNotOverlap ==
    ASSUME ~Macros, ~QuickFail
    PROVE  Spec => []NoOverlap
  <1>1. IInv => NoOverlap
    <2> SUFFICES ASSUME IInv, window = "open", Running,
                        tools = "execute" \/ At("exec") \/ At("create")
                 PROVE  FALSE
      BY DEF NoOverlap
    <2>1. ~At("exec") /\ ~At("create")
      BY NoThreadAt DEF At
    <2>2. phase = "answered" /\ tools = "execute"
      BY <2>1 DEF Running, IInv, ClaimIsLatest
    <2>3. events # <<>> \/ \E i \in 1..Len(stack) : stack[i].at \in Claiming
      BY <2>2 DEF IInv, AnsweredIsWaitedFor, Claiming
    <2>4. CASE events # <<>>
      <3>1. events \in Seq([run : Runs, code : Answers])
        BY DEF IInv, TypeOK
      <3>2. 1 \in 1..Len(events)
        BY <2>4, <3>1, EmptySeq
      <3> QED
        BY <2>2, <3>2 DEF IInv, ClaimIsLatest
    <2> QED
      BY <2>2, <2>3, <2>4 DEF IInv, ClaimIsLatest
  <1> QED
    BY <1>1, Invariance, PTL

\* completeQuery runs once for each execution, before the next is offered.
THEOREM ExecutionsCompletedOnce ==
    ASSUME ~Macros, ~QuickFail
    PROVE  Spec => []CompletedOnce
  <1>1. IInv => CompletedOnce
    <2> SUFFICES ASSUME IInv, NEW i \in Runs
                 PROVE  /\ completions[i] <= 1
                        /\ tools = "execute" /\ i <= runs => completions[i] = 1
      BY DEF CompletedOnce
    <2>1. completions[i] = IF i < runs \/ (i = runs /\ tools = "execute") THEN 1 ELSE 0
      BY DEF IInv, Counted
    <2>2. i \in Nat /\ runs \in Nat
      BY MaxRunsAssumption DEF IInv, TypeOK, Runs
    <2> QED
      BY <2>1, <2>2
  <1> QED
    BY <1>1, Invariance, PTL

-----------------------------------------------------------------------------
(* The automatic rollback                                                  *)

RolledBack == AutoRollback /\ tools = "execute" => tx # "inerror"

LEMMA CompletionRollsBack ==
    ASSUME IInv, ~Running, NEW i, NEW what, NEW t \in TxState, CompleteQuery(i, what, t)
    PROVE  RolledBack'
  <1>1. TxStatus # "active"
    BY DEF TxStatus, Running, IInv, TypeOK
  <1> QED
    BY <1>1 DEF CompleteQuery, AfterRollback, RolledBack

LEMMA NextKeepsRolledBack ==
    ASSUME IInv, RolledBack, [Next]_vars
    PROVE  RolledBack'
  <1>1. tx \in TxState /\ "idle" \in TxState /\ "unknown" \in TxState
    BY DEF IInv, TypeOK, TxState
  <1>2. CASE UNCHANGED <<tools, tx>>
    BY <1>2 DEF RolledBack
  <1>3. CASE PrepareQuery
    <2>1. stack # <<>> /\ Top.at \in Claiming /\ tools' = tools
      BY <1>3 DEF PrepareQuery, At, Claiming
    <2>2. tools # "execute"
      BY <2>1, TopFacts DEF IInv, ClaimIsLatest
    <2> QED
      BY <2>1, <2>2 DEF RolledBack
  <1>4. CASE CreateThread
    <2>1. ~Running
      BY <1>4, NoThreadAt DEF CreateThread, At
    <2>2. UNCHANGED <<tools, tx>> \/ CompleteQuery(Top.run, "nothing", tx)
      BY <1>4 DEF CreateThread
    <2> QED
      BY <1>1, <1>2, <2>1, <2>2, CompletionRollsBack
  <1>5. CASE StartReturns
    BY <1>2, <1>5, StartSucceeds
  <1>6. CASE WaitOver
    <2>1. ~Running
      BY <1>6 DEF WaitOver, ThreadOver
    <2>2. \/ UNCHANGED <<tools, tx>>
          \/ CompleteQuery(Top.run, "done", tx)
          \/ \E what \in Outcomes(Top.code) :
                \E t \in (IF what = "lost" THEN {tx, "idle", "unknown"} ELSE {tx}) :
                    CompleteQuery(Top.run, what, t)
      BY <1>6 DEF WaitOver
    <2>3. \A what : \A t \in (IF what = "lost" THEN {tx, "idle", "unknown"} ELSE {tx}) :
             t \in TxState
      BY <1>1
    <2> QED
      BY <1>1, <1>2, <2>1, <2>2, <2>3, CompletionRollsBack
  <1>7. CASE ShowOver
    <2>1. ~Running
      BY <1>7, NoThreadAt DEF ShowOver, At
    <2> QED
      BY <1>1, <1>7, <2>1, CompletionRollsBack DEF ShowOver
  <1>8. CASE Execute \/ OnCancel
    BY <1>8 DEF Execute, OnCancel, RolledBack
  <1>9. CASE OnClose
    BY <1>9 DEF OnClose, RolledBack
  <1>10. CASE Worker
    <2>1. CASE EndThread
      BY <1>2, <2>1 DEF EndThread, toolVars
    <2>2. CASE \E c \in Answers : AnswerQuery(c)
      <3>1. phase = "running" /\ tools' = tools
        BY <2>2 DEF AnswerQuery, Answer, toolVars
      <3>2. tools # "execute"
        BY <3>1 DEF IInv, ClaimIsLatest
      <3> QED
        BY <3>1, <3>2 DEF RolledBack
    <2> QED
      BY <1>10, <2>1, <2>2 DEF Worker
  <1>11. CASE AbortReturns \/ CloseOver \/ Deleted \/ OnQueryComplete
    BY <1>2, <1>11 DEF AbortReturns, CloseOver, Deleted, OnQueryComplete
  <1>12. CASE UNCHANGED vars
    BY <1>2, <1>12 DEF vars, toolVars
  <1> QED
    BY <1>3, <1>4, <1>5, <1>6, <1>7, <1>8, <1>9, <1>10, <1>11, <1>12 DEF Next, GUI, User

\* completeQuery leaves no failed transaction behind when MNU_AUTOROLLBACK
\* is checked, whichever way the query ended.
THEOREM RollbackIsDone ==
    ASSUME ~Macros, ~QuickFail
    PROVE  Spec => []AutoRollbackDone
  <1>1. Init => RolledBack
    BY DEF Init, RolledBack
  <1>2. IInv /\ RolledBack /\ [Next]_vars => RolledBack'
    BY NextKeepsRolledBack
  <1>3. RolledBack => AutoRollbackDone
    BY DEF RolledBack, AutoRollbackDone
  <1> QED
    BY <1>1, <1>2, <1>3, Invariance, PTL DEF Spec

-----------------------------------------------------------------------------
(* The report                                                              *)

\* ReportFitsAnswer, of one report r of execution i, answered a.
Fits(r, i, a) ==
    /\ r.what \in {"done", "error"} => r.thread = i
    /\ r.what = "done" => a \in {"tuples", "command"}
    /\ r.what = "error" => a = "error"
    /\ r.what = "cancelled" => a = "cancelled"
    /\ r.what = "lost" => \/ a \in {"failed", "error"}
                          \/ (a # "cancelled" /\ r.thread = 0)

\* The thread that the grid still has is the latest execution's.
OwnThread == phase # "none" => jobRun = runs

\* A handler that completes a query is called for the answer of the latest
\* execution, and finds its thread or none.
Knows(f) ==
    /\ f.at \in {"wait", "show"} => OwnThread
    /\ f.at = "wait" => f.code = answer[runs] /\ f.code \in Answers

CallsKnow == \A i \in 1..Len(stack) : Knows(stack[i])

Informed ==
    /\ phase \in {"answered", "ended"} => jobRun \in Runs /\ code = answer[jobRun]
    /\ CallsKnow
    /\ \A j \in 1..Len(events) : events[j].code = answer[runs] /\ OwnThread

Reported ==
    \A i \in Runs : /\ Fits(report[i], i, answer[i])
                    /\ report[i].what # "none" => completions[i] # 0

\* Where the calls under way come from.
OldCalls ==
    \A i \in 1..Len(stack') : \/ stack'[i].at \notin {"wait", "show"}
                              \/ \E j \in 1..Len(stack) : stack'[i] = stack[j]

LEMMA OldCallsKnow ==
    ASSUME Informed, OldCalls, UNCHANGED <<answer, runs>>,
           OwnThread => OwnThread'
    PROVE  CallsKnow'
  <1> SUFFICES ASSUME NEW i \in 1..Len(stack'), NEW f, f = stack'[i], f.at \in {"wait", "show"}
               PROVE  /\ OwnThread'
                      /\ f.at = "wait" => f.code = answer'[runs'] /\ f.code \in Answers
    BY DEF CallsKnow, Knows
  <1>1. PICK j \in 1..Len(stack) : f = stack[j]
    BY DEF OldCalls
  <1>2. Knows(f)
    BY <1>1 DEF Informed, CallsKnow
  <1> QED
    BY <1>2 DEF Knows

LEMMA CallsStayOld ==
    ASSUME IInv, stack # <<>>, Return
    PROVE  OldCalls
  BY ReturnPops DEF Pops, OldCalls

\* A step that completes nothing and answers nothing.
LEMMA QuietKeepsInformed ==
    ASSUME Informed, Reported, OldCalls, UNCHANGED <<answer, runs, jobRun, report, completions, code>>,
           phase' \in {phase, "none"} \/ (phase = "answered" /\ phase' = "ended"),
           events' \in {events, <<>>}
    PROVE  Informed' /\ Reported'
  <1>1. OwnThread => OwnThread'
    BY DEF OwnThread
  <1>2. CallsKnow'
    BY <1>1, OldCallsKnow
  <1>3. \A j \in 1..Len(events') : events'[j].code = answer'[runs'] /\ OwnThread'
    <2>1. Len(<<>>) = 0
      OBVIOUS
    <2> QED
      BY <1>1, <2>1 DEF Informed
  <1>4. phase' \in {"answered", "ended"} => jobRun' \in Runs /\ code' = answer'[jobRun']
    BY DEF Informed
  <1>5. Reported'
    BY DEF Reported
  <1> QED
    BY <1>2, <1>3, <1>4, <1>5 DEF Informed

Verdict(what) == [what |-> what, tab |-> exec, thread |-> IF phase = "none" THEN 0 ELSE jobRun]

LEMMA CompletionKeepsInformed ==
    ASSUME IInv, Informed, Reported, stack # <<>>, Top.at \in Claiming, Return,
           NEW what, NEW t, CompleteQuery(Top.run, what, t),
           Fits(Verdict(what), runs, answer[runs]),
           phase' = "none" \/ UNCHANGED <<phase, code>>,
           UNCHANGED <<jobRun, runs, events, answer>>
    PROVE  Informed' /\ Reported'
  <1>1. Top.run = runs
    BY TopFacts DEF IInv, ClaimIsLatest
  <1>2. OwnThread => OwnThread'
    BY DEF OwnThread
  <1>3. CallsKnow'
    BY <1>2, OldCallsKnow, CallsStayOld
  <1>4. Informed'
    BY <1>2, <1>3 DEF Informed
  <1>5. /\ completions' = [completions EXCEPT ![runs] = @ + 1]
        /\ report' = [report EXCEPT ![runs] = Verdict(what)]
    BY <1>1 DEF CompleteQuery, Verdict
  <1>6. completions \in [Runs -> Nat] /\ DOMAIN report = Runs
    BY DEF IInv, TypeOK
  <1>7. \A i \in Runs : i # runs => report'[i] = report[i] /\ completions'[i] = completions[i]
    BY <1>5, <1>6
  <1>8. runs \in Runs => report'[runs] = Verdict(what) /\ completions'[runs] # 0
    BY <1>5, <1>6
  <1>9. Reported'
    BY <1>7, <1>8 DEF Reported
  <1> QED
    BY <1>4, <1>9

LEMMA CreateKeepsInformed ==
    ASSUME IInv, Informed, Reported, CreateThread
    PROVE  Informed' /\ Reported'
  <1>1. stack # <<>> /\ Top.at \in Claiming /\ UNCHANGED <<runs, events>>
    BY DEF CreateThread, At, Claiming
  <1>2. 1 \in 1..Len(stack) /\ stack[1] = Top /\ Top \in Frame
    BY <1>1, TopFacts
  <1>3. /\ events = <<>>
        /\ \A i \in 1..Len(stack) : i # 1 => stack[i].at \notin Claiming
    BY <1>1, <1>2 DEF IInv, OneClaim
  <1>4. CASE phase' = "running" /\ Become("started") /\ UNCHANGED histVars
    <2> DEFINE f == [Top EXCEPT !.at = "started"]
    <2>1. f \in Frame /\ f.at = "started"
      BY <1>2 DEF Frame
    <2>2. Replaces(f)
      BY <1>1, <1>4, <2>1, BecomeReplaces
    <2> HIDE DEF f
    <2>3. \A i \in 1..Len(stack') : stack'[i].at \notin {"wait", "show"}
      BY <1>3, <2>1, <2>2 DEF Replaces, Claiming
    <2>4. CallsKnow'
      BY <2>3 DEF CallsKnow, Knows
    <2>5. Len(events') = 0
      BY <1>1, <1>3
    <2>6. Informed'
      BY <1>4, <2>4, <2>5 DEF Informed
    <2>7. Reported'
      BY <1>4 DEF Reported, histVars
    <2> QED
      BY <2>6, <2>7
  <1>5. CASE phase' = "none" /\ CompleteQuery(Top.run, "nothing", tx) /\ Return
             /\ UNCHANGED <<jobRun, answer>>
    <2>1. Fits(Verdict("nothing"), runs, answer[runs])
      BY DEF Fits, Verdict
    <2> QED
      BY <1>1, <1>5, <2>1, CompletionKeepsInformed
  <1> QED
    BY <1>4, <1>5 DEF CreateThread

LEMMA WaitKeepsInformed ==
    ASSUME IInv, Informed, Reported, WaitOver
    PROVE  Informed' /\ Reported'
  <1>1. /\ stack # <<>> /\ Top.at = "wait" /\ Top.at \in Claiming
        /\ ~Running
        /\ UNCHANGED <<jobVars, jobRun, window, runs, events, answer>>
    BY DEF WaitOver, At, ThreadOver, Claiming
  <1>2. 1 \in 1..Len(stack) /\ stack[1] = Top /\ Top \in Frame
    BY <1>1, TopFacts
  <1>3. OwnThread /\ Top.code = answer[runs] /\ Top.code \in Answers
    BY <1>1, <1>2 DEF Informed, CallsKnow, Knows
  <1>4. phase # "none" => phase = "ended" /\ jobRun = runs /\ code = answer[runs]
    BY <1>1, <1>3 DEF Running, IInv, TypeOK, OwnThread, Informed
  <1>5. UNCHANGED <<phase, code>>
    BY <1>1 DEF jobVars
  <1>6. CASE Become("show") /\ UNCHANGED <<tools, exec, tx, completions, report>>
    <2> DEFINE f == [Top EXCEPT !.at = "show"]
    <2>1. f \in Frame /\ f.at = "show"
      BY <1>2 DEF Frame, Yields
    <2>2. Replaces(f)
      BY <1>1, <1>6, <2>1, BecomeReplaces
    <2> HIDE DEF f
    <2>3. OwnThread'
      BY <1>1, <1>3, <1>5 DEF OwnThread
    <2>4. CallsKnow'
      <3> SUFFICES ASSUME NEW i \in 1..Len(stack'), NEW g, g = stack'[i]
                   PROVE  g.at = "wait" => g.code = answer'[runs'] /\ g.code \in Answers
        BY <2>3 DEF CallsKnow, Knows
      <3>1. CASE i = 1
        BY <2>1, <2>2, <3>1 DEF Replaces
      <3>2. CASE i # 1
        BY <1>1, <2>2, <3>2 DEF Replaces, Informed, CallsKnow, Knows
      <3> QED
        BY <3>1, <3>2
    <2>5. Informed' /\ Reported'
      BY <1>1, <1>5, <1>6, <2>3, <2>4 DEF Informed, Reported
    <2> QED
      BY <2>5
  <1>7. CASE HasRows /\ CompleteQuery(Top.run, "done", tx) /\ Return
    <2>1. Fits(Verdict("done"), runs, answer[runs])
      BY <1>4, <1>7 DEF Fits, Verdict, HasRows
    <2> QED
      BY <1>1, <1>5, <1>7, <2>1, CompletionKeepsInformed
  <1>8. CASE /\ ~HasRows
             /\ \E what \in Outcomes(Top.code) :
                   \E t \in (IF what = "lost" THEN {tx, "idle", "unknown"} ELSE {tx}) :
                       CompleteQuery(Top.run, what, t)
             /\ Return
    <2>1. PICK what \in Outcomes(Top.code) : \E t : CompleteQuery(Top.run, what, t)
      BY <1>8
    <2>2. PICK t : CompleteQuery(Top.run, what, t)
      BY <2>1
    <2>3. ASSUME what = "done"
          PROVE  Fits(Verdict(what), runs, answer[runs])
      <3>1. phase # "none" /\ code = "command"
        BY <2>3 DEF Outcomes
      <3> QED
        BY <1>4, <2>3, <3>1 DEF Fits, Verdict
    <2>4. ASSUME what = "cancelled"
          PROVE  Fits(Verdict(what), runs, answer[runs])
      <3>1. Top.code = "cancelled"
        BY <2>4 DEF Outcomes
      <3> QED
        BY <1>3, <2>4, <3>1 DEF Fits, Verdict
    <2>5. ASSUME what = "error"
          PROVE  Fits(Verdict(what), runs, answer[runs])
      <3>1. phase # "none" /\ code = "error"
        BY <2>5 DEF Outcomes
      <3> QED
        BY <1>4, <2>5, <3>1 DEF Fits, Verdict
    <2>6. ASSUME what = "lost"
          PROVE  Fits(Verdict(what), runs, answer[runs])
      <3>1. Top.code # "cancelled"
        BY <2>6 DEF Outcomes
      <3>2. phase # "none" => code \notin {"tuples", "command", "cancelled"}
        BY <1>3, <1>4, <1>8, <2>6, <3>1 DEF Outcomes, HasRows
      <3>3. phase # "none" => answer[runs] \in {"failed", "error"}
        BY <1>3, <1>4, <3>2 DEF Answers
      <3> QED
        BY <1>3, <2>6, <3>1, <3>3 DEF Fits, Verdict
    <2>7. what \in {"done", "cancelled", "error", "lost"}
      BY DEF Outcomes
    <2> QED
      BY <1>1, <1>5, <1>8, <2>2, <2>3, <2>4, <2>5, <2>6, <2>7, CompletionKeepsInformed
  <1> QED
    BY <1>6, <1>7, <1>8 DEF WaitOver

LEMMA ShowKeepsInformed ==
    ASSUME IInv, Informed, Reported, ShowOver
    PROVE  Informed' /\ Reported'
  <1>1. /\ stack # <<>> /\ Top.at = "show" /\ Top.at \in Claiming
        /\ Return
        /\ UNCHANGED <<jobVars, jobRun, window, runs, events, answer>>
    BY DEF ShowOver, At, Claiming
  <1>2. 1 \in 1..Len(stack) /\ stack[1] = Top
    BY <1>1, TopFacts
  <1>3. OwnThread
    BY <1>1, <1>2 DEF Informed, CallsKnow, Knows
  <1>4. UNCHANGED <<phase, code>>
    BY <1>1 DEF jobVars
  <1> DEFINE what == IF ~Running /\ HasRows THEN "done" ELSE "nothing"
  <1>5. CompleteQuery(Top.run, what, tx)
    BY DEF ShowOver
  <1>6. ~Running /\ HasRows => jobRun = runs /\ answer[runs] = "tuples"
    BY <1>3 DEF HasRows, Running, OwnThread, IInv, TypeOK, Informed
  <1>7. Fits(Verdict(what), runs, answer[runs])
    <2>1. ~Running /\ HasRows => phase # "none"
      BY DEF HasRows
    <2>2. Fits(Verdict("nothing"), runs, answer[runs])
      BY DEF Fits, Verdict
    <2>3. ~Running /\ HasRows => Fits(Verdict("done"), runs, answer[runs])
      BY <1>6, <2>1 DEF Fits, Verdict
    <2> QED
      BY <2>2, <2>3
  <1> HIDE DEF what
  <1> QED
    BY <1>1, <1>4, <1>5, <1>7, CompletionKeepsInformed

LEMMA CompleteKeepsInformed ==
    ASSUME IInv, Informed, Reported, OnQueryComplete
    PROVE  Informed' /\ Reported'
  <1>1. /\ CanDispatch /\ events # <<>> /\ events' = Tail(events)
        /\ Call("wait", Head(events).run, Head(events).code)
        /\ UNCHANGED <<jobVars, jobRun, window, tools, runs, exec, tx, histVars>>
    BY DEF OnQueryComplete
  <1> DEFINE e == Head(events)
             f == [at |-> "wait", run |-> e.run, code |-> e.code]
  <1>2. events \in Seq([run : Runs, code : Answers]) /\ Len(events) <= 1
    BY DEF IInv, TypeOK, OneClaim
  <1>3. Len(events) \in Nat /\ Len(events) > 0
    BY <1>1, <1>2, EmptySeq
  <1>4. e = events[1] /\ 1 \in 1..Len(events)
    BY <1>1, <1>2, <1>3
  <1>5. e \in [run : Runs, code : Answers]
    <2>1. events[1] \in [run : Runs, code : Answers]
      BY <1>2, <1>4, ElementOfSeq
    <2> QED
      BY <1>4, <2>1
  <1>6. e.code = answer[runs] /\ OwnThread
    BY <1>4 DEF Informed
  <1>7. f \in Frame /\ f.at = "wait" /\ f.code = e.code
    BY <1>5 DEF Frame, Yields, Runs
  <1>8. Pushes(f)
    BY <1>1, <1>7, CallPushes
  <1>9. Len(events') = 0
    <2>1. Len(Tail(events)) = Len(events) - 1
      BY <1>1, <1>2, HeadTailProperties
    <2>2. \A n \in Nat : n > 0 /\ n <= 1 => n - 1 = 0
      OBVIOUS
    <2>3. Len(events) <= 1
      BY <1>2
    <2> QED
      BY <1>1, <1>3, <2>1, <2>2, <2>3
  <1> HIDE DEF e, f
  <1>10. OwnThread'
    BY <1>1, <1>6 DEF OwnThread, jobVars
  <1>11. CallsKnow'
    <2> SUFFICES ASSUME NEW i \in 1..Len(stack'), NEW g, g = stack'[i]
                 PROVE  g.at = "wait" => g.code = answer'[runs'] /\ g.code \in Answers
      BY <1>10 DEF CallsKnow, Knows
    <2>1. CASE i = 1
      <3>1. g = f
        BY <1>8, <2>1 DEF Pushes
      <3>2. e.code \in Answers
        BY <1>5
      <3> QED
        BY <1>1, <1>6, <1>7, <3>1, <3>2 DEF histVars
    <2>2. CASE i # 1
      <3>1. i - 1 \in 1..Len(stack) /\ g = stack[i - 1]
        BY <1>8, <2>2 DEF Pushes
      <3> QED
        BY <1>1, <3>1 DEF Informed, CallsKnow, Knows, histVars
    <2> QED
      BY <2>1, <2>2
  <1>12. Informed'
    <2>1. \A j \in 1..Len(events') : FALSE
      BY <1>9
    <2>2. UNCHANGED <<phase, code, jobRun, answer>>
      BY <1>1 DEF jobVars, histVars
    <2> QED
      BY <1>11, <2>1, <2>2 DEF Informed
  <1>13. Reported'
    BY <1>1 DEF Reported, histVars
  <1> QED
    BY <1>12, <1>13

LEMMA AnswerKeepsInformed ==
    ASSUME IInv, Informed, Reported, NEW c \in Answers, AnswerQuery(c)
    PROVE  Informed' /\ Reported'
  <1>1. /\ phase = "running" /\ phase' = "answered" /\ code' = c
        /\ answer' = [answer EXCEPT ![jobRun] = c] /\ events' = Posted(c)
        /\ UNCHANGED <<jobRun, stack, runs, completions, report>>
    BY DEF AnswerQuery, Answer, toolVars
  <1>2. jobRun = runs /\ tools # "execute" /\ runs > 0 /\ runs \in Runs
    BY <1>1, MaxRunsAssumption DEF IInv, ClaimIsLatest, TypeOK, Runs
  <1>3. DOMAIN answer = Runs
    BY DEF IInv, TypeOK
  <1>4. answer'[runs] = c /\ \A i \in Runs : i # runs => answer'[i] = answer[i]
    BY <1>1, <1>2, <1>3
  <1>5. events = <<>> /\ \A i \in 1..Len(stack) : stack[i].at \notin Claiming
    BY <1>1 DEF IInv, OneClaim
  <1> DEFINE e == [run |-> runs, code |-> c]
  <1>6. events' = <<>> \/ events' = <<e>>
    <2>1. Append(<<>>, e) = <<e>>
      OBVIOUS
    <2> QED
      BY <1>1, <1>2, <1>5, <2>1 DEF Posted
  <1>7. e.code = c
    OBVIOUS
  <1> HIDE DEF e
  <1>8. \A j \in 1..Len(events') : events'[j] = e
    <2>1. Len(<<>>) = 0 /\ Len(<<e>>) = 1 /\ <<e>>[1] = e
      OBVIOUS
    <2> QED
      BY <1>6, <2>1
  <1>9. CallsKnow'
    BY <1>1, <1>5 DEF CallsKnow, Knows, Claiming
  <1>10. OwnThread'
    BY <1>1, <1>2 DEF OwnThread
  <1>11. Informed'
    BY <1>1, <1>2, <1>4, <1>7, <1>8, <1>9, <1>10 DEF Informed
  <1>12. Reported'
    <2>1. completions[runs] = 0
      <3>1. runs \in Nat
        BY MaxRunsAssumption DEF IInv, TypeOK
      <3> QED
        BY <1>2, <3>1 DEF IInv, Counted
    <2>2. report[runs].what = "none"
      BY <1>2, <2>1 DEF Reported
    <2>3. Fits(report[runs], runs, c)
      BY <2>2 DEF Fits
    <2> QED
      BY <1>1, <1>4, <2>2, <2>3 DEF Reported
  <1> QED
    BY <1>11, <1>12

LEMMA ExecuteKeepsInformed ==
    ASSUME ~Macros, IInv, Informed, Reported, Execute
    PROVE  Informed' /\ Reported'
  <1>1. /\ tools = "execute" /\ runs' = runs + 1 /\ runs < MaxRuns /\ CanDispatch
        /\ Call("exec", runs + 1, "none")
        /\ UNCHANGED <<jobVars, jobRun, window, events, tx, histVars>>
    BY DEF Execute
  <1> DEFINE f == [at |-> "exec", run |-> runs + 1, code |-> "none"]
  <1>2. f \in Frame /\ f.at = "exec"
    <2>1. runs + 1 \in 0..MaxRuns
      BY <1>1, MaxRunsAssumption DEF IInv, TypeOK
    <2> QED
      BY <2>1 DEF Frame, Yields
  <1>3. Pushes(f)
    BY <1>1, <1>2, CallPushes
  <1> HIDE DEF f
  <1>4. /\ \A i \in 1..Len(stack) : stack[i].at \notin Claiming
        /\ \A j \in 1..Len(events) : FALSE
    BY <1>1 DEF IInv, ClaimIsLatest
  <1>5. CallsKnow'
    <2>1. \A i \in 1..Len(stack') : stack'[i].at \notin {"wait", "show"}
      BY <1>2, <1>3, <1>4 DEF Pushes, Claiming
    <2> QED
      BY <2>1 DEF CallsKnow, Knows
  <1>6. Informed'
    BY <1>1, <1>4, <1>5 DEF Informed, jobVars, histVars
  <1>7. Reported'
    BY <1>1 DEF Reported, histVars
  <1> QED
    BY <1>6, <1>7

LEMMA NextKeepsInformed ==
    ASSUME ~Macros, IInv, Informed, Reported, [Next]_vars
    PROVE  Informed' /\ Reported'
  <1>1. stack' = stack => OldCalls
    BY DEF OldCalls
  <1>2. CASE PrepareQuery
    <2>1. /\ stack # <<>> /\ Top.at = "exec"
          /\ UNCHANGED <<phase, code, announced, jobRun, window, tools, runs, exec,
                         events, histVars>>
      BY <1>2 DEF PrepareQuery, At
    <2>2. Become("create")
      BY <1>2, <2>1, NoThreadAt DEF PrepareQuery
    <2> DEFINE f == [Top EXCEPT !.at = "create"]
    <2>3. f \in Frame /\ f.at = "create"
      BY <2>1, TopFacts DEF Frame
    <2>4. Replaces(f)
      BY <2>1, <2>2, <2>3, BecomeReplaces
    <2> HIDE DEF f
    <2>5. OldCalls
      BY <2>3, <2>4 DEF Replaces, OldCalls
    <2> QED
      BY <2>1, <2>5, QuietKeepsInformed DEF histVars
  <1>3. CASE StartReturns
    <2>1. /\ stack # <<>> /\ Return
          /\ UNCHANGED <<phase, code, jobRun, runs, events, answer, completions, report>>
      BY <1>3, StartSucceeds DEF jobVars
    <2>2. OldCalls
      BY <2>1, CallsStayOld
    <2> QED
      BY <2>1, <2>2, QuietKeepsInformed
  <1>4. CASE AbortReturns
    <2>1. /\ stack # <<>> /\ (Return \/ Become("create") \/ Become("closing"))
          /\ phase' = "none"
          /\ UNCHANGED <<code, jobRun, runs, events, histVars>>
      BY <1>4 DEF AbortReturns, At
    <2>2. ASSUME NEW place \in {"create", "closing"}, Become(place)
          PROVE  OldCalls
      <3> DEFINE f == [Top EXCEPT !.at = place]
      <3>1. f \in Frame /\ f.at = place
        BY <2>1, TopFacts DEF Frame
      <3>2. Replaces(f)
        BY <2>1, <2>2, <3>1, BecomeReplaces
      <3> HIDE DEF f
      <3> QED
        BY <3>1, <3>2 DEF Replaces, OldCalls
    <2>3. OldCalls
      BY <2>1, <2>2, CallsStayOld
    <2> QED
      BY <2>1, <2>3, QuietKeepsInformed DEF histVars
  <1>5. CASE CloseOver
    <2>1. /\ stack # <<>> /\ Return
          /\ phase' \in {phase, "none"}
          /\ UNCHANGED <<code, jobRun, runs, events, answer, completions, report>>
      BY <1>5 DEF CloseOver, At, histVars
    <2>2. OldCalls
      BY <2>1, CallsStayOld
    <2> QED
      BY <2>1, <2>2, QuietKeepsInformed
  <1>6. CASE Deleted
    BY <1>1, <1>6, QuietKeepsInformed DEF Deleted, jobVars, histVars
  <1>7. CASE OnCancel \/ OnClose
    <2>1. UNCHANGED <<phase, code, jobRun, runs, events, answer, completions, report>>
      BY <1>7 DEF OnCancel, OnClose, histVars
    <2>2. CASE stack' = stack
      BY <1>1, <2>1, <2>2, QuietKeepsInformed
    <2>3. CASE stack' # stack
      <3>1. PICK place \in {"abort", "abort_close", "closing"}, i \in {jobRun, 0} :
               CanDispatch /\ Call(place, i, "none")
        BY <1>7, <2>3 DEF OnCancel, OnClose
      <3> DEFINE f == [at |-> place, run |-> i, code |-> "none"]
      <3>2. f \in Frame /\ f.at = place
        <4>1. i \in 0..MaxRuns
          BY MaxRunsAssumption DEF IInv, TypeOK
        <4> QED
          BY <4>1 DEF Frame
      <3>3. Pushes(f)
        BY <3>1, <3>2, CallPushes
      <3> HIDE DEF f
      <3>4. OldCalls
        BY <3>2, <3>3 DEF Pushes, OldCalls
      <3> QED
        BY <2>1, <3>4, QuietKeepsInformed
    <2> QED
      BY <2>2, <2>3
  <1>8. CASE EndThread
    <2>1. /\ phase = "answered" /\ phase' = "ended"
          /\ UNCHANGED <<code, jobRun, stack, runs, events, answer, completions, report>>
      BY <1>8 DEF EndThread, End, toolVars, histVars
    <2> QED
      BY <1>1, <2>1, QuietKeepsInformed
  <1>9. CASE UNCHANGED vars
    <2>1. UNCHANGED <<phase, code, jobRun, stack, runs, events, answer, completions, report>>
      BY <1>9 DEF vars, jobVars, toolVars, histVars
    <2> QED
      BY <1>1, <2>1, QuietKeepsInformed
  <1> QED
    BY <1>2, <1>3, <1>4, <1>5, <1>6, <1>7, <1>8, <1>9, CreateKeepsInformed, WaitKeepsInformed,
       ShowKeepsInformed, CompleteKeepsInformed, AnswerKeepsInformed, ExecuteKeepsInformed
    DEF Next, GUI, User, Worker

\* OnQueryComplete reports what the execution's own thread answered, apart
\* from the lost connection it makes of a query cancelled after its answer.
THEOREM ReportsFitAnswers ==
    ASSUME ~Macros, ~QuickFail
    PROVE  Spec => []ReportFitsAnswer
  <1>1. Init => Informed /\ Reported
    <2> SUFFICES ASSUME Init PROVE Informed /\ Reported
      OBVIOUS
    <2>1. /\ stack = <<>> /\ events = <<>> /\ Len(stack) = 0 /\ Len(events) = 0
          /\ phase = "none" /\ report = [i \in Runs |-> NoReport]
      BY DEF Init
    <2> QED
      BY <2>1 DEF Informed, CallsKnow, Reported, Fits, NoReport
  <1>2. IInv /\ Informed /\ Reported /\ [Next]_vars => Informed' /\ Reported'
    BY NextKeepsInformed
  <1>3. Reported => ReportFitsAnswer
    BY DEF Reported, Fits, ReportFitsAnswer
  <1> QED
    BY <1>1, <1>2, <1>3, Invariance, PTL DEF Spec

-----------------------------------------------------------------------------
(* Nobody is forgotten                                                     *)

\* A handler under way will complete an execution, or start its thread.
Claimed == \E i \in 1..Len(stack) : stack[i].at \in Claiming

\* While Execute is disabled somebody still owes the completion that enables
\* it again: the handler that starts the query, its thread, its event, or the
\* handler of the event.
CompletionOwed ==
    window # "gone" /\ tools # "execute" =>
        phase = "running" \/ events # <<>> \/ Claimed

\* A claim stays on the stack under a call, and when another call returns.
LEMMA CallKeepsClaim ==
    ASSUME IInv, Claimed, NEW f, Pushes(f)
    PROVE  Claimed'
  <1>1. PICK i \in 1..Len(stack) : stack[i].at \in Claiming
    BY DEF Claimed
  <1>2. stack \in Seq(Frame) /\ Len(stack') = Len(stack) + 1
    BY DEF IInv, TypeOK, Pushes
  <1>3. i + 1 \in 1..Len(stack') /\ i + 1 # 1 /\ (i + 1) - 1 = i
    BY <1>2
  <1>4. stack'[i + 1] = stack[i]
    BY <1>3 DEF Pushes
  <1> QED
    BY <1>1, <1>3, <1>4 DEF Claimed

LEMMA ReturnKeepsClaim ==
    ASSUME IInv, Claimed, Top.at \notin Claiming, Pops
    PROVE  Claimed'
  <1>1. PICK i \in 1..Len(stack) : stack[i].at \in Claiming
    BY DEF Claimed
  <1>2. stack \in Seq(Frame) /\ Len(stack') = Len(stack) - 1 /\ stack[1] = Top
    BY DEF IInv, TypeOK, Pops
  <1>3. i - 1 \in 1..Len(stack') /\ (i - 1) + 1 = i
    BY <1>1, <1>2
  <1>4. stack'[i - 1] = stack[i]
    BY <1>3 DEF Pops
  <1> QED
    BY <1>1, <1>3, <1>4 DEF Claimed

LEMMA BecomeKeepsClaim ==
    ASSUME IInv, NEW f, Replaces(f),
           f.at \in Claiming \/ (Claimed /\ Top.at \notin Claiming)
    PROVE  Claimed'
  <1>1. stack' \in Seq(Frame) /\ 1 \in 1..Len(stack') /\ stack'[1] = f
    BY DEF Replaces
  <1>2. CASE f.at \in Claiming
    BY <1>1, <1>2 DEF Claimed
  <1>3. CASE Claimed /\ Top.at \notin Claiming
    <2>1. PICK i \in 1..Len(stack) : stack[i].at \in Claiming
      BY <1>3 DEF Claimed
    <2>2. i # 1 /\ i \in 1..Len(stack')
      BY <1>3, <2>1 DEF Replaces
    <2>3. stack'[i] = stack[i]
      BY <2>2 DEF Replaces
    <2> QED
      BY <2>1, <2>2, <2>3 DEF Claimed
  <1> QED
    BY <1>2, <1>3

\* A call that is no claim itself comes or goes, or nothing does.
LEMMA IdleKeepsOwed ==
    ASSUME IInv, CompletionOwed,
           window' # "gone" /\ tools' # "execute" => window # "gone" /\ tools # "execute",
           phase = "running" => phase' = "running", UNCHANGED events,
           \/ stack' = stack
           \/ \E f : Pushes(f)
           \/ Pops /\ Top.at \notin Claiming
           \/ \E f : Replaces(f) /\ Top.at \notin Claiming
    PROVE  CompletionOwed'
  <1>1. Claimed => Claimed'
    <2>1. CASE stack' = stack
      BY <2>1 DEF Claimed
    <2> QED
      BY <2>1, CallKeepsClaim, ReturnKeepsClaim, BecomeKeepsClaim
  <1> QED
    BY <1>1 DEF CompletionOwed

LEMMA GUIKeepsOwed ==
    ASSUME IInv, CompletionOwed, GUI
    PROVE  CompletionOwed'
  <1>1. CASE PrepareQuery
    <2>1. stack # <<>> /\ Top.at = "exec"
      BY <1>1 DEF PrepareQuery, At
    <2>2. Top \in Frame /\ ~Running
      BY <2>1, TopFacts, NoThreadAt
    <2> DEFINE f == [Top EXCEPT !.at = "create"]
    <2>3. f \in Frame /\ f.at \in Claiming
      BY <2>2 DEF Frame, Claiming
    <2>4. Replaces(f)
      BY <1>1, <2>1, <2>2, <2>3, BecomeReplaces DEF PrepareQuery
    <2> HIDE DEF f
    <2> QED
      BY <2>3, <2>4, BecomeKeepsClaim DEF CompletionOwed
  <1>2. CASE CreateThread
    BY <1>2 DEF CreateThread, CompleteQuery, CompletionOwed
  <1>3. CASE StartReturns
    <2>1. /\ stack # <<>> /\ Top.at \notin Claiming /\ Return
          /\ UNCHANGED <<tools, window, events, phase>>
      BY <1>3, StartSucceeds DEF jobVars
    <2>2. Pops
      BY <2>1, ReturnPops
    <2> QED
      BY <2>1, <2>2, IdleKeepsOwed
  <1>4. CASE AbortReturns
    <2>1. /\ stack # <<>> /\ Top.at \in {"abort", "abort_create", "abort_close"}
          /\ phase # "running" /\ UNCHANGED <<window, tools, events>>
      BY <1>4 DEF AbortReturns, At, Running
    <2>2. Top \in Frame /\ Top.at # "abort_create" /\ Top.at \notin Claiming
      BY <2>1, TopFacts DEF IInv, NothingToAbort, Claiming
    <2>3. CASE Return
      BY <2>1, <2>2, <2>3, ReturnPops, IdleKeepsOwed
    <2>4. CASE Become("closing")
      <3>1. [Top EXCEPT !.at = "closing"] \in Frame
        BY <2>2 DEF Frame
      <3>2. \E f : Replaces(f)
        BY <2>1, <2>4, <3>1, BecomeReplaces
      <3> QED
        BY <2>1, <2>2, <3>2, IdleKeepsOwed
    <2> QED
      BY <1>4, <2>2, <2>3, <2>4 DEF AbortReturns, At
  <1>5. CASE WaitOver
    <2>1. stack # <<>> /\ Top.at = "wait"
      BY <1>5 DEF WaitOver, At
    <2>2. tools' = "execute" \/ Become("show")
      BY <1>5 DEF WaitOver, CompleteQuery
    <2>3. CASE Become("show")
      <3> DEFINE f == [Top EXCEPT !.at = "show"]
      <3>1. f \in Frame /\ f.at \in Claiming
        BY <2>1, TopFacts DEF Frame, Yields, Claiming
      <3>2. Replaces(f)
        BY <2>1, <2>3, <3>1, BecomeReplaces
      <3> HIDE DEF f
      <3> QED
        BY <3>1, <3>2, BecomeKeepsClaim DEF CompletionOwed
    <2> QED
      BY <2>2, <2>3 DEF CompletionOwed
  <1>6. CASE ShowOver
    BY <1>6 DEF ShowOver, CompleteQuery, CompletionOwed
  <1>7. CASE CloseOver
    <2>1. /\ stack # <<>> /\ Top.at \notin Claiming /\ Return
          /\ phase # "running" /\ window' \in {window, "closed"} /\ UNCHANGED <<tools, events>>
      BY <1>7 DEF CloseOver, At, Running, Claiming
    <2>2. window # "gone"
      BY <2>1, TopFacts
    <2> QED
      BY <2>1, <2>2, ReturnPops, IdleKeepsOwed
  <1>8. CASE Deleted
    BY <1>8 DEF Deleted, CompletionOwed
  <1> QED
    BY <1>1, <1>2, <1>3, <1>4, <1>5, <1>6, <1>7, <1>8 DEF GUI

LEMMA CalledKeepsOwed ==
    ASSUME IInv, CompletionOwed, OnQueryComplete \/ User
    PROVE  CompletionOwed'
  <1>1. CASE Execute
    <2>1. CanDispatch /\ runs' = runs + 1 /\ runs < MaxRuns /\ Call("exec", runs', "none")
      BY <1>1 DEF Execute
    <2> DEFINE f == [at |-> "exec", run |-> runs', code |-> "none"]
    <2>2. f \in Frame /\ f.at \in Claiming
      BY <2>1, MaxRunsAssumption DEF Frame, Yields, Claiming, IInv, TypeOK
    <2>3. Pushes(f)
      BY <2>1, <2>2, CallPushes
    <2> HIDE DEF f
    <2>4. stack' \in Seq(Frame) /\ 1 \in 1..Len(stack') /\ stack'[1] = f
      BY <2>3, EmptySeq DEF Pushes
    <2> QED
      BY <2>2, <2>4 DEF CompletionOwed, Claimed
  <1>2. CASE OnQueryComplete
    <2>1. CanDispatch /\ events # <<>> /\ Call("wait", Head(events).run, Head(events).code)
      BY <1>2 DEF OnQueryComplete
    <2>2. Head(events) \in [run : Runs, code : Answers]
      BY <2>1, HeadTailProperties DEF IInv, TypeOK
    <2> DEFINE f == [at |-> "wait", run |-> Head(events).run, code |-> Head(events).code]
    <2>3. f \in Frame /\ f.at \in Claiming
      BY <2>2, MaxRunsAssumption DEF Frame, Yields, Claiming, Runs
    <2>4. Pushes(f)
      BY <2>1, <2>3, CallPushes
    <2> HIDE DEF f
    <2>5. stack' \in Seq(Frame) /\ 1 \in 1..Len(stack') /\ stack'[1] = f
      BY <2>4, EmptySeq DEF Pushes
    <2> QED
      BY <2>3, <2>5 DEF CompletionOwed, Claimed
  <1>3. CASE OnCancel
    <2>1. CanDispatch /\ window # "gone" /\ tools # "execute" /\ UNCHANGED <<phase, events>>
      BY <1>3 DEF OnCancel
    <2>2. [at |-> "abort", run |-> jobRun, code |-> "none"] \in Frame
      BY DEF Frame, IInv, TypeOK
    <2>3. stack' = stack \/ \E f : Pushes(f)
      BY <1>3, <2>1, <2>2, CallPushes DEF OnCancel
    <2> QED
      BY <2>1, <2>3, IdleKeepsOwed
  <1>4. CASE OnClose
    <2>1. /\ CanDispatch /\ window # "gone" /\ UNCHANGED <<phase, events>>
          /\ tools' # "execute" => tools # "execute"
      BY <1>4 DEF OnClose
    <2>2. PICK place \in {"abort_close", "closing"} : Call(place, 0, "none")
      BY <1>4 DEF OnClose
    <2>3. [at |-> place, run |-> 0, code |-> "none"] \in Frame
      BY MaxRunsAssumption DEF Frame
    <2>4. \E f : Pushes(f)
      BY <2>1, <2>2, <2>3, CallPushes
    <2> QED
      BY <2>1, <2>4, IdleKeepsOwed
  <1> QED
    BY <1>1, <1>2, <1>3, <1>4 DEF User

LEMMA WorkerKeepsOwed ==
    ASSUME IInv, CompletionOwed, Worker
    PROVE  CompletionOwed'
  <1>1. CASE EndThread
    <2>1. phase # "running" /\ UNCHANGED <<events, stack, window, tools>>
      BY <1>1 DEF EndThread, End, toolVars
    <2> QED
      BY <2>1, IdleKeepsOwed
  <1>2. CASE \E c \in Answers : AnswerQuery(c)
    <2>1. PICK c \in Answers : AnswerQuery(c)
      BY <1>2
    <2>2. window' = window /\ events' = Posted(c)
      BY <2>1 DEF AnswerQuery, toolVars
    <2>3. window # "gone" => events' # <<>>
      <3>1. events \in Seq([run : Runs, code : Answers])
        BY DEF IInv, TypeOK
      <3>2. jobRun \in Runs
        BY <2>1, MaxRunsAssumption DEF AnswerQuery, Answer, IInv, TypeOK, ClaimIsLatest, Runs
      <3>3. Append(events, [run |-> jobRun, code |-> c]) # <<>>
        BY <3>1, <3>2, AppendProperties
      <3> QED
        BY <2>2, <3>3 DEF Posted
    <2> QED
      BY <2>2, <2>3 DEF CompletionOwed
  <1> QED
    BY <1>1, <1>2 DEF Worker

\* No completion gets lost, however Cancel, Close and the handlers nested in
\* the window's Yields come between: as long as the window shows a query as
\* running, its thread runs, its event waits, or a handler that will complete
\* it is under way.
THEOREM CompletionIsOwed ==
    ASSUME ~Macros, ~QuickFail
    PROVE  Spec => []CompletionOwed
  <1>1. Init => CompletionOwed
    BY DEF Init, CompletionOwed
  <1>2. IInv /\ CompletionOwed /\ [Next]_vars => CompletionOwed'
    <2> SUFFICES ASSUME IInv, CompletionOwed, [Next]_vars PROVE CompletionOwed'
      OBVIOUS
    <2>1. CASE UNCHANGED vars
      BY <2>1 DEF vars, jobVars, toolVars, CompletionOwed, Claimed
    <2> QED
      BY <2>1, GUIKeepsOwed, CalledKeepsOwed, WorkerKeepsOwed DEF Next
  <1> QED
    BY <1>1, <1>2, Invariance, PTL DEF Spec

\* Abort's Wait() blocks the whole program.
Blocked == stack # <<>> /\ Top.at \in {"abort", "abort_create", "abort_close"}

BlockedOnCancelled == Blocked => ~Running \/ cancelled

LEMMA NextKeepsBlocked ==
    ASSUME IInv, BlockedOnCancelled, [Next]_vars
    PROVE  BlockedOnCancelled'
  <1>1. CASE OnCancel \/ OnClose
    <2>1. CASE StopThread
      BY <1>1, <2>1 DEF OnCancel, OnClose, StopThread, BlockedOnCancelled, Running
    <2>2. CASE ~StopThread
      <3>1. OnClose /\ tools # "cancel" /\ CanDispatch /\ Call("closing", 0, "none")
        BY <1>1, <2>2 DEF OnCancel, OnClose
      <3>2. [at |-> "closing", run |-> 0, code |-> "none"] \in Frame
        BY MaxRunsAssumption DEF Frame
      <3>3. Pushes([at |-> "closing", run |-> 0, code |-> "none"])
        BY <3>1, <3>2, CallPushes
      <3> QED
        BY <3>3 DEF Pushes, BlockedOnCancelled, Blocked, Top
    <2> QED
      BY <2>1, <2>2
  <1>2. CASE PrepareQuery
    BY <1>2 DEF PrepareQuery, StopThread, BlockedOnCancelled, Running
  <1>3. CASE Worker
    BY <1>3 DEF Worker, AnswerQuery, EndThread, Answer, End, toolVars,
                BlockedOnCancelled, Blocked, Top, Running
  <1>4. CASE AbortReturns
    BY <1>4 DEF AbortReturns, BlockedOnCancelled, Running
  <1>5. CASE (stack # <<>> /\ Return)
    <2>1. Pops
      BY <1>5, ReturnPops
    <2> QED
      BY <2>1 DEF Pops, BlockedOnCancelled, Blocked, Top, Yields
  <1>6. CASE stack # <<>> /\ \E place \in {"started", "show"} : Become(place)
    <2>1. PICK place \in {"started", "show"} : Become(place)
      BY <1>6
    <2>2. [Top EXCEPT !.at = place].at = place
      BY <1>6, TopFacts DEF Frame
    <2>3. [Top EXCEPT !.at = place] \in Frame
      BY <1>6, TopFacts DEF Frame, Yields
    <2>4. Replaces([Top EXCEPT !.at = place])
      BY <1>6, <2>1, <2>3, BecomeReplaces
    <2> QED
      BY <2>2, <2>4 DEF Replaces, BlockedOnCancelled, Blocked, Top
  <1>7. CASE Execute \/ OnQueryComplete
    <2>1. PICK f \in Frame : f.at \in {"exec", "wait"} /\ Pushes(f)
      <3>1. CASE Execute
        <4>1. CanDispatch /\ runs' = runs + 1 /\ runs < MaxRuns /\ Call("exec", runs', "none")
          BY <3>1 DEF Execute
        <4>2. [at |-> "exec", run |-> runs', code |-> "none"] \in Frame
          BY <4>1, MaxRunsAssumption DEF Frame, Yields, IInv, TypeOK
        <4> QED
          BY <4>1, <4>2, CallPushes
      <3>2. CASE OnQueryComplete
        <4>1. CanDispatch /\ events # <<>> /\ Call("wait", Head(events).run, Head(events).code)
          BY <3>2 DEF OnQueryComplete
        <4>2. Head(events) \in [run : Runs, code : Answers]
          BY <4>1, HeadTailProperties DEF IInv, TypeOK
        <4>3. [at |-> "wait", run |-> Head(events).run, code |-> Head(events).code] \in Frame
          BY <4>2, MaxRunsAssumption DEF Frame, Yields, Runs
        <4> QED
          BY <4>1, <4>3, CallPushes
      <3> QED
        BY <1>7, <3>1, <3>2
    <2> QED
      BY <2>1 DEF Pushes, BlockedOnCancelled, Blocked, Top
  <1>8. CASE Deleted \/ UNCHANGED vars
    BY <1>8 DEF Deleted, vars, jobVars, toolVars, BlockedOnCancelled, Blocked, Top, Running
  <1>9. CASE CreateThread \/ StartReturns \/ WaitOver \/ ShowOver \/ CloseOver
    <2>1. stack # <<>> /\ (Return \/ \E place \in {"started", "show"} : Become(place))
      BY <1>9 DEF CreateThread, StartReturns, WaitOver, ShowOver, CloseOver, At
    <2> QED
      BY <1>5, <1>6, <2>1
  <1> QED
    BY <1>1, <1>2, <1>3, <1>4, <1>7, <1>8, <1>9 DEF Next, GUI, User

\* The GUI thread is only ever blocked on a thread whose query was cancelled,
\* never on one that may take as long as it likes.
THEOREM BlocksOnCancelled ==
    ASSUME ~Macros, ~QuickFail
    PROVE  Spec => []BlockedOnCancelled
  <1>1. Init => BlockedOnCancelled
    BY DEF Init, BlockedOnCancelled, Blocked
  <1>2. IInv /\ BlockedOnCancelled /\ [Next]_vars => BlockedOnCancelled'
    BY NextKeepsBlocked
  <1> QED
    BY <1>1, <1>2, Invariance, PTL DEF Spec

=============================================================================
