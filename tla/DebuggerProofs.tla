--------------------------- MODULE DebuggerProofs ---------------------------
(***************************************************************************)
(* Theorems about Debugger, for any number of sessions, of requests under  *)
(* way and of nested handlers.  What holds only for a user who lets a      *)
(* handler that yields come to its end says so: it assumes ~Hasty.         *)
(***************************************************************************)
EXTENDS Debugger, TLAPS, SequenceTheorems

-----------------------------------------------------------------------------
(* Sequences                                                               *)

\* Whether an element of a sequence is among S.
Holds(s, S) == \E i \in DOMAIN s : s[i] \in S

LEMMA OnTop ==
    ASSUME NEW T, NEW s \in Seq(T), NEW x \in T
    PROVE  /\ <<x>> \o s \in Seq(T)
           /\ Len(<<x>> \o s) = Len(s) + 1
           /\ <<x>> \o s # <<>>
           /\ Head(<<x>> \o s) = x
           /\ \A S : Holds(<<x>> \o s, S) <=> x \in S \/ Holds(s, S)
  <1> DEFINE t == <<x>> \o s
             n == Len(s)
  <1>1. <<x>> \in Seq(T) /\ Len(<<x>>) = 1 /\ <<x>>[1] = x /\ n \in Nat
    OBVIOUS
  <1>2. /\ t \in Seq(T) /\ Len(t) = 1 + n
        /\ \A i \in 1..1 + n : t[i] = IF i <= 1 THEN <<x>>[i] ELSE s[i - 1]
    BY <1>1, ConcatProperties
  <1>3. Len(<<>>) = 0
    OBVIOUS
  <1>4. t # <<>> => Head(t) = t[1]
    BY <1>2
  <1>5. DOMAIN s = 1..n /\ (t \in Seq(T) => DOMAIN t = 1..Len(t))
    OBVIOUS
  <1> HIDE DEF t, n
  <1>6. t[1] = x /\ t # <<>>
    BY <1>1, <1>2, <1>3
  <1>7. \A i \in 1..n : i + 1 \in 1..1 + n /\ t[i + 1] = s[i]
    BY <1>1, <1>2
  <1>8. \A i \in 1..1 + n : i # 1 => i - 1 \in 1..n /\ t[i] = s[i - 1]
    BY <1>1, <1>2
  <1>9. ASSUME NEW S
        PROVE  Holds(t, S) <=> x \in S \/ Holds(s, S)
    <2>1. 1 \in DOMAIN t
      BY <1>1, <1>2, <1>5
    <2>2. x \in S => Holds(t, S)
      BY <1>6, <2>1 DEF Holds
    <2>3. Holds(s, S) => Holds(t, S)
      BY <1>2, <1>5, <1>7 DEF Holds
    <2>4. Holds(t, S) => x \in S \/ Holds(s, S)
      BY <1>2, <1>5, <1>6, <1>8 DEF Holds
    <2> QED
      BY <2>2, <2>3, <2>4
  <1> QED
    BY <1>1, <1>2, <1>4, <1>6, <1>9 DEF t, n

LEMMA Taken ==
    ASSUME NEW T, NEW s \in Seq(T), s # <<>>
    PROVE  /\ Tail(s) \in Seq(T)
           /\ Len(Tail(s)) = Len(s) - 1
           /\ Len(s) > 0
           /\ Head(s) \in T
           /\ \A S : Holds(s, S) <=> Head(s) \in S \/ Holds(Tail(s), S)
  <1> DEFINE t == Tail(s)
             n == Len(s)
  <1>1. /\ t \in Seq(T) /\ Len(t) = n - 1 /\ n \in Nat /\ n > 0
        /\ \A i \in 1..Len(t) : t[i] = s[i + 1]
    BY HeadTailProperties, EmptySeq
  <1>2. Head(s) = s[1] /\ s[1] \in T
    BY ElementOfSeq
  <1>3. DOMAIN s = 1..n /\ (t \in Seq(T) => DOMAIN t = 1..Len(t))
    OBVIOUS
  <1> HIDE DEF t, n
  <1>4. \A i \in 1..n : i # 1 => i - 1 \in 1..Len(t) /\ s[i] = t[i - 1]
    BY <1>1
  <1>5. \A i \in 1..Len(t) : i + 1 \in 1..n
    BY <1>1
  <1>6. ASSUME NEW S
        PROVE  Holds(s, S) <=> Head(s) \in S \/ Holds(t, S)
    <2>1. 1 \in DOMAIN s
      BY <1>1, <1>3
    <2>2. Head(s) \in S => Holds(s, S)
      BY <1>2, <2>1 DEF Holds
    <2>3. Holds(t, S) => Holds(s, S)
      BY <1>1, <1>3, <1>5 DEF Holds
    <2>4. Holds(s, S) => Head(s) \in S \/ Holds(t, S)
      BY <1>1, <1>2, <1>3, <1>4 DEF Holds
    <2> QED
      BY <2>2, <2>3, <2>4
  <1> QED
    BY <1>1, <1>2, <1>6 DEF t, n

LEMMA Appended ==
    ASSUME NEW T, NEW s \in Seq(T), NEW x \in T
    PROVE  /\ Append(s, x) \in Seq(T)
           /\ Append(s, x) # <<>>
           /\ \A S : Holds(Append(s, x), S) <=> x \in S \/ Holds(s, S)
  <1> DEFINE t == Append(s, x)
             n == Len(s)
  <1>1. /\ t \in Seq(T) /\ Len(t) = n + 1 /\ n \in Nat
        /\ \A i \in 1..n : t[i] = s[i]
        /\ t[n + 1] = x
    BY AppendProperties
  <1>2. DOMAIN s = 1..n /\ DOMAIN t = 1..n + 1 /\ Len(<<>>) = 0
    BY <1>1
  <1> HIDE DEF t, n
  <1>3. t # <<>>
    BY <1>1, <1>2
  <1>4. ASSUME NEW S
        PROVE  Holds(t, S) <=> x \in S \/ Holds(s, S)
    BY <1>1, <1>2 DEF Holds
  <1> QED
    BY <1>1, <1>3, <1>4 DEF t

LEMMA Joined ==
    ASSUME NEW T, NEW s \in Seq(T), NEW q \in Seq(T)
    PROVE  /\ s \o q \in Seq(T)
           /\ \A S : Holds(s \o q, S) <=> Holds(s, S) \/ Holds(q, S)
  <1> DEFINE t == s \o q
             n == Len(s)
             m == Len(q)
  <1>1. /\ t \in Seq(T) /\ Len(t) = n + m /\ n \in Nat /\ m \in Nat
        /\ \A i \in 1..n + m : t[i] = IF i <= n THEN s[i] ELSE q[i - n]
    BY ConcatProperties
  <1>2. DOMAIN s = 1..n /\ DOMAIN q = 1..m /\ DOMAIN t = 1..n + m
    BY <1>1
  <1> HIDE DEF t, n, m
  <1>3. \A i \in 1..n : i \in 1..n + m /\ t[i] = s[i]
    BY <1>1
  <1>4. \A i \in 1..m : n + i \in 1..n + m /\ t[n + i] = q[i]
    BY <1>1
  <1>5. \A i \in 1..n + m : \/ i \in 1..n /\ t[i] = s[i]
                            \/ i - n \in 1..m /\ t[i] = q[i - n]
    BY <1>1
  <1>6. ASSUME NEW S
        PROVE  Holds(t, S) <=> Holds(s, S) \/ Holds(q, S)
    <2>1. Holds(s, S) => Holds(t, S)
      BY <1>2, <1>3 DEF Holds
    <2>2. Holds(q, S) => Holds(t, S)
      BY <1>2, <1>4 DEF Holds
    <2>3. Holds(t, S) => Holds(s, S) \/ Holds(q, S)
      BY <1>2, <1>5 DEF Holds
    <2> QED
      BY <2>1, <2>2, <2>3
  <1> QED
    BY <1>1, <1>6 DEF t

LEMMA Nothing == \A S : ~Holds(<<>>, S)
  BY DEF Holds

-----------------------------------------------------------------------------
(* The stack of calls, and types                                           *)

\* Whether a call is under way that has come to this place.
Under(s, place) == Holds(s, {f \in Frames : f.at = place})
On(place) == Under(stack, place)

LEMMA CallPuts ==
    ASSUME TypeOK, NEW place, NEW by, NEW below \in Seq(Frames),
           [at |-> place, by |-> by] \in Frames,
           stack' = <<[at |-> place, by |-> by]>> \o below
    PROVE  /\ stack' \in Seq(Frames) /\ stack' # <<>>
           /\ Len(stack') = Len(below) + 1
           /\ \A p : Under(stack', p) <=> p = place \/ Under(below, p)
  <1> DEFINE f == [at |-> place, by |-> by]
  <1>1. /\ stack' \in Seq(Frames) /\ stack' # <<>> /\ Len(stack') = Len(below) + 1
        /\ \A S : Holds(stack', S) <=> f \in S \/ Holds(below, S)
    BY OnTop
  <1>2. \A p : f \in {g \in Frames : g.at = p} <=> p = place
    OBVIOUS
  <1> HIDE DEF f
  <1> QED
    BY <1>1, <1>2 DEF Under

LEMMA TopOff ==
    ASSUME TypeOK, stack # <<>>
    PROVE  /\ Tail(stack) \in Seq(Frames)
           /\ Len(Tail(stack)) = Len(stack) - 1
           /\ Len(stack) \in 1..MaxDepth
           /\ Top \in Frames
           /\ \A p : On(p) <=> p = Top.at \/ Under(Tail(stack), p)
  <1>1. stack \in Seq(Frames) /\ Len(stack) <= MaxDepth /\ Len(stack) \in Nat /\ MaxDepth \in Nat
    BY BoundsAssumption DEF TypeOK
  <1>2. /\ Tail(stack) \in Seq(Frames) /\ Len(Tail(stack)) = Len(stack) - 1
        /\ Len(stack) > 0 /\ Top \in Frames
        /\ \A S : Holds(stack, S) <=> Top \in S \/ Holds(Tail(stack), S)
    BY <1>1, Taken DEF Top
  <1>3. \A p : Top \in {g \in Frames : g.at = p} <=> p = Top.at
    BY <1>2
  <1> QED
    BY <1>1, <1>2, <1>3 DEF Under, On

LEMMA RoomToCall ==
    ASSUME TypeOK, CanDispatch
    PROVE  Len(stack) + 1 \in 1..MaxDepth
  <1>1. Len(<<>>) = 0
    OBVIOUS
  <1> QED
    BY <1>1, BoundsAssumption DEF TypeOK, CanDispatch

\* What EndDebugThread does to the events.
LEMMA ThreadEnded ==
    ASSUME TypeOK, EndDebugThread
    PROVE  /\ ~dbg' /\ dbg' \in BOOLEAN /\ queue' = <<>>
           /\ events' \in Seq(Events)
           /\ queue = <<>> => events' = events
  <1>1. queue \in Seq(Queries) /\ events \in Seq(Events)
    BY DEF TypeOK
  <1> DEFINE e == [id |-> Head(queue), rc |-> "ok", current |-> TRUE]
  <1>2. queue # <<>> => e \in Events
    BY <1>1, Taken DEF Events
  <1>3. /\ dbg' = FALSE /\ queue' = <<>>
        /\ events' = events \/ (queue # <<>> /\ events' = Append(events, e))
    BY DEF EndDebugThread
  <1> HIDE DEF e
  <1>4. queue # <<>> => Append(events, e) \in Seq(Events)
    BY <1>1, <1>2, Appended
  <1> QED
    BY <1>1, <1>3, <1>4

\* Stop, called where below are the calls under way.
LEMMA StopTypes ==
    ASSUME TypeOK, NEW below \in Seq(Frames), Len(below) <= MaxDepth,
           NEW by \in {"return", "close", "error"},
           Len(below) + 1 <= MaxDepth, Stop(below, by)
    PROVE  /\ window' \in {"open", "closed"} /\ conn' \in {"ok", "bad", "deleted"}
           /\ terminated' \in BOOLEAN /\ stopping' \in BOOLEAN /\ dbg' \in BOOLEAN
           /\ queue' \in Seq(Queries) /\ events' \in Seq(Events)
           /\ exec' \in {"none", "running", "announced", "answered", "ended"}
           /\ execCancelled' \in BOOLEAN
           /\ stack' \in Seq(Frames) /\ Len(stack') <= MaxDepth
  <1>0. [at |-> "stop_loop", by |-> by] \in Frames
    BY DEF Frames, Yields
  <1>1. CASE terminated \/ stopping
    BY <1>1 DEF Stop, TypeOK, dbgVars, execVars
  <1>2. CASE ~(terminated \/ stopping) /\ ExecRunning
    <2>1. stack' \in Seq(Frames) /\ Len(stack') <= MaxDepth
      BY <1>0, <1>2, CallPuts DEF Stop
    <2> QED
      BY <1>2, <2>1 DEF Stop, TypeOK, dbgVars
  <1>3. CASE ~(terminated \/ stopping) /\ ~ExecRunning
    <2>1. StopRest(below, by)
      BY <1>3 DEF Stop
    <2>2. EndDebugThread
      BY <2>1 DEF StopRest
    <2>3. <<>> \in Seq(Queries)
      OBVIOUS
    <2> QED
      BY <2>1, <2>2, <2>3, ThreadEnded DEF StopRest, TypeOK
  <1> QED
    BY <1>1, <1>2, <1>3

LEMMA FollowUpTypes ==
    ASSUME NEW id \in Queries, NEW qs \in FollowUp(id)
    PROVE  qs \in Seq(Queries)
  <1>1. /\ <<>> \in Seq(Queries)
        /\ \A x, y \in Queries : <<x>> \in Seq(Queries) /\ <<x, y>> \in Seq(Queries)
    OBVIOUS
  <1>2. qs \in {<<>>, <<"wait_breakpoint">>, <<"wait_breakpoint", "set_breakpoint">>,
                <<"add_breakpoint">>, <<"wait_target">>, <<"stack">>, <<"breakpoints">>,
                <<"vars">>}
    BY DEF FollowUp, FollowUps, Queries, Moves
  <1> QED
    BY <1>1, <1>2 DEF Queries, Moves

LEMMA ToolTypes ==
    ASSUME NEW enable \in BOOLEAN, EnableTools(enable)
    PROVE  /\ tools' \in [step : BOOLEAN, cont : BOOLEAN]
           /\ tools'.step = enable
           /\ tools'.cont = (enable \/ CanRestart)
  BY DEF EnableTools, CanRestart

-----------------------------------------------------------------------------
(* Types                                                                   *)

\* The query whose event is handled.
LEMMA Dispatched ==
    ASSUME TypeOK, NEW ids, Dispatch(ids)
    PROVE  /\ events # <<>> /\ events \in Seq(Events)
           /\ Head(events) \in Events /\ Head(events).id \in ids
           /\ events' = Tail(events) /\ events' \in Seq(Events)
  BY Taken DEF Dispatch, TypeOK

LEMMA QueriesAdded ==
    ASSUME TypeOK, NEW qs \in Seq(Queries), AddQueries(qs)
    PROVE  queue' \in Seq(Queries) /\ \A S : Holds(queue', S) <=> Holds(queue, S) \/ Holds(qs, S)
  BY Joined DEF AddQueries, TypeOK

LEMMA CallTypes ==
    ASSUME TypeOK, CanDispatch, NEW place \in Yields,
           NEW by \in {"user", "return", "close", "error", "fatal", "lost"}, Call(place, by)
    PROVE  /\ stack' \in Seq(Frames) /\ Len(stack') <= MaxDepth /\ stack' # <<>>
           /\ \A p : Under(stack', p) <=> p = place \/ On(p)
  <1>1. [at |-> place, by |-> by] \in Frames /\ stack \in Seq(Frames)
    BY DEF Frames, TypeOK
  <1> QED
    BY <1>1, CallPuts, RoomToCall DEF Call, On

LEMMA AskTypes ==
    ASSUME TypeOK, NEW qs \in Seq(Queries), Ask(qs), tools' \in [step : BOOLEAN, cont : BOOLEAN]
    PROVE  TypeOK'
  <1>1. queue' \in Seq(Queries)
    BY QueriesAdded DEF Ask, TypeOK
  <1> QED
    BY <1>1 DEF Ask, TypeOK, flagVars, execVars, viewVars

LEMMA StopToolTypes ==
    ASSUME TypeOK, StopTools
    PROVE  tools' \in [step : BOOLEAN, cont : BOOLEAN]
  BY ToolTypes DEF StopTools, TypeOK

\* The handler of an error stops the session: it is on top of the stack.
LEMMA StopOnTop ==
    ASSUME TypeOK, stack # <<>>, Stop(Tail(stack), "error"), StopTools,
           UNCHANGED <<boundVars, viewVars, brokenOff>>, pid' \in BOOLEAN
    PROVE  TypeOK'
  <1>1. /\ Tail(stack) \in Seq(Frames) /\ Len(Tail(stack)) + 1 <= MaxDepth
        /\ Len(Tail(stack)) <= MaxDepth
    BY TopOff, BoundsAssumption
  <1> QED
    BY <1>1, StopTypes, StopToolTypes DEF TypeOK, boundVars, viewVars

\* The parts of TypeOK, which different facts are about.
FlagTypes ==
    /\ tools \in [step : BOOLEAN, cont : BOOLEAN]
    /\ terminated \in BOOLEAN /\ stopping \in BOOLEAN
    /\ dbg \in BOOLEAN
    /\ execCancelled \in BOOLEAN
    /\ pid \in BOOLEAN
    /\ shown \in BOOLEAN
    /\ brokenOff \in BOOLEAN

StateTypes ==
    /\ kind \in {"direct", "incontext"}
    /\ window \in {"open", "closed"}
    /\ conn \in {"ok", "bad", "deleted"}
    /\ exec \in {"none", "running", "announced", "answered", "ended"}
    /\ starts \in 0..MaxStarts
    /\ stackOf \in {"none", "old", "current"}
    /\ varsOf \in {"none", "old", "current"}

SeqTypes ==
    /\ queue \in Seq(Queries)
    /\ stack \in Seq(Frames) /\ Len(stack) <= MaxDepth
    /\ events \in Seq(Events)

LEMMA Parts == TypeOK <=> FlagTypes /\ StateTypes /\ SeqTypes
  BY DEF TypeOK, FlagTypes, StateTypes, SeqTypes

LEMMA PartsNext == TypeOK' <=> FlagTypes' /\ StateTypes' /\ SeqTypes'
  BY DEF TypeOK, FlagTypes, StateTypes, SeqTypes

LEMMA TypesGUI ==
    ASSUME TypeOK, GUI
    PROVE  TypeOK'
  <1>0. FlagTypes /\ StateTypes /\ SeqTypes
    BY Parts
  <1>1. ASSUME Started PROVE TypeOK'
    <2>1. stack # <<>> /\ stack' = Tail(stack)
      BY <1>1 DEF Started, At, Return, StopRest
    <2>2. stack' \in Seq(Frames) /\ Len(stack') <= MaxDepth
      BY <2>1, TopOff, BoundsAssumption
    <2>3. UNCHANGED <<boundVars, pid, viewVars>>
      BY <1>1 DEF Started
    <2>4. CASE kind = "direct" /\ EnableTools(FALSE) /\ StopRest(Tail(stack), "return")
               /\ UNCHANGED brokenOff
      <3>1. <<>> \in Seq(Queries)
        OBVIOUS
      <3>2. /\ exec' = "none" /\ execCancelled' = FALSE /\ terminated' = TRUE
            /\ stopping' = FALSE /\ conn' = "bad" /\ window' = window /\ EndDebugThread
        BY <2>4 DEF StopRest
      <3>3. tools' \in [step : BOOLEAN, cont : BOOLEAN]
        BY <2>4, ToolTypes
      <3>4. dbg' \in BOOLEAN /\ queue' = <<>> /\ events' \in Seq(Events)
        BY <3>2, ThreadEnded
      <3> QED
        BY <2>2, <2>3, <2>4, <3>1, <3>2, <3>3, <3>4 DEF TypeOK, boundVars, viewVars
    <2>5. CASE kind = "incontext" /\ AddQueries(<<"listener">>)
               /\ terminated' = FALSE /\ stopping' = FALSE
               /\ UNCHANGED <<window, tools, conn, dbg, execVars, events, brokenOff>>
      <3>1. <<"listener">> \in Seq(Queries)
        BY DEF Queries
      <3>2. queue' \in Seq(Queries)
        BY <2>5, <3>1, QueriesAdded
      <3>3. /\ terminated' = FALSE /\ stopping' = FALSE
            /\ UNCHANGED <<window, tools, conn, dbg, execVars, brokenOff>>
        BY <2>5
      <3>4. FlagTypes' /\ StateTypes'
        <4>1. FlagTypes'
          BY <2>3, <3>3, <1>0 DEF FlagTypes, boundVars, viewVars, execVars
        <4>2. StateTypes'
          BY <2>3, <3>3, <1>0 DEF StateTypes, boundVars, viewVars, execVars
        <4> QED
          BY <4>1, <4>2
      <3> QED
        BY <2>2, <2>5, <3>2, <3>4, PartsNext, <1>0 DEF SeqTypes
    <2>6. CASE kind = "direct" /\ terminated' = FALSE /\ stopping' = FALSE
               /\ exec' = "running" /\ execCancelled' = FALSE
               /\ UNCHANGED <<window, tools, conn, dbgVars, events, brokenOff>>
      <3>1. FlagTypes' /\ StateTypes'
        <4>1. FlagTypes'
          BY <2>3, <2>6, <1>0 DEF FlagTypes, boundVars, viewVars, dbgVars
        <4>2. StateTypes'
          BY <2>3, <2>6, <1>0 DEF StateTypes, boundVars, viewVars, dbgVars
        <4> QED
          BY <4>1, <4>2
      <3> QED
        BY <2>2, <2>6, <3>1, PartsNext, <1>0 DEF SeqTypes, dbgVars
    <2>7. CASE kind = "direct" /\ terminated' = TRUE /\ stopping' = FALSE
               /\ brokenOff' = TRUE /\ conn' = "bad"
               /\ tools' = [NoTools EXCEPT !.cont = TRUE]
               /\ UNCHANGED <<window, dbgVars, execVars, events>>
      <3>1. FlagTypes' /\ StateTypes'
        <4>1. FlagTypes'
          BY <2>3, <2>7, <1>0 DEF FlagTypes, boundVars, viewVars, dbgVars, execVars, NoTools
        <4>2. StateTypes'
          BY <2>3, <2>7, <1>0 DEF StateTypes, boundVars, viewVars, dbgVars, execVars, NoTools
        <4> QED
          BY <4>1, <4>2
      <3> QED
        BY <2>2, <2>7, <3>1, PartsNext, <1>0 DEF SeqTypes, dbgVars
    <2> QED
      BY <1>1, <2>4, <2>5, <2>6, <2>7 DEF Started
  <1>2. ASSUME LoopOver PROVE TypeOK'
    <2>1. stack # <<>> /\ stack' = Tail(stack) /\ EndDebugThread
      BY <1>2 DEF LoopOver, At, StopRest
    <2>2. stack' \in Seq(Frames) /\ Len(stack') <= MaxDepth
      BY <2>1, TopOff, BoundsAssumption
    <2>3. <<>> \in Seq(Queries)
      OBVIOUS
    <2> QED
      BY <1>2, <2>1, <2>2, <2>3, ThreadEnded DEF LoopOver, StopRest, TypeOK, boundVars, viewVars
  <1>3. ASSUME ErrorHandled PROVE TypeOK'
    <2>1. stack # <<>>
      BY <1>3 DEF ErrorHandled, At
    <2>2. CASE Stop(Tail(stack), "error") /\ StopTools /\ UNCHANGED pid
      BY <1>3, <2>1, <2>2, StopOnTop DEF ErrorHandled, TypeOK
    <2>3. CASE pid' = FALSE /\ AddQueries(<<"wait_target">>) /\ Return
               /\ UNCHANGED <<window, tools, conn, flagVars, dbg, execVars, events>>
      <3>1. <<"wait_target">> \in Seq(Queries)
        BY DEF Queries
      <3>2. queue' \in Seq(Queries)
        BY <2>3, <3>1, QueriesAdded
      <3>3. stack' \in Seq(Frames) /\ Len(stack') <= MaxDepth
        BY <2>1, <2>3, TopOff, BoundsAssumption DEF Return
      <3>4. /\ pid' = FALSE
            /\ UNCHANGED <<boundVars, window, tools, conn, flagVars, dbg, execVars, viewVars, brokenOff>>
        BY <1>3, <2>3 DEF ErrorHandled
      <3>5. FlagTypes'
        BY <3>4, <1>0 DEF FlagTypes, boundVars, viewVars, flagVars, execVars
      <3>6. StateTypes'
        BY <3>4, <1>0 DEF StateTypes, boundVars, viewVars, flagVars, execVars
      <3> QED
        BY <2>3, <3>2, <3>3, <3>5, <3>6, PartsNext, <1>0 DEF SeqTypes
    <2>4. CASE Become("box", "error") /\ conn' \in {"bad", conn}
               /\ UNCHANGED <<window, tools, flagVars, dbgVars, execVars, pid, events>>
      <3>1. [at |-> "box", by |-> "error"] \in Frames
        BY DEF Frames, Yields
      <3>2. Tail(stack) \in Seq(Frames) /\ Len(Tail(stack)) + 1 <= MaxDepth
        BY <2>1, TopOff, BoundsAssumption
      <3>3. stack' \in Seq(Frames) /\ Len(stack') = Len(Tail(stack)) + 1
        BY <2>4, <3>1, <3>2, CallPuts DEF Become
      <3>4. Len(stack') <= MaxDepth
        BY <3>2, <3>3
      <3>5. /\ conn' \in {"bad", conn}
            /\ UNCHANGED <<boundVars, window, tools, flagVars, dbg, execVars, pid, viewVars, brokenOff>>
        BY <1>3, <2>4 DEF ErrorHandled, dbgVars
      <3>6. FlagTypes' /\ StateTypes'
        <4>1. FlagTypes'
          BY <3>5, <1>0 DEF FlagTypes, boundVars, viewVars, flagVars, execVars
        <4>2. StateTypes'
          BY <3>5, <1>0 DEF StateTypes, boundVars, viewVars, flagVars, execVars
        <4> QED
          BY <4>1, <4>2
      <3> QED
        BY <2>4, <3>3, <3>4, <3>6, PartsNext, <1>0 DEF SeqTypes, dbgVars
    <2> QED
      BY <1>3, <2>2, <2>3, <2>4 DEF ErrorHandled
  <1>4. ASSUME BoxClosed PROVE TypeOK'
    BY <1>4, StopOnTop DEF BoxClosed, At, TypeOK
  <1>5. ASSUME Completed PROVE TypeOK'
    <2>1. stack # <<>> /\ stack' = Tail(stack) /\ EndDebugThread
      BY <1>5 DEF Completed, At, Return
    <2>2. stack' \in Seq(Frames) /\ Len(stack') <= MaxDepth
      BY <2>1, TopOff, BoundsAssumption
    <2>3. <<>> \in Seq(Queries)
      OBVIOUS
    <2>4. tools' \in [step : BOOLEAN, cont : BOOLEAN]
      BY <1>5 DEF Completed, NoTools
    <2>5. dbg' \in BOOLEAN /\ queue' = <<>> /\ events' \in Seq(Events)
      BY <2>1, ThreadEnded
    <2>6. /\ exec' = "none" /\ execCancelled' = FALSE /\ conn' \in {"bad", conn}
          /\ UNCHANGED <<boundVars, window, flagVars, pid, viewVars, brokenOff>>
      BY <1>5 DEF Completed
    <2> QED
      <3>1. dbg' \in BOOLEAN
        BY <2>5
      <3>2. FlagTypes' /\ StateTypes'
        <4>1. FlagTypes'
          BY <2>4, <2>6, <3>1, <1>0 DEF FlagTypes, boundVars, viewVars, flagVars
        <4>2. StateTypes'
          BY <2>4, <2>6, <3>1, <1>0 DEF StateTypes, boundVars, viewVars, flagVars
        <4> QED
          BY <4>1, <4>2
      <3> QED
        BY <2>2, <2>3, <2>5, <3>2, PartsNext DEF SeqTypes
  <1> QED
    BY <1>1, <1>2, <1>3, <1>4, <1>5 DEF GUI

LEMMA TypesHandlers ==
    ASSUME TypeOK, Handlers
    PROVE  TypeOK'
  <1>1. ASSUME OnStartDebugging PROVE TypeOK'
    <2>1. events' \in Seq(Events)
      BY <1>1, Dispatched DEF OnStartDebugging
    <2>2. <<"attach">> \in Seq(Queries)
      BY DEF Queries
    <2>3. queue' \in Seq(Queries)
      BY <1>1, <2>2, QueriesAdded DEF OnStartDebugging, TypeOK
    <2> QED
      BY <1>1, <2>1, <2>3 DEF OnStartDebugging, TypeOK, boundVars, viewVars, flagVars, execVars
  <1>2. ASSUME Answered PROVE TypeOK'
    <2>1. events' \in Seq(Events) /\ Head(events) \in Events /\ Head(events).id \in Queries
      BY <1>2, Dispatched DEF Answered
    <2>2. queue' \in Seq(Queries)
      BY <1>2, <2>1, FollowUpTypes, QueriesAdded DEF Answered
    <2>3. tools' \in [step : BOOLEAN, cont : BOOLEAN]
      BY <1>2, ToolTypes DEF Answered, TypeOK
    <2>4. shown' \in BOOLEAN /\ pid' \in BOOLEAN
      BY <1>2 DEF Answered
    <2>5. stackOf' \in {"none", "old", "current"} /\ varsOf' \in {"none", "old", "current"}
      BY <1>2 DEF Answered, TypeOK, Age
    <2> QED
      BY <1>2, <2>1, <2>2, <2>3, <2>4, <2>5 DEF Answered, TypeOK, boundVars, flagVars, execVars
  <1>3. ASSUME Failed PROVE TypeOK'
    <2>1. events' \in Seq(Events) /\ Head(events) \in Events /\ CanDispatch
      BY <1>3, Dispatched DEF Failed, Dispatch
    <2>2. Head(events).rc \in {"user", "return", "close", "error", "fatal", "lost"}
      BY <1>3, <2>1 DEF Failed, Events
    <2>3. stack' \in Seq(Frames) /\ Len(stack') <= MaxDepth
      BY <1>3, <2>1, <2>2, CallTypes DEF Failed, Yields
    <2>4. tools' \in [step : BOOLEAN, cont : BOOLEAN]
      BY <1>3, ToolTypes DEF Failed
    <2> QED
      BY <1>3, <2>1, <2>3, <2>4 DEF Failed, TypeOK, boundVars, viewVars, flagVars, execVars, dbgVars
  <1>4. ASSUME Ignored PROVE TypeOK'
    <2>1. events' \in Seq(Events)
      BY <1>4, Dispatched DEF Ignored
    <2>2. tools' \in [step : BOOLEAN, cont : BOOLEAN]
      BY <1>4, ToolTypes DEF Ignored, TypeOK
    <2> QED
      BY <1>4, <2>1, <2>2 DEF Ignored, TypeOK, boundVars, viewVars, flagVars, execVars, dbgVars
  <1>5. ASSUME TargetComplete PROVE TypeOK'
    <2>1. events' \in Seq(Events) /\ CanDispatch
      BY <1>5, Dispatched DEF TargetComplete, Dispatch
    <2>2. stack' \in Seq(Frames) /\ Len(stack') <= MaxDepth
      BY <1>5, <2>1, CallTypes DEF TargetComplete, Yields
    <2>3. tools' \in [step : BOOLEAN, cont : BOOLEAN]
      BY <1>5, ToolTypes DEF TargetComplete
    <2> QED
      BY <1>5, <2>1, <2>2, <2>3 DEF TargetComplete, TypeOK, boundVars, viewVars, execVars, dbgVars
  <1> QED
    BY <1>1, <1>2, <1>3, <1>4, <1>5 DEF Handlers

LEMMA TypesUser ==
    ASSUME TypeOK, User
    PROVE  TypeOK'
  <1>1. ASSUME Start PROVE TypeOK'
    <2>1. starts' \in 0..MaxStarts /\ CanDispatch
      BY <1>1, BoundsAssumption DEF Start, TypeOK, CanInput
    <2>2. stack' \in Seq(Frames) /\ Len(stack') <= MaxDepth
      BY <1>1, <2>1, CallTypes DEF Start, Yields, TypeOK
    <2>3. tools' \in [step : BOOLEAN, cont : BOOLEAN]
      BY <1>1, ToolTypes DEF Start
    <2>4. queue' \in Seq(Queries) /\ dbg' \in BOOLEAN
      <3>1. <<>> \in Seq(Queries)
        OBVIOUS
      <3> QED
        BY <1>1, <3>1 DEF Start, TypeOK, dbgVars
    <2>5. conn' \in {"ok", "bad", "deleted"} /\ brokenOff' \in BOOLEAN
      BY <1>1 DEF Start, TypeOK
    <2>6. UNCHANGED <<kind, window, flagVars, execVars, pid, events, viewVars>>
      BY <1>1 DEF Start
    <2> QED
      BY <2>1, <2>2, <2>3, <2>4, <2>5, <2>6 DEF TypeOK, viewVars, flagVars, execVars
  <1>2. ASSUME Step PROVE TypeOK'
    <2>1. <<"step">> \in Seq(Queries)
      BY DEF Queries, Moves
    <2> QED
      BY <1>2, <2>1, AskTypes, ToolTypes DEF Step
  <1>3. ASSUME SelectFrame PROVE TypeOK'
    <2>1. <<"frame">> \in Seq(Queries)
      BY DEF Queries, Moves
    <2> QED
      BY <1>3, <2>1, AskTypes DEF SelectFrame, TypeOK
  <1>4. ASSUME ToggleBreakpoint PROVE TypeOK'
    <2>1. <<"set_breakpoint", "breakpoints">> \in Seq(Queries)
      BY DEF Queries, Moves
    <2> QED
      BY <1>4, <2>1, AskTypes DEF ToggleBreakpoint, TypeOK
  <1>5. ASSUME DepositValue PROVE TypeOK'
    <2>1. <<"deposit">> \in Seq(Queries)
      BY DEF Queries, Moves
    <2> QED
      BY <1>5, <2>1, AskTypes DEF DepositValue, TypeOK
  <1>6. stack \in Seq(Frames) /\ Len(stack) \in Nat /\ Len(stack) <= MaxDepth
    BY DEF TypeOK
  <1>7. ASSUME OnStop PROVE TypeOK'
    <2>1. Len(stack) + 1 <= MaxDepth
      BY <1>7, RoomToCall DEF OnStop, CanInput
    <2> QED
      BY <1>6, <1>7, <2>1, StopTypes, ToolTypes DEF OnStop, TypeOK, boundVars, viewVars
  <1>8. ASSUME OnClose PROVE TypeOK'
    <2>1. Len(stack) + 1 <= MaxDepth
      BY <1>8, RoomToCall DEF OnClose, CanInput
    <2> QED
      BY <1>6, <1>8, <2>1, StopTypes, StopToolTypes DEF OnClose, TypeOK, boundVars, viewVars
  <1> QED
    BY <1>1, <1>2, <1>3, <1>4, <1>5, <1>7, <1>8 DEF User

\* After a move of the program what was announced before is old.
Aged == [i \in DOMAIN events |-> [events[i] EXCEPT !.current = FALSE]]

LEMMA AgedEvents ==
    ASSUME TypeOK
    PROVE  /\ Aged \in Seq(Events)
           /\ DOMAIN Aged = DOMAIN events
           /\ \A i \in DOMAIN events :
                Aged[i].id = events[i].id /\ Aged[i].rc = events[i].rc /\ ~Aged[i].current
  <1>1. events \in Seq(Events) /\ DOMAIN events = 1..Len(events) /\ Len(events) \in Nat
    BY DEF TypeOK
  <1>2. \A i \in 1..Len(events) : events[i] \in Events
    BY <1>1, ElementOfSeq
  <1>3. \A e \in Events : /\ [e EXCEPT !.current = FALSE] \in Events
                          /\ [e EXCEPT !.current = FALSE].id = e.id
                          /\ [e EXCEPT !.current = FALSE].rc = e.rc
                          /\ ~[e EXCEPT !.current = FALSE].current
    BY DEF Events
  <1>4. \A i \in 1..Len(events) : Aged[i] = [events[i] EXCEPT !.current = FALSE]
    BY <1>1 DEF Aged
  <1>5. Aged \in [1..Len(events) -> Events]
    BY <1>1, <1>2, <1>3 DEF Aged
  <1>6. Aged \in Seq(Events)
    BY <1>1, <1>5
  <1>7. DOMAIN Aged = DOMAIN events
    BY DEF Aged
  <1>8. ASSUME NEW i \in DOMAIN events
        PROVE  Aged[i].id = events[i].id /\ Aged[i].rc = events[i].rc /\ ~Aged[i].current
    <2>1. events[i] \in Events /\ Aged[i] = [events[i] EXCEPT !.current = FALSE]
      BY <1>1, <1>2, <1>4
    <2> QED
      BY <1>3, <2>1
  <1> QED
    BY <1>6, <1>7, <1>8

LEMMA TypesThreads ==
    ASSUME TypeOK, Threads
    PROVE  TypeOK'
  <1>0. FlagTypes /\ StateTypes /\ SeqTypes
    BY Parts
  <1>1. ASSUME AnswerQuery PROVE TypeOK'
    <2>1. Tail(queue) \in Seq(Queries) /\ Head(queue) \in Queries
      BY <1>0, <1>1, Taken DEF AnswerQuery, SeqTypes
    <2>2. PICK rc \in {"ok", "fatal", "lost"} :
             /\ conn' = IF rc = "lost" /\ conn = "ok" THEN "bad" ELSE conn
             /\ LET e == [id |-> Head(queue), rc |-> rc, current |-> TRUE] IN
                IF rc = "ok" /\ e.id \in Moves
                THEN /\ events' = Append(Aged, e)
                     /\ stackOf' = Outdated(stackOf)
                     /\ varsOf' = Outdated(varsOf)
                ELSE /\ events' = Append(events, e)
                     /\ UNCHANGED <<stackOf, varsOf>>
      BY <1>1 DEF AnswerQuery, Aged
    <2> DEFINE e == [id |-> Head(queue), rc |-> rc, current |-> TRUE]
    <2>3. e \in Events
      BY <2>1 DEF Events
    <2>4. events' \in {Append(Aged, e), Append(events, e)}
      BY <2>2
    <2> HIDE DEF e
    <2>5. events' \in Seq(Events)
      <3>1. Aged \in Seq(Events) /\ events \in Seq(Events)
        BY <1>0, AgedEvents DEF SeqTypes
      <3>2. Append(Aged, e) \in Seq(Events) /\ Append(events, e) \in Seq(Events)
        BY <2>3, <3>1, Appended
      <3> QED
        BY <2>4, <3>2
    <2>6. queue' \in Seq(Queries) /\ UNCHANGED stack
      BY <1>1, <2>1 DEF AnswerQuery
    <2>7. FlagTypes'
      BY <1>0, <1>1 DEF AnswerQuery, FlagTypes, flagVars, execVars
    <2>8. /\ stackOf' \in {stackOf, Outdated(stackOf)}
          /\ varsOf' \in {varsOf, Outdated(varsOf)}
          /\ conn' \in {"bad", conn}
      BY <2>2
    <2>9. UNCHANGED <<kind, window, exec, starts>>
      BY <1>1 DEF AnswerQuery, boundVars, execVars
    <2>10. StateTypes'
      BY <1>0, <2>8, <2>9 DEF StateTypes, Outdated
    <2> QED
      BY <1>0, <2>5, <2>6, <2>7, <2>10, PartsNext DEF SeqTypes
  <1>2. ASSUME events' \in Seq(Events),
               exec' \in {"none", "running", "announced", "answered", "ended"},
               UNCHANGED <<guiVars, conn, dbgVars, execCancelled>>
        PROVE  TypeOK'
    <2>1. UNCHANGED <<kind, starts, window, tools, terminated, stopping, pid, shown, stackOf,
                      varsOf, brokenOff, conn, dbg, execCancelled>>
      BY <1>2 DEF guiVars, boundVars, flagVars, viewVars, dbgVars
    <2>2. FlagTypes'
      BY <1>0, <2>1 DEF FlagTypes
    <2>3. StateTypes'
      BY <1>0, <1>2, <2>1 DEF StateTypes
    <2>4. UNCHANGED <<queue, stack>>
      BY <1>2 DEF guiVars, dbgVars
    <2> QED
      BY <1>0, <1>2, <2>2, <2>3, <2>4, PartsNext DEF SeqTypes
  <1>3. /\ [id |-> "break", rc |-> "ok", current |-> TRUE] \in Events
        /\ [id |-> "complete", rc |-> "ok", current |-> TRUE] \in Events
        /\ events \in Seq(Events)
    BY <1>0 DEF Events, SeqTypes
  <1>4. ASSUME TargetStops PROVE TypeOK'
    <2>1. events' \in Seq(Events)
      BY <1>3, <1>4, Appended DEF TargetStops
    <2> QED
      BY <1>2, <1>4, <2>1 DEF TargetStops
  <1>5. ASSUME TargetEnds PROVE TypeOK'
    <2>1. events' \in Seq(Events)
      BY <1>3, <1>5, Appended DEF TargetEnds
    <2> QED
      BY <1>2, <1>5, <2>1 DEF TargetEnds
  <1>6. ASSUME ExecEnds PROVE TypeOK'
    BY <1>2, <1>3, <1>6 DEF ExecEnds
  <1> QED
    BY <1>1, <1>4, <1>5, <1>6 DEF Threads

LEMMA TypesInit ==
    ASSUME Init
    PROVE  TypeOK
  <1>1. /\ <<>> \in Seq(Queries) /\ <<>> \in Seq(Frames) /\ <<>> \in Seq(Events)
        /\ Len(<<>>) = 0
    OBVIOUS
  <1>2. FlagTypes
    BY DEF Init, FlagTypes, NoTools
  <1>3. StateTypes
    BY BoundsAssumption DEF Init, StateTypes
  <1>4. SeqTypes
    BY <1>1, BoundsAssumption DEF Init, SeqTypes
  <1> QED
    BY <1>2, <1>3, <1>4, Parts

LEMMA TypesStutter ==
    ASSUME TypeOK, UNCHANGED vars
    PROVE  TypeOK'
  <1>1. UNCHANGED <<kind, window, tools, conn, terminated, stopping, dbg, queue, exec,
                    execCancelled, pid, stack, events, starts, shown, stackOf, varsOf, brokenOff>>
    BY DEF vars, flagVars, dbgVars, execVars, viewVars
  <1> QED
    BY <1>1 DEF TypeOK

\* Every variable of the debugger keeps its type, and handlers nest no
\* deeper than they are let.
THEOREM DebuggerTypes == Spec => []TypeOK
  <1>1. Init => TypeOK
    BY TypesInit
  <1>2. TypeOK /\ [Next]_vars => TypeOK'
    BY TypesGUI, TypesHandlers, TypesUser, TypesThreads, TypesStutter DEF Next, Closed
  <1> QED
    BY <1>1, <1>2, PTL DEF Spec

-----------------------------------------------------------------------------
(* Nothing is left behind                                                  *)

Gone == ~dbg /\ exec = "none" /\ conn # "ok"

\* A terminated session is gone, or a handler is under way that has still to
\* see to that: ResultTargetComplete or Stop behind their Yields, or a new
\* start.
Ended ==
    terminated /\ ~brokenOff =>
        Gone \/ On("complete") \/ On("stop_loop") \/ On("start")

\* m_isStopping is up only while Stop is in its loop.
StopIsUnderWay == stopping => On("stop_loop")

LInv == TypeOK /\ Ended /\ StopIsUnderWay

Leaving == {"complete", "stop_loop", "start"}

\* Steps that neither end a session nor begin one.
LEMMA StillEnded ==
    ASSUME LInv, terminated' => terminated, ~brokenOff' => ~brokenOff, stopping' => stopping,
           Gone => Gone', \A p \in Leaving : On(p) => Under(stack', p)
    PROVE  Ended' /\ StopIsUnderWay'
  BY DEF LInv, Ended, StopIsUnderWay, On, Leaving

LEMMA StopEnds ==
    ASSUME LInv, NEW below \in Seq(Frames), \A p \in Leaving : On(p) => Under(below, p),
           NEW by \in {"return", "close", "error"}, Stop(below, by), UNCHANGED brokenOff
    PROVE  Ended' /\ StopIsUnderWay'
  <1>1. CASE terminated
    <2>1. /\ terminated' /\ stopping' = stopping /\ stack' = below
          /\ dbg' = dbg /\ exec' = exec /\ conn' \in {"deleted", conn}
      BY <1>1 DEF Stop, dbgVars, execVars
    <2>2. Gone => Gone'
      BY <2>1 DEF Gone
    <2>3. \A p \in Leaving : On(p) => Under(stack', p)
      BY <2>1
    <2> QED
      BY <1>1, <2>1, <2>2, <2>3, StillEnded
  <1>2. CASE ~terminated /\ stopping
    <2>1. stack' = below
      BY <1>2 DEF Stop
    <2>2. On("stop_loop")
      BY <1>2 DEF LInv, StopIsUnderWay
    <2>3. Under(stack', "stop_loop")
      BY <2>1, <2>2 DEF Leaving
    <2> QED
      BY <2>3 DEF Ended, StopIsUnderWay, On
  <1>3. CASE ~terminated /\ ~stopping /\ ExecRunning
    <2>1. [at |-> "stop_loop", by |-> by] \in Frames
      BY DEF Frames, Yields
    <2>2. Under(stack', "stop_loop")
      BY <1>3, <2>1, CallPuts DEF Stop, LInv
    <2> QED
      BY <2>2 DEF Ended, StopIsUnderWay, On
  <1>4. CASE ~terminated /\ ~stopping /\ ~ExecRunning
    <2>1. StopRest(below, by)
      BY <1>4 DEF Stop
    <2>2. Gone' /\ stopping' = FALSE
      BY <2>1 DEF StopRest, EndDebugThread, Gone
    <2> QED
      BY <2>2 DEF Ended, StopIsUnderWay
  <1> QED
    BY <1>1, <1>2, <1>3, <1>4

\* A handler that is on top and returns, stops or goes on elsewhere.
LEMMA BelowTop ==
    ASSUME TypeOK, NEW place, At(place)
    PROVE  /\ Tail(stack) \in Seq(Frames) /\ stack # <<>> /\ Top.at = place
           /\ \A p : On(p) /\ p # place => Under(Tail(stack), p)
           /\ \A p : Under(Tail(stack), p) => On(p)
           /\ On(place)
  BY TopOff DEF At

LEMMA EndedGUI ==
    ASSUME LInv, GUI
    PROVE  Ended' /\ StopIsUnderWay'
  <1>0. TypeOK
    BY DEF LInv
  <1>1. ASSUME Started PROVE Ended' /\ StopIsUnderWay'
    <2>1. stopping' = FALSE
      BY <1>1 DEF Started, StopRest
    <2>2. terminated' = FALSE \/ brokenOff' = TRUE \/ Gone'
      BY <1>1 DEF Started, StopRest, EndDebugThread, Gone
    <2> QED
      BY <2>1, <2>2 DEF Ended, StopIsUnderWay
  <1>2. ASSUME LoopOver PROVE Ended' /\ StopIsUnderWay'
    <2>1. stopping' = FALSE /\ Gone'
      BY <1>2 DEF LoopOver, StopRest, EndDebugThread, Gone
    <2> QED
      BY <2>1 DEF Ended, StopIsUnderWay
  <1>3. ASSUME ErrorHandled PROVE Ended' /\ StopIsUnderWay'
    <2>1. /\ Tail(stack) \in Seq(Frames)
          /\ \A p \in Leaving : On(p) => Under(Tail(stack), p)
      BY <1>0, <1>3, BelowTop DEF ErrorHandled, Leaving
    <2>2. CASE Stop(Tail(stack), "error")
      BY <1>3, <2>1, <2>2, StopEnds DEF ErrorHandled
    <2>3. CASE /\ Return \/ Become("box", "error")
               /\ conn' \in {"bad", conn} /\ UNCHANGED <<flagVars, dbg, exec>>
      <3>1. [at |-> "box", by |-> "error"] \in Frames
        BY DEF Frames, Yields
      <3>2. \A p \in Leaving : On(p) => Under(stack', p)
        BY <1>0, <2>1, <2>3, <3>1, CallPuts DEF Return, Become
      <3>3. Gone => Gone'
        BY <2>3 DEF Gone
      <3> QED
        BY <1>3, <2>3, <3>2, <3>3, StillEnded DEF ErrorHandled, flagVars
    <2> QED
      BY <1>3, <2>2, <2>3 DEF ErrorHandled, dbgVars, execVars
  <1>4. ASSUME BoxClosed PROVE Ended' /\ StopIsUnderWay'
    <2>1. /\ Tail(stack) \in Seq(Frames)
          /\ \A p \in Leaving : On(p) => Under(Tail(stack), p)
      BY <1>0, <1>4, BelowTop DEF BoxClosed, Leaving
    <2> QED
      BY <1>4, <2>1, StopEnds DEF BoxClosed
  <1>5. ASSUME Completed PROVE Ended' /\ StopIsUnderWay'
    <2>1. Gone' /\ stopping' = stopping /\ stack' = Tail(stack)
      BY <1>5 DEF Completed, EndDebugThread, Gone, Return, flagVars
    <2>2. On("stop_loop") => Under(stack', "stop_loop")
      BY <1>0, <1>5, <2>1, BelowTop DEF Completed
    <2> QED
      BY <2>1, <2>2 DEF Ended, StopIsUnderWay, On, LInv
  <1> QED
    BY <1>1, <1>2, <1>3, <1>4, <1>5 DEF GUI

LEMMA EndedHandlers ==
    ASSUME LInv, Handlers
    PROVE  Ended' /\ StopIsUnderWay'
  <1>0. TypeOK
    BY DEF LInv
  <1>1. ASSUME OnStartDebugging \/ Answered \/ Ignored
        PROVE  Ended' /\ StopIsUnderWay'
    <2>1. UNCHANGED <<flagVars, dbg, exec, conn, stack, brokenOff>>
      BY <1>1 DEF OnStartDebugging, Answered, Ignored, execVars, dbgVars
    <2> QED
      BY <2>1, StillEnded DEF flagVars, Gone, On
  <1>2. ASSUME Failed PROVE Ended' /\ StopIsUnderWay'
    <2>1. Head(events) \in Events /\ CanDispatch
      BY <1>0, <1>2, Dispatched DEF Failed, Dispatch
    <2>2. Head(events).rc \in {"user", "return", "close", "error", "fatal", "lost"}
      BY <1>2, <2>1 DEF Failed, Events
    <2>3. \A p \in Leaving : On(p) => Under(stack', p)
      BY <1>0, <1>2, <2>1, <2>2, CallTypes DEF Failed, Yields
    <2> QED
      BY <1>2, <2>3, StillEnded DEF Failed, flagVars, dbgVars, execVars, Gone
  <1>3. ASSUME TargetComplete PROVE Ended' /\ StopIsUnderWay'
    <2>1. CanDispatch
      BY <1>3 DEF TargetComplete, Dispatch
    <2>2. \A p : Under(stack', p) <=> p = "complete" \/ On(p)
      BY <1>0, <1>3, <2>1, CallTypes DEF TargetComplete, Yields
    <2> QED
      BY <1>3, <2>2 DEF TargetComplete, Ended, StopIsUnderWay, On, LInv
  <1> QED
    BY <1>1, <1>2, <1>3 DEF Handlers

LEMMA EndedUser ==
    ASSUME LInv, User
    PROVE  Ended' /\ StopIsUnderWay'
  <1>0. TypeOK
    BY DEF LInv
  <1>1. ASSUME Start PROVE Ended' /\ StopIsUnderWay'
    <2>1. UNCHANGED <<flagVars, exec>> /\ CanDispatch
      BY <1>1 DEF Start, CanInput, execVars
    <2>2. CASE UNCHANGED <<conn, dbgVars, stack, brokenOff>>
      BY <2>1, <2>2, StillEnded DEF flagVars, dbgVars, Gone, On
    <2>3. CASE brokenOff' = TRUE /\ UNCHANGED stack
      BY <2>1, <2>3 DEF LInv, Ended, StopIsUnderWay, On, flagVars
    <2>4. CASE Call("start", "user")
      <3>1. \A p : Under(stack', p) <=> p = "start" \/ On(p)
        BY <1>0, <2>1, <2>4, CallTypes DEF Yields
      <3> QED
        BY <2>1, <3>1 DEF LInv, Ended, StopIsUnderWay, On, flagVars
    <2> QED
      BY <1>1, <2>2, <2>3, <2>4 DEF Start
  <1>2. ASSUME Step \/ SelectFrame \/ ToggleBreakpoint \/ DepositValue
        PROVE  Ended' /\ StopIsUnderWay'
    <2>1. UNCHANGED <<flagVars, dbg, exec, conn, stack, brokenOff>>
      BY <1>2 DEF Step, SelectFrame, ToggleBreakpoint, DepositValue, Ask, execVars
    <2> QED
      BY <2>1, StillEnded DEF flagVars, Gone, On
  <1>3. ASSUME OnStop \/ OnClose PROVE Ended' /\ StopIsUnderWay'
    <2>1. stack \in Seq(Frames) /\ \A p \in Leaving : On(p) => Under(stack, p)
      BY <1>0 DEF TypeOK, On
    <2> QED
      BY <1>3, <2>1, StopEnds DEF OnStop, OnClose
  <1> QED
    BY <1>1, <1>2, <1>3 DEF User

LEMMA EndedThreads ==
    ASSUME LInv, Threads
    PROVE  Ended' /\ StopIsUnderWay'
  <1>1. UNCHANGED <<flagVars, dbg, stack, brokenOff>>
    BY DEF Threads, AnswerQuery, TargetStops, TargetEnds, ExecEnds, guiVars, dbgVars
  <1>2. Gone => Gone'
    BY DEF Threads, AnswerQuery, TargetStops, TargetEnds, ExecEnds, Gone, dbgVars, execVars
  <1> QED
    BY <1>1, <1>2, StillEnded DEF flagVars, On

\* A terminated session whose connection or threads are still there is with a
\* handler that will see to it.
THEOREM EndInvariance == Spec => []LInv
  <1>1. Init => Ended /\ StopIsUnderWay
    BY DEF Init, Ended, StopIsUnderWay
  <1>2. ASSUME LInv, [Next]_vars PROVE Ended' /\ StopIsUnderWay'
    <2>1. ASSUME UNCHANGED vars PROVE Ended' /\ StopIsUnderWay'
      <3>1. UNCHANGED <<flagVars, dbg, exec, conn, stack, brokenOff>>
        BY <2>1 DEF vars, dbgVars, execVars
      <3> QED
        BY <1>2, <3>1, StillEnded DEF flagVars, Gone, On
    <2> QED
      BY <1>2, <2>1, EndedGUI, EndedHandlers, EndedUser, EndedThreads DEF Next, Closed
  <1>3. (Ended /\ StopIsUnderWay) /\ TypeOK <=> LInv
    BY DEF LInv
  <1>4. TypeOK' /\ (Ended' /\ StopIsUnderWay') => LInv'
    BY DEF LInv
  <1> QED
    BY <1>1, <1>2, <1>3, <1>4, DebuggerTypes, PTL DEF Spec

\* When a session has terminated, however the handlers that ended it were
\* nested, both threads have ended and the connection is closed.
THEOREM NothingIsLeftBehind == Spec => []NothingLeftBehind
  <1>1. LInv => NothingLeftBehind
    BY Nothing DEF LInv, Ended, NothingLeftBehind, Gone, On, Under
  <1> QED
    BY <1>1, EndInvariance, PTL

-----------------------------------------------------------------------------
(* Events                                                                  *)

MoveNews == {e \in Events : e.id \in Moves}
BadNotices == {e \in Events : e.id \in {"break", "complete"} /\ e.rc # "ok"}

\* The notices of the second thread are not errors.
NoticesOk == ~Holds(events, BadNotices)

\* Behind an answer about a position the program has left there is the
\* answer of the move by which it did.
Followed ==
    \A i \in DOMAIN events :
        ~events[i].current => \E j \in DOMAIN events : j > i /\ events[j].id \in Moves

News == {e \in Events : e.current /\ e \notin BadNotices}

\* What a step does to the events.
Posts(e) == events' = Append(events, e)
Overtakes(e) == events' = Append(Aged, e)

EventStep ==
    \/ events' = events
    \/ events # <<>> /\ events' = Tail(events)
    \/ \E e \in News : Posts(e)
    \/ \E e \in News : e.id \in Moves /\ Overtakes(e)

LEMMA EndingEvents ==
    ASSUME TypeOK, EndDebugThread
    PROVE  EventStep
  <1> DEFINE e == [id |-> Head(queue), rc |-> "ok", current |-> TRUE]
  <1>1. queue # <<>> => e \in News
    BY Taken DEF TypeOK, News, Events, BadNotices
  <1>2. events' = events \/ (queue # <<>> /\ events' = Append(events, e))
    BY DEF EndDebugThread
  <1> HIDE DEF e
  <1> QED
    BY <1>1, <1>2 DEF EventStep, Posts

LEMMA StoppingEvents ==
    ASSUME TypeOK, NEW below, NEW by, Stop(below, by)
    PROVE  EventStep
  <1>1. events' = events \/ EndDebugThread
    BY DEF Stop, StopRest
  <1> QED
    BY <1>1, EndingEvents DEF EventStep

LEMMA EventSteps ==
    ASSUME TypeOK, [Next]_vars
    PROVE  EventStep
  <1>1. CASE GUI
    <2>1. \/ events' = events
          \/ EndDebugThread
          \/ \E below : Stop(below, "error")
      BY <1>1 DEF GUI, Started, LoopOver, ErrorHandled, BoxClosed, Completed, StopRest
    <2> QED
      BY <2>1, EndingEvents, StoppingEvents DEF EventStep
  <1>2. CASE Handlers
    <2>1. \E ids : Dispatch(ids)
      BY <1>2 DEF Handlers, OnStartDebugging, Answered, Failed, Ignored, TargetComplete
    <2> QED
      BY <2>1 DEF EventStep, Dispatch
  <1>3. CASE User
    <2>1. events' = events \/ \E below, by : Stop(below, by)
      BY <1>3 DEF User, Start, Step, SelectFrame, ToggleBreakpoint, DepositValue, Ask, OnStop, OnClose
    <2> QED
      BY <2>1, StoppingEvents DEF EventStep
  <1>4. CASE AnswerQuery
    <2>1. Head(queue) \in Queries
      BY <1>4, Taken DEF AnswerQuery, TypeOK
    <2>2. PICK rc \in {"ok", "fatal", "lost"} :
             LET e == [id |-> Head(queue), rc |-> rc, current |-> TRUE] IN
                IF rc = "ok" /\ e.id \in Moves
                THEN events' = Append(Aged, e)
                ELSE events' = Append(events, e)
      BY <1>4 DEF AnswerQuery, Aged
    <2> DEFINE e == [id |-> Head(queue), rc |-> rc, current |-> TRUE]
    <2>3. e \in News /\ e.id = Head(queue)
      BY <2>1 DEF News, Events, BadNotices, Queries, Moves
    <2>4. \/ events' = Append(events, e)
          \/ e.id \in Moves /\ events' = Append(Aged, e)
      BY <2>2
    <2> HIDE DEF e
    <2> QED
      BY <2>3, <2>4 DEF EventStep, Posts, Overtakes
  <1>5. CASE TargetStops \/ TargetEnds \/ ExecEnds
    <2> DEFINE b == [id |-> "break", rc |-> "ok", current |-> TRUE]
               c == [id |-> "complete", rc |-> "ok", current |-> TRUE]
    <2>1. b \in News /\ c \in News
      BY DEF News, Events, BadNotices
    <2>2. events' = events \/ events' = Append(events, b) \/ events' = Append(events, c)
      BY <1>5 DEF TargetStops, TargetEnds, ExecEnds
    <2> HIDE DEF b, c
    <2> QED
      BY <2>1, <2>2 DEF EventStep, Posts
  <1>6. CASE UNCHANGED vars \/ Closed
    BY <1>6 DEF EventStep, vars, Closed
  <1> QED
    BY <1>1, <1>2, <1>3, <1>4, <1>5, <1>6 DEF Next, Threads

LEMMA AgedHolds ==
    ASSUME TypeOK, NEW S, \A e \in Events : [e EXCEPT !.current = FALSE] \in S <=> e \in S
    PROVE  Holds(Aged, S) <=> Holds(events, S)
  <1>1. events \in Seq(Events) /\ DOMAIN events = 1..Len(events) /\ Len(events) \in Nat
    BY DEF TypeOK
  <1>2. \A i \in DOMAIN events : events[i] \in Events
    BY <1>1, ElementOfSeq
  <1>3. \A i \in DOMAIN events : Aged[i] \in S <=> events[i] \in S
    BY <1>2 DEF Aged
  <1>4. DOMAIN Aged = DOMAIN events
    BY DEF Aged
  <1> QED
    BY <1>3, <1>4 DEF Holds

LEMMA AgedNotices ==
    ASSUME TypeOK
    PROVE  Holds(Aged, BadNotices) <=> Holds(events, BadNotices)
  <1>1. \A e \in Events : [e EXCEPT !.current = FALSE] \in BadNotices <=> e \in BadNotices
    BY DEF BadNotices, Events
  <1> QED
    BY <1>1, AgedHolds

EvInv == TypeOK /\ NoticesOk /\ Followed

\* The answer of a move that an old answer waits for.
LEMMA MoveBehind ==
    ASSUME EvInv, events # <<>>, ~Head(events).current
    PROVE  Holds(Tail(events), MoveNews)
  <1>1. events \in Seq(Events)
    BY DEF EvInv, TypeOK
  <1>2. Head(events) = events[1] /\ DOMAIN events = 1..Len(events) /\ Len(events) \in Nat /\ Len(events) > 0
    BY <1>1, EmptySeq
  <1>3. PICK j \in 1..Len(events) : j > 1 /\ events[j].id \in Moves
    BY <1>2 DEF EvInv, Followed
  <1>4. events[j] \in Events
    BY <1>1, <1>3, ElementOfSeq
  <1>5. /\ Len(Tail(events)) = Len(events) - 1 /\ Tail(events) \in Seq(Events)
        /\ \A i \in 1..Len(Tail(events)) : Tail(events)[i] = events[i + 1]
    BY <1>1, <1>2, HeadTailProperties
  <1>6. DOMAIN Tail(events) = 1..Len(Tail(events))
    BY <1>5
  <1>7. j - 1 \in 1..Len(Tail(events)) /\ (j - 1) + 1 = j
    BY <1>2, <1>3, <1>5
  <1>8. Tail(events)[j - 1] = events[j]
    BY <1>5, <1>7
  <1> QED
    BY <1>3, <1>4, <1>6, <1>7, <1>8 DEF Holds, MoveNews

LEMMA FollowedNext ==
    ASSUME EvInv, EventStep
    PROVE  Followed'
  <1>1. events \in Seq(Events) /\ DOMAIN events = 1..Len(events) /\ Len(events) \in Nat
    BY DEF EvInv, TypeOK
  <1>2. CASE events' = events
    BY <1>2 DEF EvInv, Followed
  <1>3. CASE events # <<>> /\ events' = Tail(events)
    <2>1. /\ Len(events') = Len(events) - 1 /\ events' \in Seq(Events)
          /\ \A i \in 1..Len(events') : events'[i] = events[i + 1]
      BY <1>1, <1>3, HeadTailProperties
    <2>2. DOMAIN events' = 1..Len(events')
      BY <2>1
    <2>3. ASSUME NEW i \in 1..Len(events'), ~events'[i].current
          PROVE  \E j \in 1..Len(events') : j > i /\ events'[j].id \in Moves
      <3>1. i + 1 \in 1..Len(events) /\ ~events[i + 1].current
        BY <1>1, <2>1, <2>3
      <3>2. PICK k \in 1..Len(events) : k > i + 1 /\ events[k].id \in Moves
        BY <1>1, <3>1 DEF EvInv, Followed
      <3>3. k - 1 \in 1..Len(events') /\ k - 1 > i /\ (k - 1) + 1 = k
        BY <1>1, <2>1, <3>2
      <3>4. events'[k - 1] = events[k]
        BY <2>1, <3>3
      <3> QED
        BY <3>2, <3>3, <3>4
    <2> QED
      BY <2>2, <2>3 DEF Followed
  <1>4. ASSUME NEW e \in News, Posts(e)
        PROVE  Followed'
    <2>1. /\ Len(events') = Len(events) + 1 /\ DOMAIN events' = 1..Len(events) + 1
          /\ \A i \in 1..Len(events) : events'[i] = events[i]
          /\ events'[Len(events) + 1] = e
      BY <1>1, <1>4, AppendProperties DEF Posts, News
    <2>2. ASSUME NEW i \in 1..Len(events) + 1, ~events'[i].current
          PROVE  \E j \in 1..Len(events) + 1 : j > i /\ events'[j].id \in Moves
      <3>1. e.current
        BY DEF News
      <3>2. i \in 1..Len(events) /\ ~events[i].current
        BY <1>1, <2>1, <2>2, <3>1
      <3>3. PICK k \in 1..Len(events) : k > i /\ events[k].id \in Moves
        BY <1>1, <3>2 DEF EvInv, Followed
      <3>4. k \in 1..Len(events) + 1 /\ events'[k] = events[k]
        BY <1>1, <2>1, <3>3
      <3> QED
        BY <3>3, <3>4
    <2> QED
      BY <2>1, <2>2 DEF Followed
  <1>5. ASSUME NEW e \in News, e.id \in Moves, Overtakes(e)
        PROVE  Followed'
    <2>1. Aged \in Seq(Events) /\ DOMAIN Aged = DOMAIN events
      BY AgedEvents DEF EvInv
    <2>2. Len(Aged) = Len(events)
      BY <1>1, <2>1
    <2>3. /\ DOMAIN events' = 1..Len(events) + 1
          /\ events'[Len(events) + 1] = e
      BY <1>1, <1>5, <2>1, <2>2, AppendProperties DEF Overtakes, News
    <2>4. e.current
      BY DEF News
    <2>5. \A i \in 1..Len(events) + 1 :
            ~events'[i].current => Len(events) + 1 > i /\ Len(events) + 1 \in 1..Len(events) + 1
      BY <1>1, <2>3, <2>4
    <2> QED
      BY <1>5, <2>3, <2>5 DEF Followed
  <1> QED
    BY <1>2, <1>3, <1>4, <1>5 DEF EventStep

LEMMA NoticesNext ==
    ASSUME EvInv, EventStep
    PROVE  NoticesOk'
  <1>1. events \in Seq(Events) /\ Aged \in Seq(Events) /\ TypeOK
    BY AgedEvents DEF EvInv, TypeOK
  <1>2. ~Holds(events, BadNotices) /\ ~Holds(Aged, BadNotices)
    BY <1>1, AgedNotices DEF EvInv, NoticesOk
  <1>3. CASE events' = events
    BY <1>2, <1>3 DEF NoticesOk
  <1>4. CASE events # <<>> /\ events' = Tail(events)
    BY <1>1, <1>2, <1>4, Taken DEF NoticesOk
  <1>5. ASSUME NEW e \in News, Posts(e) \/ Overtakes(e)
        PROVE  NoticesOk'
    <2>1. e \in Events /\ e \notin BadNotices
      BY DEF News
    <2>2. ~Holds(Append(events, e), BadNotices) /\ ~Holds(Append(Aged, e), BadNotices)
      BY <1>1, <1>2, <2>1, Appended
    <2> QED
      BY <1>5, <2>2 DEF NoticesOk, Posts, Overtakes
  <1> QED
    BY <1>3, <1>4, <1>5 DEF EventStep

\* The notices in the queue fit the stage the session is in, and an answer
\* about an old position is followed by the answer of the move behind it.
THEOREM EventInvariance == Spec => []EvInv
  <1>1. Init => NoticesOk /\ Followed
    BY Nothing DEF Init, NoticesOk, Followed
  <1>2. EvInv /\ [Next]_vars => NoticesOk' /\ Followed'
    BY EventSteps, FollowedNext, NoticesNext DEF EvInv
  <1>3. TypeOK /\ (NoticesOk /\ Followed) <=> EvInv
    BY DEF EvInv
  <1>4. TypeOK' /\ (NoticesOk' /\ Followed') => EvInv'
    BY DEF EvInv
  <1> QED
    BY <1>1, <1>2, <1>3, <1>4, DebuggerTypes, PTL DEF Spec

-----------------------------------------------------------------------------
(* What is on display                                                      *)

StackNews ==
    {e \in Events : e.id \in Moves \/ (e.id = "stack" /\ e.current) \/ e.rc # "ok"}
VarsNews ==
    {e \in Events : e.id \in Moves \cup {"stack", "breakpoints"}
                        \/ (e.id = "vars" /\ e.current) \/ e.rc # "ok"}

\* While the user may go on, what is displayed is current, or a query or an
\* answer is under way that will lead to that, or to the end of the session.
StackComing ==
    dbg /\ tools.step =>
        stackOf = "current" \/ Holds(queue, {"stack"}) \/ Holds(events, StackNews)
VarsComing ==
    dbg /\ tools.step =>
        varsOf = "current" \/ Holds(queue, {"stack", "breakpoints", "vars"})
                           \/ Holds(events, VarsNews)

VInv == EvInv /\ StackComing /\ VarsComing

LEMMA StillComing ==
    ASSUME VInv, dbg' /\ tools'.step => dbg /\ tools.step, UNCHANGED <<stackOf, varsOf>>,
           \A S : Holds(queue, S) => Holds(queue', S),
           Holds(events, StackNews) => Holds(events', StackNews),
           Holds(events, VarsNews) => Holds(events', VarsNews)
    PROVE  StackComing' /\ VarsComing'
  BY DEF VInv, StackComing, VarsComing

\* Nothing to show: there is no session, or the user has to wait.
LEMMA NotGoingOn ==
    ASSUME ~(dbg' /\ tools'.step)
    PROVE  StackComing' /\ VarsComing'
  BY DEF StackComing, VarsComing

LEMMA ViewsStop ==
    ASSUME VInv, NEW below, NEW by, Stop(below, by), StopTools, UNCHANGED viewVars
    PROVE  StackComing' /\ VarsComing'
  <1>1. CASE terminated \/ stopping
    BY <1>1, StillComing DEF Stop, StopTools, dbgVars, viewVars
  <1>2. CASE ~(terminated \/ stopping)
    BY <1>2, ToolTypes, NotGoingOn DEF StopTools
  <1> QED
    BY <1>1, <1>2

LEMMA ViewsGUI ==
    ASSUME VInv, GUI
    PROVE  StackComing' /\ VarsComing'
  <1>0. TypeOK
    BY DEF VInv, EvInv
  <1>1. ASSUME Started PROVE StackComing' /\ VarsComing'
    <2>1. CASE UNCHANGED <<tools, dbgVars, events>>
      BY <1>1, <2>1, StillComing DEF Started, viewVars, dbgVars
    <2>2. CASE tools' = [NoTools EXCEPT !.cont = TRUE]
      BY <2>2, NotGoingOn DEF NoTools
    <2>3. CASE StopRest(Tail(stack), "return")
      BY <2>3, NotGoingOn DEF StopRest, EndDebugThread
    <2>4. CASE AddQueries(<<"listener">>) /\ UNCHANGED <<tools, dbg, events>>
      <3>1. <<"listener">> \in Seq(Queries)
        BY DEF Queries
      <3> QED
        BY <1>0, <1>1, <2>4, <3>1, QueriesAdded, StillComing DEF Started, viewVars
    <2> QED
      BY <1>1, <2>1, <2>2, <2>3, <2>4 DEF Started
  <1>2. ASSUME LoopOver PROVE StackComing' /\ VarsComing'
    BY <1>2, NotGoingOn DEF LoopOver, StopRest, EndDebugThread
  <1>3. ASSUME ErrorHandled PROVE StackComing' /\ VarsComing'
    <2>1. CASE Stop(Tail(stack), "error") /\ StopTools
      BY <1>3, <2>1, ViewsStop DEF ErrorHandled
    <2>2. CASE AddQueries(<<"wait_target">>) /\ UNCHANGED <<tools, dbg, events>>
      <3>1. <<"wait_target">> \in Seq(Queries)
        BY DEF Queries
      <3> QED
        BY <1>0, <1>3, <2>2, <3>1, QueriesAdded, StillComing DEF ErrorHandled, viewVars
    <2>3. CASE UNCHANGED <<tools, dbgVars, events>>
      BY <1>3, <2>3, StillComing DEF ErrorHandled, viewVars, dbgVars
    <2> QED
      BY <1>3, <2>1, <2>2, <2>3 DEF ErrorHandled
  <1>4. ASSUME BoxClosed PROVE StackComing' /\ VarsComing'
    BY <1>4, ViewsStop DEF BoxClosed
  <1>5. ASSUME Completed PROVE StackComing' /\ VarsComing'
    BY <1>5, NotGoingOn DEF Completed, EndDebugThread
  <1> QED
    BY <1>1, <1>2, <1>3, <1>4, <1>5 DEF GUI

\* What is asked when an answer has been handled.
LEMMA NextQuestion ==
    ASSUME NEW id \in Queries, NEW qs \in FollowUp(id)
    PROVE  /\ id \in Moves => Holds(qs, {"stack"}) /\ Holds(qs, {"stack", "breakpoints", "vars"})
           /\ id \in {"stack", "breakpoints"} => Holds(qs, {"stack", "breakpoints", "vars"})
  <1>1. /\ id \in Moves => qs = <<"stack">>
        /\ id = "stack" => qs = <<"breakpoints">>
        /\ id = "breakpoints" => qs = <<"vars">>
    BY DEF FollowUp, FollowUps, Moves
  <1>2. \A x, S : x \in S => Holds(<<x>>, S)
    <2>1. \A x : 1 \in DOMAIN <<x>> /\ <<x>>[1] = x
      OBVIOUS
    <2> QED
      BY <2>1 DEF Holds
  <1>3. /\ Holds(<<"stack">>, {"stack"})
        /\ Holds(<<"stack">>, {"stack", "breakpoints", "vars"})
        /\ Holds(<<"breakpoints">>, {"stack", "breakpoints", "vars"})
        /\ Holds(<<"vars">>, {"stack", "breakpoints", "vars"})
    BY <1>2
  <1> QED
    BY <1>1, <1>3

LEMMA ViewsAnswered ==
    ASSUME VInv, Answered
    PROVE  StackComing' /\ VarsComing'
  <1>0. TypeOK /\ EvInv
    BY DEF VInv, EvInv
  <1> DEFINE e == Head(events)
             rest == Tail(events)
  <1>1. /\ events # <<>> /\ e \in Events /\ e.id \in Queries /\ events' = rest
        /\ rest \in Seq(Events)
    BY <1>0, Dispatched DEF Answered
  <1>2. PICK qs \in FollowUp(e.id) : AddQueries(qs)
    BY DEF Answered
  <1>3. \A S : Holds(queue', S) <=> Holds(queue, S) \/ Holds(qs, S)
    BY <1>0, <1>1, <1>2, FollowUpTypes, QueriesAdded
  <1>4. \A S : Holds(events, S) <=> e \in S \/ Holds(rest, S)
    BY <1>0, <1>1, Taken DEF TypeOK
  <1>5. /\ e.rc = "ok" /\ dbg /\ dbg' = dbg
        /\ stackOf' = IF e.id = "stack" THEN Age(e.current) ELSE stackOf
        /\ varsOf' = IF e.id = "vars" THEN Age(e.current) ELSE varsOf
        /\ e.id \notin Moves /\ tools'.step => tools' = tools
    BY ToolTypes DEF Answered
  <1>6. ~e.current => Holds(rest, MoveNews)
    BY <1>0, <1>1, MoveBehind
  <1>7. \A S, T : S \subseteq T /\ Holds(rest, S) => Holds(rest, T)
    BY DEF Holds
  <1>8. ~e.current => Holds(rest, StackNews) /\ Holds(rest, VarsNews)
    <2>1. MoveNews \subseteq StackNews /\ MoveNews \subseteq VarsNews
      BY DEF MoveNews, StackNews, VarsNews
    <2> QED
      BY <1>6, <1>7, <2>1
  <1>9. /\ e \in StackNews => e.id \in Moves \/ (e.id = "stack" /\ e.current)
        /\ e \in VarsNews => \/ e.id \in Moves \/ e.id \in {"stack", "breakpoints"}
                             \/ e.id = "vars" /\ e.current
    BY <1>5 DEF StackNews, VarsNews
  <1>10. /\ e.id \in Moves => Holds(qs, {"stack"}) /\ Holds(qs, {"stack", "breakpoints", "vars"})
         /\ e.id \in {"stack", "breakpoints"} => Holds(qs, {"stack", "breakpoints", "vars"})
    BY <1>1, <1>2, NextQuestion
  <1> HIDE DEF e, rest
  <1>11. CASE e.id \in Moves
    BY <1>3, <1>10, <1>11 DEF StackComing, VarsComing
  <1>12. CASE e.id \notin Moves
    <2>1. SUFFICES ASSUME tools'.step
                   PROVE  StackComing' /\ VarsComing'
      BY NotGoingOn
    <2>2. /\ stackOf = "current" \/ Holds(queue, {"stack"}) \/ Holds(events, StackNews)
          /\ varsOf = "current" \/ Holds(queue, {"stack", "breakpoints", "vars"})
                                \/ Holds(events, VarsNews)
      BY <1>5, <1>12, <2>1 DEF VInv, StackComing, VarsComing
    <2>3. stackOf' = "current" \/ Holds(queue', {"stack"}) \/ Holds(rest, StackNews)
      BY <1>3, <1>4, <1>5, <1>8, <1>9, <1>12, <2>2 DEF Age
    <2>4. varsOf' = "current" \/ Holds(queue', {"stack", "breakpoints", "vars"})
                              \/ Holds(rest, VarsNews)
      BY <1>3, <1>4, <1>5, <1>8, <1>9, <1>10, <1>12, <2>2 DEF Age
    <2> QED
      BY <1>1, <2>3, <2>4 DEF StackComing, VarsComing
  <1> QED
    BY <1>11, <1>12

LEMMA ViewsHandlers ==
    ASSUME VInv, Handlers
    PROVE  StackComing' /\ VarsComing'
  <1>0. TypeOK /\ EvInv
    BY DEF VInv, EvInv
  <1>1. ASSUME OnStartDebugging PROVE StackComing' /\ VarsComing'
    <2>1. /\ events # <<>> /\ events \in Seq(Events) /\ Head(events) \in Events
          /\ Head(events).id = "break" /\ events' = Tail(events)
      BY <1>0, <1>1, Dispatched DEF OnStartDebugging
    <2>2. \A S : Holds(events, S) <=> Head(events) \in S \/ Holds(events', S)
      BY <2>1, Taken
    <2>3. Head(events).rc = "ok"
      BY <1>0, <2>1, <2>2 DEF EvInv, NoticesOk, BadNotices
    <2>4. Head(events) \notin StackNews /\ Head(events) \notin VarsNews
      BY <2>1, <2>3 DEF StackNews, VarsNews, Moves
    <2>5. <<"attach">> \in Seq(Queries)
      BY DEF Queries
    <2>6. \A S : Holds(queue, S) => Holds(queue', S)
      BY <1>0, <1>1, <2>5, QueriesAdded DEF OnStartDebugging
    <2> QED
      BY <1>1, <2>2, <2>4, <2>6, StillComing DEF OnStartDebugging, viewVars
  <1>2. ASSUME Failed \/ TargetComplete PROVE StackComing' /\ VarsComing'
    BY <1>2, ToolTypes, NotGoingOn DEF Failed, TargetComplete
  <1>3. ASSUME Ignored PROVE StackComing' /\ VarsComing'
    BY <1>3, NotGoingOn DEF Ignored, dbgVars
  <1> QED
    BY <1>1, <1>2, <1>3, ViewsAnswered DEF Handlers

LEMMA ViewsUser ==
    ASSUME VInv, User
    PROVE  StackComing' /\ VarsComing'
  <1>0. TypeOK
    BY DEF VInv, EvInv
  <1>1. ASSUME Start \/ Step \/ OnStop PROVE StackComing' /\ VarsComing'
    BY <1>1, ToolTypes, NotGoingOn DEF Start, Step, OnStop
  <1>2. ASSUME SelectFrame \/ ToggleBreakpoint \/ DepositValue
        PROVE  StackComing' /\ VarsComing'
    <2>1. PICK qs \in {<<"frame">>, <<"set_breakpoint", "breakpoints">>, <<"deposit">>} : Ask(qs)
      BY <1>2 DEF SelectFrame, ToggleBreakpoint, DepositValue
    <2>2. qs \in Seq(Queries)
      <3>1. \A x, y \in Queries : <<x>> \in Seq(Queries) /\ <<x, y>> \in Seq(Queries)
        OBVIOUS
      <3> QED
        BY <2>1, <3>1 DEF Queries, Moves
    <2>3. \A S : Holds(queue, S) => Holds(queue', S)
      BY <1>0, <2>1, <2>2, QueriesAdded DEF Ask
    <2>4. UNCHANGED <<tools, dbg, events, stackOf, varsOf>>
      BY <1>2 DEF SelectFrame, ToggleBreakpoint, DepositValue, Ask, viewVars
    <2> QED
      BY <2>3, <2>4, StillComing
  <1>3. ASSUME OnClose PROVE StackComing' /\ VarsComing'
    BY <1>3, ViewsStop DEF OnClose
  <1> QED
    BY <1>1, <1>2, <1>3 DEF User

LEMMA ViewsThreads ==
    ASSUME VInv, Threads
    PROVE  StackComing' /\ VarsComing'
  <1>0. TypeOK /\ events \in Seq(Events)
    BY DEF VInv, EvInv, TypeOK
  <1>1. ASSUME AnswerQuery PROVE StackComing' /\ VarsComing'
    <2>1. /\ Head(queue) \in Queries /\ queue' = Tail(queue)
          /\ \A S : Holds(queue, S) <=> Head(queue) \in S \/ Holds(queue', S)
      BY <1>0, <1>1, Taken DEF AnswerQuery, TypeOK
    <2>2. PICK rc \in {"ok", "fatal", "lost"} :
             LET e == [id |-> Head(queue), rc |-> rc, current |-> TRUE] IN
                IF rc = "ok" /\ e.id \in Moves
                THEN events' = Append(Aged, e)
                ELSE /\ events' = Append(events, e)
                     /\ UNCHANGED <<stackOf, varsOf>>
      BY <1>1 DEF AnswerQuery, Aged
    <2> DEFINE e == [id |-> Head(queue), rc |-> rc, current |-> TRUE]
    <2>3. e \in Events /\ e.id = Head(queue) /\ e.current
      BY <2>1 DEF Events
    <2>4. \/ events' = Append(events, e) /\ UNCHANGED <<stackOf, varsOf>>
          \/ e.id \in Moves /\ events' = Append(Aged, e)
      BY <2>2
    <2>5. UNCHANGED <<dbg, tools>>
      BY <1>1 DEF AnswerQuery
    <2> HIDE DEF e
    <2>6. /\ \A S : Holds(Append(events, e), S) <=> e \in S \/ Holds(events, S)
          /\ \A S : Holds(Append(Aged, e), S) <=> e \in S \/ Holds(Aged, S)
      BY <1>0, <2>3, AgedEvents, Appended
    <2>7. CASE e.id \in Moves /\ events' = Append(Aged, e)
      <3>1. e \in StackNews /\ e \in VarsNews
        BY <2>3, <2>7 DEF StackNews, VarsNews
      <3> QED
        BY <2>6, <2>7, <3>1 DEF StackComing, VarsComing
    <2>8. CASE events' = Append(events, e) /\ UNCHANGED <<stackOf, varsOf>>
      <3>1. /\ Holds(queue, {"stack"}) => Holds(queue', {"stack"}) \/ e \in StackNews
            /\ Holds(queue, {"stack", "breakpoints", "vars"}) =>
                 Holds(queue', {"stack", "breakpoints", "vars"}) \/ e \in VarsNews
        BY <2>1, <2>3 DEF StackNews, VarsNews
      <3> QED
        BY <2>5, <2>6, <2>8, <3>1 DEF VInv, StackComing, VarsComing
    <2> QED
      BY <2>4, <2>7, <2>8
  <1>2. ASSUME TargetStops \/ TargetEnds \/ ExecEnds PROVE StackComing' /\ VarsComing'
    <2>1. /\ [id |-> "break", rc |-> "ok", current |-> TRUE] \in Events
          /\ [id |-> "complete", rc |-> "ok", current |-> TRUE] \in Events
      BY DEF Events
    <2>2. \/ events' = events
          \/ \E e \in Events : events' = Append(events, e)
      BY <1>2, <2>1 DEF TargetStops, TargetEnds, ExecEnds
    <2>3. \A S : Holds(events, S) => Holds(events', S)
      BY <1>0, <2>2, Appended
    <2>4. UNCHANGED <<tools, dbg, queue, stackOf, varsOf>>
      BY <1>2 DEF TargetStops, TargetEnds, ExecEnds, guiVars, dbgVars, viewVars
    <2> QED
      BY <2>3, <2>4, StillComing
  <1> QED
    BY <1>1, <1>2 DEF Threads

\* A display that is not of the current position has the query that renews it
\* behind it, in the queue, at the server or answered.
THEOREM ViewInvariance == Spec => []VInv
  <1>1. Init => StackComing /\ VarsComing
    BY DEF Init, StackComing, VarsComing
  <1>2. ASSUME VInv, [Next]_vars PROVE StackComing' /\ VarsComing'
    <2>1. ASSUME UNCHANGED vars PROVE StackComing' /\ VarsComing'
      BY <1>2, <2>1, StillComing DEF vars, dbgVars, viewVars
    <2> QED
      BY <1>2, <2>1, ViewsGUI, ViewsHandlers, ViewsUser, ViewsThreads DEF Next, Closed
  <1>3. EvInv /\ (StackComing /\ VarsComing) <=> VInv
    BY DEF VInv
  <1>4. EvInv' /\ (StackComing' /\ VarsComing') => VInv'
    BY DEF VInv
  <1> QED
    BY <1>1, <1>2, <1>3, <1>4, EventInvariance, PTL DEF Spec

\* When nothing is under way and the user may go on, the stack and the
\* variables on display are those of the position the program is at.
THEOREM ViewsStayCurrent == Spec => []ViewIsCurrent
  <1>1. VInv => ViewIsCurrent
    BY Nothing DEF VInv, StackComing, VarsComing, ViewIsCurrent, Quiet
  <1> QED
    BY <1>1, ViewInvariance, PTL

-----------------------------------------------------------------------------
(* Users who wait for the handlers they have called                        *)

Lost == {e \in Events : e.rc = "lost"}

CompleteEnds == On("complete") => terminated

\* In Start's Yield there is nothing for another handler to do: what is left
\* of the session before is not listening, or there was none.
StartIsAlone ==
    On("start") =>
        /\ Tail(stack) = <<>> /\ conn = "ok" /\ dbg /\ exec = "none"
        /\ queue = <<>> /\ events = <<>>
        /\ ~brokenOff /\ ~stopping /\ ~tools.step
        /\ terminated \/ (~shown /\ stackOf = "none" /\ varsOf = "none" /\ ~tools.cont)

\* A connection that is broken while the session lasts will be noticed.
LossIsSeen ==
    conn = "bad" => terminated \/ Holds(events, Lost)
                        \/ On("error") \/ On("box") \/ On("stop_loop")

BrokenOffRests ==
    brokenOff =>
        /\ exec = "none" /\ queue = <<>> /\ events = <<>> /\ stack = <<>>
        /\ ~tools.step /\ ~stopping /\ (~dbg \/ terminated)

\* Without a thread a session is over, or was never begun.
NothingBegun ==
    ~dbg /\ ~terminated =>
        /\ conn = "ok" /\ exec = "none"
        /\ queue = <<>> /\ events = <<>> /\ stack = <<>> /\ ~stopping
        /\ ~shown /\ stackOf = "none" /\ varsOf = "none"
        /\ ~tools.step /\ ~tools.cont

NeverStarted == starts = 0 => ~dbg /\ ~terminated

ErrorHasThread == On("error") => dbg \/ conn # "ok"

Calm == /\ CompleteEnds /\ StartIsAlone /\ LossIsSeen /\ BrokenOffRests
        /\ NothingBegun /\ NeverStarted /\ ErrorHasThread

SInv == LInv /\ EvInv /\ Calm

LEMMA CalmTypes ==
    ASSUME SInv
    PROVE  /\ TypeOK /\ Ended /\ StopIsUnderWay /\ EvInv
           /\ CompleteEnds /\ StartIsAlone /\ LossIsSeen /\ BrokenOffRests
           /\ NothingBegun /\ NeverStarted /\ ErrorHasThread
  BY DEF SInv, LInv, Calm

\* Where the session is while a handler that is not Start's is on top, while
\* something is posted, while a thread works.
LEMMA Underway ==
    ASSUME SInv
    PROVE  /\ stack # <<>> \/ events # <<>> \/ queue # <<>> \/ exec # "none" \/ tools.step =>
                ~brokenOff /\ (dbg \/ terminated) /\ starts # 0
           /\ \A place : At(place) /\ place # "start" => ~On("start")
           /\ events # <<>> \/ queue # <<>> \/ exec # "none" \/ tools.step => ~On("start")
  <1>1. stack # <<>> \/ events # <<>> \/ queue # <<>> \/ exec # "none" \/ tools.step =>
                ~brokenOff /\ (dbg \/ terminated) /\ starts # 0
    BY CalmTypes DEF BrokenOffRests, NothingBegun, NeverStarted
  <1>2. ASSUME NEW place, At(place), place # "start"
        PROVE  ~On("start")
    <2>1. On("start") => Under(Tail(stack), "start")
      BY <1>2, CalmTypes, BelowTop
    <2>2. ~Under(<<>>, "start")
      BY Nothing DEF Under
    <2> QED
      BY <2>1, <2>2, CalmTypes DEF StartIsAlone
  <1>3. events # <<>> \/ queue # <<>> \/ exec # "none" \/ tools.step => ~On("start")
    BY CalmTypes DEF StartIsAlone
  <1> QED
    BY <1>1, <1>2, <1>3

\* Most steps are taken when no start is under way and a session was begun.
LEMMA CalmStep ==
    ASSUME SInv, ~Under(stack', "start"), ~brokenOff', dbg' \/ terminated', starts' # 0,
           Under(stack', "complete") => terminated',
           Under(stack', "error") => dbg' \/ conn' # "ok",
           conn' = "bad" => terminated' \/ Holds(events', Lost) \/ Under(stack', "error")
                                \/ Under(stack', "box") \/ Under(stack', "stop_loop")
    PROVE  Calm'
  BY DEF Calm, CompleteEnds, StartIsAlone, LossIsSeen, BrokenOffRests, NothingBegun,
         NeverStarted, ErrorHasThread, On

LEMMA CalmStop ==
    ASSUME SInv, NEW below \in Seq(Frames), NEW by \in {"return", "close", "error"},
           Stop(below, by), \A p : Under(below, p) => On(p),
           On("stop_loop") => Under(below, "stop_loop"),
           ~On("start"), brokenOff => below = <<>>, starts # 0, tools'.step => tools.step,
           UNCHANGED <<boundVars, viewVars, brokenOff>>
    PROVE  Calm'
  <1>0. /\ TypeOK /\ Ended /\ StopIsUnderWay /\ CompleteEnds /\ LossIsSeen /\ BrokenOffRests
        /\ NothingBegun /\ ErrorHasThread
    BY CalmTypes
  <1>1. UNCHANGED <<starts, brokenOff>>
    BY DEF boundVars
  <1>2. CASE terminated
    <2>1. /\ terminated' /\ stopping' = stopping /\ stack' = below /\ UNCHANGED <<dbg, queue, exec, events>>
          /\ conn' \in {"deleted", conn}
      BY <1>2 DEF Stop, dbgVars, execVars
    <2>2. Under(stack', "error") => dbg' \/ conn' # "ok"
      BY <1>0, <2>1 DEF ErrorHasThread
    <2>3. ~Under(stack', "start")
      BY <2>1
    <2>4. BrokenOffRests'
      BY <1>0, <1>1, <2>1 DEF BrokenOffRests
    <2> QED
      BY <1>1, <2>1, <2>2, <2>3, <2>4
         DEF Calm, CompleteEnds, StartIsAlone, LossIsSeen, NothingBegun, NeverStarted, ErrorHasThread, On
  <1>3. CASE ~terminated /\ stopping
    <2>1. stack' = below /\ UNCHANGED <<dbg, conn>>
      BY <1>3 DEF Stop, dbgVars
    <2>2. ~brokenOff /\ dbg /\ On("stop_loop")
      BY <1>0, <1>3 DEF BrokenOffRests, NothingBegun, StopIsUnderWay
    <2>3. /\ Under(stack', "complete") => terminated'
          /\ ~Under(stack', "start") /\ Under(stack', "stop_loop")
      BY <1>0, <1>3, <2>1, <2>2 DEF CompleteEnds
    <2> QED
      BY <1>1, <2>1, <2>2, <2>3, CalmStep
  <1>4. CASE ~terminated /\ ~stopping /\ ExecRunning
    <2>1. /\ stack' = <<[at |-> "stop_loop", by |-> by]>> \o below
          /\ UNCHANGED <<conn, terminated, dbg>> /\ exec # "none"
      BY <1>4 DEF Stop, dbgVars, ExecRunning
    <2>2. [at |-> "stop_loop", by |-> by] \in Frames
      BY DEF Frames, Yields
    <2>3. \A p : Under(stack', p) <=> p = "stop_loop" \/ Under(below, p)
      BY <1>0, <2>1, <2>2, CallPuts
    <2>4. ~brokenOff /\ dbg
      BY <1>0, <1>4, <2>1 DEF BrokenOffRests, NothingBegun
    <2>5. /\ Under(stack', "complete") => terminated'
          /\ ~Under(stack', "start") /\ Under(stack', "stop_loop")
      BY <1>0, <2>1, <2>3 DEF CompleteEnds
    <2> QED
      BY <1>1, <2>1, <2>4, <2>5, CalmStep
  <1>5. CASE ~terminated /\ ~stopping /\ ~ExecRunning
    <2>1. StopRest(below, by)
      BY <1>5 DEF Stop
    <2>2. /\ terminated' /\ ~stopping' /\ exec' = "none" /\ conn' # "ok" /\ stack' = below
          /\ EndDebugThread
      BY <2>1 DEF StopRest
    <2>3. /\ ~dbg' /\ queue' = <<>> /\ (queue = <<>> => events' = events)
      BY <1>0, <2>2, ThreadEnded
    <2>4. BrokenOffRests'
      BY <1>0, <1>1, <2>2, <2>3 DEF BrokenOffRests
    <2>5. ~Under(stack', "start")
      BY <2>2
    <2> QED
      BY <1>1, <2>2, <2>4, <2>5
         DEF Calm, CompleteEnds, StartIsAlone, LossIsSeen, NothingBegun, NeverStarted, ErrorHasThread, On
  <1> QED
    BY <1>2, <1>3, <1>4, <1>5

LEMMA CalmGUI ==
    ASSUME SInv, GUI
    PROVE  Calm'
  <1>0. /\ TypeOK /\ CompleteEnds /\ StartIsAlone /\ LossIsSeen /\ BrokenOffRests
        /\ NothingBegun /\ NeverStarted /\ ErrorHasThread
    BY CalmTypes
  <1>00. \A p : ~Under(<<>>, p)
    BY Nothing DEF Under
  <1>1. ASSUME Started PROVE Calm'
    <2>1. On("start") /\ stack' = Tail(stack)
      BY <1>0, <1>1, BelowTop DEF Started, StopRest, Return
    <2>2. /\ stack' = <<>> /\ conn = "ok" /\ dbg /\ exec = "none" /\ queue = <<>> /\ events = <<>>
          /\ ~brokenOff /\ ~stopping /\ ~tools.step /\ starts # 0
      BY <1>0, <2>1 DEF StartIsAlone, NeverStarted
    <2>3. \A p : ~Under(stack', p)
      BY <1>00, <2>2
    <2>4. UNCHANGED starts
      BY <1>1 DEF Started, boundVars
    <2>5. CASE UNCHANGED <<conn, dbg, brokenOff>>
      BY <2>2, <2>3, <2>4, <2>5, CalmStep
    <2>6. CASE terminated' = TRUE /\ UNCHANGED brokenOff
      BY <2>2, <2>3, <2>4, <2>6, CalmStep
    <2>7. CASE terminated' = TRUE /\ stopping' = FALSE /\ tools' = [NoTools EXCEPT !.cont = TRUE]
               /\ UNCHANGED <<dbgVars, execVars, events>>
      <3>1. ~tools'.step
        BY <2>7 DEF NoTools
      <3>2. BrokenOffRests'
        BY <2>2, <2>7, <3>1 DEF BrokenOffRests, dbgVars, execVars
      <3> QED
        BY <2>2, <2>3, <2>4, <2>7, <3>2
           DEF Calm, CompleteEnds, StartIsAlone, LossIsSeen, NothingBegun, NeverStarted, ErrorHasThread, On
    <2> QED
      BY <1>1, <2>5, <2>6, <2>7 DEF Started, StopRest, dbgVars
  <1>2. ASSUME LoopOver PROVE Calm'
    <2>1. At("stop_loop") /\ stack # <<>> /\ stack' = Tail(stack) /\ terminated' = TRUE
          /\ conn' # "ok" /\ UNCHANGED <<starts, brokenOff>>
      BY <1>2 DEF LoopOver, At, StopRest, boundVars
    <2>2. ~On("start") /\ ~brokenOff /\ starts # 0
      BY <2>1, Underway
    <2>3. ~Under(stack', "start")
      BY <1>0, <2>1, <2>2, BelowTop
    <2> QED
      BY <2>1, <2>2, <2>3, CalmStep
  <1>3. ASSUME NEW place \in {"error", "box"}, At(place), Stop(Tail(stack), "error"), StopTools,
               UNCHANGED <<boundVars, viewVars, brokenOff>>
        PROVE  Calm'
    <2>1. stack # <<>>
      BY <1>3 DEF At
    <2>2. ~On("start") /\ ~brokenOff /\ starts # 0
      BY <1>3, <2>1, Underway
    <2>3. /\ Tail(stack) \in Seq(Frames) /\ \A p : Under(Tail(stack), p) => On(p)
          /\ On("stop_loop") => Under(Tail(stack), "stop_loop")
      BY <1>0, <1>3, BelowTop
    <2>4. tools'.step => tools.step
      BY <1>3, ToolTypes DEF StopTools
    <2> QED
      BY <1>3, <2>2, <2>3, <2>4, CalmStop
  <1>4. ASSUME ErrorHandled PROVE Calm'
    <2>1. At("error") /\ stack # <<>> /\ On("error") /\ UNCHANGED <<starts, brokenOff>>
      BY <1>0, <1>4, BelowTop DEF ErrorHandled, boundVars
    <2>2. ~On("start") /\ ~brokenOff /\ (dbg \/ terminated) /\ starts # 0
      BY <2>1, Underway
    <2>3. /\ Tail(stack) \in Seq(Frames) /\ \A p : Under(Tail(stack), p) => On(p)
          /\ On("stop_loop") => Under(Tail(stack), "stop_loop")
      BY <1>0, <2>1, BelowTop
    <2>4. CASE conn = "ok" /\ Return /\ UNCHANGED <<conn, flagVars, dbg>>
      <3>1. stack' = Tail(stack)
        BY <2>4 DEF Return
      <3>2. dbg
        BY <1>0, <2>1, <2>4 DEF ErrorHasThread
      <3> QED
        BY <1>0, <2>1, <2>2, <2>3, <2>4, <3>1, <3>2, CalmStep DEF CompleteEnds, flagVars
    <2>5. CASE Become("box", "error") /\ conn' \in {"bad", conn} /\ UNCHANGED <<flagVars, dbg>>
      <3>1. [at |-> "box", by |-> "error"] \in Frames
        BY DEF Frames, Yields
      <3>2. \A p : Under(stack', p) <=> p = "box" \/ Under(Tail(stack), p)
        BY <1>0, <2>3, <2>5, <3>1, CallPuts DEF Become
      <3>3. /\ Under(stack', "complete") => terminated'
            /\ ~Under(stack', "start") /\ Under(stack', "box")
        BY <1>0, <2>2, <2>3, <2>5, <3>2 DEF CompleteEnds, flagVars
      <3>4. dbg' \/ conn' # "ok"
        BY <1>0, <2>1, <2>5 DEF ErrorHasThread
      <3> QED
        BY <2>1, <2>2, <2>5, <3>3, <3>4, CalmStep DEF flagVars
    <2> QED
      BY <1>3, <1>4, <2>1, <2>4, <2>5 DEF ErrorHandled, dbgVars
  <1>5. ASSUME BoxClosed PROVE Calm'
    BY <1>3, <1>5 DEF BoxClosed
  <1>6. ASSUME Completed PROVE Calm'
    <2>1. At("complete") /\ stack # <<>> /\ On("complete") /\ stack' = Tail(stack) /\ conn' # "ok"
          /\ UNCHANGED <<starts, brokenOff, terminated>>
      BY <1>0, <1>6, BelowTop DEF Completed, boundVars, flagVars, Return
    <2>2. ~On("start") /\ ~brokenOff /\ starts # 0 /\ terminated
      BY <1>0, <2>1, Underway DEF CompleteEnds
    <2>3. ~Under(stack', "start")
      BY <1>0, <2>1, <2>2, BelowTop
    <2> QED
      BY <2>1, <2>2, <2>3, CalmStep
  <1> QED
    BY <1>1, <1>2, <1>4, <1>5, <1>6 DEF GUI

LEMMA CalmHandlers ==
    ASSUME SInv, Handlers
    PROVE  Calm'
  <1>0. /\ TypeOK /\ EvInv /\ CompleteEnds /\ LossIsSeen /\ ErrorHasThread
    BY CalmTypes
  <1>1. PICK ids : Dispatch(ids)
    BY DEF Handlers, OnStartDebugging, Answered, Failed, Ignored, TargetComplete
  <1>2. /\ events # <<>> /\ events \in Seq(Events) /\ Head(events) \in Events /\ CanDispatch
        /\ events' = Tail(events)
        /\ \A S : Holds(events, S) <=> Head(events) \in S \/ Holds(events', S)
    BY <1>0, <1>1, Dispatched, Taken DEF Dispatch
  <1>3. ~On("start") /\ ~brokenOff /\ (dbg \/ terminated) /\ starts # 0
    BY <1>2, Underway
  <1>4. ASSUME UNCHANGED <<conn, terminated, dbg, stack, starts, brokenOff>>,
               terminated \/ Head(events) \notin Lost
        PROVE  Calm'
    <2>1. conn' = "bad" => terminated' \/ Holds(events', Lost) \/ Under(stack', "error")
                                \/ Under(stack', "box") \/ Under(stack', "stop_loop")
      BY <1>0, <1>2, <1>4 DEF LossIsSeen, On
    <2> QED
      BY <1>0, <1>3, <1>4, <2>1, CalmStep DEF CompleteEnds, ErrorHasThread, On
  <1>5. ASSUME OnStartDebugging PROVE Calm'
    <2>1. Head(events).id = "break"
      BY <1>0, <1>5, Dispatched DEF OnStartDebugging
    <2>2. Head(events) \notin BadNotices
      BY <1>0, <1>2 DEF EvInv, NoticesOk
    <2>3. Head(events) \notin Lost
      BY <1>2, <2>1, <2>2 DEF BadNotices, Lost
    <2> QED
      BY <1>4, <1>5, <2>3 DEF OnStartDebugging, boundVars, flagVars
  <1>6. ASSUME Answered PROVE Calm'
    <2>1. Head(events) \notin Lost
      BY <1>6 DEF Answered, Lost
    <2> QED
      BY <1>4, <1>6, <2>1 DEF Answered, boundVars, flagVars
  <1>7. ASSUME Ignored PROVE Calm'
    <2>1. terminated
      BY <1>3, <1>7 DEF Ignored
    <2> QED
      BY <1>4, <1>7, <2>1 DEF Ignored, boundVars, flagVars, dbgVars
  <1>8. ASSUME Failed PROVE Calm'
    <2>1. Head(events).rc \in {"user", "return", "close", "error", "fatal", "lost"}
      BY <1>2, <1>8 DEF Events, Failed
    <2>2. \A p : Under(stack', p) <=> p = "error" \/ On(p)
      BY <1>0, <1>2, <1>8, <2>1, CallTypes DEF Failed, Yields
    <2>3. dbg /\ UNCHANGED <<dbg, terminated, starts, brokenOff>>
      BY <1>8 DEF Failed, dbgVars, flagVars, boundVars
    <2> QED
      BY <1>0, <1>3, <2>2, <2>3, CalmStep DEF CompleteEnds
  <1>9. ASSUME TargetComplete PROVE Calm'
    <2>1. \A p : Under(stack', p) <=> p = "complete" \/ On(p)
      BY <1>0, <1>2, <1>9, CallTypes DEF TargetComplete, Yields
    <2>2. terminated' /\ UNCHANGED <<dbg, conn, starts, brokenOff>>
      BY <1>9 DEF TargetComplete, dbgVars, boundVars
    <2> QED
      BY <1>0, <1>3, <2>1, <2>2, CalmStep DEF ErrorHasThread
  <1> QED
    BY <1>5, <1>6, <1>7, <1>8, <1>9 DEF Handlers

\* The commands that ask m_dbgThread something.
LEMMA CalmAsk ==
    ASSUME SInv, NEW qs \in Seq(Queries), Ask(qs), tools'.step => tools.step,
           ~terminated => dbg /\ ~On("start")
    PROVE  Calm'
  <1>0. /\ TypeOK /\ CompleteEnds /\ StartIsAlone /\ LossIsSeen /\ BrokenOffRests
        /\ NothingBegun /\ NeverStarted /\ ErrorHasThread
    BY CalmTypes
  <1>1. UNCHANGED <<conn, terminated, stopping, dbg, exec, stack, events, starts, brokenOff>>
    BY DEF Ask, flagVars, execVars
  <1>2. terminated => queue' = queue
    BY DEF Ask, Listening
  <1>3. starts # 0
    BY <1>0 DEF NeverStarted
  <1>4. brokenOff => terminated
    BY <1>0 DEF BrokenOffRests
  <1>5. BrokenOffRests'
    BY <1>0, <1>1, <1>2, <1>4 DEF BrokenOffRests
  <1>6. StartIsAlone'
    <2>1. SUFFICES ASSUME On("start") PROVE StartIsAlone'
      BY <1>1 DEF StartIsAlone, On
    <2> QED
      BY <1>0, <1>1, <1>2, <2>1 DEF StartIsAlone, On
  <1>7. LossIsSeen' /\ CompleteEnds' /\ ErrorHasThread'
    BY <1>0, <1>1 DEF LossIsSeen, CompleteEnds, ErrorHasThread, On
  <1>8. NothingBegun' /\ NeverStarted'
    BY <1>1, <1>3 DEF NothingBegun, NeverStarted
  <1> QED
    BY <1>5, <1>6, <1>7, <1>8 DEF Calm

LEMMA CalmUser ==
    ASSUME SInv, User, ~Hasty
    PROVE  Calm'
  <1>0. /\ TypeOK /\ Ended /\ StopIsUnderWay /\ StartIsAlone /\ LossIsSeen /\ BrokenOffRests
        /\ NothingBegun /\ NeverStarted
    BY CalmTypes
  <1>00. \A p : ~Under(<<>>, p)
    BY Nothing DEF Under
  <1>1. ASSUME Start PROVE Calm'
    <2>0. EnableTools(FALSE) /\ Patient
      BY <1>1 DEF Start
    <2>1. stack = <<>> /\ events = <<>> /\ ~tools'.step /\ (tools'.cont <=> conn = "bad")
      BY <2>0 DEF Patient, EnableTools, CanRestart
    <2>2. /\ starts' # 0
          /\ UNCHANGED <<terminated, stopping, exec, events, shown, stackOf, varsOf>>
          /\ starts = 0 \/ conn = "bad"
      BY <1>0, <1>1, BoundsAssumption DEF Start, TypeOK, flagVars, execVars, viewVars, CanRestart
    <2>3. \A p : ~On(p)
      BY <1>00, <2>1 DEF On
    <2>4. ~stopping
      BY <1>0, <2>3 DEF StopIsUnderWay
    <2>5. ~terminated => starts = 0 /\ conn = "ok"
      <3>1. conn = "bad" => terminated
        BY <1>0, <2>1, <2>3, Nothing DEF LossIsSeen
      <3> QED
        BY <1>0, <2>2, <3>1 DEF NeverStarted, NothingBegun
    <2>6. exec = "none"
      BY <1>0, <2>3, <2>5 DEF Ended, Gone, BrokenOffRests, NeverStarted, NothingBegun
    <2>7. ~terminated => ~shown /\ stackOf = "none" /\ varsOf = "none" /\ ~tools'.cont
      BY <1>0, <2>1, <2>5 DEF NeverStarted, NothingBegun, CanRestart
    <2>8. CASE CanRestart /\ UNCHANGED <<conn, dbgVars, stack, brokenOff>>
      <3>1. terminated
        BY <2>5, <2>8 DEF CanRestart
      <3>2. BrokenOffRests'
        BY <1>0, <2>1, <2>2, <2>8, <3>1 DEF BrokenOffRests, dbgVars
      <3>3. \A p : ~Under(stack', p)
        BY <2>3, <2>8 DEF On
      <3> QED
        BY <2>2, <3>1, <3>2, <3>3
           DEF Calm, CompleteEnds, StartIsAlone, LossIsSeen, NothingBegun, NeverStarted, ErrorHasThread, On
    <2>9. CASE conn' = "ok" /\ dbg' = FALSE /\ queue' = <<>> /\ brokenOff' = TRUE /\ UNCHANGED stack
      <3>1. BrokenOffRests'
        BY <2>1, <2>2, <2>4, <2>6, <2>9 DEF BrokenOffRests
      <3>2. NothingBegun'
        BY <2>1, <2>2, <2>4, <2>6, <2>7, <2>9 DEF NothingBegun
      <3>3. \A p : ~Under(stack', p)
        BY <2>3, <2>9 DEF On
      <3> QED
        BY <2>2, <2>9, <3>1, <3>2, <3>3
           DEF Calm, CompleteEnds, StartIsAlone, LossIsSeen, NeverStarted, ErrorHasThread, On
    <2>10. CASE conn' = "ok" /\ brokenOff' = FALSE /\ dbg' = TRUE /\ queue' = <<>>
                /\ Call("start", "user")
      <3> DEFINE f == [at |-> "start", by |-> "user"]
      <3>1. f \in Frames /\ <<>> \in Seq(Frames)
        BY DEF Frames, Yields
      <3>2. stack' = <<f>> \o <<>>
        BY <2>1, <2>10 DEF Call
      <3>3. \A p : Under(stack', p) <=> p = "start"
        BY <1>0, <1>00, <3>1, <3>2, CallPuts
      <3>4. Tail(stack') = <<>>
        <4>1. <<f>> \o <<>> = <<f>> /\ Tail(<<f>>) = <<>>
          OBVIOUS
        <4> QED
          BY <3>2, <4>1
      <3>5. StartIsAlone'
        BY <2>1, <2>2, <2>4, <2>6, <2>7, <2>10, <3>4 DEF StartIsAlone
      <3> QED
        BY <2>2, <2>10, <3>3, <3>5
           DEF Calm, CompleteEnds, LossIsSeen, BrokenOffRests, NothingBegun, NeverStarted,
               ErrorHasThread, On
    <2> QED
      BY <1>1, <2>8, <2>9, <2>10 DEF Start
  <1>2. \A x, y \in Queries : <<x>> \in Seq(Queries) /\ <<x, y>> \in Seq(Queries)
    OBVIOUS
  <1>3. ASSUME Step PROVE Calm'
    <2>1. tools.step \/ tools.cont
      BY <1>3 DEF Step
    <2>2. ~terminated => dbg /\ ~On("start")
      BY <1>0, <2>1 DEF NothingBegun, StartIsAlone
    <2>3. <<"step">> \in Seq(Queries)
      BY <1>2 DEF Queries, Moves
    <2> QED
      BY <1>3, <2>2, <2>3, ToolTypes, CalmAsk DEF Step
  <1>4. ASSUME SelectFrame \/ ToggleBreakpoint \/ DepositValue PROVE Calm'
    <2>1. stackOf # "none" \/ shown \/ varsOf # "none"
      BY <1>4 DEF SelectFrame, ToggleBreakpoint, DepositValue
    <2>2. ~terminated => dbg /\ ~On("start")
      BY <1>0, <2>1 DEF NothingBegun, StartIsAlone
    <2>3. PICK qs \in {<<"frame">>, <<"set_breakpoint", "breakpoints">>, <<"deposit">>} : Ask(qs)
      BY <1>4 DEF SelectFrame, ToggleBreakpoint, DepositValue
    <2>4. qs \in Seq(Queries)
      BY <1>2, <2>3 DEF Queries, Moves
    <2>5. UNCHANGED tools
      BY <1>4 DEF SelectFrame, ToggleBreakpoint, DepositValue
    <2> QED
      BY <2>2, <2>3, <2>4, <2>5, CalmAsk
  <1>5. stack \in Seq(Frames) /\ \A p : Under(stack, p) <=> On(p)
    BY <1>0 DEF TypeOK, On
  <1>6. brokenOff => stack = <<>>
    BY <1>0 DEF BrokenOffRests
  <1>7. ASSUME OnStop PROVE Calm'
    <2>1. tools.step
      BY <1>7 DEF OnStop
    <2>2. ~On("start") /\ starts # 0
      BY <2>1, Underway
    <2> QED
      BY <1>5, <1>6, <1>7, <2>1, <2>2, CalmStop DEF OnStop
  <1>8. ASSUME OnClose PROVE Calm'
    <2>1. ~On("start") /\ starts # 0
      BY <1>0, <1>00, <1>8 DEF OnClose, On, TypeOK
    <2>2. tools'.step => tools.step
      BY <1>8, ToolTypes DEF OnClose, StopTools
    <2> QED
      BY <1>5, <1>6, <1>8, <2>1, <2>2, CalmStop DEF OnClose
  <1> QED
    BY <1>1, <1>3, <1>4, <1>7, <1>8 DEF User

LEMMA LostAged ==
    ASSUME TypeOK
    PROVE  Holds(Aged, Lost) <=> Holds(events, Lost)
  <1>1. \A e \in Events : [e EXCEPT !.current = FALSE] \in Lost <=> e \in Lost
    BY DEF Lost, Events
  <1> QED
    BY <1>1, AgedHolds

LEMMA CalmThreads ==
    ASSUME SInv, Threads
    PROVE  Calm'
  <1>0. /\ TypeOK /\ events \in Seq(Events) /\ CompleteEnds /\ LossIsSeen /\ ErrorHasThread
    BY CalmTypes DEF TypeOK
  <1>1. UNCHANGED <<terminated, dbg, stack, starts, brokenOff>>
    BY DEF Threads, AnswerQuery, TargetStops, TargetEnds, ExecEnds, guiVars, dbgVars, flagVars, boundVars
  <1>2. queue # <<>> \/ exec # "none"
    BY DEF Threads, AnswerQuery, TargetStops, TargetEnds, ExecEnds
  <1>3. ~On("start") /\ ~brokenOff /\ (dbg \/ terminated) /\ starts # 0
    BY <1>2, Underway
  <1>4. ASSUME AnswerQuery PROVE Calm'
    <2>1. Head(queue) \in Queries /\ dbg
      BY <1>0, <1>4, Taken DEF AnswerQuery, TypeOK
    <2>2. PICK rc \in {"ok", "fatal", "lost"} :
             /\ conn' = IF rc = "lost" /\ conn = "ok" THEN "bad" ELSE conn
             /\ LET e == [id |-> Head(queue), rc |-> rc, current |-> TRUE] IN
                IF rc = "ok" /\ e.id \in Moves
                THEN events' = Append(Aged, e)
                ELSE events' = Append(events, e)
      BY <1>4 DEF AnswerQuery, Aged
    <2> DEFINE e == [id |-> Head(queue), rc |-> rc, current |-> TRUE]
    <2>3. e \in Events /\ (e \in Lost <=> rc = "lost")
      BY <2>1 DEF Events, Lost
    <2>4. events' \in {Append(events, e), Append(Aged, e)}
      BY <2>2
    <2> HIDE DEF e
    <2>5. /\ \A S : Holds(Append(events, e), S) <=> e \in S \/ Holds(events, S)
          /\ \A S : Holds(Append(Aged, e), S) <=> e \in S \/ Holds(Aged, S)
      BY <1>0, <2>3, AgedEvents, Appended
    <2>6. Holds(events', Lost) <=> e \in Lost \/ Holds(events, Lost)
      BY <1>0, <2>4, <2>5, LostAged
    <2>7. conn' = "bad" => terminated' \/ Holds(events', Lost) \/ Under(stack', "error")
                                \/ Under(stack', "box") \/ Under(stack', "stop_loop")
      BY <1>0, <1>1, <2>2, <2>3, <2>6 DEF LossIsSeen, On
    <2> QED
      BY <1>0, <1>1, <1>3, <2>1, <2>7, CalmStep DEF CompleteEnds, On
  <1>5. ASSUME TargetStops \/ TargetEnds \/ ExecEnds PROVE Calm'
    <2>1. /\ [id |-> "break", rc |-> "ok", current |-> TRUE] \in Events
          /\ [id |-> "complete", rc |-> "ok", current |-> TRUE] \in Events
      BY DEF Events
    <2>2. \/ events' = events
          \/ \E e \in Events : events' = Append(events, e)
      BY <1>5, <2>1 DEF TargetStops, TargetEnds, ExecEnds
    <2>3. Holds(events, Lost) => Holds(events', Lost)
      BY <1>0, <2>2, Appended
    <2>4. UNCHANGED conn
      BY <1>5 DEF TargetStops, TargetEnds, ExecEnds
    <2> QED
      BY <1>0, <1>1, <1>3, <2>3, <2>4, CalmStep DEF CompleteEnds, LossIsSeen, ErrorHasThread, On
  <1> QED
    BY <1>4, <1>5 DEF Threads

LEMMA CalmStutter ==
    ASSUME SInv, UNCHANGED vars
    PROVE  Calm'
  <1>1. UNCHANGED <<tools, conn, terminated, stopping, dbg, queue, exec, stack, events, starts,
                    shown, stackOf, varsOf, brokenOff>>
    BY DEF vars, flagVars, dbgVars, execVars, viewVars, boundVars
  <1> QED
    BY <1>1 DEF SInv, Calm, CompleteEnds, StartIsAlone, LossIsSeen, BrokenOffRests, NothingBegun,
                NeverStarted, ErrorHasThread, On

LEMMA CalmInit ==
    ASSUME Init
    PROVE  Calm
  BY Nothing DEF Init, Calm, CompleteEnds, StartIsAlone, LossIsSeen, BrokenOffRests, NothingBegun,
                 NeverStarted, ErrorHasThread, On, Under, NoTools

\* As long as the user waits for the handlers they have called, no handler
\* that ends or restarts the session overlaps with another.
THEOREM SessionInvariance ==
    ASSUME ~Hasty
    PROVE  Spec => []SInv
  <1>1. Init => Calm
    BY CalmInit
  <1>2. ASSUME SInv, [Next]_vars PROVE Calm'
    BY <1>2, CalmGUI, CalmHandlers, CalmUser, CalmThreads, CalmStutter DEF Next, Closed
  <1>3. LInv /\ EvInv /\ Calm <=> SInv
    BY DEF SInv
  <1>4. LInv' /\ EvInv' /\ Calm' => SInv'
    BY DEF SInv
  <1> QED
    BY <1>1, <1>2, <1>3, <1>4, EndInvariance, EventInvariance, PTL DEF Spec

\* As long as the user waits for the handlers they have called, the commands
\* and HandleQuery behind its Yield find m_dbgThread there.
THEOREM ThreadStaysThere ==
    ASSUME ~Hasty
    PROVE  Spec => []ThreadIsThere
  <1>1. ASSUME SInv PROVE ThreadIsThere
    <2>1. Listening /\ (shown \/ ExecRunning) => dbg
      BY <1>1, CalmTypes DEF Listening, ExecRunning, NothingBegun
    <2>2. At("error") => On("error")
      BY <1>1, CalmTypes, BelowTop
    <2> QED
      BY <1>1, <2>1, <2>2, CalmTypes DEF ThreadIsThere, ErrorHasThread
  <1> QED
    BY <1>1, SessionInvariance, PTL

-----------------------------------------------------------------------------
(* The user is not stranded                                                *)

\* The queries whose answers lead an in-context session to its next stop.
Main == Moves \cup {"listener", "add_breakpoint", "attach", "wait_target"}
MainNews == {e \in Events : e.id \in Main \/ e.rc # "ok"}

Busy(s) == Under(s, "start") \/ Under(s, "error") \/ Under(s, "box") \/ Under(s, "stop_loop")

\* An in-context session that lasts waits for the user or for the program to
\* stop.
InContextGoesOn ==
    kind = "incontext" /\ dbg /\ ~terminated =>
        tools.step \/ Holds(queue, Main) \/ Holds(events, MainNews) \/ Busy(stack)

\* A direct session that lasts has its second thread.
DirectHasThread ==
    kind = "direct" /\ dbg /\ ~terminated => exec # "none" \/ On("start")

NInv == SInv /\ InContextGoesOn /\ DirectHasThread

LEMMA OverNow ==
    ASSUME ~dbg' \/ terminated'
    PROVE  InContextGoesOn' /\ DirectHasThread'
  BY DEF InContextGoesOn, DirectHasThread

LEMMA GoesOnStop ==
    ASSUME NInv, NEW below \in Seq(Frames), NEW by \in {"return", "close", "error"},
           Stop(below, by), by = "error" => StopTools,
           by # "error" => below = stack,
           On("stop_loop") => Under(below, "stop_loop"), ~On("start"), UNCHANGED kind
    PROVE  InContextGoesOn' /\ DirectHasThread'
  <1>0. TypeOK /\ StopIsUnderWay
    BY CalmTypes DEF NInv
  <1>1. CASE terminated
    BY <1>1, OverNow DEF Stop
  <1>2. CASE ~terminated /\ stopping
    <2>1. stack' = below /\ UNCHANGED <<dbg, exec>> /\ On("stop_loop")
      BY <1>0, <1>2 DEF Stop, dbgVars, execVars, StopIsUnderWay
    <2>2. Busy(stack') /\ Busy(stack)
      BY <2>1 DEF Busy, On
    <2>3. InContextGoesOn'
      BY <2>2 DEF InContextGoesOn
    <2>4. DirectHasThread'
      BY <1>2, <2>1 DEF NInv, DirectHasThread
    <2> QED
      BY <2>3, <2>4
  <1>3. CASE ~terminated /\ ~stopping /\ ExecRunning
    <2>1. /\ stack' = <<[at |-> "stop_loop", by |-> by]>> \o below
          /\ UNCHANGED <<dbg, exec>> /\ exec # "none"
      BY <1>3 DEF Stop, dbgVars, ExecRunning
    <2>2. [at |-> "stop_loop", by |-> by] \in Frames
      BY DEF Frames, Yields
    <2>3. Under(stack', "stop_loop")
      BY <1>0, <2>1, <2>2, CallPuts
    <2> QED
      BY <2>1, <2>3 DEF InContextGoesOn, DirectHasThread, Busy
  <1>4. CASE ~terminated /\ ~stopping /\ ~ExecRunning
    BY <1>4, OverNow DEF Stop, StopRest
  <1> QED
    BY <1>1, <1>2, <1>3, <1>4

LEMMA GoesOnGUI ==
    ASSUME NInv, GUI
    PROVE  InContextGoesOn' /\ DirectHasThread'
  <1>0. SInv /\ TypeOK /\ StartIsAlone
    BY CalmTypes DEF NInv
  <1>1. ASSUME Started PROVE InContextGoesOn' /\ DirectHasThread'
    <2>1. UNCHANGED kind
      BY <1>1 DEF Started, boundVars
    <2>2. CASE kind = "direct" /\ exec' = "running"
      BY <2>1, <2>2 DEF InContextGoesOn, DirectHasThread
    <2>3. CASE terminated' = TRUE
      BY <2>3, OverNow
    <2>4. CASE kind = "incontext" /\ AddQueries(<<"listener">>)
      <3>1. <<"listener">> \in Seq(Queries) /\ Holds(<<"listener">>, Main)
        <4>1. 1 \in DOMAIN <<"listener">> /\ <<"listener">>[1] = "listener"
          OBVIOUS
        <4>2. <<"listener">> \in Seq(Queries)
          BY DEF Queries
        <4> QED
          BY <4>1, <4>2 DEF Holds, Main
      <3>2. Holds(queue', Main)
        BY <1>0, <2>4, <3>1, QueriesAdded
      <3> QED
        BY <2>1, <2>4, <3>2 DEF InContextGoesOn, DirectHasThread
    <2> QED
      BY <1>1, <2>2, <2>3, <2>4 DEF Started, StopRest
  <1>2. ASSUME LoopOver PROVE InContextGoesOn' /\ DirectHasThread'
    BY <1>2, OverNow DEF LoopOver, StopRest
  <1>3. ASSUME NEW place \in {"error", "box"}, At(place), Stop(Tail(stack), "error"), StopTools,
               UNCHANGED kind
        PROVE  InContextGoesOn' /\ DirectHasThread'
    <2>1. ~On("start")
      BY <1>0, <1>3, Underway
    <2>2. /\ Tail(stack) \in Seq(Frames)
          /\ On("stop_loop") => Under(Tail(stack), "stop_loop")
      BY <1>0, <1>3, BelowTop
    <2> QED
      BY <1>3, <2>1, <2>2, GoesOnStop
  <1>4. ASSUME ErrorHandled PROVE InContextGoesOn' /\ DirectHasThread'
    <2>1. At("error") /\ UNCHANGED kind
      BY <1>4 DEF ErrorHandled, boundVars
    <2>2. ~On("start")
      BY <1>0, <2>1, Underway
    <2>3. CASE kind = "incontext" /\ AddQueries(<<"wait_target">>)
      <3>1. <<"wait_target">> \in Seq(Queries) /\ Holds(<<"wait_target">>, Main)
        <4>1. 1 \in DOMAIN <<"wait_target">> /\ <<"wait_target">>[1] = "wait_target"
          OBVIOUS
        <4>2. <<"wait_target">> \in Seq(Queries)
          BY DEF Queries
        <4> QED
          BY <4>1, <4>2 DEF Holds, Main
      <3>2. Holds(queue', Main)
        BY <1>0, <2>3, <3>1, QueriesAdded
      <3> QED
        BY <2>1, <2>3, <3>2 DEF InContextGoesOn, DirectHasThread
    <2>4. CASE Become("box", "error") /\ UNCHANGED <<terminated, dbg, exec>>
      <3>1. [at |-> "box", by |-> "error"] \in Frames /\ Tail(stack) \in Seq(Frames)
        BY <1>0, <2>1, BelowTop DEF Frames, Yields
      <3>2. Under(stack', "box")
        BY <1>0, <2>4, <3>1, CallPuts DEF Become
      <3> QED
        BY <2>1, <2>2, <2>4, <3>2 DEF NInv, InContextGoesOn, DirectHasThread, Busy
    <2> QED
      BY <1>3, <1>4, <2>1, <2>3, <2>4 DEF ErrorHandled, flagVars, dbgVars, execVars
  <1>5. ASSUME BoxClosed PROVE InContextGoesOn' /\ DirectHasThread'
    BY <1>3, <1>5 DEF BoxClosed, boundVars
  <1>6. ASSUME Completed PROVE InContextGoesOn' /\ DirectHasThread'
    BY <1>6, OverNow DEF Completed, EndDebugThread
  <1> QED
    BY <1>1, <1>2, <1>4, <1>5, <1>6 DEF GUI

LEMMA GoesOnHandlers ==
    ASSUME NInv, Handlers
    PROVE  InContextGoesOn' /\ DirectHasThread'
  <1>0. SInv /\ TypeOK /\ EvInv
    BY CalmTypes DEF NInv
  <1>1. PICK ids : Dispatch(ids)
    BY DEF Handlers, OnStartDebugging, Answered, Failed, Ignored, TargetComplete
  <1>2. /\ events # <<>> /\ events \in Seq(Events) /\ Head(events) \in Events /\ CanDispatch
        /\ events' = Tail(events)
        /\ \A S : Holds(events, S) <=> Head(events) \in S \/ Holds(events', S)
    BY <1>0, <1>1, Dispatched, Taken DEF Dispatch
  <1>3. ~On("start")
    BY <1>0, <1>2, Underway
  <1>4. ASSUME OnStartDebugging PROVE InContextGoesOn' /\ DirectHasThread'
    <2>1. Head(events).id = "break" /\ Head(events) \notin BadNotices
      BY <1>0, <1>2, <1>4, Dispatched DEF OnStartDebugging, EvInv, NoticesOk
    <2>2. Head(events) \notin MainNews
      BY <1>2, <2>1 DEF BadNotices, MainNews, Main, Moves
    <2>3. <<"attach">> \in Seq(Queries)
      BY DEF Queries
    <2>4. Holds(queue, Main) => Holds(queue', Main)
      BY <1>0, <1>4, <2>3, QueriesAdded DEF OnStartDebugging
    <2>5. UNCHANGED <<kind, dbg, terminated, exec, stack, tools>>
      BY <1>4 DEF OnStartDebugging, boundVars, flagVars, execVars
    <2> QED
      BY <1>2, <2>2, <2>4, <2>5 DEF NInv, InContextGoesOn, DirectHasThread, On
  <1>5. ASSUME Answered PROVE InContextGoesOn' /\ DirectHasThread'
    <2> DEFINE e == Head(events)
    <2>1. e.id \in Queries /\ e.rc = "ok"
      BY <1>0, <1>5, Dispatched DEF Answered
    <2>2. PICK qs \in FollowUp(e.id) : AddQueries(qs)
      BY <1>5 DEF Answered
    <2>3. \A S : Holds(queue', S) <=> Holds(queue, S) \/ Holds(qs, S)
      BY <1>0, <2>1, <2>2, FollowUpTypes, QueriesAdded
    <2>4. e.id \in Moves => tools'.step
      BY <1>5, ToolTypes DEF Answered
    <2>5. e.id \in Main \ Moves => Holds(qs, Main)
      <3>1. e.id \in Main \ Moves =>
              qs \in {<<"wait_breakpoint">>, <<"wait_breakpoint", "set_breakpoint">>,
                      <<"add_breakpoint">>, <<"wait_target">>}
        BY <2>2 DEF FollowUp, FollowUps, Main
      <3>2. \A x, y : /\ 1 \in DOMAIN <<x>> /\ <<x>>[1] = x
                      /\ 1 \in DOMAIN <<x, y>> /\ <<x, y>>[1] = x
        OBVIOUS
      <3>3. \A x, y, S : x \in S => Holds(<<x>>, S) /\ Holds(<<x, y>>, S)
        BY <3>2 DEF Holds
      <3>4. "wait_breakpoint" \in Main /\ "add_breakpoint" \in Main /\ "wait_target" \in Main
        BY DEF Main, Moves
      <3>5. Holds(<<"wait_breakpoint">>, Main)
        BY <3>3, <3>4
      <3>6. Holds(<<"wait_breakpoint", "set_breakpoint">>, Main)
        BY <3>3, <3>4
      <3>7. Holds(<<"add_breakpoint">>, Main)
        BY <3>3, <3>4
      <3>8. Holds(<<"wait_target">>, Main)
        BY <3>3, <3>4
      <3> QED
        BY <3>1, <3>5, <3>6, <3>7, <3>8
    <2>6. e.id \notin Main => tools' = tools
      BY <1>5 DEF Answered, Main
    <2>7. e \in MainNews => e.id \in Main
      BY <2>1 DEF MainNews
    <2>8. UNCHANGED <<kind, dbg, terminated, exec, stack>>
      BY <1>5 DEF Answered, boundVars, flagVars, execVars
    <2> HIDE DEF e
    <2>9. InContextGoesOn'
      <3>1. CASE e.id \in Main
        BY <2>3, <2>4, <2>5, <3>1 DEF InContextGoesOn
      <3>2. CASE e.id \notin Main
        BY <1>2, <2>3, <2>6, <2>7, <2>8, <3>2 DEF NInv, InContextGoesOn, e
      <3> QED
        BY <3>1, <3>2
    <2>10. DirectHasThread'
      BY <2>8 DEF NInv, DirectHasThread, On
    <2> QED
      BY <2>9, <2>10
  <1>6. ASSUME Failed PROVE InContextGoesOn' /\ DirectHasThread'
    <2>1. Head(events).rc \in {"user", "return", "close", "error", "fatal", "lost"}
      BY <1>2, <1>6 DEF Events, Failed
    <2>2. Under(stack', "error")
      BY <1>0, <1>2, <1>6, <2>1, CallTypes DEF Failed, Yields
    <2>3. UNCHANGED <<kind, dbg, terminated, exec>>
      BY <1>6 DEF Failed, boundVars, flagVars, execVars, dbgVars
    <2> QED
      BY <1>3, <2>2, <2>3 DEF NInv, InContextGoesOn, DirectHasThread, Busy
  <1>7. ASSUME Ignored PROVE InContextGoesOn' /\ DirectHasThread'
    BY <1>7, OverNow DEF Ignored, dbgVars
  <1>8. ASSUME TargetComplete PROVE InContextGoesOn' /\ DirectHasThread'
    BY <1>8, OverNow DEF TargetComplete
  <1> QED
    BY <1>4, <1>5, <1>6, <1>7, <1>8 DEF Handlers

LEMMA GoesOnUser ==
    ASSUME NInv, User, ~Hasty
    PROVE  InContextGoesOn' /\ DirectHasThread'
  <1>0. SInv /\ TypeOK /\ StopIsUnderWay /\ LossIsSeen
    BY CalmTypes DEF NInv
  <1>00. \A p : ~Under(<<>>, p)
    BY Nothing DEF Under
  <1>1. ASSUME Start PROVE InContextGoesOn' /\ DirectHasThread'
    <2>1. stack = <<>> /\ events = <<>> /\ CanDispatch /\ UNCHANGED terminated
      BY <1>1 DEF Start, Patient, CanInput, flagVars
    <2>2. CASE CanRestart
               /\ UNCHANGED <<conn, dbgVars, stack, brokenOff>>
      <3>1. terminated
        BY <1>0, <1>00, <2>1, <2>2, Nothing DEF LossIsSeen, CanRestart, On
      <3> QED
        BY <2>1, <3>1, OverNow
    <2>3. CASE dbg' = FALSE
      BY <2>3, OverNow
    <2>4. CASE Call("start", "user")
      <3>1. Under(stack', "start")
        BY <1>0, <2>1, <2>4, CallTypes DEF Yields
      <3> QED
        BY <3>1 DEF InContextGoesOn, DirectHasThread, Busy, On
    <2> QED
      BY <1>1, <2>2, <2>3, <2>4 DEF Start
  <1>2. \A x, y \in Queries : <<x>> \in Seq(Queries) /\ <<x, y>> \in Seq(Queries)
    OBVIOUS
  <1>3. ASSUME Step PROVE InContextGoesOn' /\ DirectHasThread'
    <2>1. UNCHANGED <<kind, dbg, terminated, exec, stack>>
      BY <1>3 DEF Step, Ask, flagVars, execVars
    <2>2. CASE Listening
      <3>1. <<"step">> \in Seq(Queries)
        BY <1>2 DEF Queries, Moves
      <3>2. Holds(<<"step">>, Main)
        <4>1. 1 \in DOMAIN <<"step">> /\ <<"step">>[1] = "step"
          OBVIOUS
        <4> QED
          BY <4>1 DEF Holds, Main, Moves
      <3>3. Holds(queue', Main)
        BY <1>0, <1>3, <2>2, <3>1, <3>2, QueriesAdded DEF Step, Ask
      <3> QED
        BY <2>1, <3>3 DEF NInv, InContextGoesOn, DirectHasThread, On
    <2>3. CASE terminated
      BY <2>1, <2>3, OverNow
    <2>4. CASE stopping
      <3>1. Busy(stack')
        BY <1>0, <2>1, <2>4 DEF StopIsUnderWay, Busy, On
      <3> QED
        BY <2>1, <3>1 DEF NInv, InContextGoesOn, DirectHasThread, On
    <2> QED
      BY <2>2, <2>3, <2>4 DEF Listening
  <1>4. ASSUME SelectFrame \/ ToggleBreakpoint \/ DepositValue
        PROVE  InContextGoesOn' /\ DirectHasThread'
    <2>1. PICK qs \in {<<"frame">>, <<"set_breakpoint", "breakpoints">>, <<"deposit">>} : Ask(qs)
      BY <1>4 DEF SelectFrame, ToggleBreakpoint, DepositValue
    <2>2. qs \in Seq(Queries)
      BY <1>2, <2>1 DEF Queries, Moves
    <2>3. Holds(queue, Main) => Holds(queue', Main)
      BY <1>0, <2>1, <2>2, QueriesAdded DEF Ask
    <2>4. UNCHANGED <<kind, dbg, terminated, exec, stack, tools, events>>
      BY <1>4 DEF SelectFrame, ToggleBreakpoint, DepositValue, Ask, flagVars, execVars
    <2> QED
      BY <2>3, <2>4 DEF NInv, InContextGoesOn, DirectHasThread, On
  <1>5. stack \in Seq(Frames) /\ (On("stop_loop") => Under(stack, "stop_loop"))
    BY <1>0 DEF TypeOK, On
  <1>6. ASSUME OnStop PROVE InContextGoesOn' /\ DirectHasThread'
    <2>1. ~On("start")
      BY <1>0, <1>6, Underway DEF OnStop
    <2> QED
      BY <1>5, <1>6, <2>1, GoesOnStop DEF OnStop, boundVars
  <1>7. ASSUME OnClose PROVE InContextGoesOn' /\ DirectHasThread'
    <2>1. ~On("start")
      BY <1>00, <1>7 DEF OnClose, On
    <2> QED
      BY <1>5, <1>7, <2>1, GoesOnStop DEF OnClose, boundVars
  <1> QED
    BY <1>1, <1>3, <1>4, <1>6, <1>7 DEF User

LEMMA MainAged ==
    ASSUME TypeOK
    PROVE  Holds(Aged, MainNews) <=> Holds(events, MainNews)
  <1>1. \A e \in Events : [e EXCEPT !.current = FALSE] \in MainNews <=> e \in MainNews
    BY DEF MainNews, Events
  <1> QED
    BY <1>1, AgedHolds

LEMMA GoesOnThreads ==
    ASSUME NInv, Threads
    PROVE  InContextGoesOn' /\ DirectHasThread'
  <1>0. TypeOK /\ events \in Seq(Events)
    BY CalmTypes DEF NInv, TypeOK
  <1>1. UNCHANGED <<kind, terminated, dbg, stack, tools>> /\ (exec # "none" => exec' # "none")
    BY DEF Threads, AnswerQuery, TargetStops, TargetEnds, ExecEnds, guiVars, dbgVars, flagVars,
           boundVars, execVars
  <1>2. DirectHasThread'
    BY <1>1 DEF NInv, DirectHasThread, On
  <1>3. ASSUME AnswerQuery PROVE InContextGoesOn'
    <2>1. /\ Head(queue) \in Queries
          /\ \A S : Holds(queue, S) <=> Head(queue) \in S \/ Holds(queue', S)
      BY <1>0, <1>3, Taken DEF AnswerQuery, TypeOK
    <2>2. PICK rc \in {"ok", "fatal", "lost"} :
             LET e == [id |-> Head(queue), rc |-> rc, current |-> TRUE] IN
                IF rc = "ok" /\ e.id \in Moves
                THEN events' = Append(Aged, e)
                ELSE events' = Append(events, e)
      BY <1>3 DEF AnswerQuery, Aged
    <2> DEFINE e == [id |-> Head(queue), rc |-> rc, current |-> TRUE]
    <2>3. e \in Events /\ (Head(queue) \in Main => e \in MainNews)
      BY <2>1 DEF Events, MainNews
    <2>4. events' \in {Append(events, e), Append(Aged, e)}
      BY <2>2
    <2> HIDE DEF e
    <2>5. /\ \A S : Holds(Append(events, e), S) <=> e \in S \/ Holds(events, S)
          /\ \A S : Holds(Append(Aged, e), S) <=> e \in S \/ Holds(Aged, S)
      BY <1>0, <2>3, AgedEvents, Appended
    <2>6. Holds(events', MainNews) <=> e \in MainNews \/ Holds(events, MainNews)
      BY <1>0, <2>4, <2>5, MainAged
    <2> QED
      BY <1>1, <2>1, <2>3, <2>6 DEF NInv, InContextGoesOn
  <1>4. ASSUME TargetStops \/ TargetEnds \/ ExecEnds PROVE InContextGoesOn'
    <2>1. /\ [id |-> "break", rc |-> "ok", current |-> TRUE] \in Events
          /\ [id |-> "complete", rc |-> "ok", current |-> TRUE] \in Events
      BY DEF Events
    <2>2. \/ events' = events
          \/ \E e \in Events : events' = Append(events, e)
      BY <1>4, <2>1 DEF TargetStops, TargetEnds, ExecEnds
    <2>3. Holds(events, MainNews) => Holds(events', MainNews)
      BY <1>0, <2>2, Appended
    <2>4. UNCHANGED queue
      BY <1>4 DEF TargetStops, TargetEnds, ExecEnds, dbgVars
    <2> QED
      BY <1>1, <2>3, <2>4 DEF NInv, InContextGoesOn
  <1> QED
    BY <1>2, <1>3, <1>4 DEF Threads

\* As long as the user waits for the handlers they have called, a session that
\* lasts has something that takes it on.
THEOREM GoingOnInvariance ==
    ASSUME ~Hasty
    PROVE  Spec => []NInv
  <1>1. Init => InContextGoesOn /\ DirectHasThread
    BY DEF Init, InContextGoesOn, DirectHasThread
  <1>2. ASSUME NInv, [Next]_vars PROVE InContextGoesOn' /\ DirectHasThread'
    <2>1. ASSUME UNCHANGED vars PROVE InContextGoesOn' /\ DirectHasThread'
      <3>1. UNCHANGED <<kind, tools, terminated, dbg, queue, exec, stack, events>>
        BY <2>1 DEF vars, boundVars, flagVars, dbgVars, execVars
      <3> QED
        BY <1>2, <3>1 DEF NInv, InContextGoesOn, DirectHasThread, On
    <2> QED
      BY <1>2, <2>1, GoesOnGUI, GoesOnHandlers, GoesOnUser, GoesOnThreads DEF Next, Closed
  <1>3. SInv /\ (InContextGoesOn /\ DirectHasThread) <=> NInv
    BY DEF NInv
  <1>4. SInv' /\ (InContextGoesOn' /\ DirectHasThread') => NInv'
    BY DEF NInv
  <1> QED
    BY <1>1, <1>2, <1>3, <1>4, SessionInvariance, PTL DEF Spec

\* While a session lasts and nothing is under way the tools are enabled, or
\* the second thread works: the user is never left without a way to go on.
THEOREM NobodyIsStranded ==
    ASSUME ~Hasty
    PROVE  Spec => []NotStranded
  <1>1. ASSUME NInv PROVE NotStranded
    <2>1. SUFFICES ASSUME Quiet, dbg, ~terminated PROVE tools.step \/ exec # "none"
      BY DEF NotStranded
    <2>2. \A p : ~Under(stack, p)
      BY <2>1, Nothing DEF Quiet, Under
    <2>3. ~Holds(queue, Main) /\ ~Holds(events, MainNews)
      BY <2>1, Nothing DEF Quiet
    <2>4. kind \in {"direct", "incontext"}
      BY <1>1, CalmTypes DEF NInv, TypeOK
    <2> QED
      BY <1>1, <2>1, <2>2, <2>3, <2>4 DEF NInv, InContextGoesOn, DirectHasThread, Busy, On
  <1> QED
    BY <1>1, GoingOnInvariance, PTL
=============================================================================
