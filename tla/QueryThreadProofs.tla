------------------------- MODULE QueryThreadProofs -------------------------
(***************************************************************************)
(* Theorems about QueryThread, for every set of queries, every bound on    *)
(* their number and every mode of the thread.                              *)
(***************************************************************************)
EXTENDS QueryThread, TLAPS, SequenceTheorems

-----------------------------------------------------------------------------
(* The inductive invariant                                                 *)

\* Execute runs on a queued query.
CurrentQueued ==
    /\ currIndex <= Len(queries) \/ pc = "deleted"
    /\ pc \in InExecute \cup {"after"} => currIndex > 0

\* PQgetCopyData has seen the item that ends the copied rows.
CopyEndSeen == pc = "copy_end" => buffered > 0 /\ stream[1] # "row"

\* ReadyForQuery is the last item of a conversation and nothing else is; a
\* backend that has sent it is idle.
Conversation ==
    /\ \A i \in 1..Len(stream) : (stream[i] = "ready") <=> (i = Len(stream))
    /\ link = "up" /\ sent = Len(stream) => backend = "idle"

\* The worker leaves the loop at the end of the conversation, or because the
\* network is gone.
LoopLeft ==
    /\ pc \in {"lost", "copy_lost"} => link = "down"
    /\ pc = "out" /\ link = "up" => stream = <<>>

IInv == TypeOK /\ CurrentQueued /\ CopyEndSeen /\ Conversation /\ LoopLeft /\ ConnReusable

-----------------------------------------------------------------------------
LEMMA SendMakesConversation ==
    ASSUME NEW s \in Seq(Item \ {"ready"})
    PROVE  /\ Append(s, "ready") \in Seq(Item)
           /\ Len(Append(s, "ready")) = Len(s) + 1
           /\ \A i \in 1..Len(Append(s, "ready")) :
                 (Append(s, "ready")[i] = "ready") <=> (i = Len(Append(s, "ready")))
  <1>1. s \in Seq(Item)
    BY DEF Item
  <1>2. \A i \in 1..Len(s) : s[i] # "ready"
    BY ElementOfSeq
  <1> QED
    BY <1>1, <1>2, AppendProperties DEF Item

LEMMA TakeKeepsConversation ==
    ASSUME NEW s \in Seq(Item), s # <<>>,
           \A i \in 1..Len(s) : (s[i] = "ready") <=> (i = Len(s))
    PROVE  /\ Tail(s) \in Seq(Item)
           /\ Len(Tail(s)) = Len(s) - 1
           /\ Head(s) = s[1]
           /\ \A i \in 1..Len(Tail(s)) : (Tail(s)[i] = "ready") <=> (i = Len(Tail(s)))
           /\ Head(s) = "ready" => Len(s) = 1
  <1> DEFINE n == Len(s)
             t == Tail(s)
  <1>1. t \in Seq(Item) /\ Len(t) = n - 1 /\ \A i \in 1..Len(t) : t[i] = s[i + 1]
    BY HeadTailProperties
  <1>2. n \in Nat /\ n > 0 /\ Head(s) = s[1]
    OBVIOUS
  <1>3. \A i \in 1..n : (s[i] = "ready") <=> (i = n)
    OBVIOUS
  <1> HIDE DEF n, t
  <1>4. \A i \in 1..(n - 1) : t[i] = s[i + 1] /\ i + 1 \in 1..n
    BY <1>1, <1>2
  <1>5. \A i \in 1..(n - 1) : (t[i] = "ready") <=> (i = n - 1)
    BY <1>2, <1>3, <1>4
  <1>6. 1 \in 1..n
    BY <1>2
  <1>7. s[1] = "ready" => n = 1
    BY <1>3, <1>6
  <1> QED
    BY <1>1, <1>2, <1>5, <1>7 DEF n, t

\* What is left of a conversation the backend gives up after n items.
Aborted(s, n) == SubSeq(s, 1, n) \o <<"error", "ready">>

LEMMA CancelKeepsConversation ==
    ASSUME NEW s \in Seq(Item), NEW n \in 0..Len(s), n < Len(s), s[n + 1] # "ready",
           \A i \in 1..Len(s) : (s[i] = "ready") <=> (i = Len(s))
    PROVE  /\ Aborted(s, n) \in Seq(Item)
           /\ Len(Aborted(s, n)) = n + 2
           /\ \A i \in 1..n : Aborted(s, n)[i] = s[i]
           /\ \A i \in 1..(n + 2) : (Aborted(s, n)[i] = "ready") <=> (i = n + 2)
  <1> DEFINE t == Aborted(s, n)
             p == SubSeq(s, 1, n)
             e == <<"error", "ready">>
  <1>1. p \in Seq(Item) /\ Len(p) = n /\ \A i \in 1..n : p[i] = s[i]
    BY SubSeqProperties
  <1>2. e \in Seq(Item) /\ Len(e) = 2 /\ e[1] = "error" /\ e[2] = "ready"
    BY DEF Item, ResultKind
  <1>3. t = p \o e
    BY DEF Aborted
  <1>4. /\ t \in Seq(Item)
        /\ Len(t) = n + 2
        /\ \A i \in 1..(n + 2) : t[i] = IF i <= n THEN p[i] ELSE e[i - n]
    <2>1. /\ p \o e \in Seq(Item)
          /\ Len(p \o e) = Len(p) + Len(e)
          /\ \A i \in 1..(Len(p) + Len(e)) :
                (p \o e)[i] = IF i <= Len(p) THEN p[i] ELSE e[i - Len(p)]
      BY <1>1, <1>2, ConcatProperties
    <2> HIDE DEF t, p, e
    <2> QED
      BY <1>1, <1>2, <1>3, <2>1
  <1> HIDE DEF t, p, e
  <1>5. n \in Nat /\ \A i \in 1..n : s[i] # "ready"
    OBVIOUS
  <1>6. ASSUME NEW i \in 1..(n + 2)
        PROVE  (t[i] = "ready") <=> (i = n + 2)
    <2>1. i \in 1..n \/ i = n + 1 \/ i = n + 2
      BY <1>5
    <2>2. CASE i \in 1..n
      BY <1>1, <1>4, <1>5, <2>2
    <2>3. CASE i = n + 1
      BY <1>2, <1>4, <1>5, <2>3
    <2>4. CASE i = n + 2
      BY <1>2, <1>4, <1>5, <2>4
    <2> QED
      BY <2>1, <2>2, <2>3, <2>4
  <1>7. \A i \in 1..n : t[i] = s[i]
    BY <1>1, <1>4, <1>5
  <1> QED
    BY <1>4, <1>6, <1>7 DEF t

-----------------------------------------------------------------------------
\* While Execute runs, its query is one of those that may be queued.
LEMMA Current ==
    ASSUME TypeOK, CurrentQueued, pc \in InExecute
    PROVE  currIndex \in Index /\ Query \in Queries
  BY MaxQueriesAssumption DEF TypeOK, CurrentQueued, InExecute, Loop, Index, Query

LEMMA RaiseTypes ==
    ASSUME TypeOK, currIndex \in Index, RaiseEvent \/ NoEvent
    PROVE  events' \in Seq(Index) /\ raised' \in [Index -> Nat]
  <1>1. Append(events, currIndex) \in Seq(Index)
    BY AppendProperties DEF TypeOK
  <1>2. [raised EXCEPT ![currIndex] = @ + 1] \in [Index -> Nat]
    BY DEF TypeOK
  <1> QED
    BY <1>1, <1>2 DEF RaiseEvent, NoEvent, TypeOK

LEMMA ReturnTypes ==
    ASSUME TypeOK, currIndex \in Index, NEW code \in ReturnCode,
           ReturnWith(code) \/ ReturnCancelled
    PROVE  /\ rc' \in [Index -> ReturnCode]
           /\ events' \in Seq(Index)
           /\ raised' \in [Index -> Nat]
           /\ pc' = "after"
  <1>1. RaiseEvent \/ NoEvent
    BY DEF ReturnWith, ReturnCancelled
  <1>2. rc' \in [Index -> ReturnCode] /\ pc' = "after"
    BY DEF ReturnWith, ReturnCancelled, SetRc, TypeOK, ReturnCode
  <1> QED
    BY <1>1, <1>2, RaiseTypes

LEMMA NewResultType ==
    ASSUME TypeOK, currIndex \in Index, NEW kind \in ResultKind
    PROVE  NewResult(kind) \in Result
  BY DEF NewResult, Result, TypeOK

-----------------------------------------------------------------------------
\* The worker outside Execute.
LEMMA EntryPreserves ==
    ASSUME IInv, StartQuery \/ NothingQueued \/ AfterExecute \/ LoopOrExit
    PROVE  IInv'
  <1> USE DEF IInv, TypeOK, ConnTypeOK, CurrentQueued, CopyEndSeen,
              Conversation, LoopLeft, ConnReusable, InExecute, Loop, Between,
              connVars, serverVars, queryVars, localVars
  <1>1. CASE StartQuery
    <2>1. rc' \in [Index -> ReturnCode]
      BY <1>1 DEF StartQuery, MarkRunning, ReturnCode
    <2>2. cancelConn' \in BOOLEAN
      BY <1>1 DEF StartQuery, SetConnCancel
    <2>3. notice' \in BOOLEAN /\ connCancelled' \in BOOLEAN
      BY <1>1 DEF StartQuery
    <2>4. currIndex' \in 0..MaxQueries /\ currIndex' <= Len(queries)
      BY <1>1, MaxQueriesAssumption DEF StartQuery
    <2> QED
      BY <1>1, <2>1, <2>2, <2>3, <2>4 DEF StartQuery
  <1>2. CASE NothingQueued
    BY <1>2 DEF NothingQueued
  <1>3. CASE AfterExecute
    <2>1. notice' \in BOOLEAN /\ cancelConn' \in BOOLEAN
      BY <1>3 DEF AfterExecute, ResetConnCancel
    <2> QED
      BY <1>3, <2>1 DEF AfterExecute
  <1>4. CASE LoopOrExit
    BY <1>4 DEF LoopOrExit
  <1> QED
    BY <1>1, <1>2, <1>3, <1>4

\* The checks before the query is sent, and the sending.
LEMMA SendPreserves ==
    ASSUME IInv, Refuse \/ SendQuery
    PROVE  IInv'
  <1> USE DEF IInv
  <1>1. pc = "execute" /\ currIndex \in Index /\ Query \in Queries
    BY Current DEF Refuse, SendQuery, InExecute
  <1>2. CASE Refuse
    <2>1. /\ rc' \in [Index -> ReturnCode]
          /\ events' \in Seq(Index)
          /\ raised' \in [Index -> Nat]
          /\ pc' = "after"
      BY <1>1, <1>2, ReturnTypes DEF Refuse, ReturnCode
    <2> QED
      BY <1>1, <1>2, <2>1
      DEF Refuse, TypeOK, ConnTypeOK, CurrentQueued, CopyEndSeen, Conversation,
          LoopLeft, ConnReusable, InExecute, Loop, Between, connVars, localVars
  <1>3. CASE SendQuery
    <2>1. Query.script \in Seq(Item \ {"ready"})
      BY <1>1, QueriesAssumption DEF Script
    <2>2. /\ stream' \in Seq(Item)
          /\ Len(stream') = Len(Query.script) + 1
          /\ \A i \in 1..Len(stream') : (stream'[i] = "ready") <=> (i = Len(stream'))
      BY <1>3, <2>1, SendMakesConversation DEF SendQuery, PQsendQuery
    <2>3. Len(Query.script) \in Nat
      BY <2>1
    <2>4. sent' = 0 /\ buffered' = 0 /\ sent' # Len(stream')
      BY <1>3, <2>2, <2>3 DEF SendQuery, PQsendQuery
    <2>5. sentCancelled' \in Nat
      BY <1>3 DEF SendQuery, TypeOK
    <2> QED
      BY <1>1, <1>3, <2>2, <2>3, <2>4, <2>5
      DEF SendQuery, PQsendQuery, TypeOK, ConnTypeOK, CurrentQueued, CopyEndSeen,
          Conversation, LoopLeft, ConnReusable, InExecute, Loop, Between,
          queryVars, localVars
  <1> QED
    BY <1>2, <1>3

LEMMA CancelTypes ==
    ASSUME TypeOK, PassCancelOn \/ UNCHANGED <<cancelConn, cancelReq, connCancelled>>
    PROVE  cancelConn' \in BOOLEAN /\ cancelReq' \in BOOLEAN /\ connCancelled' \in BOOLEAN
  BY DEF TypeOK, ConnTypeOK, PassCancelOn, CancelRequest

\* The head of the loop, and the ways out of it when the network is gone.
LEMMA PollPreserves ==
    ASSUME IInv, CheckCancelled \/ Consume \/ Lost
    PROVE  IInv'
  <1> USE DEF IInv
  <1>1. currIndex \in Index
    BY Current DEF CheckCancelled, Consume, Lost, InExecute, Loop
  <1>2. CASE CheckCancelled
    <2>1. cancelConn' \in BOOLEAN /\ cancelReq' \in BOOLEAN /\ connCancelled' \in BOOLEAN
      BY <1>2, CancelTypes DEF CheckCancelled
    <2>2. rc' \in [Index -> ReturnCode]
      BY <1>2 DEF CheckCancelled, SetRc, TypeOK, ReturnCode
    <2>3. held' \in SUBSET Result /\ lastResult' \in Result \cup {NoResult}
      BY <1>2 DEF CheckCancelled, Cleared, TypeOK
    <2> QED
      BY <1>1, <1>2, <2>1, <2>2, <2>3
      DEF CheckCancelled, TypeOK, ConnTypeOK, CurrentQueued, CopyEndSeen,
          Conversation, LoopLeft, ConnReusable, InExecute, Loop, Between
  <1>3. CASE Consume
    <2>1. rc' \in [Index -> ReturnCode]
      BY <1>3 DEF Consume, SetRc, TypeOK, ReturnCode
    <2> QED
      BY <1>1, <1>3, <2>1
      DEF Consume, PQconsumeInput, ConsumeFails, ConsumeSucceeds, TypeOK,
          ConnTypeOK, CurrentQueued, CopyEndSeen, Conversation, LoopLeft,
          ConnReusable, InExecute, Loop, Between, serverVars, localVars
  <1>4. CASE Lost
    <2>1. /\ rc' \in [Index -> ReturnCode]
          /\ events' \in Seq(Index)
          /\ raised' \in [Index -> Nat]
          /\ pc' = "after"
      BY <1>1, <1>4, ReturnTypes DEF Lost, ConnectionLost, ReturnCode
    <2>2. held' \in SUBSET Result /\ lastResult' \in Result \cup {NoResult}
      BY <1>4 DEF Lost, Cleared, TypeOK
    <2> QED
      BY <1>1, <1>4, <2>1, <2>2
      DEF Lost, TypeOK, ConnTypeOK, CurrentQueued, CopyEndSeen, Conversation,
          LoopLeft, ConnReusable, InExecute, Loop, Between, connVars
  <1> QED
    BY <1>2, <1>3, <1>4

\* Taking an item from the conversation keeps its shape.
LEMMA TakeItemKeeps ==
    ASSUME IInv, TakeItem
    PROVE  /\ stream # <<>>
           /\ Head(stream) = stream[1]
           /\ Head(stream) \in Item
           /\ stream' \in Seq(Item)
           /\ sent' \in 0..Len(stream')
           /\ buffered' \in 0..sent'
           /\ \A i \in 1..Len(stream') : (stream'[i] = "ready") <=> (i = Len(stream'))
           /\ sent' = Len(stream') => sent = Len(stream)
           /\ Head(stream) = "ready" => stream' = <<>> /\ sent = Len(stream)
  <1> DEFINE n == Len(stream)
             t == Tail(stream)
             h == Head(stream)
             m == Len(t)
  <1>1. stream \in Seq(Item) /\ stream # <<>> /\ n \in Nat /\ n > 0
    BY DEF IInv, TypeOK, ConnTypeOK, TakeItem
  <1>2. /\ t \in Seq(Item) /\ m = n - 1 /\ h = stream[1] /\ h \in Item
        /\ \A i \in 1..m : (t[i] = "ready") <=> (i = m)
        /\ h = "ready" => n = 1
    BY <1>1, TakeKeepsConversation, HeadTailProperties DEF IInv, Conversation
  <1>3. m = 0 => t = <<>>
    BY <1>2, EmptySeq
  <1>4. /\ sent \in 0..n /\ sent > 0 /\ buffered \in 0..sent
        /\ stream' = t
        /\ sent' = sent - 1
        /\ buffered' = IF buffered > 0 THEN buffered - 1 ELSE sent - 1
    BY DEF IInv, TypeOK, ConnTypeOK, TakeItem
  <1>5. Len(stream') = m
    BY <1>4
  <1> HIDE DEF n, t, h, m
  <1>6. /\ sent' \in 0..m
        /\ buffered' \in 0..sent'
        /\ sent' = m => sent = n
        /\ h = "ready" => stream' = <<>> /\ sent = n
    BY <1>1, <1>2, <1>3, <1>4
  <1>7. /\ stream' \in Seq(Item)
        /\ \A i \in 1..m : (stream'[i] = "ready") <=> (i = m)
    BY <1>2, <1>4
  <1>8. /\ \A i \in 1..Len(stream') : (stream'[i] = "ready") <=> (i = Len(stream'))
        /\ sent' \in 0..Len(stream')
        /\ sent' = Len(stream') => sent = n
    BY <1>5, <1>6, <1>7
  <1> QED
    BY <1>1, <1>2, <1>6, <1>7, <1>8 DEF n, h

LEMMA GotTypes ==
    ASSUME TypeOK, NEW r \in Result, GotResult(r)
    PROVE  held' \in SUBSET Result /\ fetched' \in Nat
  BY DEF TypeOK, GotResult

LEMMA FetchPreserves ==
    ASSUME IInv, Fetch
    PROVE  IInv'
  <1> USE DEF IInv
  <1>1. pc = "fetch" /\ currIndex \in Index
    BY Current DEF Fetch, InExecute, Loop
  <1>2. /\ Head(stream) \in Item
        /\ stream' \in Seq(Item)
        /\ sent' \in 0..Len(stream')
        /\ buffered' \in 0..sent'
        /\ \A i \in 1..Len(stream') : (stream'[i] = "ready") <=> (i = Len(stream'))
        /\ sent' = Len(stream') => sent = Len(stream)
        /\ Head(stream) = "ready" => stream' = <<>>
    BY TakeItemKeeps DEF Fetch
  <1>3. /\ rc' \in [Index -> ReturnCode]
        /\ res' \in Result \cup {NoResult}
        /\ result' \in Result \cup {NoResult}
        /\ held' \in SUBSET Result
        /\ fetched' \in Nat
    <2>1. CASE Head(stream) = "ready"
      BY <2>1 DEF Fetch, TypeOK
    <2>2. CASE Head(stream) # "ready"
      <3> DEFINE r == NewResult(Head(stream))
      <3>1. Head(stream) \in ResultKind /\ GotResult(r)
        BY <2>2 DEF Fetch, ResultKind
      <3>2. r \in Result
        BY <1>1, <3>1, NewResultType
      <3>3. res' \in {res, r} /\ result' \in {result, r}
        BY <2>2 DEF Fetch
      <3>4. rc' \in [Index -> ReturnCode]
        BY <2>2 DEF Fetch, SetRc, TypeOK, ReturnCode
      <3> HIDE DEF r
      <3> QED
        BY <3>1, <3>2, <3>3, <3>4, GotTypes DEF TypeOK
    <2> QED
      BY <2>1, <2>2
  <1>4. copyWait' \in BOOLEAN /\ UNCHANGED <<link, backend, cancelReq>>
    BY DEF Fetch, PQputCopyEnd, serverVars, TypeOK, ConnTypeOK
  <1>5. pc' \in {"out", "drain", "save", "copy"} /\ (pc' = "out" => Head(stream) = "ready")
    BY DEF Fetch
  <1>6. UNCHANGED <<status, cancelConn, queries, currIndex, set, cancelled,
                    events, notice, lastResult, retrieved, connCancelled,
                    raised, sentCancelled>>
    BY DEF Fetch
  <1> QED
    BY <1>1, <1>2, <1>3, <1>4, <1>5, <1>6
    DEF TypeOK, ConnTypeOK, CurrentQueued, CopyEndSeen, Conversation, LoopLeft,
        ConnReusable, InExecute, Loop, Between

\* The loop that follows an error.
LEMMA DrainPreserves ==
    ASSUME IInv, DrainConsume \/ DrainGet
    PROVE  IInv'
  <1> USE DEF IInv
  <1>1. currIndex \in Index
    BY Current DEF DrainConsume, DrainGet, InExecute, Loop
  <1>2. CASE DrainConsume
    <2>1. /\ rc' \in [Index -> ReturnCode]
          /\ events' \in Seq(Index)
          /\ raised' \in [Index -> Nat]
          /\ pc' \in {"drain_get", "out", "after"}
      BY <1>1, <1>2, ReturnTypes DEF DrainConsume, TypeOK, ReturnCode
    <2>2. held' \in SUBSET Result /\ result' \in Result \cup {NoResult}
      BY <1>2 DEF DrainConsume, Cleared, TypeOK
    <2>3. pc' # "drain_get" => link = "down"
      BY <1>2 DEF DrainConsume, ConsumeFails, ConsumeSucceeds, TypeOK, ConnTypeOK
    <2> QED
      BY <1>1, <1>2, <2>1, <2>2, <2>3
      DEF DrainConsume, PQconsumeInput, ConsumeFails, TypeOK, ConnTypeOK,
          CurrentQueued, CopyEndSeen, Conversation, LoopLeft, ConnReusable,
          InExecute, Loop, Between, serverVars
  <1>3. CASE DrainGet
    <2>1. CASE TakeItem /\ UNCHANGED <<status, cancelConn, serverVars>>
                        /\ pc' = IF Head(stream) = "ready" THEN "out" ELSE "drain"
      <3>1. /\ stream' \in Seq(Item)
            /\ sent' \in 0..Len(stream')
            /\ buffered' \in 0..sent'
            /\ \A i \in 1..Len(stream') : (stream'[i] = "ready") <=> (i = Len(stream'))
            /\ sent' = Len(stream') => sent = Len(stream)
            /\ pc' \in {"out", "drain"}
            /\ pc' = "out" => stream' = <<>>
        BY <2>1, TakeItemKeeps
      <3>2. UNCHANGED <<status, cancelConn, serverVars, queryVars, cancelled,
                        events, notice, localVars, fetched, held, raised,
                        sentCancelled>>
        BY <1>3, <2>1 DEF DrainGet
      <3>3. pc = "drain_get"
        BY <1>3 DEF DrainGet
      <3> QED
        BY <1>1, <3>1, <3>2, <3>3
        DEF TypeOK, ConnTypeOK, CurrentQueued, CopyEndSeen, Conversation,
            LoopLeft, ConnReusable, InExecute, Loop, Between, serverVars,
          queryVars, localVars
    <2>2. CASE ReadDead /\ pc' = "drain"
      BY <1>1, <1>3, <2>2
      DEF DrainGet, ReadDead, TypeOK, ConnTypeOK, CurrentQueued, CopyEndSeen,
          Conversation, LoopLeft, ConnReusable, InExecute, Loop, Between,
          serverVars, queryVars, localVars
    <2> QED
      BY <1>3, <2>1, <2>2 DEF DrainGet
  <1> QED
    BY <1>2, <1>3

\* The loop over copied rows.
LEMMA CopyPreserves ==
    ASSUME IInv, CopyPoll \/ CopyConsume \/ CopyLost
    PROVE  IInv'
  <1> USE DEF IInv
  <1>1. currIndex \in Index
    BY Current DEF CopyPoll, CopyConsume, CopyLost, InExecute, Loop
  <1>2. CASE CopyPoll
    <2>1. CASE buffered > 0 /\ Head(stream) # "row"
      <3>1. stream \in Seq(Item) /\ stream # <<>>
        BY <2>1 DEF TypeOK, ConnTypeOK
      <3>2. stream[1] # "row"
        BY <2>1, <3>1
      <3> QED
        BY <1>1, <1>2, <2>1, <3>2
        DEF CopyPoll, TypeOK, ConnTypeOK, CurrentQueued, CopyEndSeen,
            Conversation, LoopLeft, ConnReusable, InExecute, Loop, Between,
            connVars, queryVars
    <2>2. CASE ~(buffered > 0 /\ Head(stream) # "row")
      <3>1. cancelConn' \in BOOLEAN /\ cancelReq' \in BOOLEAN /\ connCancelled' \in BOOLEAN
        BY <1>2, <2>2, CancelTypes DEF CopyPoll
      <3>2. TakeItem \/ UNCHANGED <<stream, sent, buffered>>
        BY <1>2, <2>2 DEF CopyPoll
      <3>3. /\ stream' \in Seq(Item)
            /\ sent' \in 0..Len(stream')
            /\ buffered' \in 0..sent'
            /\ \A i \in 1..Len(stream') : (stream'[i] = "ready") <=> (i = Len(stream'))
            /\ sent' = Len(stream') => sent = Len(stream)
        BY <3>2, TakeItemKeeps DEF TypeOK, ConnTypeOK, Conversation
      <3>4. pc' \in {"copy", "copy_consume"} /\ pc = "copy"
        BY <1>2, <2>2 DEF CopyPoll
      <3>5. UNCHANGED <<status, link, backend, copyWait, queryVars, cancelled,
                        events, notice, res, result, lastResult, retrieved,
                        fetched, held, raised, sentCancelled>>
        BY <1>2, <2>2 DEF CopyPoll
      <3> QED
        BY <1>1, <3>1, <3>3, <3>4, <3>5
        DEF TypeOK, ConnTypeOK, CurrentQueued, CopyEndSeen, Conversation,
            LoopLeft, ConnReusable, InExecute, Loop, Between, queryVars
    <2> QED
      BY <2>1, <2>2
  <1>3. CASE CopyConsume
    BY <1>1, <1>3
    DEF CopyConsume, PQconsumeInput, ConsumeFails, ConsumeSucceeds, TypeOK,
        ConnTypeOK, CurrentQueued, CopyEndSeen, Conversation, LoopLeft,
        ConnReusable, InExecute, Loop, Between, serverVars, queryVars, localVars
  <1>4. CASE CopyLost
    <2>1. /\ rc' \in [Index -> ReturnCode]
          /\ events' \in Seq(Index)
          /\ raised' \in [Index -> Nat]
          /\ pc' = "after"
      BY <1>1, <1>4, ReturnTypes DEF CopyLost, ConnectionLost, ReturnCode
    <2>2. held' \in SUBSET Result /\ result' \in Result \cup {NoResult}
      BY <1>4 DEF CopyLost, Cleared, TypeOK
    <2> QED
      BY <1>1, <1>4, <2>1, <2>2
      DEF CopyLost, TypeOK, ConnTypeOK, CurrentQueued, CopyEndSeen, Conversation,
          LoopLeft, ConnReusable, InExecute, Loop, Between, connVars
  <1> QED
    BY <1>2, <1>3, <1>4

LEMMA CopyEndPreserves ==
    ASSUME IInv, CopyEnd
    PROVE  IInv'
  <1> USE DEF IInv
  <1>1. pc = "copy_end" /\ currIndex \in Index
    BY Current DEF CopyEnd, InExecute, Loop
  <1>2. CASE TakeItem
    <2>1. /\ Head(stream) \in Item
          /\ Head(stream) # "row"
          /\ stream' \in Seq(Item)
          /\ sent' \in 0..Len(stream')
          /\ buffered' \in 0..sent'
          /\ \A i \in 1..Len(stream') : (stream'[i] = "ready") <=> (i = Len(stream'))
          /\ sent' = Len(stream') => sent = Len(stream)
          /\ Head(stream) = "ready" => stream' = <<>>
      BY <1>1, <1>2, TakeItemKeeps DEF CopyEndSeen
    <2>2. sent > 0
      BY <1>2 DEF TakeItem
    <2>3. /\ res' \in Result \cup {NoResult}
          /\ held' \in SUBSET Result
          /\ fetched' \in Nat
          /\ pc' \in {"out", "save"}
          /\ pc' = "out" => Head(stream) = "ready"
      <3>1. CASE Head(stream) = "ready"
        BY <2>2, <3>1 DEF CopyEnd, ReadDead, TypeOK
      <3>2. CASE Head(stream) # "ready"
        <4>1. Head(stream) \in ResultKind
          BY <2>1, <3>2 DEF Item
        <4>2. res' = NewResult(Head(stream)) /\ GotResult(res') /\ pc' = "save"
          BY <2>2, <3>2 DEF CopyEnd, ReadDead
        <4>3. res' \in Result
          BY <1>1, <4>1, <4>2, NewResultType
        <4> QED
          BY <4>2, <4>3, GotTypes
      <3> QED
        BY <3>1, <3>2
    <2>4. UNCHANGED <<status, cancelConn, serverVars, queryVars, cancelled,
                      events, notice, result, lastResult, retrieved,
                      connCancelled, raised, sentCancelled>>
      BY <2>2 DEF CopyEnd, ReadDead
    <2> QED
      BY <1>1, <2>1, <2>3, <2>4
      DEF TypeOK, ConnTypeOK, CurrentQueued, CopyEndSeen, Conversation, LoopLeft,
          ConnReusable, InExecute, Loop, Between, serverVars, queryVars
  <1>3. CASE ReadDead
    <2>1. res' = NewResult("error") /\ GotResult(res') /\ pc' = "save"
      BY <1>3 DEF CopyEnd, ReadDead, TakeItem
    <2>2. res' \in Result
      BY <1>1, <2>1, NewResultType DEF ResultKind
    <2>3. held' \in SUBSET Result /\ fetched' \in Nat
      BY <2>1, <2>2, GotTypes
    <2> QED
      BY <1>1, <1>3, <2>1, <2>2, <2>3
      DEF CopyEnd, ReadDead, TypeOK, ConnTypeOK, CurrentQueued, CopyEndSeen,
          Conversation, LoopLeft, ConnReusable, InExecute, Loop, Between,
          serverVars, queryVars
  <1> QED
    BY <1>2, <1>3 DEF CopyEnd

\* What becomes of the results.
LEMMA ResultPreserves ==
    ASSUME IInv, SaveResult \/ OutOfLoop
    PROVE  IInv'
  <1> USE DEF IInv
  <1>1. currIndex \in Index
    BY Current DEF SaveResult, OutOfLoop, InExecute, Loop
  <1>2. CASE SaveResult
    <2>1. held' \in SUBSET Result
      BY <1>2 DEF SaveResult, Cleared, TypeOK
    <2> QED
      BY <1>1, <1>2, <2>1
      DEF SaveResult, TypeOK, ConnTypeOK, CurrentQueued, CopyEndSeen,
          Conversation, LoopLeft, ConnReusable, InExecute, Loop, Between,
          connVars, queryVars
  <1>3. CASE OutOfLoop
    <2>1. Outcome \in Result \cup {NoResult}
      BY DEF Outcome, TypeOK
    <2>2. (IF Outcome = NoResult THEN "error" ELSE Outcome.kind) \in ReturnCode
      BY <2>1 DEF Result, ResultKind, ReturnCode
    <2>3. ReturnCancelled \/ ReturnWith(IF Outcome = NoResult THEN "error" ELSE Outcome.kind)
      BY <1>3 DEF OutOfLoop
    <2> HIDE DEF IInv
    <2>4. /\ rc' \in [Index -> ReturnCode]
          /\ events' \in Seq(Index)
          /\ raised' \in [Index -> Nat]
          /\ pc' = "after"
      BY <1>1, <2>2, <2>3, ReturnTypes DEF IInv
    <2>5. result' \in Result \cup {NoResult}
      BY <1>3, <2>1 DEF OutOfLoop
    <2>6. set' \in [Index -> Result \cup {NoResult}]
      BY <1>1, <1>3, <2>1 DEF OutOfLoop, IInv, TypeOK
    <2>7. held' \in SUBSET Result
      BY <1>3 DEF OutOfLoop, Cleared, IInv, TypeOK
    <2> QED
      BY <1>1, <1>3, <2>4, <2>5, <2>6, <2>7
      DEF IInv, OutOfLoop, TypeOK, ConnTypeOK, CurrentQueued, CopyEndSeen,
          Conversation, LoopLeft, ConnReusable, InExecute, Loop, Between, connVars
  <1> QED
    BY <1>2, <1>3

-----------------------------------------------------------------------------
\* The owner's calls.
LEMMA OwnerPreserves ==
    ASSUME IInv, Owner
    PROVE  IInv'
  <1> USE DEF IInv
  <1>1. CASE AddQuery
    <2>1. PICK q \in Queries : queries' = Append(queries, q)
      BY <1>1 DEF AddQuery
    <2>2. /\ queries' \in Seq(Queries)
          /\ Len(queries') = Len(queries) + 1
          /\ Len(queries) \in Nat
      BY <2>1, AppendProperties DEF TypeOK
    <2>3. Len(queries') <= MaxQueries /\ (currIndex <= Len(queries') \/ pc = "deleted")
      BY <1>1, <2>2, MaxQueriesAssumption DEF AddQuery, TypeOK, CurrentQueued
    <2> QED
      BY <1>1, <2>2, <2>3
      DEF AddQuery, TypeOK, ConnTypeOK, CurrentQueued, CopyEndSeen, Conversation,
          LoopLeft, ConnReusable, connVars, localVars
  <1>2. CASE CancelExecution
    BY <1>2
    DEF CancelExecution, TypeOK, ConnTypeOK, CurrentQueued, CopyEndSeen,
        Conversation, LoopLeft, ConnReusable, connVars, queryVars, localVars
  <1>3. CASE HandleEvent
    <2>1. Head(events) \in Index /\ events' \in Seq(Index)
      BY <1>3, HeadTailProperties DEF HandleEvent, TypeOK
    <2>2. set' \in [Index -> Result \cup {NoResult}]
      BY <1>3, <2>1 DEF HandleEvent, TypeOK
    <2> QED
      BY <1>3, <2>1, <2>2
      DEF HandleEvent, TypeOK, ConnTypeOK, CurrentQueued, CopyEndSeen,
          Conversation, LoopLeft, ConnReusable, connVars, localVars
  <1>4. CASE Destroy
    <2>1. /\ queries' \in Seq(Queries)
          /\ Len(queries') <= MaxQueries
          /\ pc' = "deleted"
      BY <1>4, MaxQueriesAssumption DEF Destroy
    <2>2. set' \in [Index -> Result \cup {NoResult}] /\ notice' \in BOOLEAN
      BY <1>4 DEF Destroy
    <2> QED
      BY <1>4, <2>1, <2>2
      DEF Destroy, TypeOK, ConnTypeOK, CurrentQueued, CopyEndSeen, Conversation,
          LoopLeft, ConnReusable, InExecute, Loop, Between, connVars, localVars
  <1> QED
    BY <1>1, <1>2, <1>3, <1>4 DEF Owner

\* The backend and the network.
LEMMA SessionPreserves ==
    ASSUME IInv, Session
    PROVE  IInv'
  <1> USE DEF IInv
  <1>1. UNCHANGED <<queries, currIndex, rc, set, cancelled, events, notice, pc,
                    localVars, fetched, held, raised, sentCancelled>>
    BY DEF Session, InSession
  <1>2. CASE ServerStart
    <2>1. cancelReq' \in BOOLEAN /\ backend' = "busy" /\ backend = "sent"
      BY <1>2 DEF ServerStart
    <2> QED
      BY <1>1, <1>2, <2>1
      DEF ServerStart, TypeOK, ConnTypeOK, CurrentQueued, CopyEndSeen,
          Conversation, LoopLeft, ConnReusable, localVars
  <1>3. CASE ServerSend
    <2>1. /\ sent < Len(stream) /\ sent' = sent + 1 /\ stream' = stream
          /\ Len(stream) \in Nat /\ sent \in Nat /\ link = "up"
      BY <1>3 DEF ServerSend, TypeOK, ConnTypeOK
    <2>2. copyWait' \in BOOLEAN /\ cancelReq' \in BOOLEAN
      BY <1>3 DEF ServerSend, TypeOK, ConnTypeOK
    <2>3. backend' \in {"idle", "busy"} /\ backend = "busy"
      BY <1>3 DEF ServerSend
    <2>4. sent' = Len(stream) => backend' = "idle"
      <3>1. HAVE sent' = Len(stream)
      <3>2. sent + 1 \in 1..Len(stream) /\ sent + 1 = Len(stream)
        BY <2>1, <3>1
      <3>3. stream[sent + 1] = "ready"
        BY <3>2 DEF Conversation
      <3> QED
        BY <1>3, <3>3 DEF ServerSend
    <2>5. UNCHANGED <<status, link, buffered, cancelConn>>
      BY <1>3 DEF ServerSend
    <2> QED
      BY <1>1, <2>1, <2>2, <2>3, <2>4, <2>5
      DEF TypeOK, ConnTypeOK, CurrentQueued, CopyEndSeen, Conversation, LoopLeft,
          ConnReusable, localVars
  <1>4. CASE ServerCancel
    <2>1. /\ stream' \in Seq(Item)
          /\ Len(stream') = sent + 2
          /\ \A i \in 1..sent : stream'[i] = stream[i]
          /\ \A i \in 1..Len(stream') : (stream'[i] = "ready") <=> (i = Len(stream'))
      <3>1. stream \in Seq(Item) /\ sent \in 0..Len(stream)
        BY DEF TypeOK, ConnTypeOK
      <3>2. sent < Len(stream) /\ stream[sent + 1] # "ready"
        BY <1>4 DEF ServerCancel
      <3>3. stream' = Aborted(stream, sent)
        BY <1>4 DEF ServerCancel, Aborted
      <3>4. \A i \in 1..Len(stream) : (stream[i] = "ready") <=> (i = Len(stream))
        BY DEF Conversation
      <3> HIDE DEF IInv
      <3> QED
        BY <3>1, <3>2, <3>3, <3>4, CancelKeepsConversation
    <2>2. /\ sent \in Nat /\ buffered \in 0..sent /\ sent' = sent
          /\ buffered' = buffered /\ backend' = "busy" /\ backend = "busy"
      BY <1>4 DEF ServerCancel, TypeOK, ConnTypeOK
    <2>3. sent' \in 0..Len(stream') /\ sent' # Len(stream')
      BY <2>1, <2>2
    <2>4. pc = "copy_end" => stream'[1] # "row"
      BY <2>1, <2>2 DEF CopyEndSeen
    <2>5. pc = "out" /\ link = "up" => FALSE
      BY <2>2 DEF LoopLeft, Conversation, TypeOK, ConnTypeOK
    <2>6. link = "up" /\ copyWait' \in BOOLEAN /\ cancelReq' \in BOOLEAN
          /\ UNCHANGED <<status, link, cancelConn>>
      BY <1>4 DEF ServerCancel
    <2> QED
      BY <1>1, <2>1, <2>2, <2>3, <2>4, <2>5, <2>6
      DEF TypeOK, ConnTypeOK, CurrentQueued, CopyEndSeen, Conversation, LoopLeft,
          ConnReusable, localVars
  <1>5. CASE NetDrop
    <2>1. sent' \in buffered..sent
      BY <1>5 DEF NetDrop
    <2>2. sent' \in 0..Len(stream) /\ buffered \in 0..sent'
      BY <2>1 DEF TypeOK, ConnTypeOK
    <2>3. copyWait' \in BOOLEAN /\ cancelReq' \in BOOLEAN
      BY <1>5 DEF NetDrop
    <2> QED
      BY <1>1, <1>5, <2>2, <2>3
      DEF NetDrop, TypeOK, ConnTypeOK, CurrentQueued, CopyEndSeen, Conversation,
          LoopLeft, ConnReusable, localVars
  <1> QED
    BY <1>2, <1>3, <1>4, <1>5 DEF Session, InSession, Environment

-----------------------------------------------------------------------------
LEMMA InitIInv == Init => IInv
  <1> SUFFICES ASSUME Init PROVE IInv
    OBVIOUS
  <1>1. queries \in Seq(Queries) /\ Len(queries) \in 0..1
    <2>1. CASE queries = <<>>
      BY <2>1
    <2>2. CASE \E q \in Queries : queries = <<q>>
      BY <2>2
    <2> QED
      BY <2>1, <2>2 DEF Init
  <1>2. ConnTypeOK /\ stream = <<>> /\ backend = "idle"
    <2>1. copyWait \in BOOLEAN /\ cancelReq \in BOOLEAN /\ cancelConn \in BOOLEAN
      BY DEF Init, ConnInit
    <2> QED
      BY <2>1 DEF Init, ConnInit, ConnTypeOK
  <1>3. TypeOK
    <2>1. cancelled \in BOOLEAN /\ notice \in BOOLEAN /\ connCancelled \in BOOLEAN
      BY DEF Init
    <2>2. rc \in [Index -> ReturnCode] /\ set \in [Index -> Result \cup {NoResult}]
          /\ raised \in [Index -> Nat]
      BY DEF Init, ReturnCode
    <2>3. Len(queries) <= MaxQueries /\ currIndex \in 0..MaxQueries
      <3>1. currIndex = 0
        BY DEF Init
      <3>2. MaxQueries \in Nat /\ MaxQueries >= 1
        BY MaxQueriesAssumption
      <3>3. \A n \in 0..1 : n <= MaxQueries
        BY <3>2
      <3> QED
        BY <1>1, <3>1, <3>2, <3>3
    <2>4. events \in Seq(Index) /\ held \in SUBSET Result
      BY DEF Init
    <2>5. /\ res = NoResult /\ result = NoResult /\ lastResult = NoResult
          /\ retrieved \in Nat /\ fetched \in Nat /\ sentCancelled \in Nat
          /\ pc \in Between
      BY DEF Init, Between
    <2> QED
      BY <1>1, <1>2, <2>1, <2>2, <2>3, <2>4, <2>5 DEF TypeOK
  <1> QED
    BY <1>1, <1>2, <1>3
    DEF Init, IInv, CurrentQueued, CopyEndSeen, Conversation, LoopLeft,
        ConnReusable, InExecute, Loop

LEMMA NextIInv == IInv /\ [Next]_vars => IInv'
  <1> SUFFICES ASSUME IInv, [Next]_vars PROVE IInv'
    OBVIOUS
  <1>1. CASE Worker
    BY <1>1, EntryPreserves, SendPreserves, PollPreserves, FetchPreserves,
       DrainPreserves, CopyPreserves, CopyEndPreserves, ResultPreserves
    DEF Worker
  <1>2. CASE Owner
    BY <1>2, OwnerPreserves
  <1>3. CASE Session
    BY <1>3, SessionPreserves
  <1>4. CASE UNCHANGED vars
    BY <1>4
    DEF vars, connVars, localVars, IInv, TypeOK, ConnTypeOK, CurrentQueued,
        CopyEndSeen, Conversation, LoopLeft, ConnReusable
  <1> QED
    BY <1>1, <1>2, <1>3, <1>4 DEF Next

THEOREM Invariance == Spec => []IInv
  BY InitIInv, NextIInv, PTL DEF Spec

\* Every variable keeps its type; in particular Execute never indexes
\* m_queries outside its bounds.
THEOREM TypeCorrect == Spec => []TypeOK
  <1>1. IInv => TypeOK
    BY DEF IInv
  <1> QED
    BY <1>1, Invariance, PTL

\* However Execute is left, a session that is still up can take the next
\* command: the promise of the comment at the head of its loop.
THEOREM ConnectionStaysUsable == Spec => []ConnReusable
  <1>1. IInv => ConnReusable
    BY DEF IInv
  <1> QED
    BY <1>1, Invariance, PTL
=============================================================================
