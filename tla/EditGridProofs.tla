--------------------------- MODULE EditGridProofs ---------------------------
(***************************************************************************)
(* Proofs about EditGrid, for any set of keys, any number of rows added,   *)
(* and a careful or a careless user.                                       *)
(*                                                                         *)
(* OneAsterisk and DatasetWhileNeeded are about what is on display; they   *)
(* follow from what the counters of a sqlTable say of its lines.  Shape    *)
(* says which lines the rows have, Added that of the lines added those in  *)
(* front of the last are stored, and Caching that rowsCached counts the    *)
(* lines that were read.  Each function of sqlTable preserves the three.   *)
(*                                                                         *)
(* RowsAreTheTable is about the database as well.  Mapped says that no two *)
(* rows share a line, Own that the rows stand for those of the database;   *)
(* each function of sqlTable keeps both if the user does not stray.        *)
(***************************************************************************)
EXTENDS EditGrid, TLAPS, SequenceTheorems, FiniteSetTheorems, WellFoundedInduction

Cached(t) == {i \in DOMAIN t.data : t.data[i].filled}

\* Every row in front of the added ones has a line of the result.
Shape(t) ==
    /\ Len(t.lineIndex) = Len(t.data)
    /\ t.rowsDeleted <= Len(t.data)
    /\ \A row \in 1..DataRows(t) : t.lineIndex[row] \in DOMAIN t.data

\* All lines added but the last are stored; none behind them is.
Added(t) ==
    /\ t.rowsAdded \in 1..MaxAdded
    /\ t.rowsAdded = t.rowsStored + 1
    /\ \A i \in Pool : t.addPool[i].filled /\ (t.addPool[i].stored <=> i < t.rowsAdded)

\* rowsCached counts the lines that were read, and the thread is there until
\* it has counted them all.
Caching(t) ==
    /\ t.rowsCached = Cardinality(Cached(t))
    /\ t.thread <=> t.data = <<>> \/ t.rowsCached # Len(t.data)
    /\ \A i \in DOMAIN t.data : t.data[i].stored <=> t.data[i].filled

Sane(t) == t \in Tables /\ Shape(t) /\ Added(t) /\ Caching(t)

LEMMA SaneFacts ==
    ASSUME NEW t, Sane(t)
    PROVE  /\ Len(t.data) \in Nat /\ DOMAIN t.data = 1..Len(t.data)
           /\ Len(t.lineIndex) = Len(t.data) /\ DOMAIN t.lineIndex = 1..Len(t.data)
           /\ DataRows(t) \in 0..Len(t.data)
           /\ NumberRows(t) \in Nat \ {0} /\ DataRows(t) < NumberRows(t)
           /\ Rows(t) = 1..NumberRows(t)
           /\ \A row \in 1..DataRows(t) : t.lineIndex[row] \in DOMAIN t.data
           /\ \A row \in Rows(t) : row > DataRows(t) => row - DataRows(t) \in Pool
           /\ \A i \in DOMAIN t.data : t.data[i] \in Line
           /\ \A i \in Pool : t.addPool[i] \in Line
           /\ \A row \in Rows(t) : GetLine(t, row) \in Line
  <1>1. t \in Tables /\ Shape(t) /\ Added(t)
    BY DEF Sane
  <1>2. /\ t.data \in Seq(Line) /\ t.lineIndex \in Seq(Nat) /\ t.rowsDeleted \in Nat
        /\ t.addPool \in [Pool -> Line]
    BY <1>1 DEF Tables
  <1>3. Len(t.data) \in Nat /\ DOMAIN t.data = 1..Len(t.data)
    BY <1>2
  <1>4. Len(t.lineIndex) = Len(t.data) /\ DOMAIN t.lineIndex = 1..Len(t.data)
    BY <1>1, <1>2 DEF Shape
  <1>5. DataRows(t) \in 0..Len(t.data)
    BY <1>1, <1>2, <1>3 DEF Shape, DataRows
  <1>6. t.rowsAdded \in 1..MaxAdded /\ MaxAdded \in Nat
    BY <1>1, BoundsAssumption DEF Added
  <1>7. NumberRows(t) \in Nat \ {0} /\ DataRows(t) < NumberRows(t)
    BY <1>5, <1>6 DEF NumberRows
  <1>8. \A row \in 1..DataRows(t) : t.lineIndex[row] \in DOMAIN t.data
    BY <1>1 DEF Shape
  <1>9. \A row \in Rows(t) : row > DataRows(t) => row - DataRows(t) \in Pool
    BY <1>5, <1>6, <1>7 DEF Rows, NumberRows, Pool
  <1>10. \A i \in DOMAIN t.data : t.data[i] \in Line
    BY <1>2, <1>3, ElementOfSeq
  <1>11. \A i \in Pool : t.addPool[i] \in Line
    BY <1>2
  <1>12. \A row \in Rows(t) : GetLine(t, row) \in Line
    BY <1>5, <1>7, <1>8, <1>9, <1>10, <1>11 DEF GetLine, Rows
  <1> QED
    BY <1>3, <1>4, <1>5, <1>7, <1>8, <1>9, <1>10, <1>11, <1>12 DEF Rows

\* A row's line is written and says as much of itself as before.
LEMMA PutSane ==
    ASSUME NEW t, Sane(t), NEW row \in Rows(t), NEW line \in Line,
           line.filled = GetLine(t, row).filled, line.stored = GetLine(t, row).stored
    PROVE  /\ Sane(PutLine(t, row, line))
           /\ NumberRows(PutLine(t, row, line)) = NumberRows(t)
           /\ DataRows(PutLine(t, row, line)) = DataRows(t)
           /\ PutLine(t, row, line).lastRow = t.lastRow
  <1> DEFINE u == PutLine(t, row, line)
             i == t.lineIndex[row]
             j == row - DataRows(t)
  <1>1. /\ t \in Tables /\ Shape(t) /\ Added(t) /\ Caching(t)
        /\ DataRows(t) \in Nat /\ Rows(t) = 1..NumberRows(t) /\ NumberRows(t) \in Nat
        /\ Len(t.data) \in Nat
    BY SaneFacts DEF Sane
  <1>2. CASE row <= DataRows(t)
    <2>1. row \in 1..DataRows(t) /\ i \in DOMAIN t.data /\ i \in 1..Len(t.data)
      BY <1>1, <1>2, SaneFacts
    <2>2. u = [t EXCEPT !.data = [t.data EXCEPT ![i] = line]]
      BY <1>2 DEF PutLine
    <2>3. t.data \in Seq(Line)
      BY <1>1 DEF Tables
    <2> DEFINE d == [t.data EXCEPT ![i] = line]
    <2>4. /\ d \in Seq(Line) /\ Len(d) = Len(t.data) /\ DOMAIN d = DOMAIN t.data
          /\ \A k \in DOMAIN t.data : d[k] = IF k = i THEN line ELSE t.data[k]
      BY <2>1, <2>3, ExceptSeq
    <2> HIDE DEF d
    <2>5. GetLine(t, row) = t.data[i]
      BY <1>2 DEF GetLine
    <2>6. \A k \in DOMAIN t.data : d[k].filled = t.data[k].filled /\ d[k].stored = t.data[k].stored
      BY <2>4, <2>5
    <2>7. u \in Tables
      BY <1>1, <2>2, <2>4 DEF Tables, d
    <2>8. /\ u.data = d /\ u.lineIndex = t.lineIndex /\ u.rowsDeleted = t.rowsDeleted
          /\ u.rowsCached = t.rowsCached /\ u.thread = t.thread /\ u.addPool = t.addPool
          /\ u.rowsAdded = t.rowsAdded /\ u.rowsStored = t.rowsStored /\ u.lastRow = t.lastRow
      BY <1>1, <2>2 DEF Tables, d
    <2> HIDE DEF u
    <2>9. DataRows(u) = DataRows(t) /\ NumberRows(u) = NumberRows(t)
      BY <2>4, <2>8 DEF DataRows, NumberRows
    <2>10. Shape(u)
      BY <1>1, <2>4, <2>8, <2>9 DEF Shape
    <2>11. Added(u)
      BY <1>1, <2>8 DEF Added
    <2>12. Cached(u) = Cached(t)
      BY <2>4, <2>6, <2>8 DEF Cached
    <2>13. (d = <<>>) <=> (t.data = <<>>)
      BY <2>3, <2>4, EmptySeq
    <2>14. Caching(u)
      BY <1>1, <2>4, <2>6, <2>8, <2>12, <2>13 DEF Caching
    <2> QED
      BY <2>7, <2>8, <2>9, <2>10, <2>11, <2>14 DEF Sane, u
  <1>3. CASE ~(row <= DataRows(t))
    <2>1. j \in Pool
      BY <1>1, <1>3, SaneFacts
    <2>2. u = [t EXCEPT !.addPool = [t.addPool EXCEPT ![j] = line]]
      BY <1>3 DEF PutLine
    <2> DEFINE p == [t.addPool EXCEPT ![j] = line]
    <2>3. /\ p \in [Pool -> Line]
          /\ \A k \in Pool : p[k] = IF k = j THEN line ELSE t.addPool[k]
      BY <1>1, <2>1 DEF Tables
    <2> HIDE DEF p
    <2>4. GetLine(t, row) = t.addPool[j]
      BY <1>3 DEF GetLine
    <2>5. \A k \in Pool : p[k].filled = t.addPool[k].filled /\ p[k].stored = t.addPool[k].stored
      BY <2>3, <2>4
    <2>6. u \in Tables
      BY <1>1, <2>2, <2>3 DEF Tables, p
    <2>7. /\ u.data = t.data /\ u.lineIndex = t.lineIndex /\ u.rowsDeleted = t.rowsDeleted
          /\ u.rowsCached = t.rowsCached /\ u.thread = t.thread /\ u.addPool = p
          /\ u.rowsAdded = t.rowsAdded /\ u.rowsStored = t.rowsStored /\ u.lastRow = t.lastRow
      BY <1>1, <2>2 DEF Tables, p
    <2> HIDE DEF u, j
    <2>8. DataRows(u) = DataRows(t) /\ NumberRows(u) = NumberRows(t)
      BY <2>7 DEF DataRows, NumberRows
    <2>9. Shape(u)
      BY <1>1, <2>7, <2>8 DEF Shape
    <2>10. Added(u)
      BY <1>1, <2>5, <2>7 DEF Added
    <2>11. Caching(u)
      BY <1>1, <2>7 DEF Caching, Cached
    <2> QED
      BY <2>6, <2>7, <2>8, <2>9, <2>10, <2>11 DEF Sane, u
  <1> QED
    BY <1>2, <1>3

\* The count of the lines that were read says whether there are others.
LEMMA Unread ==
    ASSUME NEW t, Sane(t)
    PROVE  /\ IsFiniteSet(Cached(t)) /\ Cardinality(Cached(t)) \in Nat
           /\ t.thread <=> t.data = <<>> \/ (\E i \in DOMAIN t.data : ~t.data[i].filled)
  <1>1. Len(t.data) \in Nat /\ DOMAIN t.data = 1..Len(t.data) /\ Caching(t)
    BY SaneFacts DEF Sane
  <1>2. IsFiniteSet(DOMAIN t.data) /\ Cardinality(DOMAIN t.data) = Len(t.data)
    BY <1>1, FS_Interval
  <1>3. Cached(t) \in SUBSET (DOMAIN t.data)
    BY DEF Cached
  <1>4. /\ IsFiniteSet(Cached(t))
        /\ Cardinality(DOMAIN t.data) = Cardinality(Cached(t)) => DOMAIN t.data = Cached(t)
    BY <1>2, <1>3, FS_Subset
  <1>5. Cardinality(Cached(t)) = Len(t.data) <=> DOMAIN t.data = Cached(t)
    BY <1>2, <1>4
  <1>6. DOMAIN t.data = Cached(t) <=> \A i \in DOMAIN t.data : t.data[i].filled
    BY DEF Cached
  <1>7. Cardinality(Cached(t)) \in Nat
    BY <1>4, FS_CardinalityType
  <1> QED
    BY <1>1, <1>4, <1>5, <1>6, <1>7 DEF Caching

\* Reading a line counts it once, and takes the thread away behind the last.
LEMMA FillSane ==
    ASSUME NEW t, Sane(t), NEW row \in Rows(t)
    PROVE  /\ Sane(Fill(t, row))
           /\ NumberRows(Fill(t, row)) = NumberRows(t)
           /\ DataRows(Fill(t, row)) = DataRows(t)
           /\ Fill(t, row).lastRow = t.lastRow
           /\ GetLine(Fill(t, row), row).filled
  <1> DEFINE i == t.lineIndex[row]
             line == GetLine(t, row)
             full == [line EXCEPT !.filled = TRUE, !.stored = TRUE]
             n == t.rowsCached + 1
             u == Fill(t, row)
  <1>1. CASE line.filled
    BY <1>1 DEF Fill
  <1>2. CASE ~line.filled
    <2>1. /\ t \in Tables /\ Shape(t) /\ Added(t) /\ Caching(t)
          /\ DataRows(t) \in Nat /\ Rows(t) = 1..NumberRows(t) /\ NumberRows(t) \in Nat
          /\ Len(t.data) \in Nat /\ DOMAIN t.data = 1..Len(t.data)
      BY SaneFacts DEF Sane
    <2>2. row <= DataRows(t)
      <3>1. ~(row <= DataRows(t)) => row - DataRows(t) \in Pool
        BY <2>1, SaneFacts
      <3> QED
        BY <1>2, <2>1, <3>1 DEF GetLine, Added
    <2>3. row \in 1..DataRows(t) /\ i \in DOMAIN t.data /\ line = t.data[i]
      BY <2>1, <2>2, SaneFacts DEF GetLine
    <2>4. t.thread /\ line \in Line
      BY <1>2, <2>3, Unread, SaneFacts
    <2>5. full \in Line /\ full.filled /\ full.stored
      BY <2>4 DEF Line
    <2> HIDE DEF full
    <2> DEFINE d == [t.data EXCEPT ![i] = full]
    <2>6. u = [t EXCEPT !.data = d, !.rowsCached = n, !.thread = (n # Len(t.data))]
      BY <1>2, <2>2, <2>4, <2>1 DEF Fill, PutLine, full, Tables
    <2>7. t.data \in Seq(Line)
      BY <2>1 DEF Tables
    <2>8. /\ d \in Seq(Line) /\ Len(d) = Len(t.data) /\ DOMAIN d = DOMAIN t.data
          /\ \A k \in DOMAIN t.data : d[k] = IF k = i THEN full ELSE t.data[k]
      BY <2>1, <2>3, <2>5, <2>7, ExceptSeq
    <2> HIDE DEF d
    <2>9. n \in Nat /\ (n # Len(t.data)) \in BOOLEAN
      BY <2>1 DEF Tables
    <2>10. u \in Tables
      BY <2>1, <2>6, <2>8, <2>9 DEF Tables
    <2>11. /\ u.data = d /\ u.lineIndex = t.lineIndex /\ u.rowsDeleted = t.rowsDeleted
           /\ u.rowsCached = n /\ u.addPool = t.addPool
           /\ u.rowsAdded = t.rowsAdded /\ u.rowsStored = t.rowsStored /\ u.lastRow = t.lastRow
      BY <2>1, <2>6 DEF Tables
    <2>12. u.thread = (n # Len(t.data))
      BY <2>1, <2>6 DEF Tables
    <2> HIDE DEF u
    <2>13. DataRows(u) = DataRows(t) /\ NumberRows(u) = NumberRows(t)
      BY <2>8, <2>11 DEF DataRows, NumberRows
    <2>14. Shape(u)
      BY <2>1, <2>8, <2>11, <2>13 DEF Shape
    <2>15. Added(u)
      BY <2>1, <2>11 DEF Added
    <2>16. Cached(u) = Cached(t) \cup {i}
      BY <2>3, <2>5, <2>8, <2>11 DEF Cached
    <2>17. i \notin Cached(t)
      BY <1>2, <2>3 DEF Cached
    <2>18. Cardinality(Cached(u)) = n
      <3>1. IsFiniteSet(Cached(t))
        BY Unread
      <3>2. Cardinality(Cached(t) \cup {i}) = Cardinality(Cached(t)) + 1
        BY <2>17, <3>1, FS_AddElement
      <3> QED
        BY <2>1, <2>16, <3>2 DEF Caching
    <2>19. d # <<>>
      BY <2>3, <2>8
    <2>20. \A k \in DOMAIN d : d[k].stored <=> d[k].filled
      BY <2>1, <2>5, <2>8 DEF Caching
    <2>21. Caching(u)
      BY <2>8, <2>11, <2>12, <2>18, <2>19, <2>20 DEF Caching
    <2>22. GetLine(u, row).filled
      BY <2>2, <2>3, <2>5, <2>8, <2>11, <2>13 DEF GetLine
    <2> QED
      BY <2>10, <2>11, <2>13, <2>14, <2>15, <2>21, <2>22 DEF Sane, u
  <1> QED
    BY <1>1, <1>2

\* A table that was just loaded.
LEMMA NewSane ==
    ASSUME NEW rows \in Seq(Keys)
    PROVE  /\ Sane(NewTable(rows))
           /\ 1 \in Rows(NewTable(rows))
           /\ NewTable(rows).lastRow = 0
  <1> DEFINE u == NewTable(rows)
             L(i) == [cols |-> rows[i], filled |-> FALSE, stored |-> FALSE, readOnly |-> FALSE]
             d == [i \in 1..Len(rows) |-> L(i)]
             x == [i \in 1..Len(rows) |-> i]
             p == [i \in Pool |-> Blank]
  <1>1. Len(rows) \in Nat /\ DOMAIN rows = 1..Len(rows)
    OBVIOUS
  <1>2. \A i \in 1..Len(rows) : rows[i] \in Cols
    BY ElementOfSeq DEF Cols
  <1>3. \A i \in 1..Len(rows) : L(i) \in Line
    BY <1>2 DEF Line
  <1>4. \A i \in 1..Len(rows) : ~L(i).filled /\ ~L(i).stored
    OBVIOUS
  <1> HIDE DEF L
  <1>5. d \in Seq(Line) /\ Len(d) = Len(rows) /\ DOMAIN d = 1..Len(rows)
    BY <1>1, <1>3
  <1>6. x \in Seq(Nat) /\ Len(x) = Len(rows)
    BY <1>1
  <1>7. Blank \in Line /\ Blank.filled /\ ~Blank.stored
    BY DEF Blank, Line, Cols
  <1>8. p \in [Pool -> Line] /\ \A i \in Pool : p[i].filled /\ ~p[i].stored
    BY <1>7
  <1>9. \A i \in 1..Len(rows) : ~d[i].filled /\ ~d[i].stored /\ x[i] = i
    BY <1>4
  <1>10. /\ u.data = d /\ u.lineIndex = x /\ u.rowsDeleted = 0 /\ u.rowsCached = 0
         /\ u.thread = TRUE /\ u.addPool = p /\ u.rowsAdded = 1 /\ u.rowsStored = 0
         /\ u.lastRow = 0
    BY <1>1 DEF NewTable, L
  <1>11. u \in Tables
    <2>1. u = [data |-> d, lineIndex |-> x, rowsDeleted |-> 0, rowsCached |-> 0, thread |-> TRUE,
               addPool |-> p, rowsAdded |-> 1, rowsStored |-> 0, lastRow |-> 0, savedLine |-> Empty]
      BY <1>1 DEF NewTable, L
    <2> HIDE DEF d, x, p, u
    <2> QED
      BY <1>5, <1>6, <1>8, <2>1 DEF Tables, Cols
  <1> HIDE DEF u, d, x, p
  <1>12. DataRows(u) = Len(rows) /\ NumberRows(u) = Len(rows) + 1
    BY <1>1, <1>5, <1>10 DEF DataRows, NumberRows
  <1>13. Shape(u)
    BY <1>1, <1>5, <1>6, <1>9, <1>10, <1>12 DEF Shape
  <1>14. Added(u)
    BY <1>8, <1>10, BoundsAssumption DEF Added, Pool
  <1>15. Cached(u) = {}
    BY <1>5, <1>9, <1>10 DEF Cached
  <1>16. d = <<>> <=> Len(rows) = 0
    BY <1>1, <1>5, EmptySeq
  <1>17. Caching(u)
    BY <1>1, <1>5, <1>9, <1>10, <1>15, <1>16, FS_EmptySet DEF Caching
  <1>18. 1 \in Rows(u)
    BY <1>1, <1>12 DEF Rows
  <1> QED
    BY <1>10, <1>11, <1>13, <1>14, <1>17, <1>18 DEF Sane, u

\* Of the filled lines only that of the last row is not stored.
LEMMA LastIsEmpty ==
    ASSUME NEW t, Sane(t), NEW row \in Rows(t), GetLine(t, row).filled
    PROVE  GetLine(t, row).stored <=> row # NumberRows(t)
  <1>1. /\ DataRows(t) \in Nat /\ row \in 1..NumberRows(t) /\ NumberRows(t) \in Nat
        /\ DataRows(t) < NumberRows(t)
    BY SaneFacts
  <1>2. t.rowsAdded \in Nat /\ NumberRows(t) = DataRows(t) + t.rowsAdded
    BY DEF Sane, Tables, NumberRows
  <1>3. CASE row <= DataRows(t)
    <2>1. t.lineIndex[row] \in DOMAIN t.data
      BY <1>1, <1>3, SaneFacts
    <2> QED
      BY <1>1, <1>3, <2>1 DEF Sane, Caching, GetLine
  <1>4. CASE ~(row <= DataRows(t))
    <2>1. row - DataRows(t) \in Pool
      BY <1>1, <1>4, SaneFacts
    <2>2. t.addPool[row - DataRows(t)].stored <=> row - DataRows(t) < t.rowsAdded
      BY <2>1 DEF Sane, Added
    <2>3. row - DataRows(t) < t.rowsAdded <=> row # NumberRows(t)
      BY <1>1, <1>2, <1>4
    <2> QED
      BY <1>4, <2>2, <2>3 DEF GetLine
  <1> QED
    BY <1>3, <1>4

\* The row that was changed last is settled.
LEMMA SettledSane ==
    ASSUME NEW t, Sane(t)
    PROVE  LET u == [t EXCEPT !.lastRow = 0, !.savedLine = Empty]
           IN  Sane(u) /\ NumberRows(u) = NumberRows(t) /\ DataRows(u) = DataRows(t) /\ u.lastRow = 0
  <1> DEFINE u == [t EXCEPT !.lastRow = 0, !.savedLine = Empty]
  <1>1. t \in Tables /\ Shape(t) /\ Added(t) /\ Caching(t)
    BY DEF Sane
  <1>2. u \in Tables
    BY <1>1 DEF Tables, Cols
  <1>3. /\ u.data = t.data /\ u.lineIndex = t.lineIndex /\ u.rowsDeleted = t.rowsDeleted
        /\ u.rowsCached = t.rowsCached /\ u.thread = t.thread /\ u.addPool = t.addPool
        /\ u.rowsAdded = t.rowsAdded /\ u.rowsStored = t.rowsStored /\ u.lastRow = 0
    BY <1>1 DEF Tables
  <1> HIDE DEF u
  <1>4. DataRows(u) = DataRows(t) /\ NumberRows(u) = NumberRows(t)
    BY <1>3 DEF DataRows, NumberRows
  <1>5. Shape(u) /\ Added(u) /\ Caching(u)
    BY <1>1, <1>3, <1>4 DEF Shape, Added, Caching, Cached
  <1> QED
    BY <1>2, <1>3, <1>4, <1>5 DEF Sane, u

\* An INSERT stores the last row and appends another.
LEMMA InsertedSane ==
    ASSUME NEW t, Sane(t), t.lastRow = NumberRows(t), t.rowsAdded < MaxAdded
    PROVE  /\ Sane(Inserted(t))
           /\ NumberRows(Inserted(t)) = NumberRows(t) + 1
           /\ Inserted(t).lastRow = 0
  <1> DEFINE line == GetLine(t, t.lastRow)
             new == [line EXCEPT !.stored = TRUE, !.readOnly = (line.cols = NoKey)]
             j == t.lastRow - DataRows(t)
             p == [t.addPool EXCEPT ![j] = new]
             u == Inserted(t)
  <1>1. /\ t \in Tables /\ Shape(t) /\ Added(t) /\ Caching(t)
        /\ DataRows(t) \in Nat /\ Rows(t) = 1..NumberRows(t) /\ NumberRows(t) \in Nat \ {0}
        /\ DataRows(t) < NumberRows(t)
    BY SaneFacts DEF Sane
  <1>2. t.lastRow \in Rows(t) /\ ~(t.lastRow <= DataRows(t))
    BY <1>1
  <1>3. /\ t.rowsAdded \in Nat /\ t.rowsStored \in Nat /\ MaxAdded \in Nat
        /\ NumberRows(t) = DataRows(t) + t.rowsAdded
    BY <1>1, BoundsAssumption DEF Tables, NumberRows
  <1>4. j = t.rowsAdded /\ j \in Pool
    BY <1>1, <1>2, <1>3, SaneFacts
  <1>5. line \in Line /\ line = t.addPool[j]
    BY <1>2, SaneFacts DEF GetLine
  <1>6. new \in Line /\ new.stored /\ new.filled = line.filled
    BY <1>5 DEF Line
  <1> HIDE DEF new, j
  <1>7. p \in [Pool -> Line] /\ \A k \in Pool : p[k] = IF k = j THEN new ELSE t.addPool[k]
    BY <1>1, <1>4, <1>6 DEF Tables
  <1>8. t.rowsAdded = t.rowsStored + 1
    BY <1>1 DEF Added
  <1>9. u = [t EXCEPT !.rowsStored = t.rowsStored + 1, !.rowsAdded = t.rowsAdded + 1,
                      !.lastRow = 0, !.savedLine = Empty, !.addPool = p]
    <2> DEFINE v == [t EXCEPT !.rowsStored = t.rowsStored + 1, !.rowsAdded = t.rowsAdded + 1,
                              !.lastRow = 0, !.savedLine = Empty]
    <2>1. u = PutLine(v, t.lastRow, new)
      BY <1>1, <1>8 DEF Inserted, new, Tables
    <2>2. v.addPool = t.addPool /\ DataRows(v) = DataRows(t)
      BY <1>1 DEF DataRows, Tables
    <2>3. PutLine(v, t.lastRow, new) = [v EXCEPT !.addPool = p]
      BY <1>2, <2>2 DEF PutLine, j
    <2> HIDE DEF u, p
    <2> QED
      BY <1>1, <2>1, <2>3 DEF Tables
  <1> HIDE DEF p, u
  <1>10. u \in Tables
    <2>1. t.rowsAdded + 1 \in Nat /\ t.rowsStored + 1 \in Nat /\ 0 \in Nat /\ Empty \in Cols
      BY <1>3 DEF Cols
    <2> QED
      BY <1>1, <1>7, <1>9, <2>1 DEF Tables
  <1>11. /\ u.data = t.data /\ u.lineIndex = t.lineIndex /\ u.rowsDeleted = t.rowsDeleted
         /\ u.rowsCached = t.rowsCached /\ u.thread = t.thread /\ u.addPool = p
         /\ u.rowsAdded = t.rowsAdded + 1 /\ u.rowsStored = t.rowsStored + 1 /\ u.lastRow = 0
    BY <1>1, <1>9 DEF Tables
  <1>12. DataRows(u) = DataRows(t) /\ NumberRows(u) = NumberRows(t) + 1
    BY <1>1, <1>3, <1>11 DEF DataRows, NumberRows
  <1>13. Shape(u) /\ Caching(u)
    BY <1>1, <1>11, <1>12 DEF Shape, Caching, Cached
  <1>14. ASSUME NEW k \in Pool PROVE p[k].filled /\ (p[k].stored <=> k < t.rowsAdded + 1)
    <2>1. k \in Nat /\ t.addPool[k].filled /\ (t.addPool[k].stored <=> k < t.rowsAdded)
      BY <1>1 DEF Added, Pool
    <2>2. CASE k = j
      BY <1>3, <1>4, <1>5, <1>6, <1>7, <2>1, <2>2
    <2>3. CASE k # j
      <3>1. k < t.rowsAdded + 1 <=> k < t.rowsAdded
        BY <1>3, <1>4, <2>1, <2>3
      <3> QED
        BY <1>7, <2>1, <2>3, <3>1
    <2> QED
      BY <2>2, <2>3
  <1>15. Added(u)
    BY <1>3, <1>8, <1>11, <1>14 DEF Added
  <1> QED
    BY <1>10, <1>11, <1>12, <1>13, <1>15 DEF Sane, u

LEMMA SetSane ==
    ASSUME NEW t, Sane(t), NEW row \in Rows(t), NEW value \in Cols
    PROVE  /\ Sane(SetValue(t, row, value))
           /\ NumberRows(SetValue(t, row, value)) = NumberRows(t)
           /\ SetValue(t, row, value).lastRow = row
  <1> DEFINE line == GetLine(t, row)
             v == [t EXCEPT !.savedLine = line.cols, !.lastRow = row]
             u == IF row = t.lastRow THEN t ELSE v
  <1>1. /\ t \in Tables /\ Shape(t) /\ Added(t) /\ Caching(t) /\ line \in Line
        /\ row \in Nat
    BY SaneFacts DEF Sane
  <1>2. v \in Tables
    BY <1>1 DEF Tables, Line
  <1>3. /\ v.data = t.data /\ v.lineIndex = t.lineIndex /\ v.rowsDeleted = t.rowsDeleted
        /\ v.rowsCached = t.rowsCached /\ v.thread = t.thread /\ v.addPool = t.addPool
        /\ v.rowsAdded = t.rowsAdded /\ v.rowsStored = t.rowsStored /\ v.lastRow = row
    BY <1>1 DEF Tables
  <1> HIDE DEF v
  <1>4. DataRows(v) = DataRows(t) /\ NumberRows(v) = NumberRows(t)
    BY <1>3 DEF DataRows, NumberRows
  <1>5. Shape(v) /\ Added(v) /\ Caching(v)
    BY <1>1, <1>3, <1>4 DEF Shape, Added, Caching, Cached
  <1>6. Sane(u) /\ NumberRows(u) = NumberRows(t) /\ u.lastRow = row /\ GetLine(u, row) = line
    BY <1>2, <1>3, <1>4, <1>5 DEF Sane, GetLine
  <1> DEFINE new == [line EXCEPT !.cols = value]
  <1>7. new \in Line /\ new.filled = line.filled /\ new.stored = line.stored
    BY <1>1 DEF Line
  <1>8. SetValue(t, row, value) = PutLine(u, row, new)
    BY DEF SetValue, v
  <1>9. row \in Rows(u)
    BY <1>6 DEF Rows
  <1> HIDE DEF u, new
  <1> QED
    BY <1>6, <1>7, <1>8, <1>9, PutSane

LEMMA UndoSane ==
    ASSUME NEW t, Sane(t), NEW row \in Rows(t)
    PROVE  /\ Sane(UndoLine(t, row))
           /\ NumberRows(UndoLine(t, row)) = NumberRows(t)
           /\ UndoLine(t, row).lastRow = 0
  <1> DEFINE line == GetLine(t, row)
             new == [line EXCEPT !.cols = t.savedLine]
             u == PutLine(t, row, new)
  <1>1. t \in Tables /\ line \in Line
    BY SaneFacts DEF Sane
  <1>2. new \in Line /\ new.filled = line.filled /\ new.stored = line.stored
    BY <1>1 DEF Line, Tables
  <1> HIDE DEF new
  <1>3. Sane(u) /\ NumberRows(u) = NumberRows(t)
    BY <1>2, PutSane
  <1> HIDE DEF u
  <1>4. CASE t.lastRow = 0
    BY <1>4 DEF UndoLine
  <1>5. CASE t.lastRow # 0
    <2>1. UndoLine(t, row) = [u EXCEPT !.lastRow = 0, !.savedLine = Empty]
      BY <1>5 DEF UndoLine, u, new
    <2> QED
      BY <1>3, <2>1, SettledSane
  <1> QED
    BY <1>4, <1>5

\* StoreLine settles the row that was changed last, or leaves everything as
\* it was.
LEMMA StoreSane ==
    ASSUME NEW t, Sane(t), db \subseteq Keys, NEW r \in StoreLine(t)
    PROVE  /\ Sane(r.table) /\ r.db \subseteq Keys /\ r.done \in BOOLEAN
           /\ r = Result(r.table, r.db, r.done)
           /\ Rows(t) \subseteq Rows(r.table)
           /\ r.done => r.table.lastRow = 0
           /\ ~r.done => /\ r.table = t /\ r.db = db
                         /\ t.lastRow # 0 => t.lastRow \in Rows(t)
  <1> DEFINE line == GetLine(t, t.lastRow)
             failed == Result(t, db, FALSE)
             updated == [t EXCEPT !.lastRow = 0, !.savedLine = Empty]
  <1>0. /\ t \in Tables /\ Rows(t) = 1..NumberRows(t) /\ NumberRows(t) \in Nat \ {0}
        /\ t.lastRow \in Nat
    BY SaneFacts DEF Sane, Tables
  <1>1. CASE t.lastRow = 0
    <2>1. r = failed
      BY <1>1 DEF StoreLine
    <2>2. r.table = t /\ r.db = db /\ r.done = FALSE /\ r = Result(r.table, r.db, r.done)
      BY <2>1 DEF Result
    <2> QED
      BY <1>1, <2>2
  <1>2. CASE t.lastRow # 0
    <2>1. ~NoColumns(t)
      BY <1>2 DEF StoreLine
    <2>2. t.lastRow \in Rows(t) /\ line.filled
      BY <1>0, <1>2, <2>1 DEF NoColumns
    <2>3. CASE r = failed
      BY <2>2, <2>3 DEF Result
    <2>4. ASSUME r # failed, ~line.stored
          PROVE  /\ r.table = Inserted(t) /\ r.done = TRUE /\ r.db \subseteq Keys
                 /\ t.rowsAdded < MaxAdded /\ r = Result(r.table, r.db, r.done)
      <3>1. line.cols # Empty /\ t.rowsAdded < MaxAdded
        BY <1>2, <2>1, <2>4 DEF StoreLine
      <3>2. PICK d \in Insert(line.cols) : r = Result(Inserted(t), d, TRUE)
        BY <1>2, <2>1, <2>4, <3>1 DEF StoreLine
      <3>3. line.cols \in Keys \cup {NoKey}
        BY <2>2, <3>1, SaneFacts DEF Line, Cols
      <3>4. d \subseteq Keys
        BY <3>3 DEF Insert
      <3> QED
        BY <3>1, <3>2, <3>4 DEF Result
    <2>5. ASSUME r # failed, line.stored
          PROVE  /\ r.table = updated /\ r.done = TRUE /\ r.db \subseteq Keys
                 /\ r = Result(r.table, r.db, r.done)
      <3>1. CASE line.cols = t.savedLine
        BY <1>2, <2>1, <2>5, <3>1 DEF StoreLine, Result
      <3>2. CASE line.cols # t.savedLine
        <4>1. PICK d \in UpdateKey(t.savedLine, line.cols) : r = Result(updated, d, TRUE)
          BY <1>2, <2>1, <2>5, <3>2 DEF StoreLine
        <4>2. d \subseteq Keys
          BY DEF UpdateKey
        <4> QED
          BY <4>1, <4>2 DEF Result
      <3> QED
        BY <3>1, <3>2
    <2>6. CASE r # failed /\ ~line.stored
      <3>1. t.lastRow = NumberRows(t)
        BY <2>2, <2>6, LastIsEmpty
      <3>2. /\ Sane(Inserted(t)) /\ NumberRows(Inserted(t)) = NumberRows(t) + 1
            /\ Inserted(t).lastRow = 0
        BY <2>4, <2>6, <3>1, InsertedSane
      <3>3. Rows(t) \subseteq Rows(Inserted(t))
        BY <1>0, <3>2 DEF Rows
      <3> QED
        BY <2>4, <2>6, <3>2, <3>3
    <2>7. CASE r # failed /\ line.stored
      <3>1. Sane(updated) /\ NumberRows(updated) = NumberRows(t) /\ updated.lastRow = 0
        BY SettledSane
      <3> HIDE DEF updated
      <3> QED
        BY <2>5, <2>7, <3>1 DEF Rows
    <2> QED
      BY <2>3, <2>6, <2>7
  <1> QED
    BY <1>1, <1>2

\* A stored row is taken out of the grid.
LEMMA RemoveSane ==
    ASSUME NEW t, Sane(t), NEW row \in Rows(t), row # NumberRows(t)
    PROVE  /\ Sane(RemoveRow(t, row))
           /\ NumberRows(RemoveRow(t, row)) = NumberRows(t) - 1
           /\ RemoveRow(t, row).lastRow = t.lastRow
  <1> DEFINE i == t.lineIndex[row]
             j == row - DataRows(t)
             n == DataRows(t)
             u == RemoveRow(t, row)
  <1>1. /\ t \in Tables /\ Shape(t) /\ Added(t) /\ Caching(t)
        /\ Rows(t) = 1..NumberRows(t) /\ NumberRows(t) \in Nat \ {0} /\ n \in 0..Len(t.data)
        /\ Len(t.data) \in Nat /\ DOMAIN t.data = 1..Len(t.data)
        /\ DOMAIN t.lineIndex = 1..Len(t.data) /\ Len(t.lineIndex) = Len(t.data)
    BY SaneFacts DEF Sane
  <1>2. /\ t.data \in Seq(Line) /\ t.lineIndex \in Seq(Nat) /\ t.addPool \in [Pool -> Line]
        /\ t.rowsDeleted \in Nat /\ t.rowsAdded \in Nat /\ t.rowsStored \in Nat
        /\ MaxAdded \in Nat
    BY <1>1, BoundsAssumption DEF Tables
  <1>3. n = Len(t.data) - t.rowsDeleted /\ NumberRows(t) = n + t.rowsAdded
    BY DEF DataRows, NumberRows
  <1>6. /\ n \in Nat /\ n <= Len(t.data) /\ Len(t.data) \in Nat
        /\ t.rowsDeleted \in Nat /\ t.rowsAdded \in Nat /\ NumberRows(t) \in Nat
        /\ row \in Nat /\ row >= 1 /\ row < NumberRows(t)
    BY <1>1, <1>2
  <1> HIDE DEF n
  <1>4. CASE row <= n
    <2>1. row \in 1..n /\ i \in DOMAIN t.data /\ n \in Nat
      BY <1>1, <1>4, SaneFacts DEF n
    <2> DEFINE e == [t.data[i] EXCEPT !.cols = Empty]
               d == [t.data EXCEPT ![i] = e]
               x == [k \in DOMAIN t.data |->
                        IF k \in row..(n - 1) THEN t.lineIndex[k + 1] ELSE t.lineIndex[k]]
    <2>2. e \in Line /\ e.filled = t.data[i].filled /\ e.stored = t.data[i].stored
      BY <2>1, SaneFacts DEF Line, Cols
    <2> HIDE DEF e
    <2>3. /\ d \in Seq(Line) /\ Len(d) = Len(t.data) /\ DOMAIN d = DOMAIN t.data
          /\ \A k \in DOMAIN t.data : d[k] = IF k = i THEN e ELSE t.data[k]
      BY <1>1, <1>2, <2>1, <2>2, ExceptSeq
    <2>4. \A k \in DOMAIN t.data : d[k].filled = t.data[k].filled /\ d[k].stored = t.data[k].stored
      BY <2>2, <2>3
    <2>5. ASSUME NEW k \in 1..Len(t.data) PROVE x[k] \in Nat /\ (k < n => x[k] \in DOMAIN t.data)
      <3>1. k \in DOMAIN t.lineIndex /\ t.lineIndex[k] \in Nat
        BY <1>1, <1>2
      <3>2. CASE k \in row..(n - 1)
        <4>1. k + 1 \in 1..n
          BY <2>1, <3>2
        <4>2. x[k] = t.lineIndex[k + 1] /\ t.lineIndex[k + 1] \in DOMAIN t.data
          BY <1>1, <3>2, <4>1 DEF Shape, n
        <4> QED
          BY <1>1, <4>2
      <3>3. CASE k \notin row..(n - 1)
        <4>1. k < n => k \in 1..n
          BY <2>1
        <4> QED
          BY <1>1, <3>1, <3>3, <4>1 DEF Shape, n
      <3> QED
        BY <3>2, <3>3
    <2>6. x \in Seq(Nat) /\ Len(x) = Len(t.data)
      <3>1. DOMAIN x = 1..Len(t.data) /\ x = [k \in DOMAIN x |-> x[k]]
        BY <1>1
      <3> HIDE DEF x
      <3>2. x \in [1..Len(t.data) -> Nat]
        BY <2>5, <3>1
      <3> QED
        BY <1>1, <3>2
    <2>7. u = [t EXCEPT !.rowsDeleted = t.rowsDeleted + 1, !.data = d, !.lineIndex = x]
      BY <1>1, <1>4, <2>1 DEF RemoveRow, e, Tables, n
    <2> HIDE DEF d, x, u
    <2>8. t.rowsDeleted + 1 \in Nat /\ t.rowsDeleted + 1 <= Len(t.data)
      BY <1>3, <1>6, <2>1
    <2>9. u \in Tables
      BY <1>1, <2>3, <2>6, <2>7, <2>8 DEF Tables
    <2>10. /\ u.data = d /\ u.lineIndex = x /\ u.rowsDeleted = t.rowsDeleted + 1
           /\ u.rowsCached = t.rowsCached /\ u.thread = t.thread /\ u.addPool = t.addPool
           /\ u.rowsAdded = t.rowsAdded /\ u.rowsStored = t.rowsStored /\ u.lastRow = t.lastRow
      BY <1>1, <2>7 DEF Tables
    <2>11. DataRows(u) = n - 1 /\ NumberRows(u) = NumberRows(t) - 1
      <3>1. Len(u.data) = Len(t.data) /\ u.rowsDeleted = t.rowsDeleted + 1
              /\ u.rowsAdded = t.rowsAdded
        BY <2>3, <2>10
      <3>2. DataRows(u) = Len(t.data) - (t.rowsDeleted + 1)
        BY <3>1 DEF DataRows
      <3>3. DataRows(u) = n - 1
        BY <1>3, <1>6, <3>2
      <3>4. NumberRows(u) = (n - 1) + t.rowsAdded
        BY <3>1, <3>3 DEF NumberRows
      <3> QED
        BY <1>3, <1>6, <3>3, <3>4
    <2>12. Shape(u)
      <3>1. \A k \in 1..(n - 1) : k \in 1..Len(t.data) /\ k < n
        BY <1>1, <2>1
      <3> QED
        BY <2>3, <2>5, <2>6, <2>8, <2>10, <2>11, <3>1 DEF Shape
    <2>13. Added(u)
      BY <1>1, <2>10 DEF Added
    <2>14. Cached(u) = Cached(t)
      BY <2>3, <2>4, <2>10 DEF Cached
    <2>15. (d = <<>>) <=> (t.data = <<>>)
      BY <1>2, <2>3, EmptySeq
    <2>16. Caching(u)
      BY <1>1, <2>3, <2>4, <2>10, <2>14, <2>15 DEF Caching
    <2> QED
      BY <2>9, <2>10, <2>11, <2>12, <2>13, <2>16 DEF Sane, u
  <1>5. CASE ~(row <= n)
    <2>1. j \in 1..(t.rowsAdded - 1) /\ t.rowsAdded \in 1..MaxAdded
      <3>1. t.rowsAdded \in 1..MaxAdded
        BY <1>1 DEF Added
      <3>2. j = row - n
        BY DEF n
      <3> HIDE DEF j
      <3> QED
        BY <1>3, <1>5, <1>6, <3>1, <3>2
    <2> DEFINE p == [k \in Pool |-> IF k < j THEN t.addPool[k]
                                    ELSE IF k + 1 \in Pool THEN t.addPool[k + 1] ELSE Blank]
    <2>2. Blank \in Line /\ Blank.filled /\ ~Blank.stored
      BY DEF Blank, Line, Cols
    <2>3. p \in [Pool -> Line]
      BY <1>2, <2>2
    <2>4. u = [t EXCEPT !.rowsAdded = t.rowsAdded - 1, !.rowsStored = t.rowsStored - 1, !.addPool = p]
      BY <1>1, <1>5 DEF RemoveRow, Tables, n
    <2>5. t.rowsAdded - 1 \in Nat /\ t.rowsStored - 1 \in Nat /\ t.rowsAdded - 1 \in 1..MaxAdded
      BY <1>1, <1>2, <2>1 DEF Added
    <2> HIDE DEF u, j
    <2>6. ASSUME NEW k \in Pool PROVE p[k].filled /\ (p[k].stored <=> k < t.rowsAdded - 1)
      <3>1. k \in Nat /\ k >= 1 /\ k <= MaxAdded
        BY <1>2 DEF Pool
      <3>2. \A m \in Pool : t.addPool[m].filled /\ (t.addPool[m].stored <=> m < t.rowsAdded)
        BY <1>1 DEF Added
      <3>3. CASE k < j
        <4>1. k < t.rowsAdded - 1 /\ k < t.rowsAdded
          BY <1>2, <2>1, <3>1, <3>3
        <4> QED
          BY <3>2, <3>3, <4>1
      <3>4. CASE ~(k < j) /\ k + 1 \in Pool
        <4>1. k + 1 < t.rowsAdded <=> k < t.rowsAdded - 1
          BY <1>2, <3>1
        <4> QED
          BY <3>2, <3>4, <4>1
      <3>5. CASE ~(k < j) /\ k + 1 \notin Pool
        <4>1. ~(k < t.rowsAdded - 1)
          BY <1>2, <2>1, <3>1, <3>5 DEF Pool
        <4> QED
          BY <2>2, <3>5, <4>1
      <3> QED
        BY <3>3, <3>4, <3>5
    <2> HIDE DEF p
    <2>7. u \in Tables
      BY <1>1, <2>3, <2>4, <2>5 DEF Tables
    <2>8. /\ u.data = t.data /\ u.lineIndex = t.lineIndex /\ u.rowsDeleted = t.rowsDeleted
          /\ u.rowsCached = t.rowsCached /\ u.thread = t.thread /\ u.addPool = p
          /\ u.rowsAdded = t.rowsAdded - 1 /\ u.rowsStored = t.rowsStored - 1
          /\ u.lastRow = t.lastRow
      BY <1>1, <2>4 DEF Tables
    <2>9. DataRows(u) = DataRows(t) /\ NumberRows(u) = NumberRows(t) - 1
      <3>1. DataRows(u) = DataRows(t)
        BY <2>8 DEF DataRows
      <3> QED
        BY <1>3, <1>6, <2>8, <3>1 DEF NumberRows, n
    <2>10. Shape(u) /\ Caching(u)
      BY <1>1, <2>8, <2>9 DEF Shape, Caching, Cached
    <2>11. t.rowsAdded - 1 = (t.rowsStored - 1) + 1
      BY <1>1, <1>2 DEF Added
    <2>12. Added(u)
      BY <2>5, <2>6, <2>8, <2>11 DEF Added
    <2> QED
      BY <2>7, <2>8, <2>9, <2>10, <2>12 DEF Sane, u
  <1> QED
    BY <1>4, <1>5

\* DeleteRows takes a row away, or leaves as many as there were.
LEMMA DeleteSane ==
    ASSUME NEW t, Sane(t), db \subseteq Keys, NEW row \in Rows(t), NEW r \in DeleteRow(t, row)
    PROVE  /\ Sane(r.table) /\ r.db \subseteq Keys /\ r.done \in BOOLEAN
           /\ r.table.lastRow = t.lastRow
           /\ r.done => NumberRows(r.table) = NumberRows(t) - 1 /\ row # NumberRows(t)
           /\ ~r.done => NumberRows(r.table) = NumberRows(t)
  <1> DEFINE u == Fill(t, row)
             line == GetLine(u, row)
             blank == [line EXCEPT !.cols = Empty]
  <1>1. /\ Sane(u) /\ NumberRows(u) = NumberRows(t) /\ u.lastRow = t.lastRow /\ line.filled
        /\ row \in Rows(u)
    BY FillSane DEF Rows
  <1> HIDE DEF u
  <1>2. line.stored <=> row # NumberRows(u)
    BY <1>1, LastIsEmpty
  <1>3. CASE r = Result(u, db, FALSE)
    BY <1>1, <1>3 DEF Result
  <1>4. CASE line.stored /\ r = Result(RemoveRow(u, row), db \ {line.cols}, TRUE)
    <2>1. /\ Sane(RemoveRow(u, row)) /\ NumberRows(RemoveRow(u, row)) = NumberRows(u) - 1
          /\ RemoveRow(u, row).lastRow = u.lastRow
      BY <1>1, <1>2, <1>4, RemoveSane
    <2> QED
      BY <1>1, <1>2, <1>4, <2>1 DEF Result
  <1>5. CASE r = Result(PutLine(u, row, blank), db, FALSE)
    <2>1. line \in Line
      BY <1>1, SaneFacts
    <2>2. blank \in Line /\ blank.filled = line.filled /\ blank.stored = line.stored
      BY <2>1 DEF Line, Cols
    <2> HIDE DEF blank
    <2>3. /\ Sane(PutLine(u, row, blank)) /\ NumberRows(PutLine(u, row, blank)) = NumberRows(u)
          /\ PutLine(u, row, blank).lastRow = u.lastRow
      BY <1>1, <2>2, PutSane
    <2> QED
      BY <1>1, <1>5, <2>3 DEF Result
  <1> QED
    BY <1>3, <1>4, <1>5 DEF DeleteRow, u

-----------------------------------------------------------------------------
(* The window                                                              *)

IInv ==
    /\ TypeOK
    /\ table # NoTable => Sane(table)
    /\ table = NoTable => doomed = {}
    /\ PendingKeepsStore

\* A set of rows has a last one.
LEMMA LastRow ==
    ASSUME NEW n \in Nat, NEW rows \in SUBSET (1..n), rows # {}
    PROVE  Last(rows) \in rows /\ \A other \in rows : other <= Last(rows)
  <1> DEFINE back == {n - row : row \in rows}
  <1>0. \A row \in rows : n - row \in Nat
    <2> TAKE row \in rows
    <2>1. row \in 1..n
      OBVIOUS
    <2> QED
      BY <2>1
  <1>1. back \subseteq Nat /\ back # {}
    BY <1>0
  <1>2. PICK x \in back : \A y \in back : <<y, x>> \notin OpToRel(<, Nat)
    BY <1>1, NatLessThanWellFounded, WFMin
  <1>3. x \in Nat /\ \A y \in back : y \in Nat /\ ~(y < x)
    BY <1>1, <1>2 DEF OpToRel
  <1>4. PICK row \in rows : x = n - row
    OBVIOUS
  <1>5. \A other \in rows : other <= row
    <2> TAKE other \in rows
    <2>1. n - other \in back /\ other \in Nat /\ row \in Nat
      OBVIOUS
    <2>2. ~(n - other < n - row)
      BY <1>3, <1>4, <2>1
    <2> QED
      BY <2>1, <2>2
  <1> QED
    BY <1>5 DEF Last

LEMMA SaneIsTable == \A t : Sane(t) => t # NoTable
  <1> SUFFICES ASSUME Sane(NoTable) PROVE FALSE
    OBVIOUS
  <1>1. NoTable \in Tables
    BY DEF Sane
  <1>2. "data" \in DOMAIN NoTable
    BY <1>1 DEF Tables
  <1>3. DOMAIN NoTable = {"none"}
    BY DEF NoTable
  <1> QED
    BY <1>2, <1>3

\* What an editing step has to keep.
LEMMA Edited ==
    ASSUME IInv, Sane(table'), db' \subseteq Keys,
           cursor' \in Rows(table'), selected' \subseteq Rows(table'),
           doomed' \subseteq Rows(table'),
           storeTool' \in BOOLEAN, deleteTool' \in BOOLEAN,
           strayed' \in BOOLEAN, raced' \in BOOLEAN,
           table'.lastRow = 0 \/ (storeTool' /\ (strayed' \/ table'.lastRow \in Rows(table'))),
           load' \in {"idle", "running", "answered", "failed"}, answer' \in Seq(Keys),
           window' \in {"open", "closed"}
    PROVE  IInv'
  <1>1. table' \in Tables
    BY DEF Sane
  <1>2. TypeOK'
    BY <1>1 DEF TypeOK
  <1>3. PendingKeepsStore'
    BY DEF PendingKeepsStore
  <1> QED
    BY <1>2, <1>3, SaneIsTable DEF IInv

\* A step that takes the table away, or finds none.
LEMMA Emptied ==
    ASSUME IInv, table' = NoTable, doomed' = {}, db' \subseteq Keys,
           storeTool' \in BOOLEAN, deleteTool' \in BOOLEAN,
           strayed' \in BOOLEAN, raced' \in BOOLEAN,
           load' \in {"idle", "running", "answered", "failed"}, answer' \in Seq(Keys),
           window' \in {"open", "closed"}
    PROVE  IInv'
  BY DEF IInv, TypeOK, PendingKeepsStore

\* Only where the program waits has changed.
LEMMA Waited ==
    ASSUME IInv, UNCHANGED <<db, table, editVars, ghostVars>>,
           load' \in {"idle", "running", "answered", "failed"}, answer' \in Seq(Keys),
           window' \in {"open", "closed"}
    PROVE  IInv'
  BY DEF IInv, TypeOK, PendingKeepsStore, editVars, ghostVars

LEMMA SelectionKept ==
    ASSUME NEW r, NEW otherwise \in SUBSET Rows(r.table), SelectionAfter(r, otherwise),
           ~r.done /\ r.table.lastRow # 0 => r.table.lastRow \in Rows(r.table)
    PROVE  selected' \subseteq Rows(r.table) /\ deleteTool' \in BOOLEAN
  BY DEF SelectionAfter, Deletable

\* What the handlers know of the state they start in.
LEMMA OpenFacts ==
    ASSUME IInv, table # NoTable
    PROVE  /\ Sane(table) /\ db \subseteq Keys
           /\ Rows(table) = 1..NumberRows(table) /\ NumberRows(table) \in Nat \ {0}
           /\ cursor \in Rows(table) /\ selected \subseteq Rows(table) /\ doomed \subseteq Rows(table)
           /\ storeTool \in BOOLEAN /\ deleteTool \in BOOLEAN
           /\ strayed \in BOOLEAN /\ raced \in BOOLEAN
           /\ table.lastRow = 0 \/ (storeTool /\ (strayed \/ table.lastRow \in Rows(table)))
           /\ load \in {"idle", "running", "answered", "failed"} /\ answer \in Seq(Keys)
           /\ window \in {"open", "closed"}
  <1>1. Sane(table)
    BY DEF IInv
  <1> QED
    BY <1>1, SaneFacts DEF IInv, TypeOK, PendingKeepsStore

LEMMA ShowStep == IInv /\ Show => IInv'
  <1> SUFFICES ASSUME IInv, Show PROVE IInv'
    OBVIOUS
  <1>1. table # NoTable /\ UNCHANGED <<db, editVars, loadVars, ghostVars>>
    BY DEF Show
  <1>2. PICK row \in Rows(table) : table' = Fill(table, row)
    BY DEF Show
  <1>3. Sane(table') /\ NumberRows(table') = NumberRows(table) /\ table'.lastRow = table.lastRow
    BY <1>1, <1>2, OpenFacts, FillSane
  <1>4. Rows(table') = Rows(table)
    BY <1>3 DEF Rows
  <1> QED
    BY <1>1, <1>3, <1>4, OpenFacts, Edited DEF editVars, loadVars, ghostVars

LEMMA MoveStep == IInv /\ MoveCursor => IInv'
  <1> SUFFICES ASSUME IInv, MoveCursor PROVE IInv'
    OBVIOUS
  <1>1. table # NoTable /\ UNCHANGED <<doomed, loadVars>> /\ cursor' \in Rows(table)
    BY DEF MoveCursor, Ready, Open
  <1>2. CASE table.lastRow \in {0, cursor'}
    <2>1. /\ selected' = {} /\ deleteTool' = FALSE
          /\ storeTool' = (storeTool /\ table.lastRow # 0)
          /\ UNCHANGED <<db, table, ghostVars>>
      BY <1>2 DEF MoveCursor
    <2>2. Sane(table') /\ selected' \subseteq Rows(table') /\ doomed' \subseteq Rows(table')
          /\ cursor' \in Rows(table') /\ db' \subseteq Keys
      BY <1>1, <2>1, OpenFacts
    <2>3. table'.lastRow = 0 \/ (storeTool' /\ (strayed' \/ table'.lastRow \in Rows(table')))
      BY <1>1, <2>1, OpenFacts DEF ghostVars
    <2>4. /\ storeTool' \in BOOLEAN /\ deleteTool' \in BOOLEAN /\ strayed' \in BOOLEAN
          /\ raced' \in BOOLEAN
      BY <1>1, <2>1, OpenFacts DEF ghostVars
    <2> QED
      BY <1>1, <2>2, <2>3, <2>4, OpenFacts, Edited DEF loadVars
  <1>3. CASE table.lastRow \notin {0, cursor'}
    <2>1. PICK r \in StoreLine(table) :
             Take(r, FALSE) /\ SelectionAfter(r, {}) /\ storeTool' = (storeTool /\ ~r.done)
      BY <1>3 DEF MoveCursor
    <2>2. /\ Sane(r.table) /\ r.db \subseteq Keys /\ r.done \in BOOLEAN
          /\ Rows(table) \subseteq Rows(r.table)
          /\ r.done => r.table.lastRow = 0
          /\ ~r.done => r.table = table /\ (table.lastRow # 0 => table.lastRow \in Rows(table))
      BY <1>1, OpenFacts, StoreSane
    <2>3. table' = r.table /\ db' = r.db /\ strayed' \in BOOLEAN /\ raced' \in BOOLEAN
      BY <2>1 DEF Take
    <2>4. selected' \subseteq Rows(table') /\ deleteTool' \in BOOLEAN
      BY <2>1, <2>2, <2>3, SelectionKept
    <2>5. table'.lastRow = 0 \/ (storeTool' /\ (strayed' \/ table'.lastRow \in Rows(table')))
      BY <1>1, <2>1, <2>2, <2>3, OpenFacts
    <2>6. storeTool' \in BOOLEAN /\ cursor' \in Rows(table') /\ doomed' \subseteq Rows(table')
      BY <1>1, <2>1, <2>2, <2>3, OpenFacts
    <2> QED
      BY <1>1, <2>2, <2>3, <2>4, <2>5, <2>6, OpenFacts, Edited DEF loadVars
  <1> QED
    BY <1>2, <1>3

LEMMA SaveStep == IInv /\ (OnSave \/ Select) => IInv'
  <1> SUFFICES ASSUME IInv, OnSave \/ Select PROVE IInv'
    OBVIOUS
  <1>1. table # NoTable /\ UNCHANGED <<cursor, doomed, loadVars>>
    BY DEF OnSave, Select, Ready, Open
  <1>2. PICK r \in StoreLine(table) :
           /\ Take(r, FALSE)
           /\ storeTool' = (storeTool /\ ~r.done)
           /\ \/ SelectionAfter(r, selected)
              \/ /\ deleteTool' \in BOOLEAN
                 /\ \/ selected' \subseteq Rows(table)
                    \/ ~r.done /\ r.table.lastRow # 0 /\ selected' = {r.table.lastRow}
    <2>1. CASE OnSave
      BY <2>1 DEF OnSave
    <2>2. CASE Select
      BY <2>2 DEF Select, Deletable
    <2> QED
      BY <2>1, <2>2
  <1>3. /\ Sane(r.table) /\ r.db \subseteq Keys /\ r.done \in BOOLEAN
        /\ Rows(table) \subseteq Rows(r.table)
        /\ r.done => r.table.lastRow = 0
        /\ ~r.done => r.table = table /\ (table.lastRow # 0 => table.lastRow \in Rows(table))
    BY <1>1, OpenFacts, StoreSane
  <1>4. table' = r.table /\ db' = r.db /\ strayed' \in BOOLEAN /\ raced' \in BOOLEAN
    BY <1>2 DEF Take
  <1>5. selected \subseteq Rows(r.table)
    BY <1>1, <1>3, OpenFacts
  <1>6. selected' \subseteq Rows(table') /\ deleteTool' \in BOOLEAN
    BY <1>2, <1>3, <1>4, <1>5, SelectionKept
  <1>7. table'.lastRow = 0 \/ (storeTool' /\ (strayed' \/ table'.lastRow \in Rows(table')))
    BY <1>1, <1>2, <1>3, <1>4, OpenFacts
  <1>8. storeTool' \in BOOLEAN /\ cursor' \in Rows(table') /\ doomed' \subseteq Rows(table')
    BY <1>1, <1>2, <1>3, <1>4, OpenFacts
  <1> QED
    BY <1>1, <1>3, <1>4, <1>6, <1>7, <1>8, OpenFacts, Edited DEF loadVars

LEMMA TypeStep == IInv /\ Type => IInv'
  <1> SUFFICES ASSUME IInv, Type PROVE IInv'
    OBVIOUS
  <1>1. table # NoTable /\ UNCHANGED <<cursor, doomed, loadVars>> /\ storeTool' = TRUE
    BY DEF Type, Ready, Open
  <1>2. PICK value \in Keys \cup {NoKey}, r \in StoreOther(cursor) :
           /\ Take([r EXCEPT !.table = SetValue(r.table, cursor, value)], ~r.done)
           /\ SelectionAfter(r, selected)
    BY DEF Type
  <1>3. /\ Sane(r.table) /\ r.db \subseteq Keys /\ r.done \in BOOLEAN
        /\ r = Result(r.table, r.db, r.done)
        /\ Rows(table) \subseteq Rows(r.table)
        /\ ~r.done => r.table = table /\ (table.lastRow # 0 => table.lastRow \in Rows(table))
    <2>1. CASE table.lastRow \in {0, cursor}
      <3>1. r = Result(table, db, TRUE)
        BY <2>1 DEF StoreOther
      <3>2. r.table = table /\ r.db = db /\ r.done = TRUE
        BY <3>1 DEF Result
      <3> QED
        BY <1>1, <3>1, <3>2, OpenFacts
    <2>2. CASE table.lastRow \notin {0, cursor}
      <3>1. r \in StoreLine(table)
        BY <2>2 DEF StoreOther
      <3> QED
        BY <1>1, <3>1, OpenFacts, StoreSane
    <2> QED
      BY <2>1, <2>2
  <1> DEFINE t == SetValue(r.table, cursor, value)
  <1>4. cursor \in Rows(r.table) /\ value \in Cols
    BY <1>1, <1>3, OpenFacts DEF Cols
  <1>5. Sane(t) /\ NumberRows(t) = NumberRows(r.table) /\ t.lastRow = cursor
    BY <1>3, <1>4, SetSane
  <1> HIDE DEF t
  <1>6. [r EXCEPT !.table = t] = Result(t, r.db, r.done)
    BY <1>3 DEF Result
  <1>7. Take(Result(t, r.db, r.done), ~r.done)
    BY <1>2, <1>6 DEF t
  <1>8. table' = t /\ db' = r.db /\ strayed' \in BOOLEAN /\ raced' \in BOOLEAN
    BY <1>7 DEF Take, Result
  <1>9. Rows(t) = Rows(r.table)
    BY <1>5 DEF Rows
  <1>10. selected \subseteq Rows(r.table)
    BY <1>1, <1>3, OpenFacts
  <1>11. selected' \subseteq Rows(r.table) /\ deleteTool' \in BOOLEAN
    BY <1>2, <1>3, <1>10, SelectionKept
  <1>12. /\ selected' \subseteq Rows(table') /\ cursor' \in Rows(table')
         /\ doomed' \subseteq Rows(table') /\ table'.lastRow \in Rows(table')
    BY <1>1, <1>3, <1>4, <1>5, <1>8, <1>9, <1>11, OpenFacts
  <1> QED
    BY <1>1, <1>3, <1>5, <1>8, <1>11, <1>12, OpenFacts, Edited DEF loadVars

LEMMA UndoStep == IInv /\ OnUndo => IInv'
  <1> SUFFICES ASSUME IInv, OnUndo PROVE IInv'
    OBVIOUS
  <1> DEFINE t == UndoLine(table, cursor)
  <1>1. /\ table # NoTable /\ storeTool' = FALSE
        /\ UNCHANGED <<cursor, selected, deleteTool, doomed, loadVars>>
    BY DEF OnUndo, Ready, Open
  <1>2. Sane(t) /\ NumberRows(t) = NumberRows(table) /\ t.lastRow = 0
    BY <1>1, OpenFacts, UndoSane
  <1>3. /\ table' = t /\ db' = db /\ strayed' \in BOOLEAN /\ raced' \in BOOLEAN
    BY DEF OnUndo, Take, Result
  <1> HIDE DEF t
  <1>4. Rows(t) = Rows(table)
    BY <1>2 DEF Rows
  <1> QED
    BY <1>1, <1>2, <1>3, <1>4, OpenFacts, Edited DEF loadVars

\* Rows are deleted from the last to the first: those still to go keep their
\* numbers.
LEMMA DeleteStep == IInv /\ DeleteNext => IInv'
  <1> SUFFICES ASSUME IInv, DeleteNext PROVE IInv'
    OBVIOUS
  <1> DEFINE row == Last(doomed)
             n == NumberRows(table)
  <1>1. doomed # {} /\ window = "open" /\ UNCHANGED <<storeTool, deleteTool, loadVars>>
    BY DEF DeleteNext
  <1>2. table # NoTable
    BY <1>1 DEF IInv
  <1>3. PICK r \in DeleteRow(table, row) :
          /\ Take(r, r.done /\ row <= table.lastRow)
          /\ doomed' \in IF r.done THEN {doomed \ {row}} ELSE {doomed \ {row}, {}}
          /\ selected' = IF r.done THEN {IF i > row THEN i - 1 ELSE i : i \in selected \ {row}}
                         ELSE selected
          /\ cursor' = IF cursor <= NumberRows(r.table) THEN cursor ELSE 1
    BY DEF DeleteNext
  <1>4. n \in Nat \ {0} /\ Rows(table) = 1..n
    BY <1>2, OpenFacts
  <1>5. row \in doomed /\ row \in 1..n /\ \A other \in doomed : other \in 1..n /\ other <= row
    BY <1>1, <1>2, <1>4, OpenFacts, LastRow
  <1>6. /\ Sane(r.table) /\ r.db \subseteq Keys /\ r.done \in BOOLEAN
        /\ r.table.lastRow = table.lastRow
        /\ r.done => NumberRows(r.table) = n - 1 /\ row # n
        /\ ~r.done => NumberRows(r.table) = n
    BY <1>2, <1>4, <1>5, OpenFacts, DeleteSane
  <1>7. table' = r.table /\ db' = r.db /\ strayed' \in BOOLEAN /\ raced' \in BOOLEAN
    BY <1>3 DEF Take
  <1>8. strayed' = (strayed \/ (r.done /\ row <= table.lastRow))
    BY <1>3 DEF Take
  <1>9. Rows(table') = 1..NumberRows(r.table) /\ NumberRows(r.table) \in Nat \ {0}
    BY <1>6, <1>7, SaneFacts
  <1> HIDE DEF row, n
  <1>10. cursor \in 1..n /\ selected \subseteq 1..n
    BY <1>2, <1>4, OpenFacts
  <1>11. cursor' \in Rows(table')
    BY <1>3, <1>9, <1>10
  <1>12. doomed' \subseteq Rows(table')
    <2>1. CASE ~r.done
      BY <1>3, <1>5, <1>6, <1>9, <2>1
    <2>2. CASE r.done
      <3>1. \A other \in doomed \ {row} : other \in 1..(n - 1)
        BY <1>4, <1>5
      <3> QED
        BY <1>3, <1>6, <1>9, <2>2, <3>1
    <2> QED
      BY <2>1, <2>2
  <1>13. selected' \subseteq Rows(table')
    <2>1. CASE ~r.done
      BY <1>3, <1>6, <1>9, <1>10, <2>1
    <2>2. CASE r.done
      <3>1. ASSUME NEW i \in selected \ {row}
            PROVE  (IF i > row THEN i - 1 ELSE i) \in 1..(n - 1)
        <4>1. i \in 1..n /\ i # row /\ row \in 1..n /\ row # n /\ n \in Nat
          BY <1>4, <1>5, <1>6, <1>10, <2>2, <3>1
        <4> QED
          BY <4>1
      <3> QED
        BY <1>3, <1>6, <1>9, <2>2, <3>1
    <2> QED
      BY <2>1, <2>2
  <1>14. table'.lastRow = 0 \/ (storeTool' /\ (strayed' \/ table'.lastRow \in Rows(table')))
    <2>1. table.lastRow = 0 \/ (storeTool /\ (strayed \/ table.lastRow \in 1..n))
      BY <1>2, <1>4, OpenFacts
    <2>2. table'.lastRow = table.lastRow /\ storeTool' = storeTool
      BY <1>1, <1>6, <1>7
    <2>3. CASE ~r.done
      BY <1>6, <1>8, <1>9, <2>1, <2>2, <2>3
    <2>4. CASE r.done
      <3>1. table.lastRow \in 1..n /\ ~(row <= table.lastRow) => table.lastRow \in 1..(n - 1)
        BY <1>4, <1>5
      <3> QED
        BY <1>6, <1>8, <1>9, <2>1, <2>2, <2>4, <3>1
    <2> QED
      BY <1>6, <2>3, <2>4
  <1> QED
    BY <1>1, <1>2, <1>6, <1>7, <1>11, <1>12, <1>13, <1>14, OpenFacts, Edited DEF loadVars

\* Whatever the answer to the question about unsaved data, what is not stored
\* can still be.
LEMMA AskedFacts ==
    ASSUME IInv, table # NoTable, NEW undo \in BOOLEAN, NEW a \in Asked(undo)
    PROVE  /\ Sane(a.table) /\ a.db \subseteq Keys
           /\ a.done \in BOOLEAN /\ a.stray \in BOOLEAN /\ a.tool \in BOOLEAN
           /\ a = Answer(a.table, a.db, a.done, a.stray, a.tool)
           /\ Rows(table) \subseteq Rows(a.table)
           /\ a.table.lastRow = 0 \/ (a.tool /\ (strayed \/ a.table.lastRow \in Rows(a.table)))
           /\ ~a.done /\ a.table.lastRow # 0 => a.table.lastRow \in Rows(a.table)
  <1>1. CASE ~storeTool
    <2>1. a = Answer(table, db, TRUE, FALSE, FALSE)
      BY <1>1 DEF Asked
    <2>2. /\ a.table = table /\ a.db = db /\ a.done = TRUE /\ a.stray = FALSE /\ a.tool = FALSE
          /\ a = Answer(a.table, a.db, a.done, a.stray, a.tool)
      BY <2>1 DEF Answer
    <2> QED
      BY <1>1, <2>2, OpenFacts
  <1>2. CASE storeTool
    <2>1. CASE \E r \in StoreLine(table) : a = Answer(r.table, r.db, r.done, FALSE, ~r.done)
      <3>1. PICK r \in StoreLine(table) : a = Answer(r.table, r.db, r.done, FALSE, ~r.done)
        BY <2>1
      <3>2. /\ Sane(r.table) /\ r.db \subseteq Keys /\ r.done \in BOOLEAN
            /\ Rows(table) \subseteq Rows(r.table)
            /\ r.done => r.table.lastRow = 0
            /\ ~r.done => r.table = table /\ (table.lastRow # 0 => table.lastRow \in Rows(table))
        BY OpenFacts, StoreSane
      <3>3. /\ a.table = r.table /\ a.db = r.db /\ a.done = r.done /\ a.stray = FALSE
            /\ a.tool = ~r.done /\ a = Answer(a.table, a.db, a.done, a.stray, a.tool)
        BY <3>1 DEF Answer
      <3> QED
        BY <3>2, <3>3
    <2>2. CASE a = Answer(UndoLine(table, cursor), db, TRUE, table.lastRow \notin {0, cursor}, FALSE)
      <3> DEFINE t == UndoLine(table, cursor)
      <3>1. Sane(t) /\ NumberRows(t) = NumberRows(table) /\ t.lastRow = 0
        BY OpenFacts, UndoSane
      <3> HIDE DEF t
      <3>2. /\ a.table = t /\ a.db = db /\ a.done = TRUE /\ a.stray \in BOOLEAN /\ a.tool = FALSE
            /\ a = Answer(a.table, a.db, a.done, a.stray, a.tool)
        BY <2>2 DEF Answer, t
      <3>3. Rows(t) = Rows(table)
        BY <3>1 DEF Rows
      <3> QED
        BY <3>1, <3>2, <3>3, OpenFacts
    <2>3. CASE a = Answer(table, db, TRUE, FALSE, TRUE)
      <3>1. /\ a.table = table /\ a.db = db /\ a.done = TRUE /\ a.stray = FALSE /\ a.tool = TRUE
            /\ a = Answer(a.table, a.db, a.done, a.stray, a.tool)
        BY <2>3 DEF Answer
      <3> QED
        BY <3>1, OpenFacts
    <2> QED
      BY <1>2, <2>1, <2>2, <2>3 DEF Asked
  <1> QED
    BY <1>1, <1>2, OpenFacts

LEMMA RefreshStep == \A undo \in BOOLEAN : IInv /\ OnRefresh(undo) => IInv'
  <1> SUFFICES ASSUME NEW undo \in BOOLEAN, IInv, OnRefresh(undo) PROVE IInv'
    OBVIOUS
  <1>1. table # NoTable /\ UNCHANGED <<cursor, doomed, window>>
    BY DEF OnRefresh, Ready, Open
  <1>2. PICK a \in Asked(undo) :
           /\ Take(a, a.stray) /\ storeTool' = a.tool
           /\ SelectionAfter(a, selected)
           /\ Go \/ UNCHANGED <<load, answer>>
    BY DEF OnRefresh
  <1>3. /\ Sane(a.table) /\ a.db \subseteq Keys
        /\ a.done \in BOOLEAN /\ a.stray \in BOOLEAN /\ a.tool \in BOOLEAN
        /\ Rows(table) \subseteq Rows(a.table)
        /\ a.table.lastRow = 0 \/ (a.tool /\ (strayed \/ a.table.lastRow \in Rows(a.table)))
        /\ ~a.done /\ a.table.lastRow # 0 => a.table.lastRow \in Rows(a.table)
    BY <1>1, AskedFacts
  <1>4. /\ table' = a.table /\ db' = a.db /\ strayed' = (strayed \/ a.stray)
        /\ strayed' \in BOOLEAN /\ raced' \in BOOLEAN
    BY <1>2 DEF Take
  <1>5. selected \subseteq Rows(a.table)
    BY <1>1, <1>3, OpenFacts
  <1>6. selected' \subseteq Rows(table') /\ deleteTool' \in BOOLEAN
    BY <1>2, <1>3, <1>4, <1>5, SelectionKept
  <1>7. load' \in {"idle", "running", "answered", "failed"} /\ answer' \in Seq(Keys)
    BY <1>1, <1>2, OpenFacts DEF Go
  <1>8. table'.lastRow = 0 \/ (storeTool' /\ (strayed' \/ table'.lastRow \in Rows(table')))
    BY <1>2, <1>3, <1>4
  <1>9. storeTool' \in BOOLEAN /\ cursor' \in Rows(table') /\ doomed' \subseteq Rows(table')
    BY <1>1, <1>2, <1>3, <1>4, OpenFacts
  <1> QED
    BY <1>1, <1>3, <1>4, <1>6, <1>7, <1>8, <1>9, OpenFacts, Edited

LEMMA PasteStep == IInv /\ OnPaste => IInv'
  <1> SUFFICES ASSUME IInv, OnPaste PROVE IInv'
    OBVIOUS
  <1>1. table # NoTable /\ UNCHANGED <<doomed, loadVars>>
    BY DEF OnPaste, Ready, Open
  <1>2. PICK a \in Asked(TRUE), value \in Keys \cup {NoKey} :
          IF a.done
          THEN LET row == NumberRows(a.table) IN
               /\ Take([a EXCEPT !.table = SetValue(a.table, row, value)], a.stray)
               /\ cursor' = row
               /\ storeTool' = TRUE
               /\ UNCHANGED <<selected, deleteTool>>
          ELSE /\ Take(a, FALSE)
               /\ SelectionAfter(a, selected)
               /\ storeTool' = a.tool
               /\ UNCHANGED cursor
    BY DEF OnPaste
  <1>3. /\ Sane(a.table) /\ a.db \subseteq Keys
        /\ a.done \in BOOLEAN /\ a.stray \in BOOLEAN /\ a.tool \in BOOLEAN
        /\ a = Answer(a.table, a.db, a.done, a.stray, a.tool)
        /\ Rows(table) \subseteq Rows(a.table)
        /\ a.table.lastRow = 0 \/ (a.tool /\ (strayed \/ a.table.lastRow \in Rows(a.table)))
        /\ ~a.done /\ a.table.lastRow # 0 => a.table.lastRow \in Rows(a.table)
    BY <1>1, AskedFacts
  <1>4. selected \subseteq Rows(a.table) /\ cursor \in Rows(a.table) /\ doomed \subseteq Rows(a.table)
    BY <1>1, <1>3, OpenFacts
  <1>5. CASE a.done
    <2> DEFINE row == NumberRows(a.table)
               t == SetValue(a.table, row, value)
    <2>1. row \in Rows(a.table) /\ value \in Cols
      BY <1>3, SaneFacts DEF Cols
    <2>2. Sane(t) /\ NumberRows(t) = NumberRows(a.table) /\ t.lastRow = row
      BY <1>3, <2>1, SetSane
    <2> HIDE DEF t
    <2>3. [a EXCEPT !.table = t] = Answer(t, a.db, a.done, a.stray, a.tool)
      BY <1>3 DEF Answer
    <2>4. Take(Answer(t, a.db, a.done, a.stray, a.tool), a.stray)
      BY <1>2, <1>5, <2>3 DEF t
    <2>5. table' = t /\ db' = a.db /\ strayed' \in BOOLEAN /\ raced' \in BOOLEAN
      BY <2>4 DEF Take, Answer
    <2>6. Rows(t) = Rows(a.table)
      BY <2>2 DEF Rows
    <2>7. cursor' = row /\ storeTool' = TRUE /\ UNCHANGED <<selected, deleteTool>>
      BY <1>2, <1>5
    <2> HIDE DEF row
    <2> QED
      BY <1>1, <1>3, <1>4, <2>1, <2>2, <2>5, <2>6, <2>7, OpenFacts, Edited DEF loadVars
  <1>6. CASE ~a.done
    <2>1. /\ Take(a, FALSE) /\ SelectionAfter(a, selected) /\ storeTool' = a.tool
          /\ UNCHANGED cursor
      BY <1>2, <1>6
    <2>2. table' = a.table /\ db' = a.db /\ strayed' = strayed /\ raced' \in BOOLEAN
      BY <1>1, <2>1, OpenFacts DEF Take
    <2>3. selected' \subseteq Rows(table') /\ deleteTool' \in BOOLEAN
      BY <1>3, <1>4, <2>1, <2>2, SelectionKept
    <2> QED
      BY <1>1, <1>3, <1>4, <2>1, <2>2, <2>3, OpenFacts, Edited DEF loadVars
  <1> QED
    BY <1>3, <1>5, <1>6

\* The rows come in some order.
LEMMA OrdersFacts ==
    ASSUME db \subseteq Keys, NEW s \in Orders(db)
    PROVE  s \in Seq(Keys)
  <1>1. Cardinality(db) \in Nat
    BY KeysAssumption, FS_Subset, FS_CardinalityType
  <1>2. s \in [1..Cardinality(db) -> Keys]
    BY DEF Orders
  <1> QED
    BY <1>1, <1>2

LEMMA LoadedStep == IInv /\ Loaded => IInv'
  <1> SUFFICES ASSUME IInv, Loaded PROVE IInv'
    OBVIOUS
  <1>1. /\ doomed = {} /\ load' = "idle" /\ answer' = <<>> /\ cursor' = 1 /\ selected' = {}
        /\ strayed' = raced /\ raced' = FALSE
        /\ UNCHANGED <<db, storeTool, deleteTool, doomed, window>>
    BY DEF Loaded
  <1>2. /\ db \subseteq Keys /\ storeTool \in BOOLEAN /\ deleteTool \in BOOLEAN
        /\ raced \in BOOLEAN /\ answer \in Seq(Keys) /\ window \in {"open", "closed"}
        /\ <<>> \in Seq(Keys)
    BY DEF IInv, TypeOK
  <1>3. CASE table' = NoTable
    BY <1>1, <1>2, <1>3, Emptied
  <1>4. CASE table' # NoTable
    <2>1. table' = NewTable(answer)
      BY <1>4 DEF Loaded
    <2>2. Sane(table') /\ 1 \in Rows(table') /\ table'.lastRow = 0
      BY <1>2, <2>1, NewSane
    <2> QED
      BY <1>1, <1>2, <2>2, Edited
  <1> QED
    BY <1>3, <1>4

LEMMA CloseStep == IInv /\ OnClose => IInv'
  <1> SUFFICES ASSUME IInv, OnClose PROVE IInv'
    OBVIOUS
  <1>1. doomed = {} /\ window = "open"
    BY DEF OnClose
  <1>2. /\ db \subseteq Keys /\ storeTool \in BOOLEAN /\ deleteTool \in BOOLEAN
        /\ strayed \in BOOLEAN /\ raced \in BOOLEAN /\ <<>> \in Seq(Keys)
    BY DEF IInv, TypeOK
  <1>3. CASE table = NoTable \/ table.lastRow = 0
    <2>1. /\ window' = "closed" /\ load' = "idle" /\ answer' = <<>> /\ table' = NoTable
          /\ UNCHANGED <<db, editVars, ghostVars>>
      BY <1>3 DEF OnClose
    <2> QED
      BY <1>1, <1>2, <2>1, Emptied DEF editVars, ghostVars
  <1>4. CASE ~(table = NoTable \/ table.lastRow = 0)
    <2>1. PICK r \in StoreLine(table), refuse \in BOOLEAN :
            /\ db' = r.db
            /\ storeTool' = ~r.done
            /\ IF r.done \/ ~refuse
               THEN /\ window' = "closed" /\ load' = "idle" /\ answer' = <<>>
                    /\ table' = NoTable
                    /\ UNCHANGED <<selected, deleteTool>>
               ELSE /\ table' = r.table
                    /\ SelectionAfter(r, selected)
                    /\ UNCHANGED loadVars
      BY <1>4 DEF OnClose
    <2>2. /\ Sane(r.table) /\ r.db \subseteq Keys /\ r.done \in BOOLEAN
          /\ Rows(table) \subseteq Rows(r.table)
          /\ r.done => r.table.lastRow = 0
          /\ ~r.done => r.table = table /\ (table.lastRow # 0 => table.lastRow \in Rows(table))
      BY <1>4, OpenFacts, StoreSane
    <2>3. UNCHANGED <<cursor, doomed, ghostVars>>
      BY <1>4 DEF OnClose
    <2>4. CASE r.done \/ ~refuse
      BY <1>1, <1>2, <2>1, <2>2, <2>3, <2>4, Emptied DEF ghostVars
    <2>5. CASE ~(r.done \/ ~refuse)
      <3>1. table' = r.table /\ SelectionAfter(r, selected) /\ UNCHANGED loadVars
        BY <2>1, <2>5
      <3>2. selected \subseteq Rows(r.table) /\ cursor \in Rows(r.table)
        BY <1>4, <2>2, OpenFacts
      <3>3. selected' \subseteq Rows(table') /\ deleteTool' \in BOOLEAN
        BY <2>2, <3>1, <3>2, SelectionKept
      <3> QED
        BY <1>1, <1>2, <1>4, <2>1, <2>2, <2>3, <2>5, <3>1, <3>2, <3>3, OpenFacts, Edited
           DEF loadVars, ghostVars
    <2> QED
      BY <2>4, <2>5
  <1> QED
    BY <1>3, <1>4

LEMMA InitInv == Init => IInv
  <1> SUFFICES ASSUME Init PROVE IInv
    OBVIOUS
  <1>1. table = NoTable /\ doomed = {}
    BY DEF Init
  <1>2. answer \in Seq(Keys)
    BY DEF Init
  <1>3. TypeOK
    BY <1>1, <1>2 DEF Init, TypeOK
  <1> QED
    BY <1>1, <1>3 DEF IInv, PendingKeepsStore

LEMMA NextInv == IInv /\ [Next]_vars => IInv'
  <1> SUFFICES ASSUME IInv, [Next]_vars PROVE IInv'
    OBVIOUS
  <1>1. CASE UNCHANGED vars
    BY <1>1 DEF vars, editVars, loadVars, ghostVars, IInv, TypeOK, PendingKeepsStore
  <1>2. CASE MoveCursor \/ OnSave \/ Select \/ Type \/ OnUndo \/ OnPaste
    BY <1>2, MoveStep, SaveStep, TypeStep, UndoStep, PasteStep
  <1>3. CASE EditorShown
    <2>1. /\ table # NoTable /\ storeTool' = TRUE
          /\ UNCHANGED <<db, table, cursor, selected, deleteTool, doomed, loadVars, ghostVars>>
      BY <1>3 DEF EditorShown, Ready, Open
    <2> QED
      BY <2>1, OpenFacts, Edited DEF loadVars, ghostVars
  <1>4. CASE OnDelete
    <2>1. /\ table # NoTable /\ doomed' = selected
          /\ UNCHANGED <<db, table, cursor, selected, storeTool, deleteTool, loadVars, ghostVars>>
      BY <1>4 DEF OnDelete, Ready, Open
    <2> QED
      BY <2>1, OpenFacts, Edited DEF loadVars, ghostVars
  <1>5. CASE OnRefresh(TRUE) \/ OnRefresh(FALSE)
    BY <1>5, RefreshStep
  <1>6. CASE OnFilter \/ OnRetry
    <2>1. Go /\ UNCHANGED <<db, table, editVars, window, ghostVars>>
      BY <1>6 DEF OnFilter, OnRetry
    <2>2. load' \in {"idle", "running", "answered", "failed"} /\ answer' \in Seq(Keys)
      BY <2>1 DEF Go, IInv, TypeOK
    <2> QED
      BY <2>1, <2>2, Waited DEF IInv, TypeOK
  <1>7. CASE OnClose \/ Show \/ DeleteNext \/ Loaded
    BY <1>7, CloseStep, ShowStep, DeleteStep, LoadedStep
  <1>8. CASE Fetch
    <2>1. UNCHANGED <<db, table, editVars, window, ghostVars>>
      BY <1>8 DEF Fetch
    <2>2. load' \in {"idle", "running", "answered", "failed"}
      BY <1>8 DEF Fetch
    <2>3. answer' \in Seq(Keys)
      BY <1>8, OrdersFacts DEF Fetch, IInv, TypeOK
    <2> QED
      BY <2>1, <2>2, <2>3, Waited DEF IInv, TypeOK
  <1>9. CASE Closed
    BY <1>1, <1>9 DEF Closed
  <1> QED
    BY <1>1, <1>2, <1>3, <1>4, <1>5, <1>6, <1>7, <1>8, <1>9 DEF Next, User

\* The counters of the table fit its lines, whatever the handlers do to it.
THEOREM Invariance == Spec => []IInv
  <1> QED
    BY InitInv, NextInv, PTL DEF Spec

\* Every variable of the edit grid keeps its type, and the rows of the cursor,
\* of the selection and of those to be deleted exist.
THEOREM GridTypes == Spec => []TypeOK
  <1>1. IInv => TypeOK
    BY DEF IInv
  <1> QED
    BY <1>1, Invariance, PTL

\* While a row has changes that were not stored, Save is enabled, so what
\* closes the window or replaces the table asks.
THEOREM StoreStaysOffered == Spec => []PendingKeepsStore
  <1>1. IInv => PendingKeepsStore
    BY DEF IInv
  <1> QED
    BY <1>1, Invariance, PTL

\* Through inserts, pastes and deletions that fail or succeed, the last row
\* and no other waits for an insert.
THEOREM OneEmptyLine == Spec => []OneAsterisk
  <1>1. IInv => OneAsterisk
    BY LastIsEmpty DEF IInv, OneAsterisk, Sane, Added
  <1> QED
    BY <1>1, Invariance, PTL

\* The thread that holds the result is there until its last line was read, and
\* no longer.
THEOREM DatasetStays == Spec => []DatasetWhileNeeded
  <1>1. IInv => DatasetWhileNeeded
    BY Unread DEF IInv, DatasetWhileNeeded
  <1> QED
    BY <1>1, Invariance, PTL

-----------------------------------------------------------------------------
(* Each row of the grid has a row of the table                             *)

ReadOnly(t, row) == GetLine(t, row).readOnly
KeyIn(t, row) == IF row = t.lastRow THEN t.savedLine ELSE GetLine(t, row).cols

\* No two rows share a line, and what must not be touched was stored.
Mapped(t) ==
    /\ \A a, b \in 1..DataRows(t) : t.lineIndex[a] = t.lineIndex[b] => a = b
    /\ \A i \in DOMAIN t.data : ~t.data[i].readOnly
    /\ \A i \in Pool : t.addPool[i].readOnly => t.addPool[i].stored

\* The rows of the grid against the keys in the database.
Own(t, d) ==
    /\ NumberRows(t) = Cardinality(d) + 1
    /\ \A row \in 1..(NumberRows(t) - 1) :
          ReadOnly(t, row) \/ (/\ KeyIn(t, row) \in d
                               /\ \A other \in 1..(NumberRows(t) - 1) :
                                     other # row => KeyIn(t, other) # KeyIn(t, row))
    /\ \A row \in Rows(t) : ReadOnly(t, row) => GetLine(t, row).cols = NoKey
    /\ t.lastRow # 0 => t.lastRow \in Rows(t) /\ ~ReadOnly(t, t.lastRow)

\* The line that was written is the line of that row and of no other.
LEMMA PutLines ==
    ASSUME NEW t, Sane(t), Mapped(t), NEW row \in Rows(t), NEW line \in Line
    PROVE  /\ \A r \in Rows(t) : GetLine(PutLine(t, row, line), r) =
                                    IF r = row THEN line ELSE GetLine(t, r)
           /\ PutLine(t, row, line).savedLine = t.savedLine
  <1> DEFINE u == PutLine(t, row, line)
             i == t.lineIndex[row]
             j == row - DataRows(t)
  <1>1. /\ t \in Tables /\ Rows(t) = 1..NumberRows(t) /\ NumberRows(t) \in Nat
        /\ DataRows(t) \in Nat /\ DOMAIN t.data = 1..Len(t.data)
        /\ \A r \in 1..DataRows(t) : t.lineIndex[r] \in DOMAIN t.data
    BY SaneFacts DEF Sane
  <1>2. CASE row <= DataRows(t)
    <2>1. row \in 1..DataRows(t) /\ i \in DOMAIN t.data
      BY <1>1, <1>2
    <2>2. u = [t EXCEPT !.data = [t.data EXCEPT ![i] = line]]
      BY <1>2 DEF PutLine
    <2>3. /\ u.data = [t.data EXCEPT ![i] = line] /\ u.lineIndex = t.lineIndex
          /\ u.rowsDeleted = t.rowsDeleted /\ u.addPool = t.addPool
          /\ u.savedLine = t.savedLine
      BY <1>1, <2>2 DEF Tables
    <2>4. t.data \in Seq(Line)
      BY <1>1 DEF Tables
    <2>5. Len(u.data) = Len(t.data)
      BY <2>1, <2>3, <2>4, ExceptSeq
    <2> HIDE DEF u
    <2>6. DataRows(u) = DataRows(t)
      BY <2>3, <2>5 DEF DataRows
    <2>7. ASSUME NEW r \in Rows(t)
          PROVE  GetLine(u, r) = IF r = row THEN line ELSE GetLine(t, r)
      <3>1. CASE r <= DataRows(t)
        <4>1. r \in 1..DataRows(t) /\ t.lineIndex[r] \in DOMAIN t.data
          BY <1>1, <3>1
        <4>2. t.lineIndex[r] = i <=> r = row
          BY <2>1, <4>1 DEF Mapped
        <4>3. u.data[t.lineIndex[r]] = IF t.lineIndex[r] = i THEN line ELSE t.data[t.lineIndex[r]]
          BY <2>3, <4>1
        <4> HIDE DEF i
        <4> QED
          BY <2>3, <2>6, <3>1, <4>2, <4>3 DEF GetLine
      <3>2. CASE ~(r <= DataRows(t))
        BY <1>2, <2>3, <2>6, <3>2 DEF GetLine
      <3> QED
        BY <3>1, <3>2
    <2> QED
      BY <2>3, <2>7 DEF u
  <1>3. CASE ~(row <= DataRows(t))
    <2>1. j \in Pool
      BY <1>3, SaneFacts
    <2>2. u = [t EXCEPT !.addPool = [t.addPool EXCEPT ![j] = line]]
      BY <1>3 DEF PutLine
    <2>3. /\ u.data = t.data /\ u.lineIndex = t.lineIndex
          /\ u.rowsDeleted = t.rowsDeleted /\ u.addPool = [t.addPool EXCEPT ![j] = line]
          /\ u.savedLine = t.savedLine /\ t.addPool \in [Pool -> Line]
      BY <1>1, <2>2 DEF Tables
    <2> HIDE DEF u
    <2>4. DataRows(u) = DataRows(t)
      BY <2>3 DEF DataRows
    <2>5. ASSUME NEW r \in Rows(t)
          PROVE  GetLine(u, r) = IF r = row THEN line ELSE GetLine(t, r)
      <3>1. CASE r <= DataRows(t)
        BY <1>3, <2>3, <2>4, <3>1 DEF GetLine
      <3>2. CASE ~(r <= DataRows(t))
        <4>1. r - DataRows(t) \in Pool
          BY <3>2, SaneFacts
        <4>2. r - DataRows(t) = j <=> r = row
          BY <1>1
        <4>3. u.addPool[r - DataRows(t)] =
                 IF r - DataRows(t) = j THEN line ELSE t.addPool[r - DataRows(t)]
          BY <2>3, <4>1
        <4> HIDE DEF j
        <4> QED
          BY <2>4, <3>2, <4>2, <4>3 DEF GetLine
      <3> QED
        BY <3>1, <3>2
    <2> QED
      BY <2>3, <2>5 DEF u
  <1> QED
    BY <1>2, <1>3

\* A line is written that must be touched, and was stored, as much as before.
LEMMA PutMapped ==
    ASSUME NEW t, Sane(t), Mapped(t), NEW row \in Rows(t), NEW line \in Line,
           line.readOnly = GetLine(t, row).readOnly, line.stored \/ ~line.readOnly
    PROVE  Mapped(PutLine(t, row, line))
  <1> DEFINE u == PutLine(t, row, line)
             i == t.lineIndex[row]
             j == row - DataRows(t)
  <1>1. /\ t \in Tables /\ Rows(t) = 1..NumberRows(t) /\ NumberRows(t) \in Nat
        /\ DataRows(t) \in Nat /\ DOMAIN t.data = 1..Len(t.data)
        /\ \A r \in 1..DataRows(t) : t.lineIndex[r] \in DOMAIN t.data
    BY SaneFacts DEF Sane
  <1>2. CASE row <= DataRows(t)
    <2>1. row \in 1..DataRows(t) /\ i \in DOMAIN t.data
      BY <1>1, <1>2
    <2>2. u = [t EXCEPT !.data = [t.data EXCEPT ![i] = line]]
      BY <1>2 DEF PutLine
    <2>3. /\ u.data = [t.data EXCEPT ![i] = line] /\ u.lineIndex = t.lineIndex
          /\ u.rowsDeleted = t.rowsDeleted /\ u.addPool = t.addPool
      BY <1>1, <2>2 DEF Tables
    <2>4. t.data \in Seq(Line)
      BY <1>1 DEF Tables
    <2>5. Len(u.data) = Len(t.data) /\ DOMAIN u.data = DOMAIN t.data
      BY <2>1, <2>3, <2>4, ExceptSeq
    <2>6. ~line.readOnly
      BY <1>2, <2>1 DEF GetLine, Mapped
    <2> HIDE DEF u
    <2>7. DataRows(u) = DataRows(t)
      BY <2>3, <2>5 DEF DataRows
    <2>8. \A k \in DOMAIN u.data : ~u.data[k].readOnly
      BY <2>3, <2>5, <2>6 DEF Mapped
    <2> QED
      BY <2>3, <2>7, <2>8 DEF Mapped, u
  <1>3. CASE ~(row <= DataRows(t))
    <2>1. j \in Pool
      BY <1>3, SaneFacts
    <2>2. u = [t EXCEPT !.addPool = [t.addPool EXCEPT ![j] = line]]
      BY <1>3 DEF PutLine
    <2>3. /\ u.data = t.data /\ u.lineIndex = t.lineIndex
          /\ u.rowsDeleted = t.rowsDeleted /\ u.addPool = [t.addPool EXCEPT ![j] = line]
          /\ t.addPool \in [Pool -> Line]
      BY <1>1, <2>2 DEF Tables
    <2> HIDE DEF u, j
    <2>4. DataRows(u) = DataRows(t)
      BY <2>3 DEF DataRows
    <2>5. \A k \in Pool : u.addPool[k].readOnly => u.addPool[k].stored
      BY <2>3 DEF Mapped
    <2> QED
      BY <2>3, <2>4, <2>5 DEF Mapped, u
  <1> QED
    BY <1>2, <1>3

\* The row that waits for an insert may be touched.
LEMMA LastMayBeTouched ==
    ASSUME NEW t, Sane(t), Mapped(t)
    PROVE  NumberRows(t) \in Rows(t) /\ ~ReadOnly(t, NumberRows(t))
  <1>1. /\ NumberRows(t) \in Rows(t) /\ ~(NumberRows(t) <= DataRows(t))
        /\ DataRows(t) \in Nat
    BY SaneFacts
  <1>2. NumberRows(t) - DataRows(t) \in Pool
    BY <1>1, SaneFacts
  <1>3. t.rowsAdded \in Nat /\ NumberRows(t) - DataRows(t) = t.rowsAdded
    BY <1>1 DEF Sane, Tables, NumberRows
  <1>4. ~t.addPool[NumberRows(t) - DataRows(t)].stored
    BY <1>2, <1>3 DEF Sane, Added
  <1> QED
    BY <1>1, <1>2, <1>4 DEF ReadOnly, GetLine, Mapped

\* Reading a line shows what it is.
LEMMA FillMapped ==
    ASSUME NEW t, Sane(t), Mapped(t), NEW row \in Rows(t)
    PROVE  /\ Mapped(Fill(t, row))
           /\ Fill(t, row).savedLine = t.savedLine
           /\ \A r \in Rows(t) : /\ GetLine(Fill(t, row), r).cols = GetLine(t, r).cols
                                 /\ ReadOnly(Fill(t, row), r) = ReadOnly(t, r)
  <1> DEFINE line == GetLine(t, row)
             full == [line EXCEPT !.filled = TRUE, !.stored = TRUE]
             n == t.rowsCached + 1
             v == PutLine(t, row, full)
             u == Fill(t, row)
  <1>1. CASE line.filled
    BY <1>1 DEF Fill
  <1>2. CASE ~line.filled
    <2>1. row <= DataRows(t)
      <3>1. ~(row <= DataRows(t)) => row - DataRows(t) \in Pool
        BY SaneFacts
      <3> QED
        BY <1>2, <3>1 DEF GetLine, Added, Sane
    <2>2. DataRows(t) \in Nat /\ Rows(t) = 1..NumberRows(t) /\ NumberRows(t) \in Nat
      BY SaneFacts
    <2>3. row \in 1..DataRows(t) /\ t.lineIndex[row] \in DOMAIN t.data
      BY <2>1, <2>2, SaneFacts
    <2>4. t.thread /\ line \in Line /\ t \in Tables
      BY <1>2, <2>1, <2>3, Unread, SaneFacts DEF GetLine, Sane
    <2>5. full \in Line /\ full.stored /\ full.readOnly = line.readOnly /\ full.cols = line.cols
      BY <2>4 DEF Line
    <2> HIDE DEF full
    <2>6. u = [v EXCEPT !.rowsCached = n, !.thread = (n # Len(t.data))]
      BY <1>2, <2>4 DEF Fill, full
    <2>7. Mapped(v)
      BY <2>5, PutMapped
    <2>8. /\ v.savedLine = t.savedLine
          /\ \A r \in Rows(t) : GetLine(v, r) = IF r = row THEN full ELSE GetLine(t, r)
      BY <2>5, PutLines
    <2>9. v = [t EXCEPT !.data = [t.data EXCEPT ![t.lineIndex[row]] = full]]
      BY <2>1 DEF PutLine
    <2>10. u.data = v.data /\ u.lineIndex = v.lineIndex /\ u.rowsDeleted = v.rowsDeleted
           /\ u.addPool = v.addPool /\ u.savedLine = v.savedLine
      BY <2>4, <2>6, <2>9 DEF Tables
    <2> HIDE DEF u, v
    <2>11. DataRows(u) = DataRows(v)
      BY <2>10 DEF DataRows
    <2>12. Mapped(u)
      BY <2>7, <2>10, <2>11 DEF Mapped
    <2>13. \A r : GetLine(u, r) = GetLine(v, r)
      BY <2>10, <2>11 DEF GetLine
    <2> QED
      BY <2>5, <2>8, <2>10, <2>12, <2>13 DEF ReadOnly, u
  <1> QED
    BY <1>1, <1>2

\* What is true of the rows stays true if neither keys nor marks change.
LEMMA OwnKept ==
    ASSUME NEW t, NEW u, NEW d, Own(t, d), Rows(t) = 1..NumberRows(t), NumberRows(t) \in Nat,
           NumberRows(u) = NumberRows(t),
           \A r \in Rows(t) : ReadOnly(u, r) = ReadOnly(t, r),
           \A r \in 1..(NumberRows(t) - 1) : KeyIn(u, r) = KeyIn(t, r),
           \A r \in Rows(t) : ReadOnly(t, r) => GetLine(u, r).cols = GetLine(t, r).cols,
           u.lastRow # 0 => u.lastRow \in Rows(t) /\ ~ReadOnly(t, u.lastRow)
    PROVE  Own(u, d)
  <1>1. Rows(u) = Rows(t) /\ \A r \in 1..(NumberRows(t) - 1) : r \in Rows(t)
    BY DEF Rows
  <1>2. \A row \in 1..(NumberRows(u) - 1) :
           ReadOnly(u, row) \/ (/\ KeyIn(u, row) \in d
                                /\ \A other \in 1..(NumberRows(u) - 1) :
                                      other # row => KeyIn(u, other) # KeyIn(u, row))
    BY <1>1 DEF Own
  <1>3. \A row \in Rows(u) : ReadOnly(u, row) => GetLine(u, row).cols = NoKey
    BY <1>1 DEF Own
  <1> QED
    BY <1>1, <1>2, <1>3 DEF Own

LEMMA SameLines ==
    ASSUME NEW t, NEW v, v.data = t.data, v.lineIndex = t.lineIndex,
           v.rowsDeleted = t.rowsDeleted, v.addPool = t.addPool
    PROVE  /\ Mapped(t) => Mapped(v)
           /\ \A r : GetLine(v, r) = GetLine(t, r) /\ ReadOnly(v, r) = ReadOnly(t, r)
  <1>1. DataRows(v) = DataRows(t)
    BY DEF DataRows
  <1>2. \A r : GetLine(v, r) = GetLine(t, r)
    BY <1>1 DEF GetLine
  <1> QED
    BY <1>1, <1>2 DEF Mapped, ReadOnly

LEMMA FillOwn ==
    ASSUME NEW t, Sane(t), Mapped(t), NEW row \in Rows(t), NEW d, Own(t, d)
    PROVE  Own(Fill(t, row), d)
  <1> DEFINE u == Fill(t, row)
  <1>1. /\ NumberRows(u) = NumberRows(t) /\ u.lastRow = t.lastRow /\ u.savedLine = t.savedLine
        /\ \A r \in Rows(t) : /\ GetLine(u, r).cols = GetLine(t, r).cols
                              /\ ReadOnly(u, r) = ReadOnly(t, r)
    BY FillSane, FillMapped
  <1> HIDE DEF u
  <1>2. Rows(t) = 1..NumberRows(t) /\ NumberRows(t) \in Nat
    BY SaneFacts
  <1>3. \A r \in 1..(NumberRows(t) - 1) : r \in Rows(t)
    BY <1>2
  <1>4. \A r \in 1..(NumberRows(t) - 1) : KeyIn(u, r) = KeyIn(t, r)
    BY <1>1, <1>3 DEF KeyIn
  <1>5. u.lastRow # 0 => u.lastRow \in Rows(t) /\ ~ReadOnly(t, u.lastRow)
    BY <1>1 DEF Own
  <1>6. \A r \in Rows(t) : ReadOnly(u, r) = ReadOnly(t, r)
    BY <1>1
  <1>7. \A r \in Rows(t) : ReadOnly(t, r) => GetLine(u, r).cols = GetLine(t, r).cols
    BY <1>1
  <1>8. Own(u, d)
    BY <1>1, <1>2, <1>4, <1>5, <1>6, <1>7, OwnKept
  <1> QED
    BY <1>8 DEF u

\* The columns of a row are written.
LEMMA ColsWritten ==
    ASSUME NEW t, Sane(t), Mapped(t), NEW row \in Rows(t), NEW value \in Cols
    PROVE  LET new == [GetLine(t, row) EXCEPT !.cols = value]
               u == PutLine(t, row, new)
           IN  /\ Mapped(u) /\ u.savedLine = t.savedLine /\ u.lastRow = t.lastRow
               /\ NumberRows(u) = NumberRows(t) /\ u \in Tables
               /\ \A r \in Rows(t) : /\ ReadOnly(u, r) = ReadOnly(t, r)
                                     /\ GetLine(u, r).cols =
                                           IF r = row THEN value ELSE GetLine(t, r).cols
  <1> DEFINE line == GetLine(t, row)
             new == [line EXCEPT !.cols = value]
             u == PutLine(t, row, new)
  <1>1. line \in Line
    BY SaneFacts
  <1>2. /\ new \in Line /\ new.filled = line.filled /\ new.stored = line.stored
        /\ new.readOnly = line.readOnly /\ new.cols = value
    BY <1>1 DEF Line
  <1> HIDE DEF new
  <1>3. line.stored \/ ~line.readOnly
    <2>1. CASE row <= DataRows(t)
      <3>1. DataRows(t) \in Nat /\ Rows(t) = 1..NumberRows(t) /\ NumberRows(t) \in Nat
        BY SaneFacts
      <3>2. t.lineIndex[row] \in DOMAIN t.data
        BY <2>1, <3>1, SaneFacts
      <3> QED
        BY <2>1, <3>2 DEF GetLine, Mapped
    <2>2. CASE ~(row <= DataRows(t))
      BY <2>2, SaneFacts DEF GetLine, Mapped
    <2> QED
      BY <2>1, <2>2
  <1>4. Mapped(u)
    BY <1>2, <1>3, PutMapped
  <1>5. u.savedLine = t.savedLine /\ \A r \in Rows(t) : GetLine(u, r) = IF r = row THEN new ELSE GetLine(t, r)
    BY <1>2, PutLines
  <1>6. Sane(u) /\ u.lastRow = t.lastRow /\ NumberRows(u) = NumberRows(t)
    BY <1>2, PutSane
  <1>7. \A r \in Rows(t) : /\ ReadOnly(u, r) = ReadOnly(t, r)
                           /\ GetLine(u, r).cols = IF r = row THEN value ELSE GetLine(t, r).cols
    BY <1>2, <1>5 DEF ReadOnly
  <1> QED
    BY <1>4, <1>5, <1>6, <1>7 DEF new, Sane

\* SetValue keeps the key the row had in the database.
LEMMA SetOwn ==
    ASSUME NEW t, Sane(t), Mapped(t), NEW row \in Rows(t), NEW value \in Cols
    PROVE  /\ Mapped(SetValue(t, row, value))
           /\ \A d : /\ Own(t, d) /\ ~ReadOnly(t, row) /\ t.lastRow \in {0, row}
                     => Own(SetValue(t, row, value), d)
  <1> DEFINE line == GetLine(t, row)
             v == [t EXCEPT !.savedLine = line.cols, !.lastRow = row]
             new == [line EXCEPT !.cols = value]
             w == PutLine(t, row, new)
             u == SetValue(t, row, value)
  <1>1. /\ t \in Tables /\ line \in Line
        /\ Rows(t) = 1..NumberRows(t) /\ NumberRows(t) \in Nat /\ row \in Nat
    BY SaneFacts DEF Sane
  <1>2. /\ Mapped(w) /\ w.savedLine = t.savedLine /\ w.lastRow = t.lastRow
        /\ NumberRows(w) = NumberRows(t) /\ w \in Tables
        /\ \A r \in Rows(t) : /\ ReadOnly(w, r) = ReadOnly(t, r)
                              /\ GetLine(w, r).cols = IF r = row THEN value ELSE GetLine(t, r).cols
    BY ColsWritten
  <1>3. u = IF row = t.lastRow THEN w ELSE [w EXCEPT !.savedLine = line.cols, !.lastRow = row]
    <2>1. CASE row = t.lastRow
      BY <2>1 DEF SetValue
    <2>2. CASE row # t.lastRow
      <3>1. /\ v.lineIndex = t.lineIndex /\ v.addPool = t.addPool /\ v.data = t.data
            /\ v.rowsDeleted = t.rowsDeleted
        BY <1>1 DEF Tables
      <3>2. DataRows(v) = DataRows(t)
        BY <3>1 DEF DataRows
      <3>3. u = PutLine(v, row, new)
        BY <2>2 DEF SetValue
      <3> HIDE DEF new
      <3>4. PutLine(v, row, new) = [w EXCEPT !.savedLine = line.cols, !.lastRow = row]
        BY <1>1, <3>1, <3>2 DEF PutLine, Tables
      <3> HIDE DEF u, v, w
      <3> QED
        BY <2>2, <3>3, <3>4
    <2> HIDE DEF u, v, w
    <2> QED
      BY <2>1, <2>2
  <1> HIDE DEF new, w, v
  <1>4. /\ u.data = w.data /\ u.lineIndex = w.lineIndex /\ u.rowsDeleted = w.rowsDeleted
        /\ u.addPool = w.addPool /\ u.rowsAdded = w.rowsAdded /\ u.lastRow = row
        /\ u.savedLine = IF row = t.lastRow THEN t.savedLine ELSE line.cols
    BY <1>2, <1>3 DEF Tables
  <1> HIDE DEF u
  <1>5. /\ Mapped(u)
        /\ \A r : GetLine(u, r) = GetLine(w, r) /\ ReadOnly(u, r) = ReadOnly(w, r)
    BY <1>2, <1>4, SameLines
  <1>6. NumberRows(u) = NumberRows(t)
    <2>1. NumberRows(u) = NumberRows(w)
      BY <1>4 DEF NumberRows, DataRows
    <2> QED
      BY <1>2, <2>1
  <1>7. ASSUME NEW d, Own(t, d), ~ReadOnly(t, row), t.lastRow \in {0, row}
        PROVE  Own(u, d)
    <2>1. ASSUME NEW r \in Rows(t) PROVE KeyIn(u, r) = KeyIn(t, r)
      <3>1. CASE r = row
        BY <1>1, <1>4, <1>7, <3>1 DEF KeyIn
      <3>2. CASE r # row
        BY <1>1, <1>2, <1>4, <1>5, <1>7, <3>2 DEF KeyIn
      <3> QED
        BY <3>1, <3>2
    <2>2. \A r \in 1..(NumberRows(t) - 1) : r \in Rows(t)
      BY <1>1
    <2>3. \A r \in Rows(t) : ReadOnly(t, r) => GetLine(u, r).cols = GetLine(t, r).cols
      BY <1>2, <1>5, <1>7
    <2>4. \A r \in Rows(t) : ReadOnly(u, r) = ReadOnly(t, r)
      BY <1>2, <1>5
    <2> QED
      BY <1>1, <1>4, <1>6, <1>7, <2>1, <2>2, <2>3, <2>4, OwnKept
  <1> QED
    BY <1>5, <1>7 DEF u

\* UndoLine gives the row that was changed last its key back.
LEMMA UndoOwn ==
    ASSUME NEW t, Sane(t), Mapped(t), NEW row \in Rows(t)
    PROVE  /\ Mapped(UndoLine(t, row))
           /\ \A d : Own(t, d) /\ t.lastRow \in {0, row} => Own(UndoLine(t, row), d)
  <1> DEFINE line == GetLine(t, row)
             new == [line EXCEPT !.cols = t.savedLine]
             w == PutLine(t, row, new)
             u == [w EXCEPT !.lastRow = 0, !.savedLine = Empty]
  <1>1. CASE t.lastRow = 0
    BY <1>1 DEF UndoLine
  <1>2. CASE t.lastRow # 0
    <2>1. /\ t \in Tables /\ t.savedLine \in Cols
          /\ Rows(t) = 1..NumberRows(t) /\ NumberRows(t) \in Nat /\ row \in Nat
      BY SaneFacts DEF Sane, Tables
    <2>2. /\ Mapped(w) /\ w.savedLine = t.savedLine /\ w.lastRow = t.lastRow
          /\ NumberRows(w) = NumberRows(t) /\ w \in Tables
          /\ \A r \in Rows(t) : /\ ReadOnly(w, r) = ReadOnly(t, r)
                                /\ GetLine(w, r).cols =
                                      IF r = row THEN t.savedLine ELSE GetLine(t, r).cols
      BY <2>1, ColsWritten
    <2>3. UndoLine(t, row) = u
      BY <1>2 DEF UndoLine
    <2> HIDE DEF new, w
    <2>4. /\ u.data = w.data /\ u.lineIndex = w.lineIndex /\ u.rowsDeleted = w.rowsDeleted
          /\ u.addPool = w.addPool /\ u.rowsAdded = w.rowsAdded /\ u.lastRow = 0
      BY <2>2 DEF Tables
    <2> HIDE DEF u
    <2>5. /\ Mapped(u)
          /\ \A r : GetLine(u, r) = GetLine(w, r) /\ ReadOnly(u, r) = ReadOnly(w, r)
      BY <2>2, <2>4, SameLines
    <2>6. NumberRows(u) = NumberRows(t)
      <3>1. NumberRows(u) = NumberRows(w)
        BY <2>4 DEF NumberRows, DataRows
      <3> QED
        BY <2>2, <3>1
    <2>7. ASSUME NEW d, Own(t, d), t.lastRow \in {0, row}
          PROVE  Own(u, d)
      <3>1. t.lastRow = row /\ ~ReadOnly(t, row)
        BY <1>2, <2>7 DEF Own
      <3>2. ASSUME NEW r \in Rows(t) PROVE KeyIn(u, r) = KeyIn(t, r)
        <4>1. r # 0
          BY <2>1
        <4> QED
          BY <2>2, <2>4, <2>5, <3>1, <4>1 DEF KeyIn
      <3>3. \A r \in 1..(NumberRows(t) - 1) : r \in Rows(t)
        BY <2>1
      <3>4. \A r \in Rows(t) : ReadOnly(t, r) => GetLine(u, r).cols = GetLine(t, r).cols
        BY <2>2, <2>5, <3>1
      <3>5. \A r \in Rows(t) : ReadOnly(u, r) = ReadOnly(t, r)
        BY <2>2, <2>5
      <3> QED
        BY <2>1, <2>4, <2>6, <2>7, <3>2, <3>3, <3>4, <3>5, OwnKept
    <2> QED
      BY <2>3, <2>5, <2>7
  <1> QED
    BY <1>1, <1>2

\* An INSERT gives the last row its line, and marks it if the key is the
\* server's.
LEMMA InsertedMapped ==
    ASSUME NEW t, Sane(t), Mapped(t), t.lastRow = NumberRows(t), t.rowsAdded < MaxAdded
    PROVE  LET line == GetLine(t, t.lastRow)
               u == Inserted(t)
           IN  /\ Mapped(u)
               /\ \A r \in Rows(t) \ {t.lastRow} : GetLine(u, r) = GetLine(t, r)
               /\ GetLine(u, t.lastRow).cols = line.cols
               /\ ReadOnly(u, t.lastRow) <=> line.cols = NoKey
  <1> DEFINE line == GetLine(t, t.lastRow)
             new == [line EXCEPT !.stored = TRUE, !.readOnly = (line.cols = NoKey)]
             v == [t EXCEPT !.rowsStored = @ + 1,
                            !.rowsAdded = IF @ = t.rowsStored + 1 THEN @ + 1 ELSE @,
                            !.lastRow = 0, !.savedLine = Empty]
             j == t.lastRow - DataRows(t)
             u == Inserted(t)
  <1>1. /\ t \in Tables /\ DataRows(t) \in Nat /\ Rows(t) = 1..NumberRows(t)
        /\ NumberRows(t) \in Nat \ {0} /\ DataRows(t) < NumberRows(t)
    BY SaneFacts DEF Sane
  <1>2. t.lastRow \in Rows(t) /\ ~(t.lastRow <= DataRows(t)) /\ j \in Pool
    BY <1>1, SaneFacts
  <1>3. line \in Line
    BY <1>2, SaneFacts
  <1>4. new \in Line /\ new.stored /\ new.cols = line.cols /\ (new.readOnly <=> line.cols = NoKey)
    BY <1>3 DEF Line
  <1>5. /\ v.data = t.data /\ v.lineIndex = t.lineIndex /\ v.rowsDeleted = t.rowsDeleted
        /\ v.addPool = t.addPool /\ "addPool" \in DOMAIN v
    BY <1>1 DEF Tables
  <1>6. u = PutLine(v, t.lastRow, new)
    BY DEF Inserted
  <1> HIDE DEF new, v, u, line
  <1>7. DataRows(v) = DataRows(t)
    BY <1>5 DEF DataRows
  <1>8. u = [v EXCEPT !.addPool = [t.addPool EXCEPT ![j] = new]]
    BY <1>2, <1>5, <1>6, <1>7 DEF PutLine
  <1>9. /\ u.data = t.data /\ u.lineIndex = t.lineIndex /\ u.rowsDeleted = t.rowsDeleted
        /\ u.addPool = [t.addPool EXCEPT ![j] = new] /\ t.addPool \in [Pool -> Line]
    BY <1>1, <1>5, <1>8 DEF Tables
  <1>10. DataRows(u) = DataRows(t)
    BY <1>9 DEF DataRows
  <1> HIDE DEF j
  <1>11. \A k \in Pool : u.addPool[k] = IF k = j THEN new ELSE t.addPool[k]
    BY <1>2, <1>9
  <1>12. Mapped(u)
    BY <1>4, <1>9, <1>10, <1>11 DEF Mapped
  <1>13. GetLine(u, t.lastRow) = new
    BY <1>2, <1>10, <1>11 DEF GetLine, j
  <1>14. ASSUME NEW r \in Rows(t) \ {t.lastRow} PROVE GetLine(u, r) = GetLine(t, r)
    <2>1. CASE r <= DataRows(t)
      BY <1>9, <1>10, <2>1 DEF GetLine
    <2>2. CASE ~(r <= DataRows(t))
      <3>1. r - DataRows(t) \in Pool /\ r - DataRows(t) # j
        BY <1>1, <2>2, SaneFacts DEF j
      <3> QED
        BY <1>10, <1>11, <2>2, <3>1 DEF GetLine
    <2> QED
      BY <2>1, <2>2
  <1> QED
    BY <1>4, <1>12, <1>13, <1>14 DEF ReadOnly, u, line

\* The server adds a row for the one that waited.
LEMMA InsertedOwn ==
    ASSUME NEW t, Sane(t), Mapped(t), t.lastRow = NumberRows(t), t.rowsAdded < MaxAdded,
           db \subseteq Keys, Own(t, db), GetLine(t, t.lastRow).cols # Empty,
           NEW d \in Insert(GetLine(t, t.lastRow).cols)
    PROVE  Own(Inserted(t), d)
  <1> DEFINE cols == GetLine(t, t.lastRow).cols
             u == Inserted(t)
             n == NumberRows(t)
  <1>1. /\ Mapped(u)
        /\ \A r \in Rows(t) \ {t.lastRow} : GetLine(u, r) = GetLine(t, r)
        /\ GetLine(u, t.lastRow).cols = cols
        /\ ReadOnly(u, t.lastRow) <=> cols = NoKey
    BY InsertedMapped
  <1>2. Sane(u) /\ NumberRows(u) = n + 1 /\ u.lastRow = 0
    BY InsertedSane
  <1>3. Rows(t) = 1..n /\ n \in Nat \ {0} /\ t.lastRow = n
    BY SaneFacts
  <1>4. IsFiniteSet(db) /\ Cardinality(db) \in Nat
    BY KeysAssumption, FS_Subset, FS_CardinalityType
  <1>5. cols \in Keys \cup {NoKey}
    BY <1>3, SaneFacts DEF Line, Cols
  <1> HIDE DEF cols, u
  <1>6. PICK k \in Keys : k \notin db /\ d = db \cup {k} /\ (cols = NoKey \/ cols = k)
    BY <1>5 DEF Insert, cols
  <1>7. NumberRows(u) = Cardinality(d) + 1
    BY <1>2, <1>3, <1>4, <1>6, FS_AddElement DEF Own
  <1>8. \A r \in 1..(n - 1) : r \in Rows(t) \ {t.lastRow} /\ r # 0
    BY <1>3
  <1>9. ASSUME NEW r \in 1..(n - 1)
        PROVE  ReadOnly(u, r) = ReadOnly(t, r) /\ KeyIn(u, r) = KeyIn(t, r)
    BY <1>1, <1>2, <1>8 DEF KeyIn, ReadOnly
  <1>10. KeyIn(u, n) = cols
    BY <1>1, <1>2, <1>3 DEF KeyIn
  <1>11. ASSUME NEW r \in 1..(n - 1) PROVE KeyIn(t, r) = NoKey \/ KeyIn(t, r) \in db
    <2>1. CASE ReadOnly(t, r)
      BY <1>3, <1>8, <2>1 DEF Own, KeyIn
    <2>2. CASE ~ReadOnly(t, r)
      BY <2>2 DEF Own
    <2> QED
      BY <2>1, <2>2
  <1>12. ASSUME NEW row \in 1..n, ~ReadOnly(u, row)
         PROVE  /\ KeyIn(u, row) \in d
                /\ \A other \in 1..n : other # row => KeyIn(u, other) # KeyIn(u, row)
    <2>1. CASE row = n
      <3>1. cols = k /\ k # NoKey
        BY <1>1, <1>3, <1>6, <1>12, <2>1, KeysAssumption
      <3>2. ASSUME NEW other \in 1..n, other # row PROVE KeyIn(u, other) # k
        <4>1. other \in 1..(n - 1)
          BY <1>3, <2>1, <3>2
        <4> QED
          BY <1>6, <1>9, <1>11, <3>1, <4>1
      <3> QED
        BY <1>6, <1>10, <2>1, <3>1, <3>2
    <2>2. CASE row # n
      <3>1. row \in 1..(n - 1)
        BY <1>3, <2>2
      <3>2. /\ KeyIn(t, row) \in db
            /\ \A other \in 1..(n - 1) : other # row => KeyIn(t, other) # KeyIn(t, row)
        BY <1>9, <1>12, <3>1 DEF Own
      <3>3. ASSUME NEW other \in 1..n, other # row PROVE KeyIn(u, other) # KeyIn(u, row)
        <4>1. CASE other = n
          BY <1>6, <1>9, <1>10, <3>1, <3>2, <4>1, KeysAssumption
        <4>2. CASE other # n
          <5>1. other \in 1..(n - 1)
            BY <1>3, <4>2
          <5> QED
            BY <1>9, <3>1, <3>2, <3>3, <5>1
        <4> QED
          BY <4>1, <4>2
      <3> QED
        BY <1>6, <1>9, <3>1, <3>2, <3>3
    <2> QED
      BY <2>1, <2>2
  <1>13. ASSUME NEW row \in Rows(u), ReadOnly(u, row) PROVE GetLine(u, row).cols = NoKey
    <2>1. row # n + 1
      BY <1>1, <1>2, <1>13, LastMayBeTouched
    <2>2. row \in 1..n
      BY <1>2, <1>3, <2>1 DEF Rows
    <2>3. CASE row = n
      BY <1>1, <1>3, <1>13, <2>3
    <2>4. CASE row # n
      <3>1. row \in Rows(t) \ {t.lastRow} /\ row \in 1..(n - 1)
        BY <1>3, <2>2, <2>4
      <3> QED
        BY <1>1, <1>9, <1>13, <3>1 DEF Own
    <2> QED
      BY <2>3, <2>4
  <1>14. n = NumberRows(u) - 1
    BY <1>2, <1>3
  <1> HIDE DEF n
  <1> QED
    BY <1>2, <1>7, <1>12, <1>13, <1>14 DEF Own, u

\* An UPDATE gives a row of the database the key of its row in the grid.
LEMMA UpdatedOwn ==
    ASSUME NEW t, Sane(t), Mapped(t), db \subseteq Keys, Own(t, db),
           t.lastRow \in 1..(NumberRows(t) - 1),
           NEW d, LET new == GetLine(t, t.lastRow).cols
                  IN  \/ new = t.savedLine /\ d = db
                      \/ new # t.savedLine /\ d \in UpdateKey(t.savedLine, new)
    PROVE  Own([t EXCEPT !.lastRow = 0, !.savedLine = Empty], d)
  <1> DEFINE u == [t EXCEPT !.lastRow = 0, !.savedLine = Empty]
             new == GetLine(t, t.lastRow).cols
             key == t.savedLine
             n == NumberRows(t) - 1
  <1>1. /\ t \in Tables /\ Rows(t) = 1..NumberRows(t) /\ NumberRows(t) \in Nat \ {0}
        /\ t.lastRow \in Rows(t) /\ t.lastRow # 0
    BY SaneFacts DEF Sane
  <1>2. /\ u.data = t.data /\ u.lineIndex = t.lineIndex /\ u.rowsDeleted = t.rowsDeleted
        /\ u.addPool = t.addPool /\ u.lastRow = 0
    BY <1>1 DEF Tables
  <1>3. NumberRows(u) = NumberRows(t) /\ Sane(u)
    BY SettledSane
  <1> HIDE DEF u
  <1>4. \A r : GetLine(u, r) = GetLine(t, r) /\ ReadOnly(u, r) = ReadOnly(t, r)
    BY <1>2, SameLines
  <1>5. n \in Nat /\ \A r \in 1..n : r \in Rows(t) /\ r # 0
    BY <1>1
  <1>6. ASSUME NEW r \in 1..n
        PROVE  KeyIn(u, r) = IF r = t.lastRow THEN new ELSE KeyIn(t, r)
    BY <1>2, <1>4, <1>5 DEF KeyIn
  <1>7. KeyIn(t, t.lastRow) = key /\ ~ReadOnly(t, t.lastRow) /\ t.lastRow \in 1..n
    BY <1>1 DEF KeyIn, Own
  <1>8. key \in db
    BY <1>7 DEF Own
  <1>9. IsFiniteSet(db) /\ Cardinality(db) \in Nat
    BY KeysAssumption, FS_Subset, FS_CardinalityType
  <1>10. CASE new = key /\ d = db
    <2>1. \A r \in 1..n : KeyIn(u, r) = KeyIn(t, r)
      BY <1>6, <1>7, <1>10
    <2>2. \A r \in Rows(t) : ReadOnly(t, r) => GetLine(u, r).cols = GetLine(t, r).cols
      BY <1>4
    <2> QED
      BY <1>1, <1>2, <1>3, <1>4, <1>10, <2>1, <2>2, OwnKept DEF u
  <1>11. CASE new # key /\ d \in UpdateKey(key, new)
    <2>1. new \in Keys /\ new \notin db /\ d = (db \ {key}) \cup {new}
      BY <1>8, <1>11 DEF UpdateKey
    <2>2. Cardinality(d) = Cardinality(db)
      <3>1. IsFiniteSet(db \ {key}) /\ Cardinality(db \ {key}) = Cardinality(db) - 1
        BY <1>8, <1>9, FS_RemoveElement
      <3>2. Cardinality(d) = Cardinality(db \ {key}) + 1
        BY <2>1, <3>1, FS_AddElement
      <3> QED
        BY <1>9, <3>1, <3>2
    <2>3. ASSUME NEW r \in 1..n, r # t.lastRow PROVE KeyIn(t, r) = NoKey \/ KeyIn(t, r) \in db
      <3>1. CASE ReadOnly(t, r)
        BY <1>5, <2>3, <3>1 DEF Own, KeyIn
      <3>2. CASE ~ReadOnly(t, r)
        BY <3>2 DEF Own
      <3> QED
        BY <3>1, <3>2
    <2>4. ASSUME NEW row \in 1..n, ~ReadOnly(u, row)
          PROVE  /\ KeyIn(u, row) \in d
                 /\ \A other \in 1..n : other # row => KeyIn(u, other) # KeyIn(u, row)
      <3>1. /\ KeyIn(t, row) \in db
            /\ \A other \in 1..n : other # row => KeyIn(t, other) # KeyIn(t, row)
        BY <1>4, <2>4 DEF Own
      <3>2. CASE row = t.lastRow
        <4>1. ASSUME NEW other \in 1..n, other # row PROVE KeyIn(u, other) # new
          BY <1>6, <2>1, <2>3, <3>2, <4>1, KeysAssumption
        <4> QED
          BY <1>6, <2>1, <3>2, <4>1
      <3>3. CASE row # t.lastRow
        <4>1. KeyIn(u, row) = KeyIn(t, row) /\ KeyIn(t, row) # key
          BY <1>6, <1>7, <3>1, <3>3
        <4>2. ASSUME NEW other \in 1..n, other # row PROVE KeyIn(u, other) # KeyIn(t, row)
          BY <1>6, <2>1, <3>1, <4>2
        <4> QED
          BY <2>1, <3>1, <4>1, <4>2
      <3> QED
        BY <3>2, <3>3
    <2>5. Rows(u) = Rows(t)
      BY <1>3 DEF Rows
    <2>6. \A row \in Rows(u) : ReadOnly(u, row) => GetLine(u, row).cols = NoKey
      BY <1>4, <2>5 DEF Own
    <2>7. NumberRows(u) = Cardinality(d) + 1 /\ n = NumberRows(u) - 1
      BY <1>3, <2>2 DEF Own
    <2> HIDE DEF n
    <2> QED
      BY <1>2, <2>4, <2>6, <2>7 DEF Own, u
  <1> QED
    BY <1>10, <1>11

\* A line that was stored, or could not be, is still what it was of the
\* database.
LEMMA StoreOwn ==
    ASSUME NEW t, Sane(t), Mapped(t), db \subseteq Keys, NEW r \in StoreLine(t)
    PROVE  /\ Mapped(r.table)
           /\ Own(t, db) => Own(r.table, r.db)
           /\ \A row \in Rows(t) \ {t.lastRow} : ReadOnly(r.table, row) = ReadOnly(t, row)
  <1> DEFINE line == GetLine(t, t.lastRow)
             updated == [t EXCEPT !.lastRow = 0, !.savedLine = Empty]
  <1>0. /\ t \in Tables /\ Rows(t) = 1..NumberRows(t) /\ NumberRows(t) \in Nat \ {0}
        /\ t.lastRow \in Nat
    BY SaneFacts DEF Sane, Tables
  <1>1. CASE r = Result(t, db, FALSE)
    BY <1>1 DEF Result
  <1>2. CASE r # Result(t, db, FALSE)
    <2>1. t.lastRow # 0 /\ ~NoColumns(t)
      BY <1>2 DEF StoreLine
    <2>2. t.lastRow \in Rows(t) /\ line.filled
      BY <1>0, <2>1 DEF NoColumns
    <2>3. line.stored <=> t.lastRow # NumberRows(t)
      BY <2>2, LastIsEmpty
    <2>4. CASE ~line.stored
      <3>1. line.cols # Empty /\ t.rowsAdded < MaxAdded
        BY <1>2, <2>1, <2>4 DEF StoreLine
      <3>2. PICK d \in Insert(line.cols) : r = Result(Inserted(t), d, TRUE)
        BY <1>2, <2>1, <2>4, <3>1 DEF StoreLine
      <3>3. r.table = Inserted(t) /\ r.db = d
        BY <3>2 DEF Result
      <3>4. t.lastRow = NumberRows(t)
        BY <2>3, <2>4
      <3>5. /\ Mapped(Inserted(t))
            /\ \A row \in Rows(t) \ {t.lastRow} : GetLine(Inserted(t), row) = GetLine(t, row)
        BY <3>1, <3>4, InsertedMapped
      <3>6. Own(t, db) => Own(Inserted(t), d)
        BY <3>1, <3>4, InsertedOwn
      <3> QED
        BY <3>3, <3>5, <3>6 DEF ReadOnly
    <2>5. CASE line.stored
      <3>1. PICK d : /\ r = Result(updated, d, TRUE)
                     /\ \/ line.cols = t.savedLine /\ d = db
                        \/ line.cols # t.savedLine /\ d \in UpdateKey(t.savedLine, line.cols)
        BY <1>2, <2>1, <2>5 DEF StoreLine
      <3>2. r.table = updated /\ r.db = d
        BY <3>1 DEF Result
      <3>3. t.lastRow \in 1..(NumberRows(t) - 1)
        BY <1>0, <2>2, <2>3, <2>5
      <3>4. Own(t, db) => Own(updated, d)
        BY <3>1, <3>3, UpdatedOwn
      <3>5. /\ updated.data = t.data /\ updated.lineIndex = t.lineIndex
            /\ updated.rowsDeleted = t.rowsDeleted /\ updated.addPool = t.addPool
        BY <1>0 DEF Tables
      <3> HIDE DEF updated
      <3>6. Mapped(updated) /\ \A row : ReadOnly(updated, row) = ReadOnly(t, row)
        BY <3>5, SameLines
      <3> QED
        BY <3>2, <3>4, <3>6
    <2> QED
      BY <2>4, <2>5
  <1> QED
    BY <1>1, <1>2

\* The rows behind the one that is taken out move up with their lines.
LEMMA RemovedLines ==
    ASSUME NEW t, Sane(t), Mapped(t), NEW row \in Rows(t), row # NumberRows(t)
    PROVE  /\ Mapped(RemoveRow(t, row))
           /\ RemoveRow(t, row).savedLine = t.savedLine
           /\ \A r \in 1..(NumberRows(t) - 1) :
                 GetLine(RemoveRow(t, row), r) = GetLine(t, IF r < row THEN r ELSE r + 1)
  <1> DEFINE i == t.lineIndex[row]
             n == DataRows(t)
             j == row - n
             u == RemoveRow(t, row)
  <1>1. /\ t \in Tables /\ Rows(t) = 1..NumberRows(t) /\ NumberRows(t) \in Nat
        /\ n \in 0..Len(t.data) /\ n < NumberRows(t)
        /\ Len(t.data) \in Nat /\ DOMAIN t.data = 1..Len(t.data)
        /\ DOMAIN t.lineIndex = 1..Len(t.data)
    BY SaneFacts DEF Sane
  <1>2. /\ t.data \in Seq(Line) /\ t.rowsDeleted \in Nat /\ n = Len(t.data) - t.rowsDeleted
    BY <1>1 DEF Tables, DataRows
  <1>3. /\ \A a \in 1..n : t.lineIndex[a] \in DOMAIN t.data
        /\ \A a \in Rows(t) : a > n => a - n \in Pool
    BY SaneFacts
  <1> HIDE DEF n
  <1>4. CASE row <= n
    <2>1. row \in 1..n /\ i \in DOMAIN t.data /\ n \in Nat
      BY <1>1, <1>3, <1>4
    <2> DEFINE e == [t.data[i] EXCEPT !.cols = Empty]
               d == [t.data EXCEPT ![i] = e]
               x == [k \in DOMAIN t.data |->
                        IF k \in row..(n - 1) THEN t.lineIndex[k + 1] ELSE t.lineIndex[k]]
    <2>2. e.readOnly = t.data[i].readOnly
      BY <2>1, SaneFacts DEF Line
    <2> HIDE DEF e
    <2>3. u = [t EXCEPT !.rowsDeleted = t.rowsDeleted + 1, !.data = d, !.lineIndex = x]
      BY <1>1, <1>4, <2>1 DEF RemoveRow, e, Tables, n
    <2> HIDE DEF u
    <2>4. /\ u.data = d /\ u.lineIndex = x /\ u.rowsDeleted = t.rowsDeleted + 1
          /\ u.addPool = t.addPool /\ u.savedLine = t.savedLine
      BY <1>1, <2>3 DEF Tables
    <2>5. /\ DOMAIN d = DOMAIN t.data
          /\ \A k \in DOMAIN t.data : d[k] = IF k = i THEN e ELSE t.data[k]
      OBVIOUS
    <2>6. Len(d) = Len(t.data)
      BY <1>1, <2>5
    <2> HIDE DEF d
    <2>7. DataRows(u) = n - 1
      BY <1>2, <2>1, <2>4, <2>6 DEF DataRows
    <2> DEFINE up(k) == IF k < row THEN k ELSE k + 1
    <2>8. ASSUME NEW k \in 1..(n - 1)
          PROVE  /\ x[k] = t.lineIndex[up(k)] /\ up(k) \in 1..n /\ up(k) # row
                 /\ k \in DOMAIN t.data
      <3>1. k \in DOMAIN t.data /\ k \in Nat /\ k >= 1 /\ k <= n - 1 /\ row \in Nat
        BY <1>1, <2>1
      <3>2. CASE k < row
        BY <2>1, <3>1, <3>2
      <3>3. CASE ~(k < row)
        BY <2>1, <3>1, <3>3
      <3> QED
        BY <3>2, <3>3
    <2> HIDE DEF x
    <2>9. Mapped(u)
      <3>1. ASSUME NEW a \in 1..(n - 1), NEW b \in 1..(n - 1), x[a] = x[b] PROVE a = b
        <4>1. up(a) = up(b)
          BY <2>8, <3>1 DEF Mapped, n
        <4>2. a \in Nat /\ b \in Nat /\ row \in Nat
          BY <2>1
        <4> QED
          BY <4>1, <4>2
      <3>2. \A k \in DOMAIN u.data : ~u.data[k].readOnly
        BY <2>1, <2>2, <2>4, <2>5 DEF Mapped
      <3>3. \A k \in Pool : u.addPool[k].readOnly => u.addPool[k].stored
        BY <2>4 DEF Mapped
      <3> HIDE DEF up
      <3> QED
        BY <2>4, <2>7, <3>1, <3>2, <3>3 DEF Mapped
    <2>10. ASSUME NEW r \in 1..(NumberRows(t) - 1) PROVE GetLine(u, r) = GetLine(t, up(r))
      <3>1. r \in Nat /\ r >= 1 /\ row \in Nat /\ row <= n
        BY <1>1, <2>1
      <3>2. CASE r <= n - 1
        <4>1. r \in 1..(n - 1)
          BY <2>1, <3>1, <3>2
        <4>2. x[r] = t.lineIndex[up(r)] /\ up(r) \in 1..n /\ up(r) # row
          BY <2>8, <4>1
        <4> HIDE DEF up
        <4>3. t.lineIndex[up(r)] \in DOMAIN t.data /\ t.lineIndex[up(r)] # i
          BY <1>3, <2>1, <4>2 DEF Mapped, n
        <4>4. d[x[r]] = t.data[t.lineIndex[up(r)]]
          BY <2>5, <4>2, <4>3
        <4>5. GetLine(u, r) = d[x[r]]
          BY <2>4, <2>7, <3>2 DEF GetLine
        <4>6. GetLine(t, up(r)) = t.data[t.lineIndex[up(r)]]
          BY <2>1, <4>2 DEF GetLine, n
        <4> QED
          BY <4>4, <4>5, <4>6
      <3>3. CASE ~(r <= n - 1)
        <4>1. up(r) = r + 1 /\ ~(r + 1 <= n) /\ r - (n - 1) = (r + 1) - n
          BY <2>1, <3>1, <3>3
        <4> HIDE DEF up
        <4>2. GetLine(u, r) = t.addPool[r - (n - 1)]
          BY <2>4, <2>7, <3>3 DEF GetLine
        <4>3. GetLine(t, r + 1) = t.addPool[(r + 1) - n]
          BY <4>1 DEF GetLine, n
        <4> QED
          BY <4>1, <4>2, <4>3
      <3> QED
        BY <3>2, <3>3
    <2> QED
      BY <2>4, <2>9, <2>10 DEF u
  <1>5. CASE ~(row <= n)
    <2> DEFINE p == [k \in Pool |-> IF k < j THEN t.addPool[k]
                                    ELSE IF k + 1 \in Pool THEN t.addPool[k + 1] ELSE Blank]
    <2>1. u = [t EXCEPT !.rowsAdded = t.rowsAdded - 1, !.rowsStored = t.rowsStored - 1, !.addPool = p]
      BY <1>1, <1>5 DEF RemoveRow, Tables, n
    <2> HIDE DEF u, p
    <2>2. /\ u.data = t.data /\ u.lineIndex = t.lineIndex /\ u.rowsDeleted = t.rowsDeleted
          /\ u.addPool = p /\ u.savedLine = t.savedLine
      BY <1>1, <2>1 DEF Tables
    <2>3. DataRows(u) = n
      BY <2>2 DEF DataRows, n
    <2> HIDE DEF j
    <2>4. \A k \in Pool : p[k] = IF k < j THEN t.addPool[k]
                                 ELSE IF k + 1 \in Pool THEN t.addPool[k + 1] ELSE Blank
      BY DEF p
    <2>5. Mapped(u)
      <3>1. \A k \in Pool : p[k].readOnly => p[k].stored
        BY <2>4 DEF Mapped, Blank
      <3> QED
        BY <2>2, <2>3, <3>1 DEF Mapped, n
    <2>6. ASSUME NEW r \in 1..(NumberRows(t) - 1)
          PROVE  GetLine(u, r) = GetLine(t, IF r < row THEN r ELSE r + 1)
      <3>1. /\ r \in Nat /\ row \in Nat /\ n \in Nat /\ r \in Rows(t) /\ r + 1 \in Rows(t)
            /\ j = row - n
        BY <1>1 DEF j
      <3>2. CASE r <= n
        <4>1. r < row
          BY <1>5, <3>1, <3>2
        <4> QED
          BY <2>2, <2>3, <3>2, <4>1 DEF GetLine, n
      <3>3. CASE ~(r <= n) /\ r < row
        <4>1. r - n \in Pool /\ r - n < j
          BY <1>3, <3>1, <3>3
        <4>2. p[r - n] = t.addPool[r - n]
          BY <2>4, <4>1
        <4> QED
          BY <2>2, <2>3, <3>3, <4>2 DEF GetLine, n
      <3>4. CASE ~(r <= n) /\ ~(r < row)
        <4>1. r - n \in Pool /\ ~(r - n < j) /\ (r + 1) - n \in Pool /\ (r - n) + 1 = (r + 1) - n
              /\ ~(r + 1 <= n)
          BY <1>3, <3>1, <3>4
        <4>2. p[r - n] = t.addPool[(r + 1) - n]
          BY <2>4, <4>1
        <4> QED
          BY <2>2, <2>3, <3>4, <4>1, <4>2 DEF GetLine, n
      <3> QED
        BY <3>2, <3>3, <3>4
    <2> QED
      BY <2>2, <2>5, <2>6 DEF u
  <1> QED
    BY <1>4, <1>5

\* A DELETE takes the row of the database with that of the grid.
LEMMA RemovedOwn ==
    ASSUME NEW t, Sane(t), Mapped(t), db \subseteq Keys, Own(t, db),
           NEW row \in 1..(NumberRows(t) - 1), ~ReadOnly(t, row), ~(row <= t.lastRow)
    PROVE  Own(RemoveRow(t, row), db \ {GetLine(t, row).cols})
  <1> DEFINE u == RemoveRow(t, row)
             n == NumberRows(t) - 1
             key == GetLine(t, row).cols
             up(r) == IF r < row THEN r ELSE r + 1
  <1>1. /\ Rows(t) = 1..NumberRows(t) /\ NumberRows(t) \in Nat /\ row \in Nat
        /\ row \in Rows(t) /\ row # NumberRows(t) /\ t.lastRow \in Nat
    BY SaneFacts DEF Sane, Tables
  <1>2. Sane(u) /\ NumberRows(u) = n /\ u.lastRow = t.lastRow
    BY <1>1, RemoveSane
  <1>3. /\ Mapped(u) /\ u.savedLine = t.savedLine
        /\ \A r \in 1..n : GetLine(u, r) = GetLine(t, up(r))
    BY <1>1, RemovedLines
  <1> HIDE DEF u
  <1>4. n \in Nat /\ row \in 1..n /\ t.lastRow < row
    BY <1>1
  <1>5. ASSUME NEW r \in 1..n
        PROVE  /\ up(r) \in Rows(t) /\ up(r) # row
               /\ r \in 1..(n - 1) => up(r) \in 1..n
               /\ r = t.lastRow <=> up(r) = t.lastRow
    <2>1. r \in Nat /\ r >= 1 /\ r <= n
      BY <1>4
    <2>2. CASE r < row
      BY <1>1, <1>4, <2>1, <2>2
    <2>3. CASE ~(r < row)
      BY <1>1, <1>4, <2>1, <2>3
    <2> QED
      BY <2>2, <2>3
  <1>6. ASSUME NEW a \in 1..n, NEW b \in 1..n, a # b PROVE up(a) # up(b)
    BY <1>1, <1>4, <1>6
  <1> HIDE DEF up, n
  <1>7. ASSUME NEW r \in 1..n
        PROVE  KeyIn(u, r) = KeyIn(t, up(r)) /\ ReadOnly(u, r) = ReadOnly(t, up(r))
    BY <1>2, <1>3, <1>5 DEF KeyIn, ReadOnly
  <1>8. KeyIn(t, row) = key /\ key \in db
    <2>1. KeyIn(t, row) = key
      BY <1>4 DEF KeyIn
    <2> QED
      BY <1>4, <2>1 DEF Own, n
  <1>9. NumberRows(u) = Cardinality(db \ {key}) + 1
    <2>1. IsFiniteSet(db) /\ Cardinality(db) \in Nat
      BY KeysAssumption, FS_Subset, FS_CardinalityType
    <2>2. Cardinality(db \ {key}) = Cardinality(db) - 1
      BY <1>8, <2>1, FS_RemoveElement
    <2> QED
      BY <1>1, <1>2, <2>1, <2>2 DEF Own, n
  <1>10. \A r \in 1..(n - 1) : r \in 1..n
    BY <1>4
  <1>11. ASSUME NEW r \in 1..(n - 1), ~ReadOnly(u, r)
         PROVE  /\ KeyIn(u, r) \in db \ {key}
                /\ \A other \in 1..(n - 1) : other # r => KeyIn(u, other) # KeyIn(u, r)
    <2>1. r \in 1..n /\ up(r) \in 1..n /\ up(r) # row /\ ~ReadOnly(t, up(r))
      BY <1>5, <1>7, <1>10, <1>11
    <2>2. /\ KeyIn(t, up(r)) \in db
          /\ \A other \in 1..n : other # up(r) => KeyIn(t, other) # KeyIn(t, up(r))
      BY <2>1 DEF Own, n
    <2>3. KeyIn(u, r) \in db \ {key}
      BY <1>4, <1>7, <1>8, <2>1, <2>2
    <2>4. ASSUME NEW other \in 1..(n - 1), other # r PROVE KeyIn(u, other) # KeyIn(u, r)
      <3>1. other \in 1..n /\ up(other) \in 1..n /\ up(other) # up(r)
        BY <1>5, <1>6, <1>10, <2>1, <2>4
      <3> QED
        BY <1>7, <2>1, <2>2, <3>1
    <2> QED
      BY <2>3, <2>4
  <1>12. Rows(u) = 1..n
    BY <1>2 DEF Rows
  <1>13. \A r \in Rows(u) : ReadOnly(u, r) => GetLine(u, r).cols = NoKey
    BY <1>3, <1>5, <1>7, <1>12 DEF Own
  <1>14. u.lastRow # 0 => u.lastRow \in Rows(u) /\ ~ReadOnly(u, u.lastRow)
    <2>1. CASE t.lastRow # 0
      <3>1. t.lastRow \in 1..n
        BY <1>1, <1>4, <2>1
      <3>2. up(t.lastRow) = t.lastRow
        BY <1>5, <3>1
      <3> QED
        BY <1>2, <1>7, <1>12, <2>1, <3>1, <3>2 DEF Own
    <2> QED
      BY <1>2, <2>1
  <1> QED
    BY <1>2, <1>9, <1>11, <1>13, <1>14 DEF Own, u

\* DeleteRows of a row that may be touched, or may not.
LEMMA DeleteOwn ==
    ASSUME NEW t, Sane(t), Mapped(t), db \subseteq Keys, NEW row \in Rows(t),
           NEW r \in DeleteRow(t, row)
    PROVE  /\ Mapped(r.table)
           /\ Own(t, db) /\ ~(r.done /\ row <= t.lastRow) => Own(r.table, r.db)
  <1> DEFINE u == Fill(t, row)
             line == GetLine(u, row)
             blank == [line EXCEPT !.cols = Empty]
             w == PutLine(u, row, blank)
  <1>1. /\ Sane(u) /\ NumberRows(u) = NumberRows(t) /\ u.lastRow = t.lastRow /\ line.filled
        /\ row \in Rows(u)
    BY FillSane DEF Rows
  <1>2. Mapped(u) /\ (Own(t, db) => Own(u, db))
    BY FillMapped, FillOwn
  <1> HIDE DEF u
  <1>3. line.stored <=> row # NumberRows(u)
    BY <1>1, LastIsEmpty
  <1>4. Rows(u) = 1..NumberRows(u) /\ NumberRows(u) \in Nat \ {0} /\ u.lastRow \in Nat
    BY <1>1, SaneFacts DEF Sane, Tables
  <1>5. CASE r = Result(u, db, FALSE)
    BY <1>2, <1>5 DEF Result
  <1>6. CASE line.stored /\ line.cols \in Keys
             /\ r = Result(RemoveRow(u, row), db \ {line.cols}, TRUE)
    <2>1. r.table = RemoveRow(u, row) /\ r.db = db \ {line.cols} /\ r.done = TRUE
      BY <1>6 DEF Result
    <2>2. row \in 1..(NumberRows(u) - 1)
      BY <1>1, <1>3, <1>4, <1>6
    <2>3. Mapped(RemoveRow(u, row))
      BY <1>1, <1>2, <1>3, <1>6, RemovedLines
    <2>4. ASSUME Own(t, db), ~(row <= t.lastRow) PROVE Own(RemoveRow(u, row), db \ {line.cols})
      <3>1. Own(u, db) /\ ~(row <= u.lastRow)
        BY <1>1, <1>2, <2>4
      <3>2. ~ReadOnly(u, row)
        BY <1>1, <1>6, <3>1, KeysAssumption DEF Own
      <3> QED
        BY <1>1, <1>2, <2>2, <3>1, <3>2, RemovedOwn
    <2> QED
      BY <2>1, <2>3, <2>4
  <1>7. CASE ~line.stored /\ r = Result(w, db, FALSE)
    <2>1. Empty \in Cols
      BY DEF Cols
    <2>2. /\ Mapped(w) /\ w.savedLine = u.savedLine /\ w.lastRow = u.lastRow
          /\ NumberRows(w) = NumberRows(u)
          /\ \A k \in Rows(u) : /\ ReadOnly(w, k) = ReadOnly(u, k)
                                /\ GetLine(w, k).cols = IF k = row THEN Empty ELSE GetLine(u, k).cols
      BY <1>1, <1>2, <2>1, ColsWritten
    <2>3. r.table = w /\ r.db = db
      BY <1>7 DEF Result
    <2> HIDE DEF w
    <2>4. row = NumberRows(u) /\ ~ReadOnly(u, row)
      BY <1>1, <1>2, <1>3, <1>7, LastMayBeTouched
    <2>5. ASSUME Own(u, db) PROVE Own(w, db)
      <3>1. \A k \in 1..(NumberRows(u) - 1) : k \in Rows(u) /\ k # row
        BY <1>4, <2>4
      <3>2. \A k \in 1..(NumberRows(u) - 1) : KeyIn(w, k) = KeyIn(u, k)
        BY <2>2, <3>1 DEF KeyIn
      <3>3. \A k \in Rows(u) : ReadOnly(u, k) => GetLine(w, k).cols = GetLine(u, k).cols
        BY <2>2, <2>4
      <3>4. w.lastRow # 0 => w.lastRow \in Rows(u) /\ ~ReadOnly(u, w.lastRow)
        BY <2>2, <2>5 DEF Own
      <3> QED
        BY <1>4, <2>2, <2>5, <3>2, <3>3, <3>4, OwnKept
    <2> QED
      BY <1>2, <2>2, <2>3, <2>5
  <1> QED
    BY <1>5, <1>6, <1>7 DEF DeleteRow, u

\* A table that was just loaded shows the rows that were fetched.
LEMMA NewOwn ==
    ASSUME NEW rows \in Seq(Keys)
    PROVE  /\ Mapped(NewTable(rows))
           /\ \A d \in SUBSET Keys : rows \in Orders(d) => Own(NewTable(rows), d)
  <1> DEFINE u == NewTable(rows)
             m == Len(rows)
  <1>1. Sane(u) /\ u.lastRow = 0
    BY NewSane
  <1>2. m \in Nat /\ DOMAIN rows = 1..m
    OBVIOUS
  <1>3. /\ DOMAIN u.data = 1..m /\ Len(u.data) = m
        /\ \A i \in 1..m : u.data[i].cols = rows[i] /\ ~u.data[i].readOnly
        /\ \A i \in 1..m : u.lineIndex[i] = i
        /\ u.rowsDeleted = 0 /\ u.rowsAdded = 1
        /\ \A i \in Pool : ~u.addPool[i].readOnly
    BY <1>2 DEF NewTable, Blank
  <1> HIDE DEF u
  <1>4. DataRows(u) = m /\ NumberRows(u) = m + 1 /\ Rows(u) = 1..(m + 1)
    BY <1>2, <1>3 DEF DataRows, NumberRows, Rows
  <1>5. Mapped(u)
    BY <1>3, <1>4 DEF Mapped
  <1>6. ASSUME NEW d \in SUBSET Keys, rows \in Orders(d) PROVE Own(u, d)
    <2>1. IsFiniteSet(d) /\ Cardinality(d) \in Nat
      BY KeysAssumption, FS_Subset, FS_CardinalityType
    <2>2. /\ rows \in [1..Cardinality(d) -> d]
          /\ \A i, j \in DOMAIN rows : rows[i] = rows[j] => i = j
      BY <1>6 DEF Orders
    <2>3. m = Cardinality(d)
      BY <1>2, <2>1, <2>2
    <2>4. ASSUME NEW r \in 1..m PROVE KeyIn(u, r) = rows[r] /\ rows[r] \in d
      <3>1. r # 0 /\ r <= m
        BY <1>2
      <3>2. GetLine(u, r).cols = rows[r]
        BY <1>3, <1>4, <3>1 DEF GetLine
      <3> QED
        BY <1>1, <2>2, <2>3, <3>1, <3>2 DEF KeyIn
    <2>5. ASSUME NEW r \in 1..m, NEW other \in 1..m, other # r
          PROVE  KeyIn(u, other) # KeyIn(u, r)
      BY <1>2, <2>2, <2>4, <2>5
    <2>6. ASSUME NEW r \in Rows(u) PROVE ~ReadOnly(u, r)
      <3>1. CASE r <= m
        <4>1. r \in 1..m
          BY <1>2, <1>4, <3>1
        <4> QED
          BY <1>3, <1>4, <3>1, <4>1 DEF ReadOnly, GetLine
      <3>2. CASE ~(r <= m)
        <4>1. r - DataRows(u) \in Pool
          BY <1>1, <1>4, <3>2, SaneFacts
        <4> QED
          BY <1>3, <1>4, <3>2, <4>1 DEF ReadOnly, GetLine
      <3> QED
        BY <3>1, <3>2
    <2>7. NumberRows(u) - 1 = m /\ NumberRows(u) = Cardinality(d) + 1
      BY <1>2, <1>4, <2>3
    <2> HIDE DEF m
    <2> QED
      BY <1>1, <2>4, <2>5, <2>6, <2>7 DEF Own
  <1> QED
    BY <1>5, <1>6 DEF u

\* The table stands for the database unless the user strayed, and so will the
\* rows that are being loaded.
OInv ==
    /\ table # NoTable => Mapped(table) /\ (strayed \/ Own(table, db))
    /\ load = "answered" /\ ~raced => answer \in Orders(db)

\* What an editing step has to keep.
LEMMA OwnEdited ==
    ASSUME OInv, Mapped(table'), strayed' \/ Own(table', db'),
           \/ raced' = (raced \/ (load # "idle" /\ db' # db)) /\ UNCHANGED <<load, answer>>
           \/ load' # "answered"
    PROVE  OInv'
  BY DEF OInv

LEMMA OwnMove == IInv /\ OInv /\ MoveCursor => OInv'
  <1> SUFFICES ASSUME IInv, OInv, MoveCursor PROVE OInv'
    OBVIOUS
  <1>1. table # NoTable /\ UNCHANGED <<load, answer>>
    BY DEF MoveCursor, Ready, Open, loadVars
  <1>2. CASE UNCHANGED <<db, table, ghostVars>>
    BY <1>1, <1>2 DEF OInv, ghostVars
  <1>3. CASE ~UNCHANGED <<db, table, ghostVars>>
    <2>1. PICK r \in StoreLine(table) : Take(r, FALSE)
      BY <1>3 DEF MoveCursor
    <2>2. Mapped(r.table) /\ (Own(table, db) => Own(r.table, r.db))
      BY <1>1, OpenFacts, StoreOwn DEF OInv
    <2> QED
      BY <1>1, <2>1, <2>2, OwnEdited DEF Take, OInv
  <1> QED
    BY <1>2, <1>3

LEMMA OwnSave == IInv /\ OInv /\ (OnSave \/ Select) => OInv'
  <1> SUFFICES ASSUME IInv, OInv, OnSave \/ Select PROVE OInv'
    OBVIOUS
  <1>1. table # NoTable /\ UNCHANGED <<load, answer>>
    BY DEF OnSave, Select, Ready, Open, loadVars
  <1>2. PICK r \in StoreLine(table) : Take(r, FALSE)
    BY DEF OnSave, Select
  <1>3. Mapped(r.table) /\ (Own(table, db) => Own(r.table, r.db))
    BY <1>1, OpenFacts, StoreOwn DEF OInv
  <1> QED
    BY <1>1, <1>2, <1>3, OwnEdited DEF Take, OInv

\* A value is typed after the row changed before was stored: or the user strays.
LEMMA OwnType == IInv /\ OInv /\ Type => OInv'
  <1> SUFFICES ASSUME IInv, OInv, Type PROVE OInv'
    OBVIOUS
  <1>1. /\ table # NoTable /\ UNCHANGED <<load, answer>>
        /\ ~ReadOnly(table, cursor)
    BY DEF Type, Ready, Open, loadVars, ReadOnly
  <1>2. PICK value \in Keys \cup {NoKey}, r \in StoreOther(cursor) :
           Take([r EXCEPT !.table = SetValue(r.table, cursor, value)], ~r.done)
    BY DEF Type
  <1>3. Sane(table) /\ db \subseteq Keys /\ Mapped(table) /\ cursor \in Rows(table)
    BY <1>1, OpenFacts DEF OInv
  <1>4. /\ Sane(r.table) /\ Mapped(r.table) /\ r = Result(r.table, r.db, r.done)
        /\ Rows(table) \subseteq Rows(r.table) /\ r.done \in BOOLEAN
        /\ Own(table, db) => Own(r.table, r.db)
        /\ r.done => r.table.lastRow \in {0, cursor} /\ ~ReadOnly(r.table, cursor)
    <2>1. CASE table.lastRow \in {0, cursor}
      <3>1. r = Result(table, db, TRUE)
        BY <2>1 DEF StoreOther
      <3>2. r.table = table /\ r.db = db /\ r.done = TRUE
        BY <3>1 DEF Result
      <3> QED
        BY <1>1, <1>3, <2>1, <3>1, <3>2
    <2>2. CASE table.lastRow \notin {0, cursor}
      <3>1. r \in StoreLine(table)
        BY <2>2 DEF StoreOther
      <3>2. /\ Sane(r.table) /\ r = Result(r.table, r.db, r.done) /\ r.done \in BOOLEAN
            /\ Rows(table) \subseteq Rows(r.table) /\ (r.done => r.table.lastRow = 0)
        BY <1>3, <3>1, StoreSane
      <3>3. /\ Mapped(r.table) /\ (Own(table, db) => Own(r.table, r.db))
            /\ \A row \in Rows(table) \ {table.lastRow} : ReadOnly(r.table, row) = ReadOnly(table, row)
        BY <1>3, <3>1, StoreOwn
      <3> QED
        BY <1>1, <1>3, <2>2, <3>2, <3>3
    <2> QED
      BY <2>1, <2>2
  <1> DEFINE t == SetValue(r.table, cursor, value)
  <1>5. cursor \in Rows(r.table) /\ value \in Cols
    BY <1>3, <1>4 DEF Cols
  <1>6. Mapped(t)
    BY <1>4, <1>5, SetOwn
  <1>7. r.done /\ Own(table, db) => Own(t, r.db)
    BY <1>4, <1>5, SetOwn
  <1> HIDE DEF t
  <1>8. [r EXCEPT !.table = t] = Result(t, r.db, r.done)
    BY <1>4 DEF Result
  <1>9. Take(Result(t, r.db, r.done), ~r.done)
    BY <1>2, <1>8 DEF t
  <1>10. /\ table' = t /\ db' = r.db /\ strayed' = (strayed \/ ~r.done)
         /\ raced' = (raced \/ (load # "idle" /\ db' # db))
    BY <1>9 DEF Take, Result
  <1>11. strayed' \/ Own(table', db')
    BY <1>1, <1>4, <1>7, <1>10 DEF OInv
  <1> QED
    BY <1>1, <1>6, <1>10, <1>11, OwnEdited

LEMMA OwnUndo == IInv /\ OInv /\ OnUndo => OInv'
  <1> SUFFICES ASSUME IInv, OInv, OnUndo PROVE OInv'
    OBVIOUS
  <1> DEFINE t == UndoLine(table, cursor)
  <1>1. table # NoTable /\ UNCHANGED <<load, answer>>
    BY DEF OnUndo, Ready, Open, loadVars
  <1>2. /\ Mapped(t)
        /\ Own(table, db) /\ table.lastRow \in {0, cursor} => Own(t, db)
    BY <1>1, OpenFacts, UndoOwn DEF OInv
  <1>3. /\ table' = t /\ db' = db /\ strayed' = (strayed \/ table.lastRow \notin {0, cursor})
        /\ raced' = (raced \/ (load # "idle" /\ db' # db))
    BY DEF OnUndo, Take, Result
  <1> HIDE DEF t
  <1> QED
    BY <1>1, <1>2, <1>3, OwnEdited DEF OInv

LEMMA OwnDelete == IInv /\ OInv /\ DeleteNext => OInv'
  <1> SUFFICES ASSUME IInv, OInv, DeleteNext PROVE OInv'
    OBVIOUS
  <1> DEFINE row == Last(doomed)
  <1>1. doomed # {} /\ UNCHANGED <<load, answer>>
    BY DEF DeleteNext, loadVars
  <1>2. table # NoTable
    BY <1>1 DEF IInv
  <1>3. PICK r \in DeleteRow(table, row) : Take(r, r.done /\ row <= table.lastRow)
    BY DEF DeleteNext
  <1>4. row \in Rows(table)
    <2>1. doomed \subseteq 1..NumberRows(table) /\ NumberRows(table) \in Nat
          /\ Rows(table) = 1..NumberRows(table)
      BY <1>2, OpenFacts
    <2> QED
      BY <1>1, <2>1, LastRow
  <1> HIDE DEF row
  <1>5. /\ Mapped(r.table)
        /\ Own(table, db) /\ ~(r.done /\ row <= table.lastRow) => Own(r.table, r.db)
    BY <1>2, <1>4, OpenFacts, DeleteOwn DEF OInv
  <1> QED
    BY <1>1, <1>2, <1>3, <1>5, OwnEdited DEF Take, OInv

\* The answers to the question about unsaved data.
LEMMA AskedOwn ==
    ASSUME IInv, OInv, table # NoTable, NEW undo \in BOOLEAN, NEW a \in Asked(undo)
    PROVE  /\ Mapped(a.table)
           /\ strayed \/ a.stray \/ Own(a.table, a.db)
           /\ undo /\ a.done => a.table.lastRow = 0
  <1>1. CASE ~storeTool
    <2>1. a = Answer(table, db, TRUE, FALSE, FALSE)
      BY <1>1 DEF Asked
    <2>2. a.table = table /\ a.db = db
      BY <2>1 DEF Answer
    <2> QED
      BY <1>1, <2>2, OpenFacts DEF OInv
  <1>2. CASE storeTool
    <2>1. CASE \E r \in StoreLine(table) : a = Answer(r.table, r.db, r.done, FALSE, ~r.done)
      <3>1. PICK r \in StoreLine(table) : a = Answer(r.table, r.db, r.done, FALSE, ~r.done)
        BY <2>1
      <3>2. r.done => r.table.lastRow = 0
        BY OpenFacts, StoreSane
      <3>3. Mapped(r.table) /\ (Own(table, db) => Own(r.table, r.db))
        BY OpenFacts, StoreOwn DEF OInv
      <3>4. a.table = r.table /\ a.db = r.db /\ a.done = r.done
        BY <3>1 DEF Answer
      <3> QED
        BY <3>2, <3>3, <3>4 DEF OInv
    <2>2. CASE undo /\ a = Answer(UndoLine(table, cursor), db, TRUE,
                                  table.lastRow \notin {0, cursor}, FALSE)
      <3> DEFINE t == UndoLine(table, cursor)
      <3>1. t.lastRow = 0
        BY OpenFacts, UndoSane
      <3>2. Mapped(t) /\ (Own(table, db) /\ table.lastRow \in {0, cursor} => Own(t, db))
        BY OpenFacts, UndoOwn DEF OInv
      <3> HIDE DEF t
      <3>3. a.table = t /\ a.db = db /\ a.stray = (table.lastRow \notin {0, cursor})
        BY <2>2 DEF Answer, t
      <3> QED
        BY <3>1, <3>2, <3>3 DEF OInv
    <2>3. CASE ~undo /\ a = Answer(table, db, TRUE, FALSE, TRUE)
      <3>1. a.table = table /\ a.db = db
        BY <2>3 DEF Answer
      <3> QED
        BY <2>3, <3>1 DEF OInv
    <2> QED
      BY <1>2, <2>1, <2>2, <2>3 DEF Asked
  <1> QED
    BY <1>1, <1>2, OpenFacts

LEMMA OwnRefresh == \A undo \in BOOLEAN : IInv /\ OInv /\ OnRefresh(undo) => OInv'
  <1> SUFFICES ASSUME NEW undo \in BOOLEAN, IInv, OInv, OnRefresh(undo) PROVE OInv'
    OBVIOUS
  <1>1. table # NoTable /\ load = "idle"
    BY DEF OnRefresh, Ready, Open
  <1>2. PICK a \in Asked(undo) : Take(a, a.stray) /\ (Go \/ UNCHANGED <<load, answer>>)
    BY DEF OnRefresh
  <1>3. Mapped(a.table) /\ (strayed \/ a.stray \/ Own(a.table, a.db))
    BY <1>1, AskedOwn
  <1>4. load' # "answered"
    BY <1>1, <1>2 DEF Go
  <1>5. table' = a.table /\ db' = a.db /\ strayed' = (strayed \/ a.stray)
    BY <1>2 DEF Take
  <1> QED
    BY <1>3, <1>4, <1>5, OwnEdited

LEMMA OwnPaste == IInv /\ OInv /\ OnPaste => OInv'
  <1> SUFFICES ASSUME IInv, OInv, OnPaste PROVE OInv'
    OBVIOUS
  <1>1. table # NoTable /\ UNCHANGED <<load, answer>>
    BY DEF OnPaste, Ready, Open, loadVars
  <1>2. PICK a \in Asked(TRUE), value \in Keys \cup {NoKey} :
          IF a.done
          THEN Take([a EXCEPT !.table = SetValue(a.table, NumberRows(a.table), value)], a.stray)
          ELSE Take(a, FALSE)
    BY DEF OnPaste
  <1>3. /\ Mapped(a.table) /\ (strayed \/ a.stray \/ Own(a.table, a.db))
        /\ a.done => a.table.lastRow = 0
    BY <1>1, AskedOwn
  <1>4. Sane(a.table) /\ a = Answer(a.table, a.db, a.done, a.stray, a.tool)
    BY <1>1, AskedFacts
  <1>5. CASE a.done
    <2> DEFINE row == NumberRows(a.table)
               t == SetValue(a.table, row, value)
    <2>1. row \in Rows(a.table) /\ ~ReadOnly(a.table, row) /\ value \in Cols
      BY <1>3, <1>4, LastMayBeTouched DEF Cols
    <2>2. Mapped(t) /\ (Own(a.table, a.db) => Own(t, a.db))
      BY <1>3, <1>4, <1>5, <2>1, SetOwn
    <2> HIDE DEF t
    <2>3. [a EXCEPT !.table = t] = Answer(t, a.db, a.done, a.stray, a.tool)
      BY <1>4 DEF Answer
    <2>4. Take(Answer(t, a.db, a.done, a.stray, a.tool), a.stray)
      BY <1>2, <1>5, <2>3 DEF t
    <2>5. /\ table' = t /\ db' = a.db /\ strayed' = (strayed \/ a.stray)
          /\ raced' = (raced \/ (load # "idle" /\ db' # db))
      BY <2>4 DEF Take, Answer
    <2> QED
      BY <1>1, <1>3, <2>2, <2>5, OwnEdited
  <1>6. CASE ~a.done
    <2>1. a.stray = FALSE
      <3>1. CASE storeTool /\ \E r \in StoreLine(table) : a = Answer(r.table, r.db, r.done, FALSE, ~r.done)
        BY <3>1 DEF Answer
      <3>2. CASE a = Answer(table, db, TRUE, FALSE, FALSE)
        BY <1>6, <3>2 DEF Answer
      <3>3. CASE a = Answer(UndoLine(table, cursor), db, TRUE, table.lastRow \notin {0, cursor}, FALSE)
        BY <1>6, <3>3 DEF Answer
      <3> QED
        BY <3>1, <3>2, <3>3 DEF Asked
    <2>2. Take(a, FALSE)
      BY <1>2, <1>6
    <2>3. /\ table' = a.table /\ db' = a.db /\ strayed' = strayed
          /\ raced' = (raced \/ (load # "idle" /\ db' # db))
      BY <1>1, <2>2, OpenFacts DEF Take
    <2> QED
      BY <1>1, <1>3, <2>1, <2>3, OwnEdited
  <1> QED
    BY <1>5, <1>6

\* The rows that were fetched are those of the database, if nothing was stored
\* since.
LEMMA OwnLoaded == IInv /\ OInv /\ Loaded => OInv'
  <1> SUFFICES ASSUME IInv, OInv, Loaded PROVE OInv'
    OBVIOUS
  <1>1. load' = "idle" /\ strayed' = raced /\ db' = db
    BY DEF Loaded
  <1>2. CASE table' = NoTable
    BY <1>1, <1>2 DEF OInv
  <1>3. CASE table' # NoTable
    <2>1. load = "answered" /\ table' = NewTable(answer)
      BY <1>3 DEF Loaded
    <2>2. answer \in Seq(Keys) /\ db \subseteq Keys
      BY DEF IInv, TypeOK
    <2>3. Mapped(table') /\ (answer \in Orders(db) => Own(table', db))
      BY <2>1, <2>2, NewOwn
    <2> QED
      BY <1>1, <2>1, <2>3, OwnEdited DEF OInv
  <1> QED
    BY <1>2, <1>3

LEMMA OwnClose == IInv /\ OInv /\ OnClose => OInv'
  <1> SUFFICES ASSUME IInv, OInv, OnClose PROVE OInv'
    OBVIOUS
  <1>1. CASE table' = NoTable /\ load' = "idle"
    BY <1>1 DEF OInv
  <1>2. CASE ~(table' = NoTable /\ load' = "idle")
    <2>1. table # NoTable
      BY <1>2 DEF OnClose
    <2>2. PICK r \in StoreLine(table) :
            /\ db' = r.db /\ ~r.done /\ table' = r.table
            /\ UNCHANGED <<load, answer>> /\ UNCHANGED <<strayed, raced>>
      BY <1>2 DEF OnClose, loadVars, ghostVars
    <2>3. r.table = table /\ r.db = db
      BY <2>1, <2>2, OpenFacts, StoreSane
    <2> QED
      BY <2>2, <2>3 DEF OInv
  <1> QED
    BY <1>1, <1>2

LEMMA OwnNext == IInv /\ OInv /\ [Next]_vars => OInv'
  <1> SUFFICES ASSUME IInv, OInv, [Next]_vars PROVE OInv'
    OBVIOUS
  <1>1. CASE UNCHANGED <<db, table, load, answer, strayed, raced>>
    BY <1>1 DEF OInv
  <1>2. CASE MoveCursor \/ OnSave \/ Select \/ Type \/ OnUndo \/ OnPaste
    BY <1>2, OwnMove, OwnSave, OwnType, OwnUndo, OwnPaste
  <1>3. CASE OnRefresh(TRUE) \/ OnRefresh(FALSE)
    BY <1>3, OwnRefresh
  <1>4. CASE DeleteNext \/ Loaded \/ OnClose
    BY <1>4, OwnDelete, OwnLoaded, OwnClose
  <1>5. CASE EditorShown \/ OnDelete \/ Closed \/ UNCHANGED vars
    <2>1. UNCHANGED <<db, table, load, answer, strayed, raced>>
      BY <1>5 DEF EditorShown, OnDelete, Closed, vars, loadVars, ghostVars
    <2> QED
      BY <1>1, <2>1
  <1>6. CASE OnFilter \/ OnRetry
    <2>1. UNCHANGED <<db, table, strayed, raced>> /\ load = "idle" /\ Go
      BY <1>6 DEF OnFilter, OnRetry, ghostVars
    <2> QED
      BY <2>1 DEF Go, OInv
  <1>7. CASE Fetch
    <2>1. UNCHANGED <<db, table, strayed, raced>>
      BY <1>7 DEF Fetch, ghostVars
    <2>2. load' = "answered" => answer' \in Orders(db)
      BY <1>7 DEF Fetch
    <2> QED
      BY <2>1, <2>2 DEF OInv
  <1>8. CASE Show
    <2>1. table # NoTable /\ UNCHANGED <<db, load, answer, strayed, raced>>
      BY <1>8 DEF Show, loadVars, ghostVars
    <2>2. PICK row \in Rows(table) : table' = Fill(table, row)
      BY <1>8 DEF Show
    <2>3. Mapped(table') /\ (Own(table, db) => Own(table', db))
      BY <2>1, <2>2, OpenFacts, FillMapped, FillOwn DEF OInv
    <2> QED
      BY <2>1, <2>3 DEF OInv
  <1> QED
    BY <1>2, <1>3, <1>4, <1>5, <1>6, <1>7, <1>8 DEF Next, User

\* As long as the user sees to a row that could not be stored before touching
\* another, every row of the grid stands for a row of the database, no two for
\* the same and none is missing, whatever is inserted, pasted, undone, deleted
\* and loaded again.
THEOREM RowsStayTheTable == Spec => []RowsAreTheTable
  <1>1. Init => OInv
    BY DEF Init, OInv
  <1>2. IInv /\ OInv => RowsAreTheTable
    <2> SUFFICES ASSUME IInv, OInv, ~strayed, table # NoTable PROVE EachRowItsOwn
      BY DEF RowsAreTheTable, EachRowItsOwn
    <2>1. Own(table, db)
      BY DEF OInv
    <2>2. Rows(table) = 1..NumberRows(table) /\ NumberRows(table) \in Nat \ {0}
      BY OpenFacts
    <2>3. StoredRows = 1..(NumberRows(table) - 1)
      BY <2>2 DEF StoredRows
    <2>4. Cardinality(StoredRows) = NumberRows(table) - 1
      <3>1. PICK n \in Nat : NumberRows(table) = n + 1
        BY <2>2
      <3>2. StoredRows = 1..n
        BY <2>3, <3>1
      <3>3. Cardinality(1..n) = n
        BY FS_Interval
      <3> QED
        BY <3>1, <3>2, <3>3
    <2>5. db \subseteq Keys /\ IsFiniteSet(db) /\ Cardinality(db) \in Nat
      BY OpenFacts, KeysAssumption, FS_Subset, FS_CardinalityType
    <2>6. Cardinality(StoredRows) = Cardinality(db)
      BY <2>1, <2>2, <2>4, <2>5 DEF Own
    <2>7. \A row : KeyOf(row) = KeyIn(table, row)
      BY DEF KeyOf, KeyIn
    <2>8. \A row \in StoredRows :
              \/ GetLine(table, row).readOnly
              \/ /\ KeyOf(row) \in db
                 /\ \A other \in StoredRows \ {row} : KeyOf(other) # KeyOf(row)
      BY <2>1, <2>3, <2>7 DEF Own, ReadOnly
    <2> QED
      BY <2>6, <2>8 DEF EachRowItsOwn
  <1>3. Spec => [](IInv /\ OInv)
    <2>1. IInv /\ OInv /\ [Next]_vars => IInv' /\ OInv'
      BY NextInv, OwnNext
    <2> QED
      BY <1>1, <2>1, InitInv, PTL DEF Spec
  <1> QED
    BY <1>2, <1>3, PTL

=============================================================================
