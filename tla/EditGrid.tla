------------------------------ MODULE EditGrid ------------------------------
(***************************************************************************)
(* The window that shows and edits the rows of a table: frmEditGrid, its   *)
(* grid and the sqlTable behind the grid (frm/frmEditGrid.cpp).            *)
(*                                                                         *)
(* A sqlTable takes its rows from the result of a query thread, line by    *)
(* line as they are displayed, maps the rows of the grid to these lines    *)
(* and to the lines added since, and stores the row that was changed last. *)
(* frmEditGrid loads a table with Go, which waits for its thread in a loop *)
(* of Yields, so the user goes on with the old table meanwhile.            *)
(*                                                                         *)
(* Of a line only the primary key is kept, so an UPDATE or a DELETE can be *)
(* seen to reach a row of the database.  The relation can be edited, no    *)
(* other session changes it, and no filter or limit hides rows of it.      *)
(* Rows count from 1, and lastRow is 0 where the code has -1.  A value     *)
(* typed in a cell is in the table before another cell is selected.        *)
(***************************************************************************)
EXTENDS Integers, Sequences, FiniteSets

CONSTANTS
    Keys,    \* the values of the primary key
    NoKey,    \* a line with values, none of them for the key
    Empty,    \* a line without values
    MaxAdded, \* bound on the rows added, the empty one included
    Careless  \* the user goes on with a grid in which something was passed over

ASSUME KeysAssumption ==
    IsFiniteSet(Keys) /\ NoKey \notin Keys /\ Empty \notin Keys /\ NoKey # Empty
ASSUME BoundsAssumption == MaxAdded \in Nat \ {0} /\ Careless \in BOOLEAN

VARIABLES
    db,         \* keys of the rows in the database
    table,      \* the sqlTable of the grid
    cursor,     \* row of the grid's cursor
    selected,   \* selected rows
    storeTool,  \* MNU_SAVE (and MNU_UNDO) is enabled
    deleteTool, \* MNU_DELETE is enabled
    doomed,     \* rows that OnDelete has still to delete
    load,       \* Go: idle, its thread running, or answered or failed
    answer,     \* the rows its thread has fetched, in order
    window,     \* open or closed
    strayed,    \* history: a row with changes that are not stored was passed over
    raced       \* history: a change was stored while the rows were being loaded

editVars == <<cursor, selected, storeTool, deleteTool, doomed>>
loadVars == <<load, answer, window>>
ghostVars == <<strayed, raced>>
vars == <<db, table, editVars, loadVars, ghostVars>>

Cols == Keys \cup {NoKey, Empty}
Line == [cols : Cols, filled : BOOLEAN, stored : BOOLEAN, readOnly : BOOLEAN]

\* A line of addPool that nobody has written to yet.
Blank == [cols |-> Empty, filled |-> TRUE, stored |-> FALSE, readOnly |-> FALSE]

\* addPool grows as needed.
Pool == 1..MaxAdded

NoTable == [none |-> TRUE]

-----------------------------------------------------------------------------
(* Rows and lines                                                          *)

\* The constructor: all lines are still to be read, and an empty line waits
\* for inserts.
NewTable(rows) ==
    [data |-> [i \in DOMAIN rows |-> [cols |-> rows[i], filled |-> FALSE,
                                      stored |-> FALSE, readOnly |-> FALSE]],
     lineIndex |-> [i \in DOMAIN rows |-> i],
     rowsDeleted |-> 0, rowsCached |-> 0, thread |-> TRUE,
     addPool |-> [i \in Pool |-> Blank],
     rowsAdded |-> 1, rowsStored |-> 0,
     lastRow |-> 0, savedLine |-> Empty]

DataRows(t) == Len(t.data) - t.rowsDeleted
NumberRows(t) == DataRows(t) + t.rowsAdded
Rows(t) == 1..NumberRows(t)

GetLine(t, row) ==
    IF row <= DataRows(t) THEN t.data[t.lineIndex[row]]
                          ELSE t.addPool[row - DataRows(t)]

PutLine(t, row, line) ==
    IF row <= DataRows(t)
    THEN [t EXCEPT !.data[t.lineIndex[row]] = line]
    ELSE [t EXCEPT !.addPool[row - DataRows(t)] = line]

\* GetValue of a row whose line was not read yet.  With the last line the
\* thread and its dataset go; a line that is read without them stays empty.
\* (Mutant: the thread goes when the last row is read.)
MutFill(t, row) ==
    LET line == GetLine(t, row)
        n == t.rowsCached + 1
    IN  IF line.filled THEN t
        ELSE IF ~t.thread THEN PutLine(t, row, [Blank EXCEPT !.filled = TRUE])
        ELSE [PutLine(t, row, [line EXCEPT !.filled = TRUE, !.stored = TRUE])
                EXCEPT !.rowsCached = n, !.thread = (row # DataRows(t))]

Fill(t, row) ==
    LET line == GetLine(t, row)
        n == t.rowsCached + 1
    IN  IF line.filled THEN t
        ELSE IF ~t.thread THEN PutLine(t, row, Blank)
        ELSE [PutLine(t, row, [line EXCEPT !.filled = TRUE, !.stored = TRUE])
                EXCEPT !.rowsCached = n, !.thread = (n # Len(t.data))]

-----------------------------------------------------------------------------
(* Statements                                                              *)

\* What an UPDATE of the key, an INSERT and a DELETE leave of the database,
\* if they succeed.  An UPDATE or a DELETE that finds no row succeeds.
UpdateKey(key, new) ==
    IF key \notin Keys \/ new \notin Keys \/ (key \in db /\ new \in db) THEN {}
    ELSE IF key \in db THEN {(db \ {key}) \cup {new}} ELSE {db}

Insert(cols) ==
    IF cols = NoKey THEN {db \cup {k} : k \in Keys \ db}
    ELSE IF cols \in db THEN {} ELSE {db \cup {cols}}

\* If lastRow names a line that has no columns yet, the code uses a NULL
\* pointer: no step follows that.
NoColumns(t) == t.lastRow > NumberRows(t) \/ ~GetLine(t, t.lastRow).filled

Result(t, d, done) == [table |-> t, db |-> d, done |-> done]

\* An INSERT was done.  The server made up the key that was left out, so the
\* line is not touched again.  (Mutant: no new empty line is appended.)
MutInserted(t) ==
    LET line == GetLine(t, t.lastRow)
        u == [t EXCEPT !.rowsStored = @ + 1, !.lastRow = 0, !.savedLine = Empty]
    IN  PutLine(u, t.lastRow, [line EXCEPT !.stored = TRUE, !.readOnly = (line.cols = NoKey)])

Inserted(t) ==
    LET line == GetLine(t, t.lastRow)
        u == [t EXCEPT !.rowsStored = @ + 1,
                       !.rowsAdded = IF @ = t.rowsStored + 1 THEN @ + 1 ELSE @,
                       !.lastRow = 0, !.savedLine = Empty]
    IN  PutLine(u, t.lastRow, [line EXCEPT !.stored = TRUE, !.readOnly = (line.cols = NoKey)])

\* StoreLine: the possible [table, db, done].  It looks at savedLine only while
\* lastRow names a row.  (Mutant: the WHERE clause is made of the changed line.)
MutStoreLine(t) ==
    LET line == GetLine(t, t.lastRow)
        failed == Result(t, db, FALSE)
        updated == [t EXCEPT !.lastRow = 0, !.savedLine = Empty]
    IN  IF t.lastRow = 0 THEN {failed}
        ELSE IF NoColumns(t) THEN {}
        ELSE IF ~line.stored
        THEN {failed} \cup
             (IF line.cols = Empty THEN {}
              ELSE {Result(Inserted(t), d, TRUE) :
                        d \in IF t.rowsAdded < MaxAdded THEN Insert(line.cols) ELSE {}})
        ELSE IF line.cols = t.savedLine THEN {Result(updated, db, TRUE)}
        ELSE {failed} \cup
             {Result(updated, d, TRUE) : d \in UpdateKey(line.cols, line.cols)}

StoreLine(t) ==
    LET line == GetLine(t, t.lastRow)
        failed == Result(t, db, FALSE)
        updated == [t EXCEPT !.lastRow = 0, !.savedLine = Empty]
    IN  IF t.lastRow = 0 THEN {failed}
        ELSE IF NoColumns(t) THEN {}
        ELSE IF ~line.stored
        THEN {failed} \cup
             (IF line.cols = Empty THEN {}
              ELSE {Result(Inserted(t), d, TRUE) :
                        d \in IF t.rowsAdded < MaxAdded THEN Insert(line.cols) ELSE {}})
        ELSE IF line.cols = t.savedLine THEN {Result(updated, db, TRUE)}
        ELSE {failed} \cup
             {Result(updated, d, TRUE) : d \in UpdateKey(t.savedLine, line.cols)}

\* SetValue in a row, of a table in which the row changed before was stored,
\* or could not be.
SetValue(t, row, value) ==
    LET line == GetLine(t, row)
        u == IF row = t.lastRow THEN t
             ELSE [t EXCEPT !.savedLine = line.cols, !.lastRow = row]
    IN  PutLine(u, row, [line EXCEPT !.cols = value])

\* UndoLine restores the saved line, into the row it is given.  (Mutant: the
\* row goes on as changed.)
MutUndoLine(t, row) ==
    IF t.lastRow = 0 THEN t
    ELSE PutLine(t, row, [GetLine(t, row) EXCEPT !.cols = t.savedLine])

UndoLine(t, row) ==
    IF t.lastRow = 0 THEN t
    ELSE [PutLine(t, row, [GetLine(t, row) EXCEPT !.cols = t.savedLine])
            EXCEPT !.lastRow = 0, !.savedLine = Empty]

\* DeleteRows takes a row out of the grid; nothing looks at its line again.
\* (Mutant: the lines behind a deleted one are not moved up.)
MutRemoveRow(t, row) ==
    IF row <= DataRows(t) THEN [t EXCEPT !.rowsDeleted = @ + 1]
    ELSE LET at == row - DataRows(t) IN
         [t EXCEPT !.rowsAdded = @ - 1, !.rowsStored = @ - 1,
                   !.addPool = [i \in Pool |->
                       IF i < at THEN @[i] ELSE IF i + 1 \in Pool THEN @[i + 1] ELSE Blank]]

RemoveRow(t, row) ==
    IF row <= DataRows(t)
    THEN [t EXCEPT !.rowsDeleted = @ + 1,
                   !.data[t.lineIndex[row]].cols = Empty,
                   !.lineIndex = [i \in DOMAIN t.data |->
                       IF i \in row..(DataRows(t) - 1) THEN @[i + 1] ELSE @[i]]]
    ELSE LET at == row - DataRows(t) IN
         [t EXCEPT !.rowsAdded = @ - 1, !.rowsStored = @ - 1,
                   !.addPool = [i \in Pool |->
                       IF i < at THEN @[i] ELSE IF i + 1 \in Pool THEN @[i + 1] ELSE Blank]]

\* DeleteRows(row): the possible [table, db, done].  The empty line is only
\* cleared.
DeleteRow(t, row) ==
    LET u == Fill(t, row)
        line == GetLine(u, row)
    IN  IF line.stored
        THEN {Result(u, db, FALSE)} \cup
             (IF line.cols \in Keys THEN {Result(RemoveRow(u, row), db \ {line.cols}, TRUE)} ELSE {})
        ELSE {Result(PutLine(u, row, [line EXCEPT !.cols = Empty]), db, FALSE)}

-----------------------------------------------------------------------------
(* The window                                                              *)

Orders(rows) ==
    {s \in [1..Cardinality(rows) -> rows] : \A i, j \in DOMAIN s : s[i] = s[j] => i = j}

\* ShowForm has called Go.
Init ==
    /\ db \in SUBSET Keys
    /\ table = NoTable
    /\ cursor = 1 /\ selected = {}
    /\ storeTool = FALSE /\ deleteTool = FALSE
    /\ doomed = {}
    /\ load = "running" /\ answer = <<>>
    /\ window = "open"
    /\ strayed = FALSE /\ raced = FALSE

\* No handler but Go's is under way, there is a table, and the row of the
\* cursor was painted.
Open ==
    /\ window = "open" /\ doomed = {} /\ table # NoTable
    /\ GetLine(table, cursor).filled
Ready == Open /\ (Careless \/ ~strayed)

\* Effect of a statement's result, and of what else came to pass.
Take(r, stray) ==
    /\ table' = r.table /\ db' = r.db
    /\ strayed' = (strayed \/ stray)
    /\ raced' = (raced \/ (load # "idle" /\ r.db # db))

\* OnGridSelectCells enables the Delete tool, but not for the empty line nor
\* for a line that must not be touched.
Deletable(t, rows) ==
    /\ rows # {}
    /\ \A row \in rows : row # NumberRows(t) /\ ~GetLine(t, row).readOnly

\* StoreLine selects the row it could not store.
SelectionAfter(r, otherwise) ==
    IF r.done \/ r.table.lastRow = 0
    THEN selected' = otherwise /\ deleteTool' = Deletable(r.table, otherwise)
    ELSE /\ selected' = {r.table.lastRow}
         /\ deleteTool' = Deletable(r.table, {r.table.lastRow})

\* The grid paints a row.
Show ==
    /\ window = "open" /\ table # NoTable
    /\ \E row \in Rows(table) :
          ~GetLine(table, row).filled /\ table' = Fill(table, row)
    /\ UNCHANGED <<db, editVars, loadVars, ghostVars>>

\* A cell in another row is selected: OnCellChange stores the row that was
\* changed.  An event that is not skipped is not vetoed: the cursor moves even
\* if that fails.
MoveCursor ==
    /\ Ready
    /\ \E row \in Rows(table) \ {cursor} :
          /\ cursor' = row
          /\ IF table.lastRow \notin {0, row}
             THEN \E r \in StoreLine(table) :
                     /\ Take(r, FALSE)
                     /\ SelectionAfter(r, {})
                     /\ storeTool' = (storeTool /\ ~r.done)
             ELSE /\ selected' = {} /\ deleteTool' = FALSE
                  /\ storeTool' = (storeTool /\ table.lastRow # 0)
                  /\ UNCHANGED <<db, table, ghostVars>>
    /\ UNCHANGED <<doomed, loadVars>>

\* OnEditorShown.
EditorShown ==
    /\ Ready
    /\ ~GetLine(table, cursor).readOnly
    /\ storeTool' = TRUE
    /\ UNCHANGED <<db, table, cursor, selected, deleteTool, doomed, loadVars, ghostVars>>

\* sqlTable::SetValue: the row that was changed before is stored, but whether
\* that succeeds is not looked at.
StoreOther(row) ==
    IF table.lastRow \in {0, row} THEN {Result(table, db, TRUE)} ELSE StoreLine(table)

\* A value is typed in the cursor's row.
Type ==
    /\ Ready
    /\ ~GetLine(table, cursor).readOnly
    /\ \E value \in Keys \cup {NoKey}, r \in StoreOther(cursor) :
          /\ value # GetLine(table, cursor).cols
          /\ Take([r EXCEPT !.table = SetValue(r.table, cursor, value)], ~r.done)
          /\ SelectionAfter(r, selected)
    /\ storeTool' = TRUE
    /\ UNCHANGED <<cursor, doomed, loadVars>>

\* DoSave.
OnSave ==
    /\ Ready /\ storeTool
    /\ \E r \in StoreLine(table) :
          /\ Take(r, FALSE)
          /\ SelectionAfter(r, selected)
          /\ storeTool' = ~r.done
    /\ UNCHANGED <<cursor, doomed, loadVars>>

\* OnUndo, and CancelChange for the Escape key.
OnUndo ==
    /\ Ready
    /\ Take(Result(UndoLine(table, cursor), db, TRUE), table.lastRow \notin {0, cursor})
    /\ storeTool' = FALSE
    /\ UNCHANGED <<cursor, selected, deleteTool, doomed, loadVars>>

\* Rows are selected: OnGridSelectCells.
Select ==
    /\ Ready
    /\ \E rows \in SUBSET Rows(table) \ {{}}, r \in StoreLine(table) :
          /\ Take(r, FALSE)
          /\ selected' = IF r.done \/ r.table.lastRow = 0 THEN rows ELSE {r.table.lastRow}
          /\ deleteTool' = Deletable(r.table, rows)
          /\ storeTool' = (storeTool /\ ~r.done)
    /\ UNCHANGED <<cursor, doomed, loadVars>>

\* OnDelete, confirmed by the user, deletes the selected rows from the last
\* to the first.
OnDelete ==
    /\ Ready
    /\ deleteTool /\ selected # {}
    /\ doomed' = selected
    /\ UNCHANGED <<db, table, cursor, selected, storeTool, deleteTool, loadVars, ghostVars>>

\* (Mutant: in the order in which they come.)
MutLast(rows) == CHOOSE row \in rows : \A other \in rows : row <= other

Last(rows) == CHOOSE row \in rows : \A other \in rows : other <= row

DeleteNext ==
    /\ window = "open" /\ doomed # {}
    /\ LET row == Last(doomed) IN
       \E r \in DeleteRow(table, row) :
          /\ Take(r, r.done /\ row <= table.lastRow)
          /\ doomed' \in IF r.done THEN {doomed \ {row}} ELSE {doomed \ {row}, {}}
          /\ selected' = IF r.done THEN {IF i > row THEN i - 1 ELSE i : i \in selected \ {row}}
                         ELSE selected
          /\ cursor' = IF cursor <= NumberRows(r.table) THEN cursor ELSE 1
    /\ UNCHANGED <<storeTool, deleteTool, loadVars>>

-----------------------------------------------------------------------------
(* Unsaved data, loading and closing                                       *)

Answer(t, d, done, stray, tool) ==
    [table |-> t, db |-> d, done |-> done, stray |-> stray, tool |-> tool]

\* "There is unsaved data in a row.  Do you want to store to the database?"
\* With No, OnOptions and OnPaste undo the change, the others leave it.
Asked(undo) ==
    IF ~storeTool THEN {Answer(table, db, TRUE, FALSE, FALSE)}
    ELSE {Answer(r.table, r.db, r.done, FALSE, ~r.done) : r \in StoreLine(table)}
         \cup {IF undo THEN Answer(UndoLine(table, cursor), db, TRUE,
                                   table.lastRow \notin {0, cursor}, FALSE)
                       ELSE Answer(table, db, TRUE, FALSE, TRUE)}

\* Go up to its loop; the check that the table can be read may fail.
Go ==
    \/ load' = "running" /\ UNCHANGED answer
    \/ UNCHANGED <<load, answer>>

\* OnRefresh and OnOptions; these tools are disabled while Go runs.
OnRefresh(undo) ==
    /\ Ready /\ load = "idle"
    /\ \E a \in Asked(undo) :
          /\ Take(a, a.stray)
          /\ storeTool' = a.tool
          /\ SelectionAfter(a, selected)
          /\ IF a.done THEN Go ELSE UNCHANGED <<load, answer>>
    /\ UNCHANGED <<cursor, doomed, window>>

\* Filters and sort orders of the context menu do not ask.
OnFilter ==
    /\ Open /\ load = "idle"
    /\ Go
    /\ UNCHANGED <<db, table, editVars, window, ghostVars>>

\* After a load that failed there is no table, and Refresh has nothing to ask.
OnRetry ==
    /\ window = "open" /\ table = NoTable /\ load = "idle" /\ ~storeTool
    /\ Go
    /\ UNCHANGED <<db, table, editVars, window, ghostVars>>

\* sqlTable::Paste fills the empty line.
OnPaste ==
    /\ Ready
    /\ \E a \in Asked(TRUE), value \in Keys \cup {NoKey} :
          IF a.done
          THEN LET row == NumberRows(a.table) IN
               /\ Take([a EXCEPT !.table = SetValue(a.table, row, value)], a.stray)
               /\ cursor' = row
               /\ storeTool' = TRUE
               /\ UNCHANGED <<selected, deleteTool>>
          ELSE /\ Take(a, FALSE)
               /\ SelectionAfter(a, selected)
               /\ storeTool' = a.tool
               /\ UNCHANGED cursor
    /\ UNCHANGED <<doomed, loadVars>>

\* Go's thread fetches the rows, or its query fails.
Fetch ==
    /\ load = "running" /\ window = "open"
    /\ \/ load' = "answered" /\ answer' \in Orders(db)
       \/ load' = "failed" /\ UNCHANGED answer
    /\ UNCHANGED <<db, table, editVars, window, ghostVars>>

\* The rest of Go: the new table takes the place of the old one, or Abort
\* takes that away.
Loaded ==
    /\ window = "open" /\ doomed = {}
    /\ load \in {"answered", "failed"}
    /\ load' = "idle" /\ answer' = <<>>
    /\ table' = IF load = "answered" THEN NewTable(answer) ELSE NoTable
    /\ strayed' = raced /\ raced' = FALSE
    /\ cursor' = 1 /\ selected' = {}
    /\ UNCHANGED <<db, storeTool, deleteTool, doomed, window>>

\* OnCloseWindow.  OnCellChange is called with an event for no row: it stores
\* a changed row without asking, and what was not typed into the table yet is
\* not asked for either.
OnClose ==
    /\ window = "open" /\ doomed = {}
    /\ IF table = NoTable \/ table.lastRow = 0
       THEN /\ window' = "closed" /\ load' = "idle" /\ answer' = <<>>
            /\ table' = NoTable
            /\ UNCHANGED <<db, editVars, ghostVars>>
       ELSE \E r \in StoreLine(table), refuse \in BOOLEAN :
            /\ db' = r.db
            /\ storeTool' = ~r.done
            /\ IF r.done \/ ~refuse
               THEN /\ window' = "closed" /\ load' = "idle" /\ answer' = <<>>
                    /\ table' = NoTable
                    /\ UNCHANGED <<selected, deleteTool>>
               ELSE /\ table' = r.table
                    /\ SelectionAfter(r, selected)
                    /\ UNCHANGED loadVars
            /\ UNCHANGED <<cursor, doomed, ghostVars>>

Closed == window = "closed" /\ UNCHANGED vars

User ==
    \/ MoveCursor \/ EditorShown \/ Type \/ OnSave \/ OnUndo \/ Select \/ OnDelete
    \/ OnRefresh(TRUE) \/ OnRefresh(FALSE) \/ OnFilter \/ OnRetry \/ OnPaste \/ OnClose

Next == User \/ Show \/ DeleteNext \/ Fetch \/ Loaded \/ Closed

Spec == Init /\ [][Next]_vars

-----------------------------------------------------------------------------
(* Properties                                                              *)

Tables ==
    [data : Seq(Line), lineIndex : Seq(Nat), rowsDeleted : Nat, rowsCached : Nat,
     thread : BOOLEAN, addPool : [Pool -> Line], rowsAdded : Nat, rowsStored : Nat,
     lastRow : Nat, savedLine : Cols]

\* Every variable has its type, and every row named by another variable exists.
TypeOK ==
    /\ db \subseteq Keys
    /\ table = NoTable \/ table \in Tables
    /\ storeTool \in BOOLEAN /\ deleteTool \in BOOLEAN
    /\ load \in {"idle", "running", "answered", "failed"}
    /\ answer \in Seq(Keys)
    /\ window \in {"open", "closed"}
    /\ strayed \in BOOLEAN /\ raced \in BOOLEAN
    /\ table # NoTable =>
          /\ cursor \in Rows(table)
          /\ selected \subseteq Rows(table)
          /\ doomed \subseteq Rows(table)
          /\ ~strayed => table.lastRow \in Rows(table) \cup {0}

\* "As soon as you store the data, ... a fresh empty asterisk line is created":
\* through inserts, pastes and deletions that fail and succeed the last row,
\* and no other, is waiting for an insert.
OneAsterisk ==
    table # NoTable =>
        /\ table.rowsAdded = table.rowsStored + 1
        /\ \A row \in Rows(table) :
              GetLine(table, row).filled =>
                  (GetLine(table, row).stored <=> row # NumberRows(table))

\* A line that was not read yet can be read: rows are deleted, and lines read,
\* in any order, and the thread that holds the rows is not deleted before the
\* last was read.  After that it is.
DatasetWhileNeeded ==
    table # NoTable =>
        /\ (\E i \in DOMAIN table.data : ~table.data[i].filled) => table.thread
        /\ table.data # <<>> /\ table.thread =>
              \E i \in DOMAIN table.data : ~table.data[i].filled

\* Whatever closes the window or replaces the table asks when MNU_SAVE is
\* enabled: so it is enabled while a row has changes that were not stored.
PendingKeepsStore ==
    table # NoTable /\ table.lastRow # 0 => storeTool

\* What the line of a row has of the database: the saved line where the row
\* was changed.
KeyOf(row) ==
    IF row = table.lastRow THEN table.savedLine ELSE GetLine(table, row).cols

StoredRows == {row \in Rows(table) : row # NumberRows(table)}

\* Every row of the grid stands for a row of the database, no two for the
\* same, and none is missing: so an UPDATE or DELETE reaches the row the user
\* sees.
EachRowItsOwn ==
    table # NoTable =>
        /\ Cardinality(StoredRows) = Cardinality(db)
        /\ \A row \in StoredRows :
              \/ GetLine(table, row).readOnly
              \/ /\ KeyOf(row) \in db
                 /\ \A other \in StoredRows \ {row} : KeyOf(other) # KeyOf(row)

\* As long as the user sees to a row that could not be stored before touching
\* another, and stores nothing while the rows are loaded again.
RowsAreTheTable == ~strayed => EachRowItsOwn

=============================================================================
