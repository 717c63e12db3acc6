--------------------------- MODULE Transformations ---------------------------
(***************************************************************************)
(* Table.Transform of outputs/data.go: the transformations of a test are   *)
(* applied to a parsed table, one after the other, first to the headers    *)
(* and then to each row.                                                   *)
(*                                                                         *)
(* A table holds pointers to its cells, and the pingparsing parser makes   *)
(* some cells once for all replies of a result.  A cell is named by its    *)
(* column and the first row that points to it.  What modifiers make of a   *)
(* number is the list of the modifiers applied to it.  In the tables of    *)
(* the parsers headers are strings and rows as long as the headers, so     *)
(* that the check of their length never passes over one.                   *)
(***************************************************************************)
EXTENDS Integers, SequencesExt, FiniteSetsExt

CONSTANTS
  Columns,             \* of a parsed table: sequence of [name, number, base]
  ResultOf,            \* for each row of a parsed table the result it is from
  TransformationLists  \* sequences of config.Transformation

\* The nil of a deleted header and of a deleted cell.
NoHeader == "deleted header"
NoCell   == <<>>
NRows == Len(ResultOf)

\* The nil is no string: it is not the name of a column.  The configuration
\* is not checked for the actions, so that they may be any string.
Names == STRING \ {NoHeader}
ASSUME TransformationsAssumption ==
  /\ Columns \in Seq([name : Names, number : BOOLEAN, base : BOOLEAN])
  /\ ResultOf \in Seq(Nat)
  /\ TransformationLists \subseteq
       Seq([source : Names, action : STRING, destination : Names,
            modifierAction : STRING, modifier : BOOLEAN])

VARIABLES
  headers, rows,  \* of the table: names, and pointers to cells
  cells,          \* the Row structures
  ts,             \* the transformations
  k, index, row,  \* the loop variables; row = 0 before the header is found
  status

loopVars == <<k, index, row>>
vars == <<headers, rows, cells, ts, loopVars, status>>

-----------------------------------------------------------------------------
(* Parsed tables                                                           *)

\* The rows that share the cell of a row: base cells are made once per result.
Sharing(c, r) ==
  IF c \in DOMAIN Columns /\ Columns[c].base
  THEN {s \in 1..NRows : ResultOf[s] = ResultOf[r]}
  ELSE {r}

Pointer(c, r) == <<c, Min(Sharing(c, r))>>

Init ==
  /\ headers = [c \in DOMAIN Columns |-> Columns[c].name]
  /\ rows = [r \in 1..NRows |-> [c \in DOMAIN Columns |-> Pointer(c, r)]]
  /\ cells = [p \in {Pointer(c, r) : c \in DOMAIN Columns, r \in 1..NRows} |->
               [number |-> Columns[p[1]].number, modifiers |-> <<>>]]
  /\ ts \in TransformationLists
  /\ k = 1 /\ index = 0 /\ row = 0 /\ status = "running"

-----------------------------------------------------------------------------
(* Transform                                                               *)

T == ts[k]

\* modifyValue follows the modifier only for a number and a known action.
Modifies(t, v) == v.number /\ t.modifierAction # "none"

ModifyValue(t, v) ==
  IF Modifies(t, v) THEN [v EXCEPT !.modifiers = Append(@, t.modifierAction)] ELSE v

\* GetHeaderIndexByName passes over deleted headers.
AtHeader == status = "running" /\ k <= Len(ts) /\ row = 0
Found    == {c \in DOMAIN headers : headers[c] = T.source}

\* An unknown source ends the whole Transform, without an error.
UnknownSource ==
  /\ AtHeader /\ Found = {}
  /\ status' = "done"
  /\ UNCHANGED <<headers, rows, cells, ts, loopVars>>

TransformHeaders ==
  /\ AtHeader /\ Found # {}
  /\ index' = Min(Found)
  /\ headers' =
       CASE T.action = "add"     -> Append(headers, T.destination)
         [] T.action = "delete"  -> [headers EXCEPT ![index'] = NoHeader]
         [] T.action = "replace" ->
              [headers EXCEPT ![index'] = IF T.destination = "" THEN T.source ELSE T.destination]
         [] OTHER -> headers
  /\ row' = 1
  /\ UNCHANGED <<rows, cells, ts, k, status>>

\* A row that ends before the column in front of the source is passed over.
ReachesSource == Len(rows[row]) >= index - 1

AtRow(action) ==
  status = "running" /\ row \in 1..NRows /\ ReachesSource /\ T.action = action

Value == cells[rows[row][index]]
CanModify == Modifies(T, Value) => T.modifier
NextRow == row' = row + 1 /\ UNCHANGED <<headers, ts, k, index, status>>

AddCell ==
  /\ AtRow("add") /\ CanModify
  /\ LET p == Pointer(Len(headers), row) IN
     /\ rows' = [rows EXCEPT ![row] = Append(@, p)]
     /\ cells' = [q \in DOMAIN cells \union {p} |-> IF q = p THEN ModifyValue(T, Value) ELSE cells[q]]
  /\ NextRow

\* Faulty: the cell is taken out, so that the ones behind it move up.
RemoveCell ==
  /\ AtRow("delete")
  /\ rows' = [rows EXCEPT ![row] = RemoveAt(@, index)]
  /\ UNCHANGED cells
  /\ NextRow

DeleteCell ==
  /\ AtRow("delete")
  /\ rows' = [rows EXCEPT ![row][index] = NoCell]
  /\ UNCHANGED cells
  /\ NextRow

\* The cell is changed where it is, also for the other rows that point to it.
ReplaceCell ==
  /\ AtRow("replace") /\ CanModify
  /\ cells' = [cells EXCEPT ![rows[row][index]] = ModifyValue(T, @)]
  /\ UNCHANGED rows
  /\ NextRow

\* A row that is too short, or an action that is none of the three.
PassOver ==
  /\ status = "running" /\ row \in 1..NRows
  /\ T.action \in {"add", "delete", "replace"} => ~ReachesSource
  /\ UNCHANGED <<rows, cells>>
  /\ NextRow

NilModifier ==
  /\ AtRow("add") \/ AtRow("replace")
  /\ ~CanModify
  /\ status' = "panic"
  /\ UNCHANGED <<headers, rows, cells, ts, loopVars>>

NextTransformation ==
  /\ status = "running" /\ row > NRows
  /\ k' = k + 1 /\ index' = 0 /\ row' = 0
  /\ UNCHANGED <<headers, rows, cells, ts, status>>

AllApplied ==
  /\ status = "running" /\ k > Len(ts)
  /\ status' = "done"
  /\ UNCHANGED <<headers, rows, cells, ts, loopVars>>

Terminated == status \in {"done", "panic"} /\ UNCHANGED vars

Next ==
  \/ UnknownSource \/ TransformHeaders
  \/ AddCell \/ DeleteCell \/ ReplaceCell \/ PassOver \/ NilModifier
  \/ NextTransformation \/ AllApplied \/ Terminated

Spec == Init /\ [][Next]_vars

-----------------------------------------------------------------------------
(* Reference: a table as a sequence of columns, each with its name and its *)
(* list of modified values.                                                *)

Column(c) == [name   |-> Columns[c].name,
              values |-> [r \in 1..NRows |-> [number |-> Columns[c].number, modifiers |-> <<>>]]]

Times(n, t, v) ==
  IF Modifies(t, v)
  THEN [v EXCEPT !.modifiers = @ \o [j \in 1..n |-> t.modifierAction]] ELSE v

Deleted == [name |-> NoHeader, values |-> [r \in 1..NRows |-> NoCell]]

With(table, i, column) == [c \in DOMAIN table |-> IF c = i THEN column ELSE table[c]]

\* What a transformation makes of a table with a column of its source.  The
\* values of an added column are modified once; a value that is replaced is
\* modified once for each row that shares its cell.
Apply(t, table) ==
  LET i    == Min({c \in DOMAIN table : table[c].name = t.source})
      old  == table[i].values
      once == [r \in 1..NRows |-> ModifyValue(t, old[r])]
      each == [r \in 1..NRows |-> Times(Cardinality(Sharing(i, r)), t, old[r])]
      name == IF t.destination = "" THEN t.source ELSE t.destination
  IN  CASE t.action = "add"     -> Append(table, [name |-> t.destination, values |-> once])
        [] t.action = "delete"  -> With(table, i, Deleted)
        [] t.action = "replace" -> With(table, i, [name |-> name, values |-> each])
        [] OTHER -> table

Reference[n \in Nat] ==
  IF n = 0 THEN [c \in DOMAIN Columns |-> Column(c)] ELSE Apply(ts[n], Reference[n - 1])

(***************************************************************************)
(* Between two transformations headers and rows are aligned and the table  *)
(* is what the transformations so far make of its columns: nothing moves   *)
(* to another column, an added column is a modified copy, and a replaced   *)
(* value is modified as often as rows share its cell.  The code panics     *)
(* only for a number in the source whose modifier is missing.              *)
(***************************************************************************)
MatchesReference ==
  /\ row = 0 =>
       LET table == Reference[k - 1] IN
       /\ headers = [c \in DOMAIN table |-> table[c].name]
       /\ \A r \in 1..NRows :
            /\ DOMAIN rows[r] = DOMAIN table
            /\ \A c \in DOMAIN table :
                 IF rows[r][c] = NoCell THEN table[c] = Deleted
                 ELSE table[c].values[r] = cells[rows[r][c]]
  /\ status = "panic" =>
       /\ ~T.modifier /\ T.modifierAction # "none" /\ T.action \in {"add", "replace"}
       /\ \E c \in DOMAIN Reference[k - 1] :
            LET col == Reference[k - 1][c] IN col.name = T.source /\ col.values[1].number
=============================================================================
