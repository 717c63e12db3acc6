----------------------------- MODULE SqlOutputs -----------------------------
(***************************************************************************)
(* The outputs that write to databases: sqlite and mysql.  Do connects     *)
(* when the output has no connection for the file (sqlite) or for the DSN  *)
(* with the table name (mysql) yet, sees to the table, and inserts rows    *)
(* outside of a transaction.  sqlite creates the table only when it        *)
(* connects; mysql asks for the table in every Do and creates it if        *)
(* autoCreateTables is set.                                                *)
(*                                                                         *)
(* As in FileOutputs, what counts of a name pattern is which fields of the *)
(* result it mentions.  That mysql accepts the statements is taken for     *)
(* granted; the database may refuse one at any time.                       *)
(***************************************************************************)
EXTENDS Integers, SequencesExt

CONSTANTS
  NTests, NRounds, Pairs,
  NRows,       \* rows in the table of a result
  Configs      \* the configurations of the output

Fields == {"test", "round", "pair"}

ASSUME SqlAssumption ==
  /\ NTests \in Nat \ {0} /\ NRounds \in Nat \ {0} /\ NRows \in Nat \ {0}
  /\ Configs \subseteq [output : {"sqlite", "mysql"},
                      fileBy : SUBSET Fields,   \* in NamePattern of sqlite
                      tableBy : SUBSET Fields,  \* in TableNamePattern
                      autoCreate : BOOLEAN]     \* MySQL.AutoCreateTables

Results == [test : 1..NTests, round : 1..NRounds, pair : Pairs]

Name(r, by) == [f \in by |-> r[f]]

VARIABLES
  config,    \* the configuration; no step changes it
  reliable,  \* the database refuses nothing; no step changes it
  test,
  accepted,  \* the results Do was called with in this test, in order
  at,        \* where Do is: "idle", "connect", "table", "insert", "failed"
  inserted,  \* rows of the last result that are in the table
  dbCons,    \* the open connections
  tables,    \* the tables that exist
  rows,      \* the rows of each table
  why        \* why Do failed, if it did

vars == <<config, reliable, test, accepted, at, inserted, dbCons, tables, rows, why>>

\* The key of the map dbCons, to which the output connects: the file, or the
\* DSN of mysql with the name of the table appended.
Connection(r) == Name(r, IF config.output = "sqlite" THEN config.fileBy ELSE config.tableBy)

\* A table of a database.
TableOf(r) == <<Connection(r), Name(r, config.tableBy)>>
Tables     == {TableOf(r) : r \in Results}

Init ==
  /\ config \in Configs /\ reliable \in BOOLEAN
  /\ test = 1 /\ accepted = <<>> /\ at = "idle" /\ inserted = 0
  /\ dbCons = {}
  /\ tables \in SUBSET Tables  \* left from earlier or made by hand
  /\ rows = [t \in Tables |-> <<>>]
  /\ why = ""

Current == Last(accepted)
Table   == TableOf(Current)

-----------------------------------------------------------------------------
CallDo(r) ==
  /\ at = "idle" /\ r.test = test
  /\ \A k \in DOMAIN accepted : accepted[k] # r /\ accepted[k].round <= r.round
  /\ accepted' = Append(accepted, r) /\ inserted' = 0
  /\ at' = IF Connection(r) \notin dbCons THEN "connect"
           ELSE IF config.output = "mysql" THEN "table" ELSE "insert"
  /\ UNCHANGED <<config, reliable, test, dbCons, tables, rows, why>>

Connect ==
  /\ at = "connect" /\ at' = "table"
  /\ dbCons' = dbCons \union {Connection(Current)}
  /\ UNCHANGED <<config, reliable, test, accepted, inserted, tables, rows, why>>

Fail(reason) ==
  /\ at' = "failed" /\ why' = reason
  /\ UNCHANGED <<config, reliable, test, accepted, inserted, dbCons, tables, rows>>

\* Faulty: sqlite leaves the table to be made by hand.
CreateMysqlTable ==
  /\ at = "table" /\ at' = "insert"
  /\ \/ (Table \in tables \/ config.output = "sqlite") /\ UNCHANGED tables
     \/ /\ Table \notin tables /\ config.output = "mysql" /\ config.autoCreate
        /\ tables' = tables \union {Table}
  /\ UNCHANGED <<config, reliable, test, accepted, inserted, dbCons, rows, why>>

\* CREATE TABLE IF NOT EXISTS.  The error of tx.Exec is dropped.
CreateTable ==
  /\ at = "table" /\ at' = "insert"
  /\ \/ Table \in tables /\ UNCHANGED tables
     \/ /\ Table \notin tables /\ (config.output = "mysql" => config.autoCreate)
        /\ \/ tables' = tables \union {Table}
           \/ ~reliable /\ UNCHANGED tables
  /\ UNCHANGED <<config, reliable, test, accepted, inserted, dbCons, rows, why>>

\* Faulty: the result is skipped without an error.
SkipResult ==
  /\ at = "table" /\ config.output = "mysql" /\ Table \notin tables /\ ~config.autoCreate
  /\ at' = "idle"
  /\ UNCHANGED <<config, reliable, test, accepted, inserted, dbCons, tables, rows, why>>

NoAutoCreate ==
  /\ at = "table" /\ config.output = "mysql" /\ Table \notin tables /\ ~config.autoCreate
  /\ Fail("no auto create")

\* Faulty: one row too many.
InsertOneMore ==
  /\ at = "insert" /\ Table \in tables /\ inserted <= NRows
  /\ rows' = [rows EXCEPT ![Table] = Append(@, <<Current, inserted + 1>>)]
  /\ inserted' = inserted + 1
  /\ UNCHANGED <<config, reliable, test, accepted, at, dbCons, tables, why>>

Insert ==
  /\ at = "insert" /\ Table \in tables /\ inserted < NRows
  /\ rows' = [rows EXCEPT ![Table] = Append(@, <<Current, inserted + 1>>)]
  /\ inserted' = inserted + 1
  /\ UNCHANGED <<config, reliable, test, accepted, at, dbCons, tables, why>>

NoTable == at = "insert" /\ Table \notin tables /\ Fail("no table")

Refused == ~reliable /\ at \in {"connect", "table", "insert"} /\ Fail("refused")

DoReturns ==
  /\ at = "insert" /\ inserted = NRows
  /\ at' = "idle"
  /\ UNCHANGED <<config, reliable, test, accepted, inserted, dbCons, tables, rows, why>>

\* prepare() of the next test makes a new output; the databases stay.
NextTest ==
  /\ at \in {"idle", "failed"} /\ test < NTests
  /\ test' = test + 1 /\ accepted' = <<>> /\ at' = "idle" /\ inserted' = 0
  /\ dbCons' = {} /\ why' = ""
  /\ UNCHANGED <<config, reliable, tables, rows>>

Terminated == at \in {"idle", "failed"} /\ test = NTests /\ UNCHANGED vars

Next ==
  \/ \E r \in Results : CallDo(r)
  \/ Connect \/ CreateTable \/ NoAutoCreate \/ Insert \/ NoTable \/ Refused \/ DoReturns
  \/ NextTest \/ Terminated

Spec == Init /\ [][Next]_vars

-----------------------------------------------------------------------------
(* Properties                                                              *)

TypeOK ==
  /\ config \in Configs /\ reliable \in BOOLEAN
  /\ test \in 1..NTests /\ \A k \in DOMAIN accepted : accepted[k] \in Results
  /\ at \in {"idle", "connect", "table", "insert", "failed"}
  /\ inserted \in 0..NRows
  /\ dbCons \subseteq {Connection(r) : r \in Results}
  /\ tables \subseteq Tables /\ DOMAIN rows = Tables
  /\ why \in {"", "no table", "no auto create", "refused"}

(***************************************************************************)
(* The rows of this test in the tables are those of the results Do was     *)
(* called with, in order and once each.  Only the last result may be there *)
(* in part, while Do inserts it or after Do has reported an error (rows    *)
(* are not inserted in a transaction); Do never drops one silently.        *)
(***************************************************************************)
Complete(k) == k < Len(accepted) \/ at = "idle"
RowsDue(k)  == IF Complete(k) THEN NRows ELSE inserted

EachIsDue(t) ==
  \A p \in 1..Len(rows[t]) : rows[t][p][1].test = test =>
    \E k \in 1..Len(accepted) :
      /\ rows[t][p][1] = accepted[k] /\ TableOf(accepted[k]) = t
      /\ rows[t][p][2] <= RowsDue(k)

EachDueIsThere(t) ==
  \A k \in 1..Len(accepted) : \A i \in 1..NRows :
    TableOf(accepted[k]) = t /\ i <= RowsDue(k) =>
      \E p \in 1..Len(rows[t]) : rows[t][p] = <<accepted[k], i>>

InOrder(t) ==
  \A p, q \in 1..Len(rows[t]) : \A j, k \in 1..Len(accepted) :
    p < q /\ rows[t][p][1] = accepted[j] /\ rows[t][q][1] = accepted[k] =>
      j < k \/ (j = k /\ rows[t][p][2] < rows[t][q][2])

RowsInOrder == \A t \in Tables : EachIsDue(t) /\ EachDueIsThere(t) /\ InOrder(t)

(***************************************************************************)
(* docs/outputs/sql-based.md: "sqlite output will always create the tables *)
(* when they don't exist", and mysql does unless autoCreateTables is off.  *)
(* An insert still meets a missing table in two cases only: the error of   *)
(* the statement that creates it was dropped, or, in sqlite, an earlier    *)
(* result of the test has opened the file for another table.  With the     *)
(* default patterns every second pair of hosts is such a case.             *)
(***************************************************************************)
OpenedForOtherTable ==
  /\ config.output = "sqlite"
  /\ \E k \in 1..(Len(accepted) - 1) :
       Connection(accepted[k]) = Connection(Current) /\ TableOf(accepted[k]) # Table

MissingTableExplained == why = "no table" => ~reliable \/ OpenedForOtherTable
=============================================================================
