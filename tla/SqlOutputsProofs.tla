--------------------------- MODULE SqlOutputsProofs ---------------------------
(***************************************************************************)
(* Proofs about SqlOutputs for every number of tests, rounds and rows and  *)
(* every set of host pairs and configurations: rows are only appended, an  *)
(* insert that meets a missing table has one of two reasons, and the rows  *)
(* of a test are those of the results Do was called with, once each and in *)
(* order.                                                                  *)
(***************************************************************************)
EXTENDS SqlOutputs, SequenceTheorems, TLAPS

Lines == Results \X (1..NRows)

Busy == {"connect", "table", "insert"}

(***************************************************************************)
(* The results of this test are distinct, and rows of later tests do not   *)
(* exist yet.                                                              *)
(***************************************************************************)
Shape ==
  /\ accepted \in Seq(Results) /\ rows \in [Tables -> Seq(Lines)]
  /\ at \in Busy => accepted # <<>>
  /\ at \in {"connect", "table"} => inserted = 0
  /\ why # "" => at = "failed"
  /\ \A j, k \in 1..Len(accepted) : accepted[j] = accepted[k] => j = k
  /\ \A k \in 1..Len(accepted) : accepted[k].test = test
  /\ \A t \in Tables : \A p \in 1..Len(rows[t]) : rows[t][p][1].test <= test

(***************************************************************************)
(* When the database refuses nothing, sqlite has opened each file for a    *)
(* result whose table exists, or is being created; and Do finds its table  *)
(* unless the file was opened for another one.                             *)
(***************************************************************************)
OpenedForTable ==
  reliable /\ config.output = "sqlite" =>
    \A c \in dbCons : \E k \in 1..Len(accepted) :
      /\ Connection(accepted[k]) = c
      /\ TableOf(accepted[k]) \in tables \/ (at = "table" /\ k = Len(accepted))

TableKnown ==
  at = "insert" /\ reliable => Table \in tables \/ OpenedForOtherTable

IInv ==
  TypeOK /\ Shape /\ OpenedForTable /\ TableKnown /\ MissingTableExplained /\ RowsInOrder

LEMMA Sizes == NTests \in Nat /\ NTests >= 1 /\ NRows \in Nat /\ NRows >= 1
BY SqlAssumption

\* Tables and connections depend on the configuration only.
LEMMA SamePlaces ==
  ASSUME config' = config
  PROVE  /\ Tables' = Tables
         /\ \A r : (TableOf(r))' = TableOf(r) /\ (Connection(r))' = Connection(r)
<1>1. \A r : (Connection(r))' = Connection(r)
  BY DEF Connection
<1>2. \A r : (TableOf(r))' = TableOf(r)
  BY <1>1 DEF TableOf
<1>3. Tables' = Tables
  <2>1. Tables' = {(TableOf(r))' : r \in Results}
    BY DEF Tables
  <2>2. QED
    BY <1>2, <2>1 DEF Tables
<1>4. QED
  BY <1>1, <1>2, <1>3

LEMMA CurrentIsLast ==
  ASSUME Shape, accepted # <<>>
  PROVE  /\ Len(accepted) \in 1..Len(accepted) /\ Current = accepted[Len(accepted)]
         /\ Current \in Results /\ Table \in Tables
<1>1. Len(accepted) \in 1..Len(accepted) /\ Current = accepted[Len(accepted)]
  <2>1. accepted \in Seq(Results)
    BY DEF Shape
  <2>2. Len(accepted) \in Nat /\ Len(accepted) # 0
    BY <2>1, EmptySeq
  <2>3. QED
    BY <2>2 DEF Current, Last
<1>2. Current \in Results
  <2>1. accepted \in Seq(Results)
    BY DEF Shape
  <2>2. QED
    BY <1>1, <2>1
<1>3. QED
  BY <1>1, <1>2 DEF Table, Tables

LEMMA Ranges ==
  ASSUME TypeOK
  PROVE  test \in 1..NTests /\ inserted \in 0..NRows
BY DEF TypeOK

\* Insert puts the next row of the result at the end of its table.
LEMMA Inserting ==
  ASSUME TypeOK, Shape, Insert
  PROVE  /\ Table \in Tables /\ <<Current, inserted + 1>> \in Lines
         /\ rows' = [rows EXCEPT ![Table] = Append(rows[Table], <<Current, inserted + 1>>)]
         /\ inserted \in 0..(NRows - 1) /\ inserted' = inserted + 1 /\ accepted # <<>>
<1>1. accepted # <<>> /\ inserted \in 0..(NRows - 1) /\ inserted' = inserted + 1
  <2>1. at = "insert" /\ inserted < NRows /\ inserted' = inserted + 1
    BY DEF Insert
  <2>2. accepted # <<>>
    BY <2>1 DEF Shape, Busy
  <2>3. QED
    BY <2>1, <2>2, Sizes, Ranges
<1>2. Table \in Tables /\ <<Current, inserted + 1>> \in Lines
  BY <1>1, CurrentIsLast, Sizes DEF Lines
<1>3. QED
  BY <1>1, <1>2 DEF Insert

\* The rows of a table after Insert.
LEMMA InsertedRows ==
  ASSUME TypeOK, Shape, Insert, NEW t \in Tables
  PROVE  \/ t # Table /\ rows'[t] = rows[t]
         \/ /\ t = Table /\ Len(rows'[t]) = Len(rows[t]) + 1 /\ Len(rows[t]) \in Nat
            /\ \A p \in 1..Len(rows[t]) : rows'[t][p] = rows[t][p]
            /\ rows'[t][Len(rows[t]) + 1] = <<Current, inserted + 1>>
<1>1. rows \in [Tables -> Seq(Lines)]
  BY DEF Shape
<1>2. CASE t # Table
  BY <1>1, <1>2, Inserting
<1>3. CASE t = Table
  <2> DEFINE s == rows[t]
  <2>1. s \in Seq(Lines) /\ rows'[t] = Append(s, <<Current, inserted + 1>>)
    BY <1>1, <1>3, Inserting
  <2> HIDE DEF s
  <2>2. /\ Len(rows'[t]) = Len(s) + 1 /\ Len(s) \in Nat
        /\ \A p \in 1..Len(s) : rows'[t][p] = s[p]
        /\ rows'[t][Len(s) + 1] = <<Current, inserted + 1>>
    BY <2>1, AppendProperties, Inserting
  <2>3. QED
    BY <1>3, <2>2 DEF s
<1>4. QED
  BY <1>2, <1>3

\* The results of the test after CallDo.
LEMMA CalledResults ==
  ASSUME Shape, NEW r \in Results, CallDo(r)
  PROVE  /\ accepted' \in Seq(Results) /\ accepted' # <<>>
         /\ Len(accepted') = Len(accepted) + 1 /\ Len(accepted) \in Nat
         /\ \A k \in 1..Len(accepted) : accepted'[k] = accepted[k] /\ accepted[k] # r
         /\ accepted'[Len(accepted) + 1] = r
<1>1. accepted \in Seq(Results) /\ accepted' = Append(accepted, r)
  BY DEF Shape, CallDo
<1>2. /\ accepted' \in Seq(Results) /\ Len(accepted') = Len(accepted) + 1 /\ Len(accepted) \in Nat
      /\ \A k \in 1..Len(accepted) : accepted'[k] = accepted[k]
      /\ accepted'[Len(accepted) + 1] = r
  BY <1>1, AppendProperties
<1>3. accepted' # <<>>
  BY <1>2, EmptySeq
<1>4. QED
  BY <1>1, <1>2, <1>3 DEF CallDo

\* A step that touches neither the results nor the rows.
LEMMA ShapeKept ==
  ASSUME Shape, UNCHANGED <<config, test, accepted, rows>>,
         at' \in Busy => at \in Busy,
         at' \in {"connect", "table"} => at \in {"connect", "table"} /\ inserted' = inserted,
         why' # "" => at' = "failed"
  PROVE  Shape'
<1>1. Tables' = Tables
  BY SamePlaces
<1>2. QED
  BY <1>1 DEF Shape

\* Results are appended by CallDo, rows by Insert, and NextTest starts anew.
LEMMA ShapeStep == TypeOK /\ Shape /\ [Next]_vars => Shape'
<1> SUFFICES ASSUME TypeOK, Shape, [Next]_vars
             PROVE  Shape'
  OBVIOUS
<1>1. ASSUME NEW r \in Results, CallDo(r) PROVE Shape'
  <2>1. /\ config' = config /\ test' = test /\ rows' = rows /\ why' = why /\ inserted' = 0
        /\ at = "idle" /\ at' \in Busy /\ r.test = test
    BY <1>1 DEF CallDo, Busy
  <2>2. Tables' = Tables /\ why' = ""
    BY <2>1, SamePlaces DEF Shape
  <2>3. \A j, k \in 1..Len(accepted') : accepted'[j] = accepted'[k] => j = k
    <3> DEFINE m == Len(accepted) + 1
    <3>1. SUFFICES ASSUME NEW j \in 1..m, NEW k \in 1..m, accepted'[j] = accepted'[k] PROVE j = k
      BY <1>1, CalledResults
    <3>2. CASE j \in 1..Len(accepted) /\ k \in 1..Len(accepted)
      BY <1>1, <3>1, <3>2, CalledResults DEF Shape
    <3>3. CASE j = m \/ k = m
      BY <1>1, <3>1, <3>3, CalledResults
    <3>4. QED
      BY <1>1, <3>2, <3>3, CalledResults
  <2>4. \A k \in 1..Len(accepted') : accepted'[k].test = test'
    <3>1. \A k \in 1..Len(accepted) : accepted[k].test = test
      BY DEF Shape
    <3>2. QED
      BY <1>1, <2>1, <3>1, CalledResults
  <2>5. QED
    BY <1>1, <2>1, <2>2, <2>3, <2>4, CalledResults DEF Shape
<1>2. CASE Connect
  BY <1>2, ShapeKept DEF Connect, Busy, Shape
<1>3. CASE CreateTable
  BY <1>3, ShapeKept DEF CreateTable, Busy, Shape
<1>4. CASE NoAutoCreate \/ NoTable \/ Refused
  BY <1>4, ShapeKept DEF NoAutoCreate, NoTable, Refused, Fail, Busy
<1>5. CASE Insert
  <2>1. /\ UNCHANGED <<config, test, accepted, at, why>> /\ at = "insert"
    BY <1>5 DEF Insert
  <2>2. Tables' = Tables
    BY <2>1, SamePlaces
  <2>3. rows' \in [Tables -> Seq(Lines)]
    <3>1. rows \in [Tables -> Seq(Lines)]
      BY DEF Shape
    <3>2. Append(rows[Table], <<Current, inserted + 1>>) \in Seq(Lines)
      BY <1>5, <3>1, Inserting, AppendProperties
    <3>3. QED
      BY <1>5, <3>1, <3>2, Inserting
  <2>4. Current.test = test
    BY <1>5, Inserting, CurrentIsLast DEF Shape
  <2>5. ASSUME NEW t \in Tables, NEW p \in 1..Len(rows'[t])
        PROVE  rows'[t][p][1].test <= test
    <3>1. CASE rows'[t] = rows[t]
      BY <3>1, <2>5 DEF Shape
    <3>2. CASE p \in 1..Len(rows[t]) /\ rows'[t][p] = rows[t][p]
      BY <3>2 DEF Shape
    <3>3. CASE rows'[t][p] = <<Current, inserted + 1>>
      BY <2>4, <3>3, Sizes, Ranges
    <3>4. QED
      BY <1>5, <2>5, <3>1, <3>2, <3>3, InsertedRows
  <2>6. QED
    BY <2>1, <2>2, <2>3, <2>5 DEF Shape, Busy
<1>6. CASE DoReturns
  BY <1>6, ShapeKept DEF DoReturns, Busy, Shape
<1>7. CASE NextTest
  <2>1. /\ config' = config /\ test' = test + 1 /\ accepted' = <<>> /\ at' = "idle" /\ why' = ""
        /\ rows' = rows
    BY <1>7 DEF NextTest
  <2>2. Tables' = Tables
    BY <2>1, SamePlaces
  <2>3. accepted' \in Seq(Results) /\ Len(accepted') = 0
    BY <2>1, EmptySeq
  <2>4. \A t \in Tables : \A p \in 1..Len(rows[t]) : rows[t][p][1].test <= test + 1
    <3>1. \A t \in Tables : \A p \in 1..Len(rows[t]) : rows[t][p] \in Lines
      <4>1. rows \in [Tables -> Seq(Lines)]
        BY DEF Shape
      <4>2. QED
        BY <4>1
    <3>2. \A l \in Lines : l[1].test \in Nat
      BY Sizes DEF Lines, Results
    <3>3. QED
      <4>1. SUFFICES ASSUME NEW t \in Tables, NEW p \in 1..Len(rows[t])
                     PROVE  rows[t][p][1].test <= test + 1
        OBVIOUS
      <4>2. rows[t][p][1].test <= test /\ rows[t][p][1].test \in Nat
        BY <3>1, <3>2 DEF Shape
      <4>3. QED
        BY <4>2, Sizes, Ranges
  <2>5. rows' \in [Tables' -> Seq(Lines)] /\ \A k \in 1..Len(accepted') : FALSE
    <3>1. rows \in [Tables -> Seq(Lines)]
      BY DEF Shape
    <3>2. QED
      <4>1. rows' \in [Tables' -> Seq(Lines)]
        BY <2>1, <2>2, <3>1
      <4>2. \A k \in 1..Len(accepted') : FALSE
        BY <2>3
      <4>3. QED
        BY <4>1, <4>2
  <2>6. \A t \in Tables' : \A p \in 1..Len(rows'[t]) : rows'[t][p][1].test <= test'
    BY <2>1, <2>2, <2>4
  <2>7. QED
    BY <2>1, <2>3, <2>5, <2>6 DEF Shape, Busy
<1>8. CASE UNCHANGED vars
  BY <1>8, ShapeKept DEF vars, Shape
<1>9. QED
  BY <1>1, <1>2, <1>3, <1>4, <1>5, <1>6, <1>7, <1>8 DEF Next, Terminated

\* The types follow from the shape of what is written.
LEMMA TypingStep == TypeOK /\ Shape /\ [Next]_vars => TypeOK'
<1> SUFFICES ASSUME TypeOK, Shape, [Next]_vars
             PROVE  TypeOK'
  OBVIOUS
<1>1. Shape' /\ config' = config
  BY ShapeStep DEF Next, CallDo, Connect, CreateTable, NoAutoCreate, NoTable, Refused, Fail,
                   Insert, DoReturns, NextTest, Terminated, vars
<1>2. /\ \A k \in DOMAIN accepted' : accepted'[k] \in Results
      /\ DOMAIN rows' = Tables'
  <2>1. accepted' \in Seq(Results) /\ rows' \in [Tables' -> Seq(Lines)]
    BY <1>1 DEF Shape
  <2>2. QED
    BY <2>1
<1>3. Tables' = Tables /\ {(Connection(r))' : r \in Results} = {Connection(r) : r \in Results}
  BY <1>1, SamePlaces
<1>4. tables' \subseteq Tables /\ dbCons' \subseteq {Connection(r) : r \in Results}
  <2>1. at \in Busy => Current \in Results /\ Table \in Tables
    BY CurrentIsLast DEF Shape
  <2>2. CASE CreateTable
    BY <2>1, <2>2 DEF CreateTable, TypeOK, Busy
  <2>3. CASE Connect
    BY <2>1, <2>3 DEF Connect, TypeOK, Busy
  <2>4. CASE ~CreateTable /\ ~Connect
    BY <2>4 DEF Next, CallDo, NoAutoCreate, NoTable, Refused, Fail, Insert, DoReturns, NextTest,
                Terminated, vars, TypeOK
  <2>5. QED
    BY <2>2, <2>3, <2>4
<1>5. test' \in 1..NTests
  <2>1. \/ test' = test
        \/ test' = test + 1 /\ test < NTests
    BY DEF Next, CallDo, Connect, CreateTable, NoAutoCreate, NoTable, Refused, Fail, Insert,
           DoReturns, NextTest, Terminated, vars
  <2>2. QED
    BY <2>1, Sizes, Ranges
<1>6. inserted' \in 0..NRows
  <2>1. \/ inserted' \in {0, inserted}
        \/ inserted' = inserted + 1 /\ inserted < NRows
    BY DEF Next, CallDo, Connect, CreateTable, NoAutoCreate, NoTable, Refused, Fail, Insert,
           DoReturns, NextTest, Terminated, vars
  <2>2. QED
    BY <2>1, Sizes, Ranges
<1>7. /\ reliable' \in BOOLEAN
      /\ at' \in {"idle", "connect", "table", "insert", "failed"}
      /\ why' \in {"", "no table", "no auto create", "refused"}
  BY DEF TypeOK, Next, CallDo, Connect, CreateTable, NoAutoCreate, NoTable, Refused, Fail,
         Insert, DoReturns, NextTest, Terminated, vars
<1>8. config' \in Configs
  BY <1>1 DEF TypeOK
<1>9. QED
  BY <1>2, <1>3, <1>4, <1>5, <1>6, <1>7, <1>8 DEF TypeOK

LEMMA StartsSafe == Init => IInv
<1> SUFFICES ASSUME Init PROVE IInv
  OBVIOUS
<1> inserted = 0 /\ test = 1
  BY DEF Init
<1>1. /\ accepted = <<>> /\ at = "idle" /\ inserted = 0 /\ why = "" /\ dbCons = {}
      /\ rows = [t \in Tables |-> <<>>] /\ tables \subseteq Tables
      /\ config \in Configs /\ reliable \in BOOLEAN
  BY DEF Init
<1>2. /\ accepted = <<>> /\ accepted \in Seq(Results) /\ Len(accepted) = 0
      /\ \A k \in 1..Len(accepted) : FALSE
  <2>1. accepted = <<>>
    BY DEF Init
  <2>2. QED
    BY <2>1, EmptySeq
<1>3. /\ rows \in [Tables -> Seq(Lines)]
      /\ \A t \in Tables : rows[t] = <<>> /\ \A p \in 1..Len(rows[t]) : FALSE
  <2>1. <<>> \in Seq(Lines) /\ Len(<<>>) = 0
    BY EmptySeq
  <2>2. QED
    <3>1. rows \in [Tables -> Seq(Lines)]
      BY <1>1, <2>1
    <3>2. \A t \in Tables : rows[t] = <<>>
      BY <1>1
    <3>3. \A p \in 1..Len(<<>>) : FALSE
      BY <2>1
    <3>4. QED
      BY <3>1, <3>2, <3>3
<1>4. test \in 1..NTests /\ inserted \in 0..NRows
  BY Sizes
<1>5. TypeOK
  <2>1. \A k \in DOMAIN accepted : accepted[k] \in Results
    BY <1>2
  <2>2. DOMAIN rows = Tables
    BY <1>1
  <2>3. QED
    BY <1>1, <1>4, <2>1, <2>2 DEF TypeOK
<1>6. Shape
  BY <1>1, <1>2, <1>3 DEF Shape, Busy
<1>7. OpenedForTable /\ TableKnown /\ MissingTableExplained
  BY <1>1 DEF OpenedForTable, TableKnown, MissingTableExplained
<1>8. RowsInOrder
  BY <1>2, <1>3 DEF RowsInOrder, EachIsDue, EachDueIsThere, InOrder
<1>9. QED
  BY <1>5, <1>6, <1>7, <1>8 DEF IInv

-----------------------------------------------------------------------------
(* Missing tables                                                          *)

\* A step within a test: the results and the connections stay.
LEMMA OpenedKept ==
  ASSUME OpenedForTable, UNCHANGED <<config, reliable, accepted, dbCons>>,
         tables \subseteq tables',
         at = "table" => \/ at' = "table"
                         \/ reliable /\ config.output = "sqlite" => Table \in tables',
         accepted # <<>> => Current = accepted[Len(accepted)]
  PROVE  OpenedForTable'
<1> SUFFICES ASSUME reliable, config.output = "sqlite", NEW c \in dbCons
             PROVE  \E k \in 1..Len(accepted) :
                      /\ Connection(accepted[k]) = c
                      /\ TableOf(accepted[k]) \in tables' \/ (at' = "table" /\ k = Len(accepted))
  BY SamePlaces DEF OpenedForTable
<1>1. PICK k \in 1..Len(accepted) :
        /\ Connection(accepted[k]) = c
        /\ TableOf(accepted[k]) \in tables \/ (at = "table" /\ k = Len(accepted))
  BY DEF OpenedForTable
<1>2. QED
  BY <1>1 DEF Table

LEMMA OpenedStep == TypeOK /\ Shape /\ OpenedForTable /\ [Next]_vars => OpenedForTable'
<1> SUFFICES ASSUME TypeOK, Shape, OpenedForTable, [Next]_vars
             PROVE  OpenedForTable'
  OBVIOUS
<1>0. accepted # <<>> => Len(accepted) \in 1..Len(accepted) /\ Current = accepted[Len(accepted)]
  BY CurrentIsLast
<1>1. ASSUME NEW r \in Results, CallDo(r) PROVE OpenedForTable'
  <2>1. at = "idle" /\ UNCHANGED <<config, reliable, dbCons, tables>>
    BY <1>1 DEF CallDo
  <2>2. SUFFICES ASSUME reliable, config.output = "sqlite", NEW c \in dbCons
                 PROVE  \E k \in 1..Len(accepted') :
                          Connection(accepted'[k]) = c /\ TableOf(accepted'[k]) \in tables
    BY <2>1, SamePlaces DEF OpenedForTable
  <2>3. PICK k \in 1..Len(accepted) : Connection(accepted[k]) = c /\ TableOf(accepted[k]) \in tables
    BY <2>1, <2>2 DEF OpenedForTable
  <2>4. k \in 1..Len(accepted') /\ accepted'[k] = accepted[k]
    BY <1>1, CalledResults
  <2>5. QED
    BY <2>3, <2>4
<1>2. CASE Connect
  <2>1. /\ at = "connect" /\ at' = "table" /\ accepted # <<>>
        /\ UNCHANGED <<config, reliable, accepted, tables>>
        /\ dbCons' = dbCons \union {Connection(Current)}
    BY <1>2 DEF Connect, Shape, Busy
  <2>2. SUFFICES ASSUME reliable, config.output = "sqlite", NEW c \in dbCons'
                 PROVE  \E k \in 1..Len(accepted) :
                          /\ Connection(accepted[k]) = c
                          /\ TableOf(accepted[k]) \in tables \/ k = Len(accepted)
    BY <2>1, SamePlaces DEF OpenedForTable
  <2>3. CASE c = Connection(Current)
    BY <1>0, <2>1, <2>3
  <2>4. CASE c \in dbCons
    BY <2>1, <2>2, <2>4 DEF OpenedForTable
  <2>5. QED
    BY <2>1, <2>2, <2>3, <2>4
<1>3. CASE CreateTable
  BY <1>0, <1>3, OpenedKept DEF CreateTable
<1>4. CASE NoAutoCreate \/ NoTable \/ Refused
  BY <1>0, <1>4, OpenedKept DEF NoAutoCreate, NoTable, Refused, Fail
<1>5. CASE Insert \/ DoReturns \/ UNCHANGED vars
  BY <1>0, <1>5, OpenedKept DEF Insert, DoReturns, vars
<1>6. CASE NextTest
  BY <1>6 DEF NextTest, OpenedForTable
<1>7. QED
  BY <1>1, <1>2, <1>3, <1>4, <1>5, <1>6 DEF Next, Terminated

\* The table of the result at hand, while Do writes it.
LEMMA SameTable ==
  ASSUME UNCHANGED <<config, accepted>>
  PROVE  Table' = Table /\ (OpenedForOtherTable' <=> OpenedForOtherTable)
<1>1. Current' = Current
  BY DEF Current
<1>2. Table' = Table
  BY <1>1 DEF Table, TableOf, Connection
<1>3. \A r : (TableOf(r))' = TableOf(r) /\ (Connection(r))' = Connection(r)
  BY SamePlaces
<1>4. QED
  BY <1>1, <1>2, <1>3 DEF OpenedForOtherTable

LEMMA Outputs ==
  ASSUME TypeOK
  PROVE  config.output \in {"sqlite", "mysql"}
BY SqlAssumption DEF TypeOK

\* sqlite inserts into a file that is open without asking for the table.
LEMMA FoundOpen ==
  ASSUME TypeOK, Shape, OpenedForTable, reliable, NEW r \in Results, CallDo(r), at' = "insert"
  PROVE  Table' \in tables' \/ OpenedForOtherTable'
<1>1. /\ at = "idle" /\ Connection(r) \in dbCons /\ config.output = "sqlite"
      /\ UNCHANGED <<config, reliable, dbCons, tables>>
  BY Outputs DEF CallDo
<1>2. PICK k \in 1..Len(accepted) :
        Connection(accepted[k]) = Connection(r) /\ TableOf(accepted[k]) \in tables
  BY <1>1 DEF OpenedForTable
<1>3. Current' = r
  BY CalledResults DEF Current, Last
<1>4. Table' = TableOf(r)
  BY <1>1, <1>3 DEF Table, TableOf, Connection
<1>5. CASE TableOf(accepted[k]) = TableOf(r)
  BY <1>1, <1>2, <1>4, <1>5
<1>6. CASE TableOf(accepted[k]) # TableOf(r)
  <2>1. k \in 1..(Len(accepted') - 1) /\ accepted'[k] = accepted[k]
    BY CalledResults
  <2>2. QED
    BY <1>1, <1>2, <1>3, <1>4, <1>6, <2>1, SamePlaces DEF OpenedForOtherTable
<1>7. QED
  BY <1>5, <1>6

LEMMA KnownStep ==
  TypeOK /\ Shape /\ OpenedForTable /\ TableKnown /\ [Next]_vars => TableKnown'
<1> SUFFICES ASSUME TypeOK, Shape, OpenedForTable, TableKnown, [Next]_vars,
                    at' = "insert", reliable'
             PROVE  Table' \in tables' \/ OpenedForOtherTable'
  BY DEF TableKnown
<1>1. ASSUME NEW r \in Results, CallDo(r) PROVE Table' \in tables' \/ OpenedForOtherTable'
  BY <1>1, FoundOpen DEF CallDo
<1>2. CASE CreateTable
  BY <1>2, SameTable DEF CreateTable
<1>3. CASE Insert
  BY <1>3, SameTable DEF Insert, TableKnown
<1>4. CASE UNCHANGED vars
  BY <1>4, SameTable DEF vars, TableKnown
<1>5. QED
  BY <1>1, <1>2, <1>3, <1>4
     DEF Next, Connect, NoAutoCreate, NoTable, Refused, Fail, DoReturns, NextTest, Terminated

LEMMA ExplainedStep ==
  Shape /\ TableKnown /\ MissingTableExplained /\ [Next]_vars => MissingTableExplained'
<1> SUFFICES ASSUME Shape, TableKnown, MissingTableExplained, [Next]_vars, why' = "no table"
             PROVE  ~reliable' \/ OpenedForOtherTable'
  BY DEF MissingTableExplained
<1>1. CASE NoTable
  BY <1>1, SameTable DEF NoTable, Fail, TableKnown
<1>2. CASE UNCHANGED <<config, reliable, accepted, why>>
  BY <1>2, SameTable DEF MissingTableExplained
<1>3. QED
  <2>1. ASSUME NEW r \in Results PROVE ~CallDo(r)
    BY DEF CallDo, Shape
  <2>2. QED
    BY <1>1, <1>2, <2>1 DEF Next, Connect, CreateTable, NoAutoCreate, Refused, Fail, Insert,
                            DoReturns, NextTest, Terminated, vars

-----------------------------------------------------------------------------
(* The rows of a test                                                      *)

\* A step that neither calls Do nor inserts keeps what is due.
LEMMA RowsKept ==
  ASSUME Shape, RowsInOrder, UNCHANGED <<config, test, accepted, rows>>,
         \A k \in 1..Len(accepted) : RowsDue(k)' = RowsDue(k)
  PROVE  RowsInOrder'
<1>1. Tables' = Tables /\ \A r : (TableOf(r))' = TableOf(r)
  BY SamePlaces
<1>2. SUFFICES ASSUME NEW t \in Tables
               PROVE  EachIsDue(t)' /\ EachDueIsThere(t)' /\ InOrder(t)'
  BY <1>1 DEF RowsInOrder
<1>3. EachIsDue(t) /\ EachDueIsThere(t) /\ InOrder(t)
  BY DEF RowsInOrder
<1>4. EachIsDue(t)'
  BY <1>1, <1>3 DEF EachIsDue
<1>5. EachDueIsThere(t)'
  BY <1>1, <1>3 DEF EachDueIsThere
<1>6. InOrder(t)'
  BY <1>3 DEF InOrder
<1>7. QED
  BY <1>4, <1>5, <1>6

\* A new result has no rows yet, the ones before it have all of theirs.
LEMMA RowsOfCall ==
  ASSUME TypeOK, Shape, RowsInOrder, NEW r \in Results, CallDo(r)
  PROVE  RowsInOrder'
<1> DEFINE n == Len(accepted)
<1>1. /\ at = "idle" /\ at' # "idle" /\ inserted' = 0 /\ r.test = test
      /\ UNCHANGED <<config, test, rows>>
  BY DEF CallDo
<1>2. Tables' = Tables /\ \A q : (TableOf(q))' = TableOf(q)
  BY <1>1, SamePlaces
<1>3. /\ Len(accepted') = n + 1 /\ n \in Nat /\ accepted'[n + 1] = r
      /\ \A k \in 1..n : accepted'[k] = accepted[k] /\ accepted[k] # r
  BY CalledResults
<1>4. \A k \in 1..n : RowsDue(k)' = NRows /\ RowsDue(k) = NRows
  BY <1>1, <1>3 DEF RowsDue, Complete
<1>5. \A k : k = n + 1 => RowsDue(k)' = 0
  BY <1>1, <1>3 DEF RowsDue, Complete
<1> HIDE DEF n
<1>6. SUFFICES ASSUME NEW t \in Tables
               PROVE  EachIsDue(t)' /\ EachDueIsThere(t)' /\ InOrder(t)'
  BY <1>2 DEF RowsInOrder
<1>7. EachIsDue(t) /\ EachDueIsThere(t) /\ InOrder(t)
  BY DEF RowsInOrder
<1>8. EachIsDue(t)'
  <2>1. SUFFICES ASSUME NEW p \in 1..Len(rows[t]), rows[t][p][1].test = test
                 PROVE  \E k \in 1..(n + 1) :
                          /\ rows[t][p][1] = accepted'[k] /\ TableOf(accepted'[k]) = t
                          /\ rows[t][p][2] <= RowsDue(k)'
    BY <1>1, <1>2, <1>3 DEF EachIsDue
  <2>2. PICK k \in 1..n : /\ rows[t][p][1] = accepted[k] /\ TableOf(accepted[k]) = t
                          /\ rows[t][p][2] <= RowsDue(k)
    BY <1>7, <2>1 DEF EachIsDue, n
  <2>3. QED
    BY <1>3, <1>4, <2>2
<1>9. EachDueIsThere(t)'
  <2>1. SUFFICES ASSUME NEW k \in 1..(n + 1), NEW i \in 1..NRows,
                        TableOf(accepted'[k]) = t, i <= RowsDue(k)'
                 PROVE  \E p \in 1..Len(rows[t]) : rows[t][p] = <<accepted'[k], i>>
    BY <1>1, <1>2, <1>3 DEF EachDueIsThere
  <2>2. k \in 1..n
    BY <1>3, <1>5, <2>1
  <2>3. accepted'[k] = accepted[k] /\ i <= RowsDue(k)
    BY <1>3, <1>4, <2>1, <2>2
  <2>4. QED
    BY <1>7, <2>1, <2>2, <2>3 DEF EachDueIsThere, n
<1>10. InOrder(t)'
  <2>1. SUFFICES ASSUME NEW p \in 1..Len(rows[t]), NEW q \in 1..Len(rows[t]),
                        NEW j \in 1..(n + 1), NEW k \in 1..(n + 1), p < q,
                        rows[t][p][1] = accepted'[j], rows[t][q][1] = accepted'[k]
                 PROVE  j < k \/ (j = k /\ rows[t][p][2] < rows[t][q][2])
    <3>1. rows' = rows /\ Len(accepted') = n + 1
      BY <1>1, <1>3
    <3>2. QED
      BY <3>1 DEF InOrder
  <2>2. \A o \in 1..Len(rows[t]) : rows[t][o][1] # r
    <3>1. \A l \in 1..n : accepted[l] # r
      BY <1>3
    <3>2. QED
      BY <1>1, <1>7, <3>1 DEF EachIsDue, n
  <2>3. j \in 1..n /\ k \in 1..n
    BY <1>3, <2>1, <2>2
  <2>4. rows[t][p][1] = accepted[j] /\ rows[t][q][1] = accepted[k]
    BY <1>3, <2>1, <2>3
  <2>5. QED
    BY <1>7, <2>1, <2>3, <2>4 DEF InOrder, n
<1>11. QED
  BY <1>8, <1>9, <1>10

\* Insert adds the one row that has become due, after all the others.
LEMMA RowsOfInsert ==
  ASSUME TypeOK, Shape, RowsInOrder, Insert
  PROVE  RowsInOrder'
<1> DEFINE n == Len(accepted)
<1>1. at = "insert" /\ UNCHANGED <<config, test, accepted, at>> /\ inserted' = inserted + 1
  BY DEF Insert
<1>2. Tables' = Tables /\ \A q : (TableOf(q))' = TableOf(q)
  BY <1>1, SamePlaces
<1>3. n \in 1..n /\ n \in Nat /\ Current = accepted[n] /\ Table = TableOf(accepted[n])
  BY Inserting, CurrentIsLast DEF Table
<1>4. /\ inserted \in Nat
      /\ \A k \in 1..n : \/ k # n /\ RowsDue(k)' = RowsDue(k)
                         \/ k = n /\ RowsDue(k) = inserted /\ RowsDue(k)' = inserted + 1
  BY <1>1, <1>3, Ranges, Sizes DEF RowsDue, Complete
<1>5. \A j, k \in 1..n : accepted[j] = accepted[k] => j = k
  BY DEF Shape
<1>6. \A k \in 1..n : accepted[k].test = test
  BY DEF Shape
<1> HIDE DEF n
<1>7. SUFFICES ASSUME NEW t \in Tables
               PROVE  EachIsDue(t)' /\ EachDueIsThere(t)' /\ InOrder(t)'
  BY <1>2 DEF RowsInOrder
<1>8. EachIsDue(t) /\ EachDueIsThere(t) /\ InOrder(t)
  BY DEF RowsInOrder
<1>9. \A k \in 1..n, i \in Nat : i <= RowsDue(k) => i <= RowsDue(k)'
  BY <1>4
<1>10. \A p \in 1..Len(rows[t]) : rows[t][p][2] \in Nat
  <2>1. rows \in [Tables -> Seq(Lines)]
    BY DEF Shape
  <2>2. \A p \in 1..Len(rows[t]) : rows[t][p] \in Lines
    BY <2>1
  <2>3. QED
    BY <2>2, Sizes DEF Lines
<1>11. CASE t # Table
  <2>1. rows'[t] = rows[t]
    BY <1>11, InsertedRows
  <2>2. EachIsDue(t)'
    <3>1. SUFFICES ASSUME NEW p \in 1..Len(rows[t]), rows[t][p][1].test = test
                   PROVE  \E k \in 1..n :
                            /\ rows[t][p][1] = accepted[k] /\ TableOf(accepted[k]) = t
                            /\ rows[t][p][2] <= RowsDue(k)'
      BY <1>1, <1>2, <2>1 DEF EachIsDue, n
    <3>2. PICK k \in 1..n : /\ rows[t][p][1] = accepted[k] /\ TableOf(accepted[k]) = t
                            /\ rows[t][p][2] <= RowsDue(k)
      BY <1>8, <3>1 DEF EachIsDue, n
    <3>3. QED
      BY <1>9, <1>10, <3>2
  <2>3. EachDueIsThere(t)'
    <3>1. SUFFICES ASSUME NEW k \in 1..n, NEW i \in 1..NRows,
                          TableOf(accepted[k]) = t, i <= RowsDue(k)'
                   PROVE  \E p \in 1..Len(rows'[t]) : rows'[t][p] = <<accepted[k], i>>
      BY <1>1, <1>2 DEF EachDueIsThere, n
    <3>2. k # n
      BY <1>3, <1>11, <3>1
    <3>3. i <= RowsDue(k)
      BY <1>4, <3>1, <3>2
    <3>4. \E p \in 1..Len(rows[t]) : rows[t][p] = <<accepted[k], i>>
      BY <1>8, <3>1, <3>3 DEF EachDueIsThere, n
    <3>5. QED
      BY <2>1, <3>4
  <2>4. InOrder(t)'
    <3>1. rows'[t] = rows[t] /\ accepted' = accepted
      BY <1>1, <2>1
    <3>2. QED
      BY <1>8, <3>1 DEF InOrder
  <2>5. QED
    BY <2>2, <2>3, <2>4
<1>12. CASE t = Table
  <2> DEFINE m == Len(rows[t])
  <2>1. /\ Len(rows'[t]) = m + 1 /\ m \in Nat
        /\ \A p \in 1..m : rows'[t][p] = rows[t][p]
        /\ rows'[t][m + 1] = <<accepted[n], inserted + 1>>
    BY <1>3, <1>12, InsertedRows
  <2> HIDE DEF m
  <2>2. EachIsDue(t)'
    <3>1. SUFFICES ASSUME NEW p \in 1..(m + 1), rows'[t][p][1].test = test
                   PROVE  \E k \in 1..n :
                            /\ rows'[t][p][1] = accepted[k] /\ TableOf(accepted[k]) = t
                            /\ rows'[t][p][2] <= RowsDue(k)'
      BY <1>1, <1>2, <2>1 DEF EachIsDue, n
    <3>2. CASE p = m + 1
      BY <1>3, <1>4, <1>12, <2>1, <3>2
    <3>3. CASE p \in 1..m
      BY <1>8, <1>9, <1>10, <2>1, <3>1, <3>3 DEF EachIsDue, n, m
    <3>4. QED
      BY <2>1, <3>2, <3>3
  <2>3. EachDueIsThere(t)'
    <3>1. SUFFICES ASSUME NEW k \in 1..n, NEW i \in 1..NRows,
                          TableOf(accepted[k]) = t, i <= RowsDue(k)'
                   PROVE  \E p \in 1..(m + 1) : rows'[t][p] = <<accepted[k], i>>
      BY <1>1, <1>2, <2>1 DEF EachDueIsThere, n
    <3>2. CASE i <= RowsDue(k)
      <4>1. PICK p \in 1..m : rows[t][p] = <<accepted[k], i>>
        BY <1>8, <3>1, <3>2 DEF EachDueIsThere, n, m
      <4>2. QED
        BY <2>1, <4>1
    <3>3. CASE ~(i <= RowsDue(k))
      <4>1. k = n /\ i = inserted + 1
        BY <1>4, <3>1, <3>3
      <4>2. QED
        BY <2>1, <4>1
    <3>4. QED
      BY <3>2, <3>3
  <2>4. InOrder(t)'
    <3>1. SUFFICES ASSUME NEW p \in 1..(m + 1), NEW q \in 1..(m + 1),
                          NEW j \in 1..n, NEW k \in 1..n, p < q,
                          rows'[t][p][1] = accepted[j], rows'[t][q][1] = accepted[k]
                   PROVE  j < k \/ (j = k /\ rows'[t][p][2] < rows'[t][q][2])
      BY <1>1, <2>1 DEF InOrder, n
    <3>2. CASE q \in 1..m
      <4>1. m \in Nat
        BY <2>1
      <4>2. p \in 1..m
        BY <3>1, <3>2, <4>1
      <4>3. rows'[t][p] = rows[t][p] /\ rows'[t][q] = rows[t][q]
        BY <2>1, <3>2, <4>2
      <4>4. rows[t][p][1] = accepted[j] /\ rows[t][q][1] = accepted[k]
        BY <3>1, <4>3
      <4>5. j < k \/ (j = k /\ rows[t][p][2] < rows[t][q][2])
        BY <1>8, <3>1, <3>2, <4>2, <4>4 DEF InOrder, n, m
      <4>6. QED
        BY <4>3, <4>5
    <3>3. CASE q = m + 1
      <4>1. k = n /\ rows'[t][q][2] = inserted + 1 /\ p \in 1..m
        BY <1>3, <1>5, <2>1, <3>1, <3>3
      <4>2. rows[t][p][1] = accepted[j] /\ rows[t][p][1].test = test
        BY <1>6, <2>1, <3>1, <4>1
      <4>3. rows[t][p][2] <= RowsDue(j)
        BY <1>5, <1>8, <4>1, <4>2 DEF EachIsDue, n, m
      <4>4. CASE j = n
        <5>1. rows[t][p][2] <= inserted /\ rows[t][p][2] \in Nat /\ inserted \in Nat
          BY <1>4, <1>10, <4>1, <4>3, <4>4 DEF m
        <5>2. rows'[t][p][2] = rows[t][p][2]
          BY <2>1, <4>1
        <5>3. QED
          BY <4>1, <4>4, <5>1, <5>2
      <4>5. CASE j # n
        BY <1>3, <4>1, <4>5
      <4>6. QED
        BY <4>4, <4>5
    <3>4. QED
      BY <2>1, <3>1, <3>2, <3>3
  <2>5. QED
    BY <2>2, <2>3, <2>4
<1>13. QED
  BY <1>11, <1>12

\* No test has left rows of the next one.
LEMMA RowsOfNextTest ==
  ASSUME TypeOK, Shape, RowsInOrder, NextTest
  PROVE  RowsInOrder'
<1>1. config' = config /\ test' = test + 1 /\ accepted' = <<>> /\ rows' = rows
  BY DEF NextTest
<1>2. Tables' = Tables
  BY <1>1, SamePlaces
<1>3. \A k \in 1..Len(accepted') : FALSE
  BY <1>1, EmptySeq
<1>4. ASSUME NEW t \in Tables, NEW p \in 1..Len(rows[t]) PROVE rows[t][p][1].test # test + 1
  <2>1. rows \in [Tables -> Seq(Lines)] /\ rows[t][p][1].test <= test
    BY DEF Shape
  <2>2. rows[t][p] \in Lines
    BY <2>1
  <2>3. rows[t][p][1].test \in Nat
    BY <2>2, Sizes DEF Lines, Results
  <2>4. QED
    BY <2>1, <2>3, Ranges, Sizes
<1>5. QED
  BY <1>1, <1>2, <1>3, <1>4 DEF RowsInOrder, EachIsDue, EachDueIsThere, InOrder

LEMMA RowsStep == TypeOK /\ Shape /\ RowsInOrder /\ [Next]_vars => RowsInOrder'
<1> SUFFICES ASSUME TypeOK, Shape, RowsInOrder, [Next]_vars
             PROVE  RowsInOrder'
  OBVIOUS
<1>1. CASE Connect \/ CreateTable \/ NoAutoCreate \/ NoTable \/ Refused
  <2>1. /\ UNCHANGED <<config, test, accepted, rows, inserted>>
        /\ at # "idle" /\ at' # "idle"
    BY <1>1 DEF Connect, CreateTable, NoAutoCreate, NoTable, Refused, Fail
  <2>2. \A k \in 1..Len(accepted) : RowsDue(k)' = RowsDue(k)
    BY <2>1 DEF RowsDue, Complete
  <2>3. QED
    BY <2>1, <2>2, RowsKept
<1>2. CASE DoReturns \/ UNCHANGED vars
  <2>1. /\ UNCHANGED <<config, test, accepted, rows, inserted>>
        /\ at' = at \/ inserted = NRows
    BY <1>2 DEF DoReturns, vars
  <2>2. \A k \in 1..Len(accepted) : RowsDue(k)' = RowsDue(k)
    BY <2>1 DEF RowsDue, Complete
  <2>3. QED
    BY <2>1, <2>2, RowsKept
<1>3. QED
  BY <1>1, <1>2, RowsOfCall, RowsOfInsert, RowsOfNextTest DEF Next, Terminated

-----------------------------------------------------------------------------
(* The theorems                                                            *)

\* The inductive invariant of the outputs.
LEMMA AlwaysIInv == Spec => []IInv
<1>1. IInv /\ [Next]_vars => IInv'
  BY TypingStep, ShapeStep, OpenedStep, KnownStep, ExplainedStep, RowsStep DEF IInv
<1>2. QED
  BY <1>1, StartsSafe, PTL DEF Spec

(***************************************************************************)
(* Every variable keeps its type; rows go into tables of the output only.  *)
(***************************************************************************)
THEOREM Typing == Spec => []TypeOK
<1>1. IInv => TypeOK
  BY DEF IInv
<1>2. QED
  BY <1>1, AlwaysIInv, PTL

(***************************************************************************)
(* Do meets a missing table only when the database refused to create it    *)
(* or, in sqlite, when an earlier result has opened the file for another   *)
(* table.                                                                  *)
(***************************************************************************)
THEOREM ExplainsMissingTables == Spec => []MissingTableExplained
<1>1. IInv => MissingTableExplained
  BY DEF IInv
<1>2. QED
  BY <1>1, AlwaysIInv, PTL

(***************************************************************************)
(* The rows of this test are those of the results Do was called with: none *)
(* is missing but those after an error of the last result, none is there   *)
(* twice, and none is out of order.                                        *)
(***************************************************************************)
THEOREM KeepsRowsInOrder == Spec => []RowsInOrder
<1>1. IInv => RowsInOrder
  BY DEF IInv
<1>2. QED
  BY <1>1, AlwaysIInv, PTL
================================================================================
