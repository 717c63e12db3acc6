---------------------------- MODULE FileOutputs ----------------------------
(***************************************************************************)
(* The outputs that write files: csv, dump, excelize and gochart.  Every   *)
(* test has outputs of its own (prepare of cmd/ancientt makes them), whose *)
(* maps of open files start empty while the files of earlier tests are on  *)
(* the disk.  doOutputs calls Do of one output after the other for each    *)
(* result; nobody calls Close.                                             *)
(*                                                                         *)
(* A file name is templated from a pattern and the result; what counts is  *)
(* which fields of the result the pattern mentions.  Two results share a   *)
(* file when they agree on them.  The field start is TestStartTime, which  *)
(* a name holds in seconds: tests that start in the same second share      *)
(* their names.  The field round stands for TestTime, which tells the runs *)
(* of a pair apart; patterns cannot name the round.                        *)
(*                                                                         *)
(* The disk may be full from some time on.  dump, excelize and gochart     *)
(* report the failed write.  csv does not: rows go through a buffer, and   *)
(* the error of the Flush at the end of Do is dropped.  The buffer keeps   *)
(* it, and the next Do that writes to the file fails.                      *)
(***************************************************************************)
EXTENDS Integers, SequencesExt

CONSTANTS
  NTests, NRounds, Pairs,
  NRows,     \* rows in the table of a result
  Lists,     \* the lists of outputs a test may have (test.Outputs)
  FileBy,    \* the fields in NamePattern of csv, dump and excelize
  ChartBy    \* the fields in NamePattern of gochart

Fields == {"start", "round", "pair"}

ASSUME FilesAssumption ==
  /\ NTests \in Nat \ {0} /\ NRounds \in Nat \ {0} /\ NRows \in Nat \ {0}
  /\ Lists \subseteq Seq({"csv", "dump", "excelize", "gochart"}) \ {<<>>}
  /\ FileBy \subseteq Fields /\ ChartBy \subseteq Fields

Results == [test : 1..NTests, round : 1..NRounds, pair : Pairs]

VARIABLES
  test,     \* the running test; all have the same tester
  kinds,    \* the outputs of the tests, in order; no step changes them
  started,  \* the second each test starts in; no step changes it
  result,   \* the results doOutputs was handed in this test, in order
  kind,     \* the output whose Do comes next for the last of them, 0: none
  failed,   \* the output whose Do failed and made doOutputs return, 0: none
  opened,   \* the keys of the maps files of csv, dump and excelize
  sheet,    \* fileState of excelize: the cells by row, and the next row
  row,
  disk,     \* the content of the files of each output
  full,     \* the disk is full
  broken,   \* the csv files whose last Flush failed
  leftY,    \* every graph of gochart has its optional leftY column
  crashed   \* Do of gochart has panicked

given  == <<kinds, started, leftY>>
doVars == <<opened, sheet, row, disk, broken>>
vars == <<test, given, result, kind, failed, doVars, full, crashed>>

Name(r, by) == [f \in by |-> IF f = "start" THEN started[r.test] ELSE r[f]]

\* The names that may occur: tests start in seconds 1 to NTests.
Names(by)  == {[f \in by |-> IF f = "start" THEN t ELSE r[f]] : t \in 1..NTests, r \in Results}
FileNames  == Names(FileBy)
ChartNames == Names(ChartBy)

NoFile == <<>>
Header == <<[test |-> 0, round |-> 0, pair |-> "header"], 0>>
Line(r, i) == <<r, i>>
Rows(r) == [i \in 1..NRows |-> Line(r, i)]
EmptySheet == [k \in {} |-> Header]

FileOutputs == {"csv", "dump", "excelize"}

Init ==
  /\ test = 1 /\ result = <<>> /\ kind = 0 /\ failed = 0
  /\ kinds \in Lists
  /\ started \in {s \in [1..NTests -> 1..NTests] :
                   s[1] = 1 /\ \A t \in 2..NTests : s[t] \in {s[t - 1], s[t - 1] + 1}}
  /\ opened = [o \in FileOutputs |-> {}]
  /\ sheet = [n \in FileNames |-> EmptySheet]
  /\ row = [n \in FileNames |-> 0]
  /\ disk = [o \in FileOutputs \union {"gochart"} |->
               [n \in IF o = "gochart" THEN ChartNames ELSE FileNames |-> NoFile]]
  /\ full = FALSE /\ broken = {}
  /\ leftY \in BOOLEAN /\ crashed = FALSE

-----------------------------------------------------------------------------
Current == Last(result)

\* Faulty: a straggler of an earlier test reaches the outputs of this one.
ReceiveLate(r) ==
  /\ kind = 0 /\ failed = 0
  /\ r.test <= test
  /\ \A k \in DOMAIN result : result[k] # r /\ result[k].round <= r.round
  /\ result' = Append(result, r) /\ kind' = 1
  /\ UNCHANGED <<test, given, failed, doVars, full, crashed>>

\* data from dataCh: the results of a test come in the order of the rounds.
Receive(r) ==
  /\ kind = 0 /\ failed = 0
  /\ r.test = test
  /\ \A k \in DOMAIN result : result[k] # r /\ result[k].round <= r.round
  /\ result' = Append(result, r) /\ kind' = 1
  /\ UNCHANGED <<test, given, failed, doVars, full, crashed>>

\* The disk, outside the program.
DiskFills ==
  /\ ~full /\ full' = TRUE
  /\ UNCHANGED <<test, given, result, kind, failed, doVars, crashed>>

Doing(o) == kind # 0 /\ kinds[kind] = o
Done     == kind' = IF kind < Len(kinds) THEN kind + 1 ELSE 0

File == Name(Current, FileBy)

OpenFile(o) == opened' = [opened EXCEPT ![o] = @ \union {File}]

\* os.Create truncates a file that is not open yet.
Kept(o) == IF File \in opened[o] THEN disk[o][File] ELSE <<>>

\* The header goes into a file with a new writer.
CSVLines == (IF File \in opened["csv"] THEN <<>> ELSE <<Header>>) \o Rows(Current)

CSVDo ==
  /\ Doing("csv") /\ File \notin broken /\ ~full
  /\ Done /\ OpenFile("csv")
  /\ disk' = [disk EXCEPT !["csv"][File] = Kept("csv") \o CSVLines]
  /\ UNCHANGED <<test, given, result, failed, sheet, row, broken, full, crashed>>

\* Faulty: the buffer is made anew, and forgets the error.
CSVLosesMore ==
  /\ Doing("csv") /\ full
  /\ Done /\ OpenFile("csv")
  /\ \E k \in 0..(Len(CSVLines) - 1) :
       disk' = [disk EXCEPT !["csv"][File] = Kept("csv") \o SubSeq(CSVLines, 1, k)]
  /\ broken' = broken \union {File}
  /\ UNCHANGED <<test, given, result, failed, sheet, row, full, crashed>>

\* Do returns nil, but Flush has written a part or nothing.
CSVFlushFails ==
  /\ Doing("csv") /\ File \notin broken /\ full
  /\ Done /\ OpenFile("csv")
  /\ \E k \in 0..(Len(CSVLines) - 1) :
       disk' = [disk EXCEPT !["csv"][File] = Kept("csv") \o SubSeq(CSVLines, 1, k)]
  /\ broken' = broken \union {File}
  /\ UNCHANGED <<test, given, result, failed, sheet, row, full, crashed>>

\* The table is printed whole, with its header.
DumpDo ==
  /\ Doing("dump") /\ ~full
  /\ Done /\ OpenFile("dump")
  /\ disk' = [disk EXCEPT !["dump"][File] = Kept("dump") \o <<Header>> \o Rows(Current)]
  /\ UNCHANGED <<test, given, result, failed, sheet, row, broken, full, crashed>>

\* inputData: row i of the table goes to startRow + i of the sheet.
InputData(cells, start, table) ==
  [i \in DOMAIN cells \union start..(start + Len(table) - 1) |->
    IF i \in start..(start + Len(table) - 1) THEN table[i - start + 1] ELSE cells[i]]

SheetAsFile(cells) == [k \in 1..Cardinality(DOMAIN cells) |-> cells[k]]

\* Faulty: the next row is the one after the header again.
ExcelizeFromTop ==
  LET old == IF File \in opened["excelize"] THEN sheet[File] ELSE EmptySheet IN
    /\ Doing("excelize") /\ ~full
    /\ Done /\ OpenFile("excelize")
    /\ sheet' = [sheet EXCEPT ![File] = InputData(InputData(old, 1, <<Header>>), 2, Rows(Current))]
    /\ row' = [row EXCEPT ![File] = 2]
    /\ disk' = [disk EXCEPT !["excelize"][File] = SheetAsFile(sheet'[File])]
    /\ UNCHANGED <<test, given, result, failed, broken, full, crashed>>

ExcelizeDo ==
  LET isNew == File \notin opened["excelize"]
      old  == IF isNew THEN EmptySheet ELSE sheet[File]
      at   == IF isNew THEN 1 ELSE row[File]
      head == IF at = 1 THEN InputData(old, at, <<Header>>) ELSE old
      from == IF at = 1 THEN at + 1 ELSE at IN
    /\ Doing("excelize") /\ ~full
    /\ Done /\ OpenFile("excelize")
    /\ sheet' = [sheet EXCEPT ![File] = InputData(head, from, Rows(Current))]
    /\ row' = [row EXCEPT ![File] = from + NRows]
    /\ disk' = [disk EXCEPT !["excelize"][File] = SheetAsFile(sheet'[File])]
    /\ UNCHANGED <<test, given, result, failed, broken, full, crashed>>

\* A chart is drawn from one result; WriteNewTruncFile replaces the file.
GoChartDo ==
  /\ Doing("gochart") /\ leftY /\ ~full
  /\ Done
  /\ disk' = [disk EXCEPT !["gochart"][Name(Current, ChartBy)] = Rows(Current)]
  /\ UNCHANGED <<test, given, result, failed, opened, sheet, row, broken, full, crashed>>

\* leftY is optional in the configuration, but GetHeaderIndexByName returns -1
\* and no error for the column "", and the rows are indexed with it.
GoChartPanics ==
  /\ Doing("gochart") /\ ~leftY /\ ~crashed
  /\ crashed' = TRUE
  /\ UNCHANGED <<test, given, result, kind, failed, doVars, full>>

\* Do returns an error, and doOutputs returns with it.
Fail == kind # 0 /\ ~crashed /\ failed' = kind /\ kind' = 0

\* The file cannot be opened, the template is wrong or the csv buffer has kept
\* an error: nothing is written.
DoFails ==
  /\ Fail
  /\ UNCHANGED <<test, given, result, doVars, full, crashed>>

\* A write to the full disk is reported.  csv and dump append a part; excelize
\* and gochart, which write files whole, may leave an empty one.
WriteFails ==
  /\ full /\ Fail
  /\ \/ \E o \in {"csv", "dump"} :
          /\ Doing(o) /\ OpenFile(o) /\ (o = "csv" => File \notin broken)
          /\ LET lines == IF o = "csv" THEN CSVLines ELSE <<Header>> \o Rows(Current) IN
               \E k \in 0..(Len(lines) - 1) :
                 disk' = [disk EXCEPT ![o][File] = Kept(o) \o SubSeq(lines, 1, k)]
     \/ /\ Doing("excelize") /\ OpenFile("excelize")
        /\ disk' = [disk EXCEPT !["excelize"][File] = NoFile]
     \/ /\ Doing("gochart") /\ leftY /\ UNCHANGED opened
        /\ disk' = [disk EXCEPT !["gochart"][Name(Current, ChartBy)] = NoFile]
  /\ UNCHANGED <<test, given, result, sheet, row, broken, full, crashed>>

\* prepare() of the next test makes new outputs.
NextTest ==
  /\ kind = 0 /\ test < NTests
  /\ test' = test + 1 /\ result' = <<>> /\ failed' = 0
  /\ opened' = [o \in FileOutputs |-> {}]
  /\ sheet' = [n \in FileNames |-> EmptySheet]
  /\ row' = [n \in FileNames |-> 0]
  /\ broken' = {}
  /\ UNCHANGED <<given, kind, disk, full, crashed>>

Terminated == crashed \/ (test = NTests /\ kind = 0)

Stop == Terminated /\ UNCHANGED vars

Next ==
  \/ \E r \in Results : Receive(r)
  \/ CSVDo \/ CSVFlushFails \/ DumpDo \/ ExcelizeDo \/ GoChartDo \/ GoChartPanics
  \/ DoFails \/ WriteFails \/ DiskFills
  \/ NextTest \/ Stop

Spec == Init /\ [][Next]_vars

-----------------------------------------------------------------------------
(* Properties                                                              *)

FailedIn(o) == failed # 0 /\ kinds[failed] = o

\* How many results of this test Do of output o returned nil for.
Handled(o) ==
  IF \E k \in DOMAIN kinds : kinds[k] = o /\ (kind \in 1..k \/ failed \in 1..k)
  THEN Len(result) - 1 ELSE Len(result)

\* The results among the first m that share file n, and the rows they make
\* with the header.
Sharing(n, m) == {k \in 1..m : Name(result[k], FileBy) = n}
Size(n, m)    == 1 + NRows * Cardinality(Sharing(n, m))

\* The header, and each result right behind those before it in the file, as far
\* as the file goes.
BeginsTable(file, n) ==
  /\ file # <<>> => file[1] = Header
  /\ Len(file) <= Size(n, Len(result))
  /\ \A k \in Sharing(n, Len(result)), i \in 1..NRows :
       LET at == Size(n, k - 1) + i IN at <= Len(file) => file[at] = Line(result[k], i)

IsTable(file, n, m) == BeginsTable(file, n) /\ Len(file) = Size(n, m)

(***************************************************************************)
(* A csv file and an Excel sheet hold one header and then the rows of all  *)
(* the results of the test that share the file, in the order they came:    *)
(* no result overwrites another, no row of an earlier test is left, and    *)
(* the failure of an output costs the others at most that result.  Only    *)
(* the end of a csv file may be cut off, after a write that failed.        *)
(***************************************************************************)
TablesComplete ==
  /\ \A n \in opened["csv"] :
       /\ BeginsTable(disk["csv"][n], n)
       /\ \/ IsTable(disk["csv"][n], n, Handled("csv"))
          \/ n \in broken
          \/ FailedIn("csv") /\ n = File /\ full
  /\ \A n \in opened["excelize"] :
       \/ IsTable(disk["excelize"][n], n, Handled("excelize"))
       \/ FailedIn("excelize") /\ n = File /\ full

(***************************************************************************)
(* As long as the name pattern has the start of the test in it, the files  *)
(* of tests that started in an earlier second stay as they are: os.Create, *)
(* NewFile and WriteNewTruncFile only ever replace files of this second.   *)
(***************************************************************************)
OldFilesUntouched ==
  [][\A o \in DOMAIN disk : \A n \in DOMAIN disk[o] :
       "start" \in DOMAIN n /\ n.start # started[test] => disk'[o][n] = disk[o][n]]_vars

(***************************************************************************)
(* A result that no output reported is on the disk in all of them.  A csv  *)
(* file may lack the last of its results, and only the last: the error of  *)
(* its Flush comes to light with the next result for the file.  Charts are *)
(* kept only if the pattern tells rounds apart: the default pattern of     *)
(* gochart does not, and a round replaces the chart of the one before.     *)
(***************************************************************************)
OnDisk(o, r) == \E n \in DOMAIN disk[o] : \E k \in DOMAIN disk[o][n] : disk[o][n][k] = Line(r, NRows)

LastOfItsFile(k) ==
  \A l \in DOMAIN result : Name(result[l], FileBy) = Name(result[k], FileBy) => l <= k

EveryResultKept ==
  kind = 0 /\ failed = 0 =>
    \A k \in DOMAIN result :
      /\ \A o \in Range(kinds) \intersect {"dump", "excelize"} : OnDisk(o, result[k])
      /\ "csv" \in Range(kinds) =>
           OnDisk("csv", result[k]) \/ (Name(result[k], FileBy) \in broken /\ LastOfItsFile(k))
      /\ {"round", "pair"} \subseteq ChartBy /\ "gochart" \in Range(kinds) =>
           OnDisk("gochart", result[k])
=============================================================================
