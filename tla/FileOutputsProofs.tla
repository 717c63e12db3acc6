------------------------- MODULE FileOutputsProofs -------------------------
(***************************************************************************)
(* What the file outputs keep, for every number of tests, rounds, pairs    *)
(* and rows, every list of outputs and every pair of name patterns.        *)
(***************************************************************************)
EXTENDS FileOutputs, FiniteSetTheorems, SequenceTheorems, TLAPS

Outputs == FileOutputs \union {"gochart"}
Cells   == {Header} \union {Line(r, i) : r \in Results, i \in 1..NRows}

-----------------------------------------------------------------------------
(* The shape of the state                                                  *)

Files ==
  /\ opened \in [FileOutputs -> SUBSET FileNames]
  /\ DOMAIN disk = Outputs
  /\ \A o \in FileOutputs : disk[o] \in [FileNames -> Seq(Cells)]
  /\ DOMAIN disk["gochart"] = ChartNames

\* Only results of the running test come in, each only once.
Received ==
  /\ result \in Seq(Results)
  /\ \A k \in DOMAIN result : result[k].test = test
  /\ \A k, l \in DOMAIN result : result[k] = result[l] => k = l

Place ==
  /\ test \in 1..NTests
  /\ started \in [1..NTests -> 1..NTests]
  /\ kinds \in Seq(Outputs) /\ kinds # <<>>
  /\ kind \in 0..Len(kinds) /\ failed \in 0..Len(kinds)
  /\ kind # 0 \/ failed # 0 => result # <<>>
  /\ kind # 0 => failed = 0

Shape == Files /\ Received /\ Place

(* The name of every result is one of those the disk knows.                *)
LEMMA Named ==
  ASSUME Place, NEW r \in Results
  PROVE  Name(r, FileBy) \in FileNames /\ Name(r, ChartBy) \in ChartNames
<1>1. r.test \in 1..NTests
  BY DEF Results
<1>2. started[r.test] \in 1..NTests
  BY <1>1 DEF Place
<1>3. QED
  BY <1>2 DEF Name, Names, FileNames, ChartNames

LEMMA Handling ==
  ASSUME Shape, kind # 0 \/ failed # 0
  PROVE  /\ Len(result) \in DOMAIN result /\ Len(result) \in Nat \ {0}
         /\ Current = result[Len(result)] /\ Current \in Results /\ Current.test = test
         /\ File \in FileNames /\ Name(Current, ChartBy) \in ChartNames
<1>1. result # <<>> /\ result \in Seq(Results)
  BY DEF Shape, Place, Received
<1>2. Len(result) \in Nat \ {0} /\ Len(result) \in DOMAIN result
  BY <1>1, EmptySeq, LenProperties
<1>3. Current = result[Len(result)]
  BY DEF Current, Last
<1>4. Current \in Results /\ Current.test = test
  BY <1>1, <1>2, <1>3 DEF Shape, Received
<1>5. QED
  BY <1>2, <1>3, <1>4, Named DEF Shape, File

(* The lines that Do of an output writes.                                  *)
LEMMA Lines ==
  ASSUME NEW r \in Results
  PROVE  /\ Rows(r) \in Seq(Cells) /\ Len(Rows(r)) = NRows
         /\ \A i \in 1..NRows : Rows(r)[i] = Line(r, i)
         /\ <<Header>> \in Seq(Cells) /\ Len(<<Header>>) = 1 /\ <<Header>>[1] = Header
         /\ NRows \in Nat \ {0}
<1>1. NRows \in Nat \ {0}
  BY FilesAssumption
<1>2. \A i \in 1..NRows : Line(r, i) \in Cells
  BY DEF Cells
<1>3. Rows(r) \in [1..NRows -> Cells] /\ \A i \in 1..NRows : Rows(r)[i] = Line(r, i)
  BY <1>2 DEF Rows
<1>4. Rows(r) \in Seq(Cells) /\ Len(Rows(r)) = NRows
  BY <1>1, <1>3
<1>5. Header \in Cells
  BY DEF Cells
<1>6. <<Header>> \in Seq(Cells) /\ Len(<<Header>>) = 1 /\ <<Header>>[1] = Header
  BY <1>5
<1>7. QED
  BY <1>1, <1>3, <1>4, <1>6

Writes(o, n, lines) ==
  /\ opened' = [opened EXCEPT ![o] = @ \union {n}]
  /\ disk' = [disk EXCEPT ![o][n] = lines]

Draws(n, lines) == UNCHANGED opened /\ disk' = [disk EXCEPT !["gochart"][n] = lines]

(* A file that Do opens and writes keeps the shape of the others.          *)
LEMMA Writing ==
  ASSUME Files, NEW o \in FileOutputs, NEW n \in FileNames, NEW lines \in Seq(Cells),
         Writes(o, n, lines)
  PROVE  /\ Files'
         /\ disk'[o][n] = lines /\ n \in opened'[o]
         /\ opened'[o] = opened[o] \union {n}
         /\ \A p \in Outputs : p # o => disk'[p] = disk[p]
         /\ \A p \in FileOutputs : p # o => opened'[p] = opened[p]
         /\ \A m \in FileNames : m # n => disk'[o][m] = disk[o][m]
<1>1. o \in Outputs /\ "gochart" \notin FileOutputs /\ FileOutputs \subseteq Outputs
  BY DEF Outputs, FileOutputs
<1>2. disk' = [disk EXCEPT ![o] = [disk[o] EXCEPT ![n] = lines]]
  BY DEF Writes
<1>3. /\ disk'[o] = [disk[o] EXCEPT ![n] = lines] /\ DOMAIN disk' = Outputs
      /\ \A p \in Outputs : p # o => disk'[p] = disk[p]
  BY <1>1, <1>2 DEF Files
<1>4. disk'[o] \in [FileNames -> Seq(Cells)]
  BY <1>3 DEF Files
<1>5. DOMAIN disk'["gochart"] = ChartNames
  BY <1>1, <1>3 DEF Files, Outputs
<1>6. opened' \in [FileOutputs -> SUBSET FileNames]
  BY DEF Files, Writes
<1>7. \A p \in FileOutputs : disk'[p] \in [FileNames -> Seq(Cells)]
  BY <1>1, <1>3, <1>4 DEF Files
<1>8. Files'
  BY <1>3, <1>5, <1>6, <1>7 DEF Files
<1>9. QED
  BY <1>1, <1>3, <1>8 DEF Files, Writes

(* A chart replaces only the chart of its name.                            *)
LEMMA Drawing ==
  ASSUME Files, NEW n \in ChartNames, NEW lines, Draws(n, lines)
  PROVE  /\ Files'
         /\ disk'["gochart"][n] = lines
         /\ \A p \in FileOutputs : disk'[p] = disk[p]
         /\ \A m \in ChartNames : m # n => disk'["gochart"][m] = disk["gochart"][m]
<1>1. "gochart" \in Outputs /\ "gochart" \notin FileOutputs /\ FileOutputs \subseteq Outputs
  BY DEF Outputs, FileOutputs
<1>2. disk' = [disk EXCEPT !["gochart"] = [disk["gochart"] EXCEPT ![n] = lines]]
  BY DEF Draws
<1>3. /\ disk'["gochart"] = [disk["gochart"] EXCEPT ![n] = lines] /\ DOMAIN disk' = Outputs
      /\ \A p \in FileOutputs : disk'[p] = disk[p]
  BY <1>1, <1>2 DEF Files
<1>4. QED
  BY <1>3 DEF Files, Draws

-----------------------------------------------------------------------------
(* What the steps write                                                    *)

\* What a file that Do of csv or excelize goes on with has in it.
Start(o) == IF File \in opened[o] THEN disk[o][File] ELSE <<Header>>

LEMMA Starting ==
  ASSUME Shape, kind # 0, NEW o \in FileOutputs
  PROVE  /\ Start(o) \in Seq(Cells) /\ Kept(o) \in Seq(Cells)
         /\ Start(o) \o Rows(Current) \in Seq(Cells)
         /\ Kept(o) \o <<Header>> \o Rows(Current) \in Seq(Cells)
         /\ Rows(Current) \in Seq(Cells)
<1>1. File \in FileNames /\ Current \in Results
  BY Handling
<1>2. disk[o][File] \in Seq(Cells)
  BY <1>1 DEF Shape, Files
<1>3. Rows(Current) \in Seq(Cells) /\ <<Header>> \in Seq(Cells)
  BY <1>1, Lines
<1>4. Start(o) \in Seq(Cells) /\ Kept(o) \in Seq(Cells)
  BY <1>2, <1>3, EmptySeq DEF Start, Kept
<1>5. Kept(o) \o <<Header>> \in Seq(Cells)
  BY <1>3, <1>4, ConcatProperties
<1>6. QED
  BY <1>3, <1>4, <1>5, ConcatProperties

(* csv goes on with the file or makes a new one with a header.             *)
LEMMA CSVAppends ==
  ASSUME Shape, kind # 0
  PROVE  Kept("csv") \o CSVLines = Start("csv") \o Rows(Current)
<1>1. "csv" \in FileOutputs
  BY DEF FileOutputs
<1>2. Kept("csv") \in Seq(Cells) /\ Rows(Current) \in Seq(Cells)
  BY <1>1, Starting
<1>3. CASE File \in opened["csv"]
  <2>1. CSVLines = Rows(Current)
    BY <1>2, <1>3, ConcatEmptySeq DEF CSVLines
  <2>2. QED
    BY <1>3, <2>1 DEF Kept, Start
<1>4. CASE File \notin opened["csv"]
  <2>1. CSVLines = <<Header>> \o Rows(Current) /\ CSVLines \in Seq(Cells)
    <3>1. CSVLines = Start("csv") \o Rows(Current)
      BY <1>4 DEF CSVLines, Start
    <3>2. Start("csv") = <<Header>>
      BY <1>4 DEF Start
    <3>3. QED
      BY <1>1, <3>1, <3>2, Starting
  <2>2. Kept("csv") \o CSVLines = CSVLines
    BY <1>4, <2>1, ConcatEmptySeq DEF Kept
  <2>3. QED
    BY <1>4, <2>1, <2>2 DEF Start
<1>5. QED
  BY <1>3, <1>4

LEMMA CSVLinesAre ==
  ASSUME Shape, kind # 0
  PROVE  CSVLines \in Seq(Cells)
<1>1. Rows(Current) \in Seq(Cells) /\ <<Header>> \in Seq(Cells)
  BY Handling, Lines
<1>2. CASE File \in opened["csv"]
  BY <1>1, <1>2, ConcatEmptySeq DEF CSVLines
<1>3. CASE File \notin opened["csv"]
  BY <1>1, <1>3, ConcatProperties DEF CSVLines
<1>4. QED
  BY <1>2, <1>3

(* A part of the lines that reaches the disk.                              *)
LEMMA PartOf ==
  ASSUME NEW lines \in Seq(Cells), NEW k \in 0 .. Len(lines) - 1
  PROVE  /\ SubSeq(lines, 1, k) \in Seq(Cells) /\ Len(SubSeq(lines, 1, k)) = k
         /\ \A i \in 1..k : SubSeq(lines, 1, k)[i] = lines[i]
<1>1. Len(lines) \in Nat /\ k \in Int /\ 1 \in Int
  BY LenProperties
<1>2. \A i \in 1..k : lines[i] \in Cells
  BY <1>1, ElementOfSeq
<1>3. QED
  BY <1>1, <1>2, SubSeqProperties

\* The sheet that excelize has in memory is what it has saved.
SheetFits(n) ==
  LET file == disk["excelize"][n] IN
    /\ Len(file) >= 1 /\ row[n] = Len(file) + 1
    /\ DOMAIN sheet[n] = 1..Len(file)
    /\ \A i \in 1..Len(file) : sheet[n][i] = file[i]

Sheets ==
  /\ DOMAIN sheet = FileNames /\ DOMAIN row = FileNames
  /\ failed = 0 => \A n \in opened["excelize"] : SheetFits(n)

(* A table under the cells that are there, as it is saved.                 *)
LEMMA Below ==
  ASSUME NEW cells, NEW s \in Seq(Cells), NEW t \in Seq(Cells),
         DOMAIN cells = 1..Len(s), \A i \in 1..Len(s) : cells[i] = s[i]
  PROVE  /\ DOMAIN InputData(cells, Len(s) + 1, t) = 1..Len(s \o t)
         /\ \A i \in 1..Len(s \o t) : InputData(cells, Len(s) + 1, t)[i] = (s \o t)[i]
         /\ SheetAsFile(InputData(cells, Len(s) + 1, t)) = s \o t
<1> DEFINE new == InputData(cells, Len(s) + 1, t)
<1>1. Len(s) \in Nat /\ Len(t) \in Nat
  BY LenProperties
<1>2. /\ s \o t \in Seq(Cells) /\ Len(s \o t) = Len(s) + Len(t)
      /\ \A i \in 1..Len(s) + Len(t) : (s \o t)[i] = IF i <= Len(s) THEN s[i] ELSE t[i - Len(s)]
  BY ConcatProperties
<1>3. new = [i \in 1..Len(s) \union (Len(s) + 1)..(Len(s) + 1 + Len(t) - 1) |->
               IF i \in (Len(s) + 1)..(Len(s) + 1 + Len(t) - 1) THEN t[i - (Len(s) + 1) + 1]
               ELSE cells[i]]
  BY DEF InputData
<1> HIDE DEF new
<1>4. 1..Len(s) \union (Len(s) + 1)..(Len(s) + 1 + Len(t) - 1) = 1..Len(s) + Len(t)
  BY <1>1
<1>5. DOMAIN new = 1..Len(s \o t)
  BY <1>2, <1>3, <1>4
<1>6. ASSUME NEW i \in 1..Len(s \o t) PROVE new[i] = (s \o t)[i]
  <2>1. i \in 1..Len(s) + Len(t) /\ i \in Int
    BY <1>1, <1>2
  <2>2. CASE i <= Len(s)
    <3>1. i \in 1..Len(s) /\ i \notin (Len(s) + 1)..(Len(s) + 1 + Len(t) - 1)
      BY <1>1, <2>1, <2>2
    <3>2. new[i] = cells[i]
      BY <1>3, <3>1
    <3>3. QED
      BY <1>2, <2>1, <2>2, <3>1, <3>2
  <2>3. CASE ~(i <= Len(s))
    <3>1. i \in (Len(s) + 1)..(Len(s) + 1 + Len(t) - 1)
      BY <1>1, <2>1, <2>3
    <3>2. new[i] = t[i - (Len(s) + 1) + 1]
      BY <1>3, <3>1
    <3>3. i - (Len(s) + 1) + 1 = i - Len(s)
      BY <1>1, <2>1
    <3>4. QED
      BY <1>2, <2>1, <2>3, <3>2, <3>3
  <2>4. QED
    BY <2>2, <2>3
<1>7. SheetAsFile(new) = s \o t
  <2>1. Len(s \o t) \in Nat
    BY <1>1, <1>2
  <2>2. Cardinality(DOMAIN new) = Len(s \o t)
    <3>1. 1 \in Int /\ Len(s \o t) \in Int
      BY <2>1
    <3>2. Cardinality(1..Len(s \o t)) = IF 1 > Len(s \o t) THEN 0 ELSE Len(s \o t) - 1 + 1
      BY <3>1, FS_Interval
    <3>3. QED
      BY <1>5, <2>1, <3>2
  <2>3. SheetAsFile(new) = [k \in 1..Len(s \o t) |-> new[k]]
    BY <2>2 DEF SheetAsFile
  <2>4. s \o t = [k \in 1..Len(s \o t) |-> (s \o t)[k]]
    BY <1>2, LenProperties
  <2>5. QED
    BY <1>6, <2>3, <2>4
<1>8. QED
  BY <1>5, <1>6, <1>7 DEF new

(* Do of excelize saves what is saved already and the rows below it.       *)
LEMMA ExcelizeAppends ==
  ASSUME Shape, Sheets, ExcelizeDo
  PROVE  Writes("excelize", File, Start("excelize") \o Rows(Current)) /\ Sheets'
<1> DEFINE isNew == File \notin opened["excelize"]
           old  == IF isNew THEN EmptySheet ELSE sheet[File]
           at   == IF isNew THEN 1 ELSE row[File]
           head == IF at = 1 THEN InputData(old, at, <<Header>>) ELSE old
           from == IF at = 1 THEN at + 1 ELSE at
           new  == InputData(head, from, Rows(Current))
           start == Start("excelize")
<1>1. /\ kind # 0 /\ failed = 0 /\ failed' = failed
      /\ OpenFile("excelize")
      /\ sheet' = [sheet EXCEPT ![File] = new]
      /\ row' = [row EXCEPT ![File] = from + NRows]
      /\ disk' = [disk EXCEPT !["excelize"][File] = SheetAsFile(sheet'[File])]
  BY DEF ExcelizeDo, Doing, Shape, Place
<1>2. "excelize" \in FileOutputs /\ File \in FileNames /\ Current \in Results
  BY <1>1, Handling DEF FileOutputs
<1>3. start \in Seq(Cells) /\ Rows(Current) \in Seq(Cells)
  BY <1>1, <1>2, Starting
<1>4. /\ Len(Rows(Current)) = NRows /\ NRows \in Nat \ {0}
      /\ <<Header>> \in Seq(Cells) /\ Len(<<Header>>) = 1
  BY <1>2, Lines
<1>5. /\ DOMAIN head = 1..Len(start) /\ \A i \in 1..Len(start) : head[i] = start[i]
      /\ from = Len(start) + 1 /\ Len(start) \in Nat \ {0}
  <2>1. CASE isNew
    <3>1. start = <<Header>> /\ at = 1 /\ from = 2
      BY <2>1 DEF Start
    <3>2. head = InputData(EmptySheet, 1, <<Header>>)
      BY <2>1, <3>1
    <3> HIDE DEF isNew, old, at, head, from, start
    <3>3. InputData(EmptySheet, 1, <<Header>>) = [i \in 1..1 |-> Header]
      BY DEF InputData, EmptySheet
    <3>4. DOMAIN head = 1..1 /\ \A i \in 1..1 : head[i] = Header
      BY <3>2, <3>3
    <3>5. \A i \in 1..1 : start[i] = Header
      BY <3>1
    <3>6. Len(start) = 1
      BY <1>4, <3>1
    <3>7. from = Len(start) + 1 /\ Len(start) \in Nat \ {0}
      BY <3>1, <3>6
    <3>8. DOMAIN head = 1..Len(start) /\ \A i \in 1..Len(start) : head[i] = start[i]
      BY <3>4, <3>5, <3>6
    <3>9. QED
      BY <3>7, <3>8
  <2>2. CASE ~isNew
    <3>1. SheetFits(File) /\ start = disk["excelize"][File]
      BY <1>1, <2>2 DEF Sheets, Start
    <3>2. Len(start) >= 1 /\ Len(start) \in Nat
      BY <1>3, <3>1, LenProperties DEF SheetFits
    <3>3. at = Len(start) + 1
      BY <2>2, <3>1 DEF SheetFits
    <3>4. at # 1
      BY <3>2, <3>3
    <3>5. head = sheet[File] /\ from = Len(start) + 1
      BY <2>2, <3>3, <3>4
    <3>6. QED
      BY <3>1, <3>2, <3>5 DEF SheetFits
  <2>3. QED
    BY <2>1, <2>2
<1> DEFINE file == start \o Rows(Current)
<1> HIDE DEF isNew, old, at, head, from, start
<1>6. /\ DOMAIN new = 1..Len(file) /\ \A i \in 1..Len(file) : new[i] = file[i]
      /\ SheetAsFile(new) = file
  <2>1. new = InputData(head, Len(start) + 1, Rows(Current))
    BY <1>5
  <2> HIDE DEF new
  <2>2. /\ DOMAIN InputData(head, Len(start) + 1, Rows(Current)) = 1..Len(start \o Rows(Current))
        /\ \A i \in 1..Len(start \o Rows(Current)) :
             InputData(head, Len(start) + 1, Rows(Current))[i] = (start \o Rows(Current))[i]
        /\ SheetAsFile(InputData(head, Len(start) + 1, Rows(Current))) = start \o Rows(Current)
    BY <1>3, <1>5, Below
  <2>3. QED
    BY <2>1, <2>2
<1>7. /\ file \in Seq(Cells) /\ Len(file) = Len(start) + NRows /\ Len(file) >= 1
      /\ Len(start) + 1 + NRows = Len(file) + 1
  <2>1. file \in Seq(Cells) /\ Len(file) = Len(start) + Len(Rows(Current))
    BY <1>3, ConcatProperties
  <2>2. QED
    BY <1>4, <1>5, <2>1
<1> HIDE DEF new, file
<1>8. /\ sheet'[File] = new /\ row'[File] = Len(file) + 1
      /\ DOMAIN sheet' = FileNames /\ DOMAIN row' = FileNames
      /\ \A m \in FileNames : m # File => sheet'[m] = sheet[m] /\ row'[m] = row[m]
  BY <1>1, <1>2, <1>5, <1>7 DEF Sheets
<1>9. disk' = [disk EXCEPT !["excelize"][File] = file]
  BY <1>1, <1>6, <1>8
<1>10. /\ disk'["excelize"][File] = file
       /\ opened'["excelize"] = opened["excelize"] \union {File}
       /\ \A m \in FileNames : m # File => disk'["excelize"][m] = disk["excelize"][m]
  <2>1. Writes("excelize", File, file)
    BY <1>1, <1>9 DEF Writes, OpenFile
  <2>2. Files
    BY DEF Shape
  <2>3. QED
    BY <1>2, <1>7, <2>1, <2>2, Writing
<1>11. opened["excelize"] \subseteq FileNames
  BY <1>2 DEF Shape, Files
<1>12. ASSUME NEW m \in opened'["excelize"] PROVE SheetFits(m)'
  <2>1. CASE m = File
    BY <1>6, <1>7, <1>8, <1>10, <2>1 DEF SheetFits
  <2>2. CASE m # File
    <3>1. m \in opened["excelize"] /\ m \in FileNames
      BY <1>10, <1>11, <2>2
    <3>2. SheetFits(m)
      BY <1>1, <3>1 DEF Sheets
    <3>3. QED
      BY <1>8, <1>10, <2>2, <3>1, <3>2 DEF SheetFits
  <2>3. QED
    BY <2>1, <2>2
<1>13. Sheets'
  BY <1>8, <1>12 DEF Sheets
<1>14. QED
  BY <1>1, <1>9, <1>13 DEF file, start, Writes, OpenFile


-----------------------------------------------------------------------------
(* What the steps leave alone                                              *)

\* What was in a file stays at its beginning.
Prolongs(lines, old) == Len(old) <= Len(lines) /\ \A i \in 1..Len(old) : lines[i] = old[i]

HasResult(lines, r) == Len(lines) \in DOMAIN lines /\ lines[Len(lines)] = Line(r, NRows)

LEMMA Behind ==
  ASSUME NEW s \in Seq(Cells), NEW t \in Seq(Cells)
  PROVE  /\ s \o t \in Seq(Cells) /\ Prolongs(s \o t, s)
         /\ \A r : HasResult(t, r) => HasResult(s \o t, r)
<1>1. Len(s) \in Nat /\ Len(t) \in Nat /\ DOMAIN t = 1..Len(t)
  BY LenProperties
<1>2. /\ s \o t \in Seq(Cells) /\ Len(s \o t) = Len(s) + Len(t)
      /\ \A i \in 1 .. Len(s) + Len(t) : (s \o t)[i] = IF i <= Len(s) THEN s[i] ELSE t[i - Len(s)]
  BY ConcatProperties
<1>3. DOMAIN (s \o t) = 1..Len(s \o t)
  BY <1>2, LenProperties
<1>4. Prolongs(s \o t, s)
  BY <1>1, <1>2 DEF Prolongs
<1>5. ASSUME NEW r, HasResult(t, r) PROVE HasResult(s \o t, r)
  <2>1. Len(t) >= 1 /\ t[Len(t)] = Line(r, NRows)
    BY <1>1, <1>5 DEF HasResult
  <2>2. /\ Len(s \o t) \in 1..Len(s) + Len(t) /\ ~(Len(s \o t) <= Len(s))
        /\ Len(s \o t) - Len(s) = Len(t)
    BY <1>1, <1>2, <2>1
  <2>3. (s \o t)[Len(s \o t)] = t[Len(t)]
    BY <1>2, <2>2
  <2>4. QED
    BY <1>2, <1>3, <2>1, <2>2, <2>3 DEF HasResult
<1>6. QED
  BY <1>2, <1>4, <1>5

LEMMA RowsHaveResult ==
  ASSUME NEW r \in Results
  PROVE  HasResult(Rows(r), r)
<1>1. /\ Rows(r) \in Seq(Cells) /\ Len(Rows(r)) = NRows /\ NRows \in Nat \ {0}
      /\ \A i \in 1..NRows : Rows(r)[i] = Line(r, i)
  BY Lines
<1>2. DOMAIN Rows(r) = 1..Len(Rows(r))
  BY <1>1, LenProperties
<1>3. QED
  BY <1>1, <1>2 DEF HasResult

\* One output is done with the result at hand.
Finished(o) ==
  Doing(o) /\ Done /\ UNCHANGED <<test, given, result, failed, full, crashed>>

(* Do of an output that keeps its files open adds to the file at hand: the *)
(* rows of the result, unless the disk is full.                            *)
LEMMA FileSteps ==
  ASSUME Shape, Sheets, CSVDo \/ CSVFlushFails \/ DumpDo \/ ExcelizeDo
  PROVE  \E o \in FileOutputs, lines \in Seq(Cells) :
           /\ Finished(o) /\ Writes(o, File, lines) /\ Prolongs(lines, Kept(o))
           /\ HasResult(lines, Current) \/ CSVFlushFails
<1>1. kind # 0
  BY DEF CSVDo, CSVFlushFails, DumpDo, ExcelizeDo, Doing
<1>2. FileOutputs = {"csv", "dump", "excelize"}
  BY DEF FileOutputs
<1>3. \A o \in FileOutputs :
        /\ Start(o) \in Seq(Cells) /\ Kept(o) \in Seq(Cells)
        /\ Kept(o) \o <<Header>> \in Seq(Cells)
  BY <1>1, Starting, Handling, Lines, ConcatProperties
<1>4. CSVLines \in Seq(Cells)
  BY <1>1, CSVLinesAre
<1>5. Rows(Current) \in Seq(Cells) /\ HasResult(Rows(Current), Current)
  BY <1>1, Handling, Lines, RowsHaveResult
<1>6. ASSUME NEW o \in FileOutputs
      PROVE  /\ Start(o) \o Rows(Current) \in Seq(Cells)
             /\ Prolongs(Start(o) \o Rows(Current), Kept(o))
             /\ HasResult(Start(o) \o Rows(Current), Current)
  <2>1. /\ Start(o) \o Rows(Current) \in Seq(Cells)
        /\ Prolongs(Start(o) \o Rows(Current), Start(o))
        /\ HasResult(Start(o) \o Rows(Current), Current)
    BY <1>3, <1>5, Behind
  <2>2. CASE File \in opened[o]
    BY <2>1, <2>2 DEF Start, Kept
  <2>3. CASE File \notin opened[o]
    <3>1. Kept(o) = <<>> /\ Len(<<>>) = 0
      BY <2>3, EmptySeq DEF Kept
    <3>2. Len(Start(o) \o Rows(Current)) \in Nat
      BY <2>1, LenProperties
    <3>3. QED
      BY <2>1, <3>1, <3>2 DEF Prolongs
  <2>4. QED
    BY <2>2, <2>3
<1>7. CASE CSVDo
  <2>1. Finished("csv") /\ Writes("csv", File, Start("csv") \o Rows(Current))
    BY <1>1, <1>7, CSVAppends DEF CSVDo, Finished, Writes, OpenFile, given
  <2>2. QED
    BY <1>2, <1>6, <2>1
<1>8. CASE CSVFlushFails
  <2>1. PICK k \in 0..(Len(CSVLines) - 1) :
          Finished("csv") /\ Writes("csv", File, Kept("csv") \o SubSeq(CSVLines, 1, k))
    BY <1>8 DEF CSVFlushFails, Finished, Writes, OpenFile, given
  <2>2. SubSeq(CSVLines, 1, k) \in Seq(Cells)
    BY <1>4, PartOf
  <2>3. /\ Kept("csv") \o SubSeq(CSVLines, 1, k) \in Seq(Cells)
        /\ Prolongs(Kept("csv") \o SubSeq(CSVLines, 1, k), Kept("csv"))
    BY <1>2, <1>3, <2>2, Behind
  <2>4. QED
    BY <1>2, <1>8, <2>1, <2>3
<1>9. CASE DumpDo
  <2> DEFINE lines == Kept("dump") \o <<Header>> \o Rows(Current)
  <2>1. Finished("dump") /\ Writes("dump", File, lines)
    BY <1>9 DEF DumpDo, Finished, Writes, OpenFile, given
  <2>2. <<Header>> \in Seq(Cells)
    BY <1>1, Handling, Lines
  <2>3. lines \in Seq(Cells) /\ HasResult(lines, Current) /\ Prolongs(lines, Kept("dump") \o <<Header>>)
    BY <1>2, <1>3, <1>5, Behind
  <2>4. Prolongs(Kept("dump") \o <<Header>>, Kept("dump"))
    BY <1>2, <1>3, <2>2, Behind
  <2>5. /\ Len(Kept("dump")) \in Nat /\ Len(Kept("dump") \o <<Header>>) \in Nat
        /\ Len(lines) \in Nat
    BY <1>2, <1>3, <2>3, LenProperties
  <2> HIDE DEF lines
  <2>6. Prolongs(lines, Kept("dump"))
    BY <2>3, <2>4, <2>5 DEF Prolongs
  <2>7. QED
    BY <1>2, <2>1, <2>3, <2>6
<1>10. CASE ExcelizeDo
  <2>1. Finished("excelize")
    BY <1>10 DEF ExcelizeDo, Finished, given
  <2>2. Writes("excelize", File, Start("excelize") \o Rows(Current))
    BY <1>10, ExcelizeAppends
  <2>3. QED
    BY <1>2, <1>6, <2>1, <2>2
<1>11. QED
  BY <1>7, <1>8, <1>9, <1>10

LEMMA FailureSteps ==
  ASSUME Shape, WriteFails
  PROVE  \/ \E o \in FileOutputs, lines \in Seq(Cells) : Writes(o, File, lines)
         \/ \E lines : Draws(Name(Current, ChartBy), lines)
<1>1. kind # 0
  BY DEF WriteFails, Fail
<1>2. FileOutputs = {"csv", "dump", "excelize"}
  BY DEF FileOutputs
<1>3. ASSUME NEW o \in {"csv", "dump"}, OpenFile(o),
             LET lines == IF o = "csv" THEN CSVLines ELSE <<Header>> \o Rows(Current) IN
               \E k \in 0..(Len(lines) - 1) :
                 disk' = [disk EXCEPT ![o][File] = Kept(o) \o SubSeq(lines, 1, k)]
      PROVE  \E lines \in Seq(Cells) : Writes(o, File, lines)
  <2> DEFINE lines == IF o = "csv" THEN CSVLines ELSE <<Header>> \o Rows(Current)
  <2>1. lines \in Seq(Cells)
    BY <1>1, CSVLinesAre, Handling, Lines, ConcatProperties
  <2>2. PICK k \in 0..(Len(lines) - 1) : Writes(o, File, Kept(o) \o SubSeq(lines, 1, k))
    BY <1>3 DEF Writes, OpenFile
  <2> HIDE DEF lines
  <2>3. SubSeq(lines, 1, k) \in Seq(Cells)
    BY <2>1, PartOf
  <2>4. Kept(o) \in Seq(Cells)
    BY <1>1, <1>2, Starting
  <2>5. Kept(o) \o SubSeq(lines, 1, k) \in Seq(Cells)
    BY <2>3, <2>4, ConcatProperties
  <2>6. QED
    BY <2>2, <2>5
<1>4. ASSUME OpenFile("excelize"), disk' = [disk EXCEPT !["excelize"][File] = NoFile]
      PROVE  Writes("excelize", File, <<>>)
  BY <1>4 DEF Writes, OpenFile, NoFile
<1>5. ASSUME disk' = [disk EXCEPT !["gochart"][Name(Current, ChartBy)] = NoFile], UNCHANGED opened
      PROVE  Draws(Name(Current, ChartBy), <<>>)
  BY <1>5 DEF Draws, NoFile
<1>6. <<>> \in Seq(Cells)
  BY EmptySeq
<1>7. QED
  BY <1>2, <1>3, <1>4, <1>5, <1>6 DEF WriteFails

(* The other steps leave the disk to itself, and but for NextTest the      *)
(* outputs too.                                                            *)
LEMMA OtherSteps ==
  ASSUME [Next]_vars
  PROVE  \/ CSVDo \/ CSVFlushFails \/ DumpDo \/ ExcelizeDo \/ WriteFails \/ GoChartDo \/ NextTest
         \/ DoFails /\ UNCHANGED <<test, given, result, doVars, full, crashed>>
         \/ (\E r \in Results : Receive(r)) /\ UNCHANGED <<test, given, failed, doVars, full, crashed>>
         \/ UNCHANGED <<test, given, result, kind, failed, doVars>> /\ (full => full')
BY DEF Next, Receive, GoChartPanics, DoFails, DiskFills, Stop, vars

LEMMA InitShape == Init => Shape /\ Sheets
<1> SUFFICES ASSUME Init PROVE Shape /\ Sheets
  OBVIOUS
<1>1. NoFile \in Seq(Cells)
  BY EmptySeq DEF NoFile
<1>2. DOMAIN disk = Outputs
  BY DEF Init, Outputs
<1>3. \A o \in FileOutputs : o # "gochart"
  BY DEF FileOutputs
<1>4. \A o \in Outputs :
        disk[o] = [n \in IF o = "gochart" THEN ChartNames ELSE FileNames |-> NoFile]
  BY DEF Init, Outputs
<1>5. \A o \in FileOutputs : disk[o] = [n \in FileNames |-> NoFile]
  BY <1>3, <1>4 DEF Outputs
<1>6. DOMAIN disk["gochart"] = ChartNames
  BY <1>4 DEF Outputs
<1>7. opened = [o \in FileOutputs |-> {}]
  BY DEF Init
<1>8. Files
  BY <1>1, <1>2, <1>5, <1>6, <1>7 DEF Files
<1>9. result = <<>> /\ result \in Seq(Results) /\ Len(result) = 0
  BY EmptySeq DEF Init
<1>10. \A k \in DOMAIN result : FALSE
  BY <1>9
<1>11. Received
  BY <1>9, <1>10 DEF Received
<1>12. kinds \in Seq(Outputs) /\ kinds # <<>>
  BY FilesAssumption DEF Init, Outputs, FileOutputs
<1>13. started \in [1..NTests -> 1..NTests] /\ 1 \in 1..NTests
  BY FilesAssumption DEF Init
<1>14. Len(kinds) \in Nat
  BY <1>12, LenProperties
<1>15. Place
  BY <1>12, <1>13, <1>14 DEF Init, Place
<1>16. Sheets
  <2>1. "excelize" \in FileOutputs
    BY DEF FileOutputs
  <2>2. opened["excelize"] = {}
    BY <1>7, <2>1
  <2>3. QED
    BY <2>2 DEF Init, Sheets
<1>17. QED
  BY <1>8, <1>11, <1>15, <1>16 DEF Shape

(* A new result is unlike those before it.                                 *)
LEMMA Receiving ==
  ASSUME Shape, NEW r \in Results, Receive(r)
  PROVE  /\ Received' /\ result' # <<>> /\ Len(result') = Len(result) + 1
         /\ \A k \in 1..Len(result) : result'[k] = result[k]
         /\ Len(result) \in Nat
<1>1. /\ result \in Seq(Results) /\ result' = Append(result, r)
      /\ r.test = test /\ test' = test /\ \A k \in DOMAIN result : result[k] # r
  BY DEF Shape, Received, Receive
<1>2. /\ result' \in Seq(Results) /\ Len(result') = Len(result) + 1 /\ Len(result) \in Nat
      /\ \A k \in 1..Len(result) : result'[k] = result[k]
      /\ result'[Len(result) + 1] = r
      /\ DOMAIN result = 1..Len(result) /\ DOMAIN result' = 1..Len(result')
  BY <1>1, AppendProperties, LenProperties
<1>3. \A k \in DOMAIN result' : k \in DOMAIN result \/ k = Len(result) + 1
  BY <1>2
<1>4. \A k \in DOMAIN result : result'[k] = result[k]
  BY <1>2
<1>5. \A k \in DOMAIN result : result[k].test = test
  BY DEF Shape, Received
<1>6. \A k \in DOMAIN result' : result'[k].test = test'
  BY <1>1, <1>2, <1>3, <1>4, <1>5
<1>7. \A k, l \in DOMAIN result' : result'[k] = result'[l] => k = l
  <2>1. \A k, l \in DOMAIN result : result[k] = result[l] => k = l
    BY DEF Shape, Received
  <2>2. QED
    BY <1>1, <1>2, <1>3, <1>4, <2>1
<1>8. result' # <<>>
  <2>1. Len(result') # 0
    BY <1>2
  <2>2. QED
    BY <2>1, EmptySeq
<1>9. QED
  BY <1>2, <1>6, <1>7, <1>8 DEF Received

LEMMA SameReceived ==
  ASSUME Received, UNCHANGED <<test, result>>
  PROVE  Received'
BY DEF Received

LEMMA DonePlace ==
  ASSUME Place, kind # 0, Done, UNCHANGED <<test, given, result, failed>>
  PROVE  Place'
<1>1. Len(kinds) \in Nat /\ kind \in 1..Len(kinds)
  BY LenProperties DEF Place
<1>2. kind' \in 0..Len(kinds)
  BY <1>1 DEF Done
<1>3. QED
  BY <1>2 DEF Place, given

LEMMA FailPlace ==
  ASSUME Place, Fail, UNCHANGED <<test, given, result>>
  PROVE  Place'
<1>1. Len(kinds) \in Nat
  BY LenProperties DEF Place
<1>2. QED
  BY <1>1 DEF Place, Fail, given

(* An output that failed does nothing more in this test.                   *)
LEMMA SheetsStay ==
  ASSUME Shape, Sheets, UNCHANGED <<sheet, row>>,
         failed' # 0 \/ (failed' = failed /\ opened'["excelize"] = opened["excelize"]
                           /\ disk'["excelize"] = disk["excelize"])
  PROVE  Sheets'
BY DEF Sheets, SheetFits

LEMMA NextShape == Shape /\ Sheets /\ [Next]_vars => Shape' /\ Sheets'
<1> SUFFICES ASSUME Shape, Sheets, [Next]_vars PROVE Shape' /\ Sheets'
  OBVIOUS
<1>0. /\ Files /\ Received /\ Place
      /\ FileOutputs = {"csv", "dump", "excelize"} /\ "excelize" \in Outputs
  BY DEF Shape, FileOutputs, Outputs
<1>1. CASE CSVDo \/ CSVFlushFails \/ DumpDo \/ ExcelizeDo
  <2>1. PICK o \in FileOutputs, lines \in Seq(Cells) : Finished(o) /\ Writes(o, File, lines)
    BY <1>1, FileSteps
  <2>2. kind # 0 /\ Done /\ kinds[kind] = o /\ UNCHANGED <<test, given, result, failed>>
    BY <2>1 DEF Finished, Doing
  <2>3. File \in FileNames
    BY <2>2, Handling
  <2>4. /\ Files'
        /\ \A p \in Outputs : p # o => disk'[p] = disk[p]
        /\ \A p \in FileOutputs : p # o => opened'[p] = opened[p]
    BY <1>0, <2>1, <2>3, Writing
  <2>5. Received' /\ Place'
    BY <1>0, <2>2, SameReceived, DonePlace
  <2>6. Sheets'
    <3>1. CASE ExcelizeDo
      BY <3>1, ExcelizeAppends
    <3>2. CASE ~ExcelizeDo
      <4>1. o # "excelize" /\ UNCHANGED <<sheet, row>>
        BY <1>1, <2>2, <3>2 DEF CSVDo, CSVFlushFails, DumpDo, Doing
      <4>2. QED
        BY <1>0, <2>2, <2>4, <4>1, SheetsStay
    <3>3. QED
      BY <3>1, <3>2
  <2>7. QED
    BY <2>4, <2>5, <2>6 DEF Shape
<1>2. CASE WriteFails
  <2>1. kind # 0 /\ Fail /\ UNCHANGED <<test, given, result, sheet, row>> /\ failed' # 0
    BY <1>2 DEF WriteFails, Fail
  <2>2. File \in FileNames /\ Name(Current, ChartBy) \in ChartNames
    BY <2>1, Handling
  <2>3. Files'
    BY <1>0, <1>2, <2>2, FailureSteps, Writing, Drawing
  <2>4. Received' /\ Place'
    BY <1>0, <2>1, SameReceived, FailPlace
  <2>5. Sheets'
    BY <2>1, SheetsStay
  <2>6. QED
    BY <2>3, <2>4, <2>5 DEF Shape
<1>3. CASE GoChartDo
  <2>1. /\ kind # 0 /\ Done /\ UNCHANGED <<test, given, result, failed, sheet, row, opened>>
        /\ Draws(Name(Current, ChartBy), Rows(Current))
    BY <1>3 DEF GoChartDo, Doing, Draws
  <2>2. Name(Current, ChartBy) \in ChartNames
    BY <2>1, Handling
  <2>3. Files' /\ \A p \in FileOutputs : disk'[p] = disk[p]
    BY <1>0, <2>1, <2>2, Drawing
  <2>4. Received' /\ Place'
    BY <1>0, <2>1, SameReceived, DonePlace
  <2>5. Sheets'
    BY <1>0, <2>1, <2>3, SheetsStay
  <2>6. QED
    BY <2>3, <2>4, <2>5 DEF Shape
<1>4. CASE NextTest
  <2>1. result' = <<>> /\ result' \in Seq(Results) /\ Len(result') = 0
    BY <1>4, EmptySeq DEF NextTest
  <2>2. \A k \in DOMAIN result' : FALSE
    BY <2>1
  <2>3. Received'
    BY <2>1, <2>2 DEF Received
  <2>4. Files'
    BY <1>0, <1>4 DEF NextTest, Files
  <2>5. test' \in 1..NTests
    BY <1>0, <1>4, FilesAssumption DEF NextTest, Place
  <2>6. Len(kinds) \in Nat
    BY <1>0, LenProperties DEF Place
  <2>7. Place'
    BY <1>0, <1>4, <2>5, <2>6 DEF NextTest, Place, given
  <2>8. Sheets'
    <3>1. opened'["excelize"] = {}
      BY <1>0, <1>4 DEF NextTest
    <3>2. QED
      BY <1>4, <3>1 DEF NextTest, Sheets
  <2>9. QED
    BY <2>3, <2>4, <2>7, <2>8 DEF Shape
<1>5. CASE DoFails /\ UNCHANGED <<test, given, result, doVars, full, crashed>>
  <2>1. Fail /\ failed' # 0 /\ UNCHANGED <<opened, disk, sheet, row>>
    BY <1>5 DEF DoFails, Fail, doVars
  <2>2. Files' /\ Received' /\ Place'
    BY <1>0, <1>5, <2>1, FailPlace DEF Files, Received
  <2>3. QED
    BY <2>1, <2>2, SheetsStay DEF Shape
<1>6. ASSUME NEW r \in Results, Receive(r)
      PROVE  Shape' /\ Sheets'
  <2>1. Received' /\ result' # <<>>
    BY <1>6, Receiving
  <2>2. /\ kind' = 1 /\ failed = 0 /\ UNCHANGED <<test, given, failed, opened, disk, sheet, row>>
    BY <1>6 DEF Receive, doVars
  <2>3. Len(kinds) \in Nat \ {0}
    BY <1>0, EmptySeq DEF Place
  <2>4. Place'
    BY <1>0, <2>1, <2>2, <2>3 DEF Place, given
  <2>5. Files'
    BY <1>0, <2>2 DEF Files
  <2>6. Sheets'
    BY <2>2, SheetsStay
  <2>7. QED
    BY <2>1, <2>4, <2>5, <2>6 DEF Shape
<1>7. CASE UNCHANGED <<test, given, result, kind, failed, doVars>>
  <2>1. Shape'
    BY <1>7 DEF Shape, Files, Received, Place, given, doVars
  <2>2. QED
    BY <1>7, <2>1, SheetsStay DEF doVars
<1>8. QED
  BY <1>1, <1>2, <1>3, <1>4, <1>5, <1>6, <1>7, OtherSteps

LEMMA AlwaysShape == Spec => [](Shape /\ Sheets)
BY InitShape, NextShape, PTL DEF Spec


-----------------------------------------------------------------------------
(* Old files                                                               *)

\* Files whose name has a start other than that of the running test.
Old(n) == "start" \in DOMAIN n /\ n.start # started[test]

LEMMA NamedToday ==
  ASSUME Shape, kind # 0, NEW by
  PROVE  ~Old(Name(Current, by))
<1>1. Current.test = test
  BY Handling
<1>2. DOMAIN Name(Current, by) = by
  BY DEF Name
<1>3. "start" \in by => Name(Current, by)["start"] = started[test]
  BY <1>1 DEF Name
<1>4. QED
  BY <1>2, <1>3 DEF Old

LEMMA OldStays ==
  ASSUME Shape, Sheets, [Next]_vars, NEW o \in DOMAIN disk, NEW n \in DOMAIN disk[o], Old(n)
  PROVE  disk'[o][n] = disk[o][n]
<1>1. /\ Files /\ o \in Outputs /\ (o \in FileOutputs \/ o = "gochart")
      /\ o \in FileOutputs => n \in FileNames
      /\ o = "gochart" => n \in ChartNames
      /\ "gochart" \notin FileOutputs
  BY DEF Shape, Files, Outputs, FileOutputs
<1>2. ASSUME kind # 0, NEW p \in FileOutputs, NEW lines \in Seq(Cells), Writes(p, File, lines)
      PROVE  disk'[o][n] = disk[o][n]
  <2>1. File \in FileNames /\ n # File
    BY <1>2, Handling, NamedToday DEF File
  <2>2. /\ \A q \in Outputs : q # p => disk'[q] = disk[q]
        /\ \A m \in FileNames : m # File => disk'[p][m] = disk[p][m]
    BY <1>1, <1>2, <2>1, Writing
  <2>3. QED
    BY <1>1, <1>2, <2>1, <2>2
<1>3. ASSUME kind # 0, NEW lines, Draws(Name(Current, ChartBy), lines)
      PROVE  disk'[o][n] = disk[o][n]
  <2>1. Name(Current, ChartBy) \in ChartNames /\ n # Name(Current, ChartBy)
    BY <1>3, Handling, NamedToday
  <2>2. /\ \A q \in FileOutputs : disk'[q] = disk[q]
        /\ \A m \in ChartNames : m # Name(Current, ChartBy) => disk'["gochart"][m] = disk["gochart"][m]
    BY <1>1, <1>3, <2>1, Drawing
  <2>3. QED
    BY <1>1, <2>1, <2>2
<1>4. CASE CSVDo \/ CSVFlushFails \/ DumpDo \/ ExcelizeDo
  <2>1. PICK p \in FileOutputs, lines \in Seq(Cells) : Finished(p) /\ Writes(p, File, lines)
    BY <1>4, FileSteps
  <2>2. QED
    BY <1>2, <2>1 DEF Finished, Doing
<1>5. CASE WriteFails
  <2>1. kind # 0
    BY <1>5 DEF WriteFails, Fail
  <2>2. QED
    BY <1>2, <1>3, <1>5, <2>1, FailureSteps
<1>6. CASE GoChartDo
  <2>1. kind # 0 /\ Draws(Name(Current, ChartBy), Rows(Current))
    BY <1>6 DEF GoChartDo, Doing, Draws
  <2>2. QED
    BY <1>3, <2>1
<1>7. CASE UNCHANGED disk
  BY <1>7
<1>8. QED
  <2>1. NextTest => UNCHANGED disk
    BY DEF NextTest
  <2>2. UNCHANGED doVars => UNCHANGED disk
    BY DEF doVars
  <2>3. QED
    BY <1>4, <1>5, <1>6, <1>7, <2>1, <2>2, OtherSteps

(***************************************************************************)
(* With the start of the test in the pattern, whatever the other fields of *)
(* the pattern and the outputs of the tests are: no step changes a file of *)
(* a test that started in another second, not even when writes fail.       *)
(***************************************************************************)
THEOREM KeepsOldFiles == Spec => OldFilesUntouched
<1>1. Shape /\ Sheets /\ [Next]_vars =>
        [\A o \in DOMAIN disk : \A n \in DOMAIN disk[o] :
           "start" \in DOMAIN n /\ n.start # started[test] => disk'[o][n] = disk[o][n]]_vars
  BY OldStays DEF Old
<1>2. QED
  BY <1>1, AlwaysShape, PTL DEF Spec, OldFilesUntouched


-----------------------------------------------------------------------------
(* Every result is kept                                                    *)

\* Do of the output at place p has had result k.
Taken(k, p) == k < Len(result) \/ kind = 0 \/ p < kind

Holds(o, r) ==
  /\ Name(r, FileBy) \in opened[o]
  /\ \E i \in DOMAIN disk[o][Name(r, FileBy)] : disk[o][Name(r, FileBy)][i] = Line(r, NRows)

\* The csv file has lost result k, and no later one has gone to it.
Torn(k, p) ==
  /\ Name(result[k], FileBy) \in broken
  /\ \A l \in DOMAIN result :
       l > k /\ Name(result[l], FileBy) = Name(result[k], FileBy) => ~Taken(l, p)

Drawn(r) ==
  {"round", "pair"} \subseteq ChartBy => disk["gochart"][Name(r, ChartBy)] = Rows(r)

Stored(k, p) ==
  /\ kinds[p] \in {"dump", "excelize"} => Holds(kinds[p], result[k])
  /\ kinds[p] = "csv" => Holds("csv", result[k]) \/ Torn(k, p)
  /\ kinds[p] = "gochart" => Drawn(result[k])

\* As long as no output has failed, what was taken is stored.
AllStored ==
  failed = 0 =>
    \A k \in DOMAIN result, p \in DOMAIN kinds : Taken(k, p) => Stored(k, p)

LEMMA SameNames ==
  ASSUME UNCHANGED started
  PROVE  \A r, by : Name(r, by)' = Name(r, by)
BY DEF Name

(* Files that only grow keep what they hold.                               *)
LEMMA HoldsOn ==
  ASSUME Files, UNCHANGED started, NEW o \in FileOutputs, NEW r, Holds(o, r),
         \A n \in opened[o] : n \in opened'[o] /\ Prolongs(disk'[o][n], disk[o][n]), Files'
  PROVE  Holds(o, r)'
<1> DEFINE n == Name(r, FileBy)
<1>1. Name(r, FileBy)' = n
  BY SameNames
<1>2. n \in opened[o] /\ n \in opened'[o] /\ Prolongs(disk'[o][n], disk[o][n])
  BY DEF Holds
<1>3. n \in FileNames
  BY <1>2 DEF Files
<1> HIDE DEF n
<1>4. disk[o][n] \in Seq(Cells) /\ disk'[o][n] \in Seq(Cells)
  BY <1>3 DEF Files
<1>5. /\ DOMAIN disk[o][n] = 1..Len(disk[o][n]) /\ DOMAIN disk'[o][n] = 1..Len(disk'[o][n])
      /\ Len(disk[o][n]) \in Nat /\ Len(disk'[o][n]) \in Nat
  BY <1>4, LenProperties
<1>6. PICK i \in DOMAIN disk[o][n] : disk[o][n][i] = Line(r, NRows)
  BY DEF Holds, n
<1>7. i \in DOMAIN disk'[o][n] /\ disk'[o][n][i] = Line(r, NRows)
  BY <1>2, <1>5, <1>6 DEF Prolongs
<1>8. QED
  BY <1>1, <1>2, <1>7 DEF Holds

LEMMA LinesKept ==
  ASSUME NEW lines \in Seq(Cells)
  PROVE  Prolongs(lines, lines)
BY LenProperties DEF Prolongs

(* The result at hand is taken by one output after the other.              *)
LEMMA Taking ==
  ASSUME Shape, kind # 0, Done, UNCHANGED <<given, result>>,
         NEW k \in DOMAIN result, NEW p \in DOMAIN kinds
  PROVE  /\ Taken(k, p)' <=> Taken(k, p) \/ (k = Len(result) /\ p = kind)
         /\ DOMAIN result' = DOMAIN result /\ DOMAIN kinds' = DOMAIN kinds
<1>1. /\ kinds \in Seq(Outputs) /\ result \in Seq(Results) /\ kind \in 0..Len(kinds)
      /\ kinds' = kinds
  BY DEF Shape, Place, Received, given
<1>2. /\ k \in 1..Len(result) /\ p \in 1..Len(kinds)
      /\ Len(result) \in Nat /\ Len(kinds) \in Nat /\ kind \in 1..Len(kinds)
  BY <1>1, LenProperties
<1>3. CASE kind < Len(kinds)
  <2>1. kind' = kind + 1
    BY <1>3 DEF Done
  <2>2. QED
    BY <1>1, <1>2, <1>3, <2>1 DEF Taken
<1>4. CASE ~(kind < Len(kinds))
  <2>1. kind' = 0 /\ kind = Len(kinds)
    BY <1>2, <1>4 DEF Done
  <2>2. QED
    BY <1>1, <1>2, <1>4, <2>1 DEF Taken
<1>5. QED
  BY <1>3, <1>4

(* Results of one test that agree on round and pair are one result.        *)
LEMMA NamesTellApart ==
  ASSUME NEW r \in Results, NEW s \in Results, r.test = s.test,
         {"round", "pair"} \subseteq ChartBy, Name(r, ChartBy) = Name(s, ChartBy)
  PROVE  r = s
<1>1. "round" \in ChartBy /\ "pair" \in ChartBy
  OBVIOUS
<1>2. /\ Name(r, ChartBy)["round"] = r["round"] /\ Name(s, ChartBy)["round"] = s["round"]
      /\ Name(r, ChartBy)["pair"] = r["pair"] /\ Name(s, ChartBy)["pair"] = s["pair"]
  BY <1>1 DEF Name
<1>3. r["round"] = s["round"] /\ r["pair"] = s["pair"]
  BY <1>2
<1>4. QED
  BY <1>3 DEF Results

(* What a step of a file output makes of the files.                        *)
LEMMA FilesGrow ==
  ASSUME Shape, kind # 0, NEW o \in FileOutputs, NEW lines \in Seq(Cells),
         Writes(o, File, lines), Prolongs(lines, Kept(o)), Files'
  PROVE  \A q \in FileOutputs : \A n \in opened[q] :
           n \in opened'[q] /\ Prolongs(disk'[q][n], disk[q][n])
<1>1. Files /\ File \in FileNames
  BY Handling DEF Shape
<1>2. /\ disk'[o][File] = lines /\ opened'[o] = opened[o] \union {File}
      /\ \A p \in Outputs : p # o => disk'[p] = disk[p]
      /\ \A p \in FileOutputs : p # o => opened'[p] = opened[p]
      /\ \A m \in FileNames : m # File => disk'[o][m] = disk[o][m]
  BY <1>1, Writing
<1>3. ASSUME NEW q \in FileOutputs, NEW n \in opened[q]
      PROVE  n \in opened'[q] /\ Prolongs(disk'[q][n], disk[q][n])
  <2>1. n \in FileNames /\ q \in Outputs
    BY <1>1, <1>3 DEF Files, Outputs
  <2>2. disk[q][n] \in Seq(Cells)
    BY <1>1, <2>1 DEF Files
  <2>3. Prolongs(disk[q][n], disk[q][n])
    BY <2>2, LinesKept
  <2>4. CASE q = o /\ n = File
    <3>1. Kept(o) = disk[q][n]
      BY <1>3, <2>4 DEF Kept
    <3>2. QED
      BY <1>2, <2>4, <3>1
  <2>5. CASE ~(q = o /\ n = File)
    <3>1. disk'[q][n] = disk[q][n]
      BY <1>2, <2>1, <2>5
    <3>2. n \in opened'[q]
      BY <1>2, <1>3
    <3>3. QED
      BY <2>3, <3>1, <3>2
  <2>6. QED
    BY <2>4, <2>5
<1>4. QED
  BY <1>3

(* A file output stores the result at hand and loses no other.             *)
LEMMA FileStores ==
  ASSUME Shape, Sheets, Shape', AllStored, CSVDo \/ CSVFlushFails \/ DumpDo \/ ExcelizeDo
  PROVE  AllStored'
<1>1. PICK o \in FileOutputs, lines \in Seq(Cells) :
        /\ Finished(o) /\ Writes(o, File, lines) /\ Prolongs(lines, Kept(o))
        /\ HasResult(lines, Current) \/ CSVFlushFails
  BY FileSteps
<1>2. /\ kind # 0 /\ kinds[kind] = o /\ Done /\ failed = 0
      /\ UNCHANGED <<test, given, result, failed>> /\ UNCHANGED started /\ UNCHANGED kinds
  BY <1>1 DEF Finished, Doing, Shape, Place, given
<1>3. /\ Files /\ Files' /\ o \in Outputs /\ FileOutputs = {"csv", "dump", "excelize"}
      /\ File \in FileNames /\ Current = result[Len(result)]
      /\ result \in Seq(Results) /\ kinds \in Seq(Outputs)
  BY <1>2, Handling DEF Shape, Outputs, FileOutputs, Received, Place
<1>4. /\ disk'[o][File] = lines /\ opened'[o] = opened[o] \union {File}
      /\ \A p \in Outputs : p # o => disk'[p] = disk[p]
  <2>1. Files /\ File \in FileNames /\ Writes(o, File, lines)
    BY <1>1, <1>3
  <2>2. QED
    BY <2>1, Writing
<1>5. \A q \in FileOutputs : \A n \in opened[q] :
        n \in opened'[q] /\ Prolongs(disk'[q][n], disk[q][n])
  BY <1>1, <1>2, <1>3, FilesGrow
<1>6. \A q \in FileOutputs : \A r : Holds(q, r) => Holds(q, r)'
  BY <1>2, <1>3, <1>5, HoldsOn
<1>7. \A r, by : Name(r, by)' = Name(r, by)
  BY <1>2, SameNames
<1>8. \A k : result'[k] = result[k]
  BY <1>2
<1>9. \A k \in DOMAIN result, p \in DOMAIN kinds :
        Taken(k, p)' <=> Taken(k, p) \/ (k = Len(result) /\ p = kind)
  BY <1>2, Taking DEF Shape
<1>10. broken \subseteq broken' /\ (o = "csv" => File \notin broken)
  BY <1>1, <1>2 DEF CSVDo, CSVFlushFails, DumpDo, ExcelizeDo, Doing
<1>11. "gochart" \in Outputs /\ "gochart" \notin FileOutputs
  BY DEF Outputs, FileOutputs
<1>12. ASSUME NEW r, Drawn(r) PROVE Drawn(r)'
  <2>1. disk'["gochart"] = disk["gochart"] /\ Name(r, ChartBy)' = Name(r, ChartBy)
    BY <1>4, <1>7, <1>11
  <2>2. QED
    BY <1>12, <2>1 DEF Drawn
<1>13. ASSUME NEW k \in DOMAIN result, NEW p \in DOMAIN kinds, Taken(k, p)
       PROVE  Stored(k, p)'
  <2>1. Stored(k, p)
    BY <1>2, <1>13 DEF AllStored
  <2>2. ASSUME kinds[p] = "csv", Torn(k, p) PROVE Torn(k, p)'
    <3>1. ASSUME NEW l \in DOMAIN result, l > k,
                 Name(result[l], FileBy) = Name(result[k], FileBy)
          PROVE  ~Taken(l, p)'
      <4>1. ~Taken(l, p) /\ Name(result[l], FileBy) \in broken
        BY <2>2, <3>1 DEF Torn
      <4>2. l = Len(result) => Name(result[l], FileBy) = File
        BY <1>3 DEF File
      <4>3. p = kind => File \notin broken
        BY <1>2, <1>10, <2>2
      <4>4. QED
        BY <1>9, <4>1, <4>2, <4>3
    <3>2. Name(result[k], FileBy) \in broken'
      BY <1>10, <2>2 DEF Torn
    <3>3. /\ DOMAIN result' = DOMAIN result
          /\ \A l : Name(result[l], FileBy)' = Name(result[l], FileBy)
      BY <1>2, <1>7
    <3>4. QED
      BY <3>1, <3>2, <3>3 DEF Torn
  <2>3. /\ Holds(kinds[p], result[k]) => Holds(kinds[p], result[k])' \/ kinds[p] \notin FileOutputs
        /\ Holds("csv", result[k]) => Holds("csv", result[k])'
        /\ Drawn(result[k]) => Drawn(result[k])'
    <3>1. kinds' = kinds /\ result' = result
      BY <1>2
    <3>2. "csv" \in FileOutputs
      BY <1>3
    <3>3. QED
      BY <1>6, <1>12, <3>1, <3>2
  <2>4. kinds'[p] = kinds[p] /\ "dump" \in FileOutputs /\ "excelize" \in FileOutputs
    BY <1>2, <1>3
  <2>5. QED
    BY <2>1, <2>2, <2>3, <2>4 DEF Stored
<1>14. PICK last \in DOMAIN result, q \in DOMAIN kinds, r \in Results :
         last = Len(result) /\ q = kind /\ r = Current
  <2>1. Len(result) \in DOMAIN result /\ Current \in Results
    BY <1>2, Handling
  <2>2. kind \in DOMAIN kinds
    BY <1>2, <1>3, LenProperties DEF Shape, Place
  <2>3. QED
    BY <2>1, <2>2
<1>15. /\ result'[last] = r /\ kinds'[q] = o /\ o # "gochart" /\ o \in FileOutputs
       /\ Name(r, FileBy)' = File
  <2>1. Name(r, FileBy)' = Name(r, FileBy)
    BY <1>7
  <2>2. QED
    BY <1>2, <1>3, <1>14, <2>1 DEF File
<1>16. Stored(last, q)'
  <2>1. CASE HasResult(lines, Current)
    <3>1. /\ Len(lines) \in DOMAIN disk'[o][File]
          /\ disk'[o][File][Len(lines)] = Line(r, NRows)
          /\ File \in opened'[o]
      BY <1>4, <1>14, <2>1 DEF HasResult
    <3>2. Holds(o, r)'
      BY <1>15, <3>1 DEF Holds
    <3>3. QED
      BY <1>15, <3>2 DEF Stored
  <2>2. CASE CSVFlushFails
    <3>1. o = "csv" /\ File \in broken'
      BY <1>2, <2>2 DEF CSVFlushFails, Doing
    <3>2. \A l \in DOMAIN result' : ~(l > last)
      BY <1>2, <1>3, <1>14, LenProperties
    <3>3. Torn(last, q)'
      BY <1>15, <3>1, <3>2 DEF Torn
    <3>4. QED
      BY <1>15, <3>1, <3>3 DEF Stored
  <2>3. QED
    BY <1>1, <2>1, <2>2
<1>17. ASSUME NEW k \in DOMAIN result', NEW p \in DOMAIN kinds', Taken(k, p)'
       PROVE  Stored(k, p)'
  <2>1. k \in DOMAIN result /\ p \in DOMAIN kinds
    BY <1>2
  <2>2. Taken(k, p) \/ (k = last /\ p = q)
    BY <1>9, <1>14, <1>17, <2>1
  <2>3. QED
    BY <1>13, <1>16, <2>1, <2>2
<1>18. QED
  BY <1>17 DEF AllStored


(* A chart replaces no chart of another result of the test.                *)
LEMMA ChartStores ==
  ASSUME Shape, AllStored, GoChartDo
  PROVE  AllStored'
<1>1. /\ kind # 0 /\ kinds[kind] = "gochart" /\ Done /\ failed = 0
      /\ Draws(Name(Current, ChartBy), Rows(Current))
      /\ UNCHANGED <<test, given, result, failed, opened, broken>>
      /\ UNCHANGED started /\ UNCHANGED kinds
  BY DEF GoChartDo, Doing, Draws, Shape, Place, given
<1>2. /\ Files /\ Current \in Results /\ Current = result[Len(result)]
      /\ Name(Current, ChartBy) \in ChartNames /\ Current.test = test
      /\ "csv" \in FileOutputs /\ "dump" \in FileOutputs /\ "excelize" \in FileOutputs
      /\ result \in Seq(Results) /\ kinds \in Seq(Outputs)
  BY <1>1, Handling DEF Shape, FileOutputs, Received, Place
<1>3. /\ disk'["gochart"][Name(Current, ChartBy)] = Rows(Current)
      /\ \A p \in FileOutputs : disk'[p] = disk[p]
      /\ \A m \in ChartNames : m # Name(Current, ChartBy) => disk'["gochart"][m] = disk["gochart"][m]
  <2>1. Files /\ Name(Current, ChartBy) \in ChartNames /\ Draws(Name(Current, ChartBy), Rows(Current))
    BY <1>1, <1>2
  <2>2. QED
    BY <2>1, Drawing
<1>4. \A r, by : Name(r, by)' = Name(r, by)
  BY <1>1, SameNames
<1>5. ASSUME NEW q \in FileOutputs, NEW r, Holds(q, r) PROVE Holds(q, r)'
  <2>1. disk'[q] = disk[q] /\ opened'[q] = opened[q] /\ Name(r, FileBy)' = Name(r, FileBy)
    BY <1>1, <1>3, <1>4
  <2>2. QED
    BY <1>5, <2>1 DEF Holds
<1>6. \A k \in DOMAIN result, p \in DOMAIN kinds :
        Taken(k, p)' <=> Taken(k, p) \/ (k = Len(result) /\ p = kind)
  BY <1>1, Taking DEF Shape
<1>7. ASSUME NEW r \in Results, r.test = test, Drawn(r) \/ r = Current PROVE Drawn(r)'
  <2>1. SUFFICES ASSUME {"round", "pair"} \subseteq ChartBy
                 PROVE  disk'["gochart"][Name(r, ChartBy)] = Rows(r)
    <3>1. Name(r, ChartBy)' = Name(r, ChartBy)
      BY <1>4
    <3>2. QED
      BY <3>1 DEF Drawn
  <2>2. CASE Name(r, ChartBy) = Name(Current, ChartBy)
    <3>1. r = Current
      BY <1>2, <1>7, <2>1, <2>2, NamesTellApart
    <3>2. QED
      BY <1>3, <3>1
  <2>3. CASE Name(r, ChartBy) # Name(Current, ChartBy)
    <3>1. Name(r, ChartBy) \in ChartNames
      BY <1>7, Named DEF Shape
    <3>2. r # Current
      BY <2>3
    <3>3. QED
      BY <1>3, <1>7, <2>1, <2>3, <3>1, <3>2 DEF Drawn
  <2>4. QED
    BY <2>2, <2>3
<1>8. ASSUME NEW k \in DOMAIN result, NEW p \in DOMAIN kinds, Taken(k, p)'
      PROVE  Stored(k, p)'
  <2>1. /\ result[k] \in Results /\ result[k].test = test
        /\ result'[k] = result[k] /\ kinds'[p] = kinds[p]
    BY <1>1, <1>2 DEF Shape, Received
  <2>2. CASE k = Len(result) /\ p = kind
    <3>1. result[k] = Current /\ kinds[p] = "gochart"
      BY <1>1, <1>2, <2>2
    <3>2. Drawn(result[k])'
      <4>1. PICK r \in Results : r = result[k]
        BY <2>1
      <4>2. Drawn(r)'
        BY <1>7, <2>1, <3>1, <4>1
      <4>3. QED
        BY <1>1, <4>1, <4>2
    <3>3. QED
      BY <2>1, <3>1, <3>2 DEF Stored
  <2>3. CASE Taken(k, p) /\ ~(k = Len(result) /\ p = kind)
    <3>1. Stored(k, p)
      BY <1>1, <2>3 DEF AllStored
    <3>2. PICK r \in Results : r = result[k] /\ r = result'[k]
      BY <2>1
    <3>3. /\ Holds(kinds[p], r) /\ kinds[p] \in FileOutputs => Holds(kinds[p], r)'
          /\ Drawn(r) => Drawn(r)'
      <4>1. kinds' = kinds
        BY <1>1
      <4>2. QED
        BY <1>5, <1>7, <2>1, <3>2, <4>1
    <3>4. ASSUME kinds[p] = "csv", Torn(k, p) PROVE Torn(k, p)'
      <4>1. /\ DOMAIN result' = DOMAIN result /\ broken' = broken
            /\ \A l : Name(result[l], FileBy)' = Name(result[l], FileBy)
        BY <1>1, <1>4
      <4>2. \A l \in DOMAIN result : Taken(l, p)' <=> Taken(l, p)
        BY <1>1, <1>6, <3>4
      <4>3. QED
        BY <3>4, <4>1, <4>2 DEF Torn
    <3>5. /\ Holds("csv", r) => Holds("csv", r)'
          /\ kinds[p] \in {"dump", "excelize"} => kinds[p] \in FileOutputs
      BY <1>2, <1>5
    <3>6. QED
      BY <2>1, <3>1, <3>2, <3>3, <3>4, <3>5 DEF Stored
  <2>4. QED
    BY <1>6, <1>8, <2>2, <2>3
<1>9. DOMAIN result' = DOMAIN result /\ DOMAIN kinds' = DOMAIN kinds
  BY <1>1
<1>10. QED
  BY <1>8, <1>9 DEF AllStored

(* The new result is not taken yet, all others are.                        *)
LEMMA ReceiveStores ==
  ASSUME Shape, AllStored, NEW r \in Results, Receive(r)
  PROVE  AllStored'
<1>1. /\ kind = 0 /\ kind' = 1 /\ failed = 0 /\ failed' = 0
      /\ UNCHANGED <<started, kinds, opened, disk, broken>>
  BY DEF Receive, given, doVars
<1>2. /\ Len(result') = Len(result) + 1 /\ Len(result) \in Nat
      /\ \A k \in 1..Len(result) : result'[k] = result[k]
  BY Receiving
<1>3. DOMAIN result = 1..Len(result) /\ DOMAIN result' = 1..Len(result')
  BY Receiving, LenProperties DEF Shape, Received
<1>4. \A q, by : Name(q, by)' = Name(q, by)
  BY <1>1, SameNames
<1>5. DOMAIN kinds = 1..Len(kinds) /\ Len(kinds) \in Nat
  BY LenProperties DEF Shape, Place
<1>6. \A k \in DOMAIN result', p \in DOMAIN kinds : Taken(k, p)' <=> k < Len(result')
  BY <1>1, <1>2, <1>3, <1>5 DEF Taken
<1>7. ASSUME NEW k \in DOMAIN result', NEW p \in DOMAIN kinds', Taken(k, p)'
      PROVE  Stored(k, p)'
  <2>1. k \in DOMAIN result /\ p \in DOMAIN kinds /\ result'[k] = result[k] /\ kinds'[p] = kinds[p]
    BY <1>1, <1>2, <1>3, <1>6, <1>7
  <2>2. Taken(k, p) /\ \A l \in DOMAIN result : Taken(l, p)
    BY <1>1 DEF Taken
  <2>3. Stored(k, p)
    BY <1>1, <2>1, <2>2 DEF AllStored
  <2>4. \A o, q : Holds(o, q)' <=> Holds(o, q)
    BY <1>1, <1>4 DEF Holds
  <2>5. \A q : Drawn(q)' <=> Drawn(q)
    BY <1>1, <1>4 DEF Drawn
  <2>6. PICK q : q = result[k] /\ q = result'[k]
    BY <2>1
  <2>7. ASSUME Torn(k, p) PROVE Torn(k, p)'
    <3>1. Name(result[k], FileBy)' = Name(q, FileBy) /\ Name(q, FileBy) \in broken'
      BY <1>1, <1>4, <2>6, <2>7 DEF Torn
    <3>2. ASSUME NEW l \in DOMAIN result', l > k, Name(result[l], FileBy)' = Name(q, FileBy)
          PROVE  ~Taken(l, p)'
      <4>1. CASE l \in DOMAIN result
        <5>1. result'[l] = result[l]
          BY <1>2, <1>3, <4>1
        <5>2. PICK s : s = result[l] /\ s = result'[l]
          BY <5>1
        <5>3. Name(result[l], FileBy) = Name(result[k], FileBy)
          BY <1>4, <2>6, <3>2, <5>2
        <5>4. QED
          BY <2>2, <2>7, <3>2, <4>1, <5>3 DEF Torn
      <4>2. CASE l \notin DOMAIN result
        <5>1. l = Len(result')
          BY <1>2, <1>3, <4>2
        <5>2. ~(l < Len(result'))
          BY <1>2, <5>1
        <5>3. QED
          BY <1>6, <2>1, <3>2, <5>2
      <4>3. QED
        BY <4>1, <4>2
    <3>3. QED
      BY <3>1, <3>2 DEF Torn
  <2>8. QED
    BY <2>1, <2>3, <2>4, <2>5, <2>6, <2>7 DEF Stored
<1>8. QED
  BY <1>7 DEF AllStored

LEMMA InitStored == Init => AllStored
<1> SUFFICES ASSUME Init PROVE AllStored
  OBVIOUS
<1>1. \A k \in DOMAIN result : FALSE
  BY EmptySeq DEF Init
<1>2. QED
  BY <1>1 DEF AllStored

LEMMA NextStored == Shape /\ Shape' /\ Sheets /\ AllStored /\ [Next]_vars => AllStored'
<1> SUFFICES ASSUME Shape, Shape', Sheets, AllStored, [Next]_vars PROVE AllStored'
  OBVIOUS
<1>1. CASE CSVDo \/ CSVFlushFails \/ DumpDo \/ ExcelizeDo
  BY <1>1, FileStores
<1>2. CASE GoChartDo
  BY <1>2, ChartStores
<1>3. ASSUME NEW r \in Results, Receive(r) PROVE AllStored'
  BY <1>3, ReceiveStores
<1>4. CASE WriteFails \/ DoFails
  <2>1. failed' # 0
    BY <1>4 DEF WriteFails, DoFails, Fail
  <2>2. QED
    BY <2>1 DEF AllStored
<1>5. CASE NextTest
  <2>1. \A k \in DOMAIN result' : FALSE
    BY <1>5, EmptySeq DEF NextTest
  <2>2. QED
    BY <2>1 DEF AllStored
<1>6. CASE UNCHANGED <<test, given, result, kind, failed, doVars>>
  <2>1. UNCHANGED <<started, kinds, result, kind, failed, opened, disk, broken>>
    BY <1>6 DEF given, doVars
  <2>2. \A r, by : Name(r, by)' = Name(r, by)
    BY <2>1, SameNames
  <2>3. \A o, r : (Holds(o, r)' <=> Holds(o, r)) /\ (Drawn(r)' <=> Drawn(r))
    BY <2>1, <2>2 DEF Holds, Drawn
  <2>4. \A k, p : Taken(k, p)' <=> Taken(k, p)
    BY <2>1 DEF Taken
  <2>5. \A k : Name(result[k], FileBy)' = Name(result[k], FileBy)
    BY <2>1, <2>2
  <2>6. \A k, p : Torn(k, p)' <=> Torn(k, p)
    BY <2>1, <2>4, <2>5 DEF Torn
  <2>7. \A k, p : Stored(k, p)' <=> Stored(k, p)
    BY <2>1, <2>3, <2>6 DEF Stored
  <2>8. QED
    BY <2>1, <2>4, <2>7 DEF AllStored
<1>7. QED
  BY <1>1, <1>2, <1>3, <1>4, <1>5, <1>6, OtherSteps

LEMMA StoredIsKept == Shape /\ AllStored => EveryResultKept
<1> SUFFICES ASSUME Shape, AllStored, kind = 0, failed = 0, NEW k \in DOMAIN result
             PROVE  /\ \A o \in Range(kinds) \intersect {"dump", "excelize"} : OnDisk(o, result[k])
                    /\ "csv" \in Range(kinds) =>
                         OnDisk("csv", result[k])
                           \/ (Name(result[k], FileBy) \in broken /\ LastOfItsFile(k))
                    /\ {"round", "pair"} \subseteq ChartBy /\ "gochart" \in Range(kinds) =>
                         OnDisk("gochart", result[k])
  BY DEF EveryResultKept
<1>1. \A o \in Range(kinds) : \E p \in DOMAIN kinds : kinds[p] = o
  BY DEF Range
<1>2. \A l \in DOMAIN result, p \in DOMAIN kinds : Taken(l, p) /\ Stored(l, p)
  BY DEF AllStored, Taken
<1>3. /\ Files /\ result[k] \in Results /\ DOMAIN result \subseteq Int
      /\ FileOutputs = {"csv", "dump", "excelize"}
  BY LenProperties DEF Shape, Received, FileOutputs
<1>4. ASSUME NEW o \in FileOutputs, Holds(o, result[k]) PROVE OnDisk(o, result[k])
  <2>1. Name(result[k], FileBy) \in DOMAIN disk[o]
    BY <1>3, <1>4 DEF Holds, Files
  <2>2. QED
    BY <1>4, <2>1 DEF Holds, OnDisk
<1>5. ASSUME NEW p \in DOMAIN kinds, Torn(k, p)
      PROVE  Name(result[k], FileBy) \in broken /\ LastOfItsFile(k)
  BY <1>2, <1>3, <1>5 DEF Torn, LastOfItsFile
<1>6. ASSUME {"round", "pair"} \subseteq ChartBy, Drawn(result[k])
      PROVE  OnDisk("gochart", result[k])
  <2>1. disk["gochart"][Name(result[k], ChartBy)] = Rows(result[k])
    BY <1>6 DEF Drawn
  <2>2. Name(result[k], ChartBy) \in DOMAIN disk["gochart"]
    BY <1>3, Named DEF Shape, Files
  <2>3. HasResult(Rows(result[k]), result[k])
    BY <1>3, RowsHaveResult
  <2>4. QED
    BY <2>1, <2>2, <2>3 DEF OnDisk, HasResult
<1>7. QED
  BY <1>1, <1>2, <1>3, <1>4, <1>5, <1>6 DEF Stored

(***************************************************************************)
(* For every list of outputs, also one that names an output twice: what no *)
(* output reported as failed is on the disk, but for the last result of a  *)
(* csv file whose Flush has failed since, and for charts whose names do    *)
(* not tell the results apart.                                             *)
(***************************************************************************)
THEOREM KeepsEveryResult == Spec => []EveryResultKept
<1>1. Spec => []AllStored
  BY InitStored, NextStored, AlwaysShape, PTL DEF Spec
<1>2. QED
  BY <1>1, AlwaysShape, StoredIsKept, PTL


-----------------------------------------------------------------------------
(* Complete tables                                                         *)

\* No two outputs of a test have the same name.
Distinct == \A p, q \in DOMAIN kinds : kinds[p] = kinds[q] => p = q

OpenedByOutputs == \A o \in FileOutputs : opened[o] # {} => \E p \in DOMAIN kinds : kinds[p] = o

(* One result more makes a file longer by its rows or leaves it.           *)
LEMMA SizeStep ==
  ASSUME NEW n, NEW m \in Nat
  PROVE  /\ Size(n, m) \in Nat /\ Size(n, m) >= 1 /\ Size(n, m + 1) \in Nat
         /\ Name(result[m + 1], FileBy) = n => Size(n, m + 1) = Size(n, m) + NRows
         /\ Name(result[m + 1], FileBy) # n => Size(n, m + 1) = Size(n, m)
<1>1. /\ IsFiniteSet(1..m) /\ IsFiniteSet(Sharing(n, m)) /\ Cardinality(Sharing(n, m)) \in Nat
  <2>1. m \in Int /\ 1 \in Int
    OBVIOUS
  <2>2. IsFiniteSet(1..m)
    BY <2>1, FS_Interval
  <2>3. Sharing(n, m) \in SUBSET (1..m)
    BY DEF Sharing
  <2>4. QED
    BY <2>2, <2>3, FS_Subset, FS_CardinalityType
<1>2. NRows \in Nat
  BY FilesAssumption
<1>3. NRows * Cardinality(Sharing(n, m)) \in Nat
  BY <1>1, <1>2
<1>4. CASE Name(result[m + 1], FileBy) = n
  <2>1. Sharing(n, m + 1) = Sharing(n, m) \union {m + 1} /\ m + 1 \notin Sharing(n, m)
    BY <1>4 DEF Sharing
  <2>2. Cardinality(Sharing(n, m + 1)) = Cardinality(Sharing(n, m)) + 1
    BY <1>1, <2>1, FS_AddElement
  <2>3. NRows * (Cardinality(Sharing(n, m)) + 1) = NRows * Cardinality(Sharing(n, m)) + NRows
    BY <1>1, <1>2
  <2>4. Size(n, m + 1) = Size(n, m) + NRows
    BY <1>2, <1>3, <2>2, <2>3 DEF Size
  <2>5. QED
    BY <1>2, <1>3, <1>4, <2>4 DEF Size
<1>5. CASE Name(result[m + 1], FileBy) # n
  <2>1. Sharing(n, m + 1) = Sharing(n, m)
    BY <1>5 DEF Sharing
  <2>2. QED
    BY <1>3, <1>5, <2>1 DEF Size
<1>6. QED
  BY <1>4, <1>5

LEMMA Counts ==
  ASSUME NEW m \in Nat, NEW A, NEW B, A \subseteq B, B \subseteq 1..m
  PROVE  /\ 1 + NRows * Cardinality(A) <= 1 + NRows * Cardinality(B)
         /\ 1 + NRows * Cardinality(A) \in Nat /\ 1 + NRows * Cardinality(B) \in Nat
<1>1. IsFiniteSet(1..m) /\ A \in SUBSET B /\ B \in SUBSET (1..m)
  <2>1. m \in Int /\ 1 \in Int
    OBVIOUS
  <2>2. QED
    BY <2>1, FS_Interval
<1>2. IsFiniteSet(A) /\ IsFiniteSet(B) /\ Cardinality(A) <= Cardinality(B)
  BY <1>1, FS_Subset
<1>3. Cardinality(A) \in Nat /\ Cardinality(B) \in Nat
  BY <1>2, FS_CardinalityType
<1>4. \A a, b \in Nat : a <= b => NRows * a <= NRows * b /\ NRows * a \in Nat /\ NRows * b \in Nat
  BY FilesAssumption
<1>5. QED
  BY <1>2, <1>3, <1>4

LEMMA SizeGrows ==
  ASSUME NEW n, NEW l \in Nat, NEW m \in Nat, l <= m
  PROVE  Size(n, l) <= Size(n, m) /\ Size(n, l) \in Nat /\ Size(n, m) \in Nat
<1>1. Sharing(n, l) \subseteq Sharing(n, m) /\ Sharing(n, m) \subseteq 1..m
  BY DEF Sharing
<1>2. QED
  BY <1>1, Counts DEF Size

(* What a table is does not change while the results stay.                 *)
LEMMA SameTables ==
  ASSUME UNCHANGED <<result, started>>
  PROVE  \A s, n, m : /\ Size(n, m)' = Size(n, m)
                      /\ BeginsTable(s, n)' <=> BeginsTable(s, n)
                      /\ IsTable(s, n, m)' <=> IsTable(s, n, m)
<1>1. \A k : Name(result[k], FileBy)' = Name(result[k], FileBy)
  BY DEF Name
<1>2. \A n, m : Sharing(n, m)' = Sharing(n, m)
  BY <1>1 DEF Sharing
<1>3. \A n, m : Size(n, m)' = Size(n, m)
  BY <1>2 DEF Size
<1>4. \A s, n : BeginsTable(s, n)' <=> BeginsTable(s, n)
  BY <1>2, <1>3 DEF BeginsTable
<1>5. QED
  BY <1>3, <1>4 DEF IsTable

(* A part of the table from its beginning.                                 *)
LEMMA Shorter ==
  ASSUME Shape, NEW s \in Seq(Cells), NEW t \in Seq(Cells), NEW n,
         Prolongs(t, s), BeginsTable(t, n)
  PROVE  BeginsTable(s, n)
<1>1. /\ Len(s) \in Nat /\ Len(t) \in Nat /\ Len(s) <= Len(t)
      /\ \A i \in 1..Len(s) : t[i] = s[i]
  BY LenProperties DEF Prolongs
<1>2. Len(result) \in Nat
  BY LenProperties DEF Shape, Received
<1>3. Size(n, Len(result)) \in Nat
  BY <1>2, SizeStep
<1>4. s # <<>> => s[1] = Header
  <2>1. SUFFICES ASSUME s # <<>> PROVE s[1] = Header
    OBVIOUS
  <2>2. 1 \in 1..Len(s) /\ t # <<>>
    BY <1>1, <2>1, EmptySeq
  <2>3. QED
    BY <1>1, <2>2 DEF BeginsTable
<1>5. Len(s) <= Size(n, Len(result))
  BY <1>1, <1>3 DEF BeginsTable
<1>6. ASSUME NEW k \in Sharing(n, Len(result)), NEW i \in 1..NRows, Size(n, k - 1) + i <= Len(s)
      PROVE  s[Size(n, k - 1) + i] = Line(result[k], i)
  <2>1. k - 1 \in Nat /\ i \in Nat \ {0}
    BY <1>2 DEF Sharing
  <2>2. Size(n, k - 1) \in Nat
    BY <2>1, SizeStep
  <2>3. Size(n, k - 1) + i \in 1..Len(s) /\ Size(n, k - 1) + i <= Len(t)
    BY <1>1, <1>6, <2>1, <2>2
  <2>4. QED
    BY <1>1, <2>3 DEF BeginsTable
<1>7. QED
  BY <1>4, <1>5, <1>6 DEF BeginsTable

(* The rows of the result at hand go behind those of all before it.        *)
LEMMA TableGrows ==
  ASSUME Shape, kind # 0, NEW s \in Seq(Cells), IsTable(s, File, Len(result) - 1)
  PROVE  IsTable(s \o Rows(Current), File, Len(result))
<1> DEFINE m == Len(result) - 1
           r == Current
           t == s \o Rows(Current)
<1>1. /\ m \in Nat /\ Len(result) = m + 1 /\ r = result[m + 1] /\ r \in Results
      /\ Name(result[m + 1], FileBy) = File
  BY Handling DEF File
<1>2. /\ Rows(r) \in Seq(Cells) /\ Len(Rows(r)) = NRows /\ NRows \in Nat \ {0}
      /\ \A i \in 1..NRows : Rows(r)[i] = Line(r, i)
  BY <1>1, Lines
<1>3. /\ Size(File, m + 1) = Size(File, m) + NRows
      /\ Size(File, m) \in Nat /\ Size(File, m) >= 1 /\ Size(File, m + 1) \in Nat
  BY <1>1, SizeStep
<1>4. Len(s) = Size(File, m) /\ BeginsTable(s, File)
  BY DEF IsTable
<1>5. /\ t \in Seq(Cells) /\ Len(t) = Len(s) + NRows
      /\ \A i \in 1 .. Len(s) + NRows : t[i] = IF i <= Len(s) THEN s[i] ELSE Rows(r)[i - Len(s)]
  <2>1. /\ s \o Rows(r) \in Seq(Cells) /\ Len(s \o Rows(r)) = Len(s) + Len(Rows(r))
        /\ \A i \in 1 .. Len(s) + Len(Rows(r)) :
             (s \o Rows(r))[i] = IF i <= Len(s) THEN s[i] ELSE Rows(r)[i - Len(s)]
    BY <1>2, ConcatProperties
  <2>2. QED
    BY <1>2, <2>1
<1> HIDE DEF m, r, t
<1>6. t[1] = Header
  <2>1. s # <<>>
    BY <1>3, <1>4, EmptySeq
  <2>2. s[1] = Header
    BY <1>4, <2>1 DEF BeginsTable
  <2>3. 1 \in 1 .. Len(s) + NRows /\ 1 <= Len(s)
    BY <1>2, <1>3, <1>4
  <2>4. QED
    BY <1>5, <2>2, <2>3
<1>7. Len(t) = Size(File, Len(result))
  BY <1>1, <1>3, <1>4, <1>5
<1>8. ASSUME NEW k \in Sharing(File, m + 1), NEW i \in 1..NRows
      PROVE  t[Size(File, k - 1) + i] = Line(result[k], i)
  <2>1. k \in 1..m + 1 /\ Name(result[k], FileBy) = File /\ k - 1 \in Nat /\ (k - 1) + 1 = k
    BY <1>1, <1>8 DEF Sharing
  <2>2. CASE k = m + 1
    <3>1. Size(File, k - 1) = Len(s)
      BY <1>1, <1>4, <2>2
    <3>2. /\ Len(s) + i \in 1 .. Len(s) + NRows /\ ~(Len(s) + i <= Len(s))
          /\ Len(s) + i - Len(s) = i
      BY <1>2, <1>3, <1>4
    <3>3. t[Len(s) + i] = Rows(r)[i]
      BY <1>5, <3>2
    <3>4. QED
      BY <1>1, <1>2, <2>2, <3>1, <3>3
  <2>3. CASE k # m + 1
    <3>1. k \in Sharing(File, m) /\ k \in Nat /\ k <= m
      BY <1>1, <2>1, <2>3 DEF Sharing
    <3>2. Size(File, (k - 1) + 1) = Size(File, k - 1) + NRows /\ Size(File, k - 1) \in Nat
      BY <2>1, SizeStep
    <3>3. Size(File, k) <= Size(File, m)
      BY <1>1, <3>1, SizeGrows
    <3>4. Size(File, k - 1) + i \in 1..Len(s)
      <4>1. Size(File, k) = Size(File, k - 1) + NRows
        BY <2>1, <3>2
      <4>2. QED
        BY <1>2, <1>3, <1>4, <3>2, <3>3, <4>1
    <3>5. k \in Sharing(File, Len(result))
      BY <1>1, <1>8
    <3>6. Size(File, k - 1) + i <= Len(s)
      BY <1>3, <1>4, <3>4
    <3>7. s[Size(File, k - 1) + i] = Line(result[k], i)
      BY <1>4, <3>5, <3>6 DEF BeginsTable
    <3>8. Size(File, k - 1) + i \in 1..Len(s) + NRows
      BY <1>2, <1>3, <1>4, <3>4
    <3>9. QED
      BY <1>5, <3>6, <3>7, <3>8
  <2>4. QED
    BY <2>2, <2>3
<1>9. Len(t) <= Size(File, Len(result))
  BY <1>1, <1>3, <1>7
<1>10. BeginsTable(t, File)
  BY <1>1, <1>6, <1>8, <1>9 DEF BeginsTable
<1>11. QED
  BY <1>7, <1>10 DEF IsTable, t

(* The result at hand is not in other files.                               *)
LEMMA OtherTables ==
  ASSUME Shape, kind # 0, NEW n, n # File
  PROVE  Size(n, Len(result)) = Size(n, Len(result) - 1)
<1>1. Len(result) - 1 \in Nat /\ (Len(result) - 1) + 1 = Len(result) /\ Current = result[Len(result)]
  BY Handling
<1>2. Name(result[Len(result)], FileBy) # n
  BY <1>1 DEF File
<1>3. QED
  BY <1>1, <1>2, SizeStep

(* A file that is new has none of the earlier results.                     *)
LEMMA NewTable ==
  ASSUME Shape, kind # 0, NEW o \in {"csv", "excelize"}, Doing(o), AllStored,
         o = "csv" => File \notin broken, File \notin opened[o]
  PROVE  IsTable(<<Header>>, File, Len(result) - 1)
<1>1. /\ Len(result) \in Nat \ {0} /\ Len(result) - 1 \in Nat /\ DOMAIN result = 1..Len(result)
      /\ failed = 0 /\ kind \in DOMAIN kinds /\ kinds[kind] = o
  <2>1. kind \in 1..Len(kinds)
    BY LenProperties DEF Shape, Place
  <2>2. QED
    BY <2>1, Handling, LenProperties DEF Shape, Place, Received, Doing
<1>2. ASSUME NEW k \in 1..Len(result) - 1 PROVE Name(result[k], FileBy) # File
  <2>1. k \in DOMAIN result /\ k < Len(result)
    BY <1>1
  <2>2. Stored(k, kind)
    BY <1>1, <2>1 DEF AllStored, Taken
  <2>3. CASE Holds(o, result[k])
    BY <2>3 DEF Holds
  <2>4. CASE o = "csv" /\ Torn(k, kind)
    BY <2>4 DEF Torn
  <2>5. QED
    BY <1>1, <2>2, <2>3, <2>4 DEF Stored
<1>3. Sharing(File, Len(result) - 1) = {}
  BY <1>2 DEF Sharing
<1>4. Size(File, Len(result) - 1) = 1
  <2>1. Cardinality(Sharing(File, Len(result) - 1)) = 0 /\ NRows \in Nat
    BY <1>3, FS_EmptySet, FilesAssumption
  <2>2. QED
    BY <2>1 DEF Size
<1>5. Len(<<Header>>) = 1 /\ <<Header>>[1] = Header
  OBVIOUS
<1>6. 1 <= Size(File, Len(result))
  BY <1>1, SizeStep
<1>7. ASSUME NEW k \in Sharing(File, Len(result)), NEW i \in 1..NRows
      PROVE  ~(Size(File, k - 1) + i <= 1)
  <2>1. k - 1 \in Nat
    BY <1>1 DEF Sharing
  <2>2. Size(File, k - 1) \in Nat /\ Size(File, k - 1) >= 1
    BY <2>1, SizeStep
  <2>3. QED
    BY <2>2
<1>8. BeginsTable(<<Header>>, File)
  BY <1>5, <1>6, <1>7 DEF BeginsTable
<1>9. QED
  BY <1>4, <1>5, <1>8 DEF IsTable


\* What TablesComplete says of file n of csv or excelize.
Fine(o, n) ==
  \/ IsTable(disk[o][n], n, Handled(o))
  \/ o = "csv" /\ n \in broken /\ BeginsTable(disk[o][n], n)
  \/ /\ FailedIn(o) /\ n = File /\ full
     /\ o = "csv" => BeginsTable(disk[o][n], n)

AllFine == \A o \in {"csv", "excelize"} : \A n \in opened[o] : Fine(o, n)

LEMMA FineTables == AllFine <=> TablesComplete
BY DEF AllFine, Fine, TablesComplete, IsTable

LEMMA HandledDone ==
  ASSUME Shape, Distinct, kind # 0, Done, UNCHANGED <<given, result, failed>>
  PROVE  /\ \A o : o # kinds[kind] => Handled(o)' = Handled(o)
         /\ \A o : o = kinds[kind] => Handled(o) = Len(result) - 1 /\ Handled(o)' = Len(result)
<1>1. /\ kind \in 1..Len(kinds) /\ DOMAIN kinds = 1..Len(kinds) /\ Len(kinds) \in Nat
      /\ failed = 0 /\ failed' = 0 /\ kinds' = kinds /\ result' = result
  BY LenProperties DEF Shape, Place, given
<1>2. kind' = IF kind < Len(kinds) THEN kind + 1 ELSE 0
  BY DEF Done
<1>3. \A k \in DOMAIN kinds : kind' \in 1..k <=> kind < k
  BY <1>1, <1>2
<1>4. \A k \in DOMAIN kinds : kind \in 1..k <=> kind < k \/ kind = k
  BY <1>1
<1>5. \A k : failed \notin 1..k /\ failed' \notin 1..k
  BY <1>1
<1>6. ASSUME NEW o
      PROVE  /\ Handled(o) = IF \E k \in DOMAIN kinds : kinds[k] = o /\ (kind < k \/ kind = k)
                             THEN Len(result) - 1 ELSE Len(result)
             /\ Handled(o)' = IF \E k \in DOMAIN kinds : kinds[k] = o /\ kind < k
                              THEN Len(result) - 1 ELSE Len(result)
  BY <1>1, <1>3, <1>4, <1>5 DEF Handled
<1>7. ASSUME NEW o, o = kinds[kind]
      PROVE  /\ \E k \in DOMAIN kinds : kinds[k] = o /\ (kind < k \/ kind = k)
             /\ ~\E k \in DOMAIN kinds : kinds[k] = o /\ kind < k
  BY <1>1, <1>7 DEF Distinct
<1>8. QED
  BY <1>6, <1>7

LEMMA HandledFail ==
  ASSUME Shape, Fail, UNCHANGED <<given, result>>
  PROVE  \A o : Handled(o)' = Handled(o)
<1>1. kind # 0 /\ failed = 0 /\ failed' = kind /\ kind' = 0 /\ kinds' = kinds /\ result' = result
  BY DEF Shape, Place, Fail, given
<1>2. \A k : failed \notin 1..k /\ kind' \notin 1..k
  BY <1>1
<1>3. QED
  BY <1>1, <1>2 DEF Handled

(* Files that a step leaves alone stay as fine as they are.                *)
LEMMA StaysFine ==
  ASSUME Shape, Distinct, kind # 0, Done, UNCHANGED <<given, result, failed>>,
         NEW o \in {"csv", "excelize"}, NEW n, Fine(o, n),
         disk'[o][n] = disk[o][n], n \in broken => n \in broken',
         o # kinds[kind] \/ n # File
  PROVE  Fine(o, n)'
<1>1. UNCHANGED <<result, started>> /\ failed = 0
  BY DEF given, Shape, Place
<1>2. PICK s : s = disk[o][n] /\ s = disk'[o][n]
  OBVIOUS
<1>3. \A m : (IsTable(s, n, m)' <=> IsTable(s, n, m)) /\ (BeginsTable(s, n)' <=> BeginsTable(s, n))
  BY <1>1, SameTables
<1>4. CASE IsTable(s, n, Handled(o))
  <2>1. IsTable(s, n, Handled(o)')
    <3>1. CASE o # kinds[kind]
      <4>1. Handled(o)' = Handled(o)
        BY <3>1, HandledDone
      <4>2. QED
        BY <1>4, <4>1
    <3>2. CASE o = kinds[kind] /\ n # File
      <4>1. Handled(o) = Len(result) - 1 /\ Handled(o)' = Len(result)
        BY <3>2, HandledDone
      <4>2. Size(n, Len(result)) = Size(n, Len(result) - 1)
        BY <3>2, OtherTables
      <4>3. QED
        BY <1>4, <4>1, <4>2 DEF IsTable
    <3>3. QED
      BY <3>1, <3>2
  <2>2. PICK m : m = Handled(o)'
    OBVIOUS
  <2>3. IsTable(s, n, m)'
    BY <1>3, <2>1, <2>2
  <2>4. IsTable(disk[o][n], n, Handled(o))'
    BY <1>2, <2>2, <2>3
  <2>5. QED
    BY <2>4 DEF Fine
<1>5. CASE o = "csv" /\ n \in broken /\ BeginsTable(s, n)
  <2>1. BeginsTable(disk[o][n], n)'
    BY <1>2, <1>3, <1>5
  <2>2. QED
    BY <1>5, <2>1 DEF Fine
<1>6. ~FailedIn(o)
  BY <1>1 DEF FailedIn
<1>7. QED
  BY <1>2, <1>4, <1>5, <1>6 DEF Fine

(* The file at hand, with the rows of all results before.                  *)
LEMMA StartIsTable ==
  ASSUME Shape, Distinct, AllStored, AllFine, kind # 0, NEW o \in {"csv", "excelize"}, Doing(o),
         o = "csv" => File \notin broken
  PROVE  /\ IsTable(Start(o), File, Len(result) - 1)
         /\ IsTable(Start(o) \o Rows(Current), File, Len(result))
<1>1. failed = 0 /\ o \in FileOutputs
  BY DEF Shape, Place, FileOutputs
<1>2. IsTable(Start(o), File, Len(result) - 1)
  <2>1. CASE File \in opened[o]
    <3>1. Start(o) = disk[o][File]
      BY <2>1 DEF Start
    <3>2. Fine(o, File)
      BY <2>1 DEF AllFine
    <3>3. ~FailedIn(o)
      BY <1>1 DEF FailedIn
    <3>4. Handled(o) = Len(result) - 1
      <4>1. kind \in 1..Len(kinds) /\ DOMAIN kinds = 1..Len(kinds)
        BY LenProperties DEF Shape, Place
      <4>2. kinds[kind] = o /\ kind \in DOMAIN kinds /\ kind \in 1..kind
        BY <4>1 DEF Doing
      <4>3. QED
        BY <4>2 DEF Handled
    <3>5. QED
      BY <3>1, <3>2, <3>3, <3>4 DEF Fine
  <2>2. CASE File \notin opened[o]
    BY <2>2, NewTable DEF Start
  <2>3. QED
    BY <2>1, <2>2
<1>3. Start(o) \in Seq(Cells)
  BY <1>1, Starting
<1>4. QED
  BY <1>2, <1>3, TableGrows

(* What a cut-off write of csv leaves is the beginning of the table.       *)
LEMMA CutOff ==
  ASSUME Shape, Distinct, AllStored, AllFine, kind # 0, Doing("csv"), File \notin broken,
         NEW k \in 0..(Len(CSVLines) - 1)
  PROVE  BeginsTable(Kept("csv") \o SubSeq(CSVLines, 1, k), File)
<1> DEFINE whole == Kept("csv") \o CSVLines
           part  == Kept("csv") \o SubSeq(CSVLines, 1, k)
<1>1. CSVLines \in Seq(Cells) /\ Kept("csv") \in Seq(Cells) /\ "csv" \in FileOutputs
  BY CSVLinesAre, Starting DEF FileOutputs
<1>2. /\ SubSeq(CSVLines, 1, k) \in Seq(Cells) /\ Len(SubSeq(CSVLines, 1, k)) = k
      /\ \A i \in 1..k : SubSeq(CSVLines, 1, k)[i] = CSVLines[i]
  BY <1>1, PartOf
<1>3. BeginsTable(whole, File)
  BY <1>1, CSVAppends, StartIsTable DEF IsTable
<1>4. /\ whole \in Seq(Cells) /\ Len(whole) = Len(Kept("csv")) + Len(CSVLines)
      /\ \A i \in 1 .. Len(Kept("csv")) + Len(CSVLines) :
           whole[i] = IF i <= Len(Kept("csv")) THEN Kept("csv")[i] ELSE CSVLines[i - Len(Kept("csv"))]
  BY <1>1, ConcatProperties
<1>5. /\ part \in Seq(Cells) /\ Len(part) = Len(Kept("csv")) + k
      /\ \A i \in 1 .. Len(Kept("csv")) + k :
           part[i] = IF i <= Len(Kept("csv")) THEN Kept("csv")[i]
                     ELSE SubSeq(CSVLines, 1, k)[i - Len(Kept("csv"))]
  <2>1. /\ part \in Seq(Cells) /\ Len(part) = Len(Kept("csv")) + Len(SubSeq(CSVLines, 1, k))
        /\ \A i \in 1 .. Len(Kept("csv")) + Len(SubSeq(CSVLines, 1, k)) :
             part[i] = IF i <= Len(Kept("csv")) THEN Kept("csv")[i]
                       ELSE SubSeq(CSVLines, 1, k)[i - Len(Kept("csv"))]
    BY <1>1, <1>2, ConcatProperties
  <2>2. QED
    BY <1>2, <2>1
<1>6. Len(Kept("csv")) \in Nat /\ Len(CSVLines) \in Nat /\ k \in Nat /\ k <= Len(CSVLines)
  BY <1>1, LenProperties
<1> HIDE DEF whole, part
<1>7. ASSUME NEW i \in 1..Len(part) PROVE whole[i] = part[i]
  <2>1. i \in 1 .. Len(Kept("csv")) + k /\ i \in 1 .. Len(Kept("csv")) + Len(CSVLines)
    BY <1>5, <1>6
  <2>2. ~(i <= Len(Kept("csv"))) => i - Len(Kept("csv")) \in 1..k
    BY <1>6, <2>1
  <2>3. QED
    BY <1>2, <1>4, <1>5, <2>1, <2>2
<1>8. Prolongs(whole, part)
  BY <1>4, <1>5, <1>6, <1>7 DEF Prolongs
<1>9. BeginsTable(part, File)
  BY <1>3, <1>4, <1>5, <1>8, Shorter
<1>10. QED
  BY <1>9 DEF part

LEMMA TablesDo ==
  ASSUME Shape, Sheets, Distinct, AllStored, AllFine, OpenedByOutputs,
         CSVDo \/ CSVFlushFails \/ DumpDo \/ ExcelizeDo
  PROVE  AllFine' /\ OpenedByOutputs'
<1>1. PICK o \in FileOutputs, lines \in Seq(Cells) : Finished(o) /\ Writes(o, File, lines)
  BY FileSteps
<1>2. /\ kind # 0 /\ kinds[kind] = o /\ Doing(o) /\ Done /\ failed = 0
      /\ UNCHANGED <<given, result, failed>> /\ UNCHANGED <<result, started>> /\ kinds' = kinds
  BY <1>1 DEF Finished, Doing, Shape, Place, given
<1>3. /\ Files /\ File \in FileNames /\ o \in Outputs
      /\ FileOutputs = {"csv", "dump", "excelize"} /\ FileOutputs \subseteq Outputs
  BY <1>2, Handling DEF Shape, Outputs, FileOutputs
<1>4. /\ disk'[o][File] = lines /\ opened'[o] = opened[o] \union {File}
      /\ \A p \in Outputs : p # o => disk'[p] = disk[p]
      /\ \A p \in FileOutputs : p # o => opened'[p] = opened[p]
      /\ \A m \in FileNames : m # File => disk'[o][m] = disk[o][m]
  <2>1. Files /\ File \in FileNames /\ Writes(o, File, lines)
    BY <1>1, <1>3
  <2>2. QED
    BY <2>1, Writing
<1>5. broken \subseteq broken'
  BY DEF CSVDo, CSVFlushFails, DumpDo, ExcelizeDo
<1>6. ASSUME NEW written \in Seq(Cells), Writes(o, File, written)
      PROVE  lines = written
  <2>1. Files /\ File \in FileNames
    BY <1>3
  <2>2. disk'[o][File] = written
    BY <1>6, <2>1, Writing
  <2>3. QED
    BY <1>4, <2>2
<1>7. ASSUME NEW q \in {"csv", "excelize"}, NEW n \in opened'[q], q # o \/ n # File
      PROVE  Fine(q, n)'
  <2>1. q \in FileOutputs /\ q \in Outputs
    BY <1>3
  <2>2. n \in opened[q]
    BY <1>4, <1>7, <2>1
  <2>3. n \in FileNames
    BY <1>3, <2>1, <2>2 DEF Files
  <2>4. disk'[q][n] = disk[q][n]
    BY <1>4, <1>7, <2>1, <2>3
  <2>5. Fine(q, n)
    BY <2>2 DEF AllFine
  <2>6. q # kinds[kind] \/ n # File
    BY <1>2, <1>7
  <2>7. n \in broken => n \in broken'
    BY <1>5
  <2>8. QED
    BY <1>2, <2>4, <2>5, <2>6, <2>7, StaysFine
<1>8. PICK file : file = File
  OBVIOUS
<1>9. ASSUME o \in {"csv", "excelize"}, lines = Start(o) \o Rows(Current), o = "csv" => File \notin broken
      PROVE  Fine(o, file)'
  <2>1. IsTable(lines, file, Len(result))
    BY <1>2, <1>8, <1>9, StartIsTable
  <2>2. PICK m : m = Len(result) /\ m = Handled(o)'
    BY <1>2, HandledDone
  <2>3. IsTable(lines, file, m)'
    BY <1>2, <2>1, <2>2, SameTables
  <2>4. QED
    BY <1>4, <1>8, <2>2, <2>3 DEF Fine
<1>10. o \in {"csv", "excelize"} => Fine(o, file)'
  <2>1. CASE CSVDo
    <3>1. o = "csv" /\ File \notin broken /\ disk' = [disk EXCEPT !["csv"][File] = Kept("csv") \o CSVLines]
      BY <1>2, <2>1 DEF CSVDo, Doing
    <3>2. Writes("csv", File, Start("csv") \o Rows(Current))
      BY <1>2, <2>1, CSVAppends DEF CSVDo, Writes, OpenFile
    <3>3. Start("csv") \o Rows(Current) \in Seq(Cells)
      BY <1>2, <1>3, Starting
    <3>4. lines = Start("csv") \o Rows(Current)
      BY <1>6, <3>1, <3>2, <3>3
    <3>5. QED
      BY <1>9, <3>1, <3>4
  <2>2. CASE CSVFlushFails
    <3>1. o = "csv" /\ File \notin broken /\ File \in broken'
      BY <1>2, <2>2 DEF CSVFlushFails, Doing
    <3>2. PICK k \in 0..(Len(CSVLines) - 1) :
            Writes("csv", File, Kept("csv") \o SubSeq(CSVLines, 1, k))
      BY <2>2 DEF CSVFlushFails, Writes, OpenFile
    <3>3. Kept("csv") \o SubSeq(CSVLines, 1, k) \in Seq(Cells)
      BY <1>2, <1>3, CSVLinesAre, PartOf, Starting, ConcatProperties
    <3>4. lines = Kept("csv") \o SubSeq(CSVLines, 1, k)
      BY <1>6, <3>1, <3>2, <3>3
    <3>5. BeginsTable(lines, file)
      BY <1>2, <1>8, <3>1, <3>4, CutOff
    <3>6. BeginsTable(lines, file)'
      BY <1>2, <3>5, SameTables
    <3>7. QED
      BY <1>4, <1>8, <3>1, <3>6 DEF Fine
  <2>3. CASE DumpDo
    <3>1. o = "dump"
      BY <1>2, <2>3 DEF DumpDo, Doing
    <3>2. QED
      BY <3>1
  <2>4. CASE ExcelizeDo
    <3>1. o = "excelize" /\ Writes("excelize", File, Start("excelize") \o Rows(Current))
      BY <1>2, <2>4, ExcelizeAppends DEF ExcelizeDo, Doing
    <3>2. Start("excelize") \o Rows(Current) \in Seq(Cells)
      BY <1>2, <1>3, Starting
    <3>3. lines = Start("excelize") \o Rows(Current)
      BY <1>6, <3>1, <3>2
    <3>4. QED
      BY <1>9, <3>1, <3>3
  <2>5. QED
    BY <2>1, <2>2, <2>3, <2>4
<1>11. AllFine'
  BY <1>7, <1>8, <1>10 DEF AllFine
<1>12. OpenedByOutputs'
  <2>1. kind \in DOMAIN kinds
    BY <1>2, LenProperties DEF Shape, Place
  <2>2. QED
    BY <1>2, <1>4, <2>1 DEF OpenedByOutputs
<1>13. QED
  BY <1>11, <1>12

LEMMA TablesChart ==
  ASSUME Shape, Distinct, AllFine, OpenedByOutputs, GoChartDo
  PROVE  AllFine' /\ OpenedByOutputs'
<1>1. /\ kind # 0 /\ kinds[kind] = "gochart" /\ Done
      /\ UNCHANGED <<given, result, failed>> /\ UNCHANGED <<opened, broken, kinds>>
      /\ Draws(Name(Current, ChartBy), Rows(Current))
  BY DEF GoChartDo, Doing, Draws, given
<1>2. \A p \in FileOutputs : disk'[p] = disk[p]
  <2>1. Files /\ Name(Current, ChartBy) \in ChartNames
    BY <1>1, Handling DEF Shape
  <2>2. QED
    BY <1>1, <2>1, Drawing
<1>3. ASSUME NEW q \in {"csv", "excelize"}, NEW n \in opened'[q] PROVE Fine(q, n)'
  <2>1. /\ Fine(q, n) /\ disk'[q][n] = disk[q][n] /\ q # kinds[kind]
        /\ n \in broken => n \in broken'
    BY <1>1, <1>2 DEF AllFine, FileOutputs
  <2>2. QED
    BY <1>1, <2>1, StaysFine
<1>4. QED
  BY <1>1, <1>3 DEF AllFine, OpenedByOutputs

LEMMA TablesReceive ==
  ASSUME Shape, AllFine, OpenedByOutputs, NEW r \in Results, Receive(r)
  PROVE  AllFine' /\ OpenedByOutputs'
<1>1. /\ kind = 0 /\ kind' = 1 /\ failed = 0 /\ failed' = 0
      /\ UNCHANGED <<started, kinds, opened, disk, broken, full>>
  BY DEF Receive, given, doVars
<1>2. /\ Len(result') = Len(result) + 1 /\ Len(result) \in Nat
      /\ \A k \in 1..Len(result) : result'[k] = result[k]
  BY Receiving
<1>3. \A k \in 1..Len(result) : Name(result[k], FileBy)' = Name(result[k], FileBy)
  BY <1>1, <1>2 DEF Name
<1>4. \A n, m : m \in 0..Len(result) => Sharing(n, m)' = Sharing(n, m)
  BY <1>2, <1>3 DEF Sharing
<1>5. \A n, m : m \in 0..Len(result) => Size(n, m)' = Size(n, m)
  BY <1>4 DEF Size
<1>6. ASSUME NEW n
      PROVE  /\ Sharing(n, Len(result)) \subseteq Sharing(n, Len(result))'
             /\ Size(n, Len(result)) <= Size(n, Len(result))'
             /\ Size(n, Len(result)) \in Nat /\ Size(n, Len(result))' \in Nat
  <2>1. PICK m \in Nat : m = Len(result')
    BY <1>2
  <2>2. Sharing(n, Len(result)) \subseteq Sharing(n, m)' /\ Sharing(n, m)' \subseteq 1..m
    BY <1>2, <1>3, <2>1 DEF Sharing
  <2>3. Sharing(n, m)' = Sharing(n, Len(result))'
    BY <2>1
  <2>4. QED
    BY <2>1, <2>2, <2>3, Counts DEF Size
<1>7. ASSUME NEW s, NEW n, BeginsTable(s, n), Len(s) \in Nat
      PROVE  BeginsTable(s, n)'
  <2>1. Len(s) <= Size(n, Len(result))
    BY <1>7 DEF BeginsTable
  <2>2. Len(s) <= Size(n, Len(result))'
    BY <1>6, <1>7, <2>1
  <2>3. ASSUME NEW k \in Sharing(n, Len(result))', NEW i \in 1..NRows, Size(n, k - 1)' + i <= Len(s)
        PROVE  s[Size(n, k - 1)' + i] = Line(result'[k], i)
    <3>1. k \in 1..Len(result) + 1 /\ k - 1 \in 0..Len(result)
      BY <1>2 DEF Sharing
    <3>2. Size(n, k - 1)' = Size(n, k - 1)
      BY <1>5, <3>1
    <3>3. CASE k = Len(result) + 1
      <4>1. Size(n, k - 1) = Size(n, Len(result))
        BY <1>2, <3>3
      <4>2. i \in Nat \ {0} /\ Size(n, Len(result)) \in Nat
        BY <1>6
      <4>3. ~(Size(n, Len(result)) + i <= Len(s))
        BY <1>7, <2>1, <4>2
      <4>4. QED
        BY <2>3, <3>2, <4>1, <4>3
    <3>4. CASE k \in 1..Len(result)
      <4>1. k \in Sharing(n, Len(result)) /\ result'[k] = result[k]
        BY <1>2, <1>3, <3>4 DEF Sharing
      <4>2. QED
        BY <1>7, <2>3, <3>2, <4>1 DEF BeginsTable
    <3>5. QED
      BY <1>2, <3>1, <3>3, <3>4
  <2>4. s # <<>> => s[1] = Header
    BY <1>7 DEF BeginsTable
  <2>5. QED
    BY <2>2, <2>3, <2>4 DEF BeginsTable
<1>8. ASSUME NEW q \in {"csv", "excelize"}, NEW n \in opened[q]
      PROVE  Fine(q, n)'
  <2>1. Fine(q, n) /\ ~FailedIn(q)
    BY <1>1 DEF AllFine, FailedIn
  <2>2. PICK s : s = disk[q][n] /\ s = disk'[q][n]
    BY <1>1
  <2>3. q \in FileOutputs
    BY DEF FileOutputs
  <2>4. s \in Seq(Cells) /\ Len(s) \in Nat
    <3>1. n \in FileNames
      BY <2>3 DEF Shape, Files
    <3>2. s \in Seq(Cells)
      BY <2>2, <2>3, <3>1 DEF Shape, Files
    <3>3. QED
      BY <3>2, LenProperties
  <2>5. CASE IsTable(s, n, Handled(q))
    <3>1. Handled(q) = Len(result)
      BY <1>1 DEF Handled
    <3>2. PICK p \in DOMAIN kinds : kinds[p] = q
      BY <2>3 DEF OpenedByOutputs
    <3>3. p \in Nat \ {0}
      BY <3>2, LenProperties DEF Shape, Place
    <3>4. p \in DOMAIN kinds' /\ kinds'[p] = q /\ kind' \in 1..p
      BY <1>1, <3>2, <3>3
    <3>5. Handled(q)' = Len(result') - 1
      BY <3>4 DEF Handled
    <3>6. Len(result) = Len(result') - 1
      BY <1>2
    <3>7. PICK m : m = Len(result) /\ m = Handled(q)'
      BY <3>5, <3>6
    <3>8. BeginsTable(s, n)' /\ Len(s) = Size(n, m)
      BY <1>7, <2>4, <2>5, <3>1, <3>7 DEF IsTable
    <3>9. Size(n, m)' = Size(n, m)
      BY <1>2, <1>5, <3>7
    <3>10. IsTable(s, n, m)'
      BY <3>8, <3>9 DEF IsTable
    <3>11. QED
      BY <2>2, <3>7, <3>10 DEF Fine
  <2>6. CASE q = "csv" /\ n \in broken /\ BeginsTable(s, n)
    <3>1. BeginsTable(s, n)'
      BY <1>7, <2>4, <2>6
    <3>2. QED
      BY <1>1, <2>2, <2>6, <3>1 DEF Fine
  <2>7. QED
    BY <2>1, <2>2, <2>5, <2>6 DEF Fine
<1>9. QED
  BY <1>1, <1>8 DEF AllFine, OpenedByOutputs


(* A Do that fails leaves the beginning of the table or reports it.        *)
LEMMA TablesFail ==
  ASSUME Shape, Distinct, AllStored, AllFine, OpenedByOutputs, WriteFails
  PROVE  AllFine' /\ OpenedByOutputs'
<1>1. /\ kind # 0 /\ Fail /\ failed = 0 /\ failed' = kind /\ full
      /\ UNCHANGED <<given, result>> /\ UNCHANGED <<result, started>>
      /\ UNCHANGED <<kinds, broken, full, test>>
  BY DEF WriteFails, Fail, Shape, Place, given
<1>2. /\ Files /\ File \in FileNames /\ Name(Current, ChartBy) \in ChartNames
      /\ kind \in DOMAIN kinds
      /\ FileOutputs = {"csv", "dump", "excelize"} /\ FileOutputs \subseteq Outputs
  BY <1>1, Handling, LenProperties DEF Shape, Place, FileOutputs, Outputs
<1>3. PICK file : file = File /\ file = File'
  <2>1. File' = File
    BY <1>1 DEF File, Name, Current
  <2>2. QED
    BY <2>1
<1>4. ASSUME NEW q \in {"csv", "excelize"}, NEW n \in opened[q], disk'[q][n] = disk[q][n]
      PROVE  Fine(q, n)'
  <2>1. Fine(q, n) /\ ~FailedIn(q)
    BY <1>1, <1>4 DEF AllFine, FailedIn
  <2>2. PICK s : s = disk[q][n] /\ s = disk'[q][n]
    BY <1>4
  <2>3. PICK m : m = Handled(q) /\ m = Handled(q)'
    BY <1>1, HandledFail
  <2>4. (IsTable(s, n, m)' <=> IsTable(s, n, m)) /\ (BeginsTable(s, n)' <=> BeginsTable(s, n))
    BY <1>1, SameTables
  <2>5. CASE IsTable(s, n, m)
    <3>1. IsTable(disk[q][n], n, Handled(q))'
      BY <2>2, <2>3, <2>4, <2>5
    <3>2. QED
      BY <3>1 DEF Fine
  <2>6. CASE q = "csv" /\ n \in broken /\ BeginsTable(s, n)
    <3>1. BeginsTable(disk[q][n], n)'
      BY <2>2, <2>4, <2>6
    <3>2. QED
      BY <1>1, <2>6, <3>1 DEF Fine
  <2>7. QED
    BY <2>1, <2>2, <2>3, <2>5, <2>6 DEF Fine
<1>5. ASSUME NEW o \in FileOutputs, NEW lines \in Seq(Cells), Writes(o, File, lines), Doing(o),
             o = "csv" => BeginsTable(lines, File)
      PROVE  AllFine' /\ OpenedByOutputs'
  <2>1. /\ disk'[o][File] = lines /\ opened'[o] = opened[o] \union {File}
        /\ \A p \in Outputs : p # o => disk'[p] = disk[p]
        /\ \A p \in FileOutputs : p # o => opened'[p] = opened[p]
        /\ \A m \in FileNames : m # File => disk'[o][m] = disk[o][m]
    <3>1. Files /\ File \in FileNames /\ Writes(o, File, lines)
      BY <1>2, <1>5
    <3>2. QED
      BY <3>1, Writing
  <2>2. ASSUME NEW q \in {"csv", "excelize"}, NEW n \in opened'[q], q # o \/ n # File
        PROVE  Fine(q, n)'
    <3>1. n \in opened[q] /\ q \in FileOutputs /\ q \in Outputs
      BY <1>2, <2>1, <2>2
    <3>2. n \in FileNames
      BY <1>2, <3>1 DEF Files
    <3>3. disk'[q][n] = disk[q][n]
      BY <2>1, <2>2, <3>1, <3>2
    <3>4. QED
      BY <1>4, <3>1, <3>3
  <2>3. FailedIn(o)' /\ full'
    BY <1>1, <1>5 DEF FailedIn, Doing
  <2>4. o = "csv" => BeginsTable(lines, file)'
    BY <1>1, <1>3, <1>5, SameTables
  <2>5. Fine(o, file)'
    BY <1>3, <2>1, <2>3, <2>4 DEF Fine
  <2>6. AllFine'
    BY <1>3, <2>2, <2>5 DEF AllFine
  <2>7. OpenedByOutputs'
    BY <1>1, <1>2, <1>5, <2>1 DEF OpenedByOutputs, Doing
  <2>8. QED
    BY <2>6, <2>7
<1>6. CASE Doing("csv") /\ OpenFile("csv") /\ File \notin broken
             /\ \E k \in 0..(Len(CSVLines) - 1) :
                  disk' = [disk EXCEPT !["csv"][File] = Kept("csv") \o SubSeq(CSVLines, 1, k)]
  <2>1. PICK k \in 0..(Len(CSVLines) - 1) : Writes("csv", File, Kept("csv") \o SubSeq(CSVLines, 1, k))
    BY <1>6 DEF Writes, OpenFile
  <2>2. Kept("csv") \o SubSeq(CSVLines, 1, k) \in Seq(Cells)
    BY <1>1, <1>2, CSVLinesAre, PartOf, Starting, ConcatProperties
  <2>3. BeginsTable(Kept("csv") \o SubSeq(CSVLines, 1, k), File)
    BY <1>1, <1>6, CutOff
  <2>4. QED
    BY <1>2, <1>5, <1>6, <2>1, <2>2, <2>3
<1>7. CASE Doing("dump") /\ OpenFile("dump")
             /\ \E k \in 0..(Len(<<Header>> \o Rows(Current)) - 1) :
                  disk' = [disk EXCEPT !["dump"][File] =
                             Kept("dump") \o SubSeq(<<Header>> \o Rows(Current), 1, k)]
  <2>1. <<Header>> \o Rows(Current) \in Seq(Cells)
    BY <1>1, Handling, Lines, ConcatProperties
  <2>2. PICK k \in 0..(Len(<<Header>> \o Rows(Current)) - 1) :
          Writes("dump", File, Kept("dump") \o SubSeq(<<Header>> \o Rows(Current), 1, k))
    BY <1>7 DEF Writes, OpenFile
  <2>3. Kept("dump") \o SubSeq(<<Header>> \o Rows(Current), 1, k) \in Seq(Cells)
    BY <1>1, <1>2, <2>1, PartOf, Starting, ConcatProperties
  <2>4. QED
    BY <1>2, <1>5, <1>7, <2>2, <2>3
<1>8. CASE Doing("excelize") /\ OpenFile("excelize")
             /\ disk' = [disk EXCEPT !["excelize"][File] = NoFile]
  <2>1. Writes("excelize", File, NoFile) /\ NoFile \in Seq(Cells)
    BY <1>8, EmptySeq DEF Writes, OpenFile, NoFile
  <2>2. QED
    BY <1>2, <1>5, <1>8, <2>1
<1>9. CASE UNCHANGED opened /\ disk' = [disk EXCEPT !["gochart"][Name(Current, ChartBy)] = NoFile]
  <2>1. Draws(Name(Current, ChartBy), NoFile)
    BY <1>9 DEF Draws
  <2>2. \A p \in FileOutputs : disk'[p] = disk[p]
    BY <1>2, <2>1, Drawing
  <2>3. QED
    BY <1>1, <1>2, <1>4, <1>9, <2>2 DEF AllFine, OpenedByOutputs
<1>10. QED
  BY <1>6, <1>7, <1>8, <1>9 DEF WriteFails

LEMMA TablesStay ==
  ASSUME Shape, AllFine, OpenedByOutputs, full => full',
         \/ UNCHANGED <<test, given, result, kind, failed, doVars>>
         \/ Fail /\ UNCHANGED <<test, given, result, doVars>>
  PROVE  AllFine' /\ OpenedByOutputs'
<1>1. UNCHANGED <<result, started, kinds, opened, disk, broken>> /\ UNCHANGED <<result, started>>
  BY DEF given, doVars
<1>2. ASSUME NEW o PROVE Handled(o)' = Handled(o)
  <2>1. CASE UNCHANGED <<test, given, result, kind, failed, doVars>>
    BY <2>1 DEF Handled, given
  <2>2. CASE Fail /\ UNCHANGED <<test, given, result, doVars>>
    BY <2>2, HandledFail
  <2>3. QED
    BY <2>1, <2>2
<1>3. ASSUME NEW o \in {"csv", "excelize"}, NEW n \in opened[o]
      PROVE  Fine(o, n)'
  <2>1. PICK s, m : /\ s = disk[o][n] /\ s = disk'[o][n]
                    /\ m = Handled(o) /\ m = Handled(o)'
    BY <1>1, <1>2
  <2>2. (IsTable(s, n, m)' <=> IsTable(s, n, m)) /\ (BeginsTable(s, n)' <=> BeginsTable(s, n))
    BY <1>1, SameTables
  <2>3. File' = File
    BY <1>1 DEF File, Name, Current
  <2>4. FailedIn(o) => FailedIn(o)'
    <3>1. failed # 0 => failed' = failed /\ kinds' = kinds
      BY <1>1 DEF Shape, Place, Fail
    <3>2. QED
      BY <3>1 DEF FailedIn
  <2>5. Fine(o, n)
    BY <1>3 DEF AllFine
  <2>6. CASE IsTable(s, n, m)
    <3>1. IsTable(disk[o][n], n, Handled(o))'
      BY <2>1, <2>2, <2>6
    <3>2. QED
      BY <3>1 DEF Fine
  <2>7. CASE BeginsTable(s, n)
    <3>1. BeginsTable(disk[o][n], n)'
      BY <2>1, <2>2, <2>7
    <3>2. QED
      BY <1>1, <2>1, <2>3, <2>4, <2>5, <2>6, <2>7, <3>1 DEF Fine
  <2>8. CASE o # "csv" /\ FailedIn(o) /\ n = File /\ full
    BY <2>3, <2>4, <2>8 DEF Fine
  <2>9. QED
    BY <2>1, <2>5, <2>6, <2>7, <2>8 DEF Fine
<1>4. AllFine'
  BY <1>1, <1>3 DEF AllFine
<1>5. OpenedByOutputs'
  BY <1>1 DEF OpenedByOutputs
<1>6. QED
  BY <1>4, <1>5

Tables == Distinct => AllFine /\ OpenedByOutputs

LEMMA InitTables == Init => Tables
<1>1. Init => \A o \in FileOutputs : opened[o] = {}
  BY DEF Init
<1>2. "csv" \in FileOutputs /\ "excelize" \in FileOutputs
  BY DEF FileOutputs
<1>3. QED
  BY <1>1, <1>2 DEF Tables, AllFine, OpenedByOutputs

LEMMA NextTables == Shape /\ Sheets /\ AllStored /\ Tables /\ [Next]_vars => Tables'
<1> SUFFICES ASSUME Shape, Sheets, AllStored, Tables, [Next]_vars, Distinct'
             PROVE  AllFine' /\ OpenedByOutputs'
  BY DEF Tables
<1>1. kinds' = kinds
  BY DEF Next, Receive, CSVDo, CSVFlushFails, DumpDo, ExcelizeDo, GoChartDo, GoChartPanics, DoFails,
     WriteFails, DiskFills, NextTest, Stop, vars, given
<1>2. Distinct
  BY <1>1 DEF Distinct
<1>3. AllFine /\ OpenedByOutputs
  BY <1>2 DEF Tables
<1>4. CASE CSVDo \/ CSVFlushFails \/ DumpDo \/ ExcelizeDo
  BY <1>2, <1>3, <1>4, TablesDo
<1>5. CASE GoChartDo
  BY <1>2, <1>3, <1>5, TablesChart
<1>6. ASSUME NEW r \in Results, Receive(r) PROVE AllFine' /\ OpenedByOutputs'
  BY <1>3, <1>6, TablesReceive
<1>7. CASE WriteFails
  BY <1>2, <1>3, <1>7, TablesFail
<1>8. CASE DoFails /\ UNCHANGED <<test, given, result, doVars, full, crashed>>
  <2>1. Fail /\ UNCHANGED <<test, given, result, doVars>> /\ full' = full
    BY <1>8 DEF DoFails
  <2>2. QED
    BY <1>3, <2>1, TablesStay
<1>9. CASE NextTest
  <2>1. \A o \in FileOutputs : opened'[o] = {}
    BY <1>9 DEF NextTest
  <2>2. "csv" \in FileOutputs /\ "excelize" \in FileOutputs
    BY DEF FileOutputs
  <2>3. QED
    BY <2>1, <2>2 DEF AllFine, OpenedByOutputs
<1>10. CASE UNCHANGED <<test, given, result, kind, failed, doVars>> /\ (full => full')
  BY <1>3, <1>10, TablesStay
<1>11. QED
  BY <1>4, <1>5, <1>6, <1>7, <1>8, <1>9, <1>10, OtherSteps

(***************************************************************************)
(* For every list of outputs in which no name is repeated: a csv file or a *)
(* sheet is exactly the table of the results that share it, as far as the  *)
(* output got, and only a csv file may end too early.                      *)
(***************************************************************************)
THEOREM CompletesTables == Spec => [](Distinct => TablesComplete)
<1>1. Spec => [](Shape /\ Sheets /\ AllStored)
  BY InitStored, NextStored, AlwaysShape, PTL DEF Spec
<1>2. Spec => []Tables
  BY <1>1, InitTables, NextTables, PTL DEF Spec
<1>3. Tables => (Distinct => TablesComplete)
  BY FineTables DEF Tables
<1>4. QED
  BY <1>2, <1>3, PTL
=============================================================================
