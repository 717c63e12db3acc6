----------------------- MODULE TransformationsProofs -----------------------
(***************************************************************************)
(* Transform makes of a table what the definition by columns says, for     *)
(* every table, every sharing of its cells and every list of               *)
(* transformations.                                                        *)
(***************************************************************************)
EXTENDS Transformations, SequenceTheorems, FiniteSetTheorems, WellFoundedInduction, TLAPS

Transformation ==
  [source : Names, action : STRING, destination : Names, modifierAction : STRING, modifier : BOOLEAN]

Values == [number : BOOLEAN, modifiers : Seq(STRING)]

TableColumns == [name : Names \union {NoHeader}, values : [1..NRows -> Values \union {NoCell}]]

(***************************************************************************)
(* A table by columns: a deleted column has lost all its values, in any    *)
(* other one all values are numbers or none is.                            *)
(***************************************************************************)
WellFormed(table) ==
  /\ table \in Seq(TableColumns)
  /\ Len(Columns) <= Len(table)
  /\ \A c \in 1..Len(table) :
       IF table[c].name = NoHeader THEN table[c] = Deleted
       ELSE \A r, s \in 1..NRows :
              table[c].values[r] \in Values /\ table[c].values[r].number = table[c].values[s].number

\* The table before the transformation that is under way.
Table == Reference[k - 1]

Sources == {c \in DOMAIN Table : Table[c].name = T.source}

Loop ==
  /\ ts \in TransformationLists
  /\ k \in 1..(Len(ts) + 1) /\ row \in 0..(NRows + 1)
  /\ status \in {"running", "done", "panic"}
  /\ row > 0 => k <= Len(ts) /\ Sources # {} /\ index = Min(Sources)
  /\ status = "panic" => row \in 1..NRows /\ T.action \in {"add", "replace"} /\ ~CanModify

Heads ==
  LET table == IF row = 0 THEN Table ELSE Apply(T, Table)
  IN headers = [c \in DOMAIN table |-> table[c].name]

\* The row has been transformed.
Passed(r) == r < row

Width(r) == IF Passed(r) /\ T.action = "add" THEN Len(Table) + 1 ELSE Len(Table)

Gone(c, r) ==
  \/ c <= Len(Table) /\ Table[c].name = NoHeader
  \/ Passed(r) /\ T.action = "delete" /\ c = index

\* How often a value was modified that is replaced: once for each row that shares it.
Rounds(c, r) == Cardinality({s \in Sharing(c, r) : s < row})

CellValue(c, r) ==
  IF c > Len(Table) THEN ModifyValue(T, Table[index].values[r])
  ELSE IF row > 0 /\ T.action = "replace" /\ c = index
       THEN Times(Rounds(c, r), T, Table[c].values[r])
       ELSE Table[c].values[r]

(***************************************************************************)
(* In the middle of a transformation the rows behind are transformed and   *)
(* the others are not, except that they may share a cell with one that is. *)
(***************************************************************************)
Pointers == {NoCell} \union (Nat \X Nat)

RowDone(r) ==
  /\ Len(rows[r]) = Width(r)
  /\ \A c \in 1..Width(r) :
       IF Gone(c, r) THEN rows[r][c] = NoCell
       ELSE /\ rows[r][c] = Pointer(c, r) /\ rows[r][c] \in DOMAIN cells
            /\ cells[rows[r][c]] = CellValue(c, r)

Cells ==
  /\ rows \in [1..NRows -> Seq(Pointers)]
  /\ cells = [p \in DOMAIN cells |-> cells[p]]
  /\ \A r \in 1..NRows : RowDone(r)

IInv == WellFormed(Table) /\ Loop /\ Heads /\ Cells

-----------------------------------------------------------------------------
(***************************************************************************)
(* The recursion of Reference.  The order of Nat is well-founded, so that  *)
(* every set of numbers has a least one; with a least counterexample the   *)
(* recursion is shown to have a solution, and only one.                    *)
(***************************************************************************)
Before == {p \in Nat \X Nat : p[1] < p[2]}

LEMMA LeastNumber ==
  ASSUME NEW S \in SUBSET Nat, S # {}
  PROVE  \E n \in S : \A m \in S : n <= m
<1>1. IsWellFoundedOn(Before, Nat)
  BY NatLessThanWellFounded DEF OpToRel, Before
<1>2. PICK n \in S : \A m \in S : ~(<<m, n>> \in Before)
  BY <1>1, WFMin
<1>3. ASSUME NEW m \in S PROVE n <= m
  <2>1. <<m, n>> \notin Before /\ m \in Nat /\ n \in Nat
    BY <1>2
  <2>2. <<m, n>> \in Nat \X Nat /\ <<m, n>>[1] = m /\ <<m, n>>[2] = n
    BY <2>1
  <2>3. ~(m < n)
    BY <2>1, <2>2 DEF Before
  <2>4. QED
    BY <2>1, <2>3
<1>4. QED
  BY <1>3

Original == [c \in DOMAIN Columns |-> Column(c)]

\* The tables after 0 to n transformations.
Solves(f, n) ==
  /\ f = [m \in 0..n |-> f[m]]
  /\ f[0] = Original
  /\ \A m \in 1..n : f[m] = Apply(ts[m], f[m - 1])

LEMMA SolutionExists ==
  ASSUME NEW n \in Nat
  PROVE  \E f : Solves(f, n)
<1> DEFINE None == {m \in Nat : ~\E f : Solves(f, m)}
<1> SUFFICES ASSUME None # {} PROVE FALSE
  OBVIOUS
<1>1. PICK m \in None : \A l \in None : m <= l
  BY LeastNumber
<1>2. m \in Nat /\ ~\E f : Solves(f, m)
  BY <1>1
<1>3. CASE m = 0
  <2>1. Solves([x \in 0..0 |-> Original], 0)
    BY DEF Solves
  <2>2. QED
    BY <1>2, <1>3, <2>1
<1>4. CASE m # 0
  <2>1. m - 1 \in Nat /\ m - 1 \notin None
    BY <1>1, <1>2, <1>4
  <2>2. PICK g : Solves(g, m - 1)
    BY <2>1
  <2> DEFINE f == [x \in 0..m |-> IF x = m THEN Apply(ts[m], g[m - 1]) ELSE g[x]]
  <2>3. f[0] = Original
    BY <1>2, <1>4, <2>2 DEF Solves
  <2>4. ASSUME NEW x \in 1..m PROVE f[x] = Apply(ts[x], f[x - 1])
    <3>1. f[x - 1] = g[x - 1]
      BY <1>2, <1>4
    <3>2. CASE x = m
      BY <3>1, <3>2
    <3>3. CASE x # m
      <4>1. x \in 1..(m - 1) /\ f[x] = g[x]
        BY <1>2, <3>3
      <4>2. g[x] = Apply(ts[x], g[x - 1])
        BY <2>2, <4>1 DEF Solves
      <4>3. QED
        BY <3>1, <4>1, <4>2
    <3>4. QED
      BY <3>2, <3>3
  <2>5. Solves(f, m)
    BY <2>3, <2>4 DEF Solves
  <2>6. QED
    BY <1>2, <2>5
<1>5. QED
  BY <1>3, <1>4

LEMMA SolutionUnique ==
  ASSUME NEW n \in Nat, NEW f, Solves(f, n), NEW m \in Nat, NEW g, Solves(g, m), NEW l \in 0..n, l <= m
  PROVE  f[l] = g[l]
<1> DEFINE Differ == {x \in 0..l : f[x] # g[x]}
<1> SUFFICES ASSUME Differ # {} PROVE FALSE
  OBVIOUS
<1>1. PICK x \in Differ : \A y \in Differ : x <= y
  <2>1. Differ \in SUBSET Nat
    OBVIOUS
  <2>2. QED
    BY <2>1, LeastNumber
<1>2. x \in 0..l /\ f[x] # g[x] /\ x # 0
  BY <1>1 DEF Solves
<1>3. x \in 1..n /\ x \in 1..m /\ x - 1 \in 0..l /\ x - 1 \notin Differ
  BY <1>1, <1>2
<1>4. f[x - 1] = g[x - 1]
  BY <1>3
<1>5. f[x] = Apply(ts[x], f[x - 1]) /\ g[x] = Apply(ts[x], g[x - 1])
  BY <1>3 DEF Solves
<1>6. QED
  BY <1>2, <1>4, <1>5

LEMMA ReferenceUnfolds ==
  /\ Reference[0] = Original
  /\ \A n \in Nat \ {0} : Reference[n] = Apply(ts[n], Reference[n - 1])
<1> DEFINE Rec(f) == f = [n \in Nat |-> IF n = 0 THEN [c \in DOMAIN Columns |-> Column(c)]
                                        ELSE Apply(ts[n], f[n - 1])]
           sol(n) == CHOOSE f : Solves(f, n)
           all == [n \in Nat |-> sol(n)[n]]
<1>1. \A n \in Nat : Solves(sol(n), n)
  BY SolutionExists
<1>2. ASSUME NEW n \in Nat
      PROVE  all[n] = IF n = 0 THEN [c \in DOMAIN Columns |-> Column(c)] ELSE Apply(ts[n], all[n - 1])
  <2> HIDE DEF sol
  <2>1. CASE n = 0
    BY <1>1, <2>1 DEF Solves, Original
  <2>2. CASE n # 0
    <3>1. n - 1 \in Nat /\ n \in 1..n
      BY <2>2
    <3>2. sol(n)[n] = Apply(ts[n], sol(n)[n - 1])
      BY <1>1, <3>1 DEF Solves
    <3>3. sol(n - 1)[n - 1] = sol(n)[n - 1]
      BY <1>1, <3>1, SolutionUnique
    <3>4. QED
      BY <2>2, <3>1, <3>2, <3>3
  <2>3. QED
    BY <2>1, <2>2
<1>3. Rec(all)
  <2> HIDE DEF sol
  <2>1. QED
    BY <1>2
<1>4. Rec(CHOOSE f : Rec(f))
  <2> HIDE DEF all, sol
  <2>1. QED
    BY <1>3
<1>5. Reference = CHOOSE f : Rec(f)
  BY DEF Reference
<1>6. Rec(Reference)
  BY <1>4, <1>5
<1>7. ASSUME NEW n \in Nat
      PROVE  Reference[n] = IF n = 0 THEN [c \in DOMAIN Columns |-> Column(c)]
                            ELSE Apply(ts[n], Reference[n - 1])
  BY <1>6
<1>8. QED
  BY <1>7 DEF Original

-----------------------------------------------------------------------------
(* The operators of the model.                                             *)

LEMMA Assumed ==
  /\ Len(Columns) \in Nat /\ DOMAIN Columns = 1..Len(Columns)
  /\ \A c \in 1..Len(Columns) :
       Columns[c].name \in Names /\ Columns[c].number \in BOOLEAN /\ Columns[c].base \in BOOLEAN
  /\ NRows \in Nat /\ \A r \in 1..NRows : ResultOf[r] \in Nat
<1> DEFINE R == [name : Names, number : BOOLEAN, base : BOOLEAN]
<1>1. Columns \in Seq(R) /\ ResultOf \in Seq(Nat)
  BY TransformationsAssumption
<1>2. \A c \in 1..Len(Columns) : Columns[c] \in R
  <2> HIDE DEF R
  <2>1. QED
    BY <1>1
<1>3. QED
  BY <1>1, <1>2 DEF NRows

LEMMA Appended ==
  ASSUME NEW S, NEW s \in Seq(S), NEW e \in S
  PROVE  /\ Append(s, e) \in Seq(S) /\ Len(Append(s, e)) = Len(s) + 1
         /\ Append(s, e)[Len(s) + 1] = e
         /\ \A c \in 1..Len(s) : Append(s, e)[c] = s[c]
OBVIOUS

LEMMA Updated ==
  ASSUME NEW S, NEW s \in Seq(S), NEW e \in S, NEW i \in 1..Len(s)
  PROVE  /\ [s EXCEPT ![i] = e] \in Seq(S) /\ Len([s EXCEPT ![i] = e]) = Len(s)
         /\ [s EXCEPT ![i] = e][i] = e
         /\ \A c \in 1..Len(s) : c # i => [s EXCEPT ![i] = e][c] = s[c]
OBVIOUS

LEMMA MinIsLeast ==
  ASSUME NEW S \in SUBSET Nat, S # {}
  PROVE  Min(S) \in S /\ \A m \in S : Min(S) <= m
BY LeastNumber DEF Min

(* Rows share a cell exactly when they point to the same one.              *)
LEMMA SharingClasses ==
  ASSUME NEW c, NEW r \in 1..NRows
  PROVE  /\ Sharing(c, r) \subseteq 1..NRows /\ r \in Sharing(c, r)
         /\ \A s \in Sharing(c, r) : Sharing(c, s) = Sharing(c, r)
BY DEF Sharing

LEMMA PointersMeet ==
  ASSUME NEW c, NEW r \in 1..NRows, NEW d, NEW s \in 1..NRows
  PROVE  /\ Pointer(c, r) = Pointer(d, s) <=> c = d /\ s \in Sharing(c, r)
         /\ Pointer(c, r)[1] = c
         /\ Pointer(c, r) # NoCell
         /\ c \in Nat => Pointer(c, r) \in Nat \X Nat
<1>1. /\ Sharing(c, r) \in SUBSET Nat /\ Sharing(c, r) # {}
      /\ Sharing(d, s) \in SUBSET Nat /\ Sharing(d, s) # {}
  BY SharingClasses, Assumed
<1>2. Min(Sharing(c, r)) \in Sharing(c, r) /\ Min(Sharing(d, s)) \in Sharing(d, s)
  BY <1>1, MinIsLeast
<1>3. ASSUME c = d, s \in Sharing(c, r) PROVE Pointer(c, r) = Pointer(d, s)
  BY <1>3, SharingClasses DEF Pointer
<1>4. ASSUME Pointer(c, r) = Pointer(d, s) PROVE c = d /\ s \in Sharing(c, r)
  <2>1. c = d /\ Min(Sharing(c, r)) = Min(Sharing(d, s))
    BY <1>4 DEF Pointer
  <2>2. PICK x : x \in Sharing(c, r) /\ x \in Sharing(c, s)
    BY <1>2, <2>1
  <2>3. Sharing(c, x) = Sharing(c, r) /\ Sharing(c, x) = Sharing(c, s)
    BY <2>2, SharingClasses
  <2>4. QED
    BY <2>1, <2>3, SharingClasses
<1>5. Pointer(c, r)[1] = c /\ Len(Pointer(c, r)) = 2 /\ Len(NoCell) = 0
  BY DEF Pointer, NoCell
<1>6. c \in Nat => Pointer(c, r) \in Nat \X Nat
  BY <1>1, <1>2 DEF Pointer
<1>7. QED
  BY <1>3, <1>4, <1>5, <1>6

LEMMA ModifyTyped ==
  ASSUME NEW t \in Transformation, NEW v \in Values
  PROVE  ModifyValue(t, v) \in Values /\ ModifyValue(t, v).number = v.number
BY DEF ModifyValue, Modifies, Transformation, Values

LEMMA OneMore ==
  ASSUME NEW S, NEW a \in S, NEW s \in Seq(S), NEW n \in Nat
  PROVE  Append(s \o [j \in 1..n |-> a], a) = s \o [j \in 1..(n + 1) |-> a]
<1> DEFINE f == [j \in 1..n |-> a]
           g == [j \in 1..(n + 1) |-> a]
<1>f. f \in Seq(S) /\ Len(f) = n /\ \A j \in 1..n : f[j] = a
  OBVIOUS
<1>g. g \in Seq(S) /\ Len(g) = n + 1 /\ \A j \in 1..(n + 1) : g[j] = a
  OBVIOUS
<1> DEFINE x == s \o f
           y == s \o g
<1> HIDE DEF f, g
<1>0. Len(s) \in Nat
  OBVIOUS
<1>1. /\ x \in Seq(S) /\ Len(x) = Len(s) + n
      /\ \A i \in 1..(Len(s) + n) : x[i] = IF i <= Len(s) THEN s[i] ELSE f[i - Len(s)]
  <2>1. /\ x \in Seq(S) /\ Len(x) = Len(s) + Len(f)
        /\ \A i \in 1..Len(s) + Len(f) : x[i] = IF i <= Len(s) THEN s[i] ELSE f[i - Len(s)]
    BY <1>f, <1>g, ConcatProperties
  <2>2. QED
    BY <1>f, <1>g, <2>1
<1>2. /\ y \in Seq(S) /\ Len(y) = Len(s) + (n + 1)
      /\ \A i \in 1..(Len(s) + (n + 1)) : y[i] = IF i <= Len(s) THEN s[i] ELSE g[i - Len(s)]
  <2>1. /\ y \in Seq(S) /\ Len(y) = Len(s) + Len(g)
        /\ \A i \in 1..Len(s) + Len(g) : y[i] = IF i <= Len(s) THEN s[i] ELSE g[i - Len(s)]
    BY <1>f, <1>g, ConcatProperties
  <2>2. QED
    BY <1>f, <1>g, <2>1
<1> HIDE DEF x, y
<1>3. Append(x, a) \in Seq(S) /\ Len(Append(x, a)) = Len(s) + (n + 1)
  <2>1. Append(x, a) \in Seq(S) /\ Len(Append(x, a)) = Len(x) + 1
    BY <1>1, AppendProperties
  <2>2. QED
    BY <1>0, <1>1, <2>1
<1>4. ASSUME NEW i \in 1..(Len(s) + (n + 1)) PROVE Append(x, a)[i] = y[i]
  <2>1. CASE i <= Len(s)
    <3>1. i \in 1..(Len(s) + n) /\ Append(x, a)[i] = x[i]
      BY <1>0, <1>1, <2>1
    <3>2. QED
      BY <1>1, <1>2, <2>1, <3>1
  <2>2. CASE i > Len(s) /\ i <= Len(s) + n
    <3>1. i - Len(s) \in 1..n /\ i - Len(s) \in 1..(n + 1)
      BY <2>2
    <3>2. Append(x, a)[i] = x[i] /\ i \in 1..(Len(s) + n) /\ ~(i <= Len(s))
      BY <1>1, <2>2
    <3>3. QED
      BY <1>f, <1>g, <1>1, <1>2, <3>1, <3>2
  <2>3. CASE i = Len(s) + (n + 1)
    <3>1. i - Len(s) = n + 1 /\ ~(i <= Len(s)) /\ Append(x, a)[i] = a
      BY <1>1, <2>3
    <3>2. QED
      BY <1>g, <1>2, <3>1
  <2>4. i <= Len(s) \/ (i > Len(s) /\ i <= Len(s) + n) \/ i = Len(s) + (n + 1)
    BY <1>0
  <2>5. QED
    BY <2>1, <2>2, <2>3, <2>4
<1>5. QED
  BY <1>2, <1>3, <1>4, SeqEqual DEF x, y, f, g

(* Modifying once more is modifying n + 1 times.                           *)
LEMMA TimesTyped ==
  ASSUME NEW t \in Transformation, NEW v \in Values, NEW n \in Nat
  PROVE  Times(n, t, v) \in Values /\ Times(n, t, v).number = v.number
<1>1. [j \in 1..n |-> t.modifierAction] \in Seq(STRING)
  BY DEF Transformation
<1>2. v.modifiers \o [j \in 1..n |-> t.modifierAction] \in Seq(STRING)
  BY <1>1, ConcatProperties DEF Values
<1>3. QED
  BY <1>2 DEF Times, Values

LEMMA TimesNext ==
  ASSUME NEW t \in Transformation, NEW v \in Values, NEW n \in Nat
  PROVE  /\ Times(0, t, v) = v
         /\ ModifyValue(t, Times(n, t, v)) = Times(n + 1, t, v)
<1> DEFINE a == t.modifierAction
           s == v.modifiers
           more(m) == [j \in 1..m |-> a]
<1>1. a \in STRING /\ s \in Seq(STRING)
  BY DEF Transformation, Values
<1>2. \A m \in Nat : more(m) \in Seq(STRING) /\ Len(more(m)) = m /\ \A j \in 1..m : more(m)[j] = a
  BY <1>1
<1>3. more(0) = <<>>
  <2>1. more(0) \in Seq(STRING) /\ Len(more(0)) = 0
    BY <1>2
  <2>2. QED
    BY <2>1, EmptySeq, SeqEqual
<1>4. s \o more(0) = s
  BY <1>1, <1>3, ConcatEmptySeq
<1>5. Append(s \o more(n), a) = s \o more(n + 1)
  <2>1. PICK S : S = STRING
    OBVIOUS
  <2>2. a \in S /\ s \in Seq(S)
    BY <1>1, <2>1
  <2> HIDE DEF a, s
  <2>3. QED
    BY <2>2, OneMore
<1>6. CASE Modifies(t, v)
  <2>1. Times(0, t, v) = [v EXCEPT !.modifiers = s \o more(0)]
    BY <1>6 DEF Times
  <2>2. Times(0, t, v) = v
    BY <1>4, <2>1 DEF Values
  <2>3. Times(n, t, v) = [v EXCEPT !.modifiers = s \o more(n)]
    BY <1>6 DEF Times
  <2>4. Times(n + 1, t, v) = [v EXCEPT !.modifiers = s \o more(n + 1)]
    BY <1>6 DEF Times
  <2> HIDE DEF a, s, more
  <2>5. /\ Times(n, t, v).number = v.number /\ Times(n, t, v).modifiers = s \o more(n)
        /\ [Times(n, t, v) EXCEPT !.modifiers = s \o more(n + 1)] = Times(n + 1, t, v)
    BY <2>3, <2>4 DEF Values
  <2>6. Modifies(t, Times(n, t, v))
    BY <1>6, <2>5 DEF Modifies
  <2>7. QED
    BY <1>5, <2>2, <2>5, <2>6 DEF ModifyValue, a
<1>7. CASE ~Modifies(t, v)
  BY <1>7 DEF Times, ModifyValue
<1>8. QED
  BY <1>6, <1>7

-----------------------------------------------------------------------------
(* Tables by columns.                                                      *)

LEMMA OriginalWellFormed == WellFormed(Original) /\ Len(Original) = Len(Columns)
<1>1. DOMAIN Original = 1..Len(Columns) /\ Len(Columns) \in Nat
  BY Assumed DEF Original
<1>2. ASSUME NEW c \in 1..Len(Columns)
      PROVE  /\ Original[c] \in TableColumns
             /\ Original[c].name # NoHeader
             /\ \A r, s \in 1..NRows :
                  /\ Original[c].values[r] \in Values
                  /\ Original[c].values[r].number = Original[c].values[s].number
  <2>1. Columns[c].name \in Names /\ Columns[c].number \in BOOLEAN
    BY Assumed
  <2>2. [number |-> Columns[c].number, modifiers |-> <<>>] \in Values
    BY <2>1 DEF Values
  <2>3. /\ Original[c].name = Columns[c].name
        /\ Original[c].values = [r \in 1..NRows |-> [number |-> Columns[c].number, modifiers |-> <<>>]]
    BY <1>1 DEF Original, Column
  <2>4. Original[c] \in TableColumns
    <3>1. Original[c] = [name |-> Columns[c].name, values |-> Original[c].values]
      BY <1>1, <2>3 DEF Original, Column
    <3>2. Original[c].values \in [1..NRows -> Values \union {NoCell}]
      BY <2>2, <2>3
    <3>3. QED
      BY <2>1, <3>1, <3>2 DEF TableColumns
  <2>5. QED
    BY <2>1, <2>2, <2>3, <2>4 DEF Names
<1>3. Original \in [1..Len(Columns) -> TableColumns]
  BY <1>1, <1>2 DEF Original
<1>4. Original \in Seq(TableColumns) /\ Len(Original) = Len(Columns)
  BY <1>1, <1>3
<1>5. QED
  BY <1>1, <1>2, <1>4 DEF WellFormed

LEMMA WithIs ==
  ASSUME NEW S, NEW table \in Seq(S), NEW i \in 1..Len(table), NEW column \in S
  PROVE  /\ With(table, i, column) \in Seq(S)
         /\ Len(With(table, i, column)) = Len(table)
         /\ \A c \in 1..Len(table) :
              With(table, i, column)[c] = IF c = i THEN column ELSE table[c]
<1>1. DOMAIN table = 1..Len(table) /\ Len(table) \in Nat
  OBVIOUS
<1>2. With(table, i, column) \in [1..Len(table) -> S]
  BY <1>1 DEF With
<1>3. QED
  BY <1>1, <1>2 DEF With

\* The parts of Apply.
Source(t, table) == Min({c \in DOMAIN table : table[c].name = t.source})
Once(t, values)  == [r \in 1..NRows |-> ModifyValue(t, values[r])]
Each(t, i, values) == [r \in 1..NRows |-> Times(Cardinality(Sharing(i, r)), t, values[r])]
NewName(t) == IF t.destination = "" THEN t.source ELSE t.destination

LEMMA ApplyIs ==
  ASSUME NEW t, NEW table
  PROVE  LET i == Source(t, table) IN
         /\ t.action = "add" => Apply(t, table) =
              Append(table, [name |-> t.destination, values |-> Once(t, table[i].values)])
         /\ t.action = "delete" => Apply(t, table) = With(table, i, Deleted)
         /\ t.action = "replace" => Apply(t, table) =
              With(table, i, [name |-> NewName(t), values |-> Each(t, i, table[i].values)])
         /\ t.action \notin {"add", "delete", "replace"} => Apply(t, table) = table
BY DEF Apply, Source, Once, Each, NewName

LEMMA SourceFound ==
  ASSUME NEW t \in Transformation, NEW table, WellFormed(table),
         {c \in DOMAIN table : table[c].name = t.source} # {}
  PROVE  LET i == Source(t, table) IN
         /\ i \in 1..Len(table) /\ table[i].name = t.source /\ t.source # NoHeader
         /\ \A r, s \in 1..NRows :
              table[i].values[r] \in Values /\ table[i].values[r].number = table[i].values[s].number
<1> DEFINE S == {c \in DOMAIN table : table[c].name = t.source}
<1>1. DOMAIN table = 1..Len(table) /\ Len(table) \in Nat
  BY DEF WellFormed
<1>2. S \in SUBSET Nat /\ S # {}
  BY <1>1
<1>3. Source(t, table) \in S
  <2> HIDE DEF S
  <2>1. Min(S) \in S
    BY <1>2, MinIsLeast
  <2>2. QED
    BY <2>1 DEF Source, S
<1>4. t.source # NoHeader
  BY DEF Transformation, Names
<1>5. QED
  BY <1>1, <1>3, <1>4 DEF WellFormed

LEMMA ColumnTyped ==
  ASSUME NEW values, NEW name \in Names, values = [r \in 1..NRows |-> values[r]],
         \A r, s \in 1..NRows : values[r] \in Values /\ values[r].number = values[s].number
  PROVE  LET column == [name |-> name, values |-> values] IN
         /\ column \in TableColumns /\ column.name # NoHeader
         /\ \A r, s \in 1..NRows :
              column.values[r] \in Values /\ column.values[r].number = column.values[s].number
<1>1. values \in [1..NRows -> Values \union {NoCell}]
  OBVIOUS
<1>2. name # NoHeader
  BY DEF Names
<1>3. QED
  BY <1>1, <1>2 DEF TableColumns

(* What Apply does to each column, and that the table remains well-formed. *)
LEMMA ApplyMakes ==
  ASSUME NEW t \in Transformation, NEW table, WellFormed(table),
         {c \in DOMAIN table : table[c].name = t.source} # {}
  PROVE  LET i   == Source(t, table)
             new == Apply(t, table)
             n   == Len(table)
         IN
         /\ WellFormed(new)
         /\ t.action = "add" =>
              /\ Len(new) = n + 1
              /\ \A c \in 1..n : new[c] = table[c]
              /\ new[n + 1] = [name |-> t.destination, values |-> Once(t, table[i].values)]
         /\ t.action # "add" =>
              /\ Len(new) = n
              /\ \A c \in 1..n : c # i => new[c] = table[c]
         /\ t.action = "delete" => new[i] = Deleted
         /\ t.action = "replace" =>
              new[i] = [name |-> NewName(t), values |-> Each(t, i, table[i].values)]
         /\ t.action \notin {"add", "delete", "replace"} => new[i] = table[i]
<1> DEFINE i   == Source(t, table)
           new == Apply(t, table)
           n   == Len(table)
           added == [name |-> t.destination, values |-> Once(t, table[i].values)]
           replaced == [name |-> NewName(t), values |-> Each(t, i, table[i].values)]
<1>1. /\ table \in Seq(TableColumns) /\ n \in Nat /\ DOMAIN table = 1..n /\ Len(Columns) <= n
      /\ Len(Columns) \in Nat
  BY Assumed DEF WellFormed
<1>2. /\ i \in 1..n
      /\ \A r, s \in 1..NRows :
           table[i].values[r] \in Values /\ table[i].values[r].number = table[i].values[s].number
  BY SourceFound
<1> HIDE DEF i
<1>3. /\ t.destination \in Names /\ NewName(t) \in Names
  BY DEF Transformation, NewName
<1>5. ASSUME NEW f, f = Once(t, table[i].values) \/ f = Each(t, i, table[i].values)
      PROVE  /\ f = [r \in 1..NRows |-> f[r]]
             /\ \A r, s \in 1..NRows : f[r] \in Values /\ f[r].number = f[s].number
  <2>1. f = [r \in 1..NRows |-> f[r]]
    BY <1>5 DEF Once, Each
  <2>2. ASSUME NEW r \in 1..NRows PROVE f[r] \in Values /\ f[r].number = table[i].values[r].number
    <3>1. CASE f = Once(t, table[i].values)
      <4>1. f[r] = ModifyValue(t, table[i].values[r])
        BY <3>1 DEF Once
      <4>2. QED
        BY <1>2, <4>1, ModifyTyped
    <3>2. CASE f = Each(t, i, table[i].values)
      <4>1. f[r] = Times(Cardinality(Sharing(i, r)), t, table[i].values[r])
        BY <3>2 DEF Each
      <4>2. Cardinality(Sharing(i, r)) \in Nat
        <5>1. IsFiniteSet(1..NRows)
          BY FS_Interval, Assumed
        <5>2. IsFiniteSet(Sharing(i, r))
          BY <5>1, SharingClasses, FS_Subset
        <5>3. QED
          BY <5>2, FS_CardinalityType
      <4>3. PICK v \in Values : v = table[i].values[r]
        BY <1>2
      <4>4. PICK m \in Nat : m = Cardinality(Sharing(i, r))
        BY <4>2
      <4>5. Times(m, t, v) \in Values /\ Times(m, t, v).number = v.number
        BY TimesTyped
      <4>6. QED
        BY <4>1, <4>3, <4>4, <4>5
    <3>3. QED
      BY <1>5, <3>1, <3>2
  <2>3. QED
    BY <1>2, <2>1, <2>2
<1>6. /\ added \in TableColumns /\ added.name # NoHeader
      /\ \A r, s \in 1..NRows :
           added.values[r] \in Values /\ added.values[r].number = added.values[s].number
  <2>1. PICK f : f = Once(t, table[i].values)
    OBVIOUS
  <2>2. f = [r \in 1..NRows |-> f[r]] /\ \A r, s \in 1..NRows : f[r] \in Values /\ f[r].number = f[s].number
    BY <1>5, <2>1
  <2>3. PICK column : column = [name |-> t.destination, values |-> f]
    OBVIOUS
  <2>4. /\ column \in TableColumns /\ column.name # NoHeader
        /\ \A r, s \in 1..NRows :
             column.values[r] \in Values /\ column.values[r].number = column.values[s].number
    BY <1>3, <2>2, <2>3, ColumnTyped
  <2>5. QED
    BY <2>1, <2>3, <2>4
<1>7. /\ replaced \in TableColumns /\ replaced.name # NoHeader
      /\ \A r, s \in 1..NRows :
           replaced.values[r] \in Values /\ replaced.values[r].number = replaced.values[s].number
  <2>1. PICK f : f = Each(t, i, table[i].values)
    OBVIOUS
  <2>2. f = [r \in 1..NRows |-> f[r]] /\ \A r, s \in 1..NRows : f[r] \in Values /\ f[r].number = f[s].number
    BY <1>5, <2>1
  <2>3. PICK column : column = [name |-> NewName(t), values |-> f]
    OBVIOUS
  <2>4. /\ column \in TableColumns /\ column.name # NoHeader
        /\ \A r, s \in 1..NRows :
             column.values[r] \in Values /\ column.values[r].number = column.values[s].number
    BY <1>3, <2>2, <2>3, ColumnTyped
  <2>5. QED
    BY <2>1, <2>3, <2>4
<1>8. Deleted \in TableColumns /\ Deleted.name = NoHeader
  <2>1. [r \in 1..NRows |-> NoCell] \in [1..NRows -> Values \union {NoCell}]
    OBVIOUS
  <2>2. QED
    BY <2>1 DEF Deleted, TableColumns
<1>9. /\ t.action = "add" => new = Append(table, added)
      /\ t.action = "delete" => new = With(table, i, Deleted)
      /\ t.action = "replace" => new = With(table, i, replaced)
      /\ t.action \notin {"add", "delete", "replace"} => new = table
  BY ApplyIs DEF i
<1> HIDE DEF new, n, added, replaced
<1>w. ASSUME NEW column \in TableColumns
      PROVE  /\ With(table, i, column) \in Seq(TableColumns) /\ Len(With(table, i, column)) = n
             /\ \A c \in 1..n : With(table, i, column)[c] = IF c = i THEN column ELSE table[c]
  <2>1. PICK S : S = TableColumns
    OBVIOUS
  <2>2. table \in Seq(S) /\ column \in S /\ i \in 1..Len(table)
    BY <1>1, <1>2, <2>1 DEF n
  <2> HIDE DEF i
  <2>3. QED
    BY <2>1, <2>2, WithIs DEF n
<1>10. \A c \in 1..n :
         IF table[c].name = NoHeader THEN table[c] = Deleted
         ELSE \A r, s \in 1..NRows :
                table[c].values[r] \in Values /\ table[c].values[r].number = table[c].values[s].number
  BY DEF WellFormed, n
<1>11. CASE t.action = "add"
  <2>1. /\ new \in Seq(TableColumns) /\ Len(new) = n + 1
        /\ \A c \in 1..n : new[c] = table[c]
        /\ new[n + 1] = added
    <3>1. PICK S : S = TableColumns
      OBVIOUS
    <3>2. table \in Seq(S) /\ added \in S /\ new = Append(table, added)
      BY <1>1, <1>6, <1>9, <1>11, <3>1
    <3>3. QED
      BY <3>1, <3>2, Appended DEF n
  <2>2. \A c \in 1..(n + 1) : c \in 1..n \/ c = n + 1
    BY <1>1
  <2>3. WellFormed(new)
    BY <1>1, <1>6, <1>10, <2>1, <2>2 DEF WellFormed
  <2>4. QED
    BY <1>11, <2>1, <2>3 DEF i, new, n, added
<1>12. CASE t.action = "delete"
  <2>1. /\ new \in Seq(TableColumns) /\ Len(new) = n
        /\ \A c \in 1..n : new[c] = IF c = i THEN Deleted ELSE table[c]
    BY <1>8, <1>9, <1>12, <1>w
  <2>2. WellFormed(new)
    BY <1>1, <1>8, <1>10, <2>1 DEF WellFormed
  <2>3. QED
    BY <1>2, <1>12, <2>1, <2>2 DEF i, new, n
<1>13. CASE t.action = "replace"
  <2>1. /\ new \in Seq(TableColumns) /\ Len(new) = n
        /\ \A c \in 1..n : new[c] = IF c = i THEN replaced ELSE table[c]
    BY <1>7, <1>9, <1>13, <1>w
  <2>2. WellFormed(new)
    BY <1>1, <1>7, <1>10, <2>1 DEF WellFormed
  <2>3. QED
    BY <1>2, <1>13, <2>1, <2>2 DEF i, new, n, replaced
<1>14. CASE t.action \notin {"add", "delete", "replace"}
  BY <1>9, <1>14 DEF i, new, n
<1>15. QED
  BY <1>11, <1>12, <1>13, <1>14

-----------------------------------------------------------------------------
(* The invariant.                                                          *)

LEMMA KnownTransformation ==
  ASSUME ts \in TransformationLists
  PROVE  Len(ts) \in Nat /\ \A j \in 1..Len(ts) : ts[j] \in Transformation
<1>1. ts \in Seq(Transformation)
  BY TransformationsAssumption DEF Transformation
<1>2. QED
  BY <1>1

LEMMA ReferenceStays ==
  ASSUME UNCHANGED ts
  PROVE  Reference' = Reference
BY DEF Reference

(* What the transformation under way finds, at every one of its rows.      *)
LEMMA UnderWay ==
  ASSUME IInv, row > 0
  PROVE  /\ k \in 1..Len(ts) /\ T \in Transformation /\ Len(Table) \in Nat /\ Len(Columns) <= Len(Table)
         /\ DOMAIN Table = 1..Len(Table)
         /\ index = Source(T, Table) /\ Sources # {}
         /\ index \in 1..Len(Table) /\ Table[index].name = T.source /\ T.source # NoHeader
         /\ \A r, s \in 1..NRows :
              /\ Table[index].values[r] \in Values
              /\ Table[index].values[r].number = Table[index].values[s].number
<1>1. /\ ts \in TransformationLists /\ k \in 1..(Len(ts) + 1) /\ k <= Len(ts)
      /\ Sources # {} /\ index = Min(Sources) /\ WellFormed(Table)
  BY DEF IInv, Loop
<1>2. k \in 1..Len(ts) /\ T \in Transformation
  BY <1>1, KnownTransformation DEF T
<1>3. Len(Table) \in Nat /\ Len(Columns) <= Len(Table) /\ DOMAIN Table = 1..Len(Table)
  BY <1>1 DEF WellFormed
<1>4. index = Source(T, Table) /\ {c \in DOMAIN Table : Table[c].name = T.source} # {}
  BY <1>1 DEF Sources, Source
<1>5. QED
  BY <1>1, <1>2, <1>3, <1>4, SourceFound

(* The cell that the row under way modifies.                               *)
LEMMA CurrentCell ==
  ASSUME IInv, row \in 1..NRows
  PROVE  /\ rows[row] \in Seq(Pointers) /\ Len(rows[row]) = Len(Table)
         /\ rows[row][index] = Pointer(index, row) /\ rows[row][index] \in DOMAIN cells
         /\ Value = CellValue(index, row)
         /\ T.action # "replace" => Value = Table[index].values[row]
         /\ Value \in Values /\ Value.number = Table[index].values[row].number
<1>0. row > 0 /\ ~Passed(row)
  BY Assumed DEF Passed
<1>1. /\ T \in Transformation /\ Len(Table) \in Nat
      /\ index \in 1..Len(Table) /\ Table[index].name # NoHeader
      /\ Table[index].values[row] \in Values
  BY <1>0, UnderWay
<1>2. RowDone(row) /\ rows[row] \in Seq(Pointers)
  BY DEF IInv, Cells
<1>3. Width(row) = Len(Table) /\ ~Gone(index, row)
  BY <1>0, <1>1 DEF Width, Gone
<1>4. /\ Len(rows[row]) = Len(Table)
      /\ rows[row][index] = Pointer(index, row) /\ rows[row][index] \in DOMAIN cells
      /\ Value = CellValue(index, row)
  BY <1>1, <1>2, <1>3 DEF RowDone, Value
<1>5. \/ Value = Table[index].values[row]
      \/ T.action = "replace" /\ Value = Times(Rounds(index, row), T, Table[index].values[row])
  BY <1>1, <1>4 DEF CellValue
<1>6. Rounds(index, row) \in Nat
  <2>1. IsFiniteSet(1..NRows)
    BY FS_Interval, Assumed
  <2>2. {s \in Sharing(index, row) : s < row} \subseteq 1..NRows
    BY SharingClasses
  <2>3. IsFiniteSet({s \in Sharing(index, row) : s < row})
    BY <2>1, <2>2, FS_Subset
  <2>4. QED
    BY <2>3, FS_CardinalityType DEF Rounds
<1>7. Value \in Values /\ Value.number = Table[index].values[row].number
  <2>1. PICK v \in Values : v = Table[index].values[row]
    BY <1>1
  <2>2. PICK n \in Nat : n = Rounds(index, row)
    BY <1>6
  <2>3. Times(n, T, v) \in Values /\ Times(n, T, v).number = v.number
    BY <1>1, TimesTyped
  <2>4. QED
    BY <1>5, <2>1, <2>2, <2>3
<1>8. QED
  BY <1>2, <1>4, <1>5, <1>7

LEMMA InitIInv == Init => IInv
<1> SUFFICES ASSUME Init PROVE IInv
  OBVIOUS
<1>1. Table = Original /\ k = 1 /\ row = 0
  <2>1. k - 1 = 0 /\ k = 1 /\ row = 0
    BY DEF Init
  <2>2. QED
    BY <2>1, ReferenceUnfolds DEF Table
<1>2. WellFormed(Table) /\ Len(Table) = Len(Columns)
  BY <1>1, OriginalWellFormed
<1>3. Loop
  <2>1. ts \in TransformationLists /\ status = "running"
    BY DEF Init
  <2>2. QED
    BY <1>1, <2>1, KnownTransformation, Assumed DEF Loop
<1>4. Heads
  BY <1>1 DEF Init, Heads, Original, Column
<1>5. Cells
  <2>1. /\ rows = [r \in 1..NRows |-> [c \in 1..Len(Columns) |-> Pointer(c, r)]]
        /\ cells = [p \in {Pointer(c, r) : c \in 1..Len(Columns), r \in 1..NRows} |->
                     [number |-> Columns[p[1]].number, modifiers |-> <<>>]]
    BY Assumed DEF Init
  <2>2. \A r \in 1..NRows : rows[r] \in Seq(Pointers) /\ Len(rows[r]) = Len(Columns)
    <3> SUFFICES ASSUME NEW r \in 1..NRows
                 PROVE  rows[r] \in Seq(Pointers) /\ Len(rows[r]) = Len(Columns)
      OBVIOUS
    <3>1. \A c \in 1..Len(Columns) : Pointer(c, r) \in Pointers
      BY PointersMeet DEF Pointers
    <3>2. rows[r] \in [1..Len(Columns) -> Pointers]
      BY <2>1, <3>1
    <3>3. PICK n \in Nat : n = Len(Columns)
      BY Assumed
    <3>4. QED
      BY <3>2, <3>3
  <2>3. ASSUME NEW r \in 1..NRows PROVE RowDone(r)
    <3>1. Width(r) = Len(Columns) /\ ~Passed(r)
      BY <1>1, <1>2, Assumed DEF Width, Passed
    <3>2. ASSUME NEW c \in 1..Len(Columns)
          PROVE  /\ ~Gone(c, r)
                 /\ rows[r][c] = Pointer(c, r) /\ rows[r][c] \in DOMAIN cells
                 /\ cells[rows[r][c]] = CellValue(c, r)
      <4>1. rows[r][c] = Pointer(c, r) /\ Pointer(c, r) \in DOMAIN cells /\ Pointer(c, r)[1] = c
        BY <2>1, PointersMeet
      <4>2. cells[Pointer(c, r)] = [number |-> Columns[c].number, modifiers |-> <<>>]
        BY <2>1, <4>1
      <4>3. /\ Table[c].name = Columns[c].name
            /\ Table[c].values[r] = [number |-> Columns[c].number, modifiers |-> <<>>]
        BY <1>1, Assumed DEF Original, Column
      <4>4. ~Gone(c, r)
        BY <3>1, <4>3, Assumed DEF Gone, Names
      <4>5. CellValue(c, r) = Table[c].values[r]
        BY <1>1, <1>2, Assumed DEF CellValue
      <4>6. QED
        BY <4>1, <4>2, <4>3, <4>4, <4>5
    <3>3. QED
      BY <2>2, <3>1, <3>2 DEF RowDone
  <2>4. QED
    BY <2>1, <2>2, <2>3 DEF Cells
<1>6. QED
  BY <1>2, <1>3, <1>4, <1>5 DEF IInv

(* Steps that leave the table and the loop alone.                          *)
LEMMA TableStays ==
  ASSUME IInv, UNCHANGED <<headers, rows, cells, ts, k, index, row>>
  PROVE  WellFormed(Table)' /\ Heads' /\ Cells' /\ T' = T /\ Table' = Table /\ Value' = Value
<1>1. Table' = Table /\ T' = T
  BY ReferenceStays DEF Table, T
<1>2. WellFormed(Table)' /\ Heads'
  BY <1>1 DEF IInv, WellFormed, Heads
<1>3. Value' = Value
  BY DEF Value
<1>4. ASSUME NEW r \in 1..NRows PROVE RowDone(r)'
  <2>1. RowDone(r)
    BY DEF IInv, Cells
  <2>2. Width(r)' = Width(r)
    BY <1>1 DEF Width, Passed
  <2>3. ASSUME NEW c PROVE Gone(c, r)' = Gone(c, r) /\ CellValue(c, r)' = CellValue(c, r)
    BY <1>1 DEF Gone, CellValue, Passed, Rounds
  <2>4. QED
    BY <2>1, <2>2, <2>3 DEF RowDone
<1>5. Cells'
  BY <1>4 DEF IInv, Cells
<1>6. QED
  BY <1>1, <1>2, <1>3, <1>5

(* The header has been found: no row is transformed yet.                   *)
LEMMA HeadersStep == IInv /\ TransformHeaders => IInv'
<1> SUFFICES ASSUME IInv, TransformHeaders PROVE IInv'
  OBVIOUS
<1>1. /\ status = "running" /\ k <= Len(ts) /\ row = 0 /\ Found # {} /\ index' = Min(Found) /\ row' = 1
      /\ UNCHANGED <<rows, cells, ts, k, status>>
  BY DEF TransformHeaders, AtHeader
<1>2. Table' = Table /\ T' = T
  BY <1>1, ReferenceStays DEF Table, T
<1>3. headers = [c \in DOMAIN Table |-> Table[c].name] /\ WellFormed(Table)
  BY <1>1 DEF IInv, Heads
<1>4. /\ Found = {c \in DOMAIN Table : Table[c].name = T.source} /\ Found = Sources
      /\ index' = Source(T, Table)
  BY <1>1, <1>3 DEF Found, Sources, Source
<1>5. k \in 1..Len(ts) /\ T \in Transformation /\ ts \in TransformationLists
  <2>1. ts \in TransformationLists /\ k \in 1..(Len(ts) + 1)
    BY DEF IInv, Loop
  <2>2. Len(ts) \in Nat /\ \A j \in 1..Len(ts) : ts[j] \in Transformation
    BY <2>1, KnownTransformation
  <2>3. k \in 1..Len(ts)
    BY <1>1, <2>1, <2>2
  <2>4. QED
    BY <2>1, <2>2, <2>3 DEF T
<1>6. Loop'
  BY <1>1, <1>2, <1>4, <1>5, Assumed DEF Loop, Sources
<1> DEFINE i == Source(T, Table)
           new == Apply(T, Table)
<1>7. /\ i \in 1..Len(Table) /\ Table[i].name = T.source /\ T.source # NoHeader
      /\ \A r \in 1..NRows : Table[i].values[r] \in Values
  BY <1>1, <1>3, <1>4, <1>5, SourceFound
<1>8. DOMAIN Table = 1..Len(Table) /\ Len(Table) \in Nat /\ Table \in Seq(TableColumns)
  BY <1>3 DEF WellFormed
<1>9. Heads'
  <2>1. headers \in Seq(Names \union {NoHeader}) /\ Len(headers) = Len(Table) /\ DOMAIN headers = 1..Len(Table)
    <3>1. \A c \in 1..Len(Table) : Table[c].name \in Names \union {NoHeader}
      <4>1. \A c \in 1..Len(Table) : Table[c] \in TableColumns
        BY <1>8
      <4>2. QED
        BY <4>1 DEF TableColumns
    <3>2. PICK n \in Nat : n = Len(Table)
      BY <1>8
    <3>3. headers \in [1..n -> Names \union {NoHeader}]
      BY <1>3, <1>8, <3>1, <3>2
    <3>4. QED
      BY <3>2, <3>3
  <2>2. /\ WellFormed(new)
        /\ T.action = "add" => Len(new) = Len(Table) + 1 /\ new[Len(Table) + 1].name = T.destination
                               /\ \A c \in 1..Len(Table) : new[c] = Table[c]
        /\ T.action # "add" => Len(new) = Len(Table) /\ \A c \in 1..Len(Table) : c # i => new[c] = Table[c]
        /\ T.action = "delete" => new[i].name = NoHeader
        /\ T.action = "replace" => new[i].name = NewName(T)
        /\ T.action \notin {"add", "delete", "replace"} => new[i] = Table[i]
    <3>1. {c \in DOMAIN Table : Table[c].name = T.source} # {}
      BY <1>1, <1>4
    <3>2. /\ WellFormed(new)
          /\ T.action = "add" =>
               /\ Len(new) = Len(Table) + 1
               /\ \A c \in 1..Len(Table) : new[c] = Table[c]
               /\ new[Len(Table) + 1] = [name |-> T.destination, values |-> Once(T, Table[i].values)]
          /\ T.action # "add" => Len(new) = Len(Table) /\ \A c \in 1..Len(Table) : c # i => new[c] = Table[c]
          /\ T.action = "delete" => new[i] = Deleted
          /\ T.action = "replace" => new[i] = [name |-> NewName(T), values |-> Each(T, i, Table[i].values)]
          /\ T.action \notin {"add", "delete", "replace"} => new[i] = Table[i]
      BY <1>3, <1>5, <3>1, ApplyMakes
    <3> HIDE DEF new, i
    <3>3. QED
      BY <3>2 DEF Deleted
  <2>3. DOMAIN new = 1..Len(new)
    BY <2>2 DEF WellFormed
  <2> HIDE DEF new, i
  <2>4. CASE T.action = "add"
    <3>1. headers' = Append(headers, T.destination)
      BY <2>4 DEF TransformHeaders
    <3>2. T.destination \in Names \union {NoHeader}
      BY <1>5 DEF Transformation
    <3>3. headers' \in Seq(Names \union {NoHeader}) /\ Len(headers') = Len(Table) + 1
      BY <1>8, <2>1, <3>1, <3>2
    <3>4. DOMAIN headers' = 1..(Len(Table) + 1)
      BY <3>3
    <3>5. ASSUME NEW c \in 1..(Len(Table) + 1) PROVE headers'[c] = new[c].name
      <4>1. CASE c = Len(Table) + 1
        BY <1>8, <2>1, <2>2, <2>4, <3>1, <4>1
      <4>2. CASE c # Len(Table) + 1
        <5>1. c \in 1..Len(Table)
          BY <1>8, <4>2
        <5>2. headers'[c] = headers[c]
          BY <1>8, <2>1, <3>1, <5>1
        <5>3. QED
          BY <1>3, <1>8, <2>2, <2>4, <5>1, <5>2
      <4>3. QED
        BY <4>1, <4>2
    <3>6. headers' = [c \in DOMAIN headers' |-> headers'[c]]
      BY <3>3
    <3>7. headers' = [c \in DOMAIN new |-> new[c].name]
      BY <2>2, <2>3, <2>4, <3>4, <3>5, <3>6
    <3>8. QED
      BY <1>1, <1>2, <3>7 DEF Heads, new
  <2>5. CASE T.action # "add"
    <3>1. headers' = [c \in 1..Len(Table) |-> new[c].name]
      <4>1. headers = [c \in 1..Len(Table) |-> Table[c].name] /\ index' = i /\ i \in 1..Len(Table)
        BY <1>3, <1>4, <1>7, <1>8 DEF i
      <4>2. CASE T.action = "delete"
        <5>1. headers' = [headers EXCEPT ![i] = NoHeader]
          BY <4>1, <4>2 DEF TransformHeaders
        <5>2. QED
          BY <2>2, <2>5, <4>1, <4>2, <5>1
      <4>3. CASE T.action = "replace"
        <5>1. headers' = [headers EXCEPT ![i] = NewName(T)]
          BY <4>1, <4>3 DEF TransformHeaders, NewName
        <5>2. QED
          BY <2>2, <2>5, <4>1, <4>3, <5>1
      <4>4. CASE T.action \notin {"add", "delete", "replace"}
        <5>1. headers' = headers
          BY <4>4 DEF TransformHeaders
        <5>2. \A c \in 1..Len(Table) : new[c] = Table[c]
          BY <2>2, <2>5, <4>4
        <5>3. QED
          BY <4>1, <5>1, <5>2
      <4>5. QED
        BY <2>5, <4>2, <4>3, <4>4
    <3>2. QED
      <4>1. headers' = [c \in DOMAIN new |-> new[c].name]
        BY <2>2, <2>3, <2>5, <3>1
      <4>2. QED
        BY <1>1, <1>2, <4>1 DEF Heads, new
  <2>6. QED
    BY <2>4, <2>5
<1>10. ASSUME NEW r \in 1..NRows PROVE RowDone(r)'
  <2>1. RowDone(r) /\ ~Passed(r) /\ ~Passed(r)'
    BY <1>1, Assumed DEF IInv, Cells, Passed
  <2>2. Width(r)' = Len(Table) /\ Width(r) = Len(Table)
    BY <1>2, <2>1 DEF Width
  <2>3. ASSUME NEW c \in 1..Len(Table) PROVE Gone(c, r)' = Gone(c, r)
    BY <1>2, <2>1 DEF Gone
  <2>4. ASSUME NEW c \in 1..Len(Table), ~Gone(c, r) PROVE CellValue(c, r)' = CellValue(c, r)
    <3>1. CellValue(c, r) = Table[c].values[r]
      BY <1>1, <1>8 DEF CellValue
    <3>2. CASE T.action = "replace" /\ c = index'
      <4>1. {s \in Sharing(c, r) : s < 1} = {}
        BY SharingClasses
      <4>2. Rounds(c, r)' = 0
        BY <1>1, <4>1, FS_EmptySet DEF Rounds
      <4>3. CellValue(c, r)' = Times(0, T, Table[c].values[r])
        BY <1>1, <1>2, <1>8, <3>2, <4>2 DEF CellValue
      <4>4. Table[c].values[r] \in Values
        BY <1>4, <1>7, <3>2
      <4>5. QED
        BY <1>5, <3>1, <4>3, <4>4, TimesNext
    <3>3. CASE ~(T.action = "replace" /\ c = index')
      BY <1>2, <1>8, <3>1, <3>3 DEF CellValue
    <3>4. QED
      BY <3>2, <3>3
  <2>5. QED
    BY <1>1, <2>1, <2>2, <2>3, <2>4 DEF RowDone
<1>11. Cells'
  BY <1>1, <1>10 DEF IInv, Cells
<1>12. QED
  BY <1>2, <1>3, <1>6, <1>9, <1>11 DEF IInv, WellFormed

(* A row is transformed: what all four kinds of row have in common.        *)
LEMMA RowStep ==
  ASSUME IInv, row \in 1..NRows, status = "running", NextRow,
         rows' \in [1..NRows -> Seq(Pointers)], cells' = [p \in DOMAIN cells' |-> cells'[p]],
         \A r \in 1..NRows : RowDone(r)'
  PROVE  IInv'
<1>1. row' = row + 1 /\ UNCHANGED <<headers, ts, k, index, status>> /\ row > 0
  BY Assumed DEF NextRow
<1>2. Table' = Table /\ T' = T
  BY <1>1, ReferenceStays DEF Table, T
<1>3. Loop'
  BY <1>1, <1>2, Assumed DEF IInv, Loop, Sources
<1>4. Heads'
  BY <1>1, <1>2, Assumed DEF IInv, Heads
<1>5. WellFormed(Table)'
  BY <1>2 DEF IInv, WellFormed
<1>6. QED
  BY <1>3, <1>4, <1>5 DEF IInv, Cells

(* The other rows stay as they are, as long as their cells do.             *)
LEMMA OtherRows ==
  ASSUME IInv, row \in 1..NRows, NextRow, NEW r \in 1..NRows, r # row, rows'[r] = rows[r],
         \A c \in 1..Width(r) : ~Gone(c, r) =>
            /\ rows[r][c] \in DOMAIN cells'
            /\ cells'[rows[r][c]] = CellValue(c, r)'
  PROVE  RowDone(r)'
<1>1. row' = row + 1 /\ UNCHANGED <<ts, k, index>>
  BY DEF NextRow
<1>2. Table' = Table /\ T' = T
  BY <1>1, ReferenceStays DEF Table, T
<1>3. Passed(r)' = Passed(r)
  BY <1>1, Assumed DEF Passed
<1>4. Width(r)' = Width(r) /\ \A c : Gone(c, r)' = Gone(c, r)
  BY <1>1, <1>2, <1>3 DEF Width, Gone
<1>5. RowDone(r)
  BY DEF IInv, Cells
<1>6. QED
  BY <1>4, <1>5 DEF RowDone

-----------------------------------------------------------------------------
(* The steps at the rows.                                                  *)

LEMMA AddStep == IInv /\ AddCell => IInv'
<1> SUFFICES ASSUME IInv, AddCell PROVE IInv'
  OBVIOUS
<1> DEFINE n == Len(Table)
           p == Pointer(Len(headers), row)
<1>1. /\ status = "running" /\ row \in 1..NRows /\ T.action = "add" /\ NextRow
      /\ rows' = [rows EXCEPT ![row] = Append(@, p)]
      /\ cells' = [q \in DOMAIN cells \union {p} |-> IF q = p THEN ModifyValue(T, Value) ELSE cells[q]]
  BY DEF AddCell, AtRow
<1>2. row > 0 /\ row' = row + 1 /\ UNCHANGED <<ts, k, index>>
  BY <1>1, Assumed DEF NextRow
<1>3. Table' = Table /\ T' = T
  BY <1>2, ReferenceStays DEF Table, T
<1>4. /\ T \in Transformation /\ n \in Nat /\ Len(Columns) <= n /\ index \in 1..n /\ Sources # {}
      /\ WellFormed(Table) /\ Len(Columns) \in Nat
  BY <1>2, UnderWay, Assumed DEF IInv
<1>5. Len(headers) = n + 1
  <2>1. headers = [c \in DOMAIN Apply(T, Table) |-> Apply(T, Table)[c].name]
    BY <1>2 DEF IInv, Heads
  <2>2. WellFormed(Apply(T, Table)) /\ Len(Apply(T, Table)) = n + 1
    BY <1>1, <1>4, ApplyMakes DEF Sources
  <2>3. DOMAIN headers = 1..(n + 1)
    BY <2>1, <2>2 DEF WellFormed
  <2>4. headers = [c \in 1..(n + 1) |-> headers[c]]
    BY <2>1, <2>3
  <2>5. PICK m \in Nat : m = n + 1
    BY <1>4
  <2>6. QED
    BY <2>4, <2>5
<1>6. p = Pointer(n + 1, row) /\ p \in Pointers /\ p # NoCell
  BY <1>1, <1>4, <1>5, PointersMeet DEF Pointers
<1> HIDE DEF p, n
<1>7. /\ rows[row] \in Seq(Pointers) /\ Len(rows[row]) = n /\ Value = Table[index].values[row]
  BY <1>1, CurrentCell DEF n
<1>8. rows' \in [1..NRows -> Seq(Pointers)]
  BY <1>1, <1>6, <1>7 DEF IInv, Cells
<1>9. cells' = [q \in DOMAIN cells' |-> cells'[q]]
  BY <1>1
\* No other pointer is the new one.
<1>10. ASSUME NEW r \in 1..NRows, NEW c \in 1..(n + 1), r # row \/ c # n + 1
       PROVE  Pointer(c, r) # p
  <2>1. CASE c # n + 1
    BY <1>1, <1>6, <2>1, PointersMeet
  <2>2. CASE c = n + 1
    <3>1. c \notin DOMAIN Columns
      BY <1>4, <2>2, Assumed
    <3>2. Sharing(c, r) = {r}
      BY <3>1 DEF Sharing
    <3>3. QED
      BY <1>1, <1>6, <1>10, <2>2, <3>2, PointersMeet
  <2>3. QED
    BY <2>1, <2>2
<1>11. ASSUME NEW r \in 1..NRows, NEW c PROVE CellValue(c, r)' = CellValue(c, r)
  BY <1>1, <1>2, <1>3 DEF CellValue
<1>12. ASSUME NEW r \in 1..NRows, NEW c \in 1..Width(r), c \in 1..(n + 1), r # row \/ c # n + 1, ~Gone(c, r)
       PROVE  /\ rows[r][c] = Pointer(c, r) /\ rows[r][c] \in DOMAIN cells'
              /\ cells'[rows[r][c]] = CellValue(c, r)'
  <2>1. /\ rows[r][c] = Pointer(c, r) /\ rows[r][c] \in DOMAIN cells
        /\ cells[rows[r][c]] = CellValue(c, r)
    BY <1>12 DEF IInv, Cells, RowDone
  <2>2. rows[r][c] # p
    BY <1>10, <1>12, <2>1
  <2>3. QED
    BY <1>1, <1>11, <2>1, <2>2
<1>13. ASSUME NEW r \in 1..NRows, r # row PROVE RowDone(r)'
  <2>1. rows'[r] = rows[r]
    BY <1>1, <1>13 DEF IInv, Cells
  <2>2. Width(r) \in {n, n + 1}
    BY DEF Width, n
  <2>3. \A c \in 1..Width(r) : c \in 1..(n + 1)
    BY <1>4, <2>2 DEF n
  <2>4. \A c \in 1..Width(r) : ~Gone(c, r) =>
            /\ rows[r][c] \in DOMAIN cells'
            /\ cells'[rows[r][c]] = CellValue(c, r)'
    BY <1>12, <1>13, <2>3
  <2>5. QED
    BY <1>1, <1>13, <2>1, <2>4, OtherRows
<1>14. RowDone(row) /\ ~Passed(row) /\ Width(row) = n
  BY <1>1, Assumed DEF IInv, Cells, Passed, Width, n
<1>15. ASSUME NEW r \in 1..NRows, r = row PROVE RowDone(r)'
  <2>1. /\ Len(rows'[r]) = n + 1 /\ rows'[r][n + 1] = p
        /\ \A c \in 1..n : rows'[r][c] = rows[r][c]
    <3>1. rows'[row] = Append(rows[row], p)
      BY <1>1 DEF IInv, Cells
    <3>2. QED
      BY <1>6, <1>7, <1>15, <3>1, Appended
  <2>2. p = Pointer(n + 1, r) /\ p \in DOMAIN cells' /\ cells'[p] = ModifyValue(T, Table[index].values[r])
    BY <1>1, <1>6, <1>7, <1>15
  <2>3. Passed(r)'
    BY <1>1, <1>2, <1>15, Assumed DEF Passed
  <2>4. Width(r)' = n + 1
    BY <1>1, <1>3, <2>3 DEF Width, n
  <2>5. \A c : Gone(c, r)' = Gone(c, r)
    BY <1>1, <1>2, <1>3 DEF Gone
  <2>6. ASSUME NEW c \in 1..(n + 1)
        PROVE  IF Gone(c, r)' THEN rows'[r][c] = NoCell
               ELSE /\ rows'[r][c] = Pointer(c, r) /\ rows'[r][c] \in DOMAIN cells'
                    /\ cells'[rows'[r][c]] = CellValue(c, r)'
    <3>1. CASE c = n + 1
      <4>1. ~Gone(c, r) /\ CellValue(c, r)' = ModifyValue(T, Table[index].values[r])
        BY <1>1, <1>2, <1>3, <1>4, <3>1 DEF CellValue, Gone, n
      <4>2. QED
        BY <2>1, <2>2, <2>5, <3>1, <4>1
    <3>2. CASE c # n + 1
      <4>1. c \in 1..n /\ c \in 1..Width(r)
        BY <1>4, <1>14, <1>15, <3>2 DEF n
      <4>2. CASE Gone(c, r)
        BY <1>14, <1>15, <2>1, <2>5, <4>1, <4>2 DEF RowDone
      <4>3. CASE ~Gone(c, r)
        BY <1>12, <2>1, <2>5, <3>2, <4>1, <4>3
      <4>4. QED
        BY <4>2, <4>3
    <3>3. QED
      BY <3>1, <3>2
  <2>7. QED
    BY <2>1, <2>4, <2>6 DEF RowDone
<1>16. \A r \in 1..NRows : RowDone(r)'
  BY <1>13, <1>15
<1>17. QED
  BY <1>1, <1>8, <1>9, <1>16, RowStep

LEMMA DeleteStep == IInv /\ DeleteCell => IInv'
<1> SUFFICES ASSUME IInv, DeleteCell PROVE IInv'
  OBVIOUS
<1>1. /\ status = "running" /\ row \in 1..NRows /\ T.action = "delete" /\ NextRow
      /\ rows' = [rows EXCEPT ![row][index] = NoCell] /\ cells' = cells
  BY DEF DeleteCell, AtRow
<1>2. row > 0 /\ row' = row + 1 /\ UNCHANGED <<ts, k, index>>
  BY <1>1, Assumed DEF NextRow
<1>3. Table' = Table /\ T' = T
  BY <1>2, ReferenceStays DEF Table, T
<1>4. index \in 1..Len(Table) /\ Len(Table) \in Nat
  BY <1>2, UnderWay
<1>5. rows[row] \in Seq(Pointers) /\ Len(rows[row]) = Len(Table)
  BY <1>1, CurrentCell
<1>6. /\ rows'[row] \in Seq(Pointers) /\ Len(rows'[row]) = Len(Table) /\ rows'[row][index] = NoCell
      /\ \A c \in 1..Len(Table) : c # index => rows'[row][c] = rows[row][c]
      /\ \A r \in 1..NRows : r # row => rows'[r] = rows[r]
      /\ rows' = [r \in 1..NRows |-> rows'[r]]
  <2>1. rows'[row] = [rows[row] EXCEPT ![index] = NoCell]
    BY <1>1 DEF IInv, Cells
  <2>2. NoCell \in Pointers
    BY DEF Pointers
  <2>3. /\ \A r \in 1..NRows : r # row => rows'[r] = rows[r]
        /\ rows' = [r \in 1..NRows |-> rows'[r]]
    BY <1>1 DEF IInv, Cells
  <2>4. QED
    BY <1>4, <1>5, <2>1, <2>2, <2>3, Updated
<1>7. rows' \in [1..NRows -> Seq(Pointers)] /\ cells' = [q \in DOMAIN cells' |-> cells'[q]]
  BY <1>1, <1>6 DEF IInv, Cells
<1>8. ASSUME NEW r \in 1..NRows, NEW c PROVE CellValue(c, r)' = CellValue(c, r)
  BY <1>1, <1>2, <1>3 DEF CellValue
<1>9. ASSUME NEW r \in 1..NRows, r # row PROVE RowDone(r)'
  <2>1. \A c \in 1..Width(r) : ~Gone(c, r) => rows[r][c] \in DOMAIN cells /\ cells[rows[r][c]] = CellValue(c, r)
    BY DEF IInv, Cells, RowDone
  <2>2. QED
    BY <1>1, <1>6, <1>8, <1>9, <2>1, OtherRows
<1>10. ASSUME NEW r \in 1..NRows, r = row PROVE RowDone(r)'
  <2>1. RowDone(r) /\ ~Passed(r) /\ Passed(r)'
    BY <1>1, <1>2, <1>10, Assumed DEF IInv, Cells, Passed
  <2>2. Width(r)' = Len(Table) /\ Width(r) = Len(Table)
    BY <1>1, <1>3, <2>1 DEF Width
  <2>3. \A c \in 1..Len(Table) : Gone(c, r)' <=> Gone(c, r) \/ c = index
    BY <1>1, <1>2, <1>3, <2>1 DEF Gone
  <2>4. ASSUME NEW c \in 1..Len(Table)
        PROVE  IF Gone(c, r)' THEN rows'[r][c] = NoCell
               ELSE /\ rows'[r][c] = Pointer(c, r) /\ rows'[r][c] \in DOMAIN cells'
                    /\ cells'[rows'[r][c]] = CellValue(c, r)'
    <3>1. CASE c = index
      BY <1>6, <1>10, <2>3, <3>1
    <3>2. CASE c # index
      <4>1. rows'[r][c] = rows[r][c]
        BY <1>6, <1>10, <3>2
      <4>2. Gone(c, r)' <=> Gone(c, r)
        BY <2>3, <3>2
      <4>3. CellValue(c, r)' = CellValue(c, r)
        BY <1>8
      <4>4. QED
        BY <1>1, <2>1, <2>2, <4>1, <4>2, <4>3 DEF RowDone
    <3>3. QED
      BY <3>1, <3>2
  <2>5. Len(rows'[r]) = Len(Table)
    BY <1>6, <1>10
  <2>6. QED
    BY <2>2, <2>4, <2>5 DEF RowDone
<1>11. \A r \in 1..NRows : RowDone(r)'
  BY <1>9, <1>10
<1>12. QED
  BY <1>1, <1>7, <1>11, RowStep

(* A replaced cell is modified for all rows that share it at once.         *)
LEMMA ReplaceStep == IInv /\ ReplaceCell => IInv'
<1> SUFFICES ASSUME IInv, ReplaceCell PROVE IInv'
  OBVIOUS
<1> DEFINE p == Pointer(index, row)
<1>1. /\ status = "running" /\ row \in 1..NRows /\ T.action = "replace" /\ NextRow
      /\ cells' = [cells EXCEPT ![rows[row][index]] = ModifyValue(T, @)] /\ rows' = rows
  BY DEF ReplaceCell, AtRow
<1>2. row > 0 /\ row' = row + 1 /\ UNCHANGED <<ts, k, index>> /\ row \in Nat
  BY <1>1, Assumed DEF NextRow
<1>3. Table' = Table /\ T' = T
  BY <1>2, ReferenceStays DEF Table, T
<1>4. /\ index \in 1..Len(Table) /\ Len(Table) \in Nat /\ T \in Transformation
      /\ \A r \in 1..NRows : Table[index].values[r] \in Values
  BY <1>2, UnderWay
<1>5. rows[row][index] = p /\ p \in DOMAIN cells
  BY <1>1, CurrentCell
<1>6. /\ DOMAIN cells' = DOMAIN cells /\ cells'[p] = ModifyValue(T, cells[p])
      /\ \A q \in DOMAIN cells : q # p => cells'[q] = cells[q]
      /\ cells' = [q \in DOMAIN cells' |-> cells'[q]]
  BY <1>1, <1>5 DEF IInv, Cells
<1> HIDE DEF p
<1>7. ASSUME NEW r \in 1..NRows, NEW c \in 1..Len(Table), NEW q \in DOMAIN cells,
             q = Pointer(c, r), cells[q] = CellValue(c, r)
      PROVE  cells'[q] = CellValue(c, r)'
  <2>1. CASE c # index
    <3>1. q # p
      BY <1>1, <1>7, <2>1, PointersMeet DEF p
    <3>2. CellValue(c, r)' = CellValue(c, r)
      BY <1>2, <1>3, <1>4, <2>1 DEF CellValue
    <3>3. QED
      BY <1>6, <1>7, <3>1, <3>2
  <2>2. CASE c = index
    <3> DEFINE before == {s \in Sharing(index, r) : s < row}
    <3>1. IsFiniteSet(before) /\ Cardinality(before) \in Nat
      <4>1. IsFiniteSet(1..NRows)
        BY FS_Interval, Assumed
      <4>2. before \subseteq 1..NRows
        BY SharingClasses
      <4>3. QED
        BY <4>1, <4>2, FS_Subset, FS_CardinalityType
    <3>2. PICK v \in Values : v = Table[index].values[r]
      BY <1>4
    <3>3. PICK m \in Nat : m = Cardinality(before)
      BY <3>1
    <3>4. CellValue(c, r) = Times(m, T, v)
      BY <1>1, <1>2, <1>4, <2>2, <3>2, <3>3 DEF CellValue, Rounds
    <3>5. CellValue(c, r)' = Times(Cardinality({s \in Sharing(index, r) : s < row + 1}), T, v)
      BY <1>1, <1>2, <1>3, <1>4, <2>2, <3>2 DEF CellValue, Rounds
    <3>6. CASE row \in Sharing(index, r)
      <4>1. q = p
        BY <1>1, <1>7, <2>2, <3>6, PointersMeet DEF p
      <4>2. {s \in Sharing(index, r) : s < row + 1} = before \union {row} /\ row \notin before
        <5>1. \A s \in Sharing(index, r) : s \in Nat
          BY SharingClasses, Assumed
        <5>2. row \in Nat /\ \A s \in Nat : s < row + 1 <=> s < row \/ s = row
          BY <1>2
        <5> HIDE DEF p
        <5>3. row \notin before
          BY <1>2
        <5>4. QED
          BY <3>6, <5>1, <5>2, <5>3
      <4>3. Cardinality(before \union {row}) = m + 1
        <5> HIDE DEF before
        <5>1. QED
          BY <3>1, <3>3, <4>2, FS_AddElement
      <4>4. cells'[q] = ModifyValue(T, Times(m, T, v))
        BY <1>6, <1>7, <3>4, <4>1
      <4>5. ModifyValue(T, Times(m, T, v)) = Times(m + 1, T, v)
        BY <1>4, TimesNext
      <4>6. QED
        BY <3>5, <4>2, <4>3, <4>4, <4>5
    <3>7. CASE row \notin Sharing(index, r)
      <4>1. q # p
        BY <1>1, <1>7, <2>2, <3>7, PointersMeet DEF p
      <4>2. {s \in Sharing(index, r) : s < row + 1} = before
        <5>1. \A s \in Sharing(index, r) : s \in Nat
          BY SharingClasses, Assumed
        <5>2. QED
          BY <1>2, <3>7, <5>1
      <4>3. QED
        BY <1>6, <1>7, <3>3, <3>4, <3>5, <4>1, <4>2
    <3>8. QED
      BY <3>6, <3>7
  <2>3. QED
    BY <2>1, <2>2
<1>8. ASSUME NEW r \in 1..NRows PROVE RowDone(r)'
  <2>1. RowDone(r)
    BY DEF IInv, Cells
  <2>2. Width(r)' = Len(Table) /\ Width(r) = Len(Table)
    BY <1>1, <1>3 DEF Width
  <2>3. \A c : Gone(c, r)' = Gone(c, r)
    BY <1>1, <1>2, <1>3 DEF Gone
  <2>4. ASSUME NEW c \in 1..Len(Table), ~Gone(c, r)
        PROVE  /\ rows[r][c] = Pointer(c, r) /\ rows[r][c] \in DOMAIN cells'
               /\ cells'[rows[r][c]] = CellValue(c, r)'
    <3>1. /\ rows[r][c] = Pointer(c, r) /\ rows[r][c] \in DOMAIN cells
          /\ cells[rows[r][c]] = CellValue(c, r)
      BY <2>1, <2>2, <2>4 DEF RowDone
    <3>2. QED
      BY <1>6, <1>7, <3>1
  <2>5. QED
    BY <1>1, <2>1, <2>2, <2>3, <2>4 DEF RowDone
<1>9. QED
  BY <1>1, <1>6, <1>8, RowStep DEF IInv, Cells

LEMMA PassOverStep == IInv /\ PassOver => IInv'
<1> SUFFICES ASSUME IInv, PassOver PROVE IInv'
  OBVIOUS
<1>1. /\ status = "running" /\ row \in 1..NRows /\ T.action \notin {"add", "delete", "replace"} /\ NextRow
      /\ rows' = rows /\ cells' = cells
  <2>1. row > 0 => index \in 1..Len(Table) /\ Len(Table) \in Nat
    BY UnderWay
  <2>2. row \in 1..NRows => Len(rows[row]) = Len(Table)
    BY CurrentCell
  <2>3. ReachesSource \/ row \notin 1..NRows
    BY <2>1, <2>2, Assumed DEF ReachesSource
  <2>4. QED
    BY <2>3 DEF PassOver
<1>2. row > 0 /\ row' = row + 1 /\ UNCHANGED <<ts, k, index>>
  BY <1>1, Assumed DEF NextRow
<1>3. Table' = Table /\ T' = T
  BY <1>2, ReferenceStays DEF Table, T
<1>4. ASSUME NEW r \in 1..NRows PROVE RowDone(r)'
  <2>1. RowDone(r)
    BY DEF IInv, Cells
  <2>2. Width(r)' = Width(r)
    BY <1>1, <1>3 DEF Width
  <2>3. \A c : Gone(c, r)' = Gone(c, r) /\ CellValue(c, r)' = CellValue(c, r)
    BY <1>1, <1>2, <1>3 DEF Gone, CellValue
  <2>4. QED
    BY <1>1, <2>1, <2>2, <2>3 DEF RowDone
<1>5. QED
  BY <1>1, <1>4, RowStep DEF IInv, Cells

-----------------------------------------------------------------------------
(* After the last row all columns are those of the table that Apply makes. *)

LEMMA LastRow == IInv /\ NextTransformation => IInv'
<1> SUFFICES ASSUME IInv, NextTransformation PROVE IInv'
  OBVIOUS
<1>1. /\ status = "running" /\ row > NRows /\ k' = k + 1 /\ index' = 0 /\ row' = 0
      /\ UNCHANGED <<headers, rows, cells, ts, status>>
  BY DEF NextTransformation
<1>2. row = NRows + 1 /\ row > 0 /\ NRows \in Nat /\ k \in Nat /\ ts \in TransformationLists
  BY <1>1, Assumed DEF IInv, Loop
<1> DEFINE n == Len(Table)
<1>3. /\ k \in 1..Len(ts) /\ T \in Transformation /\ n \in Nat /\ Len(Columns) <= n
      /\ DOMAIN Table = 1..n /\ index = Source(T, Table) /\ Sources # {} /\ index \in 1..n
      /\ \A r, s \in 1..NRows : Table[index].values[r] \in Values
      /\ WellFormed(Table) /\ Len(ts) \in Nat
  BY <1>2, UnderWay, KnownTransformation DEF IInv
<1> DEFINE new == Apply(T, Table)
<1>4. Table' = new
  <2>1. Reference' = Reference
    BY <1>1, ReferenceStays
  <2>2. Reference[k] = Apply(ts[k], Reference[k - 1])
    BY <1>3, ReferenceUnfolds
  <2>3. k' - 1 = k
    BY <1>1, <1>2
  <2>4. QED
    BY <2>1, <2>2, <2>3 DEF Table, T
<1>5. /\ WellFormed(new)
      /\ T.action = "add" =>
           /\ Len(new) = n + 1
           /\ \A c \in 1..n : new[c] = Table[c]
           /\ new[n + 1] = [name |-> T.destination, values |-> Once(T, Table[index].values)]
      /\ T.action # "add" => Len(new) = n /\ \A c \in 1..n : c # index => new[c] = Table[c]
      /\ T.action = "delete" => new[index] = Deleted
      /\ T.action = "replace" =>
           new[index] = [name |-> NewName(T), values |-> Each(T, index, Table[index].values)]
      /\ T.action \notin {"add", "delete", "replace"} => new[index] = Table[index]
  <2>1. {c \in DOMAIN Table : Table[c].name = T.source} # {}
    BY <1>3 DEF Sources
  <2> DEFINE i == Source(T, Table)
  <2>2. /\ WellFormed(new)
        /\ T.action = "add" =>
             /\ Len(new) = n + 1
             /\ \A c \in 1..n : new[c] = Table[c]
             /\ new[n + 1] = [name |-> T.destination, values |-> Once(T, Table[i].values)]
        /\ T.action # "add" => Len(new) = n /\ \A c \in 1..n : c # i => new[c] = Table[c]
        /\ T.action = "delete" => new[i] = Deleted
        /\ T.action = "replace" => new[i] = [name |-> NewName(T), values |-> Each(T, i, Table[i].values)]
        /\ T.action \notin {"add", "delete", "replace"} => new[i] = Table[i]
    BY <1>3, <2>1, ApplyMakes
  <2>3. i = index
    BY <1>3
  <2> HIDE DEF new, i
  <2>4. QED
    BY <2>2, <2>3
<1>6. WellFormed(Table)'
  BY <1>4, <1>5 DEF WellFormed
<1>7. Loop'
  BY <1>1, <1>2, <1>3, Assumed DEF Loop
<1>8. Heads'
  <2>1. headers = [c \in DOMAIN new |-> new[c].name]
    BY <1>2 DEF IInv, Heads
  <2>2. QED
    BY <1>1, <1>4, <2>1 DEF Heads
<1> HIDE DEF new
<1>9. ASSUME NEW r \in 1..NRows PROVE RowDone(r)'
  <2>1. RowDone(r) /\ Passed(r) /\ ~Passed(r)'
    BY <1>1, <1>2 DEF IInv, Cells, Passed
  <2>2. Width(r) = Len(new) /\ Width(r)' = Len(new)
    BY <1>4, <1>5, <2>1 DEF Width
  <2>3. Len(new) = IF T.action = "add" THEN n + 1 ELSE n
    BY <1>5
  <2>4. ASSUME NEW c \in 1..Len(new) PROVE Gone(c, r)' <=> Gone(c, r)
    <3>1. Gone(c, r)' <=> new[c].name = NoHeader
      BY <1>4, <2>1 DEF Gone
    <3>2. Gone(c, r) <=> (c <= n /\ Table[c].name = NoHeader) \/ (T.action = "delete" /\ c = index)
      BY <2>1 DEF Gone
    <3>3. CASE c = n + 1
      <4>1. T.action = "add" /\ new[c].name = T.destination
        <5>1. c > n /\ c <= Len(new)
          BY <1>3, <3>3
        <5>2. T.action = "add"
          BY <1>3, <2>3, <5>1
        <5>3. QED
          BY <1>5, <3>3, <5>2
      <4>2. T.destination # NoHeader
        BY <1>3 DEF Transformation, Names
      <4>3. ~(c <= n)
        BY <1>3, <3>3
      <4>4. T.action # "delete"
        BY <4>1
      <4>5. QED
        BY <3>1, <3>2, <4>1, <4>2, <4>3, <4>4
    <3>4. CASE c \in 1..n /\ c # index
      <4>1. new[c] = Table[c] /\ c <= n
        BY <1>3, <1>5, <3>4
      <4>2. Gone(c, r) <=> Table[c].name = NoHeader
        BY <3>2, <3>4, <4>1
      <4>3. QED
        BY <3>1, <4>1, <4>2
    <3>5. CASE c = index
      <4>1. c \in 1..n /\ c <= n
        BY <1>3, <3>5
      <4>2. Table[c].name # NoHeader
        BY <1>2, <3>5, UnderWay
      <4>3. CASE T.action = "delete"
        BY <1>5, <3>1, <3>2, <3>5, <4>3 DEF Deleted
      <4>4. CASE T.action = "replace"
        <5>1. new[c].name = NewName(T)
          BY <1>5, <3>5, <4>4
        <5>2. NewName(T) # NoHeader
          BY <1>3 DEF NewName, Transformation, Names
        <5>3. QED
          BY <3>1, <3>2, <4>2, <4>4, <5>1, <5>2
      <4>5. CASE T.action \notin {"delete", "replace"}
        <5>1. new[c] = Table[c]
          BY <1>5, <3>5, <4>1, <4>5
        <5>2. QED
          BY <3>1, <3>2, <4>2, <4>5, <5>1
      <4>6. QED
        BY <4>3, <4>4, <4>5
    <3>6. c \in 1..n \/ c = n + 1
      BY <1>3, <2>3
    <3>7. QED
      BY <3>3, <3>4, <3>5, <3>6
  <2>5. ASSUME NEW c \in 1..Len(new), ~Gone(c, r) PROVE CellValue(c, r)' = CellValue(c, r)
    <3>1. CellValue(c, r)' = new[c].values[r]
      <4>1. ~(c > Len(Table)') /\ ~(row' > 0)
        BY <1>1, <1>4, <1>5 DEF WellFormed
      <4>2. QED
        BY <1>4, <4>1 DEF CellValue
    <3>2. CASE c = n + 1
      <4>1. T.action = "add" /\ new[c].values = Once(T, Table[index].values)
        <5>1. c > n /\ c <= Len(new)
          BY <1>3, <3>2
        <5>2. T.action = "add"
          BY <1>3, <2>3, <5>1
        <5>3. QED
          BY <1>5, <3>2, <5>2
      <4>2. new[c].values[r] = ModifyValue(T, Table[index].values[r])
        BY <4>1 DEF Once
      <4>3. CellValue(c, r) = ModifyValue(T, Table[index].values[r])
        BY <1>3, <3>2 DEF CellValue
      <4>4. QED
        BY <3>1, <4>2, <4>3
    <3>3. CASE c \in 1..n /\ c # index
      <4>1. new[c] = Table[c]
        BY <1>5, <3>3
      <4>2. CellValue(c, r) = Table[c].values[r]
        BY <1>3, <3>3 DEF CellValue
      <4>3. QED
        BY <3>1, <4>1, <4>2
    <3>4. CASE c = index
      <4>1. ~(c > n) /\ c \in 1..n
        BY <1>3, <3>4
      <4>2. CASE T.action = "replace"
        <5>1. {s \in Sharing(c, r) : s < row} = Sharing(c, r)
          BY <1>2, SharingClasses
        <5>2. CellValue(c, r) = Times(Cardinality(Sharing(c, r)), T, Table[c].values[r])
          BY <1>2, <3>4, <4>1, <4>2, <5>1 DEF CellValue, Rounds
        <5>3. new[c].values = Each(T, c, Table[c].values)
          BY <1>5, <3>4, <4>2
        <5>4. new[c].values[r] = Times(Cardinality(Sharing(c, r)), T, Table[c].values[r])
          BY <5>3 DEF Each
        <5>5. QED
          BY <3>1, <5>2, <5>4
      <4>3. CASE T.action = "delete"
        BY <2>1, <2>5, <3>4, <4>3 DEF Gone
      <4>4. CASE T.action \notin {"delete", "replace"}
        <5>1. new[c] = Table[c]
          BY <1>5, <3>4, <4>1, <4>4
        <5>2. CellValue(c, r) = Table[c].values[r]
          BY <4>1, <4>4 DEF CellValue
        <5>3. QED
          BY <3>1, <5>1, <5>2
      <4>5. QED
        BY <4>2, <4>3, <4>4
    <3>5. c \in 1..n \/ c = n + 1
      BY <1>3, <2>3
    <3>6. QED
      BY <3>2, <3>3, <3>4, <3>5
  <2>6. rows'[r] = rows[r] /\ cells' = cells
    BY <1>1
  <2>7. QED
    BY <2>1, <2>2, <2>4, <2>5, <2>6 DEF RowDone
<1>10. Cells'
  BY <1>1, <1>9 DEF IInv, Cells
<1>11. QED
  BY <1>6, <1>7, <1>8, <1>10 DEF IInv

LEMMA InvariantStep == IInv /\ [Next]_vars => IInv'
<1> SUFFICES ASSUME IInv, [Next]_vars PROVE IInv'
  OBVIOUS
<1>1. ASSUME UNCHANGED <<headers, rows, cells, ts, k, index, row>>,
             status' \in {status, "done"} \/ NilModifier
      PROVE  IInv'
  <2>1. WellFormed(Table)' /\ Heads' /\ Cells' /\ T' = T /\ Table' = Table /\ Value' = Value
    BY <1>1, TableStays
  <2>2. Sources' = Sources
    BY <2>1 DEF Sources
  <2>3. (~CanModify)' <=> ~CanModify
    BY <2>1 DEF CanModify
  <2>4. NilModifier => row \in 1..NRows /\ T.action \in {"add", "replace"} /\ ~CanModify /\ status' = "panic"
    BY DEF NilModifier, AtRow
  <2>5. Loop'
    BY <1>1, <2>1, <2>2, <2>3, <2>4 DEF IInv, Loop
  <2>6. QED
    BY <2>1, <2>5 DEF IInv
<1>2. CASE UnknownSource
  BY <1>1, <1>2 DEF UnknownSource, loopVars
<1>3. CASE TransformHeaders
  BY <1>3, HeadersStep
<1>4. CASE AddCell
  BY <1>4, AddStep
<1>5. CASE DeleteCell
  BY <1>5, DeleteStep
<1>6. CASE ReplaceCell
  BY <1>6, ReplaceStep
<1>7. CASE PassOver
  BY <1>7, PassOverStep
<1>8. CASE NilModifier
  BY <1>1, <1>8 DEF NilModifier, loopVars
<1>9. CASE NextTransformation
  BY <1>9, LastRow
<1>10. CASE AllApplied
  BY <1>1, <1>10 DEF AllApplied, loopVars
<1>11. CASE UNCHANGED vars
  BY <1>1, <1>11 DEF vars, loopVars
<1>12. QED
  BY <1>2, <1>3, <1>4, <1>5, <1>6, <1>7, <1>8, <1>9, <1>10, <1>11 DEF Next, Terminated

LEMMA Invariant == Spec => []IInv
<1>1. Init => IInv
  BY InitIInv
<1>2. IInv /\ [Next]_vars => IInv'
  BY InvariantStep
<1>3. QED
  BY <1>1, <1>2, PTL DEF Spec

-----------------------------------------------------------------------------
(* What follows from the invariant.                                        *)

LEMMA RowsMatch ==
  ASSUME IInv, row = 0, NEW r \in 1..NRows
  PROVE  /\ DOMAIN rows[r] = DOMAIN Table
         /\ \A c \in DOMAIN Table :
              IF rows[r][c] = NoCell THEN Table[c] = Deleted
              ELSE Table[c].values[r] = cells[rows[r][c]]
<1>1. RowDone(r) /\ rows[r] \in Seq(Pointers) /\ WellFormed(Table) /\ ~Passed(r)
  BY Assumed DEF IInv, Cells, Passed
<1>2. DOMAIN Table = 1..Len(Table) /\ Len(Table) \in Nat
  BY <1>1 DEF WellFormed
<1>3. Width(r) = Len(Table)
  BY <1>1 DEF Width
<1>4. DOMAIN rows[r] = 1..Len(Table)
  BY <1>1, <1>3 DEF RowDone
<1>5. ASSUME NEW c \in 1..Len(Table)
      PROVE  IF rows[r][c] = NoCell THEN Table[c] = Deleted
             ELSE Table[c].values[r] = cells[rows[r][c]]
  <2>1. CASE Gone(c, r)
    <3>1. rows[r][c] = NoCell /\ Table[c].name = NoHeader
      BY <1>1, <1>3, <2>1 DEF RowDone, Gone
    <3>2. QED
      BY <1>1, <3>1 DEF WellFormed
  <2>2. CASE ~Gone(c, r)
    <3>1. rows[r][c] = Pointer(c, r) /\ cells[rows[r][c]] = CellValue(c, r)
      BY <1>1, <1>3, <2>2 DEF RowDone
    <3>2. rows[r][c] # NoCell
      BY <3>1, PointersMeet
    <3>3. CellValue(c, r) = Table[c].values[r]
      BY <1>2 DEF CellValue
    <3>4. QED
      BY <3>1, <3>2, <3>3
  <2>3. QED
    BY <2>1, <2>2
<1>6. QED
  BY <1>2, <1>4, <1>5

LEMMA PanicIsMissingModifier ==
  ASSUME IInv, status = "panic"
  PROVE  /\ ~T.modifier /\ T.modifierAction # "none" /\ T.action \in {"add", "replace"}
         /\ \E c \in DOMAIN Table : Table[c].name = T.source /\ Table[c].values[1].number
<1>1. row \in 1..NRows /\ T.action \in {"add", "replace"} /\ ~CanModify
  BY DEF IInv, Loop
<1>2. row > 0 /\ 1 \in 1..NRows
  BY <1>1, Assumed
<1>3. Value.number /\ T.modifierAction # "none" /\ ~T.modifier
  BY <1>1 DEF CanModify, Modifies
<1>4. /\ index \in DOMAIN Table /\ Table[index].name = T.source
      /\ Table[index].values[row].number = Table[index].values[1].number
  BY <1>1, <1>2, UnderWay
<1>5. Value.number = Table[index].values[row].number
  BY <1>1, CurrentCell
<1>6. QED
  BY <1>1, <1>3, <1>4, <1>5

(* Whatever the columns of a parsed table are, however its rows share      *)
(* cells, and whatever the transformations: headers and rows stay aligned, *)
(* and the table is the one that the definition by columns gives.  Rows    *)
(* behind the loop of Transform are transformed and the others are not;    *)
(* a value that rows share has been modified by those of them behind.      *)
THEOREM TransformMatchesReference == Spec => []MatchesReference
<1>1. ASSUME IInv PROVE MatchesReference
  <2>1. ASSUME row = 0 PROVE headers = [c \in DOMAIN Table |-> Table[c].name]
    BY <1>1, <2>1 DEF IInv, Heads
  <2>2. QED
    BY <1>1, <2>1, RowsMatch, PanicIsMissingModifier DEF MatchesReference, Table
<1>2. QED
  BY <1>1, Invariant, PTL
=============================================================================
