---------------------------- MODULE CatalogProofs ---------------------------
(***************************************************************************)
(* The catalog for every bootstrap, every set of names and column lists    *)
(* and every number of rows.                                               *)
(***************************************************************************)
EXTENDS Catalog, FiniteSetTheorems, TLAPS

(***************************************************************************)
(* The invariant.                                                          *)
(***************************************************************************)
CellOf(R) == [row : R, live : BOOLEAN, file : SUBSET BOOLEAN]

RowOf == [type |-> Range(TypeName),
          class |-> [oid : Oid, name : AllNames, relkind : {"system", "table"}],
          attribute |-> [attrelid : Oid, attnum : Nat, column : Column]]

HeapOK(h) ==
  /\ DOMAIN h = SystemTable
  /\ \A t \in SystemTable : h[t] \in Seq(CellOf(RowOf[t]))

TablesOK ==
  /\ opened \in BOOLEAN /\ torn \in BOOLEAN /\ clean \in BOOLEAN
  /\ engines \subseteq SystemEngine
  /\ opened /\ ~torn => engines = SystemEngine
  /\ HeapOK(heap)
  /\ type_cache \subseteq Range(TypeName)
  /\ DOMAIN attribute_cache = Oid
  /\ DOMAIN user_tables = Oid
  /\ created \in [Oid -> Columns \cup {<<>>}]

\* A closed catalog has nothing cached and no table open.
EmptyWhenClosed ==
  ~opened => class_cache = {} /\ attribute_cache = NoTables /\ user_tables = NoTables

AttributeRow(oid, attnum, column) == [attrelid |-> oid, attnum |-> attnum, column |-> column]

\* The live rows of edb_attribute for oid are those of create_table, in place.
HasColumns(h, oid, columns) ==
  \E b \in Nat :
    /\ AttributePositions(h, oid) = b + 1 .. b + Len(columns)
    /\ \A k \in 1 .. Len(columns) :
         h["attribute"][b + k].row = AttributeRow(oid, k, columns[k])

KnownIn(h, oid) == \E i \in LivePositions(h, "class") : h["class"][i].row.oid = oid

UniqueClasses(h) ==
  \A i, j \in LivePositions(h, "class") :
    LET a == h["class"][i].row
        b == h["class"][j].row
    IN a.oid = b.oid \/ a.name = b.name => i = j

Rests(h, oid, columns, cached, table) ==
  /\ ~KnownIn(h, oid) => AttributePositions(h, oid) = {} /\ cached = <<>> /\ table = <<>>
  /\ columns # <<>> =>
       /\ KnownIn(h, oid)
       /\ HasColumns(h, oid, columns)
       /\ cached \in {<<>>, columns}
       /\ table \in {<<>>, columns}

\* Nothing is left to write: a new engine would find the same rows.
SettledCells(c) == \A i \in 1 .. Len(c) : c[i].file = {c[i].live}

AllSettled(h) == \A t \in SystemTable : SettledCells(h[t])

\* As long as every session that opened was closed, and no bootstrap stopped
\* half way.
CleanInv ==
  /\ ~torn
  /\ ~opened => AllSettled(heap)
  /\ UniqueClasses(heap)
  /\ \A oid \in Oid : Rests(heap, oid, created[oid], attribute_cache[oid], user_tables[oid])

CatalogInv ==
  /\ TablesOK
  /\ EmptyWhenClosed
  /\ ClassCacheCurrent
  /\ clean => CleanInv

(***************************************************************************)
(* Cells.                                                                  *)
(***************************************************************************)
LEMMA NewCell ==
  ASSUME NEW R, NEW r \in R
  PROVE  Cell(r) \in CellOf(R) /\ Cell(r).row = r /\ Cell(r).live = TRUE
  BY DEF Cell, CellOf

LEMMA SettledCell ==
  ASSUME NEW R, NEW c \in CellOf(R), NEW b \in BOOLEAN
  PROVE  /\ Settled(c, b) \in CellOf(R)
         /\ Settled(c, b).row = c.row
         /\ Settled(c, b).live = b
         /\ Settled(c, b).file = {b}
  BY Zenon DEF Settled, CellOf

DeletedCell(c) == [c EXCEPT !.live = FALSE, !.file = @ \cup {FALSE}]

LEMMA DeadCell ==
  ASSUME NEW R, NEW c \in CellOf(R)
  PROVE  /\ DeletedCell(c) \in CellOf(R)
         /\ DeletedCell(c).row = c.row
         /\ DeletedCell(c).live = FALSE
  BY Zenon DEF DeletedCell, CellOf

LEMMA CellFields ==
  ASSUME NEW R, NEW c \in CellOf(R)
  PROVE  c.row \in R /\ c.live \in BOOLEAN /\ c.file \in SUBSET BOOLEAN
  BY DEF CellOf

LEMMA SeqOfCells ==
  ASSUME NEW S, NEW s \in Seq(S)
  PROVE  Len(s) \in Nat /\ DOMAIN s = 1 .. Len(s) /\ \A i \in 1 .. Len(s) : s[i] \in S
  OBVIOUS

LEMMA SeqInto ==
  ASSUME NEW S, NEW T, S \subseteq T, NEW s \in Seq(S)
  PROVE  s \in Seq(T)
  OBVIOUS

LEMMA OneRow ==
  ASSUME NEW S, NEW x \in S
  PROVE  <<x>> \in Seq(S) /\ Len(<<x>>) = 1 /\ <<x>>[1] = x
  OBVIOUS

LEMMA FirstRows ==
  ASSUME NEW S, NEW s \in Seq(S), NEW n \in 0 .. Len(s)
  PROVE  /\ SubSeq(s, 1, n) \in Seq(S)
         /\ Len(SubSeq(s, 1, n)) = n
         /\ \A k \in 1 .. n : SubSeq(s, 1, n)[k] = s[k]
  OBVIOUS

LEMMA MappedSeq ==
  ASSUME NEW S, NEW n \in Nat, NEW s, s = [i \in 1 .. n |-> s[i]], \A i \in 1 .. n : s[i] \in S
  PROVE  s \in Seq(S) /\ Len(s) = n
  OBVIOUS

\* Two tables with the same rows, alive or dead.
SameCells(c, d) ==
  /\ Len(d) = Len(c)
  /\ \A i \in 1 .. Len(c) : d[i].row = c[i].row /\ d[i].live = c[i].live

LEMMA FlushedCells ==
  ASSUME NEW R, NEW c \in Seq(CellOf(R))
  PROVE  /\ Flushed(c) \in Seq(CellOf(R))
         /\ SameCells(c, Flushed(c))
         /\ SettledCells(Flushed(c))
  <1> DEFINE d == Flushed(c)
  <1>1. Len(c) \in Nat /\ DOMAIN c = 1 .. Len(c) /\ \A i \in 1 .. Len(c) : c[i] \in CellOf(R)
    BY SeqOfCells
  <1>2. d = [i \in 1 .. Len(c) |-> Settled(c[i], c[i].live)]
    BY <1>1 DEF Flushed
  <1> HIDE DEF d
  <1>3. ASSUME NEW i \in 1 .. Len(c)
        PROVE  /\ d[i] \in CellOf(R) /\ d[i].row = c[i].row
               /\ d[i].live = c[i].live /\ d[i].file = {c[i].live}
    <2>1. d[i] = Settled(c[i], c[i].live) /\ c[i] \in CellOf(R) /\ c[i].live \in BOOLEAN
      BY <1>1, <1>2, CellFields
    <2> QED
      BY <2>1, SettledCell
  <1>4. d \in Seq(CellOf(R)) /\ Len(d) = Len(c)
    BY <1>1, <1>2, <1>3, MappedSeq
  <1> QED
    BY <1>3, <1>4 DEF SameCells, SettledCells, d

LEMMA ReloadedCells ==
  ASSUME NEW R, NEW c \in Seq(CellOf(R)), NEW d \in Reloads(c)
  PROVE  /\ d \in Seq(CellOf(R))
         /\ SettledCells(c) => SameCells(c, d)
         /\ SettledCells(d)
  <1>1. Len(c) \in Nat /\ DOMAIN c = 1 .. Len(c) /\ \A i \in 1 .. Len(c) : c[i] \in CellOf(R)
    BY SeqOfCells
  <1>2. PICK f \in [1 .. Len(c) -> BOOLEAN] :
          /\ \A i \in 1 .. Len(c) : f[i] \in c[i].file
          /\ d = [i \in 1 .. Len(c) |-> Settled(c[i], f[i])]
    BY <1>1, Zenon DEF Reloads
  <1>3. ASSUME NEW i \in 1 .. Len(c)
        PROVE  /\ d[i] \in CellOf(R) /\ d[i].row = c[i].row /\ d[i].live = f[i]
               /\ d[i].file = {d[i].live}
    <2>1. d[i] = Settled(c[i], f[i]) /\ c[i] \in CellOf(R) /\ f[i] \in BOOLEAN
      BY <1>1, <1>2
    <2> QED
      BY <2>1, SettledCell
  <1>4. d \in Seq(CellOf(R)) /\ Len(d) = Len(c)
    BY <1>1, <1>2, <1>3, MappedSeq
  <1>5. ASSUME SettledCells(c), NEW i \in 1 .. Len(c)
        PROVE  f[i] = c[i].live
    BY <1>2, <1>5 DEF SettledCells
  <1>6. SettledCells(d)
    BY <1>3, <1>4 DEF SettledCells
  <1> QED
    BY <1>3, <1>4, <1>5, <1>6 DEF SameCells

\* The cells c with those at P deleted.
WithoutCells(c, d, P) ==
  /\ Len(d) = Len(c)
  /\ \A i \in 1 .. Len(c) : d[i].row = c[i].row /\ (d[i].live <=> c[i].live /\ i \notin P)

LEMMA DeletedCells ==
  ASSUME NEW R, NEW c \in Seq(CellOf(R)), NEW P
  PROVE  Deleted(c, P) \in Seq(CellOf(R)) /\ WithoutCells(c, Deleted(c, P), P)
  <1> DEFINE d == Deleted(c, P)
  <1>1. Len(c) \in Nat /\ DOMAIN c = 1 .. Len(c) /\ \A i \in 1 .. Len(c) : c[i] \in CellOf(R)
    BY SeqOfCells
  <1>2. d = [i \in 1 .. Len(c) |-> IF i \in P THEN DeletedCell(c[i]) ELSE c[i]]
    BY <1>1 DEF Deleted, DeletedCell
  <1> HIDE DEF d
  <1>3. ASSUME NEW i \in 1 .. Len(c)
        PROVE  /\ d[i] \in CellOf(R) /\ d[i].row = c[i].row
               /\ d[i].live <=> c[i].live /\ i \notin P
    <2>1. d[i] = (IF i \in P THEN DeletedCell(c[i]) ELSE c[i]) /\ c[i] \in CellOf(R)
      BY <1>1, <1>2
    <2> QED
      BY <2>1, DeadCell, Zenon
  <1>4. d \in Seq(CellOf(R)) /\ Len(d) = Len(c)
    BY <1>1, <1>2, <1>3, MappedSeq
  <1> QED
    BY <1>3, <1>4 DEF WithoutCells, d

\* The cells c with the rows added.
WithCells(c, d, rows) ==
  /\ Len(d) = Len(c) + Len(rows)
  /\ \A i \in 1 .. Len(c) : d[i] = c[i]
  /\ \A i \in 1 .. Len(rows) : d[Len(c) + i].row = rows[i] /\ d[Len(c) + i].live = TRUE

LEMMA InsertedCells ==
  ASSUME NEW R, NEW c \in Seq(CellOf(R)), NEW rows \in Seq(R)
  PROVE  Inserted(c, rows) \in Seq(CellOf(R)) /\ WithCells(c, Inserted(c, rows), rows)
  <1> DEFINE a == [i \in 1 .. Len(rows) |-> Cell(rows[i])]
             d == c \o a
  <1>1. Len(rows) \in Nat /\ DOMAIN rows = 1 .. Len(rows) /\ \A i \in 1 .. Len(rows) : rows[i] \in R
    BY SeqOfCells
  <1>2. Inserted(c, rows) = d
    BY <1>1 DEF Inserted
  <1>3. \A i \in 1 .. Len(rows) : a[i] \in CellOf(R) /\ a[i].row = rows[i] /\ a[i].live = TRUE
    BY <1>1, NewCell, Zenon
  <1>4. a = [i \in 1 .. Len(rows) |-> a[i]]
    OBVIOUS
  <1> HIDE DEF a
  <1>5. a \in Seq(CellOf(R)) /\ Len(a) = Len(rows)
    BY <1>1, <1>3, <1>4, MappedSeq
  <1>6. /\ d \in Seq(CellOf(R)) /\ Len(d) = Len(c) + Len(rows)
        /\ \A i \in 1 .. Len(c) : d[i] = c[i]
        /\ \A i \in 1 .. Len(rows) : d[Len(c) + i] = a[i]
    BY <1>5
  <1> HIDE DEF d
  <1> QED
    BY <1>2, <1>3, <1>6 DEF WithCells

(***************************************************************************)
(* Tables: what the live rows are.                                         *)
(***************************************************************************)
LEMMA TableRows ==
  ASSUME NEW h, HeapOK(h), NEW t \in SystemTable
  PROVE  /\ Len(h[t]) \in Nat
         /\ DOMAIN h[t] = 1 .. Len(h[t])
         /\ LivePositions(h, t) = {i \in 1 .. Len(h[t]) : h[t][i].live}
         /\ \A i \in 1 .. Len(h[t]) : /\ h[t][i] \in CellOf(RowOf[t])
                                      /\ h[t][i].row \in RowOf[t]
                                      /\ h[t][i].live \in BOOLEAN
  <1>1. h[t] \in Seq(CellOf(RowOf[t]))
    BY Zenon DEF HeapOK
  <1>2. /\ Len(h[t]) \in Nat /\ DOMAIN h[t] = 1 .. Len(h[t])
        /\ \A i \in 1 .. Len(h[t]) : h[t][i] \in CellOf(RowOf[t])
    BY <1>1, SeqOfCells
  <1> QED
    BY <1>2, CellFields, Zenon DEF LivePositions

LEMMA LiveRows ==
  ASSUME NEW h, HeapOK(h), NEW t \in SystemTable
  PROVE  LivePositions(h, t) = {i \in 1 .. Len(h[t]) : h[t][i].live}
  BY TableRows

LEMMA SystemTables ==
  /\ "type" \in SystemTable /\ "class" \in SystemTable /\ "attribute" \in SystemTable
  /\ \A t \in SystemTable : t = "type" \/ t = "class" \/ t = "attribute"
  BY DEF SystemTable

LEMMA AttributeFields ==
  ASSUME NEW oid, NEW attnum, NEW column
  PROVE  /\ AttributeRow(oid, attnum, column).attrelid = oid
         /\ AttributeRow(oid, attnum, column).attnum = attnum
         /\ AttributeRow(oid, attnum, column).column = column
  BY DEF AttributeRow

LEMMA RowFields ==
  /\ \A r \in RowOf["class"] : r.oid \in Oid /\ r.name \in AllNames
  /\ \A r \in RowOf["attribute"] : r.attrelid \in Oid /\ r.attnum \in Nat /\ r.column \in Column
  BY DEF RowOf

\* The live rows of edb_class, and those of edb_attribute for oid, are the same.
SameClasses(h, g) ==
  /\ LivePositions(g, "class") = LivePositions(h, "class")
  /\ \A i \in LivePositions(h, "class") : g["class"][i].row = h["class"][i].row

SameAttributes(h, g, oid) ==
  /\ AttributePositions(g, oid) = AttributePositions(h, oid)
  /\ \A i \in AttributePositions(h, oid) : g["attribute"][i].row = h["attribute"][i].row

SameView(h, g) == \A t \in SystemTable : SameCells(h[t], g[t])

LEMMA SameLive ==
  ASSUME NEW h, NEW g, HeapOK(h), HeapOK(g), NEW t \in SystemTable, SameCells(h[t], g[t])
  PROVE  /\ LivePositions(g, t) = LivePositions(h, t)
         /\ \A i \in LivePositions(h, t) : g[t][i].row = h[t][i].row
  <1>1. /\ LivePositions(h, t) = {i \in 1 .. Len(h[t]) : h[t][i].live}
        /\ LivePositions(g, t) = {i \in 1 .. Len(g[t]) : g[t][i].live}
    BY LiveRows, Zenon
  <1>2. /\ Len(g[t]) = Len(h[t])
        /\ \A i \in 1 .. Len(h[t]) : g[t][i].row = h[t][i].row /\ g[t][i].live = h[t][i].live
    BY DEF SameCells
  <1> QED
    BY <1>1, <1>2

LEMMA AttributesAreLive ==
  ASSUME NEW h, NEW oid
  PROVE  AttributePositions(h, oid) \subseteq LivePositions(h, "attribute")
  BY DEF AttributePositions

LEMMA SameViews ==
  ASSUME NEW h, NEW g, HeapOK(h), HeapOK(g), SameView(h, g)
  PROVE  /\ SameClasses(h, g)
         /\ \A oid : SameAttributes(h, g, oid)
  <1>0. SameCells(h["class"], g["class"]) /\ SameCells(h["attribute"], g["attribute"])
    BY SystemTables, Zenon DEF SameView
  <1>1. SameClasses(h, g)
    BY <1>0, SameLive, SystemTables DEF SameClasses
  <1>2. /\ LivePositions(g, "attribute") = LivePositions(h, "attribute")
        /\ \A i \in LivePositions(h, "attribute") : g["attribute"][i].row = h["attribute"][i].row
    BY <1>0, SameLive, SystemTables
  <1>3. ASSUME NEW oid
        PROVE  SameAttributes(h, g, oid)
    BY <1>2 DEF AttributePositions, SameAttributes
  <1> QED
    BY <1>1, <1>3

LEMMA SameClassesKeep ==
  ASSUME NEW h, NEW g, SameClasses(h, g)
  PROVE  /\ UniqueClasses(h) => UniqueClasses(g)
         /\ \A oid : KnownIn(g, oid) <=> KnownIn(h, oid)
         /\ Rows(g, "class") = Rows(h, "class")
  <1>1. UniqueClasses(h) => UniqueClasses(g)
    BY DEF SameClasses, UniqueClasses
  <1>2. \A oid : KnownIn(g, oid) <=> KnownIn(h, oid)
    BY DEF SameClasses, KnownIn
  <1>3. Rows(g, "class") = Rows(h, "class")
    BY DEF SameClasses, Rows
  <1> QED
    BY <1>1, <1>2, <1>3

LEMMA ColumnsKept ==
  ASSUME NEW h, NEW g, NEW oid, SameAttributes(h, g, oid),
         NEW columns \in Seq(Column), HasColumns(h, oid, columns)
  PROVE  HasColumns(g, oid, columns)
  <1>1. PICK b \in Nat :
          /\ AttributePositions(h, oid) = b + 1 .. b + Len(columns)
          /\ \A k \in 1 .. Len(columns) :
               h["attribute"][b + k].row = AttributeRow(oid, k, columns[k])
    BY Zenon DEF HasColumns
  <1>2. \A k \in 1 .. Len(columns) : b + k \in AttributePositions(h, oid)
    BY <1>1
  <1>3. \A k \in 1 .. Len(columns) :
          g["attribute"][b + k].row = AttributeRow(oid, k, columns[k])
    BY <1>1, <1>2, Zenon DEF SameAttributes
  <1> QED
    BY <1>1, <1>3, Zenon DEF HasColumns, SameAttributes

\* What create_table promised about a relation stays true of tables that have
\* the same rows for it.
LEMMA RestsKept ==
  ASSUME NEW h, NEW g, NEW oid, SameAttributes(h, g, oid),
         KnownIn(g, oid) <=> KnownIn(h, oid),
         NEW columns, columns = <<>> \/ columns \in Seq(Column), NEW cached, NEW table,
         Rests(h, oid, columns, cached, table)
  PROVE  Rests(g, oid, columns, cached, table)
  <1>1. columns # <<>> => HasColumns(g, oid, columns)
    BY ColumnsKept, Zenon DEF Rests
  <1> QED
    BY <1>1, Zenon DEF Rests, SameAttributes

LEMMA KnownClass ==
  ASSUME NEW oid
  PROVE  Known(oid) <=> KnownIn(heap, oid)
  BY DEF Known, KnownIn, Rows

RowsAdded(h, g, t, rows) ==
  /\ LivePositions(g, t) = LivePositions(h, t) \cup (Len(h[t]) + 1 .. Len(h[t]) + Len(rows))
  /\ \A i \in LivePositions(h, t) : i <= Len(h[t]) /\ g[t][i].row = h[t][i].row
  /\ \A i \in 1 .. Len(rows) : g[t][Len(h[t]) + i].row = rows[i]

LEMMA InsertedRows ==
  ASSUME NEW h, NEW g, HeapOK(h), HeapOK(g), NEW t \in SystemTable,
         NEW rows, Len(rows) \in Nat, WithCells(h[t], g[t], rows)
  PROVE  RowsAdded(h, g, t, rows)
  <1> DEFINE m == Len(h[t])
             n == Len(rows)
  <1>1. m \in Nat
    BY TableRows
  <1>2. /\ LivePositions(h, t) = {i \in 1 .. m : h[t][i].live}
        /\ LivePositions(g, t) = {i \in 1 .. Len(g[t]) : g[t][i].live}
    BY LiveRows, Zenon
  <1>3. /\ Len(g[t]) = m + n
        /\ \A i \in 1 .. m : g[t][i] = h[t][i]
        /\ \A i \in 1 .. n : g[t][m + i].row = rows[i] /\ g[t][m + i].live = TRUE
    BY DEF WithCells
  <1> HIDE DEF m, n
  <1>4. \A i \in m + 1 .. m + n : g[t][i].live = TRUE
    <2> TAKE i \in m + 1 .. m + n
    <2>1. i - m \in 1 .. n /\ m + (i - m) = i
      BY <1>1 DEF n
    <2> QED
      BY <1>3, <2>1
  <1>5. ASSUME NEW i
        PROVE  i \in LivePositions(g, t) <=>
                 i \in LivePositions(h, t) \/ i \in m + 1 .. m + n
    <2>1. i \in 1 .. m + n <=> i \in 1 .. m \/ i \in m + 1 .. m + n
      BY <1>1 DEF n
    <2>2. ~ (i \in 1 .. m /\ i \in m + 1 .. m + n)
      BY <1>1 DEF n
    <2> QED
      BY <1>2, <1>3, <1>4, <2>1, <2>2
  <1>6. \A i \in LivePositions(h, t) : i <= m /\ g[t][i].row = h[t][i].row
    BY <1>1, <1>2, <1>3
  <1> QED
    BY <1>3, <1>5, <1>6 DEF m, n, RowsAdded

RowsGone(h, g, t, P) ==
  /\ LivePositions(g, t) = LivePositions(h, t) \ P
  /\ \A i \in LivePositions(h, t) : g[t][i].row = h[t][i].row

LEMMA DeletedRows ==
  ASSUME NEW h, NEW g, HeapOK(h), HeapOK(g), NEW t \in SystemTable,
         NEW P, WithoutCells(h[t], g[t], P)
  PROVE  RowsGone(h, g, t, P)
  <1>1. /\ LivePositions(h, t) = {i \in 1 .. Len(h[t]) : h[t][i].live}
        /\ LivePositions(g, t) = {i \in 1 .. Len(g[t]) : g[t][i].live}
    BY LiveRows, Zenon
  <1>2. /\ Len(g[t]) = Len(h[t])
        /\ \A i \in 1 .. Len(h[t]) : /\ g[t][i].row = h[t][i].row
                                     /\ g[t][i].live <=> h[t][i].live /\ i \notin P
    BY DEF WithoutCells
  <1> QED
    BY <1>1, <1>2 DEF RowsGone

(***************************************************************************)
(* get_attributes: the sort by attnum gives the columns back.              *)
(***************************************************************************)
LEMMA NoColumns ==
  ASSUME NEW h, NEW oid, AttributePositions(h, oid) = {}
  PROVE  ColumnsOf(h, oid) = <<>>
  <1>1. Cardinality(AttributePositions(h, oid)) = 0
    BY FS_EmptySet
  <1> QED
    BY <1>1 DEF ColumnsOf

LEMMA IntervalSize ==
  ASSUME NEW a \in Int, NEW n \in Nat
  PROVE  Cardinality(a + 1 .. a + n) = n
  <1>1. CASE n = 0
    <2>1. a + 1 .. a + n = {}
      BY <1>1
    <2> QED
      BY <1>1, <2>1, FS_EmptySet
  <1>2. CASE n # 0
    <2>1. a + 1 \in Int /\ a + n \in Int /\ ~ (a + 1 > a + n)
      BY <1>2
    <2>2. Cardinality(a + 1 .. a + n) = (a + n) - (a + 1) + 1
      BY <2>1, FS_Interval
    <2> QED
      BY <2>2
  <1> QED
    BY <1>1, <1>2

LEMMA SortedColumns ==
  ASSUME NEW h, NEW oid, NEW columns \in Seq(Column), HasColumns(h, oid, columns)
  PROVE  ColumnsOf(h, oid) = columns
  <1> DEFINE at == AttributePositions(h, oid)
             n == Len(columns)
             Rank(i) == Cardinality(SortedBefore(h, oid, i))
             Ranked(k) == CHOOSE i \in at : Rank(i) = k - 1
  <1>0. n \in Nat /\ columns = [k \in 1 .. n |-> columns[k]]
    OBVIOUS
  <1>1. PICK b \in Nat :
          /\ at = b + 1 .. b + n
          /\ \A k \in 1 .. n :
               h["attribute"][b + k].row = AttributeRow(oid, k, columns[k])
    BY Zenon DEF HasColumns
  <1> HIDE DEF n
  <1>2. \A k \in 1 .. n : /\ h["attribute"][b + k].row.attnum = k
                          /\ h["attribute"][b + k].row.column = columns[k]
    <2> TAKE k \in 1 .. n
    <2>1. h["attribute"][b + k].row = AttributeRow(oid, k, columns[k])
      BY <1>1
    <2> QED
      BY <2>1, AttributeFields
  <1>3. ASSUME NEW k \in 1 .. n
        PROVE  Rank(b + k) = k - 1
    <2>1. \A j : j \in at <=> \E m \in 1 .. n : j = b + m
      <3>1. \A m \in 1 .. n : b + m \in at
        BY <1>0, <1>1
      <3>2. \A j \in at : j - b \in 1 .. n /\ j = b + (j - b)
        BY <1>0, <1>1
      <3> QED
        BY <3>1, <3>2
    <2>2. ASSUME NEW j
          PROVE  j \in SortedBefore(h, oid, b + k) <=> j \in b + 1 .. b + (k - 1)
      <3>1. ASSUME NEW m \in 1 .. n, j = b + m
            PROVE  j \in SortedBefore(h, oid, b + k) <=> m < k
        <4>1. /\ j \in at
              /\ h["attribute"][j].row.attnum = m
              /\ h["attribute"][b + k].row.attnum = k
          BY <1>2, <2>1, <3>1
        <4>2. j \in SortedBefore(h, oid, b + k) <=> (m < k \/ (m = k /\ j < b + k))
          BY <4>1 DEF SortedBefore
        <4> QED
          BY <1>0, <3>1, <4>2
      <3>2. j \in SortedBefore(h, oid, b + k) => \E m \in 1 .. n : j = b + m
        BY <2>1 DEF SortedBefore
      <3>3. j \in b + 1 .. b + (k - 1) => j - b \in 1 .. n /\ j = b + (j - b)
        BY <1>0
      <3>4. \A m \in 1 .. n : b + m \in b + 1 .. b + (k - 1) <=> m < k
        BY <1>0
      <3> QED
        BY <3>1, <3>2, <3>3, <3>4
    <2>3. SortedBefore(h, oid, b + k) = b + 1 .. b + (k - 1)
      BY <2>2, Zenon
    <2>4. k - 1 \in Nat /\ b \in Int
      BY <1>0
    <2> QED
      BY <2>3, <2>4, IntervalSize, Zenon
  <1>4. Cardinality(at) = n
    BY <1>0, <1>1, IntervalSize
  <1> HIDE DEF at
  <1>5. ASSUME NEW k \in 1 .. n
        PROVE  Ranked(k) = b + k
    <2>1. b + k \in at /\ Rank(b + k) = k - 1
      BY <1>0, <1>1, <1>3
    <2>2. ASSUME NEW i \in at, Rank(i) = k - 1
          PROVE  i = b + k
      <3>1. i - b \in 1 .. n /\ i = b + (i - b)
        BY <1>0, <1>1
      <3>2. Rank(b + (i - b)) = (i - b) - 1
        BY <1>3, <3>1
      <3>3. (i - b) - 1 = k - 1 /\ i \in Int
        BY <1>1, <2>2, <3>1, <3>2
      <3> QED
        BY <3>3
    <2> HIDE DEF Rank
    <2> QED
      BY <2>1, <2>2
  <1>6. ColumnsOf(h, oid) = [k \in 1 .. Cardinality(at) |-> h["attribute"][Ranked(k)].row.column]
    BY DEF ColumnsOf, at
  <1> HIDE DEF Ranked
  <1> QED
    BY <1>0, <1>2, <1>4, <1>5, <1>6

(***************************************************************************)
(* The tables that the operations build.                                   *)
(***************************************************************************)
LEMMA NewHeap ==
  ASSUME NEW h, DOMAIN h = SystemTable,
         h["type"] \in Seq(CellOf(RowOf["type"])),
         h["class"] \in Seq(CellOf(RowOf["class"])),
         h["attribute"] \in Seq(CellOf(RowOf["attribute"]))
  PROVE  HeapOK(h)
  <1>1. ASSUME NEW t \in SystemTable
        PROVE  h[t] \in Seq(CellOf(RowOf[t]))
    BY SystemTables, Zenon
  <1> QED
    BY <1>1, Zenon DEF HeapOK

LEMMA HeapCells ==
  ASSUME NEW h, HeapOK(h)
  PROVE  /\ DOMAIN h = SystemTable
         /\ h["type"] \in Seq(CellOf(RowOf["type"]))
         /\ h["class"] \in Seq(CellOf(RowOf["class"]))
         /\ h["attribute"] \in Seq(CellOf(RowOf["attribute"]))
  BY SystemTables, Zenon DEF HeapOK

\* The rows of a relation go into edb_class and edb_attribute.
LEMMA RowsOfRelation ==
  ASSUME NEW oid \in Oid, NEW name \in AllNames, NEW columns \in Seq(Column),
         NEW n \in 0 .. Len(columns)
  PROVE  LET rows == SubSeq(AttributeRows(oid, columns), 1, n)
         IN /\ <<ClassRow(oid, name, "table")>> \in Seq(RowOf["class"])
            /\ Len(<<ClassRow(oid, name, "table")>>) = 1
            /\ rows \in Seq(RowOf["attribute"])
            /\ Len(rows) = n
            /\ \A k \in 1 .. n : rows[k] = AttributeRow(oid, k, columns[k])
  <1> DEFINE all == AttributeRows(oid, columns)
  <1>1. Len(columns) \in Nat /\ DOMAIN columns = 1 .. Len(columns)
        /\ \A k \in 1 .. Len(columns) : columns[k] \in Column
    BY SeqOfCells
  <1>2. all = [k \in 1 .. Len(columns) |-> AttributeRow(oid, k, columns[k])]
    BY <1>1 DEF AttributeRows, AttributeRow
  <1>3. \A k \in 1 .. Len(columns) : AttributeRow(oid, k, columns[k]) \in RowOf["attribute"]
    BY <1>1 DEF AttributeRow, RowOf
  <1> HIDE DEF all
  <1>4. all \in Seq(RowOf["attribute"]) /\ Len(all) = Len(columns)
    BY <1>1, <1>2, <1>3, MappedSeq
  <1>5. ClassRow(oid, name, "table") \in RowOf["class"]
    BY DEF ClassRow, RowOf
  <1>6. /\ <<ClassRow(oid, name, "table")>> \in Seq(RowOf["class"])
        /\ Len(<<ClassRow(oid, name, "table")>>) = 1
    BY <1>5, OneRow, Zenon
  <1>7. /\ SubSeq(all, 1, n) \in Seq(RowOf["attribute"]) /\ Len(SubSeq(all, 1, n)) = n
        /\ \A k \in 1 .. n : SubSeq(all, 1, n)[k] = all[k]
    <2>1. n \in 0 .. Len(all)
      BY <1>4
    <2> QED
      BY <1>4, <2>1, FirstRows, ZenonT(30)
  <1>8. \A k \in 1 .. n : all[k] = AttributeRow(oid, k, columns[k])
    BY <1>1, <1>2
  <1> QED
    BY <1>6, <1>7, <1>8 DEF all

\* The tables g after the class row and n attribute rows of oid were inserted.
RelationAdded(h, g, oid, name, columns, n) ==
  LET c == Len(h["class"]) + 1
      a == Len(h["attribute"])
  IN /\ HeapOK(g)
     /\ LivePositions(g, "class") = LivePositions(h, "class") \cup {c}
     /\ \A i \in LivePositions(h, "class") : i # c /\ g["class"][i].row = h["class"][i].row
     /\ g["class"][c].row.oid = oid /\ g["class"][c].row.name = name
     /\ \A o \in Oid \ {oid} : SameAttributes(h, g, o)
     /\ AttributePositions(g, oid) = AttributePositions(h, oid) \cup (a + 1 .. a + n)
     /\ \A k \in 1 .. n : g["attribute"][a + k].row = AttributeRow(oid, k, columns[k])

LEMMA RegisteredTables ==
  ASSUME HeapOK(heap), NEW oid \in Oid, NEW name \in AllNames, NEW columns \in Seq(Column),
         NEW n \in 0 .. Len(columns)
  PROVE  RelationAdded(heap, Registered(oid, name, columns, n), oid, name, columns, n)
  <1> DEFINE g == Registered(oid, name, columns, n)
             row == ClassRow(oid, name, "table")
             one == <<row>>
             rows == SubSeq(AttributeRows(oid, columns), 1, n)
             c == Len(heap["class"]) + 1
             a == Len(heap["attribute"])
  <1>1. /\ one \in Seq(RowOf["class"]) /\ Len(one) = 1
        /\ rows \in Seq(RowOf["attribute"]) /\ Len(rows) = n
        /\ \A k \in 1 .. n : rows[k] = AttributeRow(oid, k, columns[k])
    BY RowsOfRelation
  <1>2. g = [heap EXCEPT !["class"] = Inserted(heap["class"], one),
                         !["attribute"] = Inserted(heap["attribute"], rows)]
    BY DEF Registered
  <1>3. row.oid = oid /\ row.name = name /\ one[1] = row
    BY DEF ClassRow
  <1>4. n \in Nat
    OBVIOUS
  <1> HIDE DEF g, row, rows, one
  <1>5. /\ DOMAIN heap = SystemTable
        /\ heap["type"] \in Seq(CellOf(RowOf["type"]))
        /\ heap["class"] \in Seq(CellOf(RowOf["class"]))
        /\ heap["attribute"] \in Seq(CellOf(RowOf["attribute"]))
    BY HeapCells
  <1>6. /\ DOMAIN g = SystemTable /\ g["type"] = heap["type"]
        /\ g["class"] = Inserted(heap["class"], one)
        /\ g["attribute"] = Inserted(heap["attribute"], rows)
    BY <1>2, <1>5, SystemTables
  <1>7. /\ g["class"] \in Seq(CellOf(RowOf["class"]))
        /\ WithCells(heap["class"], g["class"], one)
    BY <1>1, <1>5, <1>6, InsertedCells
  <1>8. /\ g["attribute"] \in Seq(CellOf(RowOf["attribute"]))
        /\ WithCells(heap["attribute"], g["attribute"], rows)
    BY <1>1, <1>5, <1>6, InsertedCells
  <1>9. HeapOK(g)
    <2>1. g["type"] \in Seq(CellOf(RowOf["type"]))
      BY <1>5, <1>6
    <2> QED
      BY <1>6, <1>7, <1>8, <2>1, NewHeap, Zenon
  <1>10. c \in Nat /\ a \in Nat /\ c - 1 \in Nat
    BY TableRows, SystemTables
  <1>11. /\ LivePositions(g, "class") = LivePositions(heap, "class") \cup (c .. c)
         /\ \A i \in LivePositions(heap, "class") :
              i <= c - 1 /\ g["class"][i].row = heap["class"][i].row
         /\ g["class"][c].row = row
    <2>1. RowsAdded(heap, g, "class", one)
      <3>1. Len(one) \in Nat
        BY <1>1
      <3> QED
        BY <1>7, <1>9, <3>1, InsertedRows, SystemTables, Zenon
    <2> QED
      <3>1. g["class"][Len(heap["class"]) + 1].row = one[1]
        BY <1>1, <2>1 DEF RowsAdded
      <3> QED
        BY <1>1, <1>3, <1>10, <2>1, <3>1 DEF RowsAdded
  <1>12. /\ LivePositions(g, "attribute") =
              LivePositions(heap, "attribute") \cup (a + 1 .. a + n)
         /\ \A i \in LivePositions(heap, "attribute") :
              i <= a /\ g["attribute"][i].row = heap["attribute"][i].row
         /\ \A k \in 1 .. n : g["attribute"][a + k].row = AttributeRow(oid, k, columns[k])
    <2>1. RowsAdded(heap, g, "attribute", rows)
      <3>1. Len(rows) \in Nat
        BY <1>1, <1>4
      <3> QED
        BY <1>8, <1>9, <3>1, InsertedRows, SystemTables, Zenon
    <2> QED
      BY <1>1, <2>1 DEF RowsAdded
  <1> HIDE DEF c, a
  <1>13. \A i \in a + 1 .. a + n : g["attribute"][i].row.attrelid = oid
    <2> TAKE i \in a + 1 .. a + n
    <2>1. i - a \in 1 .. n /\ a + (i - a) = i
      BY <1>4, <1>10
    <2> QED
      BY <1>12, <2>1, AttributeFields
  <1>14. ASSUME NEW o \in Oid \ {oid}
         PROVE  SameAttributes(heap, g, o)
    BY <1>12, <1>13 DEF SameAttributes, AttributePositions
  <1>15. AttributePositions(g, oid) = AttributePositions(heap, oid) \cup (a + 1 .. a + n)
    BY <1>12, <1>13 DEF AttributePositions
  <1>16. LivePositions(g, "class") = LivePositions(heap, "class") \cup {c}
    BY <1>10, <1>11
  <1>17. \A i \in LivePositions(heap, "class") : i # c /\ g["class"][i].row = heap["class"][i].row
    <2>1. LivePositions(heap, "class") \subseteq Nat
      BY <1>10, LiveRows, SystemTables DEF c
    <2> QED
      BY <1>10, <1>11, <2>1
  <1> QED
    BY <1>3, <1>9, <1>11, <1>12, <1>14, <1>15, <1>16, <1>17 DEF RelationAdded, g, c, a

LEMMA LeastNatural ==
  ASSUME NEW S \in SUBSET Nat, S # {}
  PROVE  \E n \in S : \A m \in S : n <= m
  <1> DEFINE R == OpToRel(<, Nat)
  <1>0. R = {ss \in Nat \X Nat : ss[1] < ss[2]}
    BY DEF OpToRel
  <1>1. PICK n \in S : \A m \in S : ~ (<<m, n>> \in R)
    BY NatLessThanWellFounded, WFMin, Zenon
  <1> HIDE DEF R
  <1>2. ASSUME NEW m \in S PROVE ~ (m < n)
    BY <1>0, <1>1, Zenon
  <1> QED
    BY <1>2

LEMMA MinIsLeast ==
  ASSUME NEW S \in SUBSET Nat, S # {}
  PROVE  Min(S) \in S /\ \A m \in S : Min(S) <= m
  BY LeastNatural, Zenon DEF Min

LEMMA MaxIsGreatest ==
  ASSUME NEW n \in Nat, NEW S \in SUBSET (0 .. n), S # {}
  PROVE  Max(S) \in S /\ \A m \in S : m <= Max(S)
  <1> DEFINE R == {n - m : m \in S}
  <1>0. \A m \in S : m \in Nat /\ n - m \in Nat
    OBVIOUS
  <1>1. R \in SUBSET Nat /\ R # {}
    BY <1>0, Zenon
  <1>2. PICK r \in R : \A m \in R : r <= m
    BY <1>1, LeastNatural, Zenon
  <1>3. PICK x \in S : r = n - x
    BY <1>2
  <1>4. ASSUME NEW m \in S
        PROVE  m <= x
    <2>1. n - x <= n - m
      BY <1>2, <1>3
    <2>2. n - m \in Nat /\ n - x \in Nat /\ m \in Nat /\ x \in Nat
      BY <1>0
    <2> QED
      BY <2>1, <2>2
  <1> QED
    BY <1>0, <1>4, Zenon DEF Max

LEMMA ColumnsAdded ==
  ASSUME NEW h, NEW g, HeapOK(h), NEW oid, NEW name, NEW columns \in Seq(Column),
         RelationAdded(h, g, oid, name, columns, Len(columns)),
         AttributePositions(h, oid) = {}
  PROVE  HasColumns(g, oid, columns)
  <1> DEFINE a == Len(h["attribute"])
  <1>1. a \in Nat
    BY TableRows, SystemTables
  <1>2. /\ AttributePositions(g, oid) = a + 1 .. a + Len(columns)
        /\ \A k \in 1 .. Len(columns) :
             g["attribute"][a + k].row = AttributeRow(oid, k, columns[k])
    BY DEF RelationAdded
  <1> HIDE DEF a
  <1> QED
    BY <1>1, <1>2, Zenon DEF HasColumns

\* next_relation_oid is above every oid in edb_class.
LEMMA NewOid ==
  ASSUME HeapOK(heap), NEW i \in LivePositions(heap, "class")
  PROVE  heap["class"][i].row.oid # NextRelationOid
  <1> DEFINE S == {0} \cup {row.oid : row \in Rows(heap, "class")}
             o == heap["class"][i].row.oid
  <1>1. ASSUME NEW j \in LivePositions(heap, "class")
        PROVE  heap["class"][j].row.oid \in Oid
    <2>1. heap["class"][j].row \in RowOf["class"]
      BY TableRows, SystemTables
    <2> QED
      BY <2>1, RowFields
  <1>2. \A row \in Rows(heap, "class") : row.oid \in Oid
    BY <1>1 DEF Rows
  <1>3. Len(SystemName) + MaxRows \in Nat
    BY SystemNameAssumption, MaxRowsAssumption
  <1>4. S \in SUBSET (0 .. Len(SystemName) + MaxRows) /\ S # {}
    BY <1>2, <1>3 DEF Oid
  <1>5. o \in S
    BY DEF Rows
  <1>6. NextRelationOid = Max(S) + 1
    BY DEF NextRelationOid
  <1> HIDE DEF S, o
  <1>7. Max(S) \in S /\ \A m \in S : m <= Max(S)
    BY <1>3, <1>4, MaxIsGreatest, Zenon
  <1>8. o <= Max(S) /\ o \in Nat /\ Max(S) \in Nat
    <2>1. S \subseteq Nat
      BY <1>3, <1>4
    <2> QED
      BY <1>5, <1>7, <2>1, Zenon
  <1> QED
    BY <1>6, <1>8 DEF o

LEMMA NoSuchClass ==
  ASSUME NEW name, ClassesNamed(name) = {}, NEW i \in LivePositions(heap, "class")
  PROVE  heap["class"][i].row.name # name
  BY Zenon DEF ClassesNamed

\* What get_class returns is a row of edb_class, if what is cached is.
LEMMA FoundClass ==
  ASSUME HeapOK(heap), class_cache \subseteq Rows(heap, "class"),
         NEW name, NEW class \in ClassesNamed(name)
  PROVE  class \in Rows(heap, "class")
  <1> DEFINE cached == {row \in class_cache : row.name = name}
             found == {i \in LivePositions(heap, "class") : heap["class"][i].row.name = name}
  <1>1. class \in cached \/ (found # {} /\ class = heap["class"][Min(found)].row)
    BY DEF ClassesNamed
  <1>2. found \in SUBSET Nat
    BY LiveRows, TableRows, SystemTables
  <1>3. found \subseteq LivePositions(heap, "class") /\ cached \subseteq class_cache
    OBVIOUS
  <1> HIDE DEF found, cached
  <1>4. found # {} => Min(found) \in found
    BY <1>2, MinIsLeast, Zenon
  <1> QED
    BY <1>1, <1>3, <1>4 DEF Rows

LEMMA ClassOids ==
  ASSUME HeapOK(heap), NEW class \in Rows(heap, "class")
  PROVE  class.oid \in Oid /\ class.name \in AllNames /\ KnownIn(heap, class.oid)
  <1>1. PICK i \in LivePositions(heap, "class") : class = heap["class"][i].row
    BY DEF Rows
  <1>2. class \in RowOf["class"]
    BY <1>1, LiveRows, TableRows, SystemTables
  <1> QED
    BY <1>1, <1>2, RowFields DEF KnownIn

\* The first n attribute rows are all of them, if n is their number.
LEMMA AllAttributes ==
  ASSUME HeapOK(heap), NEW oid
  PROVE  FirstAttributes(oid, Cardinality(AttributePositions(heap, oid))) =
           AttributePositions(heap, oid)
  <1> DEFINE at == AttributePositions(heap, oid)
             m == Len(heap["attribute"])
             Before(i) == {j \in at : j < i}
  <1>1. m \in Nat /\ at \subseteq 1 .. m
    BY TableRows, LiveRows, SystemTables DEF AttributePositions
  <1>2. IsFiniteSet(at)
    <2>1. IsFiniteSet(1 .. m)
      BY <1>1, FS_Interval
    <2> HIDE DEF at
    <2> QED
      BY <1>1, <2>1, FS_Subset, Zenon
  <1>3. FirstAttributes(oid, Cardinality(at)) = {i \in at : Cardinality(Before(i)) < Cardinality(at)}
    BY DEF FirstAttributes
  <1>4. ASSUME NEW i \in at
        PROVE  Cardinality(Before(i)) < Cardinality(at)
    <2>1. Before(i) \subseteq at /\ i \notin Before(i)
      BY <1>1
    <2> HIDE DEF Before, at
    <2>2. /\ Cardinality(Before(i)) <= Cardinality(at)
          /\ Cardinality(Before(i)) # Cardinality(at)
      BY <1>2, <2>1, FS_Subset
    <2>3. Cardinality(Before(i)) \in Nat /\ Cardinality(at) \in Nat
      BY <1>2, <2>1, FS_Subset, FS_CardinalityType
    <2> QED
      BY <2>2, <2>3
  <1> HIDE DEF Before, at
  <1> QED
    BY <1>3, <1>4 DEF at

\* The tables g after the attribute rows of oid at P were deleted.
AttributesGone(h, g, oid, P) ==
  /\ HeapOK(g)
  /\ AttributePositions(g, oid) = AttributePositions(h, oid) \ P
  /\ \A o \in Oid \ {oid} : SameAttributes(h, g, o)

LEMMA DeletedAttributes ==
  ASSUME NEW h, HeapOK(h), NEW g, HeapOK(g), NEW oid, NEW P \in SUBSET AttributePositions(h, oid),
         g["attribute"] = Deleted(h["attribute"], P)
  PROVE  AttributesGone(h, g, oid, P)
  <1>1. WithoutCells(h["attribute"], g["attribute"], P)
    BY HeapCells, DeletedCells
  <1>2. /\ LivePositions(g, "attribute") = LivePositions(h, "attribute") \ P
        /\ \A i \in LivePositions(h, "attribute") : g["attribute"][i].row = h["attribute"][i].row
    <2>1. RowsGone(h, g, "attribute", P)
      BY <1>1, DeletedRows, SystemTables, Zenon
    <2> QED
      BY <2>1 DEF RowsGone
  <1>3. ASSUME NEW o
        PROVE  /\ AttributePositions(g, o) = AttributePositions(h, o) \ P
               /\ \A i \in AttributePositions(h, o) : g["attribute"][i].row = h["attribute"][i].row
    BY <1>2 DEF AttributePositions
  <1>4. ASSUME NEW o \in Oid \ {oid}
        PROVE  SameAttributes(h, g, o)
    <2>1. \A i \in AttributePositions(h, o) : i \notin P
      BY DEF AttributePositions
    <2> QED
      BY <1>3, <2>1, Zenon DEF SameAttributes
  <1> QED
    BY <1>3, <1>4 DEF AttributesGone

\* drop_table, up to the delete that fails.
LEMMA WithoutSome ==
  ASSUME HeapOK(heap), NEW oid, NEW n
  PROVE  LET g == WithoutAttributes(oid, n)
         IN /\ AttributesGone(heap, g, oid, FirstAttributes(oid, n))
            /\ SameClasses(heap, g)
  <1> DEFINE g == WithoutAttributes(oid, n)
             P == FirstAttributes(oid, n)
  <1>1. P \in SUBSET AttributePositions(heap, oid)
    BY DEF FirstAttributes
  <1>2. g = [heap EXCEPT !["attribute"] = Deleted(heap["attribute"], P)]
    BY DEF WithoutAttributes
  <1> HIDE DEF g, P
  <1>3. /\ DOMAIN heap = SystemTable
        /\ heap["type"] \in Seq(CellOf(RowOf["type"]))
        /\ heap["class"] \in Seq(CellOf(RowOf["class"]))
        /\ heap["attribute"] \in Seq(CellOf(RowOf["attribute"]))
    BY HeapCells
  <1>4. /\ DOMAIN g = SystemTable /\ g["type"] = heap["type"] /\ g["class"] = heap["class"]
        /\ g["attribute"] = Deleted(heap["attribute"], P)
    BY <1>2, <1>3, SystemTables
  <1>5. g["attribute"] \in Seq(CellOf(RowOf["attribute"]))
    BY <1>3, <1>4, DeletedCells
  <1>6. HeapOK(g)
    <2>1. g["type"] \in Seq(CellOf(RowOf["type"])) /\ g["class"] \in Seq(CellOf(RowOf["class"]))
      BY <1>3, <1>4, Zenon
    <2> QED
      BY <1>4, <1>5, <2>1, NewHeap, Zenon
  <1>7. AttributesGone(heap, g, oid, P)
    BY <1>1, <1>4, <1>6, DeletedAttributes, Zenon
  <1>8. SameClasses(heap, g)
    BY <1>4 DEF SameClasses, LivePositions
  <1> QED
    BY <1>7, <1>8 DEF g, P

\* drop_table, to the end.
Dropped(oid, position) ==
  [WithoutAttributes(oid, Cardinality(AttributePositions(heap, oid)))
     EXCEPT !["class"] = Deleted(@, {position})]

LEMMA DroppedTables ==
  ASSUME HeapOK(heap), NEW oid, NEW position
  PROVE  LET g == Dropped(oid, position)
         IN /\ AttributesGone(heap, g, oid, AttributePositions(heap, oid))
            /\ LivePositions(g, "class") = LivePositions(heap, "class") \ {position}
            /\ \A i \in LivePositions(heap, "class") : g["class"][i].row = heap["class"][i].row
  <1> DEFINE g == Dropped(oid, position)
             P == AttributePositions(heap, oid)
  <1>1. g = [heap EXCEPT !["attribute"] = Deleted(heap["attribute"], P),
                         !["class"] = Deleted(heap["class"], {position})]
    <2>1. WithoutAttributes(oid, Cardinality(P)) =
            [heap EXCEPT !["attribute"] = Deleted(heap["attribute"], P)]
      BY AllAttributes, Zenon DEF WithoutAttributes
    <2>2. g = [WithoutAttributes(oid, Cardinality(P)) EXCEPT
                 !["class"] = Deleted(WithoutAttributes(oid, Cardinality(P))["class"], {position})]
      BY DEF Dropped
    <2>3. [heap EXCEPT !["attribute"] = Deleted(heap["attribute"], P)]["class"] = heap["class"]
      BY HeapCells, SystemTables
    <2> HIDE DEF P, g
    <2> QED
      BY <2>1, <2>2, <2>3
  <1> HIDE DEF g, P
  <1>3. /\ DOMAIN heap = SystemTable
        /\ heap["type"] \in Seq(CellOf(RowOf["type"]))
        /\ heap["class"] \in Seq(CellOf(RowOf["class"]))
        /\ heap["attribute"] \in Seq(CellOf(RowOf["attribute"]))
    BY HeapCells
  <1>4. /\ DOMAIN g = SystemTable /\ g["type"] = heap["type"]
        /\ g["class"] = Deleted(heap["class"], {position})
        /\ g["attribute"] = Deleted(heap["attribute"], P)
    BY <1>1, <1>3, SystemTables
  <1>5. /\ g["attribute"] \in Seq(CellOf(RowOf["attribute"]))
        /\ g["class"] \in Seq(CellOf(RowOf["class"]))
        /\ WithoutCells(heap["class"], g["class"], {position})
    BY <1>3, <1>4, DeletedCells
  <1>6. HeapOK(g)
    <2>1. g["type"] \in Seq(CellOf(RowOf["type"]))
      BY <1>3, <1>4, Zenon
    <2> QED
      BY <1>4, <1>5, <2>1, NewHeap, Zenon
  <1>7. AttributesGone(heap, g, oid, P)
    <2>1. P \in SUBSET AttributePositions(heap, oid)
      BY DEF P
    <2> QED
      BY <1>4, <1>6, <2>1, DeletedAttributes, Zenon
  <1>8. /\ LivePositions(g, "class") = LivePositions(heap, "class") \ {position}
        /\ \A i \in LivePositions(heap, "class") : g["class"][i].row = heap["class"][i].row
    <2>1. RowsGone(heap, g, "class", {position})
      BY <1>5, <1>6, DeletedRows, SystemTables, Zenon
    <2> QED
      BY <2>1 DEF RowsGone
  <1> QED
    BY <1>7, <1>8 DEF g, P

(***************************************************************************)
(* open and close.                                                         *)
(***************************************************************************)
Opened(ty, cl, at) == [type |-> ty, class |-> cl, attribute |-> at]

LEMMA OpenedTables ==
  ASSUME NEW ty, NEW cl, NEW at
  PROVE  /\ DOMAIN Opened(ty, cl, at) = SystemTable
         /\ Opened(ty, cl, at)["type"] = ty
         /\ Opened(ty, cl, at)["class"] = cl
         /\ Opened(ty, cl, at)["attribute"] = at
  BY DEF Opened, SystemTable

LEMMA ReloadedTables ==
  ASSUME HeapOK(heap), NEW ty \in Reloads(heap["type"]), NEW cl \in Reloads(heap["class"]),
         NEW at \in Reloads(heap["attribute"])
  PROVE  /\ HeapOK(Opened(ty, cl, at))
         /\ AllSettled(heap) => SameView(heap, Opened(ty, cl, at))
  <1> DEFINE g == Opened(ty, cl, at)
  <1>1. DOMAIN g = SystemTable /\ g["type"] = ty /\ g["class"] = cl /\ g["attribute"] = at
    BY OpenedTables
  <1> HIDE DEF g
  <1>2. /\ heap["type"] \in Seq(CellOf(RowOf["type"]))
        /\ heap["class"] \in Seq(CellOf(RowOf["class"]))
        /\ heap["attribute"] \in Seq(CellOf(RowOf["attribute"]))
    BY HeapCells
  <1>3. /\ ty \in Seq(CellOf(RowOf["type"]))
        /\ SettledCells(heap["type"]) => SameCells(heap["type"], ty)
    BY <1>2, ReloadedCells, Zenon
  <1>4. /\ cl \in Seq(CellOf(RowOf["class"]))
        /\ SettledCells(heap["class"]) => SameCells(heap["class"], cl)
    BY <1>2, ReloadedCells, Zenon
  <1>5. /\ at \in Seq(CellOf(RowOf["attribute"]))
        /\ SettledCells(heap["attribute"]) => SameCells(heap["attribute"], at)
    BY <1>2, ReloadedCells, Zenon
  <1>6. HeapOK(g)
    BY <1>1, <1>3, <1>4, <1>5, NewHeap, Zenon
  <1>7. ASSUME AllSettled(heap)
        PROVE  SameView(heap, g)
    <2>1. /\ SameCells(heap["type"], g["type"])
          /\ SameCells(heap["class"], g["class"])
          /\ SameCells(heap["attribute"], g["attribute"])
      BY <1>1, <1>3, <1>4, <1>5, <1>7, SystemTables DEF AllSettled
    <2> QED
      BY <2>1, SystemTables, Zenon DEF SameView
  <1> QED
    BY <1>6, <1>7 DEF g

\* Some of the tables have a new engine.
LEMMA FoundTables ==
  ASSUME HeapOK(heap), NEW n, NEW ty \in Found("type", n), NEW cl \in Found("class", n),
         NEW at \in Found("attribute", n)
  PROVE  /\ HeapOK(Opened(ty, cl, at))
         /\ AllSettled(heap) => /\ SameView(heap, Opened(ty, cl, at))
                                /\ AllSettled(Opened(ty, cl, at))
  <1> DEFINE g == Opened(ty, cl, at)
  <1>1. DOMAIN g = SystemTable /\ g["type"] = ty /\ g["class"] = cl /\ g["attribute"] = at
    BY OpenedTables
  <1> HIDE DEF g
  <1>2. ASSUME NEW R, NEW t, heap[t] \in Seq(CellOf(R)), NEW d \in Found(t, n)
        PROVE  /\ d \in Seq(CellOf(R))
               /\ SettledCells(heap[t]) => SameCells(heap[t], d) /\ SettledCells(d)
    <2>1. d \in Reloads(heap[t]) \/ d = heap[t]
      BY <1>2 DEF Found
    <2>2. SameCells(heap[t], heap[t])
      BY DEF SameCells
    <2> QED
      BY <1>2, <2>1, <2>2, ReloadedCells
  <1>3. /\ ty \in Seq(CellOf(RowOf["type"]))
        /\ SettledCells(heap["type"]) => SameCells(heap["type"], ty) /\ SettledCells(ty)
        /\ cl \in Seq(CellOf(RowOf["class"]))
        /\ SettledCells(heap["class"]) => SameCells(heap["class"], cl) /\ SettledCells(cl)
        /\ at \in Seq(CellOf(RowOf["attribute"]))
        /\ SettledCells(heap["attribute"])
             => SameCells(heap["attribute"], at) /\ SettledCells(at)
    BY <1>2, HeapCells
  <1>4. HeapOK(g)
    BY <1>1, <1>3, NewHeap, Zenon
  <1>5. ASSUME AllSettled(heap)
        PROVE  SameView(heap, g) /\ AllSettled(g)
    <2>1. /\ SameCells(heap["type"], g["type"]) /\ SettledCells(g["type"])
          /\ SameCells(heap["class"], g["class"]) /\ SettledCells(g["class"])
          /\ SameCells(heap["attribute"], g["attribute"]) /\ SettledCells(g["attribute"])
      BY <1>1, <1>3, <1>5, SystemTables, Zenon DEF AllSettled
    <2> QED
      BY <2>1, SystemTables, Zenon DEF SameView, AllSettled
  <1> QED
    BY <1>4, <1>5 DEF g

LEMMA ClosedTables ==
  ASSUME HeapOK(heap), NEW done
  PROVE  /\ HeapOK(FlushedTables(done))
         /\ SameView(heap, FlushedTables(done))
         /\ (\A t \in SystemTable : t \in done \cap engines \/ SettledCells(heap[t]))
               => AllSettled(FlushedTables(done))
  <1> DEFINE g == FlushedTables(done)
  <1>1. /\ DOMAIN g = SystemTable
        /\ \A t \in SystemTable :
             g[t] = IF t \in done \cap engines THEN Flushed(heap[t]) ELSE heap[t]
    BY DEF FlushedTables
  <1> HIDE DEF g
  <1>2. ASSUME NEW t \in SystemTable
        PROVE  /\ g[t] \in Seq(CellOf(RowOf[t]))
               /\ SameCells(heap[t], g[t])
               /\ t \in done \cap engines \/ SettledCells(heap[t]) => SettledCells(g[t])
    <2>1. heap[t] \in Seq(CellOf(RowOf[t]))
      BY DEF HeapOK
    <2>2. /\ Flushed(heap[t]) \in Seq(CellOf(RowOf[t]))
          /\ SameCells(heap[t], Flushed(heap[t]))
          /\ SettledCells(Flushed(heap[t]))
      BY <2>1, FlushedCells
    <2>3. SameCells(heap[t], heap[t])
      BY DEF SameCells
    <2> QED
      BY <1>1, <2>1, <2>2, <2>3, Zenon
  <1>3. HeapOK(g)
    BY <1>1, <1>2, Zenon DEF HeapOK
  <1>4. SameView(heap, g)
    BY <1>2, Zenon DEF SameView
  <1>5. (\A t \in SystemTable : t \in done \cap engines \/ SettledCells(heap[t])) => AllSettled(g)
    BY <1>2, Zenon DEF AllSettled
  <1> QED
    BY <1>3, <1>4, <1>5 DEF g

LEMMA SystemRows ==
  /\ BootstrapRows["type"] \in Seq(RowOf["type"])
  /\ BootstrapRows["class"] \in Seq(RowOf["class"])
  /\ BootstrapRows["attribute"] \in Seq(RowOf["attribute"])
  /\ Len(BootstrapRows["class"]) = Len(SystemName)
  /\ \A i \in SystemOid : BootstrapRows["class"][i] = ClassRow(i, SystemName[i], "system")
  /\ \A i \in 1 .. Len(BootstrapRows["attribute"]) :
       BootstrapRows["attribute"][i].attrelid \in SystemOid
  <1> DEFINE n == Len(SystemName)
             c == BootstrapRows["class"]
  <1>0. /\ n \in Nat /\ DOMAIN SystemName = 1 .. n
        /\ \A i \in 1 .. n : SystemName[i] \in Range(SystemName)
    BY SystemNameAssumption, SeqOfCells
  <1>1. BootstrapRows["type"] = TypeName /\ RowOf["type"] = Range(TypeName)
    BY DEF BootstrapRows, RowOf
  <1>2. c = [i \in 1 .. n |-> ClassRow(i, SystemName[i], "system")]
    BY <1>0 DEF BootstrapRows
  <1>3. BootstrapRows["attribute"] = SystemAttributes
    BY DEF BootstrapRows
  <1>4. SystemOid = 1 .. n /\ SystemOid \subseteq Oid
    BY <1>0, MaxRowsAssumption DEF SystemOid, Oid
  <1> HIDE DEF c, n
  <1>5. \A i \in 1 .. n : ClassRow(i, SystemName[i], "system") \in RowOf["class"]
    BY <1>0, <1>4 DEF ClassRow, RowOf, AllNames
  <1>6. c \in Seq(RowOf["class"]) /\ Len(c) = n
    BY <1>0, <1>2, <1>5, MappedSeq
  <1>7. SystemAttributes \in Seq(RowOf["attribute"])
    <2>1. [attrelid : SystemOid, attnum : Nat, column : Column] \subseteq RowOf["attribute"]
      BY <1>4 DEF RowOf
    <2> QED
      BY <2>1, SystemAttributesAssumption, SeqInto, Zenon
  <1>8. \A i \in 1 .. Len(SystemAttributes) : SystemAttributes[i].attrelid \in SystemOid
    <2>1. \A i \in 1 .. Len(SystemAttributes) :
            SystemAttributes[i] \in [attrelid : SystemOid, attnum : Nat, column : Column]
      BY SystemAttributesAssumption, SeqOfCells, Zenon
    <2> QED
      BY <2>1
  <1>9. TypeName \in Seq(Range(TypeName))
    BY TypeNameAssumption
  <1>10. \A i \in SystemOid : c[i] = ClassRow(i, SystemName[i], "system")
    BY <1>2, <1>4
  <1> QED
    BY <1>1, <1>3, <1>6, <1>7, <1>8, <1>9, <1>10, Zenon DEF c, n

\* How many rows of each table are among the first n.
LEMMA Shares ==
  ASSUME NEW n \in Nat, NEW a \in Nat, NEW b \in Nat, NEW c \in Nat, n <= a + b + c,
         NEW x, x = IF n <= a THEN n ELSE a,
         NEW y, y = IF n - x <= b THEN n - x ELSE b
  PROVE  /\ x \in 0 .. a /\ n - x \in Nat /\ y \in 0 .. b /\ n - x - y \in 0 .. c
         /\ n = a + b + c => x = a /\ y = b /\ n - x - y = c
  <1>1. CASE n <= a
    <2>1. x = n /\ y = 0
      BY <1>1
    <2> QED
      BY <1>1, <2>1
  <1>2. CASE ~ (n <= a) /\ n - a <= b
    <2>1. x = a /\ y = n - a
      BY <1>2
    <2> QED
      BY <1>2, <2>1
  <1>3. CASE ~ (n <= a) /\ ~ (n - a <= b)
    <2>1. x = a /\ y = b
      BY <1>3
    <2> QED
      BY <1>3, <2>1
  <1> QED
    BY <1>1, <1>2, <1>3

LEMMA MinOfTwo ==
  ASSUME NEW a \in Nat, NEW b \in Nat
  PROVE  Min({a, b}) = IF a <= b THEN a ELSE b
  <1>1. {a, b} \in SUBSET Nat /\ {a, b} # {}
    OBVIOUS
  <1>2. Min({a, b}) \in {a, b} /\ \A m \in {a, b} : Min({a, b}) <= m
    BY <1>1, MinIsLeast, Zenon
  <1> QED
    BY <1>2

\* The first n of the rows of bootstrap_catalog, and all of them.
LEMMA BootstrapInserts ==
  ASSUME NEW h, HeapOK(h), NEW n \in 0 .. AllBootstrapRows
  PROVE  /\ HeapOK(Bootstrapped(h, n))
         /\ n = AllBootstrapRows =>
              \A t \in SystemTable : WithCells(h[t], Bootstrapped(h, n)[t], BootstrapRows[t])
  <1> DEFINE a == BootstrapSize("type")
             b == BootstrapSize("class")
             c == BootstrapSize("attribute")
             typed == Min({n, a})
             classed == Min({n - typed, b})
             done == [type |-> typed, class |-> classed, attribute |-> n - typed - classed]
             Part(t) == SubSeq(BootstrapRows[t], 1, done[t])
             g == Bootstrapped(h, n)
  <1>1. /\ g = [t \in SystemTable |-> Inserted(h[t], Part(t))]
        /\ AllBootstrapRows = a + b + c
    BY Zenon DEF Bootstrapped, AllBootstrapRows
  <1>2. /\ BootstrapRows["type"] \in Seq(RowOf["type"])
        /\ BootstrapRows["class"] \in Seq(RowOf["class"])
        /\ BootstrapRows["attribute"] \in Seq(RowOf["attribute"])
    BY SystemRows
  <1>3. /\ a \in Nat /\ b \in Nat /\ c \in Nat
        /\ a = Len(BootstrapRows["type"])
        /\ b = Len(BootstrapRows["class"])
        /\ c = Len(BootstrapRows["attribute"])
    BY <1>2, SeqOfCells DEF BootstrapSize
  <1>4. done["type"] = typed /\ done["class"] = classed /\ done["attribute"] = n - typed - classed
    OBVIOUS
  <1> HIDE DEF a, b, c, typed, classed, done, g
  <1>5. n \in Nat /\ n <= a + b + c
    <2>1. n \in 0 .. a + b + c
      BY <1>1, Zenon
    <2>2. a \in Nat /\ b \in Nat /\ c \in Nat
      BY <1>3
    <2> QED
      BY <2>1, <2>2
  <1>6. typed = IF n <= a THEN n ELSE a
    BY <1>3, <1>5, MinOfTwo DEF typed
  <1>7. n - typed \in Nat /\ typed \in 0 .. a
    BY <1>3, <1>5, <1>6
  <1>8. classed = IF n - typed <= b THEN n - typed ELSE b
    BY <1>3, <1>7, MinOfTwo DEF classed
  <1>9. /\ classed \in 0 .. b /\ n - typed - classed \in 0 .. c
        /\ n = a + b + c => typed = a /\ classed = b /\ n - typed - classed = c
    <2>1. a \in Nat /\ b \in Nat /\ c \in Nat
      BY <1>3
    <2> QED
      BY <1>5, <1>6, <1>8, <2>1, Shares
  <1>11. ASSUME NEW t \in SystemTable
         PROVE  /\ BootstrapRows[t] \in Seq(RowOf[t])
                /\ done[t] \in 0 .. Len(BootstrapRows[t])
                /\ n = a + b + c => done[t] = Len(BootstrapRows[t])
    <2>1. CASE t = "type"
      BY <1>2, <1>3, <1>4, <1>7, <1>9, <2>1, Zenon
    <2>2. CASE t = "class"
      BY <1>2, <1>3, <1>4, <1>9, <2>2, Zenon
    <2>3. CASE t = "attribute"
      BY <1>2, <1>3, <1>4, <1>9, <2>3, Zenon
    <2> QED
      BY <2>1, <2>2, <2>3, SystemTables
  <1>12. ASSUME NEW t \in SystemTable
         PROVE  /\ g[t] \in Seq(CellOf(RowOf[t]))
                /\ n = a + b + c => WithCells(h[t], g[t], BootstrapRows[t])
    <2>1. h[t] \in Seq(CellOf(RowOf[t])) /\ g[t] = Inserted(h[t], Part(t))
      BY <1>1, Zenon DEF HeapOK
    <2>2. Part(t) \in Seq(RowOf[t])
      BY <1>11, FirstRows, Zenon
    <2>3. n = a + b + c => Part(t) = BootstrapRows[t]
      <3> DEFINE s == BootstrapRows[t]
      <3>1. s \in Seq(RowOf[t])
        BY <1>11
      <3> HIDE DEF s
      <3>2. SubSeq(s, 1, Len(s)) = s
        BY <3>1
      <3> QED
        BY <1>11, <3>2 DEF s
    <2> HIDE DEF Part
    <2>4. g[t] \in Seq(CellOf(RowOf[t])) /\ WithCells(h[t], g[t], Part(t))
      BY <2>1, <2>2, InsertedCells
    <2> QED
      BY <2>3, <2>4, Zenon
  <1>13. HeapOK(g)
    <2>1. DOMAIN g = SystemTable
      BY <1>1
    <2> QED
      BY <1>12, <2>1, Zenon DEF HeapOK
  <1> QED
    BY <1>1, <1>12, <1>13, Zenon DEF g

\* Bootstrapping tables without a live class or attribute row.
LEMMA BootstrapClean ==
  ASSUME NEW h, HeapOK(h), LivePositions(h, "class") = {},
         \A oid \in Oid : AttributePositions(h, oid) = {},
         NEW g, HeapOK(g),
         \A t \in SystemTable : WithCells(h[t], g[t], BootstrapRows[t])
  PROVE  /\ UniqueClasses(g)
         /\ \A oid \in Oid : ~KnownIn(g, oid) => AttributePositions(g, oid) = {}
  <1> DEFINE m == Len(h["class"])
             n == Len(SystemName)
             rows == BootstrapRows["class"]
             l == Len(h["attribute"])
             arows == BootstrapRows["attribute"]
  <1>1. /\ Len(rows) = n /\ n \in Nat /\ m \in Nat /\ l \in Nat /\ SystemOid = 1 .. n
        /\ \A i \in 1 .. n : rows[i] = ClassRow(i, SystemName[i], "system")
        /\ Len(arows) \in Nat
        /\ \A i \in 1 .. Len(arows) : arows[i].attrelid \in 1 .. n
    <2>1. n \in Nat /\ SystemOid = 1 .. n
      BY SystemNameAssumption DEF SystemOid
    <2>2. Len(arows) \in Nat
      BY SystemRows, SeqOfCells
    <2>3. m \in Nat /\ l \in Nat
      BY TableRows, SystemTables
    <2> QED
      BY <2>1, <2>2, <2>3, SystemRows
  <1>2. RowsAdded(h, g, "class", rows) /\ RowsAdded(h, g, "attribute", arows)
    <2>1. Len(rows) \in Nat /\ Len(arows) \in Nat
      BY <1>1
    <2> QED
      BY <2>1, InsertedRows, SystemTables, Zenon
  <1>3. /\ LivePositions(g, "class") = m + 1 .. m + n
        /\ \A i \in 1 .. n : g["class"][m + i].row = rows[i]
    BY <1>1, <1>2, Zenon DEF RowsAdded
  <1>4. ASSUME NEW i \in 1 .. n
        PROVE  rows[i].oid = i /\ rows[i].name = SystemName[i]
    <2>1. rows[i] = ClassRow(i, SystemName[i], "system")
      BY <1>1
    <2> QED
      BY <2>1 DEF ClassRow
  <1>5. /\ LivePositions(g, "attribute") = LivePositions(h, "attribute") \cup (l + 1 .. l + Len(arows))
        /\ \A i \in LivePositions(h, "attribute") : g["attribute"][i].row = h["attribute"][i].row
        /\ \A i \in 1 .. Len(arows) : g["attribute"][l + i].row = arows[i]
    BY <1>2, Zenon DEF RowsAdded
  <1> HIDE DEF m, n, rows, l, arows
  <1>6. \A i \in m + 1 .. m + n : i - m \in 1 .. n /\ m + (i - m) = i
    BY <1>1
  <1>7. ASSUME NEW i \in LivePositions(g, "class")
        PROVE  /\ i - m \in 1 .. n
               /\ g["class"][i].row.oid = i - m
               /\ g["class"][i].row.name = SystemName[i - m]
    <2>1. i - m \in 1 .. n /\ m + (i - m) = i
      BY <1>3, <1>6, Zenon
    <2>2. g["class"][i].row = rows[i - m]
      BY <1>3, <2>1
    <2> QED
      BY <1>4, <2>1, <2>2
  <1>8. UniqueClasses(g)
    <2>1. ASSUME NEW i \in LivePositions(g, "class"), NEW j \in LivePositions(g, "class"),
                 \/ g["class"][i].row.oid = g["class"][j].row.oid
                 \/ g["class"][i].row.name = g["class"][j].row.name
          PROVE  i = j
      <3>1. i - m = j - m
        BY <1>1, <1>7, <2>1, SystemNameAssumption
      <3>2. i \in Int /\ j \in Int
        BY <1>1, <1>3
      <3> QED
        BY <1>1, <3>1, <3>2
    <2> QED
      BY <2>1 DEF UniqueClasses
  <1>9. ASSUME NEW oid \in 1 .. n
        PROVE  KnownIn(g, oid)
    <2>1. m + oid \in LivePositions(g, "class")
      BY <1>1, <1>3
    <2>2. g["class"][m + oid].row.oid = oid
      BY <1>3, <1>4
    <2> QED
      BY <2>1, <2>2 DEF KnownIn
  <1>10. ASSUME NEW oid \in Oid, NEW i \in AttributePositions(g, oid)
         PROVE  oid \in 1 .. n
    <2>1. i \in LivePositions(g, "attribute") /\ g["attribute"][i].row.attrelid = oid
      BY <1>10 DEF AttributePositions
    <2>2. i \notin LivePositions(h, "attribute")
      BY <1>5, <1>10, <2>1 DEF AttributePositions
    <2>3. i \in l + 1 .. l + Len(arows)
      BY <1>5, <2>1, <2>2
    <2>4. i - l \in 1 .. Len(arows) /\ l + (i - l) = i
      BY <1>1, <2>3
    <2>5. g["attribute"][i].row = arows[i - l]
      BY <1>5, <2>4
    <2> QED
      BY <1>1, <2>1, <2>4, <2>5
  <1> QED
    BY <1>8, <1>9, <1>10

(***************************************************************************)
(* What an action does to one relation.                                    *)
(***************************************************************************)
IsColumns(columns) == columns = <<>> \/ columns \in Seq(Column)

LEMMA Promised ==
  ASSUME TablesOK
  PROVE  DOMAIN created = Oid /\ \A oid \in Oid : IsColumns(created[oid])
  BY ColumnsAssumption DEF TablesOK, IsColumns

\* get_attributes, and the table that is opened with what it returns.
LEMMA RestsLoaded ==
  ASSUME NEW h, NEW oid, NEW columns, IsColumns(columns), NEW cached, NEW table,
         Rests(h, oid, columns, cached, table)
  PROVE  LET got == IF cached # <<>> THEN cached ELSE ColumnsOf(h, oid)
         IN /\ Rests(h, oid, columns, got, table)
            /\ KnownIn(h, oid) => Rests(h, oid, columns, got, got)
  <1> DEFINE got == IF cached # <<>> THEN cached ELSE ColumnsOf(h, oid)
  <1>1. /\ ~KnownIn(h, oid) => AttributePositions(h, oid) = {} /\ cached = <<>> /\ table = <<>>
        /\ columns # <<>> => /\ KnownIn(h, oid)
                             /\ HasColumns(h, oid, columns)
                             /\ cached \in {<<>>, columns}
                             /\ table \in {<<>>, columns}
    BY Zenon DEF Rests
  <1>2. ~KnownIn(h, oid) => got = <<>>
    BY <1>1, NoColumns, Zenon
  <1>3. columns # <<>> => got = columns
    BY <1>1, SortedColumns, Zenon DEF IsColumns
  <1> HIDE DEF got
  <1>4. Rests(h, oid, columns, got, table)
    BY <1>1, <1>2, <1>3, Zenon DEF Rests
  <1>5. KnownIn(h, oid) => Rests(h, oid, columns, got, got)
    BY <1>1, <1>2, <1>3, Zenon DEF Rests
  <1> QED
    BY <1>4, <1>5 DEF got

\* Closing forgets the caches.
LEMMA RestsForgotten ==
  ASSUME NEW h, NEW oid, NEW columns, NEW cached, NEW table,
         Rests(h, oid, columns, cached, table)
  PROVE  Rests(h, oid, columns, <<>>, <<>>)
  BY Zenon DEF Rests

\* What ensure_user_table_open does to the table oid, and to no other.
Ensured(h, oid, cache, columns) ==
  /\ DOMAIN attribute_cache' = Oid /\ DOMAIN user_tables' = Oid
  /\ \A o \in Oid \ {oid} : attribute_cache'[o] = cache[o] /\ user_tables'[o] = user_tables[o]
  /\ Rests(h, oid, columns, cache[oid], user_tables[oid])
       => Rests(h, oid, columns, attribute_cache'[oid], user_tables'[oid])

LEMMA EnsureOpens ==
  ASSUME DOMAIN user_tables = Oid, NEW h, NEW oid \in Oid, KnownIn(h, oid),
         NEW cache, DOMAIN cache = Oid, NEW columns, IsColumns(columns),
         NEW succeeds, EnsureUserTableOpen(cache, h, oid, succeeds)
  PROVE  Ensured(h, oid, cache, columns)
  <1> DEFINE got == IF cache[oid] # <<>> THEN cache[oid] ELSE ColumnsOf(h, oid)
  <1>1. AttributesOf(cache, h, oid) = got
    BY DEF AttributesOf
  <1>2. Rests(h, oid, columns, cache[oid], user_tables[oid])
          => /\ Rests(h, oid, columns, got, user_tables[oid])
             /\ Rests(h, oid, columns, got, got)
    BY RestsLoaded, Zenon
  <1> HIDE DEF got
  <1>3. \/ attribute_cache' = cache /\ user_tables' = user_tables
        \/ attribute_cache' = [cache EXCEPT ![oid] = got] /\ user_tables' = user_tables
        \/ /\ attribute_cache' = [cache EXCEPT ![oid] = got]
           /\ user_tables' = [user_tables EXCEPT ![oid] = got]
    BY <1>1 DEF EnsureUserTableOpen
  <1>4. CASE attribute_cache' = cache /\ user_tables' = user_tables
    BY <1>4 DEF Ensured
  <1>5. CASE attribute_cache' = [cache EXCEPT ![oid] = got] /\ user_tables' = user_tables
    <2>1. /\ DOMAIN attribute_cache' = Oid /\ attribute_cache'[oid] = got
          /\ \A o \in Oid \ {oid} : attribute_cache'[o] = cache[o]
      BY <1>5
    <2> QED
      BY <1>2, <1>5, <2>1 DEF Ensured
  <1>6. CASE /\ attribute_cache' = [cache EXCEPT ![oid] = got]
             /\ user_tables' = [user_tables EXCEPT ![oid] = got]
    <2>1. /\ DOMAIN attribute_cache' = Oid /\ attribute_cache'[oid] = got
          /\ \A o \in Oid \ {oid} : attribute_cache'[o] = cache[o]
      BY <1>6
    <2>2. /\ DOMAIN user_tables' = Oid /\ user_tables'[oid] = got
          /\ \A o \in Oid \ {oid} : user_tables'[o] = user_tables[o]
      BY <1>6
    <2> QED
      BY <1>2, <2>1, <2>2 DEF Ensured
  <1> QED
    BY <1>3, <1>4, <1>5, <1>6

(***************************************************************************)
(* The lookups.                                                            *)
(***************************************************************************)
LEMMA GetTypeStep ==
  ASSUME CatalogInv, NEW name \in Range(TypeName), GetType(name)
  PROVE  CatalogInv'
  <1>1. /\ type_cache' = type_cache \cup {name}
        /\ opened' = opened /\ engines' = engines /\ heap' = heap
        /\ class_cache' = class_cache /\ attribute_cache' = attribute_cache
        /\ user_tables' = user_tables /\ torn' = torn /\ created' = created /\ clean' = clean
    BY DEF GetType, ghostVars
  <1>2. TablesOK'
    BY <1>1 DEF CatalogInv, TablesOK
  <1>3. EmptyWhenClosed'
    BY <1>1 DEF CatalogInv, EmptyWhenClosed
  <1>4. ClassCacheCurrent'
    BY <1>1 DEF CatalogInv, ClassCacheCurrent, Usable, Known
  <1>5. clean => CleanInv'
    BY <1>1 DEF CatalogInv, CleanInv
  <1> QED
    BY <1>1, <1>2, <1>3, <1>4, <1>5 DEF CatalogInv

LEMMA GetClassStep ==
  ASSUME CatalogInv, NEW name, GetClass(name)
  PROVE  CatalogInv'
  <1>1. /\ class_cache' = class_cache \cup ClassesNamed(name) /\ opened /\ ~torn
        /\ opened' = opened /\ engines' = engines /\ heap' = heap
        /\ type_cache' = type_cache /\ attribute_cache' = attribute_cache
        /\ user_tables' = user_tables /\ torn' = torn /\ created' = created /\ clean' = clean
    BY DEF GetClass, ghostVars, Usable
  <1>2. TablesOK'
    BY <1>1 DEF CatalogInv, TablesOK
  <1>3. EmptyWhenClosed'
    BY <1>1 DEF EmptyWhenClosed
  <1>4. ClassCacheCurrent'
    <2>1. HeapOK(heap) /\ class_cache \subseteq Rows(heap, "class")
      BY <1>1 DEF CatalogInv, TablesOK, ClassCacheCurrent, Usable
    <2>2. ClassesNamed(name) \subseteq Rows(heap, "class")
      BY <2>1, FoundClass
    <2> QED
      BY <1>1, <2>1, <2>2 DEF CatalogInv, ClassCacheCurrent, Usable, Known
  <1>5. clean => CleanInv'
    BY <1>1 DEF CatalogInv, CleanInv
  <1> QED
    BY <1>1, <1>2, <1>3, <1>4, <1>5 DEF CatalogInv

LEMMA GetAttributesStep ==
  ASSUME CatalogInv, NEW oid \in Oid, GetAttributes(oid)
  PROVE  CatalogInv'
  <1> DEFINE got == IF attribute_cache[oid] # <<>> THEN attribute_cache[oid]
                    ELSE ColumnsOf(heap, oid)
  <1>1. /\ attribute_cache' = [attribute_cache EXCEPT ![oid] = got] /\ opened /\ ~torn
        /\ opened' = opened /\ engines' = engines /\ heap' = heap
        /\ type_cache' = type_cache /\ class_cache' = class_cache
        /\ user_tables' = user_tables /\ torn' = torn /\ created' = created /\ clean' = clean
    BY DEF GetAttributes, AttributesOf, ghostVars, Usable
  <1>2. /\ DOMAIN attribute_cache = Oid /\ DOMAIN attribute_cache' = Oid
        /\ attribute_cache'[oid] = got
        /\ \A o \in Oid \ {oid} : attribute_cache'[o] = attribute_cache[o]
    BY <1>1 DEF CatalogInv, TablesOK
  <1>3. TablesOK'
    BY <1>1, <1>2 DEF CatalogInv, TablesOK
  <1>4. EmptyWhenClosed'
    BY <1>1 DEF EmptyWhenClosed
  <1>5. ClassCacheCurrent'
    BY <1>1 DEF CatalogInv, ClassCacheCurrent, Usable, Known
  <1>6. ASSUME clean
        PROVE  CleanInv'
    <2>1. ASSUME NEW o \in Oid
          PROVE  Rests(heap, o, created[o], attribute_cache'[o], user_tables[o])
      <3>1. Rests(heap, o, created[o], attribute_cache[o], user_tables[o])
        BY <1>6 DEF CatalogInv, CleanInv
      <3>2. IsColumns(created[o])
        BY Promised DEF CatalogInv
      <3>3. CASE o = oid
        BY <1>2, <3>1, <3>2, <3>3, RestsLoaded
      <3>4. CASE o # oid
        BY <1>2, <3>1, <3>4
      <3> QED
        BY <3>3, <3>4
    <2> QED
      BY <1>1, <1>6, <2>1 DEF CatalogInv, CleanInv
  <1> QED
    BY <1>1, <1>3, <1>4, <1>5, <1>6 DEF CatalogInv

LEMMA OpenTableStep ==
  ASSUME CatalogInv, NEW name, OpenTable(name)
  PROVE  CatalogInv'
  <1>1. PICK class \in ClassesNamed(name), succeeds \in BOOLEAN :
          /\ class_cache' = class_cache \cup {class}
          /\ EnsureUserTableOpen(attribute_cache, heap, class.oid, succeeds)
    BY DEF OpenTable
  <1>2. /\ opened /\ ~torn
        /\ opened' = opened /\ engines' = engines /\ heap' = heap /\ type_cache' = type_cache
        /\ torn' = torn /\ created' = created /\ clean' = clean
    BY DEF OpenTable, ghostVars, Usable
  <1>3. /\ HeapOK(heap) /\ class_cache \subseteq Rows(heap, "class")
        /\ DOMAIN attribute_cache = Oid /\ DOMAIN user_tables = Oid
        /\ \A o \in Oid : user_tables[o] # <<>> => Known(o)
    BY <1>2 DEF CatalogInv, TablesOK, ClassCacheCurrent, Usable
  <1>4. class \in Rows(heap, "class")
    BY <1>3, FoundClass
  <1>5. class.oid \in Oid /\ KnownIn(heap, class.oid)
    BY <1>3, <1>4, ClassOids
  <1> DEFINE oid == class.oid
  <1> HIDE DEF oid
  <1>6. \A columns : IsColumns(columns) => Ensured(heap, oid, attribute_cache, columns)
    BY <1>1, <1>3, <1>5, EnsureOpens DEF oid
  <1>7. /\ DOMAIN attribute_cache' = Oid /\ DOMAIN user_tables' = Oid
        /\ \A o \in Oid \ {oid} : /\ attribute_cache'[o] = attribute_cache[o]
                                  /\ user_tables'[o] = user_tables[o]
    BY <1>6 DEF Ensured, IsColumns
  <1>8. TablesOK'
    BY <1>2, <1>7 DEF CatalogInv, TablesOK
  <1>9. EmptyWhenClosed'
    BY <1>2 DEF EmptyWhenClosed
  <1>10. ClassCacheCurrent'
    <2>1. ASSUME NEW o \in Oid, user_tables'[o] # <<>>
          PROVE  KnownIn(heap, o)
      BY <1>3, <1>5, <1>7, <2>1, KnownClass DEF oid
    <2>2. \A o \in Oid : user_tables'[o] # <<>> => Known(o)
      BY <2>1, KnownClass
    <2> QED
      BY <1>1, <1>2, <1>3, <1>4, <2>2 DEF ClassCacheCurrent, Usable, Known
  <1>11. ASSUME clean
         PROVE  CleanInv'
    <2>1. ASSUME NEW o \in Oid
          PROVE  Rests(heap, o, created[o], attribute_cache'[o], user_tables'[o])
      <3>1. Rests(heap, o, created[o], attribute_cache[o], user_tables[o])
        BY <1>11 DEF CatalogInv, CleanInv
      <3>2. IsColumns(created[o])
        BY Promised DEF CatalogInv
      <3>3. CASE o = oid
        BY <1>6, <3>1, <3>2, <3>3 DEF Ensured
      <3>4. CASE o # oid
        BY <1>7, <3>1, <3>4
      <3> QED
        BY <3>3, <3>4
    <2> QED
      BY <1>2, <1>11, <2>1 DEF CatalogInv, CleanInv
  <1> QED
    BY <1>2, <1>8, <1>9, <1>10, <1>11 DEF CatalogInv

(***************************************************************************)
(* Opening, closing and destroying.                                        *)
(***************************************************************************)
\* A catalog that is opened again, as far as it gets, finds the tables as the
\* last close left them.
LEMMA Reopened ==
  ASSUME CatalogInv, clean, ~opened, NEW h, HeapOK(h), SameView(heap, h)
  PROVE  /\ UniqueClasses(h)
         /\ \A oid \in Oid : Rests(h, oid, created[oid], <<>>, <<>>)
  <1>1. HeapOK(heap) /\ attribute_cache = NoTables /\ user_tables = NoTables
    BY DEF CatalogInv, EmptyWhenClosed, TablesOK
  <1>2. /\ UniqueClasses(heap)
        /\ \A oid \in Oid : Rests(heap, oid, created[oid], <<>>, <<>>)
    BY <1>1 DEF CatalogInv, CleanInv, NoTables
  <1>3. SameClasses(heap, h) /\ \A oid : SameAttributes(heap, h, oid)
    BY <1>1, SameViews
  <1>4. UniqueClasses(h) /\ \A oid : KnownIn(h, oid) <=> KnownIn(heap, oid)
    BY <1>2, <1>3, SameClassesKeep
  <1>5. ASSUME NEW oid \in Oid
        PROVE  Rests(h, oid, created[oid], <<>>, <<>>)
    <2>1. IsColumns(created[oid])
      BY Promised DEF CatalogInv
    <2> QED
      BY <1>2, <1>3, <1>4, <2>1, RestsKept, Zenon DEF IsColumns
  <1> QED
    BY <1>4, <1>5

LEMMA OpenStep ==
  ASSUME CatalogInv, Open
  PROVE  CatalogInv'
  <1>1. /\ ~opened /\ ~torn
        /\ type_cache' = type_cache /\ class_cache' = class_cache
        /\ attribute_cache' = attribute_cache /\ user_tables' = user_tables
        /\ torn' = torn /\ created' = created
    BY DEF Open, cacheVars
  <1>2. /\ class_cache = {} /\ attribute_cache = NoTables /\ user_tables = NoTables
        /\ HeapOK(heap) /\ clean \in BOOLEAN
        /\ \A oid \in Oid : attribute_cache[oid] = <<>> /\ user_tables[oid] = <<>>
    BY <1>1 DEF CatalogInv, EmptyWhenClosed, TablesOK, NoTables
  <1>3. ASSUME HeapOK(heap'), opened' \in BOOLEAN, clean' \in BOOLEAN, engines' \subseteq SystemEngine,
               opened' => engines' = SystemEngine
        PROVE  TablesOK' /\ EmptyWhenClosed' /\ ClassCacheCurrent'
    <2>1. TablesOK'
      BY <1>1, <1>3 DEF CatalogInv, TablesOK
    <2>2. EmptyWhenClosed'
      BY <1>1, <1>2 DEF EmptyWhenClosed, NoTables
    <2>3. ClassCacheCurrent'
      BY <1>1, <1>2 DEF ClassCacheCurrent
    <2> QED
      BY <2>1, <2>2, <2>3
  <1>4. CASE OpenFails /\ UNCHANGED clean
    <2>n. PICK n \in 0 .. 4 :
            \E ty \in Found("type", n), cl \in Found("class", n), at \in Found("attribute", n) :
              /\ heap' = Opened(ty, cl, at)
              /\ engines' = engines \cup FirstOf(OpenOrder, n)
              /\ opened' = FALSE
      BY <1>4 DEF OpenFails, Opened
    <2>1. PICK ty \in Found("type", n), cl \in Found("class", n), at \in Found("attribute", n) :
            /\ heap' = Opened(ty, cl, at)
            /\ engines' = engines \cup FirstOf(OpenOrder, n)
            /\ opened' = FALSE
      BY <2>n
    <2>2. HeapOK(heap') /\ (AllSettled(heap) => SameView(heap, heap') /\ AllSettled(heap'))
      BY <1>2, <2>1, FoundTables
    <2>3. FirstOf(OpenOrder, n) \subseteq SystemEngine
      BY DEF FirstOf, OpenOrder, SystemEngine, SystemTable
    <2>4. engines' \subseteq SystemEngine
      BY <2>1, <2>3 DEF CatalogInv, TablesOK
    <2>5. TablesOK' /\ EmptyWhenClosed' /\ ClassCacheCurrent'
      BY <1>2, <1>3, <1>4, <2>1, <2>2, <2>4
    <2>6. ASSUME clean
          PROVE  CleanInv'
      <3>1. AllSettled(heap)
        BY <1>1, <2>6 DEF CatalogInv, CleanInv
      <3>2. /\ UniqueClasses(heap')
            /\ \A oid \in Oid : Rests(heap', oid, created[oid], <<>>, <<>>)
        BY <1>1, <2>2, <2>6, <3>1, Reopened
      <3> QED
        BY <1>1, <1>2, <2>2, <3>1, <3>2 DEF CleanInv
    <2> QED
      BY <1>4, <2>5, <2>6 DEF CatalogInv
  <1>5. ASSUME NEW ty \in Reloads(heap["type"]), NEW cl \in Reloads(heap["class"]),
               NEW at \in Reloads(heap["attribute"]),
               Bootstrap(Opened(ty, cl, at)), engines' = SystemEngine
        PROVE  CatalogInv'
    <2> DEFINE h == Opened(ty, cl, at)
    <2>1. HeapOK(h) /\ (AllSettled(heap) => SameView(heap, h))
      BY <1>2, ReloadedTables
    <2>2. ASSUME clean
          PROVE  /\ UniqueClasses(h)
                 /\ \A oid \in Oid : Rests(h, oid, created[oid], <<>>, <<>>)
      <3>1. AllSettled(heap)
        BY <1>1, <2>2 DEF CatalogInv, CleanInv
      <3> HIDE DEF h
      <3> QED
        BY <1>1, <2>1, <2>2, <3>1, Reopened
    <2> HIDE DEF h
    <2>3. CASE Rows(h, "class") # {}
      <3>1. heap' = h /\ opened' = TRUE /\ clean' = clean
        BY <1>5, <2>3 DEF Bootstrap, h
      <3>2. TablesOK' /\ EmptyWhenClosed' /\ ClassCacheCurrent'
        BY <1>2, <1>3, <1>5, <2>1, <3>1
      <3>3. clean => CleanInv'
        BY <1>1, <1>2, <2>2, <3>1 DEF CleanInv
      <3> QED
        BY <3>1, <3>2, <3>3 DEF CatalogInv
    <2>4. CASE Rows(h, "class") = {}
      <3>1. PICK n \in 1 .. AllBootstrapRows :
              /\ heap' = Bootstrapped(h, n)
              /\ opened' = (n = AllBootstrapRows)
              /\ clean' = (clean /\ n = AllBootstrapRows)
        BY <1>5, <2>4 DEF Bootstrap, h
      <3>2. /\ HeapOK(heap')
            /\ n = AllBootstrapRows =>
                 \A t \in SystemTable : WithCells(h[t], heap'[t], BootstrapRows[t])
        <4>1. n \in 0 .. AllBootstrapRows
          OBVIOUS
        <4> QED
          BY <2>1, <3>1, <4>1, BootstrapInserts
      <3>3. TablesOK' /\ EmptyWhenClosed' /\ ClassCacheCurrent'
        BY <1>2, <1>3, <1>5, <3>1, <3>2
      <3>4. ASSUME clean'
            PROVE  CleanInv'
        <4>1. clean /\ n = AllBootstrapRows /\ opened'
          BY <1>2, <3>1, <3>4, Zenon
        <4>2. LivePositions(h, "class") = {} /\ \A oid : ~KnownIn(h, oid)
          BY <2>4, Zenon DEF Rows, KnownIn
        <4>3. \A oid \in Oid : AttributePositions(h, oid) = {} /\ created[oid] = <<>>
          BY <2>2, <4>1, <4>2, Zenon DEF Rests
        <4>4. /\ UniqueClasses(heap')
              /\ \A oid \in Oid : ~KnownIn(heap', oid) => AttributePositions(heap', oid) = {}
          BY <2>1, <3>2, <4>1, <4>2, <4>3, BootstrapClean
        <4>5. \A oid \in Oid : Rests(heap', oid, created[oid], <<>>, <<>>)
          BY <4>3, <4>4, Zenon DEF Rests
        <4> QED
          BY <1>1, <1>2, <4>1, <4>4, <4>5 DEF CleanInv
      <3> QED
        BY <3>3, <3>4 DEF CatalogInv
    <2> QED
      BY <2>3, <2>4
  <1> QED
    BY <1>4, <1>5, Zenon DEF Open, Opened

\* The caches and the tables of a relation after close or destruction.
LEMMA NothingOpen ==
  \A oid \in Oid : NoTables[oid] = <<>>
  BY DEF NoTables

LEMMA CloseSucceedsStep ==
  ASSUME CatalogInv, CloseSucceeds
  PROVE  CatalogInv'
  <1>1. /\ heap' = FlushedTables(SystemTable) /\ engines' = {} /\ type_cache' = {}
        /\ class_cache' = {} /\ attribute_cache' = NoTables /\ user_tables' = NoTables
        /\ opened' = FALSE /\ torn' = FALSE /\ created' = created /\ clean' = clean
    BY DEF CloseSucceeds, ghostVars
  <1>2. HeapOK(heap)
    BY DEF CatalogInv, TablesOK
  <1>3. HeapOK(heap') /\ SameView(heap, heap')
    BY <1>1, <1>2, ClosedTables
  <1>4. TablesOK'
    BY <1>1, <1>3, Zenon DEF CatalogInv, TablesOK, NoTables
  <1>5. EmptyWhenClosed' /\ ClassCacheCurrent'
    BY <1>1 DEF EmptyWhenClosed, ClassCacheCurrent, Usable, NoTables
  <1>6. ASSUME clean
        PROVE  CleanInv'
    <2>1. /\ ~torn /\ UniqueClasses(heap)
          /\ ~opened => AllSettled(heap)
          /\ \A oid \in Oid : Rests(heap, oid, created[oid], attribute_cache[oid], user_tables[oid])
      BY <1>6 DEF CatalogInv, CleanInv
    <2>2. \A t \in SystemTable : t \in SystemTable \cap engines \/ SettledCells(heap[t])
      BY <2>1 DEF CatalogInv, TablesOK, AllSettled, SystemEngine
    <2>3. AllSettled(heap')
      BY <1>1, <1>2, <2>2, ClosedTables
    <2>4. SameClasses(heap, heap') /\ \A oid : SameAttributes(heap, heap', oid)
      BY <1>2, <1>3, SameViews
    <2>5. UniqueClasses(heap') /\ \A oid : KnownIn(heap', oid) <=> KnownIn(heap, oid)
      BY <2>1, <2>4, SameClassesKeep
    <2>6. ASSUME NEW oid \in Oid
          PROVE  Rests(heap', oid, created[oid], <<>>, <<>>)
      <3>1. IsColumns(created[oid])
        BY Promised DEF CatalogInv
      <3>2. Rests(heap, oid, created[oid], <<>>, <<>>)
        BY <2>1, RestsForgotten
      <3> QED
        BY <2>4, <2>5, <3>1, <3>2, RestsKept, Zenon DEF IsColumns
    <2> QED
      BY <1>1, <2>3, <2>5, <2>6, NothingOpen DEF CleanInv
  <1> QED
    BY <1>1, <1>4, <1>5, <1>6 DEF CatalogInv

LEMMA CloseFailsStep ==
  ASSUME CatalogInv, CloseUserTablesFails \/ CloseSystemTablesFails
  PROVE  CatalogInv'
  <1>1. CASE CloseUserTablesFails
    <2>1. /\ torn' = TRUE /\ clean' = FALSE /\ opened' = opened /\ engines' = engines
          /\ heap' = heap /\ type_cache' = type_cache /\ class_cache' = class_cache
          /\ attribute_cache' = attribute_cache /\ user_tables' = user_tables
          /\ created' = created
      BY <1>1 DEF CloseUserTablesFails, cacheVars
    <2>2. TablesOK'
      BY <2>1, Zenon DEF CatalogInv, TablesOK
    <2>3. EmptyWhenClosed' /\ ClassCacheCurrent'
      BY <2>1 DEF CatalogInv, EmptyWhenClosed, ClassCacheCurrent, Usable, NoTables
    <2> QED
      BY <2>1, <2>2, <2>3 DEF CatalogInv
  <1>2. CASE CloseSystemTablesFails
    <2>1. PICK n \in 1 .. 4 :
            /\ heap' = FlushedTables(FirstOf(CloseOrder, n - 1))
            /\ engines' = engines \ FirstOf(CloseOrder, n)
            /\ user_tables' = NoTables
            /\ torn' = TRUE
            /\ clean' = FALSE
            /\ UNCHANGED <<opened, cacheVars, created>>
      BY <1>2, Zenon DEF CloseSystemTablesFails
    <2>2. /\ opened' = opened /\ type_cache' = type_cache /\ class_cache' = class_cache
          /\ attribute_cache' = attribute_cache /\ created' = created
      BY <2>1 DEF cacheVars
    <2>3. HeapOK(heap')
      BY <2>1, ClosedTables DEF CatalogInv, TablesOK
    <2>4. TablesOK'
      BY <2>1, <2>2, <2>3, Zenon DEF CatalogInv, TablesOK, NoTables
    <2>5. EmptyWhenClosed' /\ ClassCacheCurrent'
      BY <2>1, <2>2 DEF CatalogInv, EmptyWhenClosed, ClassCacheCurrent, Usable, NoTables
    <2> QED
      BY <2>1, <2>4, <2>5 DEF CatalogInv
  <1> QED
    BY <1>1, <1>2

LEMMA DestroyStep ==
  ASSUME CatalogInv, Destroy
  PROVE  CatalogInv'
  <1>1. /\ opened' = FALSE /\ engines' = {} /\ type_cache' = {} /\ class_cache' = {}
        /\ attribute_cache' = NoTables /\ user_tables' = NoTables /\ torn' = FALSE
        /\ clean' = (clean /\ ~opened) /\ heap' = heap /\ created' = created
    BY DEF Destroy
  <1>2. TablesOK'
    BY <1>1, Zenon DEF CatalogInv, TablesOK, NoTables
  <1>3. EmptyWhenClosed' /\ ClassCacheCurrent'
    BY <1>1 DEF EmptyWhenClosed, ClassCacheCurrent, Usable, NoTables
  <1>4. ASSUME clean, ~opened
        PROVE  CleanInv'
    <2>1. attribute_cache = NoTables /\ user_tables = NoTables
      BY <1>4 DEF CatalogInv, EmptyWhenClosed
    <2> QED
      BY <1>1, <1>4, <2>1 DEF CatalogInv, CleanInv
  <1> QED
    BY <1>1, <1>2, <1>3, <1>4 DEF CatalogInv

(***************************************************************************)
(* create_table.                                                           *)
(***************************************************************************)
LEMMA ClassAdded ==
  ASSUME NEW h, NEW g, NEW oid, NEW name, NEW columns, NEW n,
         RelationAdded(h, g, oid, name, columns, n)
  PROVE  /\ KnownIn(g, oid)
         /\ \A o \in Oid \ {oid} : KnownIn(g, o) <=> KnownIn(h, o)
         /\ \A o : KnownIn(h, o) => KnownIn(g, o)
         /\ Rows(h, "class") \subseteq Rows(g, "class")
  <1> DEFINE c == Len(h["class"]) + 1
  <1> HIDE DEF c
  <1>1. /\ LivePositions(g, "class") = LivePositions(h, "class") \cup {c}
        /\ \A i \in LivePositions(h, "class") : i # c /\ g["class"][i].row = h["class"][i].row
        /\ g["class"][c].row.oid = oid
    BY DEF RelationAdded, c
  <1>2. KnownIn(g, oid)
    BY <1>1 DEF KnownIn
  <1>3. \A o : KnownIn(h, o) => KnownIn(g, o)
    BY <1>1 DEF KnownIn
  <1>4. \A o \in Oid \ {oid} : KnownIn(g, o) => KnownIn(h, o)
    BY <1>1 DEF KnownIn
  <1>5. Rows(h, "class") \subseteq Rows(g, "class")
    BY <1>1 DEF Rows
  <1> QED
    BY <1>2, <1>3, <1>4, <1>5

LEMMA StillUnique ==
  ASSUME NEW h, NEW g, NEW oid, NEW name, NEW columns, NEW n,
         RelationAdded(h, g, oid, name, columns, n), UniqueClasses(h),
         \A i \in LivePositions(h, "class") :
           h["class"][i].row.oid # oid /\ h["class"][i].row.name # name
  PROVE  UniqueClasses(g)
  <1> DEFINE c == Len(h["class"]) + 1
  <1> HIDE DEF c
  <1>1. /\ LivePositions(g, "class") = LivePositions(h, "class") \cup {c}
        /\ \A i \in LivePositions(h, "class") : i # c /\ g["class"][i].row = h["class"][i].row
        /\ g["class"][c].row.oid = oid /\ g["class"][c].row.name = name
    BY DEF RelationAdded, c
  <1>2. SUFFICES ASSUME NEW i \in LivePositions(g, "class"), NEW j \in LivePositions(g, "class"),
                        \/ g["class"][i].row.oid = g["class"][j].row.oid
                        \/ g["class"][i].row.name = g["class"][j].row.name
                 PROVE  i = j
    BY DEF UniqueClasses
  <1>3. CASE i = c \/ j = c
    BY <1>1, <1>2, <1>3
  <1>4. CASE i # c /\ j # c
    BY <1>1, <1>2, <1>4 DEF UniqueClasses
  <1> QED
    BY <1>3, <1>4

\* What both ends of create_table have in common.
LEMMA CreatedBefore ==
  ASSUME CatalogInv, NEW name \in Name, NEW columns \in Columns, CreateTable(name, columns)
  PROVE  LET oid == NextRelationOid
         IN /\ oid \in Oid /\ name \in AllNames /\ columns \in Seq(Column)
            /\ \A i \in LivePositions(heap, "class") :
                 heap["class"][i].row.oid # oid /\ heap["class"][i].row.name # name
            /\ ~KnownIn(heap, oid) /\ user_tables[oid] = <<>>
            /\ \A n \in 0 .. Len(columns) :
                 RelationAdded(heap, Registered(oid, name, columns, n), oid, name, columns, n)
            /\ opened /\ ~torn /\ opened' = opened /\ engines' = engines
            /\ type_cache' = type_cache /\ torn' = torn /\ clean' = clean
            /\ class_cache \subseteq Rows(heap, "class")
            /\ \A o \in Oid : user_tables[o] # <<>> => KnownIn(heap, o)
  <1> DEFINE oid == NextRelationOid
  <1>1. /\ oid \in Oid /\ ClassesNamed(name) = {} /\ Usable
        /\ opened' = opened /\ engines' = engines /\ type_cache' = type_cache
        /\ torn' = torn /\ clean' = clean
    BY DEF CreateTable
  <1>2. name \in AllNames /\ columns \in Seq(Column)
    BY ColumnsAssumption DEF AllNames
  <1>3. /\ HeapOK(heap) /\ class_cache \subseteq Rows(heap, "class")
        /\ \A o \in Oid : user_tables[o] # <<>> => KnownIn(heap, o)
    BY <1>1, KnownClass DEF CatalogInv, TablesOK, ClassCacheCurrent
  <1>4. \A i \in LivePositions(heap, "class") :
          heap["class"][i].row.oid # oid /\ heap["class"][i].row.name # name
    BY <1>1, <1>3, NewOid, NoSuchClass
  <1> HIDE DEF oid
  <1>5. ~KnownIn(heap, oid)
    BY <1>4 DEF KnownIn
  <1>6. user_tables[oid] = <<>>
    BY <1>1, <1>3, <1>5
  <1>7. \A n \in 0 .. Len(columns) :
          RelationAdded(heap, Registered(oid, name, columns, n), oid, name, columns, n)
    BY <1>1, <1>2, <1>3, RegisteredTables
  <1> QED
    BY <1>1, <1>2, <1>3, <1>4, <1>5, <1>6, <1>7 DEF oid, Usable

LEMMA CreateFailsStep ==
  ASSUME CatalogInv, NEW name \in Name, NEW columns \in Columns, CreateTable(name, columns),
         CreateFails(NextRelationOid, name, columns)
  PROVE  CatalogInv'
  <1> DEFINE oid == NextRelationOid
  <1> HIDE DEF oid
  <1>1. /\ oid \in Oid /\ name \in AllNames /\ columns \in Seq(Column)
        /\ \A i \in LivePositions(heap, "class") :
             heap["class"][i].row.oid # oid /\ heap["class"][i].row.name # name
        /\ ~KnownIn(heap, oid) /\ user_tables[oid] = <<>>
        /\ \A n \in 0 .. Len(columns) :
             RelationAdded(heap, Registered(oid, name, columns, n), oid, name, columns, n)
        /\ opened /\ ~torn /\ opened' = opened /\ engines' = engines
        /\ type_cache' = type_cache /\ torn' = torn /\ clean' = clean
        /\ class_cache \subseteq Rows(heap, "class")
        /\ \A o \in Oid : user_tables[o] # <<>> => KnownIn(heap, o)
    BY CreatedBefore DEF oid
  <1>2. PICK n \in 0 .. Len(columns) - 1 :
          /\ heap' = Registered(oid, name, columns, n)
          /\ class_cache' = class_cache /\ attribute_cache' = attribute_cache
          /\ user_tables' = user_tables /\ created' = created
    BY DEF CreateFails, oid
  <1>3. Len(columns) \in Nat
    BY <1>1
  <1>4. RelationAdded(heap, heap', oid, name, columns, n)
    BY <1>1, <1>2, <1>3
  <1>5. /\ KnownIn(heap', oid)
        /\ \A o \in Oid \ {oid} : KnownIn(heap', o) <=> KnownIn(heap, o)
        /\ \A o : KnownIn(heap, o) => KnownIn(heap', o)
        /\ Rows(heap, "class") \subseteq Rows(heap', "class")
    BY <1>4, ClassAdded
  <1>6. TablesOK'
    BY <1>1, <1>2, <1>4, Zenon DEF CatalogInv, TablesOK, RelationAdded
  <1>7. EmptyWhenClosed'
    BY <1>1, Zenon DEF EmptyWhenClosed
  <1>8. ClassCacheCurrent'
    <2>1. \A o : Known(o)' <=> KnownIn(heap', o)
      BY DEF Known, KnownIn, Rows
    <2> QED
      BY <1>1, <1>2, <1>5, <2>1, Zenon DEF ClassCacheCurrent
  <1>9. ASSUME clean
        PROVE  CleanInv'
    <2>1. ASSUME NEW o \in Oid
          PROVE  Rests(heap', o, created[o], attribute_cache[o], user_tables[o])
      <3>1. Rests(heap, o, created[o], attribute_cache[o], user_tables[o])
        BY <1>9 DEF CatalogInv, CleanInv
      <3>2. IsColumns(created[o])
        BY Promised DEF CatalogInv
      <3>3. CASE o = oid
        BY <1>1, <1>5, <3>1, <3>3, Zenon DEF Rests
      <3>4. CASE o # oid
        <4>1. SameAttributes(heap, heap', o)
          BY <1>4, <3>4 DEF RelationAdded
        <4> QED
          BY <1>5, <3>1, <3>2, <3>4, <4>1, RestsKept, ZenonT(30) DEF IsColumns
      <3> QED
        BY <3>3, <3>4, Zenon
    <2>2. UniqueClasses(heap')
      BY <1>1, <1>4, <1>9, StillUnique, Zenon DEF CatalogInv, CleanInv
    <2> QED
      BY <1>1, <1>2, <2>1, <2>2, Zenon DEF CleanInv
  <1> QED
    BY <1>1, <1>6, <1>7, <1>8, <1>9 DEF CatalogInv

LEMMA CreateCompletesStep ==
  ASSUME CatalogInv, NEW name \in Name, NEW columns \in Columns, CreateTable(name, columns),
         CreateCompletes(NextRelationOid, name, columns)
  PROVE  CatalogInv'
  <1> DEFINE oid == NextRelationOid
             cache == [attribute_cache EXCEPT ![oid] = <<>>]
  <1> HIDE DEF oid
  <1>1. /\ oid \in Oid /\ name \in AllNames /\ columns \in Seq(Column)
        /\ \A i \in LivePositions(heap, "class") :
             heap["class"][i].row.oid # oid /\ heap["class"][i].row.name # name
        /\ ~KnownIn(heap, oid) /\ user_tables[oid] = <<>>
        /\ \A n \in 0 .. Len(columns) :
             RelationAdded(heap, Registered(oid, name, columns, n), oid, name, columns, n)
        /\ opened /\ ~torn /\ opened' = opened /\ engines' = engines
        /\ type_cache' = type_cache /\ torn' = torn /\ clean' = clean
        /\ class_cache \subseteq Rows(heap, "class")
        /\ \A o \in Oid : user_tables[o] # <<>> => KnownIn(heap, o)
    BY CreatedBefore DEF oid
  <1>2. PICK succeeds \in BOOLEAN :
          /\ heap' = Registered(oid, name, columns, Len(columns))
          /\ class_cache' = WithoutClass(name)
          /\ EnsureUserTableOpen(cache, heap', oid, succeeds)
          /\ created' = [created EXCEPT ![oid] = IF succeeds THEN columns ELSE created[oid]]
    BY Zenon DEF CreateCompletes, oid
  <1>3. Len(columns) \in Nat
    BY <1>1
  <1>4. RelationAdded(heap, heap', oid, name, columns, Len(columns))
    BY <1>1, <1>2, <1>3
  <1>5. /\ KnownIn(heap', oid)
        /\ \A o \in Oid \ {oid} : KnownIn(heap', o) <=> KnownIn(heap, o)
        /\ \A o : KnownIn(heap, o) => KnownIn(heap', o)
        /\ Rows(heap, "class") \subseteq Rows(heap', "class")
    BY <1>4, ClassAdded
  <1>6. /\ DOMAIN cache = Oid /\ cache[oid] = <<>>
        /\ \A o \in Oid \ {oid} : cache[o] = attribute_cache[o]
    BY <1>1, Zenon DEF CatalogInv, TablesOK
  <1>7. /\ created' \in [Oid -> Columns \cup {<<>>}]
        /\ created'[oid] \in {columns, created[oid]}
        /\ \A o \in Oid \ {oid} : created'[o] = created[o]
    BY <1>1, <1>2, Zenon DEF CatalogInv, TablesOK
  <1> HIDE DEF cache
  <1>8. \A list : IsColumns(list) => Ensured(heap', oid, cache, list)
    BY <1>1, <1>2, <1>5, <1>6, EnsureOpens, Zenon DEF CatalogInv, TablesOK
  <1>9. /\ DOMAIN attribute_cache' = Oid /\ DOMAIN user_tables' = Oid
        /\ \A o \in Oid \ {oid} : /\ attribute_cache'[o] = cache[o]
                                  /\ user_tables'[o] = user_tables[o]
    BY <1>8 DEF Ensured, IsColumns
  <1>10. TablesOK'
    BY <1>1, <1>4, <1>7, <1>9, Zenon DEF CatalogInv, TablesOK, RelationAdded
  <1>11. EmptyWhenClosed'
    BY <1>1, Zenon DEF EmptyWhenClosed
  <1>12. ClassCacheCurrent'
    <2>1. \A o : Known(o)' <=> KnownIn(heap', o)
      BY DEF Known, KnownIn, Rows
    <2>2. class_cache' \subseteq Rows(heap', "class")
      BY <1>1, <1>2, <1>5, Zenon DEF WithoutClass
    <2>3. \A o \in Oid : user_tables'[o] # <<>> => KnownIn(heap', o)
      BY <1>1, <1>5, <1>9, Zenon
    <2> QED
      BY <2>1, <2>2, <2>3, Zenon DEF ClassCacheCurrent
  <1>13. ASSUME clean
         PROVE  CleanInv'
    <2>1. ASSUME NEW o \in Oid
          PROVE  Rests(heap', o, created'[o], attribute_cache'[o], user_tables'[o])
      <3>1. Rests(heap, o, created[o], attribute_cache[o], user_tables[o])
        BY <1>13 DEF CatalogInv, CleanInv
      <3>2. IsColumns(created[o])
        BY Promised DEF CatalogInv
      <3>3. CASE o = oid
        <4>1. AttributePositions(heap, oid) = {} /\ created[oid] = <<>>
          BY <1>1, <3>1, <3>3, Zenon DEF Rests
        <4>2. HasColumns(heap', oid, columns)
          BY <1>1, <1>4, <4>1, ColumnsAdded, Zenon DEF CatalogInv, TablesOK
        <4>3. ASSUME NEW list \in {columns, <<>>}
              PROVE  Rests(heap', oid, list, <<>>, <<>>) /\ IsColumns(list)
          BY <1>1, <1>5, <4>2, Zenon DEF Rests, IsColumns
        <4>4. created'[oid] \in {columns, <<>>}
          BY <1>7, <4>1
        <4> QED
          BY <1>1, <1>6, <1>8, <3>3, <4>3, <4>4, Zenon DEF Ensured
      <3>4. CASE o # oid
        <4>1. SameAttributes(heap, heap', o)
          BY <1>4, <3>4 DEF RelationAdded
        <4>2. Rests(heap', o, created[o], attribute_cache[o], user_tables[o])
          BY <1>5, <3>1, <3>2, <3>4, <4>1, RestsKept DEF IsColumns
        <4> QED
          BY <1>6, <1>7, <1>9, <3>4, <4>2
      <3> QED
        BY <3>3, <3>4
    <2>2. UniqueClasses(heap')
      BY <1>1, <1>4, <1>13, StillUnique, Zenon DEF CatalogInv, CleanInv
    <2> QED
      BY <1>1, <2>1, <2>2, Zenon DEF CleanInv
  <1> QED
    BY <1>1, <1>10, <1>11, <1>12, <1>13, Zenon DEF CatalogInv

LEMMA CreateTableStep ==
  ASSUME CatalogInv, NEW name \in Name, NEW columns \in Columns, CreateTable(name, columns)
  PROVE  CatalogInv'
  <1>1. \/ CreateFails(NextRelationOid, name, columns)
        \/ CreateCompletes(NextRelationOid, name, columns)
    BY DEF CreateTable
  <1> QED
    BY <1>1, CreateFailsStep, CreateCompletesStep

(***************************************************************************)
(* drop_table.                                                             *)
(***************************************************************************)
FoundAt(oid) == {i \in LivePositions(heap, "class") : heap["class"][i].row.oid = oid}

\* The row that drop_table finds first.
LEMMA DroppedBefore ==
  ASSUME CatalogInv, NEW oid \in Oid, DropTable(oid)
  PROVE  /\ Min(FoundAt(oid)) \in LivePositions(heap, "class")
         /\ heap["class"][Min(FoundAt(oid))].row.oid = oid
         /\ KnownIn(heap, oid)
         /\ DropFails(oid) \/ DropCompletes(oid, Min(FoundAt(oid)))
         /\ opened /\ ~torn /\ opened' = opened /\ engines' = engines
         /\ type_cache' = type_cache /\ torn' = torn /\ clean' = clean
         /\ class_cache \subseteq Rows(heap, "class")
         /\ \A o \in Oid : user_tables[o] # <<>> => KnownIn(heap, o)
         /\ created' \in [Oid -> Columns \cup {<<>>}]
         /\ created'[oid] = <<>>
         /\ \A o \in Oid \ {oid} : created'[o] = created[o]
  <1>1. /\ Usable /\ FoundAt(oid) # {}
        /\ DropFails(oid) \/ DropCompletes(oid, Min(FoundAt(oid)))
        /\ opened' = opened /\ engines' = engines
        /\ type_cache' = type_cache /\ torn' = torn /\ clean' = clean
        /\ created' = [created EXCEPT ![oid] = <<>>]
    BY DEF DropTable, FoundAt
  <1>2. HeapOK(heap)
    BY DEF CatalogInv, TablesOK
  <1>3. FoundAt(oid) \subseteq Nat
    BY <1>2, HeapCells DEF FoundAt, LivePositions
  <1>4. Min(FoundAt(oid)) \in FoundAt(oid)
    BY <1>1, <1>3, MinIsLeast
  <1>5. KnownIn(heap, oid)
    BY <1>4, Zenon DEF FoundAt, KnownIn
  <1>6. /\ class_cache \subseteq Rows(heap, "class")
        /\ \A o \in Oid : user_tables[o] # <<>> => KnownIn(heap, o)
    BY <1>1, KnownClass DEF CatalogInv, ClassCacheCurrent
  <1>7. /\ created' \in [Oid -> Columns \cup {<<>>}]
        /\ created'[oid] = <<>>
        /\ \A o \in Oid \ {oid} : created'[o] = created[o]
    BY <1>1 DEF CatalogInv, TablesOK
  <1>8. Min(FoundAt(oid)) \in LivePositions(heap, "class")
    BY <1>4 DEF FoundAt
  <1>9. heap["class"][Min(FoundAt(oid))].row.oid = oid
    BY <1>4 DEF FoundAt
  <1> QED
    BY <1>1, <1>5, <1>6, <1>7, <1>8, <1>9 DEF Usable

LEMMA DropFailsStep ==
  ASSUME CatalogInv, NEW oid \in Oid, DropTable(oid), DropFails(oid)
  PROVE  CatalogInv'
  <1>1. /\ KnownIn(heap, oid)
        /\ opened /\ ~torn /\ opened' = opened /\ engines' = engines
        /\ type_cache' = type_cache /\ torn' = torn /\ clean' = clean
        /\ class_cache \subseteq Rows(heap, "class")
        /\ \A o \in Oid : user_tables[o] # <<>> => KnownIn(heap, o)
        /\ created' \in [Oid -> Columns \cup {<<>>}]
        /\ created'[oid] = <<>>
        /\ \A o \in Oid \ {oid} : created'[o] = created[o]
    BY DroppedBefore
  <1>2. PICK n : /\ heap' = WithoutAttributes(oid, n)
                 /\ class_cache' = class_cache /\ attribute_cache' = attribute_cache
                 /\ user_tables' = user_tables
    BY DEF DropFails
  <1>3. AttributesGone(heap, heap', oid, FirstAttributes(oid, n)) /\ SameClasses(heap, heap')
    BY <1>2, WithoutSome DEF CatalogInv, TablesOK
  <1>4. /\ UniqueClasses(heap) => UniqueClasses(heap')
        /\ \A o : KnownIn(heap', o) <=> KnownIn(heap, o)
        /\ Rows(heap', "class") = Rows(heap, "class")
    BY <1>3, SameClassesKeep
  <1>5. TablesOK'
    BY <1>1, <1>2, <1>3, Zenon DEF CatalogInv, TablesOK, AttributesGone
  <1>6. EmptyWhenClosed'
    BY <1>1 DEF EmptyWhenClosed
  <1>7. ClassCacheCurrent'
    <2>1. \A o : Known(o)' <=> KnownIn(heap', o)
      BY DEF Known, KnownIn, Rows
    <2> QED
      BY <1>1, <1>2, <1>4, <2>1 DEF ClassCacheCurrent
  <1>8. ASSUME clean
        PROVE  CleanInv'
    <2>1. ASSUME NEW o \in Oid
          PROVE  Rests(heap', o, created'[o], attribute_cache[o], user_tables[o])
      <3>1. Rests(heap, o, created[o], attribute_cache[o], user_tables[o])
        BY <1>8 DEF CatalogInv, CleanInv
      <3>2. IsColumns(created[o])
        BY Promised DEF CatalogInv
      <3>3. CASE o = oid
        BY <1>1, <1>4, <3>3 DEF Rests
      <3>4. CASE o # oid
        <4>1. SameAttributes(heap, heap', o)
          BY <1>3, <3>4 DEF AttributesGone
        <4>2. Rests(heap', o, created[o], attribute_cache[o], user_tables[o])
          BY <1>4, <3>1, <3>2, <4>1, RestsKept DEF IsColumns
        <4> QED
          BY <1>1, <3>4, <4>2
      <3> QED
        BY <3>3, <3>4
    <2>2. UniqueClasses(heap')
      BY <1>4, <1>8 DEF CatalogInv, CleanInv
    <2> QED
      BY <1>1, <1>2, <2>1, <2>2 DEF CleanInv
  <1> QED
    BY <1>1, <1>5, <1>6, <1>7, <1>8 DEF CatalogInv

LEMMA DropCompletesStep ==
  ASSUME CatalogInv, NEW oid \in Oid, DropTable(oid),
         DropCompletes(oid, Min(FoundAt(oid)))
  PROVE  CatalogInv'
  <1> DEFINE position == Min(FoundAt(oid))
  <1>1. /\ position \in LivePositions(heap, "class") /\ heap["class"][position].row.oid = oid
        /\ opened /\ ~torn /\ opened' = opened /\ engines' = engines
        /\ type_cache' = type_cache /\ torn' = torn /\ clean' = clean
        /\ class_cache \subseteq Rows(heap, "class")
        /\ \A o \in Oid : user_tables[o] # <<>> => KnownIn(heap, o)
        /\ created' \in [Oid -> Columns \cup {<<>>}]
        /\ created'[oid] = <<>>
        /\ \A o \in Oid \ {oid} : created'[o] = created[o]
    BY DroppedBefore
  <1>2. /\ heap' = Dropped(oid, position)
        /\ user_tables' = [user_tables EXCEPT ![oid] = <<>>]
        /\ class_cache' = WithoutClass(heap["class"][position].row.name)
        /\ attribute_cache' = [attribute_cache EXCEPT ![oid] = <<>>]
    BY DEF DropCompletes, Dropped
  <1> HIDE DEF position
  <1>3. /\ AttributesGone(heap, heap', oid, AttributePositions(heap, oid))
        /\ LivePositions(heap', "class") = LivePositions(heap, "class") \ {position}
        /\ \A i \in LivePositions(heap, "class") : heap'["class"][i].row = heap["class"][i].row
    BY <1>2, DroppedTables DEF CatalogInv, TablesOK
  <1>4. /\ DOMAIN attribute_cache' = Oid /\ DOMAIN user_tables' = Oid
        /\ attribute_cache'[oid] = <<>> /\ user_tables'[oid] = <<>>
        /\ \A o \in Oid \ {oid} : /\ attribute_cache'[o] = attribute_cache[o]
                                  /\ user_tables'[o] = user_tables[o]
    BY <1>2 DEF CatalogInv, TablesOK
  <1>5. \A o \in Oid \ {oid} : KnownIn(heap', o) <=> KnownIn(heap, o)
    BY <1>1, <1>3, Zenon DEF KnownIn
  <1>6. TablesOK'
    BY <1>1, <1>3, <1>4, Zenon DEF CatalogInv, TablesOK, AttributesGone
  <1>7. EmptyWhenClosed'
    BY <1>1, Zenon DEF EmptyWhenClosed
  <1>8. ClassCacheCurrent'
    <2>1. \A o : Known(o)' <=> KnownIn(heap', o)
      BY DEF Known, KnownIn, Rows
    <2>2. ASSUME NEW row \in class_cache'
          PROVE  row \in Rows(heap', "class")
      <3>1. row \in class_cache /\ row.name # heap["class"][position].row.name
        BY <1>2, <2>2 DEF WithoutClass
      <3>2. PICK i \in LivePositions(heap, "class") : heap["class"][i].row = row
        BY <1>1, <3>1 DEF Rows
      <3>3. i \in LivePositions(heap', "class")
        BY <1>3, <3>1, <3>2
      <3> QED
        BY <1>3, <3>2, <3>3 DEF Rows
    <2>3. \A o \in Oid : user_tables'[o] # <<>> => KnownIn(heap', o)
      BY <1>1, <1>4, <1>5, Zenon
    <2> QED
      BY <2>1, <2>2, <2>3 DEF ClassCacheCurrent
  <1>9. ASSUME clean
        PROVE  CleanInv'
    <2>1. ASSUME NEW o \in Oid
          PROVE  Rests(heap', o, created'[o], attribute_cache'[o], user_tables'[o])
      <3>1. Rests(heap, o, created[o], attribute_cache[o], user_tables[o])
        BY <1>9 DEF CatalogInv, CleanInv
      <3>2. IsColumns(created[o])
        BY Promised DEF CatalogInv
      <3>3. CASE o = oid
        <4>1. AttributePositions(heap', oid) = {}
          BY <1>3 DEF AttributesGone
        <4> QED
          BY <1>1, <1>4, <3>3, <4>1 DEF Rests
      <3>4. CASE o # oid
        <4>1. SameAttributes(heap, heap', o)
          BY <1>3, <3>4 DEF AttributesGone
        <4>2. Rests(heap', o, created[o], attribute_cache[o], user_tables[o])
          BY <1>5, <3>1, <3>2, <3>4, <4>1, RestsKept DEF IsColumns
        <4> QED
          BY <1>1, <1>4, <3>4, <4>2
      <3> QED
        BY <3>3, <3>4
    <2>2. UniqueClasses(heap')
      <3>1. UniqueClasses(heap)
        BY <1>9 DEF CatalogInv, CleanInv
      <3> QED
        BY <1>3, <3>1, Zenon DEF UniqueClasses
    <2> QED
      BY <1>1, <2>1, <2>2 DEF CleanInv
  <1> QED
    BY <1>1, <1>6, <1>7, <1>8, <1>9 DEF CatalogInv

LEMMA DropTableStep ==
  ASSUME CatalogInv, NEW oid \in Oid, DropTable(oid)
  PROVE  CatalogInv'
  BY DroppedBefore, DropFailsStep, DropCompletesStep

(***************************************************************************)
(* The invariant, and what it says.                                        *)
(***************************************************************************)
LEMMA CatalogInitially ==
  Init => CatalogInv
  <1> SUFFICES ASSUME Init PROVE CatalogInv
    OBVIOUS
  <1>1. HeapOK(heap) /\ \A t \in SystemTable : heap[t] = <<>>
    <2>1. DOMAIN heap = SystemTable /\ \A t \in SystemTable : heap[t] = <<>>
      BY DEF Init
    <2>2. \A R : <<>> \in Seq(CellOf(R))
      OBVIOUS
    <2> QED
      BY <2>1, <2>2, Zenon DEF HeapOK
  <1>2. TablesOK
    BY <1>1, Zenon DEF Init, TablesOK, NoTables
  <1>3. EmptyWhenClosed /\ ClassCacheCurrent
    BY DEF Init, EmptyWhenClosed, ClassCacheCurrent, Usable
  <1>4. AllSettled(heap)
    BY <1>1 DEF AllSettled, SettledCells
  <1>5. LivePositions(heap, "class") = {} /\ LivePositions(heap, "attribute") = {}
    BY <1>1 DEF LivePositions, SystemTable
  <1>6. UniqueClasses(heap)
    BY <1>5 DEF UniqueClasses
  <1>7. ASSUME NEW oid \in Oid
        PROVE  Rests(heap, oid, created[oid], attribute_cache[oid], user_tables[oid])
    <2>1. AttributePositions(heap, oid) = {}
      BY <1>5 DEF AttributePositions
    <2>2. created[oid] = <<>> /\ attribute_cache[oid] = <<>> /\ user_tables[oid] = <<>>
      BY NothingOpen DEF Init
    <2> QED
      BY <2>1, <2>2, Zenon DEF Rests
  <1>8. CleanInv
    BY <1>4, <1>6, <1>7 DEF Init, CleanInv
  <1> QED
    BY <1>2, <1>3, <1>8 DEF CatalogInv

LEMMA CatalogStutters ==
  ASSUME CatalogInv, UNCHANGED vars
  PROVE  CatalogInv'
  <1>1. /\ opened' = opened /\ engines' = engines /\ heap' = heap
        /\ type_cache' = type_cache /\ class_cache' = class_cache
        /\ attribute_cache' = attribute_cache /\ user_tables' = user_tables
        /\ torn' = torn /\ created' = created /\ clean' = clean
    BY DEF vars, cacheVars, ghostVars
  <1>2. TablesOK' /\ EmptyWhenClosed' /\ ClassCacheCurrent'
    BY <1>1 DEF CatalogInv, TablesOK, EmptyWhenClosed, NoTables, ClassCacheCurrent, Usable, Known
  <1>3. clean => CleanInv'
    BY <1>1 DEF CatalogInv, CleanInv
  <1> QED
    BY <1>1, <1>2, <1>3 DEF CatalogInv

LEMMA CatalogStep ==
  CatalogInv /\ [Next]_vars => CatalogInv'
  <1> SUFFICES ASSUME CatalogInv, [Next]_vars PROVE CatalogInv'
    OBVIOUS
  <1>1. CASE Open
    BY <1>1, OpenStep
  <1>2. CASE Close
    BY <1>2, CloseSucceedsStep, CloseFailsStep DEF Close
  <1>3. CASE Destroy
    BY <1>3, DestroyStep
  <1>4. ASSUME NEW name \in Range(TypeName), GetType(name)
        PROVE  CatalogInv'
    BY <1>4, GetTypeStep
  <1>5. ASSUME NEW name \in AllNames, GetClass(name) \/ OpenTable(name)
        PROVE  CatalogInv'
    BY <1>5, GetClassStep, OpenTableStep
  <1>6. ASSUME NEW oid \in Oid, GetAttributes(oid) \/ DropTable(oid)
        PROVE  CatalogInv'
    BY <1>6, GetAttributesStep, DropTableStep
  <1>7. ASSUME NEW name \in Name, NEW columns \in Columns, CreateTable(name, columns)
        PROVE  CatalogInv'
    BY <1>7, CreateTableStep
  <1>8. CASE UNCHANGED vars
    BY <1>8, CatalogStutters
  <1> QED
    BY <1>1, <1>2, <1>3, <1>4, <1>5, <1>6, <1>7, <1>8 DEF Next

\* The invariant holds throughout, whichever steps of open, close, create_table
\* and drop_table fail (catalog.cpp:116-156, 561-624, 662-703).
THEOREM CatalogInvariant == Spec => []CatalogInv
  BY CatalogInitially, CatalogStep, PTL DEF Spec

\* What the invariant says of types.
LEMMA TypesHold ==
  ASSUME CatalogInv
  PROVE  TypeOK
  <1>1. /\ opened \in BOOLEAN /\ engines \subseteq SystemEngine
        /\ opened /\ ~torn => engines = SystemEngine
        /\ HeapOK(heap) /\ type_cache \subseteq Range(TypeName)
        /\ DOMAIN attribute_cache = Oid /\ DOMAIN user_tables = Oid
    BY DEF CatalogInv, TablesOK
  <1>2. ASSUME NEW t \in SystemTable, NEW i \in DOMAIN heap[t]
        PROVE  heap[t][i].live \in BOOLEAN /\ heap[t][i].file \subseteq BOOLEAN
    <2>t. heap[t] \in Seq(CellOf(RowOf[t]))
      BY <1>1 DEF HeapOK
    <2>1. heap[t][i] \in CellOf(RowOf[t])
      BY <2>t, SeqOfCells
    <2> QED
      BY <2>1, CellFields
  <1>3. ASSUME NEW row \in Rows(heap, "class")
        PROVE  row.oid \in Oid /\ row.name \in AllNames
    <2>1. PICK i \in LivePositions(heap, "class") : row = heap["class"][i].row
      BY DEF Rows
    <2>2. heap["class"][i] \in CellOf(RowOf["class"])
      BY <1>1, HeapCells DEF LivePositions, SystemTable
    <2>3. row \in RowOf["class"]
      BY <2>1, <2>2, CellFields
    <2> QED
      BY <2>3 DEF RowOf
  <1> QED
    BY <1>1, <1>2, <1>3 DEF TypeOK

\* What it says of sessions that were all closed.
LEMMA CleanSessions ==
  ASSUME CatalogInv
  PROVE  NoMetadataWithoutClass /\ ClassesAreUnique /\ CreatedTablesIntact
  <1>1. CASE ~clean
    BY <1>1 DEF NoMetadataWithoutClass, ClassesAreUnique, CreatedTablesIntact
  <1>2. CASE clean
    <2>1. /\ UniqueClasses(heap)
          /\ \A oid \in Oid :
               Rests(heap, oid, created[oid], attribute_cache[oid], user_tables[oid])
      BY <1>2 DEF CatalogInv, CleanInv
    <2>2. ClassesAreUnique
      BY <2>1, Zenon DEF UniqueClasses, ClassesAreUnique
    <2>3. NoMetadataWithoutClass
      BY <2>1, KnownClass, Zenon DEF Rests, NoMetadataWithoutClass
    <2>4. ASSUME NEW oid \in Oid, created[oid] # <<>>
          PROVE  /\ Known(oid)
                 /\ AttributesOf(attribute_cache, heap, oid) = created[oid]
                 /\ ColumnsOf(heap, oid) = created[oid]
                 /\ user_tables[oid] \in {<<>>, created[oid]}
      <3>1. /\ KnownIn(heap, oid)
            /\ HasColumns(heap, oid, created[oid])
            /\ attribute_cache[oid] \in {<<>>, created[oid]}
            /\ user_tables[oid] \in {<<>>, created[oid]}
        BY <2>1, <2>4, Zenon DEF Rests
      <3>2. created[oid] \in Seq(Column)
        BY <2>4, Promised DEF CatalogInv, IsColumns
      <3>3. ColumnsOf(heap, oid) = created[oid]
        BY <3>1, <3>2, SortedColumns
      <3>4. AttributesOf(attribute_cache, heap, oid) = created[oid]
        BY <3>1, <3>3 DEF AttributesOf
      <3> QED
        BY <3>1, <3>3, <3>4, KnownClass
    <2>5. CreatedTablesIntact
      BY <2>4 DEF CreatedTablesIntact
    <2> QED
      BY <2>2, <2>3, <2>5
  <1> QED
    BY <1>1, <1>2 DEF CatalogInv, TablesOK

\* The system tables, the caches and the open tables keep their types, and as
\* long as no close failed an open catalog has an engine for every system table:
\* open returns success only after the last of them (catalog.cpp:116-126,
\* 200-212).
THEOREM TypeCorrect == Spec => []TypeOK
  BY CatalogInvariant, TypesHold, PTL

\* The class cache only has rows of edb_class and an open table has a class,
\* through destruction without a close, torn files and failed drops
\* (catalog.cpp:483-508, 662-703, 745-756).
THEOREM CachedClassesAreCurrent == Spec => []ClassCacheCurrent
  <1>1. CatalogInv => ClassCacheCurrent
    BY DEF CatalogInv
  <1> QED
    BY <1>1, CatalogInvariant, PTL

\* As long as every session was closed, the catalog keeps no attribute row, cached
\* columns or open table without the class row, whichever creates and drops failed half way
\* (catalog.cpp:561-624, 662-703).
THEOREM NoMetadataOutlives == Spec => []NoMetadataWithoutClass
  BY CatalogInvariant, CleanSessions, PTL

\* As long as every session was closed, no two rows of edb_class have one name or
\* one oid: next_relation_oid gives out an oid no row has, and create_table finds
\* every taken name (catalog.cpp:542-598).
THEOREM ClassesStayUnique == Spec => []ClassesAreUnique
  BY CatalogInvariant, CleanSessions, PTL

\* A table that create_table returned keeps exactly its columns until somebody
\* tries to drop it, in every later session, as long as every session was closed
\* (catalog.cpp:510-624).
THEOREM CreatedTablesStay == Spec => []CreatedTablesIntact
  BY CatalogInvariant, CleanSessions, PTL
=============================================================================
