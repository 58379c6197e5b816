------------------------------- MODULE Query --------------------------------
(***************************************************************************)
(* SQL statements run by several threads over one catalog: the text of a   *)
(* CREATE TABLE, INSERT or SELECT goes through lexer and parser, binder    *)
(* (query/binder.cpp) and plan to the executor (query/exec.cpp) and Table  *)
(* (catalog/table.cpp).                                                    *)
(*                                                                         *)
(* The threads meet at the latches of the catalog and of the heap engine,  *)
(* so the steps are one CREATE, the binding of a statement, one tuple      *)
(* inserted and one tuple scanned.  The catalog and the engine are what    *)
(* Catalog and HeapEngine show them to be: a name bound to columns, and    *)
(* places for tuples in the order of a scan, where an insert takes any     *)
(* free one.  SQL has no DROP, UPDATE or DELETE (the binder refuses them)  *)
(* and the callers of drop_table are left out, so a table, once created,   *)
(* stays as it is and open_table finds what the binder saw.                *)
(***************************************************************************)
EXTENDS Expression, Parser, FiniteSets

CONSTANTS Thread,
          Texts,          \* what is passed to execute
          TypeNames,      \* the type each name in lower case stands for
          MaxInserts,     \* bound: INSERT statements begun
          MaxRows,        \* bound: places for tuples in a table
          NoTuple, NoStatement

ASSUME BoundsAssumption == MaxInserts \in Nat /\ MaxRows \in Nat

VARIABLES schema,    \* columns of each table, <<>> if there is none
          heap,      \* for each table, the tuple at each place
          running,   \* what each thread runs, or its last answer
          issued     \* history: the INSERT statements begun, in order

vars == <<schema, heap, running, issued>>

\* A text that execute accepts is one statement.
StatementIn(text) ==
  LET parsed == Parse(Lex(text))
  IN IF parsed.ok /\ Len(parsed.tree) = 1 THEN {parsed.tree[1]} ELSE {}

Statements == UNION {StatementIn(text) : text \in Texts}

Of(kind) == {stmt \in Statements : stmt.kind = kind}

TableName == {stmt.table : stmt \in Statements}

Place == 1..MaxRows

Stored(table) == {p \in Place : heap[table][p] # NoTuple}

\* A stored row is named by its INSERT statement and its place in VALUES.
RowAt(table, p) == <<heap[table][p].insert, heap[table][p].nth>>
RowsOf(table) == {RowAt(table, p) : p \in Stored(table)}

-----------------------------------------------------------------------------
(* Binding of statements. *)

UniqueNames(names) == \A i, j \in DOMAIN names : SameName(names[i], names[j]) => i = j

\* The columns of a CREATE TABLE; keys and UNIQUE are not enforced.
BindCreate(create) ==
  LET columns == create.columns
      Type(c) == TypeNames[LowerText(c.type.name)]
  IN  IF /\ UniqueNames([i \in DOMAIN columns |-> columns[i].name])
         /\ \A c \in ToSet(columns) : LowerText(c.type.name) \in DOMAIN TypeNames
      THEN {[i \in DOMAIN columns |-> [name |-> columns[i].name, type |-> Type(columns[i]),
                                      nullable |-> ~columns[i].not_null]]}
      ELSE {}

\* The columns an INSERT names, or all of them.
Targets(insert, columns) ==
  IF insert.columns = <<>> THEN columns
  ELSE [k \in DOMAIN insert.columns |->
          CHOOSE c \in ToSet(columns) : SameName(c.name, insert.columns[k])]

\* The literals of one row bound each to the type of its target; there may be
\* no other expressions.
BindRow(row, targets) ==
  LET Bound(i) == IF row[i].kind = "literal"
                  THEN CoerceLiteral(row[i].literal, targets[i].type, targets[i].nullable) ELSE {}
  IN  {values \in [DOMAIN row -> UNION {Bound(i) : i \in DOMAIN row}] :
         \A i \in DOMAIN row : values[i] \in Bound(i)}

\* The rows of values of an INSERT, if the binder accepts it.
BindInsert(insert) ==
  LET columns == schema[insert.table]
      Named(name) == \E c \in ToSet(columns) : SameName(c.name, name)
      targets == Targets(insert, columns)
      BoundRow(k) == BindRow(insert.rows[k], targets)
  IN  IF /\ columns # <<>>
         /\ \A name \in ToSet(insert.columns) : Named(name)
         /\ UniqueNames(insert.columns)
         /\ \A k \in DOMAIN insert.rows : Len(insert.rows[k]) = Len(targets)
         /\ \A k \in DOMAIN insert.rows : BoundRow(k) # {}
      THEN {[k \in DOMAIN insert.rows |-> CHOOSE values \in BoundRow(k) : TRUE]}
      ELSE {}

BindItem(expr, columns) ==
  IF expr.kind = "star" THEN {Star} ELSE BindExpr(expr, columns)

BindSelect(select) ==
  LET columns == schema[select.table]
      Bound(k) == BindItem(select.items[k].expr, columns)
      Where(k) == {e \in BindExpr(select.where[k], columns) : e.type = "bool"}
  IN  IF /\ columns # <<>>
         /\ \A k \in DOMAIN select.items : Bound(k) # {}
         /\ \A k \in DOMAIN select.where : Where(k) # {}
      THEN {[items |-> [k \in DOMAIN select.items |-> CHOOSE e \in Bound(k) : TRUE],
             where |-> [k \in DOMAIN select.where |-> CHOOSE e \in Where(k) : TRUE]]}
      ELSE {}

-----------------------------------------------------------------------------
(* Statements. *)

Init ==
  /\ schema = [t \in TableName |-> <<>>]
  /\ heap = [t \in TableName |-> [p \in Place |-> NoTuple]]
  /\ running = [th \in Thread |-> NoStatement]
  /\ issued = <<>>

\* A thread whose last statement is over.
Idle(th) == IF running[th] = NoStatement THEN TRUE ELSE running[th].kind = "answer"

\* CREATE TABLE of a name that is free, with a column at least.  With or
\* without IF NOT EXISTS, another one changes nothing.
CreateTable(th) ==
  /\ Idle(th)
  /\ \E create \in Of("create") : \E columns \in BindCreate(create) :
       /\ columns # <<>>
       /\ schema[create.table] = <<>>
       /\ schema' = [schema EXCEPT ![create.table] = columns]
  /\ running' = [running EXCEPT ![th] = NoStatement]
  /\ UNCHANGED <<heap, issued>>

BeginInsert(th) ==
  /\ Idle(th)
  /\ Len(issued) < MaxInserts
  /\ \E insert \in Of("insert") : \E rows \in BindInsert(insert) :
       /\ issued' = Append(issued, [table |-> insert.table, columns |-> insert.columns,
                                    rows |-> insert.rows, status |-> "running"])
       /\ running' = [running EXCEPT ![th] =
                        [kind |-> "insert", table |-> insert.table, rows |-> rows,
                         next |-> 1, insert |-> Len(issued) + 1]]
  /\ UNCHANGED <<schema, heap>>

\* The INSERT of a thread returns.
Return(th, status) ==
  /\ running' = [running EXCEPT ![th] = NoStatement]
  /\ issued' = [issued EXCEPT ![running[th].insert].status = status]

\* Mutant: one turn of the loop too many.
AfterRowTooFar(th) ==
  IF running[th].next <= Len(running[th].rows)
  THEN running' = [running EXCEPT ![th].next = @ + 1] /\ UNCHANGED issued
  ELSE Return(th, "done")

\* After a row: the next one, or the end of the statement.
AfterRow(th) ==
  IF running[th].next < Len(running[th].rows)
  THEN running' = [running EXCEPT ![th].next = @ + 1] /\ UNCHANGED issued
  ELSE Return(th, "done")

\* One turn of the loop over VALUES.  The values go to the table in the order
\* of the statement, whatever columns it names: the codec compares them with
\* the columns of the table.
InsertRow(th) ==
  /\ running[th] # NoStatement /\ running[th].kind = "insert"
  /\ LET s == running[th] IN
     \E tuple \in Encode(s.rows[s.next], schema[s.table]), p \in Place \ Stored(s.table) :
       heap' = [heap EXCEPT ![s.table][p] =
                  [tuple |-> tuple, insert |-> s.insert, nth |-> s.next]]
  /\ AfterRow(th)
  /\ UNCHANGED schema

\* Mutant: a row that cannot be stored is passed over.
SkipRow(th) ==
  /\ running[th] # NoStatement /\ running[th].kind = "insert"
  /\ AfterRow(th)
  /\ UNCHANGED <<schema, heap>>

\* The codec or the storage engine refuses the row, and the statement ends
\* where it is.
FailInsert(th) ==
  /\ running[th] # NoStatement /\ running[th].kind = "insert"
  /\ Return(th, "failed")
  /\ UNCHANGED <<schema, heap>>

\* open_table and begin_scan.  History: the rows that are there already.
BeginSelect(th) ==
  /\ Idle(th)
  /\ \E select \in Of("select") : \E bound \in BindSelect(select) :
       running' = [running EXCEPT ![th] =
                     [kind |-> "select", select |-> select, bound |-> bound,
                      cursor |-> 0, scanned |-> <<>>, due |-> RowsOf(select.table)]]
  /\ UNCHANGED <<schema, heap, issued>>

Ahead(th) == {p \in Stored(running[th].select.table) : p > running[th].cursor}

\* scan_next and decode, for one tuple.
ScanRow(th) ==
  /\ running[th] # NoStatement /\ running[th].kind = "select"
  /\ Ahead(th) # {}
  /\ LET table == running[th].select.table
         p == CHOOSE q \in Ahead(th) : \A r \in Ahead(th) : q <= r
     IN  \E values \in Decode(heap[table][p].tuple, schema[table]) :
           running' = [running EXCEPT ![th].cursor = p,
                                      ![th].scanned = Append(@, [row |-> RowAt(table, p),
                                                                 values |-> values])]
  /\ UNCHANGED <<schema, heap, issued>>

Kept(where, values) == \A k \in DOMAIN where : AsBool(Eval(where[k], values))

\* Mutant: the first values of the row.
ProjectFirst(items, values) ==
  IF items[1].kind = "star" THEN values ELSE SubSeq(values, 1, Len(items))

\* The values of a row that the select list asks for.
Project(items, values) ==
  FlattenSeq([k \in DOMAIN items |->
                IF items[k].kind = "star" THEN values ELSE <<Eval(items[k], values)>>])

\* The end of the scan; then filter and projection, on rows of this thread.
FinishSelect(th) ==
  /\ running[th] # NoStatement /\ running[th].kind = "select"
  /\ Ahead(th) = {}
  /\ LET s == running[th]
         kept == SelectSeq(s.scanned, LAMBDA r : Kept(s.bound.where, r.values))
     IN  running' = [running EXCEPT ![th] =
                       [kind |-> "answer", select |-> s.select, due |-> s.due,
                        rows |-> [i \in DOMAIN kept |->
                                    [row |-> kept[i].row,
                                     values |-> Project(s.bound.items, kept[i].values)]]]]
  /\ UNCHANGED <<schema, heap, issued>>

\* begin_scan, scan_next or decode fails, and the SELECT with it.
FailSelect(th) ==
  /\ running[th] # NoStatement /\ running[th].kind = "select"
  /\ running' = [running EXCEPT ![th] = NoStatement]
  /\ UNCHANGED <<schema, heap, issued>>

Next ==
  \E th \in Thread :
    \/ CreateTable(th)
    \/ BeginInsert(th) \/ InsertRow(th) \/ FailInsert(th)
    \/ BeginSelect(th) \/ ScanRow(th) \/ FinishSelect(th) \/ FailSelect(th)

Spec == Init /\ [][Next]_vars

-----------------------------------------------------------------------------
(* Properties. *)

Answers == {th \in Thread : running[th] # NoStatement /\ running[th].kind = "answer"}

\* Tables have columns of known types, rows belong to statements that were
\* issued, and a thread runs a statement it bound.
TypeOK ==
  /\ \A t \in TableName : schema[t] \in {<<>>} \cup UNION {BindCreate(c) : c \in Of("create")}
  /\ \A t \in TableName : \A p \in Stored(t) :
       /\ heap[t][p].insert \in DOMAIN issued
       /\ heap[t][p].nth \in DOMAIN issued[heap[t][p].insert].rows
  /\ \A i \in DOMAIN issued : issued[i].status \in {"running", "failed", "done"}
  /\ \A th \in Thread : running[th] # NoStatement =>
       \/ /\ running[th].kind = "insert"
          /\ running[th].next \in DOMAIN running[th].rows
          /\ issued[running[th].insert].status = "running"
       \/ running[th].kind = "select" /\ running[th].cursor \in 0..MaxRows
       \/ running[th].kind = "answer"

\* A table holds only rows of its own columns: every tuple decodes, to values
\* of the declared types, with no NULL in a column that is NOT NULL.  The binder
\* checks an INSERT against the columns the statement names, the executor
\* stores its values in statement order: it is the codec that keeps them out.
StoredRowsFit ==
  \A t \in TableName : \A p \in Stored(t) :
    \E values \in Decode(heap[t][p].tuple, schema[t]) :
      \A i \in DOMAIN values :
        /\ values[i].type = schema[t][i].type
        /\ values[i].null => schema[t][i].nullable

\* An INSERT stores its rows in order, each once, and stops at the first that
\* fails: what it leaves is the first rows of VALUES, all of them if execute
\* reported success (the loop in InsertExecNode::open), whatever other threads
\* insert between two of its rows.
InsertsLeavePrefixes ==
  \A i \in DOMAIN issued :
    LET places == {p \in Stored(issued[i].table) : heap[issued[i].table][p].insert = i}
        stored == {heap[issued[i].table][p].nth : p \in places}
    IN  /\ Cardinality(places) = Cardinality(stored)
        /\ stored = 1..Cardinality(stored)
        /\ issued[i].status = "done" => stored = DOMAIN issued[i].rows

\* The literals a row was given, in statement order, which is the order they
\* are stored in; InsertsByName is about a list that names another order.
Given(row) ==
  LET exprs == issued[row[1]].rows[row[2]] IN [i \in DOMAIN exprs |-> exprs[i].literal]

\* A SELECT returns no row twice, every row that was there when it began and
\* for which SQL calls the predicate true, and no other row: through coercion
\* of literals, encoding, a scan that runs beside inserts, decoding, comparison
\* by type and the filter, which takes unknown for false at every level.
SelectsAreExact ==
  \A th \in Answers :
    LET a == running[th]
        found == {a.rows[i].row : i \in DOMAIN a.rows}
        Holds(row) == \A k \in DOMAIN a.select.where :
                        Truth(a.select.where[k], Given(row), schema[a.select.table]) = "true"
    IN  /\ Cardinality(found) = Len(a.rows)
        /\ {row \in a.due : Holds(row)} \subseteq found
        /\ \A row \in found : Holds(row)

\* The expressions of a select list, with the columns a star stands for.
Asked(select) ==
  LET columns == schema[select.table]
      all == [i \in DOMAIN columns |-> Col(columns[i].name)]
  IN  FlattenSeq([k \in DOMAIN select.items |->
                    IF select.items[k].expr = Star THEN all ELSE <<select.items[k].expr>>])

\* A returned row has a value for each expression of the select list, in order,
\* and a star stands for all columns of the table (ProjectExecNode): a column
\* shows what the row was given at its place, through encoding and decoding
\* beside inserts of other threads, and a predicate is true exactly if SQL says
\* it is (unknown is shown as false).
AnswersShowRows ==
  \A th \in Answers :
    LET a == running[th]
        columns == schema[a.select.table]
        asked == Asked(a.select)
        Right(expr, value, given) ==
          CASE expr.kind = "column" ->
                 LET i == Attnum(expr.name, columns) IN Shows(value, given[i], columns[i].type)
            [] expr.kind = "literal" -> Shows(value, expr.literal, value.type)
            [] expr.kind = "binary" -> AsBool(value) <=> Truth(expr, given, columns) = "true"
    IN  \A i \in DOMAIN a.rows :
          LET values == a.rows[i].values
          IN  /\ Len(values) = Len(asked)
              /\ \A k \in DOMAIN asked : Right(asked[k], values[k], Given(a.rows[i].row))

\* An INSERT that names columns stores each value in the column it names for
\* it; only an empty list means the order of the table (ast.hpp:109, "empty =
\* positional"; bind_insert resolves the names, InsertExecNode::open stores).
InsertsByName ==
  \A t \in TableName : \A p \in Stored(t) : \A values \in Decode(heap[t][p].tuple, schema[t]) :
    LET insert == issued[heap[t][p].insert]
        row == insert.rows[heap[t][p].nth]
    IN  \A k \in DOMAIN insert.columns :
          LET i == Attnum(insert.columns[k], schema[t])
          IN  {values[i]} = CoerceLiteral(row[k].literal, schema[t][i].type, TRUE)
=============================================================================
