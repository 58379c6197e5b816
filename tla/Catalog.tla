------------------------------ MODULE Catalog -------------------------------
(***************************************************************************)
(* Catalog (src/catalog/catalog.cpp): the system tables, the caches over   *)
(* them, and the user tables that are open.  Every public call holds the   *)
(* catalog's latch, so a call is one action, with every point at which one *)
(* of its inserts, deletes, opens or closes may fail.                      *)
(*                                                                         *)
(* A system table is a sequence of cells, a cell for each row that was     *)
(* ever inserted: the row, whether it is there now, and what the file may  *)
(* say of it until the engine has flushed.  edb_index has an engine and    *)
(* never a row.  What the file of a user table holds is not modelled: a    *)
(* drop leaves it, and a table that gets the oid again is opened over it.  *)
(*                                                                         *)
(* A call that fails and changes nothing is a stuttering step.  Callers    *)
(* open a closed catalog only, and after a close that failed they call     *)
(* nothing but close.                                                      *)
(***************************************************************************)
EXTENDS Integers, Sequences, FiniteSetsExt

CONSTANTS
  SystemName,         \* the names of the system tables, in the order of their oids
  SystemAttributes,   \* the rows of edb_attribute for them, in order
  TypeName,           \* the built-in types, in the order they are bootstrapped
  Name,               \* names for user tables
  Column,             \* what edb_attribute says of a column
  Columns,            \* column lists for user tables
  MaxRows             \* bound on the rows of edb_class, dead ones included

SystemTable == {"type", "class", "attribute"}
SystemEngine == SystemTable \cup {"index"}
SystemOid == 1 .. Len(SystemName)
Oid == 1 .. Len(SystemName) + MaxRows
AllNames == Name \cup Range(SystemName)

ASSUME MaxRowsAssumption == MaxRows \in Nat
ASSUME ColumnsAssumption == Columns \subseteq Seq(Column) \ {<<>>}
ASSUME TypeNameAssumption == TypeName \in Seq(Range(TypeName)) /\ TypeName # <<>>
ASSUME SystemNameAssumption ==
  /\ SystemName \in Seq(Range(SystemName))
  /\ \A i, j \in SystemOid : SystemName[i] = SystemName[j] => i = j
ASSUME SystemAttributesAssumption ==
  SystemAttributes \in Seq([attrelid : SystemOid, attnum : Nat, column : Column])

VARIABLES
  opened,
  engines,           \* the system tables whose engine is open
  heap,              \* the cells of each system table
  type_cache,        \* names
  class_cache,       \* rows of edb_class
  attribute_cache,   \* per oid: the columns, <<>> if not cached
  user_tables,       \* per oid: the columns of the open table, <<>> if none
  torn,              \* has close failed, leaving table handles reset?
  created,           \* per oid: what create_table promised and no drop undid
  clean              \* has every catalog that changed a table, or was open,
                     \* been closed with success?

cacheVars == <<type_cache, class_cache, attribute_cache>>
ghostVars == <<created, clean>>
vars == <<opened, engines, heap, cacheVars, user_tables, torn, ghostVars>>

NoTables == [oid \in Oid |-> <<>>]

Init ==
  /\ opened = FALSE
  /\ engines = {}
  /\ heap = [t \in SystemTable |-> <<>>]
  /\ type_cache = {}
  /\ class_cache = {}
  /\ attribute_cache = NoTables
  /\ user_tables = NoTables
  /\ torn = FALSE
  /\ created = NoTables
  /\ clean = TRUE

(***************************************************************************)
(* System tables: Table::insert, Table::scan_rows, delete_tuple, and what  *)
(* a flush and a new engine do to them.                                    *)
(***************************************************************************)
Cell(row) == [row |-> row, live |-> TRUE, file |-> {TRUE, FALSE}]

Inserted(cells, rows) == cells \o [i \in DOMAIN rows |-> Cell(rows[i])]

\* The rows at the positions are deleted.
Deleted(cells, positions) ==
  [i \in DOMAIN cells |->
     IF i \in positions
     THEN [cells[i] EXCEPT !.live = FALSE, !.file = @ \cup {FALSE}]
     ELSE cells[i]]

\* The file and the engine agree: the row is there, or it is not.
Settled(cell, there) == [cell EXCEPT !.live = there, !.file = {there}]

Flushed(cells) == [i \in DOMAIN cells |-> Settled(cells[i], cells[i].live)]

\* What a new engine may find in the file.
Reloads(cells) ==
  LET found == {f \in [DOMAIN cells -> BOOLEAN] :
                  \A i \in DOMAIN cells : f[i] \in cells[i].file}
  IN {[i \in DOMAIN cells |-> Settled(cells[i], f[i])] : f \in found}

LivePositions(h, t) == {i \in DOMAIN h[t] : h[t][i].live}
Rows(h, t) == {h[t][i].row : i \in LivePositions(h, t)}

ClassRow(oid, name, relkind) == [oid |-> oid, name |-> name, relkind |-> relkind]

AttributeRows(oid, columns) ==
  [i \in DOMAIN columns |->
     [attrelid |-> oid, attnum |-> i, column |-> columns[i]]]

\* The rows of edb_attribute for oid, as positions in scan order.
AttributePositions(h, oid) ==
  {i \in LivePositions(h, "attribute") : h["attribute"][i].row.attrelid = oid}

\* The positions that the sort by attnum puts before position i.  Rows with
\* one attnum, which only sessions without a close can leave, stay in scan order.
SortedBefore(h, oid, i) ==
  LET Attnum(k) == h["attribute"][k].row.attnum
  IN {j \in AttributePositions(h, oid) :
        Attnum(j) < Attnum(i) \/ (Attnum(j) = Attnum(i) /\ j < i)}

\* The columns in the order of their attnum.
ColumnsOf(h, oid) ==
  LET at == AttributePositions(h, oid)
      Ranked(k) == CHOOSE i \in at : Cardinality(SortedBefore(h, oid, i)) = k - 1
  IN [k \in 1 .. Cardinality(at) |-> h["attribute"][Ranked(k)].row.column]

(***************************************************************************)
(* open: the four engines are opened, over whatever the last ones left in  *)
(* the files, and the system tables are filled if edb_class is empty.      *)
(***************************************************************************)
OpenOrder == <<"type", "class", "attribute", "index">>

BootstrapRows ==
  [type |-> TypeName,
   class |-> [i \in DOMAIN SystemName |-> ClassRow(i, SystemName[i], "system")],
   attribute |-> SystemAttributes]

BootstrapSize(t) == Len(BootstrapRows[t])

\* The first n of the rows that bootstrap_catalog inserts.
Bootstrapped(h, n) ==
  LET typed == Min({n, BootstrapSize("type")})
      classed == Min({n - typed, BootstrapSize("class")})
      done == [type |-> typed, class |-> classed, attribute |-> n - typed - classed]
  IN [t \in SystemTable |-> Inserted(h[t], SubSeq(BootstrapRows[t], 1, done[t]))]

AllBootstrapRows ==
  BootstrapSize("type") + BootstrapSize("class") + BootstrapSize("attribute")

FirstOf(order, n) == {order[i] : i \in 1 .. n}

\* What table t may hold once the first n tables have new engines.
Found(t, n) ==
  IF t \in FirstOf(OpenOrder, n) THEN Reloads(heap[t]) ELSE {heap[t]}

\* Mutant: the error is not returned.
OpenGoesOn ==
  /\ \E n \in 0 .. 4 : engines' = engines \cup FirstOf(OpenOrder, n)
  /\ opened' = TRUE
  /\ UNCHANGED heap

\* The engine of the table after the first n could not be opened, or, after
\* all of them, edb_class could not be scanned or the first row not inserted.
OpenFails ==
  \E n \in 0 .. 4 :
    \E ty \in Found("type", n), cl \in Found("class", n), at \in Found("attribute", n) :
      /\ heap' = [type |-> ty, class |-> cl, attribute |-> at]
      /\ engines' = engines \cup FirstOf(OpenOrder, n)
      /\ opened' = FALSE

\* bootstrap_if_needed, once it has scanned edb_class: nothing to do, or it
\* fails after n inserts, or it completes.
Bootstrap(h) ==
  IF Rows(h, "class") # {}
  THEN /\ heap' = h
       /\ opened' = TRUE
       /\ UNCHANGED clean
  ELSE \E n \in 1 .. AllBootstrapRows :
         /\ heap' = Bootstrapped(h, n)
         /\ opened' = (n = AllBootstrapRows)
         /\ clean' = (clean /\ n = AllBootstrapRows)

Open ==
  /\ ~opened
  /\ ~torn
  /\ \/ OpenFails /\ UNCHANGED clean
     \/ /\ \E ty \in Reloads(heap["type"]), cl \in Reloads(heap["class"]),
             at \in Reloads(heap["attribute"]) :
            Bootstrap([type |-> ty, class |-> cl, attribute |-> at])
        /\ engines' = SystemEngine
  /\ UNCHANGED <<cacheVars, user_tables, torn, created>>

(***************************************************************************)
(* close, in the order of the code: user tables, then edb_index,           *)
(* edb_attribute, edb_class and edb_type.  A table whose flush fails has   *)
(* lost its engine all the same, and the next close takes it for closed.   *)
(***************************************************************************)
CloseOrder == <<"index", "attribute", "class", "type">>

\* Mutant: edb_attribute is forgotten.
FlushedWithoutAttributes(done) ==
  [t \in SystemTable |-> IF t \in (done \cap engines) \ {"attribute"}
                         THEN Flushed(heap[t]) ELSE heap[t]]

\* The system tables after those in "done" were flushed.
FlushedTables(done) ==
  [t \in SystemTable |-> IF t \in done \cap engines THEN Flushed(heap[t])
                         ELSE heap[t]]

CloseSucceeds ==
  /\ heap' = FlushedTables(SystemTable)
  /\ engines' = {}
  /\ type_cache' = {}
  /\ class_cache' = {}
  /\ attribute_cache' = NoTables
  /\ user_tables' = NoTables
  /\ opened' = FALSE
  /\ torn' = FALSE
  /\ UNCHANGED ghostVars

\* A user table fails to close.
CloseUserTablesFails ==
  /\ user_tables # NoTables
  /\ torn' = TRUE
  /\ clean' = FALSE
  /\ UNCHANGED <<opened, engines, heap, cacheVars, user_tables, created>>

CloseSystemTablesFails ==
  \E n \in 1 .. 4 :
    /\ CloseOrder[n] \in engines
    /\ heap' = FlushedTables(FirstOf(CloseOrder, n - 1))
    /\ engines' = engines \ FirstOf(CloseOrder, n)
    /\ user_tables' = NoTables
    /\ torn' = TRUE
    /\ clean' = FALSE
    /\ UNCHANGED <<opened, cacheVars, created>>

Close == CloseSucceeds \/ CloseUserTablesFails \/ CloseSystemTablesFails

\* The catalog is destroyed without a successful close; no engine flushes.
Destroy ==
  /\ opened \/ engines # {}
  /\ opened' = FALSE
  /\ engines' = {}
  /\ type_cache' = {}
  /\ class_cache' = {}
  /\ attribute_cache' = NoTables
  /\ user_tables' = NoTables
  /\ torn' = FALSE
  /\ clean' = (clean /\ ~opened)
  /\ UNCHANGED <<heap, created>>

(***************************************************************************)
(* Lookups, which fill the caches.                                         *)
(***************************************************************************)
Usable == opened /\ ~torn

\* The row get_class returns: a cached one, else the first in scan order.
ClassesNamed(name) ==
  LET cached == {row \in class_cache : row.name = name}
      found == {i \in LivePositions(heap, "class") : heap["class"][i].row.name = name}
  IN IF cached # {} THEN cached
     ELSE IF found # {} THEN {heap["class"][Min(found)].row}
     ELSE {}

GetType(name) ==
  /\ Usable
  /\ name \in Rows(heap, "type")
  /\ type_cache' = type_cache \cup {name}
  /\ UNCHANGED <<opened, engines, heap, class_cache, attribute_cache,
                 user_tables, torn, ghostVars>>

GetClass(name) ==
  /\ Usable
  /\ class_cache' = class_cache \cup ClassesNamed(name)
  /\ UNCHANGED <<opened, engines, heap, type_cache, attribute_cache,
                 user_tables, torn, ghostVars>>

\* The columns get_attributes returns, <<>> for NotFound.
AttributesOf(cache, h, oid) ==
  IF cache[oid] # <<>> THEN cache[oid] ELSE ColumnsOf(h, oid)

GetAttributes(oid) ==
  /\ Usable
  /\ attribute_cache' = [attribute_cache EXCEPT ![oid] =
                            AttributesOf(attribute_cache, heap, oid)]
  /\ UNCHANGED <<opened, engines, heap, type_cache, class_cache,
                 user_tables, torn, ghostVars>>

\* ensure_user_table_open, given the cache and the tables the caller leaves:
\* nothing to do, no attributes, a scan of edb_attribute that fails, or a
\* backend or engine that does not open.
EnsureUserTableOpen(cache, h, oid, succeeds) ==
  LET columns == AttributesOf(cache, h, oid)
  IN IF user_tables[oid] # <<>>
     THEN /\ succeeds
          /\ attribute_cache' = cache
          /\ UNCHANGED user_tables
     ELSE \/ /\ succeeds
             /\ columns # <<>>
             /\ attribute_cache' = [cache EXCEPT ![oid] = columns]
             /\ user_tables' = [user_tables EXCEPT ![oid] = columns]
          \/ /\ ~succeeds
             /\ \/ attribute_cache' = [cache EXCEPT ![oid] = columns]
                \/ cache[oid] = <<>> /\ attribute_cache' = cache
             /\ UNCHANGED user_tables

OpenTable(name) ==
  /\ Usable
  /\ \E class \in ClassesNamed(name), succeeds \in BOOLEAN :
       /\ class_cache' = class_cache \cup {class}
       /\ EnsureUserTableOpen(attribute_cache, heap, class.oid, succeeds)
  /\ UNCHANGED <<opened, engines, heap, type_cache, torn, ghostVars>>

(***************************************************************************)
(* create_table and drop_table.                                            *)
(***************************************************************************)
\* Mutant: the relations are counted.
RelationCount == Cardinality(Rows(heap, "class")) + 1

NextRelationOid == Max({0} \cup {row.oid : row \in Rows(heap, "class")}) + 1

\* Mutant: nothing is invalidated.
WithClass(name) == class_cache

\* invalidate_class_cache
WithoutClass(name) == {row \in class_cache : row.name # name}

\* The catalog tables after the class row and n attribute rows of a relation.
Registered(oid, name, columns, n) ==
  [heap EXCEPT !["class"] = Inserted(@, <<ClassRow(oid, name, "table")>>),
               !["attribute"] = Inserted(@, SubSeq(AttributeRows(oid, columns), 1, n))]

\* The insert of an attribute row fails: the class row and the attribute rows
\* before it stay.
CreateFails(oid, name, columns) ==
  \E n \in 0 .. Len(columns) - 1 :
    /\ heap' = Registered(oid, name, columns, n)
    /\ UNCHANGED <<class_cache, attribute_cache, user_tables, created>>

\* All rows are in; the table may still fail to open.
CreateCompletes(oid, name, columns) ==
  \E succeeds \in BOOLEAN :
    /\ heap' = Registered(oid, name, columns, Len(columns))
    /\ class_cache' = WithoutClass(name)
    /\ EnsureUserTableOpen([attribute_cache EXCEPT ![oid] = <<>>], heap', oid, succeeds)
    /\ created' = [created EXCEPT ![oid] = IF succeeds THEN columns ELSE @]

CreateTable(name, columns) ==
  /\ Usable
  /\ ClassesNamed(name) = {}
  /\ Len(heap["class"]) < Len(SystemName) + MaxRows
  /\ NextRelationOid \in Oid
  /\ \/ CreateFails(NextRelationOid, name, columns)
     \/ CreateCompletes(NextRelationOid, name, columns)
  /\ UNCHANGED <<opened, engines, type_cache, torn, clean>>

\* create_table of a name that is taken leaves it cached (AlreadyExists): that
\* is GetClass.

\* The first n of the attribute rows of oid, in scan order.
FirstAttributes(oid, n) ==
  LET at == AttributePositions(heap, oid)
  IN {i \in at : Cardinality({j \in at : j < i}) < n}

\* Mutant: the last attribute row is left.
WithoutAttributesButLast(oid, n) ==
  [heap EXCEPT !["attribute"] = Deleted(@, FirstAttributes(oid, n - 1))]

\* The first n of the attribute rows that drop_table found are deleted.
WithoutAttributes(oid, n) ==
  [heap EXCEPT !["attribute"] = Deleted(@, FirstAttributes(oid, n))]

DropFails(oid) ==
  \E n \in 1 .. Cardinality(AttributePositions(heap, oid)) :
    /\ heap' = WithoutAttributes(oid, n)
    /\ UNCHANGED <<class_cache, attribute_cache, user_tables>>

DropCompletes(oid, position) ==
  /\ heap' = [WithoutAttributes(oid, Cardinality(AttributePositions(heap, oid)))
                 EXCEPT !["class"] = Deleted(@, {position})]
  /\ user_tables' = [user_tables EXCEPT ![oid] = <<>>]
  /\ class_cache' = WithoutClass(heap["class"][position].row.name)
  /\ attribute_cache' = [attribute_cache EXCEPT ![oid] = <<>>]

DropTable(oid) ==
  /\ Usable
  /\ LET found == {i \in LivePositions(heap, "class") : heap["class"][i].row.oid = oid}
     IN /\ found # {}
        /\ heap["class"][Min(found)].row.relkind = "table"
        /\ DropFails(oid) \/ DropCompletes(oid, Min(found))
  /\ created' = [created EXCEPT ![oid] = <<>>]
  /\ UNCHANGED <<opened, engines, type_cache, torn, clean>>

Next ==
  \/ Open
  \/ Close
  \/ Destroy
  \/ \E name \in Range(TypeName) : GetType(name)
  \/ \E name \in AllNames : GetClass(name) \/ OpenTable(name)
  \/ \E oid \in Oid : GetAttributes(oid) \/ DropTable(oid)
  \/ \E name \in Name, columns \in Columns : CreateTable(name, columns)

Spec == Init /\ [][Next]_vars

(***************************************************************************)
(* Properties.                                                             *)
(***************************************************************************)

TypeOK ==
  /\ opened \in BOOLEAN
  /\ engines \subseteq SystemEngine
  /\ opened /\ ~torn => engines = SystemEngine
  /\ \A t \in SystemTable : \A i \in DOMAIN heap[t] :
       heap[t][i].live \in BOOLEAN /\ heap[t][i].file \subseteq BOOLEAN
  /\ \A row \in Rows(heap, "class") : row.oid \in Oid /\ row.name \in AllNames
  /\ type_cache \subseteq Range(TypeName)
  /\ DOMAIN attribute_cache = Oid
  /\ DOMAIN user_tables = Oid

Known(oid) == \E row \in Rows(heap, "class") : row.oid = oid

\* The catalog keeps no metadata of a relation that edb_class does not have: no
\* attribute row, no cached columns, no open table, so a table that gets an oid
\* again has its own columns only, whichever creates and drops failed half way
\* before (create_table and drop_table, catalog.cpp:561-624, 662-703).  It
\* speaks of histories in which no catalog was left without a successful close,
\* and not of the rows in the file of the table that had the oid before: those
\* stay, and the new table has them.
NoMetadataWithoutClass ==
  clean /\ Usable =>
    \A oid \in Oid :
      \/ Known(oid)
      \/ /\ AttributePositions(heap, oid) = {}
         /\ attribute_cache[oid] = <<>>
         /\ user_tables[oid] = <<>>

\* Names and oids stay unique in edb_class, whichever creates, drops, opens of
\* the catalog and opens of tables failed before and whatever the cache that
\* create_table consults holds (catalog.cpp:542-598), as long as no catalog was
\* left without a successful close and no bootstrap stopped half way.
ClassesAreUnique ==
  clean /\ Usable =>
    \A i, j \in LivePositions(heap, "class") :
      LET a == heap["class"][i].row
          b == heap["class"][j].row
      IN a.oid = b.oid \/ a.name = b.name => i = j

\* A cached class is a row of edb_class, and an open table has one, even after
\* sessions that ended without a close and left any mixture of rows behind, and
\* after drops that failed half way (catalog.cpp:483-508, 662-703, 745-756).
ClassCacheCurrent ==
  Usable =>
    /\ class_cache \subseteq Rows(heap, "class")
    /\ \A oid \in Oid : user_tables[oid] # <<>> => Known(oid)

\* A table that create_table has returned, and that nobody tried to drop, is
\* there with exactly its columns, also in later sessions, through the failed
\* creates and drops of other tables (catalog.cpp:510-624).  Like the two above
\* it is about histories without a session that was not closed; a table whose
\* drop failed half way (its columns may then be cached or open though their
\* rows are gone) and the rows in the tables are outside it.
CreatedTablesIntact ==
  clean /\ Usable =>
    \A oid \in Oid :
      created[oid] # <<>> =>
        /\ Known(oid)
        /\ AttributesOf(attribute_cache, heap, oid) = created[oid]
        /\ ColumnsOf(heap, oid) = created[oid]
        /\ user_tables[oid] \in {<<>>, created[oid]}

\* An open catalog has the classes and the attributes of the system tables.
SystemCatalogComplete ==
  Usable =>
    \A t \in SystemTable : Range(BootstrapRows[t]) \subseteq Rows(heap, t)
=============================================================================
