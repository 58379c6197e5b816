----------------------------- MODULE MCCatalog ------------------------------
(* Catalog for TLC: two system tables of one column, one type, and tables   *)
(* of one or two columns.                                                   *)
EXTENDS Catalog, TLC

CONSTANTS s1, s2, t1, c, d

SystemNames == <<s1, s2>>
OneColumnEach == AttributeRows(1, <<c>>) \o AttributeRows(2, <<c>>)
OneType == <<t1>>
ColumnLists == {<<c>>, <<c, d>>}

\* Only user tables are looked up: what the caches hold of system tables does
\* not change, and is looked at in one step.
UserLookups ==
  /\ type_cache = {}
  /\ \A row \in class_cache : row.name \in Name
  /\ \A oid \in SystemOid : attribute_cache[oid] = <<>> /\ user_tables[oid] = <<>>

\* Sessions that ended with a successful close are followed with all names and
\* column lists.  After one that did not, with one table of one column, and as
\* long as repeated bootstraps, which add rows without end, have added few.
Bounded ==
  \/ clean
  \/ /\ Len(heap["type"]) <= 2
     /\ Len(heap["class"]) <= 4
     /\ Len(heap["attribute"]) <= 4
     /\ \A i, j \in DOMAIN heap["class"] :
          LET x == heap["class"][i].row
              y == heap["class"][j].row
          IN x.name \in Name /\ y.name \in Name => x.name = y.name
     /\ \A i \in DOMAIN heap["attribute"] : heap["attribute"][i].row.column = c

NameSymmetry == Permutations(Name)
=============================================================================
