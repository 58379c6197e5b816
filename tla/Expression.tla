----------------------------- MODULE Expression -----------------------------
(***************************************************************************)
(* Expressions of SELECT: how the binder types them (query/binder.cpp) and *)
(* how the executor evaluates them on a row (query/exec.cpp), with what    *)
(* SQL says of a predicate as the reference.                               *)
(*                                                                         *)
(* A literal is [kind, text], its text as literal_text gives it.           *)
(***************************************************************************)
EXTENDS RowCodec

LogicalOps == {"and", "or"}

-----------------------------------------------------------------------------
(* Binding. *)

\* NULL has no type of its own.
InferredType(literal) ==
  CASE literal.kind = "null" -> {}
    [] literal.kind = "int"  -> {"int64"}
    [] literal.kind = "str"  -> {"text"}
    [] literal.kind = "bool" -> {"bool"}

CoerceLiteral(literal, type, nullable) ==
  IF literal.kind = "null"
  THEN IF nullable THEN {NullOf(type)} ELSE {}
  ELSE {Value(type, bytes) : bytes \in FromText(type, literal.text)}

BoundLiterals(literal, types) ==
  UNION {{[kind |-> "literal", type |-> type, value |-> value] :
            value \in CoerceLiteral(literal, type, TRUE)} : type \in types}

\* Names are compared in lower case.
SameName(one, other) == LowerText(one) = LowerText(other)

BoundColumns(name, columns) ==
  {[kind |-> "column", type |-> columns[i].type, attnum |-> i] :
     i \in {j \in DOMAIN columns : SameName(columns[j].name, name)}}

\* A comparison of two types binds a literal again, to the type of the other
\* side: the left one when both are literals.
BindBinary(expr, left, right) ==
  LET differ == left.type # right.type
      lefts == IF differ /\ expr.left.kind = "literal"
               THEN BoundLiterals(expr.left.literal, {right.type}) ELSE {left}
      rights == IF differ /\ expr.left.kind # "literal" /\ expr.right.kind = "literal"
                THEN BoundLiterals(expr.right.literal, {left.type}) ELSE {right}
      Bound(l, r) == [kind |-> "binary", type |-> "bool", op |-> expr.op,
                      left |-> l, right |-> r]
  IN  IF expr.op \in LogicalOps
      THEN {Bound(l, r) : l \in {x \in {left} : x.type = "bool"},
                          r \in {x \in {right} : x.type = "bool"}}
      ELSE UNION {{Bound(l, r) : r \in {x \in rights : x.type = l.type}} : l \in lefts}

RECURSIVE BindExpr(_, _)
BindExpr(expr, columns) ==
  CASE expr.kind = "literal" -> BoundLiterals(expr.literal, InferredType(expr.literal))
    [] expr.kind = "column"  -> BoundColumns(expr.name, columns)
    [] expr.kind = "binary"  ->
         UNION {BindBinary(expr, left, right) :
                  left \in BindExpr(expr.left, columns),
                  right \in BindExpr(expr.right, columns)}

-----------------------------------------------------------------------------
(* Evaluation. *)

BoolValue(b) == Value("bool", IF b THEN <<1>> ELSE <<0>>)

\* NULL has no bytes, and is not true.
AsBool(value) == value.bytes = <<1>>

\* Mutant: NULL is a value that differs from all others.
CompareNulls(op, left, right) ==
  IF left.null \/ right.null THEN op = "ne"
  ELSE LET less == Less(left.type, left.bytes, right.bytes)
           greater == Less(left.type, right.bytes, left.bytes)
       IN  CASE op = "eq" -> ~less /\ ~greater
             [] op = "ne" -> less \/ greater
             [] op = "lt" -> less
             [] op = "le" -> ~greater
             [] op = "gt" -> greater
             [] op = "ge" -> ~less

Compare(op, left, right) ==
  LET less == Less(left.type, left.bytes, right.bytes)
      greater == Less(left.type, right.bytes, left.bytes)
  IN  /\ ~left.null /\ ~right.null
      /\ CASE op = "eq" -> ~less /\ ~greater
           [] op = "ne" -> less \/ greater
           [] op = "lt" -> less
           [] op = "le" -> ~greater
           [] op = "gt" -> greater
           [] op = "ge" -> ~less

RECURSIVE Eval(_, _)
Eval(expr, row) ==
  CASE expr.kind = "literal" -> expr.value
    [] expr.kind = "column"  -> row[expr.attnum]
    [] expr.kind = "binary"  ->
         LET left == Eval(expr.left, row)
             right == Eval(expr.right, row)
         IN  BoolValue(CASE expr.op = "and" -> AsBool(left) /\ AsBool(right)
                         [] expr.op = "or"  -> AsBool(left) \/ AsBool(right)
                         [] OTHER -> Compare(expr.op, left, right))

-----------------------------------------------------------------------------
(* The reference: the truth of a predicate in SQL's three-valued logic, from *)
(* the literals a row was given, without bytes or tuples.  A comparison has  *)
(* a column on one side at least; it compares in the type of that column.    *)

Unknown == "unknown"

\* What a literal other than NULL means in a column of the type.
Meaning(literal, type) ==
  IF type \in IntTypes THEN Spelled(literal.text) ELSE literal.text

\* A value of the type is what the literal means.
Shows(value, literal, type) ==
  IF literal.kind = "null" THEN value = NullOf(type)
  ELSE /\ value.type = type /\ ~value.null
       /\ LET meaning == Meaning(literal, type)
          IN  CASE type \in IntTypes -> Signed(value.bytes) = meaning
                [] type = "bool" -> value.bytes = IF meaning = TrueText THEN <<1>> ELSE <<0>>
                [] type = "text" -> value.bytes = meaning

Before(type, l, r) ==
  CASE type \in IntTypes -> l < r
    [] type = "bool" -> l = FalseText /\ r = TrueText
    [] type = "text" -> TextLess(l, r)

Related(op, type, l, r) ==
  CASE op = "eq" -> l = r
    [] op = "ne" -> l # r
    [] op = "lt" -> Before(type, l, r)
    [] op = "le" -> l = r \/ Before(type, l, r)
    [] op = "gt" -> Before(type, r, l)
    [] op = "ge" -> l = r \/ Before(type, r, l)

Attnum(name, columns) == CHOOSE i \in DOMAIN columns : SameName(columns[i].name, name)

\* "true", "false" or "unknown".
RECURSIVE Truth(_, _, _)
Truth(expr, given, columns) ==
  LET side == {expr.left, expr.right}
      ColumnType(e) == columns[Attnum(e.name, columns)].type
      type == CHOOSE t \in {ColumnType(e) : e \in {s \in side : s.kind = "column"}} : TRUE
      Literal(e) == IF e.kind = "column" THEN given[Attnum(e.name, columns)] ELSE e.literal
      Operand(e) == Meaning(Literal(e), type)
      truths == {Truth(e, given, columns) : e \in side}
      Word(b) == IF b THEN "true" ELSE "false"
  IN  IF expr.kind = "column"
      THEN IF Literal(expr).kind = "null" THEN Unknown
           ELSE Word(Literal(expr).text = TrueText)
      ELSE CASE expr.op = "and" -> IF "false" \in truths THEN "false"
                                   ELSE IF Unknown \in truths THEN Unknown ELSE "true"
             [] expr.op = "or"  -> IF "true" \in truths THEN "true"
                                   ELSE IF Unknown \in truths THEN Unknown ELSE "false"
             [] OTHER -> IF \E e \in side : Literal(e).kind = "null" THEN Unknown
                         ELSE Word(Related(expr.op, type, Operand(expr.left),
                                           Operand(expr.right)))
=============================================================================
