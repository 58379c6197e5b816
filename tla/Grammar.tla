------------------------------ MODULE Grammar -------------------------------
(***************************************************************************)
(* What the parser is to compute, without its loops: the trees that a      *)
(* grammar gives to a sequence of tokens.                                  *)
(*                                                                         *)
(* With Forms = {"not"} the grammar is the one that query/parser.hpp       *)
(* documents (:11-22, and :40-41 for a script).  The other forms are not   *)
(* in it:                                                                  *)
(*   "empty list"    nothing between the parentheses of a list             *)
(*   "last comma"    a comma after the last element of such a list         *)
(*   "star beside"   a star among other select items                       *)
(*   "empty script"  no statement                                          *)
(* The document says nothing of col_defs; they are as the parser has them. *)
(***************************************************************************)
EXTENDS Parser

CONSTANT Forms   \* the forms there are beside those all grammars here share

-----------------------------------------------------------------------------
(* Trees: for each nonterminal, the trees it gives to the tokens s.  *)

At(s, kind) == {k \in DOMAIN s : s[k].kind = kind}
Left(s, k) == SubSeq(s, 1, k - 1)
Right(s, k) == SubSeq(s, k + 1, Len(s))
Kinds(s) == [k \in DOMAIN s |-> s[k].kind]
StartsWith(s, kinds) == Len(s) >= Len(kinds) /\ Kinds(SubSeq(s, 1, Len(kinds))) = kinds

\* s without parentheses around it.
Inner(s) ==
  IF Len(s) > 1 /\ s[1].kind = "LParen" /\ s[Len(s)].kind = "RParen"
  THEN {SubSeq(s, 2, Len(s) - 1)} ELSE {}

Names(s) == IF Len(s) = 1 /\ s[1].kind = "Identifier" THEN {s[1].text} ELSE {}

\* The literals a token stands for: none if it is another token, or a number
\* that is too large.
Literals(token) ==
  CASE token.kind = "KwNull" -> {Literal("null", <<>>)}
    [] token.kind = "KwTrue" -> {Literal("bool", TrueText)}
    [] token.kind = "KwFalse" -> {Literal("bool", FalseText)}
    [] token.kind = "LitInteger" ->
         {Literal("int", Decimal(token.text)) : n \in {Spelled(token.text)} \cap Representable("int64")}
    [] token.kind = "LitFloat" -> {Literal("float", FloatText(token.text))}
    [] token.kind = "LitString" -> {Literal("str", Unescaped(token.text, 2))}
    [] OTHER -> {}

Leaves(s) ==
  {Col(n) : n \in Names(s)} \cup
  UNION {{Lit(l) : l \in Literals(s[k])} : k \in {j \in DOMAIN s : Len(s) = 1}}

\* Lists of things with separators between them, defined below.
RECURSIVE Lists(_, _, _)

\* Operands with op between them, from the left.
Grouped(op, operands) ==
  FoldLeft(LAMBDA l, r : Bin(op, l, r), Head(operands), Tail(operands))

OrTrees(s) == {Grouped("or", l) : l \in Lists("and", "KwOr", s)}

Primaries(s) == Leaves(s) \cup UNION {OrTrees(e) : e \in Inner(s)}

Not(expr) == [kind |-> "not", operand |-> expr]

CmpTrees(s) ==
  Primaries(s) \cup
  UNION {{Bin(Comparisons[s[k].kind], l, r) : l \in Primaries(Left(s, k)), r \in Primaries(Right(s, k))} :
           k \in {j \in DOMAIN s : s[j].kind \in DOMAIN Comparisons}}

\* No comparison begins with NOT.
NotTrees(s) ==
  LET negated == "not" \in Forms /\ StartsWith(s, <<"KwNot">>)
  IN {IF negated THEN Not(e) ELSE e : e \in CmpTrees(IF negated THEN Tail(s) ELSE s)}

AndTrees(s) == {Grouped("and", l) : l \in Lists("not", "KwAnd", s)}

Stars(s) == IF Kinds(s) = <<"Star">> THEN {Item(Star, <<>>)} ELSE {}

Items(s) ==
  (IF "star beside" \in Forms THEN Stars(s) ELSE {}) \cup
  {Item(e, <<>>) : e \in OrTrees(s)} \cup
  UNION {{Item(e, <<a>>) : e \in OrTrees(Left(s, k)), a \in Names(Right(s, k))} : k \in At(s, "KwAs")}

\* Types are told apart by their words and their parameter.
TypeNames(s) ==
  LET Same(k, word) == s[k].kind = "Identifier" /\ s[k].text \in {word, UpperText(word)}
  IN CASE Len(s) = 1 -> {[name |-> n, param |-> <<>>] : n \in Names(s)}
       [] Len(s) = 2 /\ Same(1, DoubleWord) /\ Same(2, PrecisionWord) ->
            {[name |-> DoubleWord \o <<Space>> \o PrecisionWord, param |-> <<>>]}
       [] Kinds(s) = <<"Identifier", "LParen", "LitInteger", "RParen">> ->
            {[name |-> s[1].text, param |-> <<p>>] : p \in {Spelled(s[3].text)} \cap 0 .. MaxU32}
       [] OTHER -> {}

ConstraintKinds == {<<"KwNull">>, <<"KwNot", "KwNull">>, <<"KwPrimary", "KwKey">>, <<"KwUnique">>}

RECURSIVE AreConstraints(_)
AreConstraints(s) ==
  \/ s = <<>>
  \/ \E k \in DOMAIN s : /\ Kinds(SubSeq(s, 1, k)) \in ConstraintKinds
                        /\ AreConstraints(SubSeq(s, k + 1, Len(s)))

\* The last word on NULL decides; PRIMARY KEY is one.
NotNull(s) ==
  LET about == At(s, "KwNull") \cup At(s, "KwPrimary")
      last == Max(about)
  IN about # {} /\ (s[last].kind = "KwPrimary" \/ (last > 1 /\ s[last - 1].kind = "KwNot"))

Columns(s) ==
  UNION {{[name |-> n, type |-> t, not_null |-> NotNull(Right(s, k)),
           primary_key |-> At(Right(s, k), "KwPrimary") # {},
           unique |-> At(Right(s, k), "KwUnique") # {}] :
             n \in Names(SubSeq(s, 1, 1)), t \in TypeNames(SubSeq(s, 2, k))} :
           k \in {j \in 2 .. Len(s) : AreConstraints(Right(s, j))}}

\* A list in parentheses.
Parenthesised(what, s) ==
  LET Listed(e) == IF "last comma" \in Forms /\ Len(e) \in At(e, "Comma")
                   THEN Left(e, Len(e)) ELSE e
  IN UNION {IF e = <<>> THEN {<<>> : form \in Forms \cap {"empty list"}}
            ELSE Lists(what, "Comma", Listed(e)) : e \in Inner(s)}

\* One thing, or a list, a separator and one more thing.
Lists(what, separator, s) ==
  LET Ones(e) == CASE what = "expr" -> OrTrees(e) [] what = "name" -> Names(e)
                   [] what = "and" -> AndTrees(e) [] what = "not" -> NotTrees(e)
                   [] what = "item" -> Items(e) [] what = "column" -> Columns(e)
                   [] what = "row" -> Parenthesised("expr", e)
      Before(k) == IF k = 0 THEN {<<>>} ELSE Lists(what, separator, Left(s, k))
  IN UNION {{Append(l, one) : l \in Before(k), one \in Ones(Right(s, k))} :
              k \in {0} \cup At(s, separator)}

Creates(s) ==
  LET plain == <<"KwCreate", "KwTable", "Identifier">>
      guarded == <<"KwCreate", "KwTable", "KwIf", "KwNot", "KwExists", "Identifier">>
  IN UNION {LET n == Len(start)
            IN {[kind |-> "create", table |-> s[n].text, columns |-> l,
                 if_not_exists |-> start = guarded] : l \in Parenthesised("column", Right(s, n))} :
              start \in {h \in {plain, guarded} : StartsWith(s, h)}}

InsertTrees(s) ==
  IF ~StartsWith(s, <<"KwInsert", "KwInto", "Identifier">>) THEN {}
  ELSE UNION {LET named == SubSeq(s, 4, k - 1)
              IN {[kind |-> "insert", table |-> s[3].text, columns |-> c, rows |-> rows] :
                    c \in IF named = <<>> THEN {<<>>} ELSE Parenthesised("name", named),
                    rows \in Lists("row", "Comma", Right(s, k))} : k \in At(s, "KwValues")}

\* The items of a SELECT: a star, or expressions.
SelectLists(s) == {<<star>> : star \in Stars(s)} \cup Lists("item", "Comma", s)

SelectTrees(s) ==
  LET Select(f, w) ==
        {[kind |-> "select", table |-> n, items |-> items, where |-> where] :
           items \in SelectLists(SubSeq(s, 2, f - 1)), n \in Names(SubSeq(s, f + 1, w - 1)),
           where \in IF w > Len(s) THEN {<<>>} ELSE {<<e>> : e \in OrTrees(Right(s, w))}}
  IN IF ~StartsWith(s, <<"KwSelect">>) THEN {}
     ELSE UNION {Select(f, w) : f \in At(s, "KwFrom"), w \in At(s, "KwWhere") \cup {Len(s) + 1}}

Statements(s) == Creates(s) \cup InsertTrees(s) \cup SelectTrees(s)

\* Statements with up to one semicolon before and up to one after each.
RECURSIVE StatementLists(_)
StatementLists(s) ==
  IF Kinds(s) \in {<<>>, <<"Semicolon">>} THEN {<<>>}
  ELSE LET start == IF s[1].kind = "Semicolon" THEN 2 ELSE 1
           After(k) == SubSeq(s, IF Kind(s, k) = "Semicolon" THEN k + 1 ELSE k, Len(s))
       IN UNION {UNION {{<<stmt>> \o rest : rest \in StatementLists(After(k + 1))} :
                          stmt \in Statements(SubSeq(s, start, k))} : k \in start .. Len(s)}

Scripts(s) ==
  {script \in StatementLists(s) : script = <<>> => "empty script" \in Forms}
=============================================================================
