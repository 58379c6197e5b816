------------------------------- MODULE Parser -------------------------------
(***************************************************************************)
(* The recursive-descent parser (query/parser.cpp): one operator per       *)
(* method, from the tokens ts and the position i of the current one to     *)
(* [ok, pos, tree], where pos is the position the method ends at, and on   *)
(* an error the one of the token that is wrong.                            *)
(*                                                                         *)
(* A float literal, which is never too large here, stands for the text     *)
(* std::from_chars reads of it; an integer literal stands for its value,   *)
(* in the decimal form in which the binder passes it on (literal_text).    *)
(***************************************************************************)
EXTENDS Lexer, RowCodec

CONSTANTS
  DoubleWord, PrecisionWord,   \* the words "double" and "precision"
  MaxU32                       \* the largest parameter of a type

Done(i, tree) == [ok |-> TRUE, pos |-> i, tree |-> tree]
Failed(i) == [ok |-> FALSE, pos |-> i, tree |-> <<>>]

\* What a method goes on with, unless a part it called has failed.
Then(r, Rest(_)) == IF r.ok THEN Rest(r) ELSE r

Kind(ts, i) == IF i > Len(ts) THEN "Eof" ELSE ts[i].kind

Expect(ts, i, kind) == IF Kind(ts, i) = kind THEN Done(i + 1, ts[i]) ELSE Failed(i)

ExpectIdentifier(ts, i) ==
  IF Kind(ts, i) = "Identifier" THEN Done(i + 1, ts[i].text) ELSE Failed(i)

\* Tokens that must follow one another.
ExpectTwo(ts, i, first, second) ==
  Then(Expect(ts, i, first), LAMBDA r : Expect(ts, r.pos, second))

-----------------------------------------------------------------------------
(* Expressions. *)

Lit(literal) == [kind |-> "literal", literal |-> literal]
Col(name) == [kind |-> "column", name |-> name]
Bin(op, left, right) == [kind |-> "binary", op |-> op, left |-> left, right |-> right]

Literal(kind, text) == [kind |-> kind, text |-> text]

\* An unsigned numeral without its leading zeros.
Decimal(text) ==
  LET significant == {i \in DOMAIN text : text[i] # 0}
  IN IF significant = {} THEN <<0>> ELSE SubSeq(text, Min(significant), Len(text))

\* from_chars stops before an exponent that has no digits.
FloatText(text) ==
  LET digits == {i \in DOMAIN text : text[i] \in Digit}
  IN SubSeq(text, 1, Max(digits))

\* Mutant: a quote is never skipped.
UnescapedAll(raw, i) ==
  IF i >= Len(raw) THEN <<>> ELSE SubSeq(raw, i, Len(raw) - 1)

\* The value of a string literal from position i on.
RECURSIVE Unescaped(_, _)
Unescaped(raw, i) ==
  CASE i >= Len(raw) -> <<>>
    [] i + 1 < Len(raw) /\ raw[i] = Quote /\ raw[i + 1] = Quote ->
         <<Quote>> \o Unescaped(raw, i + 2)
    [] OTHER -> <<raw[i]>> \o Unescaped(raw, i + 1)

Comparisons ==
  [kind \in {"Eq", "Neq", "Lt", "Le", "Gt", "Ge"} |->
     CASE kind = "Eq" -> "eq" [] kind = "Neq" -> "ne" [] kind = "Lt" -> "lt"
       [] kind = "Le" -> "le" [] kind = "Gt" -> "gt" [] kind = "Ge" -> "ge"]

RECURSIVE ParseExpr(_, _)

ParsePrimary(ts, i) ==
  LET kind == Kind(ts, i)
      text == ts[i].text
      Answer(tree) == Done(i + 1, tree)
  IN CASE kind = "LParen" ->
            Then(ParseExpr(ts, i + 1), LAMBDA inner :
              Then(Expect(ts, inner.pos, "RParen"), LAMBDA r : Done(r.pos, inner.tree)))
       [] kind = "KwNull" -> Answer(Lit(Literal("null", <<>>)))
       [] kind = "KwTrue" -> Answer(Lit(Literal("bool", TrueText)))
       [] kind = "KwFalse" -> Answer(Lit(Literal("bool", FalseText)))
       [] kind = "LitInteger" /\ Spelled(text) \in Representable("int64") ->
            Answer(Lit(Literal("int", Decimal(text))))
       [] kind = "LitFloat" -> Answer(Lit(Literal("float", FloatText(text))))
       [] kind = "LitString" -> Answer(Lit(Literal("str", Unescaped(text, 2))))
       [] kind = "Identifier" -> Answer(Col(text))
       [] OTHER -> Failed(i)

ParseCmp(ts, i) ==
  Then(ParsePrimary(ts, i), LAMBDA left :
    IF Kind(ts, left.pos) \notin DOMAIN Comparisons THEN left
    ELSE Then(ParsePrimary(ts, left.pos + 1), LAMBDA right :
           Done(right.pos, Bin(Comparisons[Kind(ts, left.pos)], left.tree, right.tree))))

\* NOT is not supported.
ParseNot(ts, i) == IF Kind(ts, i) = "KwNot" THEN Failed(i) ELSE ParseCmp(ts, i)

\* Mutant: AND groups to the right.
RECURSIVE AndRightmost(_, _)
AndRightmost(ts, left) ==
  IF Kind(ts, left.pos) # "KwAnd" THEN left
  ELSE Then(ParseNot(ts, left.pos + 1), LAMBDA next :
         Then(AndRightmost(ts, next), LAMBDA right :
           Done(right.pos, Bin("and", left.tree, right.tree))))

\* The loop of parse_and, with what it has on its left.
RECURSIVE AndRest(_, _)
AndRest(ts, left) ==
  IF Kind(ts, left.pos) # "KwAnd" THEN left
  ELSE Then(ParseNot(ts, left.pos + 1), LAMBDA right :
         AndRest(ts, Done(right.pos, Bin("and", left.tree, right.tree))))

ParseAnd(ts, i) == Then(ParseNot(ts, i), LAMBDA left : AndRest(ts, left))

RECURSIVE OrRest(_, _)
OrRest(ts, left) ==
  IF Kind(ts, left.pos) # "KwOr" THEN left
  ELSE Then(ParseAnd(ts, left.pos + 1), LAMBDA right :
         OrRest(ts, Done(right.pos, Bin("or", left.tree, right.tree))))

ParseExpr(ts, i) == Then(ParseAnd(ts, i), LAMBDA left : OrRest(ts, left))

-----------------------------------------------------------------------------
(* Statements. *)

\* parse_type_name.  DOUBLE PRECISION is two words, both in one case.
ParseTypeName(ts, i) ==
  Then(ExpectIdentifier(ts, i), LAMBDA name :
    LET j == name.pos
        Spellings(word) == {word, UpperText(word)}
        TypeName(param) == [name |-> name.tree, param |-> param]
        number == Spelled(ts[j + 1].text)
    IN CASE /\ name.tree \in Spellings(DoubleWord)
            /\ Kind(ts, j) = "Identifier" /\ ts[j].text \in Spellings(PrecisionWord) ->
              Done(j + 1, [name |-> DoubleWord \o <<Space>> \o PrecisionWord, param |-> <<>>])
         [] Kind(ts, j) = "LParen" ->
              IF Kind(ts, j + 1) = "LitInteger" /\ number <= MaxU32
              THEN Then(Expect(ts, j + 2, "RParen"), LAMBDA r : Done(r.pos, TypeName(<<number>>)))
              ELSE Failed(j + 1)
         [] OTHER -> Done(j, TypeName(<<>>)))

\* The constraints of a column, each of which overrides those before it.
RECURSIVE Constraints(_, _, _)
Constraints(ts, i, col) ==
  CASE Kind(ts, i) = "KwNot" ->
         Then(Expect(ts, i + 1, "KwNull"), LAMBDA r :
           Constraints(ts, r.pos, [col EXCEPT !.not_null = TRUE]))
    [] Kind(ts, i) = "KwNull" -> Constraints(ts, i + 1, [col EXCEPT !.not_null = FALSE])
    [] Kind(ts, i) = "KwPrimary" ->
         Then(Expect(ts, i + 1, "KwKey"), LAMBDA r :
           Constraints(ts, r.pos, [col EXCEPT !.primary_key = TRUE, !.not_null = TRUE]))
    [] Kind(ts, i) = "KwUnique" -> Constraints(ts, i + 1, [col EXCEPT !.unique = TRUE])
    [] OTHER -> Done(i, col)

ParseColDef(ts, i) ==
  Then(ExpectIdentifier(ts, i), LAMBDA name :
    Then(ParseTypeName(ts, name.pos), LAMBDA type :
      Constraints(ts, type.pos, [name |-> name.tree, type |-> type.tree, not_null |-> FALSE,
                                 primary_key |-> FALSE, unique |-> FALSE])))

\* The loops over columns, names and expressions in parentheses: the list may
\* be empty, and may end in a comma.
RECURSIVE ParseList(_, _, _, _)
ParseList(ts, i, what, before) ==
  IF Kind(ts, i) \in {"RParen", "Eof"} THEN Done(i, before)
  ELSE Then(CASE what = "column" -> ParseColDef(ts, i)
              [] what = "name" -> ExpectIdentifier(ts, i)
              [] what = "expr" -> ParseExpr(ts, i),
         LAMBDA item :
           LET all == Append(before, item.tree)
           IN IF Kind(ts, item.pos) = "Comma" THEN ParseList(ts, item.pos + 1, what, all)
              ELSE Done(item.pos, all))

\* Such a list between its parentheses.
ParseParens(ts, i, what) ==
  Then(Expect(ts, i, "LParen"), LAMBDA l :
    Then(ParseList(ts, l.pos, what, <<>>), LAMBDA items :
      Then(Expect(ts, items.pos, "RParen"), LAMBDA r : Done(r.pos, items.tree))))

\* From here on i is the position after the first keyword.
ParseCreateTable(ts, i) ==
  Then(Expect(ts, i, "KwTable"), LAMBDA table :
    LET if_not_exists == Kind(ts, table.pos) = "KwIf"
    IN Then(IF if_not_exists THEN ExpectTwo(ts, table.pos + 1, "KwNot", "KwExists") ELSE table,
         LAMBDA head :
           Then(ExpectIdentifier(ts, head.pos), LAMBDA name :
             Then(ParseParens(ts, name.pos, "column"), LAMBDA columns :
               Done(columns.pos, [kind |-> "create", table |-> name.tree,
                                  columns |-> columns.tree,
                                  if_not_exists |-> if_not_exists])))))

\* The rows of VALUES.
RECURSIVE ParseRows(_, _, _)
ParseRows(ts, i, before) ==
  Then(ParseParens(ts, i, "expr"), LAMBDA row :
    LET all == Append(before, row.tree)
    IN IF Kind(ts, row.pos) = "Comma" THEN ParseRows(ts, row.pos + 1, all)
       ELSE Done(row.pos, all))

ParseInsert(ts, i) ==
  Then(Expect(ts, i, "KwInto"), LAMBDA into :
    Then(ExpectIdentifier(ts, into.pos), LAMBDA name :
      Then(IF Kind(ts, name.pos) = "LParen" THEN ParseParens(ts, name.pos, "name")
           ELSE Done(name.pos, <<>>),
        LAMBDA columns :
          Then(Expect(ts, columns.pos, "KwValues"), LAMBDA values :
            Then(ParseRows(ts, values.pos, <<>>), LAMBDA rows :
              Done(rows.pos, [kind |-> "insert", table |-> name.tree,
                              columns |-> columns.tree, rows |-> rows.tree]))))))

\* A select item is an expression or Star, with no or one alias.
Star == [kind |-> "star"]
Item(expr, alias) == [expr |-> expr, alias |-> alias]

ParseItem(ts, i) ==
  IF Kind(ts, i) = "Star" THEN Done(i + 1, Item(Star, <<>>))
  ELSE Then(ParseExpr(ts, i), LAMBDA e :
         IF Kind(ts, e.pos) # "KwAs" THEN Done(e.pos, Item(e.tree, <<>>))
         ELSE Then(ExpectIdentifier(ts, e.pos + 1), LAMBDA a :
                Done(a.pos, Item(e.tree, <<a.tree>>))))

RECURSIVE ParseSelectItems(_, _, _)
ParseSelectItems(ts, i, before) ==
  Then(ParseItem(ts, i), LAMBDA item :
    LET all == Append(before, item.tree)
    IN IF Kind(ts, item.pos) = "Comma" THEN ParseSelectItems(ts, item.pos + 1, all)
       ELSE Done(item.pos, all))

\* where is a sequence of no or one predicate.
ParseSelect(ts, i) ==
  Then(ParseSelectItems(ts, i, <<>>), LAMBDA items :
    Then(Expect(ts, items.pos, "KwFrom"), LAMBDA from :
      Then(ExpectIdentifier(ts, from.pos), LAMBDA name :
        LET Select(where) == [kind |-> "select", table |-> name.tree, items |-> items.tree,
                              where |-> where]
        IN IF Kind(ts, name.pos) # "KwWhere" THEN Done(name.pos, Select(<<>>))
           ELSE Then(ParseExpr(ts, name.pos + 1), LAMBDA e :
                  Done(e.pos, Select(<<e.tree>>))))))

ParseStmt(ts, i) ==
  CASE Kind(ts, i) = "KwCreate" -> ParseCreateTable(ts, i + 1)
    [] Kind(ts, i) = "KwInsert" -> ParseInsert(ts, i + 1)
    [] Kind(ts, i) = "KwSelect" -> ParseSelect(ts, i + 1)
    [] OTHER -> Failed(i)

\* match(Semicolon)
PastSemicolon(ts, i) == IF Kind(ts, i) = "Semicolon" THEN i + 1 ELSE i

\* The loop of parse: statements, each with a semicolon before and after it if
\* it likes.
RECURSIVE ParseFrom(_, _, _)
ParseFrom(ts, i, before) ==
  LET start == PastSemicolon(ts, i)
  IN IF Kind(ts, start) = "Eof" THEN Done(start, before)
     ELSE Then(ParseStmt(ts, start), LAMBDA stmt :
            ParseFrom(ts, PastSemicolon(ts, stmt.pos), Append(before, stmt.tree)))

Parse(ts) == ParseFrom(ts, 1, <<>>)
=============================================================================
