----------------------------- MODULE MCSqlText ------------------------------
(* SqlText for TLC: all texts of five characters, longer ones of numbers,   *)
(* strings and comments; tokens from the beginning of a statement, and from *)
(* inside each kind of it.                                                  *)
EXTENDS SqlText, MCWords

SmallA == 10
CapitalA == 36

Texts(characters, n) == [opening |-> <<>>, characters |-> characters, words |-> {}, room |-> n]

Word(kind) == Token(kind, <<>>)
Name == Token("Identifier", <<SmallA>>)
Number(digits) == Token("LitInteger", digits)

Tokens(opening, words, n) ==
  [opening |-> opening, characters |-> {}, words |-> words, room |-> n]

AnyWord ==
  {Word(KeywordKinds[n]) : n \in DOMAIN KeywordKinds} \cup
  {Word(k) : k \in {"LParen", "RParen", "Comma", "Semicolon", "Star", "Dot", "Eq", "Neq", "Unknown"}} \cup
  {Name, Number(<<0, 7>>), Number(<<1, 2, 8>>), Token("LitString", <<Quote, Quote>>),
   Token("LitFloat", <<1, SmallE>>)}

SelectWhere == <<Word("KwSelect"), Word("Star"), Word("KwFrom"), Name, Word("KwWhere")>>
CreateColumn == <<Word("KwCreate"), Word("KwTable"), Name, Word("LParen"), Name>>
InsertValues == <<Word("KwInsert"), Word("KwInto"), Name, Word("KwValues"), Word("LParen")>>

ExprWords ==
  {Name, Word("LParen"), Word("RParen"), Word("KwAnd"), Word("KwOr"), Word("Lt"), Word("KwNot")}

ColumnWords ==
  {Name, Token("Identifier", MCDouble), Token("Identifier", UpperText(MCPrecision)), Word("KwNot"),
   Word("KwNull"), Word("KwPrimary"), Word("KwKey"), Word("KwUnique"), Word("LParen"), Number(<<9>>),
   Number(<<1, 0>>), Word("RParen"), Word("Comma")}

RowWords == {Word("KwTrue"), Word("LParen"), Word("RParen"), Word("Comma"), Word("Semicolon")}

MCPlans ==
  {Tokens(<<>>, AnyWord, 6),
   Tokens(SelectWhere, ExprWords, 7),
   Tokens(CreateColumn, ColumnWords, 6),
   Tokens(InsertValues, RowWords, 7),
   Texts({SmallA, CapitalA, SmallE, 1, Quote, Minus, Slash, Asterisk, Newline, Dot,
          LessSign, EqualSign}, 5),
   Texts({1, Dot, SmallE, Minus}, 6),
   Texts({Quote, SmallA, Minus, Newline}, 6),
   Texts({Slash, Asterisk, SmallA, Minus}, 6)}
=============================================================================
