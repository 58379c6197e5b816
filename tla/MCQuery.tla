------------------------------ MODULE MCQuery -------------------------------
(* Query with a table t of two columns a and b, b of every type in turn. *)
EXTENDS Query, MCWords, TLC

Kw(kind) == CHOOSE word \in DOMAIN MCKeywords : MCKeywords[word] = kind

A == <<30>>
B == <<31>>
T == <<32>>
Int4 == <<33, 4>>
Boolean == <<34>>
Varchar == <<35>>
MCTypeNames == Int4 :> "int32" @@ Boolean :> "bool" @@ Varchar :> "text"

\* Words with a blank after each, and punctuation.
Text(words) == FlattenSeq([i \in DOMAIN words |-> words[i] \o <<Space>>])
Open == <<LeftParen>>
Close == <<RightParen>>
Sep == <<Comma>>
String(text) == <<Quote>> \o text \o <<Quote>>
Num(n) == <<n>>

Create(type) ==
  Text(<<Kw("KwCreate"), Kw("KwTable"), T, Open, A, Int4, Kw("KwNot"), Kw("KwNull"), Sep, B>> \o
       type \o <<Close, <<Semicolon>>>>)

Insert(rest) == Text(<<Kw("KwInsert"), Kw("KwInto"), T>> \o rest)
Row(x, y) == <<Open, x, Sep, y, Close>>
Values == <<Kw("KwValues")>>
Null == Kw("KwNull")

Select(items, where) ==
  Text(<<Kw("KwSelect")>> \o items \o <<Kw("KwFrom"), T>> \o where)
Where(words) == <<Kw("KwWhere")>> \o words
All == <<<<Asterisk>>>>

\* Values of several types and in another order of columns, some of which do
\* not fit; predicates with NULLs under OR and AND; a table without columns,
\* two statements at once, a value that is no literal.
MCTexts ==
  {Create(<<type>>) : type \in {Int4, Boolean}} \cup
  {Create(<<Varchar, Open, Num(9), Close>>),
   Text(<<Kw("KwCreate"), Kw("KwTable"), T, Open, Close>>),
   Insert(Values \o Row(Num(2), Null) \o <<Sep>> \o Row(String(<<Plus, 3>>), Num(5))),
   Insert(Values \o Row(String(<<Minus, 2>>), String(<<1, 0>>))),
   Insert(Row(A, UpperText(B)) \o Values \o Row(Num(2), Kw("KwTrue"))),
   Insert(Row(B, A) \o Values \o Row(Num(5), Num(2)) \o <<Sep>> \o Row(Null, Num(3))),
   Insert(Values \o Row(A, Num(2))),
   Select(All, <<>>),
   Select(All, <<>>) \o <<Semicolon>> \o Select(All, <<>>),
   Select(<<B>>, Where(<<A, <<LessSign>>, Num(3)>>)),
   Select(All, Where(<<Num(5), <<GreaterSign, EqualSign>>, UpperText(B)>>)),
   Select(All, Where(<<B, <<LessSign, GreaterSign>>, Num(5), Kw("KwOr"), A, <<GreaterSign>>, Num(2),
                       Kw("KwAnd"), A, <<LessSign, EqualSign>>, B>>)),
   Select(<<A, Sep, A, <<EqualSign>>, Num(2)>>, Where(<<B>>))}

ThreadSymmetry == Permutations(Thread)
=============================================================================
