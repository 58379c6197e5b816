------------------------------ MODULE MCWords -------------------------------
(* Words and sizes of the instances: a keyword is two letters long, a number *)
(* of type int64 takes two bytes.                                            *)
EXTENDS Integers, Sequences

KeywordKinds ==
  <<"KwAnd", "KwAs", "KwCreate", "KwDefault", "KwExists", "KwFalse", "KwFrom", "KwIf", "KwInsert",
    "KwInto", "KwKey", "KwNot", "KwNull", "KwOr", "KwPrimary", "KwSelect", "KwTable", "KwTrue",
    "KwUnique", "KwValues", "KwWhere">>

MCKeywords == [word \in {<<10, 10 + n>> : n \in DOMAIN KeywordKinds} |-> KeywordKinds[word[2] - 10]]

MCDouble == <<20, 20>>
MCPrecision == <<20, 21>>
MCTrueText == <<21, 20>>
MCFalseText == <<21, 19>>

MCFixedSize == [type \in {"int32", "int64", "bool"} |-> IF type = "int64" THEN 2 ELSE 1]
=============================================================================
