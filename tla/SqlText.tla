------------------------------ MODULE SqlText -------------------------------
(***************************************************************************)
(* Statements being written, character by character or token by token:     *)
(* every text and every sequence of tokens up to a length, for the lexer   *)
(* to be compared with Lexemes and the parser with Grammar.  Tokens are    *)
(* added as long as the parser has found no wrong one, but for NOT, which  *)
(* the document allows: what follows a wrong token it never looks at.      *)
(***************************************************************************)
EXTENDS Parser, Lexemes

CONSTANTS
  Plans   \* what is written: [opening, characters, words, room]

VARIABLES
  text,     \* the characters written
  tokens,   \* the tokens written
  plan      \* what may be added, and how much of it

vars == <<text, tokens, plan>>

Init ==
  \E p \in Plans :
    /\ text = <<>>
    /\ tokens = p.opening
    /\ plan = p

Type ==
  /\ plan.room > 0
  /\ \E c \in plan.characters : text' = Append(text, c)
  /\ plan' = [plan EXCEPT !.room = @ - 1]
  /\ UNCHANGED tokens

\* The parser has stopped at no token of ts but NOT.
RECURSIVE Viable(_)
Viable(ts) ==
  LET pos == Parse(ts).pos
  IN pos > Len(ts) \/ (Kind(ts, pos) = "KwNot" /\ Viable(RemoveAt(ts, pos)))

Write ==
  /\ plan.room > 0
  /\ Viable(tokens)
  /\ \E token \in plan.words : tokens' = Append(tokens, token)
  /\ plan' = [plan EXCEPT !.room = @ - 1]
  /\ UNCHANGED text

Next == Type \/ Write

Spec == Init /\ [][Next]_vars

(***************************************************************************)
(* Properties.                                                             *)
(***************************************************************************)

\* The tokens of a text are its longest lexemes from left to right: between
\* them there are only blanks and comments, none could be longer, and its kind
\* is that of its text (scan_one and skip_whitespace_and_comments).  A string
\* that is not closed is a lexeme that ends with the text.
LexesLongestMatch ==
  LET spans == Spans(text)
      n == Len(spans)
      end == Len(text) + 1
      From(k) == IF k > n THEN end ELSE spans[k].from
      To(k) == IF k = 0 THEN 1 ELSE spans[k].to
  IN /\ \A k \in 0 .. n :
          To(k) <= From(k + 1) /\ IsGap(Upto(text, To(k), From(k + 1)), From(k + 1) = end)
     /\ \A k \in 1 .. n :
          LET w == Upto(text, From(k), To(k))
              kind == spans[k].kind
          IN /\ ~\E j \in To(k) + 1 .. end : IsLexeme(Upto(text, From(k), j), j = end)
             /\ IF IsLexeme(w, To(k) = end)
                THEN /\ kind = "LitInteger" <=> IsInteger(w)
                     /\ kind = "LitFloat" <=> IsFloat(w) /\ ~IsInteger(w)
                     /\ kind = "LitString" <=> w[1] = Quote
                     /\ kind = "Identifier" <=> IsWord(w) /\ LowerText(w) \notin DOMAIN Keywords
                     /\ w \in DOMAIN Signs => kind = Signs[w]
                     /\ LowerText(w) \in DOMAIN Keywords => kind = Keywords[LowerText(w)]
                ELSE Len(w) = 1 /\ kind = "Unknown"

\* The value of a string literal that is closed is what was put between its
\* quotes, with every quote doubled (scan_string, lexer.cpp:206-221, and
\* parse_primary, parser.cpp:561-580).
EscapesUndone ==
  \A k \in DOMAIN Lex(text) :
    LET token == Lex(text)[k]
    IN IsString(token.text, FALSE) => Quoted(Unescaped(token.text, 2)) = token.text

\* The grammar of parser.hpp:11-22 and :40-41, the same without NOT, and the
\* latter with what the parser takes in addition.
Documented == INSTANCE Grammar WITH Forms <- {"not"}
WithoutNot == INSTANCE Grammar WITH Forms <- {}
Extended == INSTANCE Grammar WITH
              Forms <- {"empty list", "last comma", "star beside", "empty script"}

\* A script of the documented grammar is parsed to the one tree the grammar
\* gives it: AND binds closer than OR, both group to the left, comparisons do
\* not chain, the last word on NULL counts (parser.cpp:75-593).  The parser
\* departs from the document in two ways, and in no other: it refuses a script
\* with NOT before a comparison (:457-464), and of the scripts the document
\* does not have it accepts those with an empty list, a comma at the end of a
\* list, a star beside other items, or no statement (:75-90, 159-168, 283-292,
\* 367-410).
ParsesGrammar ==
  LET parsed == {r.tree : r \in {q \in {Parse(tokens)} : q.ok}}
      documented == Documented!Scripts(tokens)
      plain == WithoutNot!Scripts(tokens)
  IN CASE documented = {} -> parsed = Extended!Scripts(tokens)
       [] documented = plain -> parsed = documented
       [] OTHER -> parsed = {}
=============================================================================
