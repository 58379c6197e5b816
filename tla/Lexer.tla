------------------------------- MODULE Lexer --------------------------------
(***************************************************************************)
(* The lexer (query/lexer.cpp) as a function from a text to its tokens.    *)
(* Positions count from 1; a scan ends at the position after its last      *)
(* character.  A token is [kind, text]; its line and column, which only    *)
(* messages use, are left out, and so is peek, which the parser never      *)
(* calls.                                                                  *)
(***************************************************************************)
EXTENDS Characters, SequencesExt

CONSTANTS
  Keywords   \* kinds of the keywords, by their words in lower case

ASSUME KeywordsAssumption == \A word \in DOMAIN Keywords : word = LowerText(word)

\* cur_char, also for the character after the current one
CharAt(s, i) == IF i > Len(s) THEN Nul ELSE s[i]

\* The first position from i on that is not in a class of characters.
Past(s, i, class) ==
  CHOOSE j \in i .. Len(s) + 1 :
    /\ j <= Len(s) => s[j] \notin class
    /\ \A k \in i .. j - 1 : s[k] \in class

LineEnd(s, i) ==
  CHOOSE j \in i .. Len(s) + 1 :
    /\ j <= Len(s) => s[j] = Newline
    /\ \A k \in i .. j - 1 : s[k] # Newline

\* Mutant: the asterisk that opens a comment may close it as well.
BlockEndAtOnce(s, i) ==
  LET closed == {j \in i + 1 .. Len(s) - 1 : s[j] = Asterisk /\ s[j + 1] = Slash}
  IN IF closed = {} THEN Len(s) + 1 ELSE Min(closed) + 2

\* The end of the block comment that begins at i, or of the text.
BlockEnd(s, i) ==
  LET closed == {j \in i + 2 .. Len(s) - 1 : s[j] = Asterisk /\ s[j + 1] = Slash}
  IN IF closed = {} THEN Len(s) + 1 ELSE Min(closed) + 2

RECURSIVE SkipBlanks(_, _)
SkipBlanks(s, i) ==
  CASE CharAt(s, i) \in Blank -> SkipBlanks(s, i + 1)
    [] CharAt(s, i) = Minus /\ CharAt(s, i + 1) = Minus -> SkipBlanks(s, LineEnd(s, i))
    [] CharAt(s, i) = Slash /\ CharAt(s, i + 1) = Asterisk -> SkipBlanks(s, BlockEnd(s, i))
    [] OTHER -> i

\* scan_ident_or_kw
WordEnd(s, i) == Past(s, i, Letter \cup Digit \cup {Underscore})

WordKind(word) ==
  IF LowerText(word) \in DOMAIN Keywords THEN Keywords[LowerText(word)] ELSE "Identifier"

\* scan_number: the ends of the integer part, of the fraction and of the
\* exponent, which may lack its digits.
WholeEnd(s, i) == Past(s, i, Digit)

FractionEnd(s, i) ==
  IF CharAt(s, i) = Dot /\ CharAt(s, i + 1) \in Digit THEN Past(s, i + 1, Digit) ELSE i

ExponentEnd(s, i) ==
  IF Lower(CharAt(s, i)) # SmallE THEN i
  ELSE Past(s, IF CharAt(s, i + 1) \in {Plus, Minus} THEN i + 2 ELSE i + 1, Digit)

\* scan_string, after the opening quote; two quotes stand for one.
RECURSIVE StringEnd(_, _)
StringEnd(s, i) ==
  CASE i > Len(s) -> i
    [] CharAt(s, i) # Quote -> StringEnd(s, i + 1)
    [] CharAt(s, i + 1) = Quote -> StringEnd(s, i + 2)
    [] OTHER -> i + 1

Single ==
  [c \in {LeftParen, RightParen, Comma, Semicolon, Asterisk, Dot, EqualSign} |->
     CASE c = LeftParen -> "LParen" [] c = RightParen -> "RParen" [] c = Comma -> "Comma"
       [] c = Semicolon -> "Semicolon" [] c = Asterisk -> "Star" [] c = Dot -> "Dot"
       [] c = EqualSign -> "Eq"]

Span(kind, from, to) == [kind |-> kind, from |-> from, to |-> to]

\* scan_one, on the first character of a token.
ScanOne(s, i) ==
  LET c == s[i]
      next == CharAt(s, i + 1)
      whole == WholeEnd(s, i + 1)
      number == ExponentEnd(s, FractionEnd(s, whole))
      word == WordEnd(s, i + 1)
  IN CASE c \in DOMAIN Single -> Span(Single[c], i, i + 1)
       [] c = LessSign /\ next = EqualSign -> Span("Le", i, i + 2)
       [] c = LessSign /\ next = GreaterSign -> Span("Neq", i, i + 2)
       [] c = LessSign /\ next \notin {EqualSign, GreaterSign} -> Span("Lt", i, i + 1)
       [] c = GreaterSign /\ next = EqualSign -> Span("Ge", i, i + 2)
       [] c = GreaterSign /\ next # EqualSign -> Span("Gt", i, i + 1)
       [] c = Quote -> Span("LitString", i, StringEnd(s, i + 1))
       [] c \in Letter \cup {Underscore} -> Span(WordKind(SubSeq(s, i, word - 1)), i, word)
       [] c \in Digit -> Span(IF number = whole THEN "LitInteger" ELSE "LitFloat", i, number)
       [] OTHER -> Span("Unknown", i, i + 1)

\* All tokens from i on, but for Eof.
RECURSIVE SpansFrom(_, _)
SpansFrom(s, i) ==
  LET from == SkipBlanks(s, i)
      span == ScanOne(s, from)
  IN IF from > Len(s) THEN <<>> ELSE <<span>> \o SpansFrom(s, span.to)

Spans(s) == SpansFrom(s, 1)

Token(kind, text) == [kind |-> kind, text |-> text]

\* What next returns until Eof.
Lex(s) ==
  LET spans == Spans(s)
  IN [k \in DOMAIN spans |->
        Token(spans[k].kind, SubSeq(s, spans[k].from, spans[k].to - 1))]
=============================================================================
