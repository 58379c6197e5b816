------------------------------ MODULE Lexemes -------------------------------
(***************************************************************************)
(* What the lexer is to compute, without its loops: the texts that are a   *)
(* token of each kind, and what may stand between two tokens.              *)
(***************************************************************************)
EXTENDS Lexer, SequencesExt

Upto(s, i, j) == SubSeq(s, i, j - 1)

All(w, class) == \A i \in DOMAIN w : w[i] \in class

IsWord(w) == w # <<>> /\ w[1] \notin Digit /\ All(w, Letter \cup Digit \cup {Underscore})

IsInteger(w) == w # <<>> /\ All(w, Digit)

IsFraction(w) == Len(w) > 1 /\ w[1] = Dot /\ All(Tail(w), Digit)

IsExponent(w) ==
  /\ w # <<>> /\ Lower(w[1]) = SmallE
  /\ \/ All(Tail(w), Digit)
     \/ Len(w) > 1 /\ w[2] \in {Plus, Minus} /\ All(Tail(Tail(w)), Digit)

IsFloat(w) ==
  \E i, j \in 1 .. Len(w) + 1 :
    LET fraction == Upto(w, i, j)
        exponent == Upto(w, j, Len(w) + 1)
    IN /\ i <= j /\ i <= Len(w)
       /\ IsInteger(Upto(w, 1, i))
       /\ fraction = <<>> \/ IsFraction(fraction)
       /\ exponent = <<>> \/ IsExponent(exponent)

\* The text of a string literal of value v.
Quoted(v) ==
  <<Quote>> \o FlattenSeq([i \in DOMAIN v |-> IF v[i] = Quote THEN <<Quote, Quote>> ELSE <<v[i]>>])
            \o <<Quote>>

\* Quotes in pairs, or none.
RECURSIVE Paired(_)
Paired(w) ==
  LET quotes == {i \in DOMAIN w : w[i] = Quote}
      first == Min(quotes)
  IN \/ quotes = {}
     \/ /\ first < Len(w) /\ w[first + 1] = Quote
        /\ Paired(SubSeq(w, first + 2, Len(w)))

\* A string that is closed, or goes on to the end of the text.
IsString(w, last) ==
  /\ w # <<>> /\ w[1] = Quote
  /\ \/ Len(w) > 1 /\ w[Len(w)] = Quote /\ Paired(SubSeq(w, 2, Len(w) - 1))
     \/ last /\ Paired(Tail(w))

\* The kind of each sign.
Signs ==
  [w \in {<<c>> : c \in DOMAIN Single} |-> Single[w[1]]] @@
  <<LessSign>> :> "Lt" @@ <<LessSign, EqualSign>> :> "Le" @@ <<LessSign, GreaterSign>> :> "Neq" @@
  <<GreaterSign>> :> "Gt" @@ <<GreaterSign, EqualSign>> :> "Ge"

IsLexeme(w, last) ==
  IsWord(w) \/ IsInteger(w) \/ IsFloat(w) \/ IsString(w, last) \/ w \in DOMAIN Signs

\* A comment, which may go on to the end of the text.
IsComment(w, last) ==
  LET newlines == {i \in DOMAIN w : w[i] = Newline}
      closings == {i \in 4 .. Len(w) : w[i - 1] = Asterisk /\ w[i] = Slash}
      Ends(marks) == marks = {Len(w)} \/ (last /\ marks = {})
  IN /\ Len(w) > 1
     /\ \/ w[1] = Minus /\ w[2] = Minus /\ Ends(newlines)
        \/ w[1] = Slash /\ w[2] = Asterisk /\ Ends(closings)

\* What may stand between two tokens.
RECURSIVE IsGap(_, _)
IsGap(w, last) ==
  \/ w = <<>>
  \/ w[1] \in Blank /\ IsGap(Tail(w), last)
  \/ \E i \in DOMAIN w :
       /\ IsComment(SubSeq(w, 1, i), last /\ i = Len(w))
       /\ IsGap(SubSeq(w, i + 1, Len(w)), last)
=============================================================================
