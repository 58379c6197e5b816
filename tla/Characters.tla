----------------------------- MODULE Characters -----------------------------
(***************************************************************************)
(* Characters are numbers: a digit is its value, letters come above the    *)
(* digits, first the lower case, and the other characters are negative.    *)
(* A text is a sequence of characters.                                     *)
(***************************************************************************)
EXTENDS Integers, Sequences

Minus == -1
Space == -2
Newline == -3
Quote == -4
Slash == -5
Asterisk == -6
Dot == -7
LessSign == -8
GreaterSign == -9
EqualSign == -10
LeftParen == -11
RightParen == -12
Comma == -13
Semicolon == -14
Plus == -15
Underscore == -16
Nul == -17

Digit == 0..9
LowerLetter == 10..35
UpperLetter == 36..61
Letter == LowerLetter \cup UpperLetter
Blank == {Space, Newline}

SmallE == 14

Lower(c) == IF c \in UpperLetter THEN c - 26 ELSE c
Upper(c) == IF c \in LowerLetter THEN c + 26 ELSE c

LowerText(text) == [i \in DOMAIN text |-> Lower(text[i])]
UpperText(text) == [i \in DOMAIN text |-> Upper(text[i])]
=============================================================================
