------------------------------ MODULE RowCodec ------------------------------
(***************************************************************************)
(* The values of the built-in types and the codec that turns a row of them *)
(* into a tuple and back (types/builtin_types.cpp, types/row_codec.cpp).   *)
(*                                                                         *)
(* A result that may be an error is a set: empty for the error, with one   *)
(* element otherwise.  A byte is a number below Byte (256 in the code).  A  *)
(* tuple keeps the regions of the encoding apart and the offsets the code  *)
(* computes.  float64 and the blanks around a number are left out.         *)
(***************************************************************************)
EXTENDS Characters, SequencesExt

CONSTANTS Byte,          \* number of values of a byte
          FixedSize,     \* bytes of each type of fixed size
          TrueText,      \* the words "true" and "false"
          FalseText

ASSUME ByteAssumption == Byte \in Nat /\ Byte > 10
ASSUME WordsAssumption == TrueText # FalseText

IntTypes == {"int32", "int64"}
Types == IntTypes \cup {"bool", "text"}

-----------------------------------------------------------------------------
(* Conversions of the built-in types. *)

\* The numbers an integer type can hold.
Representable(type) == LET half == (Byte ^ FixedSize[type]) \div 2 IN -half .. (half - 1)

\* The digits of a text that may begin with a sign.
DigitsOf(text) == IF text # <<>> /\ text[1] \in {Minus, Plus} THEN Tail(text) ELSE text

IsNumeral(text) ==
  DigitsOf(text) # <<>> /\ \A i \in DOMAIN DigitsOf(text) : DigitsOf(text)[i] \in 0..9

\* The number a numeral spells.
Spelled(text) ==
  LET magnitude == FoldLeft(LAMBDA n, digit : 10 * n + digit, 0, DigitsOf(text))
  IN  IF text[1] = Minus THEN -magnitude ELSE magnitude

LittleEndian(n, size) ==
  LET unsigned == n % (Byte ^ size)
  IN  [i \in 1..size |-> (unsigned \div (Byte ^ (i - 1))) % Byte]

Signed(bytes) ==
  LET size == Len(bytes)
      unsigned == FoldRight(LAMBDA byte, n : byte + Byte * n, bytes, 0)
  IN  IF 2 * unsigned < Byte ^ size THEN unsigned ELSE unsigned - Byte ^ size

FromText(type, text) ==
  CASE type \in IntTypes ->
         IF IsNumeral(text) /\ Spelled(text) \in Representable(type)
         THEN {LittleEndian(Spelled(text), FixedSize[type])} ELSE {}
    [] type = "bool" -> IF text = TrueText THEN {<<1>>}
                        ELSE IF text = FalseText THEN {<<0>>} ELSE {}
    [] type = "text" -> {text}

\* Lexicographic order of two texts.
TextLess(l, r) ==
  \/ Len(l) < Len(r) /\ l = SubSeq(r, 1, Len(l))
  \/ \E i \in DOMAIN l \cap DOMAIN r :
       /\ SubSeq(l, 1, i - 1) = SubSeq(r, 1, i - 1)
       /\ l[i] < r[i]

\* compare of the type is strong_ordering::less.
Less(type, l, r) ==
  CASE type \in IntTypes -> Signed(l) < Signed(r)
    [] type = "bool" -> l[1] < r[1]
    [] type = "text" -> TextLess(l, r)

-----------------------------------------------------------------------------
(* Rows. *)

Value(type, bytes) == [type |-> type, null |-> FALSE, bytes |-> bytes]
NullOf(type) == [type |-> type, null |-> TRUE, bytes |-> <<>>]

\* Column count, null bitmap, an offset and a length for each column.
HeaderSize(count) == 4 + ((count + 7) \div 8) + 8 * count

RightSize(type, size) ==
  type \in DOMAIN FixedSize => size = FixedSize[type]

\* Mutant: no check for NULL in a column that is NOT NULL.
EncodableNulls(value, column) ==
  /\ value.type = column.type
  /\ ~value.null => RightSize(column.type, Len(value.bytes))

\* The checks encode makes of a value before it appends it.
Encodable(value, column) ==
  /\ value.type = column.type
  /\ value.null => column.nullable
  /\ ~value.null => RightSize(column.type, Len(value.bytes))

Encode(values, columns) ==
  LET Payload(n) == FlattenSeq([i \in 1..n |-> values[i].bytes])
      Entry(i) == IF values[i].null THEN [offset |-> 0, length |-> 0]
                  ELSE [offset |-> HeaderSize(Len(columns)) + Len(Payload(i - 1)),
                        length |-> Len(values[i].bytes)]
  IN  IF /\ Len(values) = Len(columns)
         /\ \A i \in DOMAIN columns : Encodable(values[i], columns[i])
      THEN {[count |-> Len(columns),
             nulls |-> {i \in DOMAIN values : values[i].null},
             entries |-> [i \in DOMAIN values |-> Entry(i)],
             payload |-> Payload(Len(values))]}
      ELSE {}

Decode(tuple, columns) ==
  LET start == HeaderSize(Len(columns))
      Readable(i) ==
        \/ i \in tuple.nulls
        \/ LET e == tuple.entries[i]
           IN  /\ e.offset >= start
               /\ e.offset + e.length <= start + Len(tuple.payload)
               /\ RightSize(columns[i].type, e.length)
      Bytes(e) == SubSeq(tuple.payload, e.offset - start + 1, e.offset - start + e.length)
  IN  IF tuple.count = Len(columns) /\ \A i \in DOMAIN columns : Readable(i)
      THEN {[i \in DOMAIN columns |->
               IF i \in tuple.nulls THEN NullOf(columns[i].type)
               ELSE Value(columns[i].type, Bytes(tuple.entries[i]))]}
      ELSE {}
=============================================================================
