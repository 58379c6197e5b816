--------------------------- MODULE MCSlottedPage ----------------------------
(* SlottedPage for TLC: tuples of one to three bytes over two byte values.  *)
EXTENDS SlottedPage, TLC

CONSTANTS a, b

ShortTuples == {<<a>>, <<b>>, <<a, b>>, <<b, a, a>>}

=============================================================================
