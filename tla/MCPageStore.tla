---------------------------- MODULE MCPageStore -----------------------------
(* PageStore for TLC. *)
EXTENDS PageStore, TLC
=============================================================================
