----------------------------- MODULE MCPolicies -----------------------------
(* Policies for TLC.  No policy compares page ids; the uses LRU-K counts    *)
(* are bounded.                                                             *)
EXTENDS Policies, TLC

CONSTANT MaxTick   \* bound on the uses of pages under LRU-K

PageSymmetry == Permutations(Page)

FewUses == tick <= MaxTick
=============================================================================
