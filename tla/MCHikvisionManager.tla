------------------------- MODULE MCHikvisionManager -------------------------
(***************************************************************************)
(* HikvisionManager for TLC: threads that make the same calls and the ids  *)
(* the SDK gives are interchangeable.                                      *)
(***************************************************************************)
EXTENDS HikvisionManager, TLC

Symmetry == Permutations(Clients) \cup Permutations(Ids)
=============================================================================
