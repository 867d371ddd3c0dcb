---------------------------- MODULE MCPslogConsole ----------------------------
(***************************************************************************)
(* PslogConsole for TLC: two addresses that hash to one slot, two keys of  *)
(* equal length and one that is too long to cache.                         *)
(***************************************************************************)
EXTENDS PslogConsole, TLC

CONSTANTS k1, k2, k3

MCKeys == {k1, k2, k3}
MCKeyLen == k1 :> 1 @@ k2 :> 1 @@ k3 :> 3
MCHome(f) == 0

\* Threads and addresses are interchangeable.
MCSymmetry == Permutations(Threads) \cup Permutations(Addresses)
=============================================================================
