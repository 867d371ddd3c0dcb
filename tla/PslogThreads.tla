----------------------------- MODULE PslogThreads -----------------------------
(***************************************************************************)
(* The threads that use a logger tree, for the caches of its shared state  *)
(* that the state mutex protects.                                          *)
(***************************************************************************)
CONSTANTS
  Threads,
  NoThread,   \* the owner of a mutex nobody has
  None        \* NULL, and a value that is not there

=============================================================================
