--------------------------- MODULE MCFileCacheMap ---------------------------
(* A small instance of FileCacheMap for TLC. *)
EXTENDS FileCacheMap

Symmetric == Permutations(Callers)
=============================================================================
