---------------------------- MODULE MCCacheServer ----------------------------
(***************************************************************************)
(* CacheServer on a small table.  Handlers are interchangeable, and so are *)
(* the contents of rows that can be read.                                  *)
(***************************************************************************)
EXTENDS CacheServer, TLC

CacheSymmetry == Permutations(Handlers) \cup Permutations(Rows \ Unreadable)

=============================================================================
