---------------------------- MODULE MCFacetCache ----------------------------
(* Instances of FacetCache for TLC. *)
EXTENDS FacetCache, TLC

Interchangeable == Permutations(Readers) \union Permutations(Changes)
=============================================================================
