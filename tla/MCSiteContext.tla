---------------------------- MODULE MCSiteContext ----------------------------
(* Instances of SiteContext for TLC. *)
EXTENDS SiteContext, TLC

Interchangeable == Permutations(Requests) \union Permutations(Pages)
                   \union Permutations(Slugs)
==============================================================================
