--------------------------- MODULE MCLeadRetention ---------------------------
(* Instances of LeadRetention for TLC. *)
EXTENDS LeadRetention, TLC

Interchangeable == Permutations(Leads) \union Permutations(Docs) \union Permutations(Purges)
=============================================================================
