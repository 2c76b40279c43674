--------------------------- MODULE MCLeadPipeline ---------------------------
(* Instances of LeadPipeline for TLC. *)
EXTENDS LeadPipeline, TLC

CONSTANTS sales   \* an address of the sales department

\* Routing finds somebody, or everybody is on a blocked domain.
SomeOrNobody == {{sales}, {}}

Interchangeable == Permutations(Requests) \union Permutations(Workers)
=============================================================================
