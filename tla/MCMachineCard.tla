---------------------------- MODULE MCMachineCard ----------------------------
(* An instance of MachineCard for TLC. *)
EXTENDS MachineCard, TLC

Interchangeable == Permutations(Machines) \union Permutations(Slugs)
                   \union Permutations(Admins)
                   \union Permutations(Files)
==============================================================================
