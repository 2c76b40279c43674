---------------------------- MODULE LeadDelivery ----------------------------
(***************************************************************************)
(* What the notification of leads promises, without caches, transactions,  *)
(* brokers or workers.  A lead is recorded once; recording it creates one  *)
(* obligation to tell the dealer's staff.  The obligation is discharged by *)
(* one confirmed letter or dropped, and once it is gone it never comes     *)
(* back: a confirmed lead is not announced again.                          *)
(***************************************************************************)
CONSTANT Leads

VARIABLES recorded,  \* leads ever committed
          owed,      \* leads whose staff are still to be told
          told       \* leads with a confirmed letter

delivery == <<recorded, owed, told>>

Init == recorded = {} /\ owed = {} /\ told = {}

Record(l) ==
    /\ l \notin recorded
    /\ recorded' = recorded \union {l}
    /\ owed' = owed \union {l}
    /\ UNCHANGED told

Confirm(l) ==
    /\ l \in owed
    /\ owed' = owed \ {l}
    /\ told' = told \union {l}
    /\ UNCHANGED recorded

Drop(l) ==
    /\ l \in owed
    /\ owed' = owed \ {l}
    /\ UNCHANGED <<recorded, told>>

Next == \E l \in Leads : Record(l) \/ Confirm(l) \/ Drop(l)

Spec == Init /\ [][Next]_delivery
=============================================================================
