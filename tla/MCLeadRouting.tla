---------------------------- MODULE MCLeadRouting ----------------------------
(***************************************************************************)
(* A small company for TLC: two departments, a head and a clerk, a mailbox *)
(* of the sales department and the fallback, on three domains of which one *)
(* is a subdomain of another.                                              *)
(***************************************************************************)
EXTENDS LeadRouting

CONSTANTS head, clerk, sales, parts,
          salesBox, headBox, clerkBox, office,   \* addresses
          corp, branch, own                      \* domains

MCEmailOf == [u \in {head, clerk} |-> IF u = head THEN headBox ELSE clerkBox]
MCHostOf == [a \in {salesBox, headBox, clerkBox, office} |->
               IF a = salesBox THEN branch ELSE IF a = clerkBox THEN corp ELSE own]
MCBelow == [h \in {corp, branch, own} |-> IF h = corp THEN {corp, branch} ELSE {h}]
MCBlockLists == {{}, {corp}, {corp, own}}

MCLeads == {[type |-> "price", machineType |-> "loader", categories |-> {"new"}],
            [type |-> "parts", machineType |-> None, categories |-> {}]}

MCRule(type, machineType, category, department, emails) ==
    [type |-> type, machineType |-> machineType, category |-> category,
     department |-> department, emails |-> emails, priority |-> 1, active |-> TRUE]

MCRuleForms == {MCRule("price", Any, Any, sales, {salesBox}),
                MCRule(Any, "loader", "new", parts, {clerkBox, salesBox})}

MCAccounts == {[department |-> None, subscribed |-> TRUE, active |-> TRUE],
               [department |-> sales, subscribed |-> TRUE, active |-> TRUE],
               [department |-> None, subscribed |-> TRUE, active |-> FALSE]}
=============================================================================
