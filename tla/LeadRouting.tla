----------------------------- MODULE LeadRouting -----------------------------
(***************************************************************************)
(* Whom the site writes to about a lead.  Administrators keep routing      *)
(* rules and staff accounts, two commands clean addresses out of the       *)
(* rules, the deployment sets the domains no letter may go to; a lead's    *)
(* recipients are resolved once, when it is created, and travel with its   *)
(* task, which LeadPipeline follows.                                       *)
(*                                                                         *)
(* An address stands for one spelling of a mailbox; lists of addresses are *)
(* sets, since duplicates are removed and nothing depends on the order.    *)
(* Every user has an address of his own, which does not change here.       *)
(***************************************************************************)
EXTENDS Naturals, FiniteSets

CONSTANTS RuleIds,      \* primary keys of LeadRoutingRule
          RuleForms,    \* what an administrator may save in the form of a rule
          Priorities,   \* what he may set in the list of rules
          Users, Departments,
          Accounts,     \* what may be saved as an account
          Leads,        \* subjects of leads: type and machine
          Addresses, Hosts,
          EmailOf,      \* address of each user (unique)
          HostOf,       \* domain of each address, lower-cased
          Below,        \* a domain with its subdomains
          Fallback,     \* LEADS_FALLBACK_EMAIL
          BlockLists,   \* values LEADS_BLOCKED_EMAIL_DOMAINS may have
          MaxQueued,    \* bound: tasks in the broker at a time
          Any, None

Rule == [type : {l.type : l \in Leads} \union {Any},
         machineType : {l.machineType : l \in Leads} \union {Any},
         category : UNION {l.categories : l \in Leads} \union {Any},
         department : Departments,
         emails : SUBSET Addresses,
         priority : Nat,
         active : BOOLEAN]

Account == [department : Departments \union {None}, subscribed : BOOLEAN, active : BOOLEAN]

ASSUME RoutingAssumption ==
    /\ RuleIds \subseteq Nat
    /\ RuleForms \subseteq Rule
    /\ \A form \in RuleForms : form.emails # {}
    /\ Priorities \subseteq Nat
    /\ Accounts \subseteq Account
    /\ EmailOf \in [Users -> Addresses]
    /\ HostOf \in [Addresses -> Hosts]
    /\ Below \in [Hosts -> SUBSET Hosts]
    /\ \A h \in Hosts : h \in Below[h]
    /\ Fallback \in Addresses
    /\ BlockLists \subseteq SUBSET Hosts
    /\ MaxQueued \in Nat
    /\ None \notin RuleIds \union Departments
    /\ None \notin Rule

VARIABLES rules,    \* saved rules, None where there is none
          staff,    \* accounts
          blocked,  \* LEADS_BLOCKED_EMAIL_DOMAINS of the running processes
          pending,  \* rules a removal command has still to write
          kept,     \* the addresses it will leave to them
          queue     \* tasks of the broker: recipients resolved for a lead

commandVars == <<pending, kept>>
vars == <<rules, staff, blocked, commandVars, queue>>

-----------------------------------------------------------------------------
(***************************************************************************)
(* match_rule and resolve_recipients                                       *)
(***************************************************************************)

\* A lead without a machine has machineType = None and no categories.
Matches(r, lead) ==
    /\ rules[r] # None
    /\ rules[r].active
    /\ rules[r].type \in {Any, lead.type}
    /\ rules[r].machineType \in {Any, lead.machineType}
    /\ rules[r].category \in lead.categories \union {Any}

Specificity(r) ==
    (IF rules[r].machineType # Any THEN 2 ELSE 0) + (IF rules[r].category # Any THEN 2 ELSE 0)
      + (IF rules[r].type # Any THEN 1 ELSE 0)

\* candidates of the code: its sort key is (priority, -specificity, pk).
SortKey(r) == [priority |-> rules[r].priority, specificity |-> Specificity(r), pk |-> r]
Candidates(lead) == {SortKey(r) : r \in {q \in RuleIds : Matches(q, lead)}}

\* Bug: the specificity enters the sort key with the wrong sign.
GeneralFirst(k1, k2) ==
    \/ k1.priority < k2.priority
    \/ /\ k1.priority = k2.priority
       /\ \/ k1.specificity < k2.specificity
          \/ k1.specificity = k2.specificity /\ k1.pk < k2.pk

Precedes(k1, k2) ==
    \/ k1.priority < k2.priority
    \/ /\ k1.priority = k2.priority
       /\ \/ k1.specificity > k2.specificity
          \/ k1.specificity = k2.specificity /\ k1.pk < k2.pk

First(keys) == CHOOSE k \in keys : \A other \in keys \ {k} : Precedes(k, other)

MatchRule(lead) == IF Candidates(lead) = {} THEN None ELSE First(Candidates(lead)).pk

IsBlocked(a) == \E h \in blocked : HostOf[a] \in Below[h]
FilterBlocked(addresses) == {a \in addresses : ~IsBlocked(a)}

\* lead_recipients: None stands for a lead without a department.
Subscribers(department) ==
    {EmailOf[u] : u \in {v \in Users :
        /\ staff[v].active /\ staff[v].subscribed
        /\ department # None => staff[v].department \in {None, department}}}

RuleEmails(rule) == IF rule = None THEN {} ELSE rules[rule].emails
RuleDepartment(rule) == IF rule = None THEN None ELSE rules[rule].department

\* Bug: subscribers only when the rule has no addresses.
ListedOrSubscribed(rule) ==
    IF RuleEmails(rule) # {} THEN RuleEmails(rule) ELSE Subscribers(RuleDepartment(rule))

Recipients(rule) == RuleEmails(rule) \union Subscribers(RuleDepartment(rule))

\* Bug: the fallback is not filtered.
ResolveAnyway(lead) ==
    LET allowed == FilterBlocked(Recipients(MatchRule(lead))) IN
    IF allowed # {} THEN allowed ELSE {Fallback}

Resolve(lead) ==
    LET allowed == FilterBlocked(Recipients(MatchRule(lead))) IN
    IF allowed # {} THEN allowed ELSE FilterBlocked({Fallback})

-----------------------------------------------------------------------------
Init ==
    /\ rules = [r \in RuleIds |-> None]
    /\ staff \in [Users -> Accounts]
    /\ blocked \in BlockLists
    /\ pending = {}
    /\ kept = [r \in RuleIds |-> {}]
    /\ queue = {}

(***************************************************************************)
(* The admin                                                               *)
(***************************************************************************)

\* A rule is created or all its columns are written from the form, which
\* does not accept an empty list of addresses.
SaveRule(r, form) ==
    /\ rules' = [rules EXCEPT ![r] = form]
    /\ UNCHANGED <<staff, blocked, commandVars, queue>>

\* The list of rules edits two columns and keeps what it read of the others.
EditInList(r, priority, active) ==
    /\ rules[r] # None
    /\ rules' = [rules EXCEPT ![r].priority = priority, ![r].active = active]
    /\ UNCHANGED <<staff, blocked, commandVars, queue>>

\* By hand, or with the machine type or category the rule names.
DeleteRule(r) ==
    /\ rules[r] # None
    /\ rules' = [rules EXCEPT ![r] = None]
    /\ UNCHANGED <<staff, blocked, commandVars, queue>>

SaveUser(u, account) ==
    /\ staff' = [staff EXCEPT ![u] = account]
    /\ UNCHANGED <<rules, blocked, commandVars, queue>>

\* A department rules refer to is protected; its staff lose their department.
DeleteDepartment(d) ==
    /\ \A r \in RuleIds : rules[r] # None => rules[r].department # d
    /\ staff' = [u \in Users |->
                   IF staff[u].department = d THEN [staff[u] EXCEPT !.department = None] ELSE staff[u]]
    /\ UNCHANGED <<rules, blocked, commandVars, queue>>

(***************************************************************************)
(* remove_lead_email; purge_email_domain does the same to the rules in one *)
(* transaction, as if all were written with nobody in between.             *)
(***************************************************************************)

OnDomain(h) == {a \in Addresses : HostOf[a] \in Below[h]}

\* The rules are read at once; those that hold a target are to be written.
BeginRemoval(targets) ==
    /\ pending = {}
    /\ pending' = {r \in RuleIds : rules[r] # None /\ rules[r].emails \intersect targets # {}}
    /\ kept' = [r \in RuleIds |-> IF r \in pending' THEN rules[r].emails \ targets ELSE {}]
    /\ UNCHANGED <<rules, staff, blocked, queue>>

\* Bug: a rule without addresses is switched off.
WriteOrSwitchOff(r) ==
    /\ r \in pending /\ rules[r] # None
    /\ rules' = [rules EXCEPT ![r].emails = kept[r], ![r].active = @ /\ kept[r] # {}]
    /\ pending' = pending \ {r}
    /\ kept' = [kept EXCEPT ![r] = {}]
    /\ UNCHANGED <<staff, blocked, queue>>

\* remove_lead_email saves the column emails of one rule after another.
WriteKept(r) ==
    /\ r \in pending /\ rules[r] # None
    /\ rules' = [rules EXCEPT ![r].emails = kept[r]]
    /\ pending' = pending \ {r}
    /\ kept' = [kept EXCEPT ![r] = {}]
    /\ UNCHANGED <<staff, blocked, queue>>

\* A rule deleted meanwhile: saving it raises and the command ends.
FailOnDeletedRule ==
    /\ \E r \in pending : rules[r] = None
    /\ pending' = {}
    /\ kept' = [r \in RuleIds |-> {}]
    /\ UNCHANGED <<rules, staff, blocked, queue>>

(***************************************************************************)
(* Deployment, leads and letters                                           *)
(***************************************************************************)

\* .env is changed and the processes restarted; the broker keeps its tasks.
Reconfigure(list) ==
    /\ blocked' = list
    /\ UNCHANGED <<rules, staff, commandVars, queue>>

CreateLead(lead) ==
    /\ Cardinality(queue) < MaxQueued
    /\ queue' = queue \union {Resolve(lead)}
    /\ UNCHANGED <<rules, staff, blocked, commandVars>>

\* The worker sends to the recipients the task carries.
SendLetter(m) ==
    /\ queue' = queue \ {m}
    /\ UNCHANGED <<rules, staff, blocked, commandVars>>

-----------------------------------------------------------------------------
Administrate ==
    \/ \E r \in RuleIds : DeleteRule(r) \/ \E form \in RuleForms : SaveRule(r, form)
    \/ \E r \in RuleIds, priority \in Priorities, active \in BOOLEAN : EditInList(r, priority, active)
    \/ \E u \in Users, account \in Accounts : SaveUser(u, account)
    \/ \E d \in Departments : DeleteDepartment(d)

Remove ==
    \/ \E a \in Addresses : BeginRemoval({a})
    \/ \E h \in Hosts : BeginRemoval(OnDomain(h))
    \/ \E r \in RuleIds : WriteKept(r)
    \/ FailOnDeletedRule

Next ==
    \/ Administrate
    \/ Remove
    \/ \E list \in BlockLists : Reconfigure(list)
    \/ \E lead \in Leads : CreateLead(lead)
    \/ \E m \in queue : SendLetter(m)

Spec == Init /\ [][Next]_vars

-----------------------------------------------------------------------------
TypeOK ==
    /\ rules \in [RuleIds -> Rule \union {None}]
    /\ staff \in [Users -> Account]
    /\ blocked \in BlockLists
    /\ pending \subseteq RuleIds
    /\ kept \in [RuleIds -> SUBSET Addresses]
    /\ queue \subseteq SUBSET Addresses

\* Among the rules of the best priority a rule that names the machine is
\* never shadowed by one that does not, whatever was created first.
SpecificRuleWins ==
    \A lead \in Leads, r \in RuleIds :
      Matches(r, lead) =>
        LET chosen == MatchRule(lead) IN
        /\ chosen # None
        /\ rules[chosen].priority <= rules[r].priority
        /\ rules[chosen].priority = rules[r].priority => Specificity(chosen) >= Specificity(r)

\* Who is entitled to a lead: the addresses of the rule that takes it, the
\* subscribers of its department and those of none; where no rule takes it,
\* every subscriber.
Entitled(a, lead) ==
    LET rule == MatchRule(lead) IN
    \/ rule # None /\ a \in rules[rule].emails
    \/ \E u \in Users : /\ EmailOf[u] = a /\ staff[u].subscribed /\ staff[u].active
                        /\ rule = None \/ staff[u].department \in {None, rules[rule].department}

\* A lead goes to all who are entitled to it and not blocked, and to nobody
\* else (staff of another department among them); where there are none, to the
\* fallback address alone, and to nobody only if that is itself blocked:
\* however rules and accounts were edited and emptied (resolve_recipients,
\* UserManager.lead_recipients).
RightRecipients ==
    \A lead \in Leads :
      LET reachable == {a \in Addresses : Entitled(a, lead) /\ ~IsBlocked(a)} IN
      IF reachable # {}
        THEN Resolve(lead) = reachable
        ELSE Resolve(lead) = {a \in {Fallback} : ~IsBlocked(a)}

\* No task is created with an address on a domain blocked at that moment.
LeadsAvoidBlocked ==
    [][\A m \in queue' \ queue : \A a \in m : ~IsBlocked(a)]_vars

\* Removing addresses from the rules never changes which department a lead
\* belongs to, even when a rule is left without any.
RemovalKeepsDepartment ==
    [][pending \ pending' # {} =>
         \A lead \in Leads : RuleDepartment(MatchRule(lead))' = RuleDepartment(MatchRule(lead))]_vars
=============================================================================
