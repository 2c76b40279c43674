-------------------------- MODULE LeadRoutingProofs --------------------------
(***************************************************************************)
(* Facts about routing for any rules, staff, domains and block lists.      *)
(***************************************************************************)
EXTENDS LeadRouting, WellFoundedInduction, TLAPS

LEMMA LeastNatural ==
  ASSUME NEW T, T \subseteq Nat, T # {}
  PROVE  \E x \in T : \A y \in T : x <= y
<1> DEFINE R == OpToRel(<, Nat)
<1>1. IsWellFoundedOn(R, Nat)
  BY NatLessThanWellFounded
<1> HIDE DEF R
<1>2. PICK x \in T : \A y \in T : ~(<<y, x>> \in R)
  BY <1>1, WFMin
<1>3. \A m, n \in Nat : m < n => <<m, n>> \in R
  BY DEF R, OpToRel
<1>4. ASSUME NEW y \in T PROVE x <= y
  <2>1. x \in Nat /\ y \in Nat
    OBVIOUS
  <2>2. ~(y < x)
    BY <1>2, <1>3, <2>1
  <2> QED
    BY <2>1, <2>2
<1> QED
  BY <1>4

Keys == [priority : Nat, specificity : 0 .. 5, pk : Nat]

\* The sort key is a strict total order on the rules, so sorting has a first
\* element: the least priority, then the greatest specificity, then the
\* least primary key.
LEMMA FirstExists ==
  ASSUME NEW keys, keys \subseteq Keys, keys # {},
         \A k1, k2 \in keys : k1.pk = k2.pk => k1 = k2
  PROVE  /\ First(keys) \in keys
         /\ \A other \in keys \ {First(keys)} : Precedes(First(keys), other)
<1> DEFINE priorities == {k.priority : k \in keys}
<1>1. PICK p \in priorities : \A y \in priorities : p <= y
  <2>1. priorities \subseteq Nat /\ priorities # {}
    BY DEF Keys
  <2> QED
    BY <2>1, LeastNatural
<1> DEFINE best == {k \in keys : k.priority = p}
           ranks == {5 - k.specificity : k \in best}
<1>2. PICK s \in ranks : \A y \in ranks : s <= y
  <2>1. ranks \subseteq Nat /\ ranks # {}
    BY DEF Keys
  <2> QED
    BY <2>1, LeastNatural
<1> DEFINE sharp == {k \in best : 5 - k.specificity = s}
           pks == {k.pk : k \in sharp}
<1>3. PICK n \in pks : \A y \in pks : n <= y
  <2>1. pks \subseteq Nat /\ pks # {}
    BY DEF Keys
  <2> QED
    BY <2>1, LeastNatural
<1>4. PICK k \in sharp : k.pk = n
  BY <1>3
<1>5. ASSUME NEW other \in keys \ {k} PROVE Precedes(k, other)
  <2> DEFINE K(r) == r.priority \in Nat /\ r.specificity \in 0 .. 5 /\ r.pk \in Nat
  <2>1. K(k) /\ K(other) /\ k.pk # other.pk
    BY <1>4 DEF Keys
  <2>2. k.priority <= other.priority
    BY <1>1, <1>4
  <2>3. other.priority = k.priority => other.specificity <= k.specificity
    <3>1. other.priority = k.priority => s <= 5 - other.specificity
      BY <1>2, <1>4
    <3> QED
      BY <1>4, <2>1, <3>1
  <2>4. other.priority = k.priority /\ other.specificity = k.specificity => k.pk <= other.pk
    BY <1>3, <1>4
  <2> QED
    BY <2>1, <2>2, <2>3, <2>4 DEF Precedes
<1> QED
  BY <1>4, <1>5 DEF First

LEMMA CandidateKeys ==
  ASSUME TypeOK, NEW lead
  PROVE  /\ Candidates(lead) \subseteq Keys
         /\ \A k1, k2 \in Candidates(lead) : k1.pk = k2.pk => k1 = k2
<1>1. ASSUME NEW r \in RuleIds, Matches(r, lead) PROVE SortKey(r) \in Keys
  <2>1. rules[r] \in Rule /\ r \in Nat
    BY <1>1, RoutingAssumption DEF TypeOK, Matches
  <2>2. Specificity(r) \in 0 .. 5
    BY DEF Specificity
  <2>3. rules[r].priority \in Nat
    BY <2>1 DEF Rule
  <2> QED
    BY <2>1, <2>2, <2>3 DEF SortKey, Keys
<1> QED
  BY <1>1 DEF Candidates, SortKey

\* The chosen rule matches, and it comes before every other one that does.
LEMMA MatchRuleIsFirst ==
  ASSUME TypeOK, NEW lead, Candidates(lead) # {}
  PROVE  /\ MatchRule(lead) \in RuleIds
         /\ Matches(MatchRule(lead), lead)
         /\ \A r \in RuleIds \ {MatchRule(lead)} :
               Matches(r, lead) => Precedes(SortKey(MatchRule(lead)), SortKey(r))
<1>1. /\ First(Candidates(lead)) \in Candidates(lead)
      /\ \A other \in Candidates(lead) \ {First(Candidates(lead))} :
           Precedes(First(Candidates(lead)), other)
  BY CandidateKeys, FirstExists
<1>2. PICK r \in RuleIds : Matches(r, lead) /\ First(Candidates(lead)) = SortKey(r)
  BY <1>1 DEF Candidates
<1>3. MatchRule(lead) = r
  BY <1>2 DEF MatchRule, SortKey
<1>4. ASSUME NEW q \in RuleIds \ {r}, Matches(q, lead) PROVE Precedes(SortKey(r), SortKey(q))
  <2>1. SortKey(q) \in Candidates(lead) /\ SortKey(q) # SortKey(r)
    BY <1>4 DEF Candidates, SortKey
  <2> QED
    BY <1>1, <1>2, <2>1
<1> QED
  BY <1>2, <1>3, <1>4

\* The addresses and the department of the chosen rule are of the right type.
LEMMA ChosenRule ==
  ASSUME TypeOK, NEW lead, MatchRule(lead) # None
  PROVE  /\ rules[MatchRule(lead)].emails \subseteq Addresses
         /\ rules[MatchRule(lead)].department # None
<1>1. Candidates(lead) # {}
  BY DEF MatchRule
<1>2. MatchRule(lead) \in RuleIds /\ rules[MatchRule(lead)] # None
  BY <1>1, MatchRuleIsFirst DEF Matches
<1>3. rules[MatchRule(lead)] \in Rule
  BY <1>2 DEF TypeOK
<1> QED
  BY <1>3, RoutingAssumption DEF Rule

\* What is collected before blocked domains are dropped: everybody entitled.
LEMMA RecipientsAreEntitled ==
  ASSUME TypeOK, NEW lead
  PROVE  Recipients(MatchRule(lead)) = {a \in Addresses : Entitled(a, lead)}
<1>1. ASSUME NEW a PROVE a \in Subscribers(RuleDepartment(MatchRule(lead))) <=>
                           \E u \in Users :
                             /\ EmailOf[u] = a /\ staff[u].subscribed /\ staff[u].active
                             /\ \/ MatchRule(lead) = None
                                \/ staff[u].department \in {None, rules[MatchRule(lead)].department}
  <2>1. CASE MatchRule(lead) = None
    BY <2>1 DEF RuleDepartment, Subscribers
  <2>2. CASE MatchRule(lead) # None
    <3>1. /\ RuleDepartment(MatchRule(lead)) = rules[MatchRule(lead)].department
          /\ RuleDepartment(MatchRule(lead)) # None
      BY <2>2, ChosenRule DEF RuleDepartment
    <3> QED
      BY <2>2, <3>1 DEF Subscribers
  <2> QED
    BY <2>1, <2>2
<1>2. ASSUME NEW a PROVE a \in RuleEmails(MatchRule(lead)) <=>
                           MatchRule(lead) # None /\ a \in rules[MatchRule(lead)].emails
  BY DEF RuleEmails
<1>3. ASSUME NEW a PROVE a \in Recipients(MatchRule(lead)) <=> Entitled(a, lead)
  BY <1>1, <1>2 DEF Recipients, Entitled
<1>4. ASSUME NEW a, Entitled(a, lead) PROVE a \in Addresses
  BY <1>4, ChosenRule, RoutingAssumption DEF Entitled
<1> QED
  BY <1>3, <1>4

LEMMA ResolveType == \A lead \in Leads : TypeOK => Resolve(lead) \subseteq Addresses
BY RecipientsAreEntitled, RoutingAssumption DEF Resolve, FilterBlocked

LEMMA RoutingTypeStep == TypeOK /\ [Next]_vars => TypeOK'
<1> SUFFICES ASSUME TypeOK, [Next]_vars PROVE TypeOK'
  OBVIOUS
<1> USE RoutingAssumption DEF TypeOK, commandVars
<1>1. ASSUME NEW r \in RuleIds, DeleteRule(r) \/ \E form \in RuleForms : SaveRule(r, form)
      PROVE  TypeOK'
  BY <1>1 DEF DeleteRule, SaveRule
<1>2. ASSUME NEW r \in RuleIds, NEW priority \in Priorities, NEW active \in BOOLEAN,
              EditInList(r, priority, active)
       PROVE  TypeOK'
  <2>1. rules[r] \in Rule
    BY <1>2 DEF EditInList
  <2>2. [rules[r] EXCEPT !.priority = priority, !.active = active] \in Rule
    BY <2>1 DEF Rule
  <2>3. rules' = [rules EXCEPT ![r] = [rules[r] EXCEPT !.priority = priority, !.active = active]]
    BY <1>2 DEF EditInList
  <2>4. rules' \in [RuleIds -> Rule \union {None}]
    BY <2>2, <2>3
  <2> QED
    BY <1>2, <2>4 DEF EditInList
<1>3. ASSUME NEW u \in Users, NEW account \in Accounts, SaveUser(u, account) PROVE TypeOK'
  BY <1>3 DEF SaveUser
<1>4. ASSUME NEW d \in Departments, DeleteDepartment(d) PROVE TypeOK'
  BY <1>4 DEF DeleteDepartment, Account
<1>5. ASSUME NEW targets \in SUBSET Addresses, BeginRemoval(targets) PROVE TypeOK'
  BY <1>5 DEF BeginRemoval, Rule
<1>6. ASSUME NEW r \in RuleIds, WriteKept(r) PROVE TypeOK'
  BY <1>6 DEF WriteKept, Rule
<1>7. CASE FailOnDeletedRule
  BY <1>7 DEF FailOnDeletedRule
<1>8. ASSUME NEW list \in BlockLists, Reconfigure(list) PROVE TypeOK'
  BY <1>8 DEF Reconfigure
<1>9. ASSUME NEW lead \in Leads, CreateLead(lead) PROVE TypeOK'
  <2>1. Resolve(lead) \subseteq Addresses
    BY ResolveType
  <2> QED
    BY <1>9, <2>1 DEF CreateLead
<1>10. ASSUME NEW m \in queue, SendLetter(m) PROVE TypeOK'
  BY <1>10 DEF SendLetter
<1>11. CASE UNCHANGED vars
  BY <1>11 DEF vars
<1>12. \A a \in Addresses : {a} \in SUBSET Addresses
  OBVIOUS
<1>13. \A h \in Hosts : OnDomain(h) \in SUBSET Addresses
  BY DEF OnDomain
<1>14. CASE Administrate
  BY <1>1, <1>3, <1>4, <1>2, <1>14 DEF Administrate
<1>15. CASE Remove
  BY <1>5, <1>6, <1>7, <1>12, <1>13, <1>15 DEF Remove
<1> QED
  BY <1>8, <1>9, <1>10, <1>11, <1>14, <1>15 DEF Next

\* Rules, accounts, commands and tasks keep their type.
THEOREM RoutingTypeCorrect == Spec => []TypeOK
<1>1. Init => TypeOK
  BY RoutingAssumption DEF Init, TypeOK
<1>2. QED
  BY <1>1, RoutingTypeStep, PTL DEF Spec

-----------------------------------------------------------------------------
\* In every state a lead reaches exactly those entitled to it whose domain is
\* not blocked, or the fallback address when there are none.
THEOREM RightRecipientsHolds == Spec => []RightRecipients
<1>1. TypeOK => RightRecipients
  <2> SUFFICES ASSUME TypeOK, NEW lead \in Leads
               PROVE  LET reachable == {a \in Addresses : Entitled(a, lead) /\ ~IsBlocked(a)} IN
                      IF reachable # {}
                        THEN Resolve(lead) = reachable
                        ELSE Resolve(lead) = {a \in {Fallback} : ~IsBlocked(a)}
    BY DEF RightRecipients
  <2>1. FilterBlocked(Recipients(MatchRule(lead))) = {a \in Addresses : Entitled(a, lead) /\ ~IsBlocked(a)}
    BY RecipientsAreEntitled DEF FilterBlocked
  <2> QED
    BY <2>1 DEF Resolve, FilterBlocked
<1>2. QED
  BY <1>1, RoutingTypeCorrect, PTL

\* No task is created with an address that is blocked at that moment.
THEOREM LeadsAvoidBlockedHolds == Spec => LeadsAvoidBlocked
<1>1. ASSUME [Next]_vars PROVE [\A m \in queue' \ queue : \A a \in m : ~IsBlocked(a)]_vars
  <2>1. ASSUME NEW lead \in Leads, CreateLead(lead)
        PROVE  \A m \in queue' \ queue : \A a \in m : ~IsBlocked(a)
    BY <2>1 DEF CreateLead, Resolve, FilterBlocked
  <2>2. CASE queue' \subseteq queue
    BY <2>2
  <2> QED
    BY <1>1, <2>1, <2>2
    DEF Next, Administrate, Remove, DeleteRule, SaveRule, EditInList, SaveUser, DeleteDepartment, BeginRemoval,
        WriteKept, FailOnDeletedRule, Reconfigure, SendLetter, vars
<1>2. QED
  BY <1>1, PTL DEF Spec, LeadsAvoidBlocked

-----------------------------------------------------------------------------
\* What the choice of a rule depends on: everything about a rule but its addresses.
LEMMA CandidatesKept ==
  ASSUME TypeOK, NEW r \in RuleIds, WriteKept(r), NEW lead \in Leads
  PROVE  Candidates(lead)' = Candidates(lead)
<1> USE RoutingAssumption DEF TypeOK
<1>1. \A q \in RuleIds \ {r} : rules'[q] = rules[q]
  BY DEF WriteKept
<1>2. rules'[r] = [rules[r] EXCEPT !.emails = kept[r]] /\ rules[r] \in Rule
  BY DEF WriteKept
<1>3. /\ rules'[r] # None
      /\ rules'[r].type = rules[r].type /\ rules'[r].machineType = rules[r].machineType
      /\ rules'[r].category = rules[r].category /\ rules'[r].priority = rules[r].priority
      /\ rules'[r].active = rules[r].active
  BY <1>2 DEF Rule
<1>4. \A q \in RuleIds : Matches(q, lead)' <=> Matches(q, lead)
  BY <1>1, <1>2, <1>3 DEF Matches
<1>5. \A q \in RuleIds : SortKey(q)' = SortKey(q)
  BY <1>1, <1>3 DEF SortKey, Specificity
<1> QED
  BY <1>4, <1>5 DEF Candidates

LEMMA SameCandidates ==
  ASSUME NEW lead, Candidates(lead)' = Candidates(lead)
  PROVE  MatchRule(lead)' = MatchRule(lead)
BY DEF MatchRule

\* The departments of the rules are not changed by a removal either.
LEMMA DepartmentsKept ==
  ASSUME TypeOK, NEW r \in RuleIds, WriteKept(r)
  PROVE  \A q \in RuleIds : rules[q] # None => rules'[q].department = rules[q].department
<1> USE RoutingAssumption DEF TypeOK
<1>1. rules'[r] = [rules[r] EXCEPT !.emails = kept[r]] /\ rules[r] \in Rule
  BY DEF WriteKept
<1> QED
  BY <1>1 DEF WriteKept, Rule

\* Removing addresses never moves a lead to another department, whoever edits
\* rules between the writes of the command.
THEOREM RemovalKeepsDepartmentHolds == Spec => RemovalKeepsDepartment
<1> DEFINE D(lead) == RuleDepartment(MatchRule(lead))
<1>1. ASSUME TypeOK, [Next]_vars, pending \ pending' # {}, NEW lead \in Leads
      PROVE  D(lead)' = D(lead)
  <2>1. ASSUME NEW r \in RuleIds, WriteKept(r) PROVE D(lead)' = D(lead)
    <3>1. Candidates(lead)' = Candidates(lead)
      BY <1>1, <2>1, CandidatesKept
    <3>2. MatchRule(lead)' = MatchRule(lead)
      BY <3>1, SameCandidates
    <3>3. CASE MatchRule(lead) = None
      BY <3>2, <3>3 DEF RuleDepartment
    <3>4. CASE MatchRule(lead) # None
      <4>1. Candidates(lead) # {}
        BY <3>4 DEF MatchRule
      <4>2. MatchRule(lead) \in RuleIds /\ rules[MatchRule(lead)] # None
        BY <1>1, <4>1, MatchRuleIsFirst DEF Matches
      <4>3. rules'[MatchRule(lead)].department = rules[MatchRule(lead)].department
        BY <1>1, <2>1, <4>2, DepartmentsKept
      <4> QED
        BY <3>2, <3>4, <4>3 DEF RuleDepartment
    <3> QED
      BY <3>3, <3>4
  <2>2. CASE FailOnDeletedRule
    BY <2>2 DEF FailOnDeletedRule, RuleDepartment, MatchRule, Candidates, SortKey, Matches,
                Specificity
  <2>3. CASE pending \subseteq pending'
    BY <1>1, <2>3
  <2> QED
    BY <1>1, <2>1, <2>2, <2>3
    DEF Next, Administrate, Remove, DeleteRule, SaveRule, EditInList, SaveUser, DeleteDepartment, BeginRemoval,
        Reconfigure, CreateLead, SendLetter, commandVars, vars
<1>2. TypeOK /\ [Next]_vars =>
        [pending \ pending' # {} => \A lead \in Leads : D(lead)' = D(lead)]_vars
  BY <1>1
<1> QED
  BY <1>2, RoutingTypeCorrect, PTL DEF Spec, RemovalKeepsDepartment

\* The rule chosen for a lead has the best priority of all that match it,
\* and among those of that priority it says the most about the machine.
THEOREM SpecificRuleWinsHolds == Spec => []SpecificRuleWins
<1>1. TypeOK => SpecificRuleWins
  <2> SUFFICES ASSUME TypeOK, NEW lead \in Leads, NEW r \in RuleIds, Matches(r, lead)
               PROVE  LET chosen == MatchRule(lead) IN
                      /\ chosen # None
                      /\ rules[chosen].priority <= rules[r].priority
                      /\ rules[chosen].priority = rules[r].priority
                           => Specificity(chosen) >= Specificity(r)
    BY DEF SpecificRuleWins
  <2> DEFINE chosen == MatchRule(lead)
  <2>1. /\ chosen \in RuleIds /\ Matches(chosen, lead)
        /\ \A q \in RuleIds \ {chosen} : Matches(q, lead) => Precedes(SortKey(chosen), SortKey(q))
    <3>1. Candidates(lead) # {}
      BY DEF Candidates
    <3> QED
      BY <3>1, MatchRuleIsFirst
  <2> HIDE DEF chosen
  <2>2. chosen # None
    BY <2>1, RoutingAssumption
  <2>3. \A q \in RuleIds : Matches(q, lead) => rules[q].priority \in Nat
    BY DEF TypeOK, Matches, Rule
  <2>4. \A q : Specificity(q) \in 0 .. 5
    BY DEF Specificity
  <2>5. CASE r = chosen
    BY <2>1, <2>2, <2>3, <2>4, <2>5 DEF chosen
  <2>6. CASE r # chosen
    <3>1. Precedes(SortKey(chosen), SortKey(r))
      BY <2>1, <2>6
    <3>2. /\ rules[chosen].priority <= rules[r].priority
          /\ rules[chosen].priority = rules[r].priority => Specificity(chosen) >= Specificity(r)
      BY <2>1, <2>3, <2>4, <3>1 DEF Precedes, SortKey
    <3> QED
      BY <2>2, <3>2 DEF chosen
  <2> QED
    BY <2>5, <2>6
<1> QED
  BY <1>1, RoutingTypeCorrect, PTL
=============================================================================
