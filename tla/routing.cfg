\* Rules, accounts, block lists and removal commands in every order.
SPECIFICATION Spec
CONSTANTS
    head = head
    clerk = clerk
    sales = sales
    parts = parts
    salesBox = salesBox
    headBox = headBox
    clerkBox = clerkBox
    office = office
    corp = corp
    branch = branch
    own = own
    RuleIds = {1, 2}
    RuleForms <- MCRuleForms
    Priorities = {0, 1}
    Users = {head, clerk}
    Departments = {sales, parts}
    Accounts <- MCAccounts
    Leads <- MCLeads
    Addresses = {salesBox, headBox, clerkBox, office}
    Hosts = {corp, branch, own}
    EmailOf <- MCEmailOf
    HostOf <- MCHostOf
    Below <- MCBelow
    Fallback = office
    BlockLists <- MCBlockLists
    MaxQueued = 1
    Any = Any
    None = None
INVARIANTS
    SpecificRuleWins
    RightRecipients
PROPERTIES
    LeadsAvoidBlocked
    RemovalKeepsDepartment
