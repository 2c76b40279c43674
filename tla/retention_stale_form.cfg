\* A form opened before the purge is submitted after it.
SPECIFICATION Spec
CONSTANTS
    Leads = {l1}
    Docs = {d1}
    Purges = {p1}
    ListEditors = {}
    FormEditors = {e1}
    MaxDisturbances = 1
    Gone = Gone
CHECK_DEADLOCK FALSE
INVARIANTS
    AnonymizedIsClean
