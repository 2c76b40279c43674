---------------------------- MODULE SiteContext ----------------------------
(***************************************************************************)
(* What every page of the site needs: the settings and the leasing terms,  *)
(* each a single row created by the first request and cached for ten       *)
(* minutes, and the menu, cached as long; and the addresses of the pages   *)
(* themselves, kept ready in every row of the page tree.                   *)
(*                                                                         *)
(* A page is rendered inside the transaction of its view, or after it (a   *)
(* TemplateResponse).  A cached entry is cleared when its row is saved,    *)
(* before the transaction commits; the menu's never is.                    *)
(***************************************************************************)
EXTENDS Naturals, Sequences, FiniteSets

CONSTANTS Requests,    \* requests rendering a page
          Singletons,  \* the entries whose row the first request creates
          Menus,       \* the entries made of many rows
          TTL,         \* life of a cached entry
          Pages, Slugs,
          MaxEdits,    \* bound on the saves of administrators
          MaxTime,     \* bound on the clock
          None

Entries == Singletons \union Menus
Page == [slug : Slugs, parent : Pages \union {None}, path : Seq(Slugs)]

ASSUME ContextAssumption ==
    /\ Singletons \intersect Menus = {}
    /\ TTL \in Nat \ {0} /\ {MaxEdits, MaxTime} \subseteq Nat
    /\ None \notin Entries \union Pages \union Requests \union Page
    /\ IsFiniteSet(Pages)

VARIABLES now,     \* the clock
          table,   \* version of an entry's row or rows; 0 where there is none
          until,   \* when each version of an entry was replaced
          cached,  \* entry -> version and time, or None
          req,     \* where each request stands
          maker,   \* the request that has inserted an entry's row, not committed
          saving,  \* the entry an administrator is saving, or None
          crossed, \* entries read while they were being saved
          shown,   \* the last entry a page was rendered with
          pages,   \* slug, parent and stored address of a page
          stale,   \* pages whose place in the tree changed after their last save
          edits    \* saves so far

contextVars == <<table, until, cached, req, maker, saving, crossed, shown>>
pageVars == <<pages, stale>>
vars == <<now, contextVars, pageVars, edits>>

Idle == [at |-> "idle"]
Nothing == [entry |-> None, version |-> 0, time |-> 0, latest |-> 0, crossed |-> FALSE]

Init ==
    /\ now = 0 /\ edits = 0
    /\ table = [e \in Entries |-> IF e \in Singletons THEN 0 ELSE 1]
    /\ until = [e \in Entries |-> <<>>]
    /\ cached = [e \in Entries |-> None]
    /\ req = [r \in Requests |-> Idle]
    /\ maker = [e \in Entries |-> None]
    /\ saving = None /\ crossed = {} /\ shown = Nothing
    /\ pages = [p \in Pages |-> None] /\ stale = {}

\* A request takes less than a tick.
Tick ==
    /\ now < MaxTime /\ \A r \in Requests : req[r] = Idle
    /\ now' = now + 1
    /\ UNCHANGED <<contextVars, pageVars, edits>>

(***************************************************************************)
(* Rendering a page                                                        *)
(***************************************************************************)

At(r, place) == req[r] # Idle /\ req[r].at = place
Show(e, v) == shown' = [entry |-> e, version |-> v, time |-> now, latest |-> table[e],
                        crossed |-> e \in crossed]

\* Bug: an entry is cached for good.
UsableForever(e) == cached[e] # None

Usable(e) == cached[e] # None /\ now - cached[e].time < TTL

Hit(r, e) ==
    /\ req[r] = Idle /\ Usable(e)
    /\ Show(e, cached[e].version)
    /\ UNCHANGED <<now, table, until, cached, req, maker, saving, crossed,
                   pageVars, edits>>

Miss(r, e, atomic) ==
    /\ req[r] = Idle /\ ~Usable(e)
    /\ req' = [req EXCEPT ![r] = [at |-> "get", entry |-> e, atomic |-> atomic, version |-> 0]]
    /\ crossed' = IF saving = e THEN crossed \union {e} ELSE crossed
    /\ UNCHANGED <<now, table, until, cached, maker, saving, shown, pageVars, edits>>

\* The rows of a menu, or get_or_create looking for the row.
Get(r) ==
    LET e == req[r].entry IN
    /\ At(r, "get")
    /\ req' = [req EXCEPT ![r] = [@ EXCEPT !.at = IF table[e] = 0 THEN "check" ELSE "fill",
                                           !.version = table[e]]]
    /\ UNCHANGED <<now, table, until, cached, maker, saving, crossed, shown,
                   pageVars, edits>>

\* There was none, so create() saves a new one; save() runs full_clean, which
\* refuses the key if another request has committed the row by now: this one
\* is answered with a server error.
Check(r) ==
    LET taken == table[req[r].entry] # 0 IN
    /\ At(r, "check")
    /\ req' = [req EXCEPT ![r] = IF taken THEN Idle ELSE [@ EXCEPT !.at = "insert"]]
    /\ UNCHANGED <<now, table, until, cached, maker, saving, crossed, shown, pageVars, edits>>

\* Bug: the new row is saved without saying that it is new.
InsertOver(r) ==
    LET e == req[r].entry IN
    /\ At(r, "insert") /\ maker[e] = None
    /\ table' = IF req[r].atomic THEN table ELSE [table EXCEPT ![e] = 1]
    /\ maker' = IF req[r].atomic THEN [maker EXCEPT ![e] = r] ELSE maker
    /\ cached' = [cached EXCEPT ![e] = None]
    /\ req' = [req EXCEPT ![r] = [@ EXCEPT !.at = "fill", !.version = 1]]
    /\ UNCHANGED <<now, until, saving, crossed, shown, pageVars, edits>>

\* The insertion waits for another one of the same key; an IntegrityError is
\* caught and the row read after all.
Insert(r) ==
    LET e == req[r].entry
        taken == table[e] # 0
    IN /\ At(r, "insert") /\ maker[e] = None
       /\ table' = IF taken \/ req[r].atomic THEN table ELSE [table EXCEPT ![e] = 1]
       /\ maker' = IF ~taken /\ req[r].atomic THEN [maker EXCEPT ![e] = r] ELSE maker
       /\ cached' = IF taken THEN cached ELSE [cached EXCEPT ![e] = None]
       /\ req' = [req EXCEPT ![r] = [@ EXCEPT !.at = "fill",
                                              !.version = IF taken THEN table[e] ELSE 1]]
       /\ UNCHANGED <<now, until, saving, crossed, shown, pageVars, edits>>

Fill(r) ==
    LET e == req[r].entry IN
    /\ At(r, "fill")
    /\ cached' = [cached EXCEPT ![e] = [version |-> req[r].version, time |-> now]]
    /\ Show(e, req[r].version)
    /\ req' = [req EXCEPT ![r] = IF maker[e] = r THEN [@ EXCEPT !.at = "end"] ELSE Idle]
    /\ UNCHANGED <<now, table, until, maker, saving, crossed, pageVars, edits>>

\* The transaction that has created a row ends, one way or the other.
EndRequest(r) ==
    LET e == req[r].entry IN
    /\ At(r, "end")
    /\ \E committed \in BOOLEAN :
          table' = IF committed THEN [table EXCEPT ![e] = 1] ELSE table
    /\ maker' = [maker EXCEPT ![e] = None]
    /\ req' = [req EXCEPT ![r] = Idle]
    /\ UNCHANGED <<now, until, cached, saving, crossed, shown, pageVars, edits>>

(***************************************************************************)
(* An administrator saves the settings, the terms or a menu item           *)
(***************************************************************************)

\* Bug: the cached entry is left to expire.
SaveOnly(e) ==
    /\ saving = None /\ table[e] # 0 /\ edits < MaxEdits
    /\ saving' = e /\ edits' = edits + 1
    /\ cached' = cached
    /\ crossed' = IF \E r \in Requests : req[r] # Idle /\ req[r].entry = e
                  THEN crossed \union {e} ELSE crossed \ {e}
    /\ UNCHANGED <<now, table, until, req, maker, shown, pageVars>>

Save(e) ==
    /\ saving = None /\ table[e] # 0 /\ edits < MaxEdits
    /\ saving' = e /\ edits' = edits + 1
    /\ cached' = IF e \in Singletons THEN [cached EXCEPT ![e] = None] ELSE cached
    /\ crossed' = IF \E r \in Requests : req[r] # Idle /\ req[r].entry = e
                  THEN crossed \union {e} ELSE crossed \ {e}
    /\ UNCHANGED <<now, table, until, req, maker, shown, pageVars>>

EndSave ==
    /\ saving # None
    /\ \/ /\ table' = [table EXCEPT ![saving] = @ + 1]
          /\ until' = [until EXCEPT ![saving] = Append(@, now)]
       \/ UNCHANGED <<table, until>>
    /\ saving' = None
    /\ UNCHANGED <<now, cached, req, maker, crossed, shown, pageVars, edits>>

(***************************************************************************)
(* The tree of pages                                                       *)
(***************************************************************************)

There == {p \in Pages : pages[p] # None}

\* build_url_path: the slugs of all ancestors and the page's own.
Address(tree) ==
    LET of[n \in 0 .. Cardinality(Pages)] == [p \in {q \in Pages : tree[q] # None} |->
          IF tree[p].parent = None \/ n = 0 THEN <<tree[p].slug>>
          ELSE Append(of[n - 1][tree[p].parent], tree[p].slug)]
    IN of[Cardinality(Pages)]

\* A page and all below it.
Subtree(p) ==
    LET below[n \in 0 .. Cardinality(Pages)] ==
          IF n = 0 THEN {p}
          ELSE below[n - 1] \union {q \in There : pages[q].parent \in below[n - 1]}
    IN below[Cardinality(Pages)]

Written(p, s, parent) == [pages EXCEPT ![p] = [slug |-> s, parent |-> parent, path |-> <<>>]]

\* Bug: the address is made of the slug alone.
PathOfSlug(p, tree) == <<tree[p].slug>>

PathOf(p, tree) == Address(tree)[p]

\* Page.save: the address is built from the tree as it is now, for this page
\* alone; the save fails if another page is stored under it.
SavePage(p, s, parent) ==
    LET tree == Written(p, s, parent)
        path == PathOf(p, tree)
    IN /\ edits < MaxEdits /\ edits' = edits + 1
       /\ parent = None \/ parent \in There \ (IF pages[p] = None THEN {p} ELSE Subtree(p))
       /\ \A q \in There \ {p} : pages[q].path # path
       /\ pages' = [tree EXCEPT ![p].path = path]
       /\ stale' = IF pages[p] = None THEN stale ELSE (stale \union Subtree(p)) \ {p}
       /\ UNCHANGED <<now, contextVars>>

\* Dragging a page in the list moves it without saving it.
DragPage(p, parent) ==
    /\ p \in There /\ parent \in {None} \union (There \ Subtree(p))
    /\ edits < MaxEdits /\ edits' = edits + 1
    /\ pages' = [pages EXCEPT ![p].parent = parent]
    /\ stale' = stale \union Subtree(p)
    /\ UNCHANGED <<now, contextVars>>

DeletePage(p) ==
    /\ p \in There /\ edits < MaxEdits /\ edits' = edits + 1
    /\ pages' = [q \in Pages |-> IF q \in Subtree(p) THEN None ELSE pages[q]]
    /\ stale' = stale \ Subtree(p)
    /\ UNCHANGED <<now, contextVars>>

Next ==
    \/ Tick \/ EndSave
    \/ \E e \in Entries : Save(e)
    \/ \E r \in Requests :
         \/ \E e \in Entries : Hit(r, e)
         \/ \E e \in Entries, atomic \in BOOLEAN : Miss(r, e, atomic)
         \/ Get(r) \/ Check(r) \/ Insert(r) \/ Fill(r) \/ EndRequest(r)
    \/ \E p \in Pages :
         \/ \E s \in Slugs, parent \in Pages \union {None} : SavePage(p, s, parent)
         \/ \E parent \in Pages \union {None} : DragPage(p, parent)
         \/ DeletePage(p)

Spec == Init /\ [][Next]_vars

(***************************************************************************)
(* Properties                                                              *)
(***************************************************************************)

Version == [version : Nat, time : 0 .. MaxTime]
Request == [at : {"get", "check", "insert", "fill", "end"}, entry : Entries,
            atomic : BOOLEAN, version : Nat]

TypeOK ==
    /\ now \in 0 .. MaxTime /\ edits \in 0 .. MaxEdits
    /\ table \in [Entries -> Nat]
    /\ until \in [Entries -> Seq(0 .. MaxTime)]
    /\ cached \in [Entries -> Version \union {None}]
    /\ req \in [Requests -> Request \union {Idle}]
    /\ maker \in [Entries -> Requests \union {None}]
    /\ saving \in Entries \union {None} /\ crossed \subseteq Entries
    /\ shown \in [entry : Entries \union {None}, version : Nat, time : 0 .. MaxTime,
                  latest : Nat, crossed : BOOLEAN]

\* Whatever reads, saves and expiries overlap, a page never shows settings,
\* terms or a menu replaced longer than the cache's ten minutes ago.
ShownWithinTTL ==
    LET v == shown.version
        replaced == until[shown.entry]
    IN shown.entry # None /\ v \in DOMAIN replaced /\ shown.version < shown.latest
         => shown.time - replaced[v] < TTL

\* A new setting or new terms show on the next page, unless a page was being
\* rendered while they were saved.
ShownAtOnce ==
    shown.entry \in Singletons /\ ~shown.crossed => shown.version >= shown.latest

\* Bringing the row in with its defaults (get_or_create) never takes back what
\* an administrator has saved since the request found there was none.
NeverBackToDefaults == [][\A e \in Entries : table'[e] >= table[e]]_table

\* The address a page is found under is the one its place in the tree gives
\* it, except below a page that was renamed, or in a branch that was dragged,
\* until the page is saved again.
PathTrue == \A p \in There \ stale : pages[p].path = Address(pages)[p]
============================================================================
