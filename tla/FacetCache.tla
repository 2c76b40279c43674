----------------------------- MODULE FacetCache -----------------------------
(***************************************************************************)
(* The cache of catalog facets (counters and ranges of the filter panel).  *)
(* An answer is cached under a key made of the catalog's version and the   *)
(* visitor's selection; saving a machine, its stock or a characteristic    *)
(* raises the version, so that answers under the old one are never asked   *)
(* for again and expire by themselves.                                     *)
(*                                                                         *)
(* Version and answers live in Redis and change at once; what is saved     *)
(* becomes visible to others only when its transaction commits, and the    *)
(* signal that raises the version runs inside that transaction.  Outside a *)
(* request a save is committed before its post_save signal is sent; a      *)
(* deletion is always Transactional, Django wraps it by itself.            *)
(*                                                                         *)
(* The catalog is abstracted to the set of changes committed so far, an    *)
(* answer to the changes each of its queries has seen.                     *)
(***************************************************************************)
EXTENDS Naturals

CONSTANTS Changes,        \* saves of a machine, stock or characteristic
          Transactional,  \* those made inside a transaction
          Readers,        \* requests that show the filter panel
          Selections,     \* combinations of filters
          MaxVersion,     \* bound on the version counter
          None

ASSUME FacetAssumption ==
    /\ MaxVersion \in Nat \ {0}
    /\ Transactional \subseteq Changes

Versions == 1 .. MaxVersion
Absent == 0
Answer == [counts : SUBSET Changes, total : SUBSET Changes]

ASSUME NoneIsNoAnswer == None \notin Answer

VARIABLES catalog,  \* committed changes
          cpc,      \* where each change stands
          version,  \* catalog:facets:version
          top,      \* the highest number it has had, 0 before the first
          worn,     \* numbers up to this one were in use before it was set back
          early,    \* changes counted after their signal, before their commit
          cached,   \* catalog:facets:v2:{version}:{selection}
          rpc,      \* where each reader stands in get_facets
          want,     \* the selection it asks for
          key,      \* the version in its key
          seen      \* what its queries have seen

changeVars == <<catalog, cpc>>
history    == <<top, worn, early>>  \* read by no action but their own
readerVars == <<rpc, want, key, seen>>
vars == <<changeVars, version, history, cached, readerVars>>

Nothing == [counts |-> {}, total |-> {}]

\* The cache may be empty, as after a deployment, or have a version already.
Init ==
    /\ catalog = {}
    /\ cpc = [c \in Changes |-> "new"]
    /\ version \in {1, Absent}
    /\ top = version
    /\ worn = 0
    /\ early = {}
    /\ cached = [v \in Versions |-> [s \in Selections |-> None]]
    /\ rpc = [r \in Readers |-> "idle"]
    /\ want \in [Readers -> Selections]
    /\ key = [r \in Readers |-> 1]
    /\ seen = [r \in Readers |-> Nothing]

(***************************************************************************)
(* Saving a machine, its stock or a characteristic                         *)
(***************************************************************************)

\* The row is written; outside a transaction it is visible at once.
Save(c) ==
    /\ cpc[c] = "new"
    /\ cpc' = [cpc EXCEPT ![c] = "saved"]
    /\ catalog' = IF c \in Transactional THEN catalog ELSE catalog \union {c}
    /\ UNCHANGED <<version, history, cached, readerVars>>

\* Bug: the version is only ever set, never raised.
Keep(c) ==
    /\ cpc[c] = "saved" /\ version # Absent
    /\ cpc' = [cpc EXCEPT ![c] = "invalidated"]
    /\ UNCHANGED <<catalog, version, history, cached, readerVars>>

\* A number higher than any before has no answers yet.
NewNumber ==
    /\ top' = IF version' > top THEN version' ELSE top
    /\ early' = IF version' > top THEN {} ELSE early
    /\ UNCHANGED worn

\* The counter is set to one: the first time, or not for the first time.
SetBack ==
    /\ version' = 1
    /\ top' = IF top = 0 THEN 1 ELSE top
    /\ worn' = IF top = 0 \/ version = 1 THEN worn ELSE top
    /\ UNCHANGED early

\* invalidate_facets: cache.incr.
Raise(c) ==
    /\ cpc[c] = "saved" /\ version # Absent
    /\ version < MaxVersion
    /\ version' = version + 1
    /\ NewNumber
    /\ cpc' = [cpc EXCEPT ![c] = "invalidated"]
    /\ UNCHANGED <<catalog, cached, readerVars>>

\* incr has raised ValueError ...
FindNoVersion(c) ==
    /\ cpc[c] = "saved" /\ version = Absent
    /\ cpc' = [cpc EXCEPT ![c] = "unversioned"]
    /\ UNCHANGED <<catalog, version, history, cached, readerVars>>

\* ... and the counter starts again from one.
Restart(c) ==
    /\ cpc[c] = "unversioned"
    /\ SetBack
    /\ cpc' = [cpc EXCEPT ![c] = "invalidated"]
    /\ UNCHANGED <<catalog, cached, readerVars>>

\* A transaction commits, or is rolled back; nothing is left to do outside.
Commit(c) ==
    /\ cpc[c] = "invalidated" /\ c \in Transactional
    /\ cpc' = [cpc EXCEPT ![c] = "done"]
    /\ \/ catalog' = catalog \union {c}
       \/ catalog' = catalog
    /\ UNCHANGED <<version, history, cached, readerVars>>

(***************************************************************************)
(* get_facets                                                              *)
(***************************************************************************)

Goto(r, place) == rpc' = [rpc EXCEPT ![r] = place]

\* Bug: no default for a version that is not there.
ReadRawVersion(r, s) ==
    /\ rpc[r] = "idle"
    /\ want' = [want EXCEPT ![r] = s]
    /\ key' = [key EXCEPT ![r] = version]
    /\ Goto(r, IF version = Absent THEN "unversioned" ELSE "keyed")
    /\ UNCHANGED <<changeVars, version, history, cached, seen>>

\* _version: the key of this request is fixed here.
ReadVersion(r, s) ==
    /\ rpc[r] = "idle"
    /\ want' = [want EXCEPT ![r] = s]
    /\ key' = [key EXCEPT ![r] = IF version = Absent THEN 1 ELSE version]
    /\ Goto(r, IF version = Absent THEN "unversioned" ELSE "keyed")
    /\ UNCHANGED <<changeVars, version, history, cached, seen>>

\* _version has found nothing and sets the counter to one.
SetVersion(r) ==
    /\ rpc[r] = "unversioned"
    /\ SetBack
    /\ Goto(r, "keyed")
    /\ UNCHANGED <<changeVars, cached, want, key, seen>>

Entry(r) == cached[key[r]][want[r]]

Hit(r) ==
    /\ rpc[r] = "keyed"
    /\ Entry(r) # None
    /\ Goto(r, "idle")
    /\ UNCHANGED <<changeVars, version, history, cached, want, key, seen>>

\* What is announced and not yet visible goes unseen by this reader.
NoteEarly(r) ==
    /\ early' = IF key[r] = version
                   THEN early \union {c \in Changes \ catalog : cpc[c] \in {"unversioned", "invalidated"}}
                   ELSE early
    /\ UNCHANGED <<top, worn>>

\* build_facets is many queries; under READ COMMITTED each sees what is
\* committed when it starts.  The counters come first ...
Count(r) ==
    /\ rpc[r] = "keyed"
    /\ Entry(r) = None
    /\ seen' = [seen EXCEPT ![r].counts = catalog]
    /\ NoteEarly(r)
    /\ Goto(r, "counted")
    /\ UNCHANGED <<changeVars, version, cached, want, key>>

\* ... the total last.
Total(r) ==
    /\ rpc[r] = "counted"
    /\ seen' = [seen EXCEPT ![r].total = catalog]
    /\ NoteEarly(r)
    /\ Goto(r, "built")
    /\ UNCHANGED <<changeVars, version, cached, want, key>>

Store(r) ==
    /\ rpc[r] = "built"
    /\ cached' = [cached EXCEPT ![key[r]][want[r]] = seen[r]]
    /\ Goto(r, "idle")
    /\ UNCHANGED <<changeVars, version, history, want, key, seen>>

(***************************************************************************)
(* Redis                                                                   *)
(***************************************************************************)

\* Bug: answers are cached without a timeout.
NeverExpire(v, s) == FALSE /\ UNCHANGED vars

\* CATALOG_FACETS_CACHE_SECONDS have passed, or the answer was evicted.
ExpireAnswer(v, s) ==
    /\ cached[v][s] # None
    /\ cached' = [cached EXCEPT ![v][s] = None]
    /\ UNCHANGED <<changeVars, version, history, readerVars>>

\* The version has no timeout, but allkeys-lru may take it.
EvictVersion ==
    /\ version # Absent
    /\ version' = Absent
    /\ UNCHANGED <<changeVars, history, cached, readerVars>>

-----------------------------------------------------------------------------
ChangeStep(c) == Raise(c) \/ FindNoVersion(c) \/ Restart(c) \/ Commit(c)

ReaderStep(r) == SetVersion(r) \/ Hit(r) \/ Count(r) \/ Total(r) \/ Store(r)

Next ==
    \/ \E c \in Changes : Save(c) \/ ChangeStep(c)
    \/ \E r \in Readers : ReaderStep(r) \/ \E s \in Selections : ReadVersion(r, s)
    \/ \E v \in Versions, s \in Selections : ExpireAnswer(v, s)
    \/ EvictVersion

Spec == Init /\ [][Next]_vars

\* Requests that have begun go on and timeouts come; nobody need visit, save
\* anything or evict the version.
FairSpec ==
    /\ Spec
    /\ \A c \in Changes : WF_vars(ChangeStep(c))
    /\ \A r \in Readers : WF_vars(ReaderStep(r))
    /\ \A v \in Versions, s \in Selections : WF_vars(ExpireAnswer(v, s))

-----------------------------------------------------------------------------
TypeOK ==
    /\ catalog \subseteq Changes
    /\ cpc \in [Changes -> {"new", "saved", "unversioned", "invalidated", "done"}]
    /\ version \in Versions \union {Absent}
    /\ top \in 0 .. MaxVersion
    /\ worn \in 0 .. MaxVersion
    /\ early \subseteq Changes
    /\ cached \in [Versions -> [Selections -> Answer \union {None}]]
    /\ rpc \in [Readers -> {"idle", "unversioned", "keyed", "counted", "built"}]
    /\ want \in [Readers -> Selections]
    /\ key \in [Readers -> Versions]
    /\ seen \in [Readers -> Answer]

\* Changes an answer must have seen: announced, whether or not committed yet,
\* or committed.  A change being saved still has its signal to come.
Announced ==
    {c \in Changes : cpc[c] \in {"unversioned", "invalidated"}}
      \union {c \in catalog : cpc[c] = "done"}

Covers(changes) == Announced \ early \subseteq changes

\* A panel never misses a change that has been announced and is visible, made
\* inside a transaction or not, on a cold cache or a warm one, with two
\* exceptions: somebody counted between the signal of that change and its
\* commit (early, and only until the next change raises the version), or the
\* number of the version was in use before, because the version had been
\* evicted or a late reader of an empty cache has set it back (worn, and only
\* until the counter has passed its former height).
NothingMissed ==
    \A s \in Selections :
      version > worn /\ cached[version][s] # None =>
        LET visible == (Announced \ early) \intersect catalog IN
        /\ visible \subseteq cached[version][s].counts
        /\ visible \subseteq cached[version][s].total

\* The inductive form of it: a number new to the counter has no answers and no
\* readers, ...
NumberInv ==
    /\ version <= top /\ worn <= top
    /\ version \in 1 .. worn => top = worn
    /\ version > worn => version = top
    /\ top = 0 => \A c \in Changes : cpc[c] \in {"new", "saved", "unversioned"}
    /\ \A c \in catalog : cpc[c] # "new"
    /\ \A v \in Versions, s \in Selections : v > top => cached[v][s] = None
    /\ \A r \in Readers :
         /\ rpc[r] \in {"keyed", "counted", "built"} => key[r] <= top
         /\ rpc[r] = "unversioned" => key[r] = 1

\* ... and what a reader of the current one has seen, and what is stored under
\* it, covers even the announced changes that are not visible yet.
CoverInv ==
    version > worn =>
      /\ \A s \in Selections :
           cached[version][s] # None =>
             Covers(cached[version][s].counts) /\ Covers(cached[version][s].total)
      /\ \A r \in Readers :
           key[r] = version =>
             /\ rpc[r] \in {"counted", "built"} => Covers(seen[r].counts)
             /\ rpc[r] = "built" => Covers(seen[r].total)

\* Whatever was changed, in whatever order, and however often the version was
\* lost: once the changes are over the panel comes to show the catalog.
EventuallyFresh ==
    \A s \in Selections :
      <>[](\A v \in Versions :
             v = (IF version = Absent THEN 1 ELSE version) /\ cached[v][s] # None =>
               cached[v][s].counts = catalog /\ cached[v][s].total = catalog)
=============================================================================
