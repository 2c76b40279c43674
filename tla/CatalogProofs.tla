-------------------------- MODULE CatalogProofs --------------------------
(***************************************************************************)
(* What the panel of filters says of the catalogue, and what seed_demo     *)
(* fills the catalogue with.                                               *)
(*                                                                         *)
(* Versioning the keys keeps an announced change from being missed, for    *)
(* any number of changes, readers and selections, inside transactions and  *)
(* outside, but for the two exceptions NothingMissed names.  The second    *)
(* part is about the tables of demonstration data, and any number of runs  *)
(* over them.                                                              *)
(***************************************************************************)
EXTENDS FacetCache, DemoSeed, TLAPS

LEMMA FacetTypeStep == TypeOK /\ [Next]_vars => TypeOK'
<1> SUFFICES ASSUME TypeOK, [Next]_vars PROVE TypeOK'
  OBVIOUS
<1> USE FacetAssumption DEF TypeOK, Answer, Versions, Absent, changeVars, readerVars, history
<1>1. ASSUME NEW c \in Changes, Save(c) \/ Commit(c) PROVE TypeOK'
  BY <1>1 DEF Save, Commit
<1>2. ASSUME NEW c \in Changes, Raise(c) \/ FindNoVersion(c) \/ Restart(c) PROVE TypeOK'
  <2>1. /\ version' \in Versions \union {Absent} /\ top' \in 0 .. MaxVersion
        /\ worn' \in 0 .. MaxVersion /\ early' \subseteq Changes
    <3>1. CASE Raise(c)
      BY <3>1 DEF Raise, NewNumber
    <3>2. CASE FindNoVersion(c)
      BY <3>2 DEF FindNoVersion
    <3>3. CASE Restart(c)
      BY <3>3 DEF Restart, SetBack
    <3> QED
      BY <1>2, <3>1, <3>2, <3>3
  <2>2. cpc' \in [Changes -> {"new", "saved", "unversioned", "invalidated", "done"}]
    BY <1>2 DEF Raise, FindNoVersion, Restart
  <2>3. UNCHANGED <<catalog, cached, readerVars>>
    BY <1>2 DEF Raise, FindNoVersion, Restart
  <2> QED
    BY <2>1, <2>2, <2>3
<1>3. ASSUME NEW r \in Readers, NEW s \in Selections, ReadVersion(r, s) PROVE TypeOK'
  BY <1>3 DEF ReadVersion, Goto
<1>4. ASSUME NEW r \in Readers, SetVersion(r) \/ Hit(r) PROVE TypeOK'
  <2>1. CASE SetVersion(r)
    <3>1. /\ version' \in Versions \union {Absent} /\ top' \in 0 .. MaxVersion
          /\ worn' \in 0 .. MaxVersion /\ early' \subseteq Changes
      BY <2>1 DEF SetVersion, SetBack
    <3> QED
      BY <2>1, <3>1 DEF SetVersion, Goto
  <2>2. CASE Hit(r)
    BY <2>2 DEF Hit, Goto
  <2> QED
    BY <1>4, <2>1, <2>2
<1>5. ASSUME NEW r \in Readers, Count(r) \/ Total(r) PROVE TypeOK'
  <2>1. [seen[r] EXCEPT !.counts = catalog] \in Answer /\ [seen[r] EXCEPT !.total = catalog] \in Answer
    BY DEF Answer
  <2>2. seen' \in [Readers -> Answer]
    BY <1>5, <2>1 DEF Count, Total
  <2>3. rpc' \in [Readers -> {"idle", "unversioned", "keyed", "counted", "built"}]
    BY <1>5 DEF Count, Total, Goto
  <2>4. UNCHANGED <<catalog, cpc, version, cached, want, key>>
    BY <1>5 DEF Count, Total
  <2>5. UNCHANGED <<top, worn>> /\ early' \subseteq Changes
    BY <1>5 DEF Count, Total, NoteEarly
  <2> QED
    BY <2>2, <2>3, <2>4, <2>5
<1>6. ASSUME NEW r \in Readers, Store(r) PROVE TypeOK'
  BY <1>6 DEF Store, Goto
<1>7. ASSUME NEW v \in Versions, NEW s \in Selections, ExpireAnswer(v, s) PROVE TypeOK'
  BY <1>7 DEF ExpireAnswer
<1>8. CASE EvictVersion
  BY <1>8 DEF EvictVersion
<1>9. CASE UNCHANGED vars
  BY <1>9 DEF vars
<1> QED
  BY <1>1, <1>2, <1>3, <1>4, <1>5, <1>6, <1>7, <1>8, <1>9 DEF Next, ChangeStep, ReaderStep

\* The state keeps its type.
THEOREM FacetTypeCorrect == Spec => []TypeOK
<1>1. Init => TypeOK
  BY FacetAssumption DEF Init, TypeOK, Answer, Versions, Absent, Nothing
<1>2. QED
  BY <1>1, FacetTypeStep, PTL DEF Spec

-----------------------------------------------------------------------------
\* Setting the counter to one either does nothing to it, starts it on an empty
\* cache, or wears out the numbers it has had.
LEMMA SetBackKeeps ==
  ASSUME TypeOK, NumberInv, SetBack
  PROVE  /\ version' = 1 /\ 1 <= top' /\ early' = early
         /\ top # 0 => top' = top
         /\ top = 0 => top' = 1 /\ version = Absent /\ worn' = 0
         /\ worn' = worn \/ worn' = top'
         /\ worn' <= top'
         /\ version' > worn' => top' = 1 /\ (top # 0 => version = 1 /\ worn' = worn)
BY FacetAssumption DEF TypeOK, NumberInv, SetBack, Versions, Absent

\* One step keeps the numbers in order.
LEMMA NumberStep == TypeOK /\ NumberInv /\ [Next]_vars => NumberInv'
<1> SUFFICES ASSUME TypeOK, NumberInv, [Next]_vars PROVE NumberInv'
  OBVIOUS
<1> USE FacetAssumption DEF Versions, Absent
<1>0. /\ version \in 0 .. MaxVersion /\ top \in 0 .. MaxVersion /\ worn \in 0 .. MaxVersion
      /\ cpc \in [Changes -> {"new", "saved", "unversioned", "invalidated", "done"}]
      /\ key \in [Readers -> 1 .. MaxVersion] /\ catalog \subseteq Changes
      /\ cached \in [1 .. MaxVersion -> [Selections -> Answer \union {None}]]
      /\ rpc \in [Readers -> {"idle", "unversioned", "keyed", "counted", "built"}]
      /\ want \in [Readers -> Selections]
  BY DEF TypeOK
<1>1. ASSUME NEW c \in Changes, Save(c) \/ FindNoVersion(c) \/ Commit(c) PROVE NumberInv'
  <2>1. UNCHANGED <<version, top, worn, cached, rpc, key>>
    BY <1>1 DEF Save, FindNoVersion, Commit, history, readerVars
  <2>2. top = 0 => \A x \in Changes : cpc'[x] \in {"new", "saved", "unversioned"}
    BY <1>0, <1>1 DEF Save, FindNoVersion, Commit, NumberInv
  <2>3. \A x \in catalog' : cpc'[x] # "new"
    BY <1>0, <1>1 DEF Save, FindNoVersion, Commit, NumberInv
  <2> QED
    BY <2>1, <2>2, <2>3 DEF NumberInv
<1>2. ASSUME NEW c \in Changes, Raise(c) PROVE NumberInv'
  <2>1. /\ version' = version + 1 /\ version # 0 /\ worn' = worn
        /\ top' = IF version' > top THEN version' ELSE top
        /\ UNCHANGED <<catalog, cached, rpc, key>>
    BY <1>2 DEF Raise, NewNumber, readerVars
  <2>2. \A x \in catalog' : cpc'[x] # "new"
    BY <1>0, <1>2 DEF Raise, NumberInv
  <2>3. top \in 0 .. top' /\ top' # 0
    BY <1>0, <2>1
  <2>4. /\ version' <= top' /\ worn' <= top'
        /\ version' \in 1 .. worn' => top' = worn'
        /\ version' > worn' => version' = top'
    BY <1>0, <2>1 DEF NumberInv
  <2>5. /\ \A v \in Versions, s \in Selections : v > top' => cached'[v][s] = None
        /\ \A r \in Readers :
             /\ rpc'[r] \in {"keyed", "counted", "built"} => key'[r] <= top'
             /\ rpc'[r] = "unversioned" => key'[r] = 1
    BY <1>0, <2>1, <2>3 DEF NumberInv
  <2> QED
    BY <2>2, <2>3, <2>4, <2>5 DEF NumberInv
<1>3. ASSUME SetBack, UNCHANGED <<catalog, cached, key>>,
             \A x \in Readers : rpc'[x] = rpc[x] \/ (rpc[x] = "unversioned" /\ rpc'[x] = "keyed"),
             \A x \in catalog : cpc'[x] # "new"
      PROVE  NumberInv'
  <2>1. /\ version' = 1 /\ 1 <= top' /\ worn' <= top' /\ top' \in Nat /\ worn' \in Nat
        /\ top <= top' /\ (version' > worn' => top' = 1) /\ (worn' = worn \/ worn' = top')
        /\ (top # 0 => top' = top) /\ (top = 0 => worn' = 0)
    BY <1>0, <1>3, SetBackKeeps DEF SetBack
  <2>2. version' \in 1 .. worn' => top' = worn'
    BY <1>0, <1>3 DEF SetBack, NumberInv
  <2>3. /\ \A v \in Versions, s \in Selections : v > top' => cached'[v][s] = None
        /\ \A r \in Readers :
             /\ rpc'[r] \in {"keyed", "counted", "built"} => key'[r] <= top'
             /\ rpc'[r] = "unversioned" => key'[r] = 1
    BY <1>0, <1>3, <2>1 DEF NumberInv
  <2> QED
    BY <1>3, <2>1, <2>2, <2>3 DEF NumberInv
<1>4. ASSUME NEW c \in Changes, Restart(c) PROVE NumberInv'
  <2>1. \A x \in catalog : cpc'[x] # "new"
    BY <1>0, <1>4 DEF Restart, NumberInv
  <2> QED
    BY <1>3, <1>4, <2>1 DEF Restart, readerVars
<1>5. ASSUME NEW r \in Readers, SetVersion(r) PROVE NumberInv'
  <2>1. \A x \in Readers : rpc'[x] = rpc[x] \/ (rpc[x] = "unversioned" /\ rpc'[x] = "keyed")
    BY <1>0, <1>5 DEF SetVersion, Goto
  <2> QED
    BY <1>3, <1>5, <2>1 DEF SetVersion, changeVars, NumberInv
<1>6. ASSUME NEW r \in Readers, NEW s \in Selections, ReadVersion(r, s) PROVE NumberInv'
  <2>1. /\ UNCHANGED <<catalog, cpc, version, top, worn, cached>>
        /\ \A x \in Readers \ {r} : rpc'[x] = rpc[x] /\ key'[x] = key[x]
        /\ rpc'[r] = IF version = 0 THEN "unversioned" ELSE "keyed"
        /\ key'[r] = IF version = 0 THEN 1 ELSE version
    BY <1>0, <1>6 DEF ReadVersion, Goto, changeVars, history
  <2> QED
    BY <1>0, <2>1 DEF NumberInv
<1>7. ASSUME NEW r \in Readers, Hit(r) \/ Count(r) \/ Total(r) PROVE NumberInv'
  <2>1. /\ UNCHANGED <<catalog, cpc, version, top, worn, cached, key>>
        /\ \A x \in Readers \ {r} : rpc'[x] = rpc[x]
        /\ rpc[r] \in {"keyed", "counted", "built"} /\ rpc'[r] # "unversioned"
    BY <1>0, <1>7 DEF Hit, Count, Total, NoteEarly, Goto, changeVars, history
  <2> QED
    BY <1>0, <2>1 DEF NumberInv
<1>8. ASSUME NEW r \in Readers, Store(r) PROVE NumberInv'
  <2>1. /\ UNCHANGED <<catalog, cpc, version, top, worn, key>>
        /\ \A x \in Readers \ {r} : rpc'[x] = rpc[x]
        /\ rpc[r] = "built" /\ rpc'[r] = "idle"
    BY <1>0, <1>8 DEF Store, Goto, changeVars, history
  <2>2. \A v \in Versions, s \in Selections : v # key[r] => cached'[v][s] = cached[v][s]
    BY <1>0, <1>8 DEF Store
  <2> QED
    BY <1>0, <2>1, <2>2 DEF NumberInv
<1>9. ASSUME NEW v \in Versions, NEW s \in Selections, ExpireAnswer(v, s) PROVE NumberInv'
  <2>1. UNCHANGED <<catalog, cpc, version, top, worn, key, rpc>>
    BY <1>9 DEF ExpireAnswer, changeVars, history, readerVars
  <2>2. \A w \in Versions, x \in Selections : cached'[w][x] \in {None, cached[w][x]}
    BY <1>0, <1>9 DEF ExpireAnswer
  <2> QED
    BY <1>0, <2>1, <2>2 DEF NumberInv
<1>10. CASE EvictVersion
  BY <1>0, <1>10 DEF EvictVersion, NumberInv, changeVars, history, readerVars
<1>11. CASE UNCHANGED vars
  BY <1>11 DEF vars, NumberInv, changeVars, history, readerVars
<1> QED
  BY <1>1, <1>2, <1>4, <1>5, <1>6, <1>7, <1>8, <1>9, <1>10, <1>11 DEF Next, ChangeStep, ReaderStep

\* One step keeps the answers under the current version, and those being
\* computed for it, from missing an announced change: announcing it has moved
\* everybody to a number with no answers yet, or found the cache empty.
LEMMA CoverStep == TypeOK /\ NumberInv /\ CoverInv /\ [Next]_vars => CoverInv'
<1> SUFFICES ASSUME TypeOK, NumberInv, CoverInv, [Next]_vars, version' > worn' PROVE CoverInv'
  BY DEF CoverInv
<1> USE FacetAssumption DEF Versions, Absent
<1>0. /\ version \in 0 .. MaxVersion /\ top \in 0 .. MaxVersion /\ worn \in 0 .. MaxVersion
      /\ key \in [Readers -> 1 .. MaxVersion] /\ seen \in [Readers -> Answer]
      /\ cached \in [1 .. MaxVersion -> [Selections -> Answer \union {None}]]
      /\ rpc \in [Readers -> {"idle", "unversioned", "keyed", "counted", "built"}]
      /\ want \in [Readers -> Selections]
      /\ cpc \in [Changes -> {"new", "saved", "unversioned", "invalidated", "done"}]
  BY DEF TypeOK
<1>1. ASSUME UNCHANGED <<version, worn, cached, key, seen>>, Announced' \subseteq Announced,
             early \subseteq early',
             \A x \in Readers : rpc'[x] = rpc[x] \/ rpc'[x] \notin {"counted", "built"}
      PROVE  CoverInv'
  BY <1>0, <1>1 DEF CoverInv, Covers
<1>2. ASSUME NEW c \in Changes, Save(c) \/ FindNoVersion(c) \/ Commit(c) PROVE CoverInv'
  <2>1. UNCHANGED <<version, worn, cached, key, seen, rpc, early>>
    BY <1>2 DEF Save, FindNoVersion, Commit, history, readerVars
  <2>2. CASE Save(c) \/ Commit(c)
    <3>1. /\ \A x \in Changes \ {c} : cpc'[x] = cpc[x] /\ (x \in catalog' <=> x \in catalog)
          /\ cpc'[c] = "saved" \/ cpc[c] = "invalidated"
          /\ catalog' \subseteq Changes
      BY <1>0, <2>2 DEF TypeOK, Save, Commit
    <3>2. ASSUME NEW x \in Announced' PROVE x \in Announced
      BY <3>1, <3>2 DEF Announced
    <3>3. Announced' \subseteq Announced
      BY <3>2
    <3>4. early \subseteq early' /\ \A x \in Readers : rpc'[x] = rpc[x]
      BY <2>1
    <3> QED
      BY <1>1, <2>1, <3>3, <3>4
  <2>3. CASE FindNoVersion(c)
    BY <1>0, <2>1, <2>3 DEF FindNoVersion, CoverInv
  <2> QED
    BY <1>2, <2>2, <2>3
<1>3. ASSUME NEW c \in Changes, Raise(c) PROVE CoverInv'
  <2>1. /\ version' = version + 1 /\ version # 0 /\ worn' = worn
        /\ UNCHANGED <<cached, rpc, key, seen>>
    BY <1>3 DEF Raise, NewNumber, readerVars
  <2>2. version' > top /\ version' \in Versions
    BY <1>0, <1>3, <2>1 DEF NumberInv, Raise
  <2>3. \A s \in Selections : cached[version'][s] = None
    BY <2>2 DEF NumberInv
  <2>4. \A r \in Readers : rpc[r] \in {"counted", "built"} => key[r] # version'
    BY <1>0, <2>2 DEF NumberInv
  <2> QED
    BY <1>0, <2>1, <2>3, <2>4 DEF CoverInv
<1>4. ASSUME SetBack, UNCHANGED <<cached, key, seen>>, Announced' = Announced,
             \A x \in Readers : rpc'[x] = rpc[x] \/ (rpc[x] = "unversioned" /\ rpc'[x] = "keyed")
      PROVE  CoverInv'
  <2>1. version' = 1 /\ early' = early
    BY <1>4 DEF SetBack
  <2>2. CASE top = 0
    <3>1. \A x \in Readers : rpc[x] \notin {"counted", "built"}
      BY <1>0, <2>2 DEF NumberInv
    <3>2. \A s \in Selections : cached[1][s] = None
      BY <1>0, <2>2 DEF NumberInv
    <3> QED
      BY <1>4, <2>1, <3>1, <3>2 DEF CoverInv
  <2>3. CASE top # 0
    <3>1. version = 1 /\ worn' = worn
      BY <1>4, <2>3, SetBackKeeps
    <3> QED
      BY <1>1, <1>4, <2>1, <3>1
  <2> QED
    BY <2>2, <2>3
<1>5. ASSUME NEW c \in Changes, Restart(c) PROVE CoverInv'
  <2>1. Announced' = Announced
    BY <1>0, <1>5 DEF Restart, Announced
  <2> QED
    BY <1>4, <1>5, <2>1 DEF Restart, readerVars
<1>6. ASSUME NEW r \in Readers, SetVersion(r) PROVE CoverInv'
  <2>1. \A x \in Readers : rpc'[x] = rpc[x] \/ (rpc[x] = "unversioned" /\ rpc'[x] = "keyed")
    BY <1>0, <1>6 DEF SetVersion, Goto
  <2>2. Announced' = Announced
    BY <1>6 DEF SetVersion, changeVars, Announced
  <2> QED
    BY <1>4, <1>6, <2>1, <2>2 DEF SetVersion
<1>7. ASSUME NEW r \in Readers, NEW s \in Selections, ReadVersion(r, s) PROVE CoverInv'
  <2>1. /\ UNCHANGED <<version, worn, early, cached, seen>> /\ Announced' = Announced
        /\ \A x \in Readers \ {r} : rpc'[x] = rpc[x] /\ key'[x] = key[x]
        /\ rpc'[r] \notin {"counted", "built"}
    BY <1>0, <1>7 DEF ReadVersion, Goto, changeVars, history, Announced
  <2> QED
    BY <1>0, <2>1 DEF CoverInv, Covers
<1>8. ASSUME NEW r \in Readers, Hit(r) PROVE CoverInv'
  <2>1. /\ UNCHANGED <<version, worn, early, cached, key, seen>> /\ Announced' = Announced
        /\ \A x \in Readers : rpc'[x] = rpc[x] \/ rpc'[x] \notin {"counted", "built"}
    BY <1>0, <1>8 DEF Hit, Goto, changeVars, history, Announced
  <2> QED
    BY <1>1, <2>1
<1>9. ASSUME NEW r \in Readers, Count(r) \/ Total(r) PROVE CoverInv'
  <2>1. UNCHANGED <<catalog, cpc, version, cached, want, key, worn>>
    BY <1>9 DEF Count, Total, NoteEarly, changeVars
  <2>2. \A x \in Readers \ {r} : rpc'[x] = rpc[x] /\ seen'[x] = seen[x]
    BY <1>0, <1>9 DEF Count, Total, Goto
  <2>3. Announced' = Announced /\ early \subseteq early'
    BY <1>9, <2>1 DEF Count, Total, NoteEarly, Announced
  <2>4. key[r] = version => Announced \ early' \subseteq catalog
    BY <1>9 DEF Count, Total, NoteEarly, Announced
  <2>5. CASE Count(r)
    <3>1. rpc'[r] = "counted" /\ seen'[r].counts = catalog
      BY <1>0, <2>5 DEF Count, Goto, Answer
    <3> QED
      BY <2>1, <2>2, <2>3, <2>4, <3>1 DEF CoverInv, Covers
  <2>6. CASE Total(r)
    <3>1. /\ rpc'[r] = "built" /\ rpc[r] = "counted"
          /\ seen'[r].total = catalog /\ seen'[r].counts = seen[r].counts
      BY <1>0, <2>6 DEF Total, Goto, Answer
    <3> QED
      BY <2>1, <2>2, <2>3, <2>4, <3>1 DEF CoverInv, Covers
  <2> QED
    BY <1>9, <2>5, <2>6
<1>10. ASSUME NEW r \in Readers, Store(r) PROVE CoverInv'
  <2>1. /\ UNCHANGED <<version, worn, early, key, seen>> /\ Announced' = Announced
        /\ rpc[r] = "built" /\ rpc'[r] = "idle"
        /\ \A x \in Readers \ {r} : rpc'[x] = rpc[x]
    BY <1>0, <1>10 DEF Store, Goto, changeVars, history, Announced
  <2>2. \A v \in Versions, s \in Selections :
          cached'[v][s] = IF v = key[r] /\ s = want[r] THEN seen[r] ELSE cached[v][s]
    BY <1>0, <1>10 DEF Store
  <2>3. version \in Versions
    BY <1>0, <2>1
  <2> QED
    BY <1>0, <2>1, <2>2, <2>3 DEF CoverInv, Covers
<1>11. ASSUME NEW v \in Versions, NEW s \in Selections, ExpireAnswer(v, s) PROVE CoverInv'
  <2>1. /\ UNCHANGED <<version, worn, early, key, seen, rpc>> /\ Announced' = Announced
    BY <1>11 DEF ExpireAnswer, changeVars, history, readerVars, Announced
  <2>2. \A w \in Versions, x \in Selections : cached'[w][x] \in {None, cached[w][x]}
    BY <1>0, <1>11 DEF ExpireAnswer
  <2>3. version \in Versions
    BY <1>0, <2>1
  <2> QED
    BY <1>0, <2>1, <2>2, <2>3 DEF CoverInv, Covers
<1>12. CASE EvictVersion
  BY <1>0, <1>12 DEF EvictVersion, history
<1>13. CASE UNCHANGED vars
  <2>1. Announced' = Announced
    BY <1>13 DEF vars, changeVars, Announced
  <2> QED
    BY <1>1, <1>13, <2>1 DEF vars, history, readerVars
<1> QED
  BY <1>2, <1>3, <1>5, <1>6, <1>7, <1>8, <1>9, <1>10, <1>11, <1>12, <1>13
  DEF Next, ChangeStep, ReaderStep

\* No panel misses an announced change that is visible, from a cold cache on
\* and inside transactions too, unless somebody counted between the signal and
\* the commit of that change or the version's number was in use before.
THEOREM NothingMissedHolds == Spec => []NothingMissed
<1>1. Init => NumberInv /\ CoverInv
  BY FacetAssumption DEF Init, NumberInv, CoverInv, Versions, Absent, Covers, Announced
<1>2. TypeOK /\ NumberInv /\ CoverInv => NothingMissed
  BY DEF TypeOK, NumberInv, CoverInv, NothingMissed, Covers, Versions, Absent
<1>3. QED
  BY <1>1, <1>2, NumberStep, CoverStep, FacetTypeCorrect, PTL DEF Spec

(***************************************************************************)
(* The demonstration data                                                  *)
(***************************************************************************)

LEMMA InRows ==
  ASSUME NEW table, NEW keys, NEW row \in Rows(table, keys)
  PROVE  row[1] = table /\ row[2] \in keys /\ row = <<table, row[2]>>
BY DEF Rows

LEMMA RowsHold ==
  ASSUME NEW table, NEW keys, NEW name \in keys
  PROVE  <<table, name>> \in Rows(table, keys)
BY DEF Rows

LEMMA StagesCounted == DOMAIN Stages = 1 .. 14
BY DEF Stages

\* The order of the stages (Command.handle).
LEMMA StagesAre ==
  /\ Stages[1] = Company
  /\ Stages[2] = Rows("brand", Brands)
  /\ Stages[3] = CategoryRows
  /\ Stages[4] = Rows("type", MachineTypes)
  /\ Stages[5] = SpecRows /\ Stages[6] = Machines
  /\ Stages[7] = Parts /\ Stages[8] = ServiceRows
  /\ Stages[9] = Content /\ Stages[10] = Landings
  /\ Stages[11] = Financing /\ Stages[12] = Delivery
  /\ Stages[13] = ReviewRows /\ Stages[14] = Rules
BY DEF Stages

NeedNothing == {"branch", "department", "brand", "type", "group", "part_category",
                "service_category", "settings", "news_category", "consent", "page", "menu",
                "news", "vacancy", "terms", "partner", "delivery", "review", "source"}

LEMMA NothingNeeded ==
  ASSUME NEW row, row[1] \in NeedNothing PROVE Needs(row) = {}
BY DEF Needs, NeedNothing

LEMMA CategoryNeeds ==
  \A name : Needs(<<"category", name>>)
             = Rows("category", {c \in Roots : name \in Categories[c]})
BY DEF Needs

LEMMA SpecNeeds ==
  \A name :
    /\ Needs(<<"key", name>>) = {<<"group", SpecKeys[name].group>>}
    /\ Needs(<<"option", name>>) = {<<"key", name[1]>>}
    /\ Needs(<<"applies", name>>) = {<<"type", name[1]>>, <<"key", name[2]>>}
BY DEF Needs

LEMMA MachineNeeds ==
  \A name : Needs(<<"machine", name>>)
             = {<<"brand", name[1]>>, <<"type", name[2]>>, <<"category", name[3]>>}
               \union Rows("key", TypeSpecs[name[2]])
BY DEF Needs

LEMMA LandingNeeds ==
  \A name : Needs(<<"landing", name>>)
             = IF name.brand = Unset THEN {<<"type", name.type>>} ELSE {}
BY DEF Needs

LEMMA OtherNeeds ==
  \A name :
    /\ Needs(<<"picture", name>>) = {<<"machine", name>>}
    /\ Needs(<<"part", name>>)
         = {<<"part_category", name>>,
            <<"brand", IF name = "shiny" THEN "techking" ELSE "komatsu">>}
    /\ Needs(<<"service", name>>) = {<<"service_category", name[2]>>}
    /\ Needs(<<"logo", name>>) = {<<"source", name>>}
    /\ Needs(<<"rule", name>>) = {<<"department", name[2]>>}
    /\ Needs(<<"contact", name>>) = {<<"branch", "khabarovsk">>}
    /\ Needs(<<"employee", name>>) = {<<"branch", "khabarovsk">>}
BY DEF Needs

(* Stage i has come to what it and the stages before it bring in. *)
UpTo(i) == (UNION {Stages[j] : j \in 1 .. i - 1}) \union Stages[i]

LEMMA StillThere ==
  ASSUME NEW i \in 1 .. 14, NEW j \in 1 .. i, NEW row \in Stages[j]
  PROVE  row \in UpTo(i)
BY DEF UpTo

LEMMA LinesKnown ==
  \A line \in MachineLines :
     /\ line[1] \in Brands /\ line[2] \in MachineTypes
     /\ \E c \in Roots : line[3] \in Categories[c]
BY DEF MachineLines, Brands, MachineTypes, Categories, Roots

LEMMA NamesHeld ==
  /\ DOMAIN SpecKeys = {"engine_power", "engine_model", "fuel_tank", "emission_stage",
       "operating_weight", "transport_length", "bucket_capacity", "digging_depth",
       "lifting_capacity", "lift_height", "drum_width", "power_output", "max_speed",
       "track_type", "cabin_ac"}
  /\ DOMAIN SpecOptions = {"emission_stage", "track_type"}
  /\ DOMAIN TypeSpecs = MachineTypes /\ DOMAIN SpecRanges = MachineTypes
  /\ DOMAIN Categories = Roots
BY DEF SpecKeys, SpecOptions, TypeSpecs, SpecRanges, Categories

LEMMA GroupsKnown == \A k \in DOMAIN SpecKeys : SpecKeys[k].group \in SpecGroups
BY NamesHeld DEF SpecKeys, SpecGroups, Key

LEMMA OptionsKnown == DOMAIN SpecOptions \subseteq DOMAIN SpecKeys
BY NamesHeld

LEMMA SpecsKnown ==
  \A t \in MachineTypes : TypeSpecs[t] \subseteq DOMAIN SpecKeys
BY NamesHeld DEF TypeSpecs, Common, Lifting, MachineTypes

LEMMA CompanyFound == \A row \in Company : Needs(row) \subseteq UpTo(1)
<1> SUFFICES ASSUME NEW row \in Company PROVE Needs(row) \subseteq UpTo(1)
  OBVIOUS
<1>1. <<"branch", "khabarovsk">> \in UpTo(1)
  BY StillThere, StagesAre, RowsHold DEF Company
<1>2. CASE \/ row \in Rows("branch", {"khabarovsk"})
           \/ row \in Rows("department", Departments)
  BY <1>2, InRows, NothingNeeded DEF NeedNothing
<1>3. CASE \/ row \in Rows("contact", {"khabarovsk"})
           \/ row \in Rows("employee", Employees)
  <2>1. Needs(row) = {<<"branch", "khabarovsk">>}
    BY <1>3, InRows, OtherNeeds
  <2> QED
    BY <2>1, <1>1
<1> QED
  BY <1>2, <1>3 DEF Company

LEMMA CategoriesFound == \A row \in CategoryRows : Needs(row) \subseteq UpTo(3)
<1> SUFFICES ASSUME NEW row \in CategoryRows PROVE Needs(row) \subseteq UpTo(3)
  OBVIOUS
<1> DEFINE above == Rows("category", {c \in Roots : row[2] \in Categories[c]})
<1>1. Needs(row) = above
  BY InRows, CategoryNeeds DEF CategoryRows
<1>2. above \subseteq CategoryRows
  BY DEF CategoryRows, Rows
<1> QED
  BY <1>1, <1>2, StagesAre DEF UpTo

LEMMA SpecsFound == \A row \in SpecRows : Needs(row) \subseteq UpTo(5)
<1> SUFFICES ASSUME NEW row \in SpecRows PROVE Needs(row) \subseteq UpTo(5)
  OBVIOUS
<1>0. SpecRows \subseteq UpTo(5)
  BY StagesAre DEF UpTo
<1>1. \A k \in DOMAIN SpecKeys : <<"key", k>> \in UpTo(5)
  BY <1>0, RowsHold DEF SpecRows
<1>2. \A t \in MachineTypes : <<"type", t>> \in UpTo(5)
  BY RowsHold, StagesAre, StillThere
<1>3. CASE row \in Rows("group", SpecGroups)
  BY <1>3, InRows, NothingNeeded DEF NeedNothing
<1>4. CASE row \in Rows("key", DOMAIN SpecKeys)
  <2>1. /\ Needs(row) = {<<"group", SpecKeys[row[2]].group>>}
        /\ SpecKeys[row[2]].group \in SpecGroups
    BY <1>4, InRows, SpecNeeds, GroupsKnown
  <2>2. <<"group", SpecKeys[row[2]].group>> \in SpecRows
    BY <2>1, RowsHold DEF SpecRows
  <2> QED
    BY <2>1, <2>2, <1>0
<1>5. CASE row \in Rows("option", Pairs(SpecOptions))
  <2>1. Needs(row) = {<<"key", row[2][1]>>} /\ row[2] \in Pairs(SpecOptions)
    BY <1>5, InRows, SpecNeeds
  <2>2. row[2][1] \in DOMAIN SpecOptions
    BY <2>1 DEF Pairs
  <2> QED
    BY <2>1, <2>2, <1>1, OptionsKnown
<1>6. CASE row \in Rows("applies", Pairs(TypeSpecs))
  <2>1. /\ Needs(row) = {<<"type", row[2][1]>>, <<"key", row[2][2]>>}
        /\ row[2] \in Pairs(TypeSpecs)
    BY <1>6, InRows, SpecNeeds
  <2>2. row[2][1] \in MachineTypes /\ row[2][2] \in TypeSpecs[row[2][1]]
    BY <2>1, NamesHeld DEF Pairs
  <2>3. row[2][2] \in DOMAIN SpecKeys
    BY <2>2, SpecsKnown
  <2> QED
    BY <2>1, <2>2, <2>3, <1>1, <1>2
<1> QED
  BY <1>3, <1>4, <1>5, <1>6 DEF SpecRows

LEMMA MachinesFound == \A row \in Machines : Needs(row) \subseteq UpTo(6)
<1> SUFFICES ASSUME NEW row \in Machines PROVE Needs(row) \subseteq UpTo(6)
  OBVIOUS
<1>1. CASE row \in Rows("machine", MachineLines)
  <2>1. /\ Needs(row)
             = {<<"brand", row[2][1]>>, <<"type", row[2][2]>>, <<"category", row[2][3]>>}
               \union Rows("key", TypeSpecs[row[2][2]])
        /\ row[2] \in MachineLines
    BY <1>1, InRows, MachineNeeds
  <2>2. /\ row[2][1] \in Brands /\ row[2][2] \in MachineTypes
        /\ \E c \in Roots : row[2][3] \in Categories[c]
    BY <2>1, LinesKnown
  <2>3. <<"brand", row[2][1]>> \in UpTo(6) /\ <<"type", row[2][2]>> \in UpTo(6)
    BY <2>2, RowsHold, StagesAre, StillThere
  <2>4. row[2][3] \in Roots \union UNION {Categories[c] : c \in Roots}
    BY <2>2
  <2>5. <<"category", row[2][3]>> \in CategoryRows
    BY <2>4, RowsHold DEF CategoryRows
  <2>6. <<"category", row[2][3]>> \in UpTo(6)
    BY <2>5, StagesAre, StillThere
  <2>7. Rows("key", TypeSpecs[row[2][2]]) \subseteq SpecRows
    <3>1. TypeSpecs[row[2][2]] \subseteq DOMAIN SpecKeys
      BY <2>2, SpecsKnown
    <3>2. Rows("key", TypeSpecs[row[2][2]])
            \subseteq Rows("key", DOMAIN SpecKeys)
      BY <3>1 DEF Rows
    <3> QED
      BY <3>2 DEF SpecRows
  <2>8. SpecRows \subseteq UpTo(6)
    BY StagesAre, StillThere
  <2> QED
    BY <2>1, <2>3, <2>6, <2>7, <2>8
<1>2. CASE row \in Rows("picture", MachineLines)
  <2>1. Needs(row) = {<<"machine", row[2]>>} /\ row[2] \in MachineLines
    BY <1>2, InRows, OtherNeeds
  <2>2. <<"machine", row[2]>> \in Machines
    BY <2>1, RowsHold DEF Machines
  <2> QED
    BY <2>1, <2>2, StagesAre DEF UpTo
<1> QED
  BY <1>1, <1>2 DEF Machines

LEMMA PartsFound == \A row \in Parts : Needs(row) \subseteq UpTo(7)
<1> SUFFICES ASSUME NEW row \in Parts PROVE Needs(row) \subseteq UpTo(7)
  OBVIOUS
<1>1. CASE row \in Rows("part_category", PartCategories)
  BY <1>1, InRows, NothingNeeded DEF NeedNothing
<1>2. CASE row \in Rows("part", PartTemplates)
  <2>1. /\ Needs(row) = {<<"part_category", row[2]>>,
                  <<"brand", IF row[2] = "shiny" THEN "techking" ELSE "komatsu">>}
        /\ row[2] \in PartTemplates
    BY <1>2, InRows, OtherNeeds
  <2>2. row[2] \in PartCategories
    BY <2>1 DEF PartTemplates, PartCategories
  <2>3. <<"part_category", row[2]>> \in UpTo(7)
    BY <2>2, RowsHold, StagesAre DEF Parts, UpTo
  <2>4. "techking" \in Brands /\ "komatsu" \in Brands
    BY DEF Brands
  <2>5. \A brand \in Brands : <<"brand", brand>> \in UpTo(7)
    BY RowsHold, StagesAre, StillThere
  <2> QED
    BY <2>1, <2>3, <2>4, <2>5
<1> QED
  BY <1>1, <1>2 DEF Parts

LEMMA ServicesFound == \A row \in ServiceRows : Needs(row) \subseteq UpTo(8)
<1> SUFFICES ASSUME NEW row \in ServiceRows PROVE Needs(row) \subseteq UpTo(8)
  OBVIOUS
<1>1. CASE row \in Rows("service_category", ServiceCategories)
  BY <1>1, InRows, NothingNeeded DEF NeedNothing
<1>2. CASE row \in Rows("service", Services)
  <2>1. Needs(row) = {<<"service_category", row[2][2]>>} /\ row[2] \in Services
    BY <1>2, InRows, OtherNeeds
  <2>2. row[2][2] \in ServiceCategories
    BY <2>1 DEF Services, ServiceCategories
  <2> QED
    BY <2>1, <2>2, RowsHold, StagesAre DEF ServiceRows, UpTo
<1> QED
  BY <1>1, <1>2 DEF ServiceRows

LEMMA ContentFound == \A row \in Content : Needs(row) = {}
<1> SUFFICES ASSUME NEW row \in Content PROVE row[1] \in NeedNothing
  BY NothingNeeded
<1>1. CASE row \in {<<"settings", "site">>, <<"news_category", "novosti-filiala">>,
                     <<"consent", "lead-form">>}
  BY <1>1 DEF NeedNothing
<1>2. CASE row \notin {<<"settings", "site">>, <<"news_category", "novosti-filiala">>,
                     <<"consent", "lead-form">>}
  <2>1. row[1] \in {"page", "menu", "news", "vacancy"}
    BY <1>2, InRows DEF Content
  <2> QED
    BY <2>1 DEF NeedNothing
<1> QED
  BY <1>1, <1>2

LEMMA LandingsTyped ==
  \A landing \in CatalogLandings \union RangeLandings :
    landing.type \in MachineTypes
BY DEF CatalogLandings, RangeLandings, Landing, Plain, MachineTypes

LEMMA LandingsFound == \A row \in Landings : Needs(row) \subseteq UpTo(10)
<1> SUFFICES ASSUME NEW row \in Landings PROVE Needs(row) \subseteq UpTo(10)
  OBVIOUS
<1>1. row = <<"landing", row[2]>> /\ row[2].type \in MachineTypes
  BY InRows, LandingsTyped DEF Landings
<1>2. Needs(row) \subseteq {<<"type", row[2].type>>}
  <2>1. Needs(<<"landing", row[2]>>) \subseteq {<<"type", row[2].type>>}
    BY LandingNeeds
  <2> QED
    BY <1>1, <2>1
<1>3. <<"type", row[2].type>> \in UpTo(10)
  BY <1>1, RowsHold, StagesAre, StillThere
<1> QED
  BY <1>2, <1>3

LEMMA ReviewsFound == \A row \in ReviewRows : Needs(row) \subseteq UpTo(13)
<1> SUFFICES ASSUME NEW row \in ReviewRows PROVE Needs(row) \subseteq UpTo(13)
  OBVIOUS
<1>1. CASE \/ row \in Rows("review", Reviews)
           \/ row \in Rows("source", ReviewSources)
  BY <1>1, InRows, NothingNeeded DEF NeedNothing
<1>2. CASE row \in Rows("logo", ReviewSources)
  <2>1. Needs(row) = {<<"source", row[2]>>} /\ row[2] \in ReviewSources
    BY <1>2, InRows, OtherNeeds
  <2> QED
    BY <2>1, RowsHold, StagesAre DEF ReviewRows, UpTo
<1> QED
  BY <1>1, <1>2 DEF ReviewRows

LEMMA RulesFound == \A row \in Rules : Needs(row) \subseteq UpTo(14)
<1> SUFFICES ASSUME NEW row \in Rules PROVE Needs(row) \subseteq UpTo(14)
  OBVIOUS
<1>1. Needs(row) = {<<"department", row[2][2]>>} /\ row[2] \in LeadRules
  BY InRows, OtherNeeds DEF Rules
<1>2. row[2][2] \in Departments
  BY <1>1 DEF LeadRules, Departments
<1>3. <<"department", row[2][2]>> \in Company
  BY <1>2, RowsHold DEF Company
<1> QED
  BY <1>1, <1>3, StagesAre, StillThere

\* Every name a row of the data goes by, in any of the fourteen tables, belongs
\* to a row that the same stage of seed_demo or an earlier one has brought in.
THEOREM AllFound ==
  \A i \in 1 .. 14 : \A row \in Stages[i] : Needs(row) \subseteq UpTo(i)
<1> SUFFICES ASSUME NEW i \in 1 .. 14, NEW row \in Stages[i]
             PROVE  Needs(row) \subseteq UpTo(i)
  OBVIOUS
<1>1. CASE i \in {1, 3, 5, 6, 7, 8, 10, 13, 14}
  BY <1>1, StagesAre, CompanyFound, CategoriesFound, SpecsFound, MachinesFound, PartsFound,
     ServicesFound, LandingsFound, ReviewsFound, RulesFound
<1>2. CASE i \in {2, 4, 12}
  BY <1>2, StagesAre, InRows, NothingNeeded DEF Delivery, NeedNothing
<1>3. CASE i = 9
  BY <1>3, StagesAre, ContentFound
<1>4. CASE i = 11
  <2>1. row = <<"terms", "leasing">> \/ row \in Rows("partner", LeasingPartners)
    BY <1>4, StagesAre DEF Financing
  <2>2. row[1] \in NeedNothing
    BY <2>1, InRows DEF NeedNothing
  <2> QED
    BY <2>2, NothingNeeded
<1> QED
  BY <1>1, <1>2, <1>3, <1>4

(***************************************************************************)
(* The numbers machines are given                                          *)
(***************************************************************************)

Open(range) == \A k \in DOMAIN range :
    range[k][1] \in Int /\ range[k][2] \in Int /\ range[k][1] < range[k][2]

LEMMA RangesOpen == \A t \in MachineTypes : Open(SpecRanges[t])
<1>1. Open(SpecRanges["ekskavator"])
  <2>1. SpecRanges["ekskavator"] =
          [engine_power |-> <<800, 4600>>, operating_weight |-> <<130000, 960000>>,
           bucket_capacity |-> <<5, 52>>, digging_depth |-> <<50, 84>>,
           transport_length |-> <<75000, 135000>>, fuel_tank |-> <<3000, 12500>>,
           max_speed |-> <<30, 55>>]
    BY DEF SpecRanges, MachineTypes
  <2> QED
    BY <2>1 DEF Open
<1>2. Open(SpecRanges["bulldozer"])
  <2>1. SpecRanges["bulldozer"] =
          [engine_power |-> <<1200, 2600>>, operating_weight |-> <<180000, 440000>>,
           bucket_capacity |-> <<30, 94>>, transport_length |-> <<52000, 74000>>,
           fuel_tank |-> <<4000, 9000>>, max_speed |-> <<35, 110>>]
    BY DEF SpecRanges, MachineTypes
  <2> QED
    BY <2>1 DEF Open
<1>3. Open(SpecRanges["frontalnyy-pogruzchik"])
  <2>1. SpecRanges["frontalnyy-pogruzchik"] =
          [engine_power |-> <<1200, 4000>>, operating_weight |-> <<150000, 520000>>,
           bucket_capacity |-> <<25, 65>>, lifting_capacity |-> <<40000, 120000>>,
           fuel_tank |-> <<2800, 7000>>, max_speed |-> <<200, 380>>]
    BY DEF SpecRanges, MachineTypes
  <2> QED
    BY <2>1 DEF Open
<1>4. Open(SpecRanges["vilochnyy-pogruzchik"])
  <2>1. SpecRanges["vilochnyy-pogruzchik"] =
          [engine_power |-> <<350, 900>>, operating_weight |-> <<35000, 95000>>,
           lifting_capacity |-> <<15000, 50000>>, lift_height |-> <<30, 70>>,
           max_speed |-> <<170, 250>>]
    BY DEF SpecRanges, MachineTypes
  <2> QED
    BY <2>1 DEF Open
<1>5. Open(SpecRanges["teleskopicheskiy-pogruzchik"])
  <2>1. SpecRanges["teleskopicheskiy-pogruzchik"] =
          [engine_power |-> <<550, 1050>>, operating_weight |-> <<65000, 125000>>,
           lifting_capacity |-> <<25000, 50000>>, lift_height |-> <<60, 180>>,
           max_speed |-> <<250, 400>>]
    BY DEF SpecRanges, MachineTypes
  <2> QED
    BY <2>1 DEF Open
<1>6. Open(SpecRanges["dorozhnyy-katok"])
  <2>1. SpecRanges["dorozhnyy-katok"] =
          [engine_power |-> <<550, 1600>>, operating_weight |-> <<70000, 250000>>,
           drum_width |-> <<13000, 22000>>, max_speed |-> <<60, 120>>]
    BY DEF SpecRanges, MachineTypes
  <2> QED
    BY <2>1 DEF Open
<1>7. Open(SpecRanges["samosval"])
  <2>1. SpecRanges["samosval"] =
          [engine_power |-> <<2500, 7800>>, operating_weight |-> <<280000, 780000>>,
           lifting_capacity |-> <<250000, 630000>>, fuel_tank |-> <<4000, 11000>>,
           max_speed |-> <<450, 650>>]
    BY DEF SpecRanges, MachineTypes
  <2> QED
    BY <2>1 DEF Open
<1>8. Open(SpecRanges["kran"])
  <2>1. SpecRanges["kran"] =
          [engine_power |-> <<1800, 4000>>, operating_weight |-> <<360000, 960000>>,
           lifting_capacity |-> <<550000, 1300000>>, lift_height |-> <<400, 680>>]
    BY DEF SpecRanges, MachineTypes
  <2> QED
    BY <2>1 DEF Open
<1>9. Open(SpecRanges["generator"])
  <2>1. SpecRanges["generator"] =
          [engine_power |-> <<200, 3200>>, power_output |-> <<250, 4000>>,
           operating_weight |-> <<7000, 42000>>, fuel_tank |-> <<600, 7000>>]
    BY DEF SpecRanges, MachineTypes
  <2> QED
    BY <2>1 DEF Open
<1> QED
  BY <1>1, <1>2, <1>3, <1>4, <1>5, <1>6, <1>7, <1>8, <1>9 DEF MachineTypes

LEMMA DecimalsCounted == \A k \in DOMAIN SpecKeys : SpecKeys[k].decimals \in Nat
BY DEF SpecKeys, Key

\* No range of the data is empty, whatever its step.
LEMMA SomethingDrawn ==
  ASSUME NEW t \in MachineTypes, NEW k \in DOMAIN SpecKeys,
         k \in DOMAIN SpecRanges[t]
  PROVE  SpecRanges[t][k][1] \in Drawn(t, k)
<1> DEFINE low == SpecRanges[t][k][1]
           high == SpecRanges[t][k][2]
           step == IF SpecKeys[k].decimals > 0 THEN 1
                   ELSE IF high - low < 500 THEN 10 ELSE 10 * ((high - low) \div 500)
<1>1. low \in Int /\ high \in Int /\ low < high /\ SpecKeys[k].decimals \in Nat
  BY RangesOpen, DecimalsCounted DEF Open
<1> HIDE DEF low, high
<1>2. step \in Int /\ step > 0
  BY <1>1
<1> HIDE DEF step
<1>3. 0 <= (high - 1 - low) \div step
  BY <1>1, <1>2
<1>4. (high - 1 - low) \div step \in Int
  BY <1>1, <1>2
<1>5. 0 \in 0 .. (high - 1 - low) \div step
  BY <1>3, <1>4
<1>6. low = low + step * 0
  BY <1>1, <1>2
<1>7. Drawn(t, k) = {low + step * n : n \in 0 .. (high - 1 - low) \div step}
  BY DEF Drawn, low, high, step
<1>8. low \in Drawn(t, k)
  BY <1>5, <1>6, <1>7
<1> QED
  BY <1>8 DEF low

LEMMA MachinesAreLines ==
  \A i \in 1 .. 14 : \A row \in Stages[i] :
    row[1] = "machine" => row[2] \in MachineLines
<1> SUFFICES ASSUME NEW i \in 1 .. 14, NEW row \in Stages[i], row[1] = "machine"
             PROVE  row[2] \in MachineLines
  OBVIOUS
<1>1. CASE i \in {1, 5, 7, 8}
  BY <1>1, StagesAre, InRows DEF Company, SpecRows, Parts, ServiceRows
<1>2. CASE i \in {2, 3, 4, 10, 12, 13, 14}
  BY <1>2, StagesAre, InRows
     DEF CategoryRows, Landings, Delivery, ReviewRows, Rules
<1>3. CASE i = 6
  BY <1>3, StagesAre, InRows DEF Machines
<1>4. CASE i = 9
  BY <1>4, StagesAre, InRows DEF Content
<1>5. CASE i = 11
  BY <1>5, StagesAre, InRows DEF Financing
<1> QED
  BY <1>1, <1>2, <1>3, <1>4, <1>5

LEMMA OnlyDoublesStumble ==
  ASSUME stage \in 1 .. 14, NEW row \in Stages[stage], Stumbles(row)
  PROVE  row \in doubled
<1>1. Needs(row) \subseteq Reached \union Stages[stage]
  BY AllFound DEF UpTo, Reached
<1>2. ASSUME row[1] = "machine", NEW k \in Ranged(row[2][2])
      PROVE  Drawn(row[2][2], k) # {}
  <2>1. row[2][2] \in MachineTypes
    BY <1>2, MachinesAreLines, LinesKnown
  <2>2. k \in DOMAIN SpecRanges[row[2][2]] /\ k \in DOMAIN SpecKeys
    BY <1>2, <2>1, SpecsKnown DEF Ranged
  <2> QED
    BY <2>1, <2>2, SomethingDrawn
<1> QED
  BY <1>1, <1>2 DEF Stumbles

(***************************************************************************)
(* The runs                                                                *)
(***************************************************************************)

\* What holds between any two steps, and what after a run that nobody has
\* touched since.
SeedTypes ==
    /\ stage \in 0 .. 15
    /\ \A e \in edited : e = <<e[1], e[2]>> /\ e[2] \in Fields(e[1])
    /\ \A row \in doubled \union failures : row[1] \in Doublable

Complete ==
    ~changed => AllRows \subseteq db /\ \A e \in edited : ~WrittenOver(e[1], e[2])

LEMMA SeedTypesStep == SeedTypes /\ [SeedNext]_seedVars => SeedTypes'
<1> SUFFICES ASSUME SeedTypes, [SeedNext]_seedVars PROVE SeedTypes'
  OBVIOUS
<1> USE DEF SeedTypes
<1>1. CASE Begin \/ Killed
  BY <1>1 DEF Begin, Killed
<1>2. CASE BringIn
  BY <1>2, StagesCounted DEF BringIn
<1>3. CASE Fail
  <2>1. stage \in 1 .. 14
    BY <1>3, StagesCounted DEF Fail
  <2>2. \A row \in failures' : row \in failures \/ row \in doubled
    BY <1>3, <2>1, OnlyDoublesStumble DEF Fail
  <2> QED
    BY <1>3, <2>2 DEF Fail
<1>4. CASE Finish
  BY <1>4 DEF Finish
<1>5. ASSUME NEW row \in Touched, Double(row) \/ \E field \in Fields(row) : Edit(row, field)
      PROVE  SeedTypes'
  BY <1>5 DEF Edit, Double, Work
<1>6. ASSUME NEW row \in Touched, Drop(row) PROVE SeedTypes'
  BY <1>6 DEF Drop, Work
<1>7. CASE UNCHANGED seedVars
  BY <1>7 DEF seedVars
<1> QED
  BY <1>1, <1>2, <1>3, <1>4, <1>5, <1>6, <1>7 DEF SeedNext

\* Administrators change a row in the fields it has, and what stops a run is a
\* second row of the same key.
THEOREM SeedTypesHold == SeedSpec => []SeedTypes
<1>1. SeedInit => SeedTypes
  BY DEF SeedInit, SeedTypes
<1> QED
  BY <1>1, SeedTypesStep, PTL DEF SeedSpec

\* For any rows worked on and any number of runs: no lookup of a name fails, no
\* range is empty, and update_or_create meets two rows only where the table lets
\* somebody enter a second one.
THEOREM FailsOnlyOverDoublesHolds == SeedSpec => []FailsOnlyOverDoubles
<1>1. SeedTypes => FailsOnlyOverDoubles
  BY DEF SeedTypes, FailsOnlyOverDoubles
<1> QED
  BY <1>1, SeedTypesHold, PTL

LEMMA CompleteStep == SeedTypes /\ Complete /\ [SeedNext]_seedVars => Complete'
<1> SUFFICES ASSUME SeedTypes, Complete, [SeedNext]_seedVars PROVE Complete'
  OBVIOUS
<1>1. CASE Finish
  BY <1>1 DEF Finish, Complete, WrittenOver
<1>2. ASSUME NEW row \in Touched,
             Double(row) \/ Drop(row) \/ \E field \in Fields(row) : Edit(row, field)
      PROVE  Complete'
  BY <1>2 DEF Edit, Double, Drop, Work, Complete
<1>3. CASE Begin \/ BringIn \/ Fail \/ Killed \/ UNCHANGED seedVars
  BY <1>3 DEF Begin, BringIn, Fail, Killed, seedVars, Complete
<1> QED
  BY <1>1, <1>2, <1>3 DEF SeedNext

\* A machine of the line can be what the landing asks for.
Satisfies(line, landing) ==
    /\ line[2] = landing.type /\ landing.brand \in {Unset, line[1]}
    /\ landing.key # Unset =>
         /\ landing.key \in DOMAIN SpecKeys /\ landing.key \in Ranged(line[2])
         /\ \E v \in Drawn(line[2], landing.key) :
              landing.low <= v /\ v <= landing.high

LEMMA CatalogLandingsSatisfied ==
  \A landing \in CatalogLandings : \E line \in MachineLines : Satisfies(line, landing)
BY DEF CatalogLandings, MachineLines, Satisfies, Plain, Landing,
       Unset

LEMMA Excavators ==
  /\ "operating_weight" \in DOMAIN SpecKeys
  /\ "operating_weight" \in Ranged("ekskavator")
  /\ 213000 \in Drawn("ekskavator", "operating_weight")
  /\ 462000 \in Drawn("ekskavator", "operating_weight")
<1>1. /\ "operating_weight" \in DOMAIN SpecKeys
      /\ SpecKeys["operating_weight"].decimals = 0
  BY DEF SpecKeys, Key
<1>2. /\ "operating_weight" \in DOMAIN SpecRanges["ekskavator"]
      /\ SpecRanges["ekskavator"]["operating_weight"] = <<130000, 960000>>
  BY DEF SpecRanges, MachineTypes
<1>3. "operating_weight" \in TypeSpecs["ekskavator"]
  BY DEF TypeSpecs, MachineTypes, Common
<1>4. Drawn("ekskavator", "operating_weight") = {130000 + 16600 * n : n \in 0 .. 49}
  BY <1>1, <1>2 DEF Drawn
<1>5. 213000 = 130000 + 16600 * 5 /\ 462000 = 130000 + 16600 * 20
  OBVIOUS
<1> QED
  BY <1>1, <1>2, <1>3, <1>4, <1>5 DEF Ranged

LEMMA Forklifts ==
  /\ "lifting_capacity" \in DOMAIN SpecKeys
  /\ "lifting_capacity" \in Ranged("vilochnyy-pogruzchik")
  /\ 15000 \in Drawn("vilochnyy-pogruzchik", "lifting_capacity")
<1>1. /\ "lifting_capacity" \in DOMAIN SpecKeys
      /\ SpecKeys["lifting_capacity"].decimals = 0
  BY DEF SpecKeys, Key
<1>2. /\ "lifting_capacity" \in DOMAIN SpecRanges["vilochnyy-pogruzchik"]
      /\ SpecRanges["vilochnyy-pogruzchik"]["lifting_capacity"] = <<15000, 50000>>
  BY DEF SpecRanges, MachineTypes
<1>3. "lifting_capacity" \in TypeSpecs["vilochnyy-pogruzchik"]
  BY DEF TypeSpecs, MachineTypes, Lifting
<1>4. Drawn("vilochnyy-pogruzchik", "lifting_capacity")
        = {15000 + 700 * n : n \in 0 .. 49}
  BY <1>1, <1>2 DEF Drawn
<1>5. 15000 = 15000 + 700 * 0
  OBVIOUS
<1> QED
  BY <1>1, <1>2, <1>3, <1>4, <1>5 DEF Ranged

LEMMA RangeLandingsSatisfied ==
  \A landing \in RangeLandings : \E line \in MachineLines : Satisfies(line, landing)
<1> DEFINE excavator == <<"komatsu", "ekskavator", "ekskavatory">>
           forklift == <<"komatsu", "vilochnyy-pogruzchik", "vilochnye-pogruzchiki">>
<1>1. excavator \in MachineLines /\ forklift \in MachineLines
  BY DEF MachineLines
<1>2. \A landing \in RangeLandings :
        landing.type = "ekskavator" => Satisfies(excavator, landing)
  BY Excavators DEF RangeLandings, Landing, Unbounded, Satisfies, Unset
<1>3. \A landing \in RangeLandings :
        landing.type = "vilochnyy-pogruzchik" => Satisfies(forklift, landing)
  BY Forklifts DEF RangeLandings, Landing, Unbounded, Satisfies, Unset
<1>4. \A landing \in RangeLandings :
        landing.type \in {"ekskavator", "vilochnyy-pogruzchik"}
  BY DEF RangeLandings, Landing
<1> QED
  BY <1>1, <1>2, <1>3, <1>4

LEMMA CompleteHolds == SeedSpec => []Complete
<1>1. SeedInit => Complete
  BY DEF SeedInit, Complete
<1> QED
  BY <1>1, CompleteStep, SeedTypesHold, PTL DEF SeedSpec

\* A landing that has a number to go by is one of the landings by a number.
LEMMA RangesApart ==
  /\ \A landing \in CatalogLandings : landing.key = Unset
  /\ \A landing \in RangeLandings : landing.key # Unset
BY DEF CatalogLandings, RangeLandings, Plain, Landing, Unset

\* What stays changed of a landing after a run has made it narrower.
LEMMA LeftNarrowed ==
  ASSUME SeedTypes, Complete, ~changed, NEW landing \in CatalogLandings \union RangeLandings,
         NEW field \in Fields(<<"landing", landing>>), <<<<"landing", landing>>, field>> \in edited
  PROVE  Narrowed(landing)
<1>1. ~WrittenOver(<<"landing", landing>>, field)
  BY DEF Complete
<1>2. field \in {"type", "brand", "category", "condition", "more"}
  BY DEF Fields
<1>3. /\ field # "type"
      /\ field = "brand" => landing \notin CatalogLandings
      /\ field = "condition" => landing \notin RangeLandings
  BY <1>1 DEF WrittenOver
<1>4. field \in {"category", "more"} \union (IF landing.key # Unset THEN {"brand"} ELSE {"condition"})
  BY <1>2, <1>3, RangesApart
<1> QED
  BY <1>4 DEF Narrowed

\* After a run every landing that no administrator has made narrower has a
\* machine of the data to show: one of its type and brand, with a number in
\* its bounds among those it may be given (_create_landings).
THEOREM LandingsCanShowHolds == SeedSpec => []LandingsCanShow
<1>1. SeedTypes /\ Complete => LandingsCanShow
  <2> SUFFICES ASSUME SeedTypes, Complete, ~changed,
                      NEW landing \in CatalogLandings \union RangeLandings
               PROVE
                 /\ <<"landing", landing>> \in db
                 /\ ~Narrowed(landing) => \A field \in Fields(<<"landing", landing>>) :
                       <<<<"landing", landing>>, field>> \notin edited
                 /\ \E line \in MachineLines :
                      /\ <<"machine", line>> \in db
                      /\ <<<<"machine", line>>, "data">> \notin edited
                      /\ line[2] = landing.type /\ landing.brand \in {Unset, line[1]}
                      /\ landing.key # Unset =>
                           /\ <<"key", landing.key>> \in db
                           /\ <<<<"key", landing.key>>, "data">> \notin edited
                           /\ landing.key \in Ranged(line[2])
                           /\ \E v \in Drawn(line[2], landing.key) :
                                landing.low <= v /\ v <= landing.high
    BY DEF LandingsCanShow
  <2>1. AllRows \subseteq db /\ \A row : <<row, "data">> \notin edited
    BY DEF Complete, WrittenOver
  <2>2. /\ <<"landing", landing>> \in AllRows
        /\ \A line \in MachineLines : <<"machine", line>> \in AllRows
        /\ \A k \in DOMAIN SpecKeys : <<"key", k>> \in AllRows
    <3>1. <<"landing", landing>> \in Stages[10]
      BY RowsHold, StagesAre DEF Landings
    <3>2. \A line \in MachineLines : <<"machine", line>> \in Stages[6]
      BY RowsHold, StagesAre DEF Machines
    <3>3. \A k \in DOMAIN SpecKeys : <<"key", k>> \in Stages[5]
      BY RowsHold, StagesAre DEF SpecRows
    <3> QED
      BY <3>1, <3>2, <3>3, StagesCounted DEF AllRows
  <2>3. PICK line \in MachineLines : Satisfies(line, landing)
    BY CatalogLandingsSatisfied, RangeLandingsSatisfied
  <2>4. ~Narrowed(landing) => \A field \in Fields(<<"landing", landing>>) :
          <<<<"landing", landing>>, field>> \notin edited
    BY LeftNarrowed
  <2> QED
    BY <2>1, <2>2, <2>3, <2>4 DEF Satisfies
<1> QED
  BY <1>1, CompleteHolds, SeedTypesHold, PTL
=============================================================================
