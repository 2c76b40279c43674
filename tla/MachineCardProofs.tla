-------------------------- MODULE MachineCardProofs --------------------------
(***************************************************************************)
(* Facts about the card of a machine for any number of machines, slugs,    *)
(* administrators, characteristics and pictures.                           *)
(***************************************************************************)
EXTENDS MachineCard, FiniteSetTheorems, WellFoundedInduction, TLAPS

\* A machine is saved by one request at a time, ...
LockedOnce ==
    \A a, b \in Admins : a # b /\ Working(a, "saved") /\ Working(b, "saved") =>
      draft[a].machine # draft[b].machine

\* ... which is going to commit the characteristics as they were or a snapshot
\* rebuilt from them, ...
DraftTrue ==
    \A a \in Admins : draft[a] # Idle =>
      LET d == draft[a] IN
      IF d.rebuilt THEN d.at = "saved" /\ d.row.snapshot = Render(d.specs)
      ELSE d.at = "saved" => d.specs = specs[d.machine] \/ d.machine \in excused

\* ... and a picture which, as it was read or as it is going to be written, shows
\* what its row names.
DraftPictured ==
    \A a \in Admins : draft[a] # Idle =>
      LET p == draft[a].picture IN p.file \in spoilt \/ Displayed(p) = p.file

LEMMA RenderType ==
  ASSUME keys \in [Keys -> [name : Names, card : BOOLEAN]],
         NEW v \in [Keys -> Values \union {None}]
  PROVE  Render(v) \in Snapshot
BY CardAssumption DEF Render, Snapshot, Tile

\* The ways a request changes its draft keep it one.
LEMMA DraftKept ==
  ASSUME NEW d \in Draft
  PROVE  /\ [d EXCEPT !.rebuilt = FALSE] \in Draft
         /\ \A s \in Slugs, o \in Slugs \union {None} :
              [d EXCEPT !.at = "peeked", !.slug = s, !.old = o] \in Draft
         /\ \A v \in [Keys -> Values \union {None}], w \in Snapshot :
              [d EXCEPT !.specs = v, !.rebuilt = TRUE, !.row.snapshot = w] \in Draft
         /\ \A p \in Picture : [d EXCEPT !.painted = TRUE, !.picture = p] \in Draft
         /\ \A v \in [Keys -> Values \union {None}], r \in Row :
              [d EXCEPT !.at = "saved", !.specs = v, !.row = r] \in Draft
<1>1. [d EXCEPT !.rebuilt = FALSE] \in Draft
  BY DEF Draft
<1>2. ASSUME NEW s \in Slugs, NEW o \in Slugs \union {None}
      PROVE  [d EXCEPT !.at = "peeked", !.slug = s, !.old = o] \in Draft
  BY DEF Draft
<1>3. ASSUME NEW v \in [Keys -> Values \union {None}], NEW w \in Snapshot
      PROVE  [d EXCEPT !.specs = v, !.rebuilt = TRUE, !.row.snapshot = w] \in Draft
  BY DEF Draft, Row
<1>4. ASSUME NEW p \in Picture PROVE [d EXCEPT !.painted = TRUE, !.picture = p] \in Draft
  BY DEF Draft
<1>5. ASSUME NEW v \in [Keys -> Values \union {None}], NEW r \in Row
      PROVE  [d EXCEPT !.at = "saved", !.specs = v, !.row = r] \in Draft
  BY DEF Draft
<1> QED
  BY <1>1, <1>2, <1>3, <1>4, <1>5

\* The form and the action save the row of the machine alike.
Saves(a) == (\E shown \in BOOLEAN : SaveForm(a, shown)) \/ Publish(a)

LEMMA SavesRow ==
  ASSUME TypeOK, NEW a \in Admins, Saves(a)
  PROVE  LET d == draft[a]
             m == draft[a].machine
         IN /\ d \in Draft /\ d # Idle /\ d.at = "peeked" /\ ~Locked(m) /\ NoteRace(d)
            /\ UNCHANGED <<row, specs, picture, rules, keys, edits, held, spoilt, excused>>
            /\ \E r \in Row :
                 /\ draft' = [draft EXCEPT ![a] = [d EXCEPT !.at = "saved", !.specs = specs[m],
                                                            !.row = r]]
                 /\ IF d.kind = "form" THEN r.slug = d.slug
                    ELSE row[m].slug # None /\ r.slug = row[m].slug
<1> DEFINE d == draft[a]
           m == draft[a].machine
<1>1. d \in Draft /\ d # Idle /\ d.at = "peeked" /\ ~Locked(m)
  BY DEF Saves, SaveForm, Publish, Working, TypeOK
<1>2. m \in Machines /\ d.slug \in Slugs /\ d.row \in Row /\ row[m] \in Row
  BY <1>1 DEF Draft, TypeOK
<1>3. ASSUME NEW shown \in BOOLEAN, SaveForm(a, shown)
      PROVE  \E r \in Row :
               /\ draft' = [draft EXCEPT ![a] = [d EXCEPT !.at = "saved", !.specs = specs[m],
                                                          !.row = r]]
               /\ d.kind = "form" /\ r.slug = d.slug
  <2> DEFINE r == [d.row EXCEPT !.slug = d.slug, !.shown = shown]
  <2>1. r \in Row /\ r.slug = d.slug
    BY <1>2 DEF Row
  <2>2. d.kind = "form" /\ draft' = [draft EXCEPT ![a] =
          [d EXCEPT !.at = "saved", !.specs = specs[m], !.row = [@ EXCEPT !.slug = d.slug, !.shown = shown]]]
    BY <1>3 DEF SaveForm
  <2>3. [d EXCEPT !.at = "saved", !.specs = specs[m], !.row = [@ EXCEPT !.slug = d.slug, !.shown = shown]]
          = [d EXCEPT !.at = "saved", !.specs = specs[m], !.row = r]
    BY <1>1 DEF Draft
  <2> QED
    BY <2>1, <2>2, <2>3
<1>4. ASSUME Publish(a)
      PROVE  \E r \in Row :
               /\ draft' = [draft EXCEPT ![a] = [d EXCEPT !.at = "saved", !.specs = specs[m],
                                                          !.row = r]]
               /\ d.kind # "form" /\ row[m].slug # None /\ r.slug = row[m].slug
  <2> DEFINE r == [row[m] EXCEPT !.shown = (d.kind = "publish")]
  <2>1. r \in Row /\ r.slug = row[m].slug
    BY <1>2 DEF Row
  <2>2. /\ d.kind # "form" /\ row[m].slug # None
        /\ draft' = [draft EXCEPT ![a] = [d EXCEPT !.at = "saved", !.specs = specs[m], !.row = r]]
    BY <1>4 DEF Publish
  <2> QED
    BY <2>1, <2>2
<1>5. NoteRace(d) /\ UNCHANGED <<row, specs, picture, rules, keys, edits, held, spoilt, excused>>
  BY DEF Saves, SaveForm, Publish
<1> QED
  BY <1>1, <1>3, <1>4, <1>5 DEF Saves

LEMMA TypeStep == TypeOK /\ [Next]_vars => TypeOK'
<1> SUFFICES ASSUME TypeOK, [Next]_vars PROVE TypeOK'
  OBVIOUS
<1> USE CardAssumption DEF TypeOK, ghosts
<1>1. ASSUME NEW a \in Admins, NEW m \in Machines, NEW kind \in Kinds, Fetch(a, m, kind)
      PROVE  TypeOK'
  <2> DEFINE d == [at |-> "fetched", machine |-> m, kind |-> kind, slug |-> row[m].slug,
                   old |-> None, row |-> row[m], specs |-> specs[m], rebuilt |-> FALSE,
                   picture |-> picture[m], painted |-> FALSE]
  <2>1. d \in Draft
    BY <1>1 DEF Fetch, Draft, Row
  <2>2. draft' = [draft EXCEPT ![a] = d]
    BY <1>1 DEF Fetch
  <2> HIDE DEF d
  <2>3. draft' \in [Admins -> Draft \union {Idle}]
    BY <2>1, <2>2
  <2>4. edits' \in 0 .. MaxEdits /\ UNCHANGED <<row, specs, picture, keys, rules, held, raced, excused, spoilt>>
    BY <1>1 DEF Fetch
  <2> QED
    BY <2>3, <2>4
<1>2. ASSUME NEW a \in Admins, NEW s \in Slugs, Peek(a, s) PROVE TypeOK'
  <2>1. draft[a] \in Draft
    BY <1>2 DEF Peek, Working
  <2>2. draft' = [draft EXCEPT ![a] = [draft[a] EXCEPT !.at = "peeked", !.slug = s,
                                                       !.old = row[draft[a].machine].slug]]
    BY <1>2 DEF Peek
  <2>3. row[draft[a].machine].slug \in Slugs \union {None}
    BY <2>1 DEF Draft, Row
  <2>4. draft' \in [Admins -> Draft \union {Idle}]
    BY <2>1, <2>2, <2>3, DraftKept
  <2> QED
    BY <1>2, <2>4 DEF Peek
<1>3. ASSUME NEW a \in Admins, Saves(a) PROVE TypeOK'
  <2> DEFINE d == draft[a]
             m == draft[a].machine
  <2>1. d \in Draft /\ NoteRace(d)
    BY <1>3, SavesRow
  <2>2. PICK r \in Row : draft' = [draft EXCEPT ![a] = [d EXCEPT !.at = "saved", !.specs = specs[m],
                                                                  !.row = r]]
    BY <1>3, SavesRow
  <2>3. specs[m] \in [Keys -> Values \union {None}]
    BY <2>1 DEF Draft
  <2>4. draft' \in [Admins -> Draft \union {Idle}]
    BY <2>1, <2>2, <2>3, DraftKept
  <2>5. UNCHANGED <<row, specs, picture, rules, keys, edits, held, spoilt, excused>>
    BY <1>3, SavesRow
  <2> QED
    BY <2>1, <2>4, <2>5 DEF NoteRace
<1>4. ASSUME NEW a \in Admins, NEW k \in Keys, NEW v \in Values \union {None}, ChangeSpec(a, k, v)
      PROVE  TypeOK'
  <2> DEFINE values == [draft[a].specs EXCEPT ![k] = v]
  <2>1. draft[a] \in Draft
    BY <1>4 DEF ChangeSpec, Working
  <2>2. values \in [Keys -> Values \union {None}]
    BY <2>1 DEF Draft
  <2>3. Render(values) \in Snapshot
    BY <2>2, RenderType
  <2>4. draft' = [draft EXCEPT ![a] = [draft[a] EXCEPT !.specs = values, !.rebuilt = TRUE,
                                                       !.row.snapshot = Render(values)]]
    BY <1>4 DEF ChangeSpec
  <2> HIDE DEF values
  <2>5. draft' \in [Admins -> Draft \union {Idle}]
    BY <2>1, <2>2, <2>3, <2>4, DraftKept
  <2> QED
    BY <1>4, <2>5 DEF ChangeSpec
<1>5. ASSUME NEW a \in Admins, NEW f \in Files, NEW readable \in BOOLEAN, SavePicture(a, f, readable)
      PROVE  TypeOK'
  <2>1. draft[a] \in Draft
    BY <1>5 DEF SavePicture, Working
  <2> DEFINE q == draft[a].picture
             p == [file |-> f, copies |-> IF CopiesNeeded(q, f) /\ readable THEN f ELSE q.copies]
  <2>2. draft' = [draft EXCEPT ![a] = [draft[a] EXCEPT !.painted = TRUE, !.picture = p]]
    BY <1>5 DEF SavePicture
  <2>4. q \in Picture
    BY <2>1 DEF Draft
  <2>5. p \in Picture
    BY <2>4 DEF Picture
  <2> HIDE DEF p
  <2>3. draft' \in [Admins -> Draft \union {Idle}]
    BY <2>1, <2>2, <2>5, DraftKept
  <2> QED
    BY <1>5, <2>3 DEF SavePicture
<1>6. ASSUME NEW a \in Admins, Commit(a) PROVE TypeOK'
  <2>1. draft[a] \in Draft
    BY <1>6 DEF Commit, Working
  <2>2. rules' \in [Slugs -> Slugs \union {None}]
    BY <1>6, <2>1 DEF Commit, Draft, RulesAfter
  <2>6. /\ draft[a].machine \in Machines /\ draft[a].row \in Row /\ draft[a].picture \in Picture
        /\ draft[a].specs \in [Keys -> Values \union {None}] /\ draft[a].row.slug \in Slugs \union {None}
    BY <2>1 DEF Draft, Row
  <2>3. /\ row' \in [Machines -> Row] /\ picture' \in [Machines -> Picture]
        /\ specs' \in [Machines -> [Keys -> Values \union {None}]]
    BY <1>6, <2>1 DEF Commit, Draft
  <2>4. spoilt' \subseteq Files /\ excused' \subseteq Machines
    BY <1>6, <2>1 DEF Commit, Draft
  <2>5. held' \in [Machines -> SUBSET (Slugs \union {None})]
    BY <1>6, <2>6 DEF Commit
  <2>7. draft' \in [Admins -> Draft \union {Idle}] /\ UNCHANGED <<keys, edits, raced>>
    BY <1>6 DEF Commit
  <2> QED
    BY <2>2, <2>3, <2>4, <2>5, <2>7
<1>7. ASSUME NEW a \in Admins, Abort(a) PROVE TypeOK'
  BY <1>7 DEF Abort
<1>8. ASSUME NEW m \in Machines, Delete(m) PROVE TypeOK'
  BY <1>8 DEF Delete, Row, Snapshot, NoSpecs, NoPicture, Picture
<1>9. ASSUME NEW k \in Keys, NEW name \in Names, NEW card \in BOOLEAN, EditKey(k, name, card)
      PROVE  TypeOK'
  <2>1. draft' \in [Admins -> Draft \union {Idle}]
    BY <1>9, DraftKept DEF EditKey
  <2> QED
    BY <1>9, <2>1 DEF EditKey
<1>10. CASE UNCHANGED vars
  BY <1>10 DEF vars
<1> QED
  BY <1>1, <1>2, <1>3, <1>4, <1>5, <1>6, <1>7, <1>8, <1>9, <1>10 DEF Next, Saves

\* A step of one administrator leaves the requests of the others alone.
LEMMA OthersKept ==
  ASSUME TypeOK, NEW a \in Admins, NEW e,
         draft' = [draft EXCEPT ![a] = e]
  PROVE  draft'[a] = e /\ \A b \in Admins \ {a} : draft'[b] = draft[b]
BY DEF TypeOK

LEMMA FetchEffect ==
  ASSUME TypeOK, NEW a \in Admins, NEW m \in Machines, NEW kind, Fetch(a, m, kind)
  PROVE  LET e == draft'[a]
         IN /\ e # Idle /\ e.at = "fetched" /\ ~e.rebuilt /\ e.picture = picture[m]
            /\ \A b \in Admins \ {a} : draft'[b] = draft[b]
            /\ UNCHANGED <<row, specs, picture, keys, spoilt, excused>>
<1> DEFINE e == [at |-> "fetched", machine |-> m, kind |-> kind, slug |-> row[m].slug,
                 old |-> None, row |-> row[m], specs |-> specs[m], rebuilt |-> FALSE,
                 picture |-> picture[m], painted |-> FALSE]
<1>1. draft' = [draft EXCEPT ![a] = e]
  BY DEF Fetch
<1>2. e # Idle /\ e.at = "fetched" /\ ~e.rebuilt /\ e.picture = picture[m]
  BY DEF Idle
<1> HIDE DEF e
<1> QED
  BY <1>1, <1>2, OthersKept DEF Fetch, ghosts

LEMMA PeekEffect ==
  ASSUME TypeOK, NEW a \in Admins, NEW s \in Slugs, Peek(a, s)
  PROVE  LET d == draft[a]
             e == draft'[a]
         IN /\ d # Idle /\ d.at = "fetched" /\ e # Idle /\ e.at = "peeked"
            /\ e.rebuilt = d.rebuilt /\ e.picture = d.picture
            /\ \A b \in Admins \ {a} : draft'[b] = draft[b]
            /\ UNCHANGED <<row, specs, picture, keys, spoilt, excused>>
<1> DEFINE e == [draft[a] EXCEPT !.at = "peeked", !.slug = s,
                                 !.old = row[draft[a].machine].slug]
<1>1. draft[a] \in Draft /\ draft[a] # Idle /\ draft[a].at = "fetched"
  BY DEF Peek, Working, TypeOK
<1>2. draft' = [draft EXCEPT ![a] = e]
  BY DEF Peek
<1>3. e # Idle /\ e.at = "peeked" /\ e.rebuilt = draft[a].rebuilt /\ e.picture = draft[a].picture
  BY <1>1 DEF Draft, Idle
<1> HIDE DEF e
<1> QED
  BY <1>1, <1>2, <1>3, OthersKept DEF Peek, ghosts

LEMMA SavesEffect ==
  ASSUME TypeOK, NEW a \in Admins, Saves(a)
  PROVE  LET d == draft[a]
             e == draft'[a]
         IN /\ d # Idle /\ d.at = "peeked" /\ e # Idle /\ e.at = "saved"
            /\ e.machine = d.machine /\ d.machine \in Machines /\ ~Locked(d.machine)
            /\ e.rebuilt = d.rebuilt /\ e.picture = d.picture
            /\ e.specs = specs[d.machine]
            /\ \A b \in Admins \ {a} : draft'[b] = draft[b]
            /\ UNCHANGED <<row, specs, picture, keys, spoilt, excused>>
<1> DEFINE d == draft[a]
           m == draft[a].machine
<1>1. d \in Draft /\ d # Idle /\ d.at = "peeked" /\ ~Locked(m)
  BY SavesRow
<1>2. PICK r \in Row : draft' = [draft EXCEPT ![a] = [d EXCEPT !.at = "saved", !.specs = specs[m],
                                                                !.row = r]]
  BY SavesRow
<1> DEFINE e == [d EXCEPT !.at = "saved", !.specs = specs[m], !.row = r]
<1>3. /\ e # Idle /\ e.at = "saved" /\ e.machine = m
      /\ e.rebuilt = d.rebuilt /\ e.picture = d.picture /\ e.specs = specs[m]
  BY <1>1 DEF Draft, Idle
<1>4. m \in Machines
  BY <1>1 DEF Draft
<1>5. UNCHANGED <<row, specs, picture, keys, spoilt, excused>>
  BY SavesRow
<1>6. draft'[a] = e /\ \A b \in Admins \ {a} : draft'[b] = draft[b]
  BY <1>2, OthersKept
<1> QED
  BY <1>1, <1>3, <1>4, <1>5, <1>6

LEMMA ChangeSpecEffect ==
  ASSUME TypeOK, NEW a \in Admins, NEW k \in Keys, NEW v \in Values \union {None},
         ChangeSpec(a, k, v)
  PROVE  LET d == draft[a]
             e == draft'[a]
         IN /\ d # Idle /\ d.at = "saved" /\ e # Idle /\ e.at = "saved"
            /\ e.machine = d.machine /\ e.picture = d.picture
            /\ e.rebuilt /\ e.row.snapshot = Render(e.specs)
            /\ \A b \in Admins \ {a} : draft'[b] = draft[b]
            /\ UNCHANGED <<row, specs, picture, keys, spoilt, excused>>
<1> DEFINE values == [draft[a].specs EXCEPT ![k] = v]
           e == [draft[a] EXCEPT !.specs = values, !.rebuilt = TRUE, !.row.snapshot = Render(values)]
<1>1. draft[a] \in Draft /\ draft[a] # Idle /\ draft[a].at = "saved"
  BY DEF ChangeSpec, Working, TypeOK
<1>2. draft' = [draft EXCEPT ![a] = e]
  BY DEF ChangeSpec
<1> HIDE DEF values
<1>3. /\ e # Idle /\ e.at = "saved" /\ e.machine = draft[a].machine
      /\ e.picture = draft[a].picture
      /\ e.rebuilt /\ e.row.snapshot = Render(e.specs)
  BY <1>1 DEF Draft, Row, Idle
<1> HIDE DEF e
<1> QED
  BY <1>1, <1>2, <1>3, OthersKept DEF ChangeSpec, ghosts

LEMMA SavePictureEffect ==
  ASSUME TypeOK, NEW a \in Admins, NEW f \in Files, NEW readable \in BOOLEAN,
         SavePicture(a, f, readable)
  PROVE  LET d == draft[a]
             e == draft'[a]
             p == draft[a].picture
         IN /\ d # Idle /\ d.at = "saved" /\ e # Idle /\ e.at = "saved"
            /\ e.machine = d.machine /\ e.rebuilt = d.rebuilt
            /\ e.specs = d.specs /\ e.row = d.row
            /\ e.picture = [file |-> f, copies |-> IF CopiesNeeded(p, f) /\ readable
                                                   THEN f ELSE p.copies]
            /\ spoilt' = IF CopiesNeeded(p, f) /\ ~readable THEN spoilt \union {f} ELSE spoilt
            /\ \A b \in Admins \ {a} : draft'[b] = draft[b]
            /\ UNCHANGED <<row, specs, picture, keys, excused>>
<1> DEFINE d == draft[a]
           q == draft[a].picture
           p == [file |-> f, copies |-> IF CopiesNeeded(q, f) /\ readable THEN f ELSE q.copies]
           e == [draft[a] EXCEPT !.painted = TRUE, !.picture = p]
<1>1. draft[a] \in Draft /\ draft[a] # Idle /\ draft[a].at = "saved"
  BY DEF SavePicture, Working, TypeOK
<1>2. draft' = [draft EXCEPT ![a] = e]
  BY DEF SavePicture
<1> HIDE DEF p
<1>3. /\ e # Idle /\ e.at = "saved" /\ e.machine = d.machine /\ e.rebuilt = d.rebuilt
      /\ e.specs = d.specs /\ e.row = d.row /\ e.picture = p
  BY <1>1 DEF Draft, Idle
<1> HIDE DEF e
<1>4. draft'[a] = e /\ \A b \in Admins \ {a} : draft'[b] = draft[b]
  BY <1>2, OthersKept
<1> QED
  BY <1>1, <1>3, <1>4 DEF SavePicture, p

LEMMA EditKeyEffect ==
  ASSUME TypeOK, NEW k \in Keys, NEW name \in Names, NEW card \in BOOLEAN, EditKey(k, name, card)
  PROVE  /\ \A a \in Admins :
              /\ draft'[a] = Idle <=> draft[a] = Idle
              /\ draft[a] # Idle =>
                   LET d == draft[a]
                       e == draft'[a]
                   IN /\ d.machine \in Machines /\ e.machine = d.machine /\ e.at = d.at
                      /\ ~e.rebuilt /\ e.picture = d.picture
         /\ excused' = Machines
         /\ UNCHANGED <<row, specs, picture, spoilt>>
<1>1. ASSUME NEW a \in Admins, draft[a] # Idle
      PROVE  LET d == draft[a]
                 e == draft'[a]
             IN /\ e # Idle /\ d.machine \in Machines /\ e.machine = d.machine /\ e.at = d.at
                /\ ~e.rebuilt /\ e.picture = d.picture
  <2>1. draft[a] \in Draft /\ draft'[a] = [draft[a] EXCEPT !.rebuilt = FALSE]
    BY <1>1 DEF EditKey, TypeOK
  <2> QED
    BY <2>1 DEF Draft, Idle
<1>2. ASSUME NEW a \in Admins, draft[a] = Idle PROVE draft'[a] = Idle
  BY <1>2 DEF EditKey
<1> QED
  BY <1>1, <1>2 DEF EditKey

LEMMA LockStep == TypeOK /\ LockedOnce /\ [Next]_vars => LockedOnce'
<1> SUFFICES ASSUME TypeOK, LockedOnce, [Next]_vars PROVE LockedOnce'
  OBVIOUS
<1> USE DEF LockedOnce, Working
<1>1. ASSUME NEW a \in Admins, NEW m \in Machines, NEW kind \in Kinds, Fetch(a, m, kind)
      PROVE  LockedOnce'
  BY <1>1, OthersKept DEF Fetch, Idle
<1>2. ASSUME NEW a \in Admins, NEW s \in Slugs, Peek(a, s) PROVE LockedOnce'
  BY <1>2, PeekEffect
<1>3. ASSUME NEW a \in Admins, Saves(a) PROVE LockedOnce'
  BY <1>3, SavesEffect DEF Locked
<1>4. ASSUME NEW a \in Admins, NEW k \in Keys, NEW v \in Values \union {None}, ChangeSpec(a, k, v)
      PROVE  LockedOnce'
  BY <1>4, ChangeSpecEffect
<1>5. ASSUME NEW a \in Admins, NEW f \in Files, NEW readable \in BOOLEAN, SavePicture(a, f, readable)
      PROVE  LockedOnce'
  <2>1. /\ draft[a] # Idle /\ draft[a].at = "saved" /\ draft'[a].machine = draft[a].machine
        /\ \A b \in Admins \ {a} : draft'[b] = draft[b]
    BY <1>5, SavePictureEffect
  <2> QED
    BY <2>1
<1>6. ASSUME NEW a \in Admins, Commit(a) \/ Abort(a) PROVE LockedOnce'
  <2>1. draft'[a] = Idle /\ \A b \in Admins \ {a} : draft'[b] = draft[b]
    BY <1>6, OthersKept DEF Commit, Abort
  <2> QED
    BY <2>1
<1>7. ASSUME NEW m \in Machines, Delete(m) PROVE LockedOnce'
  BY <1>7 DEF Delete
<1>8. ASSUME NEW k \in Keys, NEW name \in Names, NEW card \in BOOLEAN, EditKey(k, name, card)
      PROVE  LockedOnce'
  BY <1>8, EditKeyEffect
<1>9. CASE UNCHANGED vars
  BY <1>9 DEF vars
<1> QED
  BY <1>1, <1>2, <1>3, <1>4, <1>5, <1>6, <1>7, <1>8, <1>9 DEF Next, Saves
\* A step inside a request that keeps its own draft true keeps all of them.
LEMMA OwnDraftTrue ==
  ASSUME DraftTrue, SnapshotTrue, UNCHANGED <<row, specs, keys, excused>>, NEW a \in Admins,
         \A b \in Admins \ {a} : draft'[b] = draft[b],
         draft'[a] # Idle =>
           LET e == draft'[a] IN
           IF e.rebuilt THEN e.at = "saved" /\ e.row.snapshot = Render(e.specs)
           ELSE e.at = "saved" => e.specs = specs[e.machine] \/ e.machine \in excused
  PROVE  DraftTrue' /\ SnapshotTrue'
<1>1. SnapshotTrue'
  BY DEF SnapshotTrue, Render
<1>2. ASSUME NEW b \in Admins, draft'[b] # Idle
      PROVE  LET e == draft'[b] IN
             IF e.rebuilt THEN e.at = "saved" /\ e.row.snapshot = Render(e.specs)
             ELSE e.at = "saved" => e.specs = specs[e.machine] \/ e.machine \in excused
  BY <1>2 DEF DraftTrue
<1> QED
  BY <1>1, <1>2 DEF DraftTrue, Render

LEMMA SnapshotStep ==
  TypeOK /\ LockedOnce /\ DraftTrue /\ SnapshotTrue /\ [Next]_vars
    => DraftTrue' /\ SnapshotTrue'
<1> SUFFICES ASSUME TypeOK, LockedOnce, DraftTrue, SnapshotTrue, [Next]_vars
             PROVE  DraftTrue' /\ SnapshotTrue'
  OBVIOUS
<1>1. ASSUME NEW a \in Admins, NEW m \in Machines, NEW kind \in Kinds, Fetch(a, m, kind)
      PROVE  DraftTrue' /\ SnapshotTrue'
  BY <1>1, FetchEffect, OwnDraftTrue
<1>2. ASSUME NEW a \in Admins, NEW s \in Slugs, Peek(a, s) PROVE DraftTrue' /\ SnapshotTrue'
  <2>1. ~draft[a].rebuilt
    BY <1>2, PeekEffect DEF DraftTrue
  <2> QED
    BY <1>2, <2>1, PeekEffect, OwnDraftTrue
<1>3. ASSUME NEW a \in Admins, Saves(a) PROVE DraftTrue' /\ SnapshotTrue'
  <2>1. ~draft[a].rebuilt
    BY <1>3, SavesEffect DEF DraftTrue
  <2> QED
    BY <1>3, <2>1, SavesEffect, OwnDraftTrue
<1>4. ASSUME NEW a \in Admins, NEW k \in Keys, NEW v \in Values \union {None}, ChangeSpec(a, k, v)
      PROVE  DraftTrue' /\ SnapshotTrue'
  BY <1>4, ChangeSpecEffect, OwnDraftTrue
<1>5. ASSUME NEW a \in Admins, NEW f \in Files, NEW readable \in BOOLEAN, SavePicture(a, f, readable)
      PROVE  DraftTrue' /\ SnapshotTrue'
  <2>1. LET d == draft[a]
            e == draft'[a]
        IN /\ d # Idle /\ d.at = "saved" /\ e # Idle /\ e.at = "saved"
           /\ e.machine = d.machine /\ e.rebuilt = d.rebuilt
           /\ e.specs = d.specs /\ e.row = d.row
           /\ \A b \in Admins \ {a} : draft'[b] = draft[b]
           /\ UNCHANGED <<row, specs, keys, excused>>
    BY <1>5, SavePictureEffect
  <2> QED
    BY <2>1 DEF DraftTrue, SnapshotTrue, Render
<1>6. ASSUME NEW a \in Admins, Commit(a) PROVE DraftTrue' /\ SnapshotTrue'
  <2> DEFINE d == draft[a]
             m == draft[a].machine
  <2>1. d \in Draft /\ Working(a, "saved") /\ m \in Machines
    BY <1>6 DEF Commit, TypeOK, Working, Draft
  <2>2. draft'[a] = Idle /\ \A b \in Admins \ {a} : draft'[b] = draft[b]
    BY <1>6, OthersKept DEF Commit
  <2>3. /\ row'[m] = d.row /\ specs'[m] = d.specs /\ keys' = keys
        /\ \A n \in Machines \ {m} : row'[n] = row[n] /\ specs'[n] = specs[n]
    BY <1>6, <2>1 DEF Commit, TypeOK
  <2>4. /\ excused \ {m} \subseteq excused' /\ excused' \subseteq excused \union {m}
        /\ ~d.rebuilt /\ d.row.snapshot # row[m].snapshot => m \in excused'
        /\ ~d.rebuilt /\ m \in excused => m \in excused'
    BY <1>6 DEF Commit
  <2>5. DraftTrue'
    <3> SUFFICES ASSUME NEW b \in Admins \ {a}, draft[b] # Idle
                 PROVE  LET e == draft[b] IN
                        IF e.rebuilt THEN e.at = "saved" /\ e.row.snapshot = Render(e.specs)
                        ELSE e.at = "saved" => e.specs = specs'[e.machine] \/ e.machine \in excused'
      BY <2>2, <2>3 DEF DraftTrue, Render
    <3>1. draft[b].machine \in Machines
      BY DEF TypeOK, Draft
    <3>2. draft[b].at = "saved" => draft[b].machine # m
      BY <2>1 DEF LockedOnce, Working
    <3> QED
      BY <2>3, <2>4, <3>1, <3>2 DEF DraftTrue
  <2>6. ASSUME NEW n \in Machines, n \notin excused' PROVE row'[n].snapshot = Render(specs'[n])
    <3>1. CASE n # m
      BY <2>3, <2>4, <2>6, <3>1 DEF SnapshotTrue
    <3>2. CASE n = m /\ d.rebuilt
      BY <2>1, <2>3, <3>2 DEF DraftTrue, Working
    <3>3. CASE n = m /\ ~d.rebuilt
      <4>1. m \notin excused /\ d.row.snapshot = row[m].snapshot
        BY <2>4, <2>6, <3>3
      <4>2. d.specs = specs[m]
        BY <2>1, <3>3, <4>1 DEF DraftTrue, Working
      <4> QED
        BY <2>1, <2>3, <3>3, <4>1, <4>2 DEF SnapshotTrue
    <3> QED
      BY <3>1, <3>2, <3>3
  <2> QED
    BY <2>3, <2>5, <2>6 DEF SnapshotTrue, Render
<1>7. ASSUME NEW a \in Admins, Abort(a) PROVE DraftTrue' /\ SnapshotTrue'
  <2>1. /\ draft'[a] = Idle /\ \A b \in Admins \ {a} : draft'[b] = draft[b]
        /\ UNCHANGED <<row, specs, keys, excused>>
    BY <1>7, OthersKept DEF Abort, ghosts
  <2> QED
    BY <2>1 DEF DraftTrue, SnapshotTrue, Render
<1>8. ASSUME NEW m \in Machines, Delete(m) PROVE DraftTrue' /\ SnapshotTrue'
  <2>1. /\ row'[m].snapshot = NoSpecs /\ specs'[m] = NoSpecs
        /\ \A n \in Machines \ {m} : row'[n] = row[n] /\ specs'[n] = specs[n]
        /\ UNCHANGED <<draft, keys, excused>>
    BY <1>8 DEF Delete, TypeOK, ghosts
  <2>2. Render(NoSpecs) = NoSpecs
    BY DEF Render, NoSpecs
  <2>3. SnapshotTrue'
    BY <2>1, <2>2 DEF SnapshotTrue, Render
  <2>4. \A a \in Admins : draft[a] # Idle =>
          draft[a].machine \in Machines /\ (draft[a].at = "saved" => draft[a].machine # m)
    BY <1>8 DEF Delete, Locked, Working, TypeOK, Draft
  <2> QED
    BY <2>1, <2>3, <2>4 DEF DraftTrue, Render
<1>9. ASSUME NEW k \in Keys, NEW name \in Names, NEW card \in BOOLEAN, EditKey(k, name, card)
      PROVE  DraftTrue' /\ SnapshotTrue'
  BY <1>9, EditKeyEffect DEF DraftTrue, SnapshotTrue
<1>10. CASE UNCHANGED vars
  BY <1>10 DEF vars, ghosts, DraftTrue, SnapshotTrue, Render
<1> QED
  BY <1>1, <1>2, <1>3, <1>4, <1>5, <1>6, <1>7, <1>8, <1>9, <1>10 DEF Next, Saves
\* A step inside a request that keeps its own picture true keeps all of them.
LEMMA OwnDraftPictured ==
  ASSUME DraftPictured, PictureTrue, UNCHANGED picture, spoilt \subseteq spoilt', NEW a \in Admins,
         \A b \in Admins \ {a} : draft'[b] = draft[b],
         draft'[a] # Idle =>
           LET p == draft'[a].picture IN p.file \in spoilt' \/ Displayed(p) = p.file
  PROVE  DraftPictured' /\ PictureTrue'
BY DEF DraftPictured, PictureTrue, Displayed

LEMMA PictureStep ==
  TypeOK /\ DraftPictured /\ PictureTrue /\ [Next]_vars => DraftPictured' /\ PictureTrue'
<1> SUFFICES ASSUME TypeOK, DraftPictured, PictureTrue, [Next]_vars
             PROVE  DraftPictured' /\ PictureTrue'
  OBVIOUS
<1>1. ASSUME NEW a \in Admins, NEW m \in Machines, NEW kind \in Kinds, Fetch(a, m, kind)
      PROVE  DraftPictured' /\ PictureTrue'
  <2>1. picture[m].file \in spoilt \/ Displayed(picture[m]) = picture[m].file
    BY DEF PictureTrue
  <2> QED
    BY <1>1, <2>1, FetchEffect, OwnDraftPictured
<1>2. ASSUME NEW a \in Admins, NEW s \in Slugs, Peek(a, s) PROVE DraftPictured' /\ PictureTrue'
  BY <1>2, PeekEffect, OwnDraftPictured DEF DraftPictured
<1>3. ASSUME NEW a \in Admins, Saves(a) PROVE DraftPictured' /\ PictureTrue'
  BY <1>3, SavesEffect, OwnDraftPictured DEF DraftPictured
<1>4. ASSUME NEW a \in Admins, NEW k \in Keys, NEW v \in Values \union {None}, ChangeSpec(a, k, v)
      PROVE  DraftPictured' /\ PictureTrue'
  <2>1. /\ draft[a] # Idle /\ draft'[a].picture = draft[a].picture
        /\ \A b \in Admins \ {a} : draft'[b] = draft[b]
        /\ UNCHANGED <<picture, spoilt>>
    BY <1>4, ChangeSpecEffect
  <2> QED
    BY <2>1, OwnDraftPictured DEF DraftPictured
<1>5. ASSUME NEW a \in Admins, NEW f \in Files, NEW readable \in BOOLEAN, SavePicture(a, f, readable)
      PROVE  DraftPictured' /\ PictureTrue'
  <2> DEFINE e == draft'[a]
             p == draft[a].picture
  <2>1. draft[a] # Idle /\ e.picture = [file |-> f, copies |-> IF CopiesNeeded(p, f) /\ readable
                                                               THEN f ELSE p.copies]
    BY <1>5, SavePictureEffect
  <2>2. spoilt' = IF CopiesNeeded(p, f) /\ ~readable THEN spoilt \union {f} ELSE spoilt
    BY <1>5, SavePictureEffect
  <2>3. UNCHANGED picture /\ \A b \in Admins \ {a} : draft'[b] = draft[b]
    BY <1>5, SavePictureEffect
  <2>4. CASE CopiesNeeded(p, f)
    <3>1. e.picture.file \in spoilt' \/ Displayed(e.picture) = e.picture.file
      BY <2>1, <2>2, <2>4 DEF Displayed
    <3> QED
      BY <2>2, <2>3, <3>1, OwnDraftPictured
  <2>5. CASE ~CopiesNeeded(p, f)
    <3>1. p.file = f /\ Displayed(e.picture) = Displayed(p) /\ e.picture.file = p.file
      BY <2>1, <2>5 DEF CopiesNeeded, Displayed
    <3>2. e.picture.file \in spoilt' \/ Displayed(e.picture) = e.picture.file
      BY <2>1, <2>2, <3>1 DEF DraftPictured
    <3> QED
      BY <2>2, <2>3, <3>2, OwnDraftPictured
  <2> QED
    BY <2>4, <2>5
<1>6. ASSUME NEW a \in Admins, Commit(a) PROVE DraftPictured' /\ PictureTrue'
  <2> DEFINE d == draft[a]
             m == draft[a].machine
  <2>1. d \in Draft /\ d # Idle /\ m \in Machines
    BY <1>6 DEF Commit, TypeOK, Working, Draft
  <2>2. draft'[a] = Idle /\ \A b \in Admins \ {a} : draft'[b] = draft[b]
    BY <1>6, OthersKept DEF Commit
  <2>3. /\ picture'[m] \in {d.picture, picture[m]}
        /\ \A n \in Machines \ {m} : picture'[n] = picture[n]
        /\ spoilt' = spoilt
    BY <1>6, <2>1 DEF Commit, TypeOK
  <2>4. d.picture.file \in spoilt \/ Displayed(d.picture) = d.picture.file
    BY <2>1 DEF DraftPictured
  <2>5. PictureTrue'
    BY <2>3, <2>4 DEF PictureTrue, Displayed
  <2> QED
    BY <2>2, <2>3, <2>5 DEF DraftPictured, Displayed
<1>7. ASSUME NEW a \in Admins, Abort(a) PROVE DraftPictured' /\ PictureTrue'
  <2>1. /\ draft'[a] = Idle /\ \A b \in Admins \ {a} : draft'[b] = draft[b]
        /\ UNCHANGED <<picture, spoilt>>
    BY <1>7, OthersKept DEF Abort, ghosts
  <2> QED
    BY <2>1, OwnDraftPictured
<1>8. ASSUME NEW m \in Machines, Delete(m) PROVE DraftPictured' /\ PictureTrue'
  <2>1. /\ picture'[m] = NoPicture /\ \A n \in Machines \ {m} : picture'[n] = picture[n]
        /\ UNCHANGED <<draft, spoilt>>
    BY <1>8 DEF Delete, TypeOK, ghosts
  <2> QED
    BY <2>1 DEF DraftPictured, PictureTrue, Displayed, NoPicture
<1>9. ASSUME NEW k \in Keys, NEW name \in Names, NEW card \in BOOLEAN, EditKey(k, name, card)
      PROVE  DraftPictured' /\ PictureTrue'
  BY <1>9, EditKeyEffect DEF DraftPictured, PictureTrue, Displayed
<1>10. CASE UNCHANGED vars
  BY <1>10 DEF vars, ghosts, DraftPictured, PictureTrue, Displayed
<1> QED
  BY <1>1, <1>2, <1>3, <1>4, <1>5, <1>6, <1>7, <1>8, <1>9, <1>10 DEF Next, Saves

LEMMA CardStart ==
  Init => TypeOK /\ LockedOnce /\ DraftTrue /\ SnapshotTrue /\ DraftPictured /\ PictureTrue
<1> SUFFICES ASSUME Init
             PROVE  TypeOK /\ LockedOnce /\ DraftTrue /\ SnapshotTrue /\ DraftPictured /\ PictureTrue
  OBVIOUS
<1>1. row \in [Machines -> Row]
  <2>1. NoSpecs \in Snapshot
    BY DEF NoSpecs, Snapshot
  <2>2. [slug : Slugs, shown : {TRUE}, snapshot : {NoSpecs}] \subseteq Row
    BY <2>1 DEF Row
  <2> QED
    BY <2>2 DEF Init
<1>2. keys \in [Keys -> [name : Names, card : BOOLEAN]]
  BY CardAssumption DEF Init
<1>3. TypeOK
  <2>1. NoSpecs \in [Keys -> Values \union {None}] /\ NoPicture \in Picture
    BY DEF NoSpecs, NoPicture, Picture
  <2>2. held \in [Machines -> SUBSET (Slugs \union {None})]
    BY <1>1 DEF Init, Row
  <2>3. draft \in [Admins -> Draft \union {Idle}] /\ rules \in [Slugs -> Slugs \union {None}]
    BY DEF Init
  <2>4. picture \in [Machines -> Picture] /\ specs \in [Machines -> [Keys -> Values \union {None}]]
    BY <2>1 DEF Init
  <2>5. edits \in 0 .. MaxEdits
    BY CardAssumption DEF Init
  <2>6. raced = FALSE /\ spoilt = {} /\ excused = {}
    BY DEF Init
  <2> QED
    BY <1>1, <1>2, <2>2, <2>3, <2>4, <2>5, <2>6 DEF TypeOK
<1>4. LockedOnce /\ DraftTrue /\ DraftPictured
  BY DEF Init, LockedOnce, DraftTrue, DraftPictured, Working
<1>5. SnapshotTrue
  <2>1. Render(NoSpecs) = NoSpecs
    BY DEF Render, NoSpecs
  <2>2. \A m \in Machines : row[m].snapshot = NoSpecs /\ specs[m] = NoSpecs
    BY DEF Init
  <2> QED
    BY <2>1, <2>2 DEF SnapshotTrue
<1>6. PictureTrue
  BY DEF Init, PictureTrue, Displayed, NoPicture
<1> QED
  BY <1>3, <1>4, <1>5, <1>6

\* Types of the machines, their characteristics, pictures and redirects, and
\* of what the requests of administrators hold of them.
THEOREM CardTypeCorrect == Spec => []TypeOK
<1>1. Init => TypeOK
  BY CardStart
<1> QED
  BY <1>1, TypeStep, PTL DEF Spec

\* Tiles tell what the characteristics say (rebuild_specs_cache), whatever
\* requests overlap, but for the exceptions SnapshotTrue names.
THEOREM SnapshotTrueHolds == Spec => []SnapshotTrue
<1> DEFINE Inv == TypeOK /\ LockedOnce /\ DraftTrue /\ SnapshotTrue
<1>1. Init => Inv
  BY CardStart
<1>2. Inv /\ [Next]_vars => Inv'
  BY TypeStep, LockStep, SnapshotStep
<1> QED
  BY <1>1, <1>2, PTL DEF Spec

\* The site shows the file the row of a picture names (MachineImage.save), unless
\* the processing of that file has failed, whichever requests write back what
\* they read of it before.
THEOREM PictureTrueHolds == Spec => []PictureTrue
<1> DEFINE Inv == TypeOK /\ DraftPictured /\ PictureTrue
<1>1. Init => Inv
  BY CardStart
<1>2. Inv /\ [Next]_vars => Inv'
  BY TypeStep, PictureStep
<1> QED
  BY <1>1, <1>2, PTL DEF Spec

-----------------------------------------------------------------------------
(***************************************************************************)
(* What the induction schemes of the library state with an operator for a   *)
(* parameter, for a set, and what a function defined by recursion is.       *)
(***************************************************************************)

\* A set of numbers that is not empty has a least one.
LEMMA LeastNatural ==
  ASSUME NEW T, T \subseteq Nat, T # {}
  PROVE  \E x \in T : \A y \in T : x <= y
<1> DEFINE R == OpToRel(<, Nat)
<1>1. IsWellFoundedOn(R, Nat)
  BY NatLessThanWellFounded
<1> HIDE DEF R
<1>2. PICK x \in T : \A y \in T : ~(<<y, x>> \in R)
  BY <1>1, WFMin
<1>3. \A m, n \in Nat : m < n => <<m, n>> \in R
  BY DEF R, OpToRel
<1>4. ASSUME NEW y \in T PROVE x <= y
  <2>1. x \in Nat /\ y \in Nat
    OBVIOUS
  <2>2. ~(y < x)
    BY <1>2, <1>3, <2>1
  <2> QED
    BY <2>1, <2>2
<1> QED
  BY <1>4

\* Induction up to a bound, the property as the set of numbers that have it.
LEMMA UpTo ==
  ASSUME NEW N \in Nat, NEW S, 0 \in S, \A n \in 1 .. N : n - 1 \in S => n \in S
  PROVE  0 .. N \subseteq S
<1> DEFINE T == {n \in 0 .. N : n \notin S}
<1>1. SUFFICES ASSUME T # {} PROVE FALSE
  OBVIOUS
<1>2. PICK x \in T : \A y \in T : x <= y
  <2>1. T \subseteq Nat
    OBVIOUS
  <2> HIDE DEF T
  <2> QED
    BY <1>1, <2>1, LeastNatural
<1>3. x \in 1 .. N /\ x - 1 \in 0 .. N /\ ~(x <= x - 1)
  BY <1>2
<1> QED
  BY <1>2, <1>3

\* Something repeated N times has a result after each time.
LEMMA Iterated ==
  ASSUME NEW N \in Nat, NEW V, NEW base \in V, NEW step \in [V -> V]
  PROVE  \E f \in [0 .. N -> V] :
           f[0] = base /\ \A n \in 0 .. N : n # 0 => f[n] = step[f[n - 1]]
<1> DEFINE S == {k \in 0 .. N : \E f \in [0 .. k -> V] :
                     f[0] = base /\ \A n \in 1 .. k : f[n] = step[f[n - 1]]}
<1>1. 0 \in S
  <2> DEFINE h == [n \in 0 .. 0 |-> base]
  <2>1. h \in [0 .. 0 -> V] /\ h[0] = base /\ \A n \in 1 .. 0 : h[n] = step[h[n - 1]]
    OBVIOUS
  <2> HIDE DEF h
  <2> QED
    BY <2>1
<1>2. ASSUME NEW k \in 1 .. N, k - 1 \in S PROVE k \in S
  <2>1. PICK g \in [0 .. (k - 1) -> V] :
               g[0] = base /\ \A n \in 1 .. (k - 1) : g[n] = step[g[n - 1]]
    BY <1>2
  <2> DEFINE h == [n \in 0 .. k |-> IF n = k THEN step[g[k - 1]] ELSE g[n]]
  <2>2. k - 1 \in 0 .. (k - 1) /\ \A n \in 0 .. k : n # k => n \in 0 .. (k - 1)
    OBVIOUS
  <2>3. g[k - 1] \in V
    BY <2>1, <2>2
  <2>4. h \in [0 .. k -> V] /\ h[0] = base
    BY <2>1, <2>2, <2>3
  <2>5. h[k] = step[h[k - 1]]
    BY <2>1, <2>2
  <2>6. ASSUME NEW n \in 1 .. k, n # k PROVE h[n] = step[h[n - 1]]
    <3>1. n \in 1 .. (k - 1) /\ n - 1 \in 0 .. k /\ n - 1 # k /\ n \in 0 .. k
      BY <2>6
    <3> QED
      BY <2>1, <2>6, <3>1
  <2> HIDE DEF h
  <2> QED
    BY <2>4, <2>5, <2>6
<1> HIDE DEF S
<1>3. N \in S
  BY <1>1, <1>2, UpTo
<1>4. PICK f \in [0 .. N -> V] : f[0] = base /\ \A n \in 1 .. N : f[n] = step[f[n - 1]]
  BY <1>3 DEF S
<1>5. \A n \in 0 .. N : n # 0 => n \in 1 .. N
  OBVIOUS
<1> QED
  BY <1>4, <1>5


-----------------------------------------------------------------------------
(***************************************************************************)
(* Former addresses.                                                       *)
(***************************************************************************)

\* A machine has had the slug it has, and a rule leads from one slug of a
\* machine to another of the same machine.
SlugsHeld ==
    /\ \A m \in Machines : held[m] \subseteq Slugs /\ row[m].slug \in held[m] \union {None}
    /\ \A m \in Machines : row[m].shown => row[m].slug # None
    /\ \A s \in Slugs : rules[s] # None =>
         \E m \in Machines : s \in held[m] /\ rules[s] \in held[m]

\* What a request knows of the slugs of its machine.
Knows(d) ==
    /\ d.kind \in Kinds /\ d.machine \in Machines
    /\ d.slug \in Slugs
    /\ d.kind # "form" => d.slug \in held[d.machine]
    /\ d.old \in held[d.machine] \union {None}
    /\ d.at = "saved" =>
         /\ d.row.slug \in Slugs
         /\ raced \/ (row[d.machine].slug # None /\ d.old = row[d.machine].slug)
         /\ IF d.kind = "form" THEN d.row.slug = d.slug ELSE d.row.slug = row[d.machine].slug

DraftSlugs == \A a \in Admins : draft[a] # Idle => Knows(draft[a])

\* Nobody has saved a machine whose slug had changed, and none is gone.
Intact == ~raced /\ \A m \in Machines : row[m].slug # None
Owned(s) == \E m \in Machines : row[m].slug = s

\* No rule leads from a newer slug to an older one, so following them ends.
Ranked ==
    \E rank \in [Slugs -> Nat] : \A m \in Machines : \A s \in held[m] :
       Owned(s) \/ (rules[s] # None /\ rank[rules[s]] < rank[s])

SlugInv == LockedOnce /\ SlugsHeld /\ DraftSlugs /\ (Intact => Ranked)

\* What a request knows stays true while others step.
LEMMA KnowsKept ==
  ASSUME NEW d, Knows(d), \A m \in Machines : held[m] \subseteq held'[m],
         raced => raced',
         d.at = "saved" => row'[d.machine].slug = row[d.machine].slug
  PROVE  Knows(d)'
BY DEF Knows

\* A request that has not saved anything yet touches no slug.
LEMMA NothingSaved ==
  ASSUME TypeOK, SlugInv, LockedOnce', NEW a \in Admins,
         \A b \in Admins \ {a} : draft'[b] = draft[b],
         draft'[a] # Idle => Knows(draft[a])',
         UNCHANGED <<row, rules, held>>, raced => raced'
  PROVE  SlugInv'
<1>1. DraftSlugs'
  <2> SUFFICES ASSUME NEW b \in Admins, draft'[b] # Idle PROVE Knows(draft[b])'
    BY DEF DraftSlugs
  <2>1. CASE b = a
    BY <2>1
  <2>2. CASE b # a
    BY <2>2, KnowsKept DEF SlugInv, DraftSlugs
  <2> QED
    BY <2>1, <2>2
<1>2. SlugsHeld' /\ (Intact => Ranked)'
  BY DEF SlugInv, SlugsHeld, Intact, Ranked, Owned
<1> QED
  BY <1>1, <1>2 DEF SlugInv

\* The part of a request its later steps leave alone.
SameSlugs(d, e) ==
    /\ e.at = d.at /\ e.machine = d.machine /\ e.kind = d.kind
    /\ e.slug = d.slug /\ e.old = d.old /\ e.row.slug = d.row.slug

\* What a request knows of slugs it knows after a change of the rest.
LEMMA KnowsSame ==
  ASSUME NEW d, NEW e, SameSlugs(d, e), Knows(d)
  PROVE  Knows(e)
BY DEF Knows, SameSlugs

\* The slug a request reads its machine has had (the form's initial instance).
LEMMA FetchSlugs ==
  ASSUME TypeOK, SlugInv, LockedOnce', NEW a \in Admins, NEW m \in Machines,
         NEW kind \in Kinds, Fetch(a, m, kind)
  PROVE  SlugInv'
<1> DEFINE e == [at |-> "fetched", machine |-> m, kind |-> kind, slug |-> row[m].slug,
                 old |-> None, row |-> row[m], specs |-> specs[m], rebuilt |-> FALSE,
                 picture |-> picture[m], painted |-> FALSE]
<1>1. draft' = [draft EXCEPT ![a] = e] /\ UNCHANGED <<row, rules, held, raced>>
  BY DEF Fetch, ghosts
<1>2. row[m].slug \in Slugs /\ row[m].slug \in held[m]
  BY DEF Fetch, TypeOK, Row, SlugInv, SlugsHeld
<1>3. Knows(e)
  BY <1>2 DEF Knows
<1> HIDE DEF e
<1>4. draft'[a] = e /\ \A b \in Admins \ {a} : draft'[b] = draft[b]
  BY <1>1, OthersKept
<1>5. Knows(draft[a])'
  BY <1>1, <1>3, <1>4 DEF Knows
<1> QED
  BY <1>1, <1>4, <1>5, NothingSaved

\* What remember_old_slug looks up is a slug of the machine, or it is gone.
LEMMA PeekSlugs ==
  ASSUME TypeOK, SlugInv, LockedOnce', NEW a \in Admins, NEW s \in Slugs, Peek(a, s)
  PROVE  SlugInv'
<1> DEFINE d == draft[a]
           e == [d EXCEPT !.at = "peeked", !.slug = s, !.old = row[d.machine].slug]
<1>1. draft' = [draft EXCEPT ![a] = e] /\ UNCHANGED <<row, rules, held, raced>>
  BY DEF Peek, ghosts
<1>2. d \in Draft /\ Knows(d) /\ (d.kind # "form" => s = d.slug)
  BY DEF Peek, Working, TypeOK, SlugInv, DraftSlugs
<1>3. row[d.machine].slug \in held[d.machine] \union {None}
  BY <1>2 DEF Draft, SlugInv, SlugsHeld
<1>4. /\ e.at = "peeked" /\ e.machine = d.machine /\ e.kind = d.kind /\ e.slug = s
      /\ e.old = row[d.machine].slug
  BY <1>2 DEF Draft
<1> HIDE DEF e
<1>5. Knows(e)
  BY <1>2, <1>3, <1>4 DEF Knows
<1>6. draft'[a] = e /\ \A b \in Admins \ {a} : draft'[b] = draft[b]
  BY <1>1, OthersKept
<1>7. Knows(draft[a])'
  BY <1>1, <1>5, <1>6 DEF Knows
<1> QED
  BY <1>1, <1>6, <1>7, NothingSaved

\* A slug that changed since it was looked up is a race, and noted as one.
LEMMA SavesSlugs ==
  ASSUME TypeOK, SlugInv, LockedOnce', NEW a \in Admins, Saves(a)
  PROVE  SlugInv'
<1> DEFINE d == draft[a]
           m == d.machine
<1>1. d \in Draft /\ Knows(d) /\ UNCHANGED <<row, rules, held>>
  BY SavesRow DEF SlugInv, DraftSlugs
<1>2. raced' = (raced \/ d.old # row[m].slug \/ row[m].slug = None)
  BY SavesRow DEF NoteRace
<1>3. PICK e : /\ draft' = [draft EXCEPT ![a] = e]
               /\ e.at = "saved" /\ e.machine = m /\ e.kind = d.kind
               /\ e.slug = d.slug /\ e.old = d.old
               /\ IF d.kind = "form" THEN e.row.slug = d.slug
                  ELSE row[m].slug # None /\ e.row.slug = row[m].slug
  <2>1. PICK r \in Row :
          /\ draft' = [draft EXCEPT ![a] = [d EXCEPT !.at = "saved", !.specs = specs[m], !.row = r]]
          /\ IF d.kind = "form" THEN r.slug = d.slug
             ELSE row[m].slug # None /\ r.slug = row[m].slug
    BY SavesRow
  <2> DEFINE e == [d EXCEPT !.at = "saved", !.specs = specs[m], !.row = r]
  <2>2. /\ e.at = "saved" /\ e.machine = m /\ e.kind = d.kind
        /\ e.slug = d.slug /\ e.old = d.old /\ e.row = r
    BY <1>1 DEF Draft
  <2> HIDE DEF e
  <2> QED
    BY <2>1, <2>2 DEF e
<1>4. draft'[a] = e /\ \A b \in Admins \ {a} : draft'[b] = draft[b]
  BY <1>3, OthersKept
<1>5. row[m].slug \in Slugs \union {None}
  BY <1>1 DEF Draft, TypeOK, Row
<1>6. Knows(draft[a])'
  BY <1>1, <1>2, <1>3, <1>4, <1>5 DEF Knows
<1>7. raced => raced'
  BY <1>2
<1> QED
  BY <1>1, <1>4, <1>6, <1>7, NothingSaved

LEMMA ChangeSlugs ==
  ASSUME TypeOK, SlugInv, LockedOnce', NEW a \in Admins,
         \/ \E k \in Keys, v \in Values \union {None} : ChangeSpec(a, k, v)
         \/ \E f \in Files, readable \in BOOLEAN : SavePicture(a, f, readable)
  PROVE  SlugInv'
<1>1. /\ draft[a] \in Draft /\ Knows(draft[a]) /\ UNCHANGED <<row, rules, held, raced>>
  BY DEF ChangeSpec, SavePicture, Working, TypeOK, SlugInv, DraftSlugs, ghosts
<1>2. PICK e : draft' = [draft EXCEPT ![a] = e] /\ SameSlugs(draft[a], e)
  <2>1. ASSUME NEW k \in Keys, NEW v \in Values \union {None}, ChangeSpec(a, k, v)
        PROVE  \E e : draft' = [draft EXCEPT ![a] = e] /\ SameSlugs(draft[a], e)
    <3> DEFINE values == [draft[a].specs EXCEPT ![k] = v]
               e == [draft[a] EXCEPT !.specs = values, !.rebuilt = TRUE, !.row.snapshot = Render(values)]
    <3>1. draft' = [draft EXCEPT ![a] = e]
      BY <2>1 DEF ChangeSpec
    <3> HIDE DEF values
    <3>2. SameSlugs(draft[a], e)
      BY <1>1 DEF SameSlugs, Draft, Row
    <3> HIDE DEF e
    <3> QED
      BY <3>1, <3>2
  <2>2. ASSUME NEW f \in Files, NEW readable \in BOOLEAN, SavePicture(a, f, readable)
        PROVE  \E e : draft' = [draft EXCEPT ![a] = e] /\ SameSlugs(draft[a], e)
    <3> DEFINE q == draft[a].picture
               p == [file |-> f, copies |-> IF CopiesNeeded(q, f) /\ readable THEN f ELSE q.copies]
               e == [draft[a] EXCEPT !.painted = TRUE, !.picture = p]
    <3>1. draft' = [draft EXCEPT ![a] = e]
      BY <2>2 DEF SavePicture
    <3> HIDE DEF p
    <3>2. SameSlugs(draft[a], e)
      BY <1>1 DEF SameSlugs, Draft
    <3> HIDE DEF e
    <3> QED
      BY <3>1, <3>2
  <2> QED
    BY <2>1, <2>2
<1>3. Knows(e)
  BY <1>1, <1>2, KnowsSame
<1>4. draft'[a] = e /\ \A b \in Admins \ {a} : draft'[b] = draft[b]
  BY <1>2, OthersKept
<1>5. Knows(draft[a])'
  BY <1>1, <1>3, <1>4 DEF Knows
<1> QED
  BY <1>1, <1>4, <1>5, NothingSaved

LEMMA AbortSlugs ==
  ASSUME TypeOK, SlugInv, LockedOnce', NEW a \in Admins, Abort(a)
  PROVE  SlugInv'
<1>1. draft'[a] = Idle /\ \A b \in Admins \ {a} : draft'[b] = draft[b]
  BY OthersKept DEF Abort
<1> QED
  BY <1>1, NothingSaved DEF Abort, ghosts

LEMMA EditKeySlugs ==
  ASSUME TypeOK, SlugInv, LockedOnce', NEW k \in Keys, NEW name \in Names, NEW card \in BOOLEAN,
         EditKey(k, name, card)
  PROVE  SlugInv'
<1>1. UNCHANGED <<row, rules, held, raced>>
  BY DEF EditKey
<1>2. ASSUME NEW b \in Admins, draft'[b] # Idle PROVE Knows(draft[b])'
  <2>1. draft[b] # Idle /\ draft[b] \in Draft /\ draft'[b] = [draft[b] EXCEPT !.rebuilt = FALSE]
    BY <1>2 DEF EditKey, TypeOK
  <2>2. SameSlugs(draft[b], draft'[b])
    BY <2>1 DEF SameSlugs, Draft
  <2>3. Knows(draft'[b])
    BY <2>1, <2>2, KnowsSame DEF SlugInv, DraftSlugs
  <2> QED
    BY <1>1, <2>3 DEF Knows
<1> QED
  BY <1>1, <1>2 DEF SlugInv, SlugsHeld, DraftSlugs, Intact, Ranked, Owned

\* A deleted machine had no request about to commit: its row was not locked.
LEMMA DeleteSlugs ==
  ASSUME TypeOK, SlugInv, LockedOnce', NEW m \in Machines, Delete(m)
  PROVE  SlugInv'
<1>1. /\ \A n \in Machines : n # m => row'[n] = row[n]
      /\ row'[m].slug = None /\ ~row'[m].shown /\ UNCHANGED <<rules, draft, held, raced>> /\ ~Locked(m)
  BY DEF Delete, TypeOK, ghosts
<1>2. ASSUME NEW b \in Admins, draft'[b] # Idle PROVE Knows(draft[b])'
  <2>1. Knows(draft[b]) /\ draft[b].machine \in Machines
    BY <1>1, <1>2 DEF SlugInv, DraftSlugs, Knows
  <2>2. draft[b].at = "saved" => draft[b].machine # m
    BY <1>1, <1>2 DEF Locked, Working
  <2>3. draft[b].at = "saved" => row'[draft[b].machine].slug = row[draft[b].machine].slug
    BY <1>1, <2>1, <2>2
  <2> QED
    BY <1>1, <2>1, <2>3, KnowsKept
<1>3. ~Intact'
  BY <1>1 DEF Intact
<1>4. SlugsHeld'
  BY <1>1 DEF SlugInv, SlugsHeld
<1> QED
  BY <1>1, <1>2, <1>3, <1>4 DEF SlugInv, DraftSlugs

\* The rule of a commit: the former slug was occupied until now, the new one
\* comes first, so the way from every other slug keeps its length or ends sooner.
LEMMA CommitRanked ==
  ASSUME TypeOK, SlugInv, NEW a \in Admins, Commit(a), Intact'
  PROVE  Ranked'
<1> DEFINE d == draft[a]
           m == d.machine
<1>1. d \in Draft /\ Knows(d) /\ d.at = "saved" /\ m \in Machines
  BY DEF Commit, Working, TypeOK, SlugInv, DraftSlugs, Knows
<1>2. ~raced /\ d.old = row[m].slug /\ row[m].slug # None
  BY <1>1 DEF Commit, Intact, Knows
<1>3. /\ \A n \in Machines : n # m => row'[n] = row[n] /\ held'[n] = held[n]
      /\ row'[m] = d.row /\ held'[m] = held[m] \union {d.row.slug}
      /\ rules' = RulesAfter(d.old, d.slug)
  BY <1>1 DEF Commit, TypeOK
<1>4. Intact
  BY <1>2, <1>3 DEF Intact
<1>5. PICK rank \in [Slugs -> Nat] : \A n \in Machines : \A s \in held[n] :
        Owned(s) \/ (rules[s] # None /\ rank[rules[s]] < rank[s])
  BY <1>4 DEF SlugInv, Ranked
<1>6. /\ rules \in [Slugs -> Slugs \union {None}] /\ \A n \in Machines : held[n] \subseteq Slugs
      /\ d.slug \in Slugs /\ d.old \in Slugs /\ d.row.slug \in Slugs /\ None \notin Slugs
  BY <1>1, <1>2, CardAssumption DEF TypeOK, SlugInv, SlugsHeld, Knows, Row, Draft
<1>7. \A s \in Slugs : Owned(s) /\ s # d.old => Owned(s)'
  <2> SUFFICES ASSUME NEW s \in Slugs, Owned(s), s # d.old PROVE Owned(s)'
    OBVIOUS
  <2>1. PICK n \in Machines : row[n].slug = s
    BY DEF Owned
  <2>2. n # m
    BY <1>2, <2>1
  <2> QED
    BY <1>3, <2>1, <2>2 DEF Owned
<1>8. CASE d.row.slug = d.old
  <2>1. \A s \in Slugs : Owned(s) => Owned(s)'
    BY <1>1, <1>3, <1>7, <1>8 DEF Owned
  <2>2. Owned(d.old)
    BY <1>1, <1>2 DEF Owned
  <2>3. \A s \in Slugs : s # d.old => rules'[s] = rules[s]
    BY <1>3, <1>6 DEF RulesAfter
  <2>4. \A n \in Machines : \A s \in held'[n] : s = d.old \/ s \in held[n]
    BY <1>3, <1>8
  <2> QED
    BY <1>5, <1>6, <2>1, <2>2, <2>3, <2>4 DEF Ranked
<1>9. CASE d.row.slug # d.old
  <2>1. d.kind = "form" /\ d.row.slug = d.slug
    BY <1>1, <1>2, <1>9 DEF Knows
  <2>2. PICK old \in Slugs, new \in Slugs : old = d.old /\ new = d.slug /\ old # new
    BY <1>6, <1>9, <2>1
  <2>3. rules' = [rules EXCEPT ![old] = new]
    BY <1>2, <1>3, <2>2 DEF RulesAfter
  <2> DEFINE later == [s \in Slugs |-> IF s = new THEN 0 ELSE rank[s] + 1]
  <2>4. later \in [Slugs -> Nat]
    OBVIOUS
  <2>5. Owned(new)'
    BY <1>1, <1>3, <2>1, <2>2 DEF Owned
  <2>6. rules'[old] = new /\ later[new] < later[old] /\ new # None
    BY <1>6, <2>2, <2>3
  <2>7. ASSUME NEW n \in Machines, NEW s \in held[n], s # old, s # new
        PROVE  Owned(s)' \/ (rules'[s] # None /\ later[rules'[s]] < later[s])
    <3>1. s \in Slugs /\ rules'[s] = rules[s]
      BY <1>6, <2>3, <2>7
    <3>2. CASE Owned(s)
      BY <1>7, <2>2, <2>7, <3>1, <3>2
    <3>3. CASE rules[s] # None /\ rank[rules[s]] < rank[s]
      BY <1>6, <2>7, <3>1, <3>3
    <3> QED
      BY <1>5, <3>2, <3>3
  <2>8. \A n \in Machines : \A s \in held'[n] : s = new \/ s \in held[n]
    BY <1>3, <2>1, <2>2
  <2> HIDE DEF later
  <2>9. \A n \in Machines : \A s \in held'[n] :
          Owned(s)' \/ (rules'[s] # None /\ later[rules'[s]] < later[s])
    BY <1>6, <2>5, <2>6, <2>7, <2>8
  <2> QED
    BY <2>4, <2>9 DEF Ranked
<1> QED
  BY <1>8, <1>9

\* The rule handle_machine_saved writes joins two slugs of the machine.
LEMMA CommitSlugs ==
  ASSUME TypeOK, SlugInv, LockedOnce', NEW a \in Admins, Commit(a)
  PROVE  SlugInv'
<1> DEFINE d == draft[a]
           m == d.machine
<1>1. d \in Draft /\ Knows(d) /\ d.at = "saved" /\ m \in Machines /\ d # Idle
  BY DEF Commit, Working, TypeOK, SlugInv, DraftSlugs, Knows
<1>2. /\ \A n \in Machines : n # m => row'[n] = row[n] /\ held'[n] = held[n]
      /\ row'[m] = d.row /\ held'[m] = held[m] \union {d.row.slug}
      /\ rules' = RulesAfter(d.old, d.slug) /\ raced' = raced
  BY <1>1 DEF Commit, TypeOK
<1>3. draft'[a] = Idle /\ \A b \in Admins \ {a} : draft'[b] = draft[b]
  BY OthersKept DEF Commit
<1>4. ASSUME NEW b \in Admins, draft'[b] # Idle PROVE Knows(draft[b])'
  <2>1. b # a /\ draft'[b] = draft[b] /\ Knows(draft[b]) /\ draft[b].machine \in Machines
    BY <1>3, <1>4 DEF SlugInv, DraftSlugs, Knows
  <2>2. draft[b].at = "saved" => draft[b].machine # m
    BY <1>1, <1>4, <2>1 DEF SlugInv, LockedOnce, Working
  <2>3. draft[b].at = "saved" => row'[draft[b].machine].slug = row[draft[b].machine].slug
    BY <1>2, <2>1, <2>2
  <2>4. \A n \in Machines : held[n] \subseteq held'[n]
    BY <1>2
  <2> QED
    BY <1>2, <2>1, <2>3, <2>4, KnowsKept
<1>5. /\ rules \in [Slugs -> Slugs \union {None}] /\ \A n \in Machines : held[n] \subseteq Slugs
      /\ d.slug \in Slugs /\ d.row.slug \in Slugs /\ None \notin Slugs
      /\ d.old \in held[m] \union {None} /\ d.slug \in held'[m]
  BY <1>1, <1>2, CardAssumption DEF TypeOK, SlugInv, SlugsHeld, Knows
<1>6. SlugsHeld'
  <2>1. \A n \in Machines : held'[n] \subseteq Slugs /\ row'[n].slug \in held'[n] \union {None}
    BY <1>2, <1>5 DEF SlugInv, SlugsHeld
  <2>2. ASSUME NEW s \in Slugs, rules'[s] # None
        PROVE  \E n \in Machines : s \in held'[n] /\ rules'[s] \in held'[n]
    <3>1. CASE rules'[s] = rules[s]
      BY <1>2, <2>2, <3>1 DEF SlugInv, SlugsHeld
    <3>2. CASE rules'[s] # rules[s]
      <4>1. s = d.old /\ rules'[s] = d.slug
        BY <1>2, <1>5, <3>2 DEF RulesAfter
      <4> QED
        BY <1>1, <1>2, <1>5, <2>2, <4>1
    <3> QED
      BY <3>1, <3>2
  <2>3. \A n \in Machines : row'[n].shown => row'[n].slug # None
    BY <1>2, <1>5 DEF SlugInv, SlugsHeld
  <2> QED
    BY <2>1, <2>2, <2>3 DEF SlugsHeld
<1> QED
  BY <1>4, <1>6, CommitRanked DEF SlugInv, DraftSlugs

\* No step breaks the order of the rules.
LEMMA SlugStep == TypeOK /\ SlugInv /\ [Next]_vars => SlugInv'
<1> SUFFICES ASSUME TypeOK, SlugInv, [Next]_vars PROVE SlugInv'
  OBVIOUS
<1>1. LockedOnce'
  BY LockStep DEF SlugInv
<1>2. CASE UNCHANGED vars
  BY <1>2 DEF vars, ghosts, SlugInv, LockedOnce, Working, SlugsHeld, DraftSlugs, Knows, Intact, Ranked, Owned
<1>3. CASE Next
  BY <1>1, <1>3, FetchSlugs, PeekSlugs, SavesSlugs, ChangeSlugs, AbortSlugs, EditKeySlugs,
     DeleteSlugs, CommitSlugs DEF Next, Saves
<1> QED
  BY <1>2, <1>3

\* No rule yet: every machine has the one slug it has had.
LEMMA SlugStart == Init => SlugInv
<1> SUFFICES ASSUME Init PROVE SlugInv
  OBVIOUS
<1>1. \A m \in Machines : row[m].slug \in Slugs /\ held[m] = {row[m].slug}
  BY DEF Init
<1>4. None \notin Slugs
  BY CardAssumption
<1> DEFINE rank == [s \in Slugs |-> 0]
<1>2. rank \in [Slugs -> Nat] /\ \A m \in Machines : \A s \in held[m] : Owned(s)
  BY <1>1 DEF Owned
<1> HIDE DEF rank
<1>3. Ranked
  BY <1>2 DEF Ranked
<1> QED
  BY <1>1, <1>3, <1>4 DEF Init, SlugInv, LockedOnce, Working, SlugsHeld, DraftSlugs

\* Destination is what its recursive definition says.
LEMMA DestinationBuilt ==
  ASSUME TypeOK
  PROVE  LET N == Cardinality(Slugs)
         IN \E f : /\ Destination = f[N]
                   /\ \A n \in 0 .. N : \A s \in Slugs :
                        f[n][s] = IF Live(s) THEN s
                                  ELSE IF n = 0 \/ rules[s] = None THEN None
                                  ELSE f[n - 1][rules[s]]
<1> DEFINE N == Cardinality(Slugs)
           V == [Slugs -> Slugs \union {None}]
           base == [s \in Slugs |-> IF Live(s) THEN s ELSE None]
           step == [g \in V |-> [s \in Slugs |->
             IF Live(s) THEN s ELSE IF rules[s] = None THEN None ELSE g[rules[s]]]]
           leads[n \in Hops] == [s \in Slugs |->
             IF Live(s) THEN s
             ELSE IF n = 0 \/ rules[s] = None THEN None ELSE leads[n - 1][rules[s]]]
<1>1. Destination = leads[N]
  BY DEF Destination
<1>2. N \in Nat /\ Hops = 0 .. N
  BY CardAssumption, FS_CardinalityType DEF Hops
<1>3. step \in [V -> V] /\ base \in V
  <2>1. \A s \in Slugs : rules[s] = None \/ rules[s] \in Slugs
    BY DEF TypeOK
  <2>2. ASSUME NEW g \in V PROVE step[g] \in V
    BY <2>1
  <2> QED
    BY <2>2
<1>4. PICK f \in [0 .. N -> V] :
           f[0] = base /\ \A n \in 0 .. N : n # 0 => f[n] = step[f[n - 1]]
  <2> HIDE DEF step, N, V, base, leads
  <2>1. N \in Nat
    BY <1>2
  <2> QED
    BY <1>3, <2>1, Iterated
<1>5. ASSUME NEW n \in 0 .. N
      PROVE  f[n] = [s \in Slugs |->
                       IF Live(s) THEN s
                       ELSE IF n = 0 \/ rules[s] = None THEN None ELSE f[n - 1][rules[s]]]
  <2>1. CASE n = 0
    BY <1>4, <2>1
  <2>2. CASE n # 0
    <3>1. n - 1 \in 0 .. N
      BY <1>2, <2>2
    <3>2. f[n - 1] \in V /\ f[n] = step[f[n - 1]]
      BY <1>4, <2>2, <3>1
    <3> HIDE DEF V
    <3>3. f[n] = [s \in Slugs |->
             IF Live(s) THEN s ELSE IF rules[s] = None THEN None ELSE f[n - 1][rules[s]]]
      BY <3>2
    <3> QED
      BY <2>2, <3>3
  <2> QED
    BY <2>1, <2>2
<1>6. f = [n \in 0 .. N |-> [s \in Slugs |->
             IF Live(s) THEN s
             ELSE IF n = 0 \/ rules[s] = None THEN None ELSE f[n - 1][rules[s]]]]
  <2> HIDE DEF V, N
  <2> QED
    BY <1>4, <1>5
<1>7. leads = [n \in 0 .. N |-> [s \in Slugs |->
             IF Live(s) THEN s
             ELSE IF n = 0 \/ rules[s] = None THEN None ELSE leads[n - 1][rules[s]]]]
  <2>1. f = [n \in Hops |-> [s \in Slugs |->
             IF Live(s) THEN s
             ELSE IF n = 0 \/ rules[s] = None THEN None ELSE f[n - 1][rules[s]]]]
    BY <1>2, <1>6
  <2>2. leads = [n \in Hops |-> [s \in Slugs |->
             IF Live(s) THEN s
             ELSE IF n = 0 \/ rules[s] = None THEN None ELSE leads[n - 1][rules[s]]]]
    BY <2>1
  <2> HIDE DEF leads
  <2> QED
    BY <1>2, <2>2
<1> HIDE DEF leads, base, step
<1>8. \A n \in 0 .. N : \A s \in Slugs :
        leads[n][s] = IF Live(s) THEN s
                      ELSE IF n = 0 \/ rules[s] = None THEN None
                      ELSE leads[n - 1][rules[s]]
  <2> HIDE DEF N, V
  <2>1. \A n \in 0 .. N : leads[n] = [s \in Slugs |->
             IF Live(s) THEN s
             ELSE IF n = 0 \/ rules[s] = None THEN None ELSE leads[n - 1][rules[s]]]
    BY <1>7, Zenon
  <2> SUFFICES ASSUME NEW n \in 0 .. N, NEW s \in Slugs
               PROVE  leads[n][s] = IF Live(s) THEN s
                                    ELSE IF n = 0 \/ rules[s] = None THEN None
                                    ELSE leads[n - 1][rules[s]]
    OBVIOUS
  <2>2. leads[n] = [t \in Slugs |->
             IF Live(t) THEN t
             ELSE IF n = 0 \/ rules[t] = None THEN None ELSE leads[n - 1][rules[t]]]
    BY <2>1, Zenon
  <2> DEFINE now == leads[n]
             last == leads[n - 1]
  <2>3. now = [t \in Slugs |->
             IF Live(t) THEN t ELSE IF n = 0 \/ rules[t] = None THEN None ELSE last[rules[t]]]
    BY <2>2
  <2> HIDE DEF now, last
  <2>4. now[s] = IF Live(s) THEN s ELSE IF n = 0 \/ rules[s] = None THEN None ELSE last[rules[s]]
    BY <2>3
  <2> QED
    BY <2>4 DEF now, last
<1> QED
  BY <1>1, <1>8

\* Following the rules from an address somebody has had ends at a card within
\* as many hops as there are slugs: every hop leads to a lower rank.
LEMMA LeadsSomewhere ==
  ASSUME TypeOK, SlugInv, Intact, \A m \in Machines : row[m].shown,
         NEW m \in Machines, NEW s \in held[m]
  PROVE  Destination[s] # None
<1> DEFINE N == Cardinality(Slugs)
<1>1. PICK f : /\ Destination = f[N]
               /\ \A n \in 0 .. N : \A t \in Slugs :
                    f[n][t] = IF Live(t) THEN t
                              ELSE IF n = 0 \/ rules[t] = None THEN None
                              ELSE f[n - 1][rules[t]]
  BY DestinationBuilt
<1>2. PICK rank \in [Slugs -> Nat] : \A n \in Machines : \A t \in held[n] :
        Owned(t) \/ (rules[t] # None /\ rank[rules[t]] < rank[t])
  BY DEF SlugInv, Ranked
<1> DEFINE Held == UNION {held[n] : n \in Machines}
           Below(t) == {u \in Held : rank[u] < rank[t]}
<1>3. Held \subseteq Slugs /\ IsFiniteSet(Slugs) /\ N \in Nat /\ None \notin Slugs
  BY CardAssumption, FS_CardinalityType DEF SlugInv, SlugsHeld
<1>4. \A t \in Held : Live(t) \/ (rules[t] \in Held /\ rank[rules[t]] < rank[t])
  <2>1. \A t \in Held : Owned(t) => Live(t)
    BY DEF Owned, Live
  <2>2. \A t \in Held : rules[t] # None => rules[t] \in Held
    BY <1>3 DEF SlugInv, SlugsHeld
  <2>3. \A t \in Held : Owned(t) \/ (rules[t] # None /\ rank[rules[t]] < rank[t])
    BY <1>2
  <2> QED
    BY <2>1, <2>2, <2>3
<1>5. \A t \in Held : /\ IsFiniteSet(Below(t)) /\ Cardinality(Below(t)) \in Nat
                      /\ Cardinality(Below(t)) <= N
  BY <1>3, FS_Subset, FS_CardinalityType
<1>6. ASSUME NEW t \in Held, NEW u \in Held, rank[u] < rank[t]
      PROVE  Cardinality(Below(u)) < Cardinality(Below(t))
  <2>1. Below(u) \subseteq Below(t) /\ u \in Below(t) /\ u \notin Below(u)
    BY <1>2, <1>3, <1>6
  <2>2. /\ IsFiniteSet(Below(t)) /\ Cardinality(Below(t)) \in Nat /\ Cardinality(Below(u)) \in Nat
    BY <1>5
  <2> HIDE DEF Below
  <2>3. Cardinality(Below(u)) <= Cardinality(Below(t)) /\ Cardinality(Below(u)) # Cardinality(Below(t))
    BY <2>1, <2>2, FS_Subset
  <2> QED
    BY <2>2, <2>3
<1> DEFINE S == {n \in 0 .. N : \A t \in Held : Cardinality(Below(t)) <= n => f[n][t] # None}
<1> HIDE DEF Below, Held, N
<1>7. 0 \in S
  <2>1. ASSUME NEW t \in Held, Cardinality(Below(t)) <= 0 PROVE f[0][t] # None
    <3>1. Live(t)
      <4>1. SUFFICES ASSUME ~Live(t) PROVE FALSE
        OBVIOUS
      <4>2. rules[t] \in Held /\ rank[rules[t]] < rank[t]
        BY <1>4, <4>1
      <4>3. Cardinality(Below(rules[t])) < Cardinality(Below(t))
        BY <1>6, <4>2
      <4> QED
        BY <1>5, <2>1, <4>2, <4>3
    <3> QED
      BY <1>1, <1>3, <3>1
  <2> QED
    BY <1>3, <2>1
<1>8. ASSUME NEW n \in 1 .. N, n - 1 \in S PROVE n \in S
  <2>1. n \in 0 .. N /\ n # 0
    BY <1>3
  <2>2. ASSUME NEW t \in Held, Cardinality(Below(t)) <= n PROVE f[n][t] # None
    <3>1. CASE Live(t)
      BY <1>1, <1>3, <2>1, <3>1
    <3>2. CASE ~Live(t)
      <4>1. rules[t] \in Held /\ rank[rules[t]] < rank[t]
        BY <1>4, <3>2
      <4>2. Cardinality(Below(rules[t])) < Cardinality(Below(t))
        BY <1>6, <4>1
      <4>3. Cardinality(Below(rules[t])) <= n - 1
        BY <1>3, <1>5, <2>2, <4>1, <4>2
      <4>4. f[n - 1][rules[t]] # None
        BY <1>8, <4>1, <4>3
      <4>5. f[n][t] = f[n - 1][rules[t]]
        BY <1>1, <1>3, <2>1, <3>2, <4>1
      <4> QED
        BY <4>4, <4>5
    <3> QED
      BY <3>1, <3>2
  <2> QED
    BY <2>1, <2>2
<1>9. N \in S
  <2> HIDE DEF S
  <2>1. 0 .. N \subseteq S
    BY <1>3, <1>7, <1>8, UpTo
  <2> QED
    BY <1>3, <2>1
<1>10. s \in Held
  BY DEF Held
<1> QED
  BY <1>1, <1>5, <1>9, <1>10

\* Rules never leave the slugs of one machine, unless another has had one of them.
LEMMA LeadsHome ==
  ASSUME TypeOK, SlugInv, NEW m \in Machines, NEW s \in held[m],
         \A n \in Machines \ {m} : held[n] \intersect held[m] = {},
         Destination[s] # None
  PROVE  Destination[s] = row[m].slug
<1> DEFINE N == Cardinality(Slugs)
<1>1. PICK f : /\ Destination = f[N]
               /\ \A n \in 0 .. N : \A t \in Slugs :
                    f[n][t] = IF Live(t) THEN t
                              ELSE IF n = 0 \/ rules[t] = None THEN None
                              ELSE f[n - 1][rules[t]]
  BY DestinationBuilt
<1>2. held[m] \subseteq Slugs /\ N \in Nat /\ None \notin Slugs
  BY CardAssumption, FS_CardinalityType DEF SlugInv, SlugsHeld
<1>3. \A t \in held[m] : Live(t) => t = row[m].slug
  <2> SUFFICES ASSUME NEW t \in held[m], Live(t) PROVE t = row[m].slug
    OBVIOUS
  <2>1. PICK k \in Machines : row[k].slug = t
    BY DEF Live
  <2>2. t \in held[k]
    BY <1>2, <2>1 DEF SlugInv, SlugsHeld
  <2> QED
    BY <2>1, <2>2
<1>4. \A t \in held[m] : rules[t] # None => rules[t] \in held[m]
  <2> SUFFICES ASSUME NEW t \in held[m], rules[t] # None PROVE rules[t] \in held[m]
    OBVIOUS
  <2>1. PICK k \in Machines : t \in held[k] /\ rules[t] \in held[k]
    BY <1>2 DEF SlugInv, SlugsHeld
  <2> QED
    BY <2>1
<1> DEFINE S == {n \in 0 .. N : \A t \in held[m] : f[n][t] \in {None, row[m].slug}}
<1> HIDE DEF N
<1>5. 0 \in S
  <2>1. 0 \in 0 .. N
    BY <1>2
  <2> QED
    BY <1>1, <1>2, <1>3, <2>1
<1>6. ASSUME NEW n \in 1 .. N, n - 1 \in S PROVE n \in S
  <2>1. n \in 0 .. N
    BY <1>2
  <2> QED
    BY <1>1, <1>2, <1>3, <1>4, <1>6, <2>1
<1>7. N \in S
  <2> HIDE DEF S
  <2>1. 0 .. N \subseteq S
    BY <1>2, <1>5, <1>6, UpTo
  <2> QED
    BY <1>2, <2>1
<1> QED
  BY <1>1, <1>7

\* Every address a card has ever had leads to a card, and to its own unless
\* another machine has taken over one of its slugs (remember_old_slug,
\* handle_machine_saved, RedirectRule).
THEOREM LinksLiveHolds == Spec => []LinksLive
<1> DEFINE Inv == TypeOK /\ SlugInv
<1>1. Init => Inv
  BY CardStart, SlugStart
<1>2. Inv /\ [Next]_vars => Inv'
  BY TypeStep, SlugStep
<1>3. Inv => LinksLive
  <2> SUFFICES ASSUME TypeOK, SlugInv, ~raced, \A m \in Machines : row[m].shown,
                      NEW m \in Machines, NEW s \in held[m]
               PROVE  /\ Destination[s] # None
                      /\ (\A n \in Machines \ {m} : held[n] \intersect held[m] = {})
                           => Destination[s] = row[m].slug
    BY DEF LinksLive
  <2>1. Intact
    BY DEF Intact, SlugInv, SlugsHeld
  <2> QED
    BY <2>1, LeadsSomewhere, LeadsHome
<1> QED
  BY <1>1, <1>2, <1>3, PTL DEF Spec
=============================================================================
