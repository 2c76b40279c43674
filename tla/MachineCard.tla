----------------------------- MODULE MachineCard -----------------------------
(***************************************************************************)
(* The card of a machine: its address, the redirects former addresses      *)
(* leave behind, the snapshot of characteristics its tile is drawn from,   *)
(* and its picture with the lighter copies made of it.                     *)
(*                                                                         *)
(* An administrator's request reads the machine and its picture, looks its *)
(* slug up again just before saving (pre_save), writes every column of the *)
(* row - the snapshot it has read included - and only then the picture as  *)
(* it has read it, with what was changed, and the characteristics, each of *)
(* which rebuilds the snapshot.  All of it is one transaction; the row is  *)
(* locked from its update to the end.  Of the gallery one picture is       *)
(* followed.                                                               *)
(***************************************************************************)
EXTENDS Naturals, FiniteSets

CONSTANTS Machines, Slugs, Admins,
          Keys,      \* characteristics (SpecKey)
          Values,    \* what a machine may have for them
          Names,     \* names of a characteristic
          Files,     \* pictures
          MaxEdits,  \* bound on requests of administrators
          None

ASSUME CardAssumption ==
    /\ None \notin Machines \union Slugs \union Values \union Files
    /\ MaxEdits \in Nat
    /\ IsFiniteSet(Slugs)
    /\ Cardinality(Machines) <= Cardinality(Slugs)
    /\ Names # {}

Tile == [name : Names, value : Values]
Snapshot == [Keys -> Tile \union {None}]
Picture == [file : Files \union {None}, copies : Files \union {None}]
Row == [slug : Slugs \union {None}, shown : BOOLEAN, snapshot : Snapshot]

VARIABLES row,     \* the machines; without a slug one that was deleted
          specs,   \* their characteristics (MachineSpec)
          picture, \* MachineImage: the file and what the copies were made of
          keys,    \* name of a characteristic, and whether tiles show it
          rules,   \* RedirectRule: former slug -> slug
          draft,   \* what each administrator's request is doing
          edits,   \* requests so far
          held,    \* slugs each machine has had
          raced,   \* a machine was saved after its slug had been looked up and changed
          excused, \* machines whose snapshot may be out of date
          spoilt   \* files whose processing has failed

ghosts == <<held, raced, excused, spoilt>>
vars == <<row, specs, picture, keys, rules, draft, edits, ghosts>>

NoPicture == [file |-> None, copies |-> None]
NoSpecs == [k \in Keys |-> None]
Idle == [at |-> "idle"]

Init ==
    /\ row \in [Machines -> [slug : Slugs, shown : {TRUE}, snapshot : {NoSpecs}]]
    /\ \A m, n \in Machines : m # n => row[m].slug # row[n].slug
    /\ specs = [m \in Machines |-> NoSpecs]
    /\ picture = [m \in Machines |-> NoPicture] /\ spoilt = {}
    /\ keys \in [Keys -> [name : {CHOOSE n \in Names : TRUE}, card : {TRUE}]]
    /\ rules = [s \in Slugs |-> None]
    /\ draft = [a \in Admins |-> Idle]
    /\ edits = 0
    /\ held = [m \in Machines |-> {row[m].slug}]
    /\ raced = FALSE
    /\ excused = {}

Live(s) == \E m \in Machines : row[m].slug = s /\ row[m].shown

(***************************************************************************)
(* A request: the form of a machine, or an action publishing it or not     *)
(***************************************************************************)

Kinds == {"form", "publish", "unpublish"}

Working(a, place) == draft[a] # Idle /\ draft[a].at = place
Locked(m) == \E a \in Admins : Working(a, "saved") /\ draft[a].machine = m

Fetch(a, m, kind) ==
    /\ draft[a] = Idle /\ edits < MaxEdits /\ row[m].slug # None
    /\ edits' = edits + 1
    /\ draft' = [draft EXCEPT ![a] =
            [at |-> "fetched", machine |-> m, kind |-> kind, slug |-> row[m].slug,
             old |-> None, row |-> row[m], specs |-> specs[m], rebuilt |-> FALSE,
             picture |-> picture[m], painted |-> FALSE]]
    /\ UNCHANGED <<row, specs, picture, keys, rules, ghosts>>

\* A form may give the machine another slug, if nobody has it (validate_unique);
\* remember_old_slug looks up the one the machine has now.
Peek(a, s) ==
    LET d == draft[a] IN
    /\ Working(a, "fetched")
    /\ IF d.kind = "form" THEN \A m \in Machines \ {d.machine} : row[m].slug # s
                          ELSE s = d.slug
    /\ draft' = [draft EXCEPT ![a] = [d EXCEPT !.at = "peeked", !.slug = s,
                                               !.old = row[d.machine].slug]]
    /\ UNCHANGED <<row, specs, picture, keys, rules, edits, ghosts>>

\* What both leave behind: whether the slug looked up had changed since.
NoteRace(d) == raced' = (raced \/ d.old # row[d.machine].slug \/ row[d.machine].slug = None)

\* The form writes all columns: those it shows, the others as it has read
\* them.  It inserts the row again should it be gone.
SaveForm(a, shown) ==
    LET d == draft[a]
        m == d.machine
    IN /\ Working(a, "peeked") /\ d.kind = "form" /\ ~Locked(m)
       /\ \A n \in Machines \ {m} : row[n].slug # d.slug
       /\ \A b \in Admins : Working(b, "saved") => draft[b].row.slug # d.slug
       /\ draft' = [draft EXCEPT ![a] =
             [d EXCEPT !.at = "saved", !.specs = specs[m],
                       !.row = [@ EXCEPT !.slug = d.slug, !.shown = shown]]]
       /\ NoteRace(d)
       /\ UNCHANGED <<row, specs, picture, keys, rules, edits, held, excused, spoilt>>

\* The action writes one column of a row that is there.
Publish(a) ==
    LET d == draft[a]
        m == d.machine
    IN /\ Working(a, "peeked") /\ d.kind # "form" /\ ~Locked(m)
       /\ row[m].slug # None
       /\ draft' = [draft EXCEPT ![a] =
             [d EXCEPT !.at = "saved", !.specs = specs[m],
                       !.row = [row[m] EXCEPT !.shown = (d.kind = "publish")]]]
       /\ NoteRace(d)
       /\ UNCHANGED <<row, specs, picture, keys, rules, edits, held, excused, spoilt>>

Render(values) ==
    [k \in Keys |-> IF keys[k].card /\ values[k] # None
                    THEN [name |-> keys[k].name, value |-> values[k]] ELSE None]

\* Bug: deleting a characteristic does not rebuild the snapshot.
ChangeSpecUnlessDeleted(a, k, v) ==
    LET values == [draft[a].specs EXCEPT ![k] = v] IN
    /\ Working(a, "saved") /\ draft[a].kind = "form"
    /\ draft' = [draft EXCEPT ![a] = [@ EXCEPT !.specs = values, !.rebuilt = TRUE,
           !.row.snapshot = IF v = None THEN @ ELSE Render(values)]]
    /\ UNCHANGED <<row, specs, picture, keys, rules, edits, ghosts>>

\* A characteristic is saved or deleted; the signal rebuilds the snapshot.
ChangeSpec(a, k, v) ==
    LET values == [draft[a].specs EXCEPT ![k] = v] IN
    /\ Working(a, "saved") /\ draft[a].kind = "form"
    /\ draft' = [draft EXCEPT ![a] = [@ EXCEPT !.specs = values, !.rebuilt = TRUE,
                                               !.row.snapshot = Render(values)]]
    /\ UNCHANGED <<row, specs, picture, keys, rules, edits, ghosts>>

\* Bug: copies are made once.
CopiesNeededOnce(p, file) == p.copies = None

\* Copies are made of a new file, and of one that has none yet.
CopiesNeeded(p, file) == p.copies = None \/ p.file # file

\* The picture is added or its row written whole, with another file or the
\* one that was read.  A file that cannot be processed is kept all the same,
\* beside the copies that were read.
SavePicture(a, file, readable) ==
    LET d == draft[a]
        needed == CopiesNeeded(d.picture, file)
    IN /\ Working(a, "saved") /\ d.kind = "form" /\ ~d.painted
       /\ d.picture = NoPicture => picture[d.machine] = NoPicture
       /\ draft' = [draft EXCEPT ![a] = [d EXCEPT !.painted = TRUE,
             !.picture = [file |-> file, copies |->
                 IF needed /\ readable THEN file ELSE d.picture.copies]]]
       /\ spoilt' = IF needed /\ ~readable THEN spoilt \union {file} ELSE spoilt
       /\ UNCHANGED <<row, specs, picture, keys, rules, edits, held, raced, excused>>

\* Bug: a rule that is there already is kept.
RulesKept(old, new) ==
    IF old \in {None, new} \/ rules[old] # None THEN rules ELSE [rules EXCEPT ![old] = new]

\* handle_machine_saved: the former slug leads to the one of the saved instance.
RulesAfter(old, new) ==
    IF old \in {None, new} THEN rules ELSE [rules EXCEPT ![old] = new]

Commit(a) ==
    LET d == draft[a]
        m == d.machine
    IN /\ Working(a, "saved")
       /\ row' = [row EXCEPT ![m] = d.row]
       /\ specs' = [specs EXCEPT ![m] = d.specs]
       /\ picture' = [picture EXCEPT ![m] = IF d.painted THEN d.picture ELSE @]
       /\ rules' = RulesAfter(d.old, d.slug)
       /\ draft' = [draft EXCEPT ![a] = Idle]
       /\ held' = [held EXCEPT ![m] = @ \union {d.row.slug}]
       /\ excused' = IF d.rebuilt THEN excused \ {m}
                     ELSE IF d.row.snapshot # row[m].snapshot THEN excused \union {m}
                     ELSE excused
       /\ UNCHANGED <<keys, edits, raced, spoilt>>

\* An invalid form, a slug taken meanwhile, an error: nothing is left.
Abort(a) ==
    /\ draft[a] # Idle
    /\ draft' = [draft EXCEPT ![a] = Idle]
    /\ UNCHANGED <<row, specs, picture, keys, rules, edits, ghosts>>

Delete(m) ==
    /\ row[m].slug # None /\ ~Locked(m) /\ edits < MaxEdits
    /\ edits' = edits + 1
    /\ row' = [row EXCEPT ![m] = [slug |-> None, shown |-> FALSE, snapshot |-> NoSpecs]]
    /\ specs' = [specs EXCEPT ![m] = NoSpecs]
    /\ picture' = [picture EXCEPT ![m] = NoPicture]
    /\ UNCHANGED <<keys, rules, draft, ghosts>>

\* SpecKey is renamed, or shown in tiles no more: no signal rebuilds anything.
EditKey(k, name, card) ==
    /\ edits < MaxEdits /\ edits' = edits + 1
    /\ keys' = [keys EXCEPT ![k] = [name |-> name, card |-> card]]
    /\ excused' = Machines
    /\ draft' = [a \in Admins |-> IF draft[a] = Idle THEN Idle
                                  ELSE [draft[a] EXCEPT !.rebuilt = FALSE]]
    /\ UNCHANGED <<row, specs, picture, rules, held, raced, spoilt>>

Next ==
    \/ \E a \in Admins :
         \/ \E m \in Machines, kind \in Kinds : Fetch(a, m, kind)
         \/ \E s \in Slugs : Peek(a, s)
         \/ \E k \in Keys, v \in Values \union {None} : ChangeSpec(a, k, v)
         \/ \E f \in Files, readable \in BOOLEAN : SavePicture(a, f, readable)
         \/ \E shown \in BOOLEAN : SaveForm(a, shown)
         \/ Publish(a) \/ Commit(a) \/ Abort(a)
    \/ \E m \in Machines : Delete(m)
    \/ \E k \in Keys, name \in Names, card \in BOOLEAN : EditKey(k, name, card)

Spec == Init /\ [][Next]_vars

(***************************************************************************)
(* Properties                                                              *)
(***************************************************************************)

Draft == [at : {"fetched", "peeked", "saved"}, machine : Machines,
          kind : Kinds, slug : Slugs, old : Slugs \union {None},
          row : Row, specs : [Keys -> Values \union {None}], rebuilt : BOOLEAN,
          picture : Picture, painted : BOOLEAN]

TypeOK ==
    /\ row \in [Machines -> Row]
    /\ specs \in [Machines -> [Keys -> Values \union {None}]]
    /\ picture \in [Machines -> Picture] /\ spoilt \subseteq Files
    /\ keys \in [Keys -> [name : Names, card : BOOLEAN]]
    /\ rules \in [Slugs -> Slugs \union {None}]
    /\ draft \in [Admins -> Draft \union {Idle}]
    /\ edits \in 0 .. MaxEdits
    /\ held \in [Machines -> SUBSET (Slugs \union {None})] /\ raced \in BOOLEAN
    /\ excused \subseteq Machines

\* Where a visitor ends up: a card that is shown, or where the rules lead from
\* an address that is not; None at a dead end and in a loop.
Hops == 0 .. Cardinality(Slugs)
Destination ==
    LET leads[n \in Hops] == [s \in Slugs |->
          IF Live(s) THEN s
          ELSE IF n = 0 \/ rules[s] = None THEN None ELSE leads[n - 1][rules[s]]]
    IN leads[Cardinality(Slugs)]

\* While all machines are shown, every address a card has ever had leads to a
\* card, to its own unless another machine has taken over one of its slugs.
\* (Not so when a slug changes between the look-up and the update of another
\* request, or when a form brings a deleted machine back: the rule is missing,
\* or leads back.)
LinksLive ==
    ~raced /\ (\A m \in Machines : row[m].shown) =>
        \A m \in Machines : \A s \in held[m] :
            /\ Destination[s] # None
            /\ (\A n \in Machines \ {m} : held[n] \intersect held[m] = {})
                 => Destination[s] = row[m].slug

\* A tile tells what the characteristics say.  Two things make it outdated, a
\* form that writes back a snapshot read before another's commit and an edit
\* of the reference book, and the next change of a characteristic repairs it.
SnapshotTrue ==
    \A m \in Machines \ excused : row[m].snapshot = Render(specs[m])

\* What the site shows of a picture - the copies, or the file if there are
\* none - is the file its row names, however many requests write back rows
\* they had read before, unless the processing of that file has failed.
Displayed(p) == IF p.copies = None THEN p.file ELSE p.copies
PictureTrue ==
    \A m \in Machines : picture[m].file \notin spoilt => Displayed(picture[m]) = picture[m].file
==============================================================================
