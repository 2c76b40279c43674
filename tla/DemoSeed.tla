------------------------------ MODULE DemoSeed ------------------------------
(***************************************************************************)
(* seed_demo: fills the site with demonstration data, and is run again on  *)
(* a site that administrators have been working on.                        *)
(*                                                                         *)
(* A run is one transaction: its stages bring rows in by their natural     *)
(* keys and look others up among those before them.  Administrators work   *)
(* while it runs, on rows it has not come to: those it has written are     *)
(* locked.  A row stands for what hangs on it: a machine for its values    *)
(* and stock, a category of parts for its parts.                           *)
(***************************************************************************)
EXTENDS DemoData, Sequences, FiniteSets

CONSTANTS Touched,   \* rows administrators work on
          MaxRuns,   \* bound on runs
          MaxEdits   \* bound on what administrators do

ASSUME SeedAssumption == {MaxRuns, MaxEdits} \subseteq Nat

(***************************************************************************)
(* Rows: a table and a natural key                                         *)
(***************************************************************************)

Rows(table, keys) == {table} \X keys
Pairs(f) == UNION {{k} \X f[k] : k \in DOMAIN f}

Company == Rows("branch", {"khabarovsk"}) \union Rows("contact", {"khabarovsk"})
    \union Rows("department", Departments) \union Rows("employee", Employees)

CategoryRows == Rows("category", Roots \union UNION {Categories[c] : c \in Roots})

SpecRows == Rows("group", SpecGroups) \union Rows("key", DOMAIN SpecKeys)
    \union Rows("option", Pairs(SpecOptions)) \union Rows("applies", Pairs(TypeSpecs))

Machines == Rows("machine", MachineLines) \union Rows("picture", MachineLines)

Parts == Rows("part_category", PartCategories) \union Rows("part", PartTemplates)

ServiceRows == Rows("service_category", ServiceCategories) \union Rows("service", Services)

Content == {<<"settings", "site">>, <<"news_category", "novosti-filiala">>,
            <<"consent", "lead-form">>}
    \union Rows("page", {"o-kompanii-filial", "politika-konfidencialnosti"})
    \union Rows("menu", {"header", "footer"})
    \union Rows("news", News) \union Rows("vacancy", Vacancies)

Landings == Rows("landing", CatalogLandings \union RangeLandings)
Financing == {<<"terms", "leasing">>} \union Rows("partner", LeasingPartners)
Delivery == Rows("delivery", DeliveryOptions)
ReviewRows == Rows("review", Reviews) \union Rows("source", ReviewSources)
    \union Rows("logo", ReviewSources)
Rules == Rows("rule", LeadRules)

Stages == <<Company, Rows("brand", Brands), CategoryRows, Rows("type", MachineTypes),
            SpecRows, Machines, Parts, ServiceRows, Content, Landings, Financing,
            Delivery, ReviewRows, Rules>>

AllRows == UNION {Stages[i] : i \in DOMAIN Stages}

\* What bringing a row in cannot do without.  A landing whose brand is not found
\* goes without, but not without any condition.
Needs(row) ==
    LET key == row[2] IN
    CASE row[1] = "category" -> Rows("category", {c \in Roots : key \in Categories[c]})
      [] row[1] = "key" -> {<<"group", SpecKeys[key].group>>}
      [] row[1] = "option" -> {<<"key", key[1]>>}
      [] row[1] = "applies" -> {<<"type", key[1]>>, <<"key", key[2]>>}
      [] row[1] = "machine" ->
           {<<"brand", key[1]>>, <<"type", key[2]>>, <<"category", key[3]>>}
           \union Rows("key", TypeSpecs[key[2]])
      [] row[1] = "picture" -> {<<"machine", key>>}
      [] row[1] = "part" -> {<<"part_category", key>>,
                             <<"brand", IF key = "shiny" THEN "techking" ELSE "komatsu">>}
      [] row[1] = "service" -> {<<"service_category", key[2]>>}
      [] row[1] = "landing" -> IF key.brand = Unset THEN {<<"type", key.type>>} ELSE {}
      [] row[1] = "logo" -> {<<"source", key>>}
      [] row[1] = "rule" -> {<<"department", key[2]>>}
      [] row[1] \in {"contact", "employee"} -> {<<"branch", "khabarovsk">>}
      [] OTHER -> {}

\* Tables where nothing keeps an administrator from a second row of the same
\* key: update_or_create and get_or_create refuse to choose.
Doublable == {"employee", "contact", "partner", "delivery", "review", "rule"}

\* Tables whose rows are only ever created; all others are written over.
CreatedOnce == {"category", "part_category", "menu", "news_category", "contact", "picture",
                "logo"}

\* What an administrator changes of a row: "data" where a run writes over what
\* it brings, and of a landing each thing its machines are chosen by, "more"
\* being a condition on another number.
Fields(row) ==
    CASE row[1] = "landing" -> {"type", "brand", "category", "condition", "more"}
      [] row[1] \in CreatedOnce -> {}
      [] OTHER -> {"data"}

\* The values a number of a machine is drawn from: by steps, or any fraction.
Drawn(type, key) ==
    LET low == SpecRanges[type][key][1]
        high == SpecRanges[type][key][2]
        step == IF SpecKeys[key].decimals > 0 THEN 1
                ELSE IF high - low < 500 THEN 10 ELSE 10 * ((high - low) \div 500)
    IN {low + step * n : n \in 0 .. (high - 1 - low) \div step}

Ranged(type) == DOMAIN SpecRanges[type] \intersect TypeSpecs[type]

VARIABLES db,       \* rows there are
          doubled,  \* rows there are two of
          edited,   \* fields that are not as the data have them, with their rows
          stage,    \* the stage of the run under way, or 0
          runs,     \* runs begun
          failures, \* rows runs have stumbled over
          changed,  \* whether administrators did anything since the last run
          edits     \* what administrators did so far

seedVars == <<db, doubled, edited, stage, runs, failures, changed, edits>>

SeedInit ==
    /\ db = {} /\ doubled = {} /\ edited = {}
    /\ stage = 0
    /\ runs = 0 /\ failures = {} /\ changed = TRUE /\ edits = 0

(***************************************************************************)
(* A run                                                                   *)
(***************************************************************************)

Reached == UNION {Stages[i] : i \in 1 .. stage - 1}

Begin ==
    /\ stage = 0 /\ runs < MaxRuns
    /\ stage' = 1 /\ runs' = runs + 1
    /\ UNCHANGED <<db, doubled, edited, failures, changed, edits>>

\* KeyError or DoesNotExist, MultipleObjectsReturned, a range without values.
Stumbles(row) ==
    \/ ~(Needs(row) \subseteq Reached \union Stages[stage])
    \/ row \in doubled
    \/ row[1] = "machine" /\ \E k \in Ranged(row[2][2]) : Drawn(row[2][2], k) = {}

BringIn ==
    /\ stage \in DOMAIN Stages
    /\ \A r \in Stages[stage] : ~Stumbles(r)
    /\ stage' = stage + 1
    /\ UNCHANGED <<db, doubled, edited, runs, failures, changed, edits>>

\* A run that stumbles is undone.
Fail ==
    /\ stage \in DOMAIN Stages
    /\ LET over == {r \in Stages[stage] : Stumbles(r)} IN
          over # {} /\ failures' = failures \union over
    /\ stage' = 0
    /\ UNCHANGED <<db, doubled, edited, runs, changed, edits>>

Killed ==
    /\ stage # 0 /\ stage' = 0
    /\ UNCHANGED <<db, doubled, edited, runs, failures, changed, edits>>

\* Bug: a row that is there is taken as it is.
WrittenOverIfNew(row, field) == row \notin db

\* The defaults of a landing have no category, those of a landing by a number no
\* brand either; conditions on other numbers stay.
WrittenOver(row, field) ==
    CASE field = "brand" -> row[2] \in CatalogLandings
      [] field = "condition" -> row[2] \in RangeLandings
      [] OTHER -> field \in {"data", "type"}

Finish ==
    /\ stage = Len(Stages) + 1 /\ stage' = 0
    /\ db' = db \union AllRows
    /\ edited' = {e \in edited : ~WrittenOver(e[1], e[2])}
    /\ changed' = FALSE
    /\ UNCHANGED <<doubled, runs, failures, edits>>

(***************************************************************************)
(* Administrators                                                          *)
(***************************************************************************)

\* On rows the run under way, if any, has not come to.
Work(row) ==
    /\ row \in (db \intersect Touched) \ Reached /\ edits < MaxEdits
    /\ edits' = edits + 1 /\ changed' = TRUE
    /\ UNCHANGED <<stage, runs, failures>>

Edit(row, field) ==
    /\ Work(row) /\ field \in Fields(row)
    /\ edited' = edited \union {<<row, field>>}
    /\ UNCHANGED <<db, doubled>>

Double(row) ==
    /\ Work(row) /\ row[1] \in Doublable
    /\ doubled' = doubled \union {row}
    /\ UNCHANGED <<db, edited>>

\* Deleted, or given another key: what is below goes along, what is in use stays.
Drop(row) ==
    LET hanging == {r \in db : row \in Needs(r)}
        lost == {row} \union {r \in hanging : r[1] # "machine"}
    IN /\ Work(row) /\ row \notin doubled
       /\ \A r \in hanging : r[1] \in {"category", "picture"} \/ row[1] = "category"
       /\ db' = db \ lost /\ edited' = {e \in edited : e[1] \notin lost}
       /\ UNCHANGED doubled

SeedNext ==
    \/ Begin \/ BringIn \/ Fail \/ Killed \/ Finish
    \/ \E row \in Touched : Double(row) \/ Drop(row) \/ \E field \in Fields(row) : Edit(row, field)

SeedSpec == SeedInit /\ [][SeedNext]_seedVars

(***************************************************************************)
(* Properties                                                              *)
(***************************************************************************)

\* Every name the tables of data refer to each other by is found, on an empty
\* site and on one administrators have worked on: a run is stopped by nothing
\* but a row that somebody has entered a second time.
FailsOnlyOverDoubles == \A row \in failures : row[1] \in Doublable

\* What a run does not undo: a landing made narrower than the data have it.
Narrowed(landing) ==
    \E field \in {"category", "more"} \union (IF landing.key # Unset THEN {"brand"}
                                             ELSE {"condition"}) :
       <<<<"landing", landing>>, field>> \in edited

\* After a run the data condemn no landing to be empty, whatever was changed
\* before it, but for one an administrator made narrower: its type, its brand
\* or its number are what the data say, and a machine of the data, as they
\* describe it, can satisfy all of them.
LandingsCanShow ==
    ~changed => \A landing \in CatalogLandings \union RangeLandings :
      LET row == <<"landing", landing>> IN
      /\ row \in db
      /\ ~Narrowed(landing) => \A field \in Fields(row) : <<row, field>> \notin edited
      /\ \E line \in MachineLines :
           /\ <<"machine", line>> \in db /\ <<<<"machine", line>>, "data">> \notin edited
           /\ line[2] = landing.type /\ landing.brand \in {Unset, line[1]}
           /\ landing.key # Unset =>
                /\ <<"key", landing.key>> \in db /\ <<<<"key", landing.key>>, "data">> \notin edited
                /\ landing.key \in Ranged(line[2])
                /\ \E v \in Drawn(line[2], landing.key) : landing.low <= v /\ v <= landing.high
=============================================================================
