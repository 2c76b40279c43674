--------------------------- MODULE CatalogSearch ----------------------------
(***************************************************************************)
(* What a page of the catalogue shows: the filters read from its address,  *)
(* the machines they leave, the counters beside every choice, and whether  *)
(* the page, the plain catalogue or a landing, may be indexed.             *)
(*                                                                         *)
(* A catalogue is a function from its visible machines to records; what is *)
(* said of one number, list and flag among the characteristics holds of    *)
(* each.  Functions over them have the value None where there is nothing.  *)
(***************************************************************************)
EXTENDS Integers, FiniteSets, FiniteSetsExt

CONSTANTS Numbers, Lists, Flags,  \* filterable characteristics, by type
          Options,        \* of lists
          Brands, Types, Categories,
          Words,          \* what may be searched for
          Raw,            \* what may be typed for a bound
          None

(***************************************************************************)
(* Rows and addresses                                                      *)
(***************************************************************************)

Value == {v \in [num : Int, max : Int \union {None}] : v.max # None => v.max >= v.num}

Machine == [words : SUBSET Words, brand : Brands, type : Types,
            categories : SUBSET Categories,
            stock : {"in_stock", "low", "order", "none"},
            number : [Numbers -> Value \union {None}],
            option : [Lists -> Options \union {None}],
            flag : [Flags -> BOOLEAN \union {None}]]

Bounds == [low : Int \union {None}, high : Int \union {None}]

\* An address, and the filters read from it, by what a number is given for bounds.
Asked(bounds) ==
    [query : Words \union {None}, brands : SUBSET Brands, types : SUBSET Types,
     categories : SUBSET Categories, stock : BOOLEAN, numeric : [Numbers -> bounds],
     options : [Lists -> SUBSET Options], booleans : [Flags -> BOOLEAN \union {None}]]

Address == Asked([low : Raw \union {None}, high : Raw \union {None}])
Filters == Asked(Bounds \union {None})

\* A condition has an end and is in order.
Condition ==
    {b \in Bounds : /\ b.low # None \/ b.high # None
                    /\ b.low # None /\ b.high # None => b.high >= b.low}

\* What a page of the catalogue was made for; the plain one for everything, a
\* landing for a brand, a type or a category at least.
Selection == [brand : Brands \union {None}, type : Types \union {None},
              category : Categories \union {None},
              bounds : [Numbers -> Condition \union {None}], noindex : BOOLEAN]

Plain == [brand |-> None, type |-> None, category |-> None,
          bounds |-> [k \in Numbers |-> None], noindex |-> FALSE]

Landing == {l \in Selection : l.brand # None \/ l.type # None \/ l.category # None}

\* One key has one type of value.
ASSUME SearchAssumption ==
    /\ \A S \in {Numbers, Lists, Flags, Options, Brands, Types, Categories} : IsFiniteSet(S)
    /\ Numbers \intersect Lists = {} /\ Numbers \intersect Flags = {} /\ Lists \intersect Flags = {}
    /\ None \notin Int /\ None \notin BOOLEAN /\ None \notin Bounds /\ None \notin Value

(***************************************************************************)
(* Reading the filters                                                     *)
(***************************************************************************)

NoFilters ==
    [query |-> None, brands |-> {}, types |-> {}, categories |-> {}, stock |-> FALSE,
     numeric |-> [k \in Numbers |-> None], options |-> [k \in Lists |-> {}],
     booleans |-> [k \in Flags |-> None]]

\* A bound that is not a number is taken for no bound.
ToDecimal(raw) == IF raw \in Int THEN raw ELSE None

Interval(raw) ==
    LET low == ToDecimal(raw.low)
        high == ToDecimal(raw.high)
    IN IF low = None /\ high = None THEN None ELSE [low |-> low, high |-> high]

ParseFilters(params) ==
    [params EXCEPT !.numeric = [k \in Numbers |-> Interval(params.numeric[k])]]

ActiveCount(f) ==
    Cardinality(f.brands) + Cardinality(f.types) + Cardinality(f.categories)
    + (IF f.stock THEN 1 ELSE 0)
    + Cardinality({k \in Numbers : f.numeric[k] # None})
    + Cardinality({k \in Flags : f.booleans[k] # None})
    + Cardinality({o \in Lists \X Options : o[2] \in f.options[o[1]]})

(***************************************************************************)
(* Applying them                                                           *)
(***************************************************************************)

EffectiveMax(value) == IF value.max = None THEN value.num ELSE value.max

\* An interval of values is within bounds it overlaps.
Within(value, bounds) ==
    /\ value # None
    /\ bounds.low # None => EffectiveMax(value) >= bounds.low
    /\ bounds.high # None => value.num <= bounds.high

Matches(m, f) ==
    /\ f.query # None => f.query \in m.words
    /\ f.brands # {} => m.brand \in f.brands
    /\ f.types # {} => m.type \in f.types
    /\ f.categories # {} => m.categories \intersect f.categories # {}
    /\ f.stock => m.stock \in {"in_stock", "low"}
    /\ \A k \in Numbers : f.numeric[k] # None => Within(m.number[k], f.numeric[k])
    /\ \A k \in Lists : f.options[k] # {} => m.option[k] \in f.options[k]
    /\ \A k \in Flags : f.booleans[k] # None => m.flag[k] = f.booleans[k]

ApplyFilters(catalogue, f) == {m \in DOMAIN catalogue : Matches(catalogue[m], f)}

(***************************************************************************)
(* Facets: every dimension is counted without itself                       *)
(***************************************************************************)

WithoutBrands(f) == [f EXCEPT !.brands = {}]
WithoutTypes(f) == [f EXCEPT !.types = {}]

\* Bug: a characteristic is counted among what it has left itself.
Untouched(f, k) == f

WithoutSpec(f, k) ==
    [f EXCEPT !.numeric = [n \in Numbers |-> IF n = k THEN None ELSE @[n]],
              !.options = [n \in Lists |-> IF n = k THEN {} ELSE @[n]],
              !.booleans = [n \in Flags |-> IF n = k THEN None ELSE @[n]]]

BrandFacet(c, f) ==
    LET scope == ApplyFilters(c, WithoutBrands(f)) IN
    [b \in {c[m].brand : m \in DOMAIN c} |-> Cardinality({m \in scope : c[m].brand = b})]

TypeFacet(c, f) ==
    LET scope == ApplyFilters(c, WithoutTypes(f)) IN
    [t \in {c[m].type : m \in DOMAIN c} |-> Cardinality({m \in scope : c[m].type = t})]

\* The options of a list that occur at all.
OptionFacet(c, f, k) ==
    LET scope == ApplyFilters(c, WithoutSpec(f, k)) IN
    [o \in {c[m].option[k] : m \in scope} \ {None} |->
        Cardinality({m \in scope : c[m].option[k] = o})]

FlagFacet(c, f, k) == Cardinality({m \in ApplyFilters(c, WithoutSpec(f, k)) : c[m].flag[k] = TRUE})

\* The ends of a number's scale; there is none where no machine has the number.
NumberFacet(c, f, k) ==
    LET values == {c[m].number[k] : m \in ApplyFilters(c, WithoutSpec(f, k))} \ {None} IN
    IF values = {} THEN None
    ELSE [low |-> Min({v.num : v \in values}),
          high |-> Max({EffectiveMax(v) : v \in values})]

(***************************************************************************)
(* Landings                                                                *)
(***************************************************************************)

\* Bug: the visitor's bounds go before the landing's.
VisitorFirst(landing, f) ==
    [f EXCEPT !.brands = IF landing.brand = None THEN @ ELSE {landing.brand},
              !.types = IF landing.type = None THEN @ ELSE {landing.type},
              !.categories = IF landing.category = None THEN @ ELSE {landing.category},
              !.numeric = [k \in Numbers |-> IF @[k] # None THEN @[k] ELSE landing.bounds[k]]]

\* The landing's conditions go before the visitor's.
LandingFilters(landing, f) ==
    [f EXCEPT !.brands = IF landing.brand = None THEN @ ELSE {landing.brand},
              !.types = IF landing.type = None THEN @ ELSE {landing.type},
              !.categories = IF landing.category = None THEN @ ELSE {landing.category},
              !.numeric = [k \in Numbers |->
                             IF landing.bounds[k] = None THEN @[k] ELSE landing.bounds[k]]]

Asks(value) == IF value = None THEN 0 ELSE 1

LandingConditions(landing) ==
    Asks(landing.brand) + Asks(landing.type) + Asks(landing.category)
    + Cardinality({k \in Numbers : landing.bounds[k] # None})

IsIndexable(landing, f) ==
    ActiveCount(f) - LandingConditions(landing) <= 0 /\ f.query = None

\* An administrator may close a landing to robots whatever it shows.
Indexed(landing, f) == ~landing.noindex /\ IsIndexable(landing, f)

(***************************************************************************)
(* Properties of a catalogue, the parameters of an address and a landing   *)
(***************************************************************************)

\* The choices of a dimension are alternatives: one more adds what its counter
\* says to what the others find, and alone it finds just that.
Adds(c, count, with, without, others) ==
    LET Found(f) == Cardinality(ApplyFilters(c, f)) IN
    Found(with) = count + IF others = {} THEN 0 ELSE Found(without)

\* The counters of brands, types and options add up so; a flag leaves what its
\* counter says, and the full scale of a number all that have it.
Honest(c, f) ==
    /\ \A b \in DOMAIN BrandFacet(c, f) :
          Adds(c, BrandFacet(c, f)[b], [f EXCEPT !.brands = @ \union {b}],
               [f EXCEPT !.brands = @ \ {b}], f.brands \ {b})
    /\ \A t \in DOMAIN TypeFacet(c, f) :
          Adds(c, TypeFacet(c, f)[t], [f EXCEPT !.types = @ \union {t}],
               [f EXCEPT !.types = @ \ {t}], f.types \ {t})
    /\ \A k \in Lists : \A o \in DOMAIN OptionFacet(c, f, k) :
          Adds(c, OptionFacet(c, f, k)[o], [f EXCEPT !.options[k] = @ \union {o}],
               [f EXCEPT !.options[k] = @ \ {o}], f.options[k] \ {o})
    /\ \A k \in Flags :
          FlagFacet(c, f, k) = Cardinality(ApplyFilters(c, [f EXCEPT !.booleans[k] = TRUE]))
    /\ \A k \in Numbers :
          ApplyFilters(c, [f EXCEPT !.numeric[k] = NumberFacet(c, f, k)])
            = {m \in ApplyFilters(c, [f EXCEPT !.numeric[k] = None]) :
                 NumberFacet(c, f, k) # None => c[m].number[k] # None}

\* A page is indexed just when it shows what it was made for and is not closed.
ShownAsItself(landing, f) ==
    Indexed(landing, f) <=> ~landing.noindex /\ f = LandingFilters(landing, NoFilters)
=============================================================================
