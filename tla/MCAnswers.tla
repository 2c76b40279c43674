----------------------------- MODULE MCAnswers ------------------------------
(***************************************************************************)
(* Catalogues of four and of two machines, filters by one number, one list *)
(* and one flag, sixteen landings, and sums small enough for TLC's         *)
(* integers.                                                               *)
(***************************************************************************)
EXTENDS Answers, TLC

CONSTANTS Bad,           \* a bound that is not a number
          weight, drive, cabin

MCNumbers == {weight}
MCLists == {drive}
MCFlags == {cabin}

MCValue(low, high) == [num |-> low, max |-> high]

MCMachine(words, brand, type, stock, w, d, c) ==
    [words |-> words, brand |-> brand, type |-> type,
     categories |-> IF type = "digger" THEN {"earth"} ELSE {}, stock |-> stock,
     number |-> weight :> w, option |-> drive :> d, flag |-> cabin :> c]

MCCatalogues ==
    {<<MCMachine({"big"}, "komatsu", "digger", "in_stock", MCValue(2, None), "crawler", TRUE),
       MCMachine({"big"}, "komatsu", "loader", "order", MCValue(1, 3), "wheel", FALSE),
       MCMachine({}, "cat", "digger", "low", None, "wheel", None),
       MCMachine({"big"}, "cat", "loader", "none", MCValue(3, None), None, TRUE)>>,
     <<MCMachine({}, "komatsu", "digger", "none", None, None, None),
       MCMachine({"big"}, "komatsu", "digger", "in_stock", MCValue(3, 4), "crawler", FALSE)>>}

MCOptions == {"crawler", "wheel"}
MCBrands == {"komatsu", "cat"}
MCTypes == {"digger", "loader"}
MCCategories == {"earth"}
MCRaw == {Bad, 2, 3}

MCWords == {"big"}
MCAddresses == Address

\* Landings by brand, by type, by category and by several, with and without a
\* range; one of them is closed to robots.
MCLandings ==
    {l \in [brand : {None, "komatsu"}, type : {None, "digger"}, category : {None, "earth"},
            bounds : [MCNumbers -> {None, [low |-> 2, high |-> None]}], noindex : BOOLEAN] :
        /\ l.brand # None \/ l.type # None \/ l.category # None
        /\ l.noindex => l.brand # None /\ l.type = None /\ l.category = None}

MCTerms ==
    {t \in [minAdvance : {0, 10}, maxAdvance : {49, 100}, minMonths : {1, 7, 12},
            maxMonths : {12, 36, 60}, markup : {-1, 7, 14}] : TermsValid(t)}

\* Markups in halves of a per cent.
MCDeals ==
    [price : {0, 99, 100, 101, 333, 997, 1000}, advance : {0, 10, 33, 49, 100},
     months : {1, 7, 12, 36, 60}, markup : {0, 7, 14, 15, 100, 101}]

\* An empty lifetime is 0.
MCOwnerships ==
    [hours : {0, 1, 7, 1800}, consumption : {0, 3, 15}, fuelPrice : {0, 7, 65}, maintenance : {0, 99},
     price : {0, 100, 997}, lifetime : {0, 1, 7, 30}, operator : {0, 11}]

\* 8 is too long for its column.
MCTexts ==
    [front : {"none", "from", "about", "yes", "no", "nothing", "other"},
     first : {Empty, -1, 6, 7, 8}, second : {Empty, -1, 6, 7, 8},
     tail : {"none", "unit", "short", "phrase"}]
=============================================================================
