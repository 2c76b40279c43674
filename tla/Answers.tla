------------------------------ MODULE Answers -------------------------------
(***************************************************************************)
(* The requests that leave nothing behind: pages of the catalogue and its  *)
(* landings, the calculators, and the reading of a characteristic.  The    *)
(* state is the last question asked; what is promised of every answer is   *)
(* an invariant.                                                           *)
(***************************************************************************)
EXTENDS CatalogSearch, Calculators, SpecValues, Sequences

CONSTANTS Catalogues,   \* what may be on sale
          Addresses,    \* parameters an address may carry
          Landings,     \* landings an administrator may make
          Terms,        \* rows of leasing terms
          Deals,        \* what may be typed into the leasing calculator
          Ownerships,   \* what may be typed into the other
          Texts         \* characteristics as suppliers write them

ASSUME AnswersAssumption ==
    /\ Catalogues \subseteq Seq(Machine) /\ Addresses \subseteq Address
    /\ Landings \subseteq Landing
    /\ Terms \subseteq {t \in LeasingTerms : TermsValid(t)} /\ Deals \subseteq Deal
    /\ Ownerships \subseteq Ownership /\ Texts \subseteq Text

VARIABLE asked

Nobody == [kind |-> "nobody"]

Init == asked = Nobody

\* A list of machines, its counters and the rule for robots.
Browse(catalogue, params) ==
    asked' = [kind |-> "catalogue", catalogue |-> catalogue,
              filters |-> ParseFilters(params)]

OpenLanding(landing, params) ==
    asked' = [kind |-> "landing", landing |-> landing,
              filters |-> LandingFilters(landing, ParseFilters(params))]

\* The form is answered with errors unless it is valid.
CountLeasing(terms, deal) ==
    /\ FormAccepts(terms, deal)
    /\ asked' = [kind |-> "leasing", deal |-> deal]

\* A machine without a price has no payment on its tile; with a negative markup
\* the page fails.
ShowTile(terms, price) ==
    /\ price > 0
    /\ terms.markup >= 0
    /\ asked' = [kind |-> "leasing", deal |-> DefaultDeal(terms, price)]

CountOwnership(form) ==
    /\ TcoAccepts(form)
    /\ asked' = [kind |-> "ownership", form |-> form]

ReadValue(text) ==
    asked' = [kind |-> "text", text |-> text]

Leave == asked # Nobody /\ asked' = Nobody

Ask ==
    \/ \E c \in Catalogues, p \in Addresses : Browse(c, p)
    \/ \E l \in Landings, p \in Addresses : OpenLanding(l, p)
    \/ \E t \in Terms, d \in Deals : CountLeasing(t, d)
    \/ \E t \in Terms, d \in Deals : ShowTile(t, d.price)
    \/ \E f \in Ownerships : CountOwnership(f)
    \/ \E t \in Texts : ReadValue(t)

Next == (asked = Nobody /\ Ask) \/ Leave

Spec == Init /\ [][Next]_asked

(***************************************************************************)
(* Properties                                                              *)
(***************************************************************************)

\* A brand, a type or an option ticked on a page of the catalogue adds exactly
\* the machines its counter says to those the ticked ones of its dimension find,
\* and alone finds just these; a flag finds what its counter says, the scale of
\* a number all that have it (build_facets counts with each dimension left out,
\* apply_filters finds at the address with the choice added).
CountsKept == asked.kind = "catalogue" => Honest(asked.catalogue, asked.filters)

\* The plain catalogue, and a landing not closed to robots, is offered to them
\* just when it shows what it was made for, so one address has one content
\* (get_filters, get_indexing_context, the robots block of the templates).
IndexedAsItself ==
    /\ asked.kind = "catalogue" => ShownAsItself(Plain, asked.filters)
    /\ asked.kind = "landing" => ShownAsItself(asked.landing, asked.filters)

\* The amounts of a calculation make up its totals to the rounding of each
\* one: to the kopeck as a lead keeps them, to the rouble as the page and the
\* tile show them (calculate_leasing and calculate_tco round every amount by
\* itself, the templates round once more, leasing_monthly cuts).
AmountsAddUp ==
    /\ asked.kind = "leasing" => LeasingAddsUp(asked.deal)
    /\ asked.kind = "ownership" => TcoAddsUp(asked.form)

\* Whatever a supplier wrote, the row it is meant for takes the value read,
\* unless a number is too long for its column, and an interval is the same in
\* either order (parse_value, MachineSpec).
ParsedIsStorable == asked.kind = "text" => Storable(asked.text)
=============================================================================
