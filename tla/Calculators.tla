---------------------------- MODULE Calculators -----------------------------
(***************************************************************************)
(* The calculators of a leasing payment and of the cost of ownership.      *)
(* Money is counted in kopecks; the arithmetic is exact until an amount is *)
(* rounded to whole ones, and a page shows whole roubles.                  *)
(***************************************************************************)
EXTENDS Integers

CONSTANT Parts  \* of a per cent, that a markup is given in; 100 in the code

ASSUME PartsAssumption == Parts \in Nat \ {0}

\* Bug: what is below a kopeck is cut off.
Truncated(n, d) == n \div d

\* ROUND_HALF_UP of the fraction n/d, not negative, to whole kopecks.
Money(n, d) == (2 * n + d) \div (2 * d)

\* Kopecks as the pages of the calculators show them, and as a tile does.
Roubles(kopecks) == Money(kopecks, 100)
OnTile(kopecks) == kopecks \div 100

(***************************************************************************)
(* Leasing                                                                 *)
(***************************************************************************)

\* Nothing keeps the markup of the terms from being negative.
LeasingTerms == [minAdvance : Nat, maxAdvance : Nat, minMonths : Nat, maxMonths : Nat,
                 markup : Int]
Deal == [price : Nat, advance : Nat, months : Nat, markup : Nat]

\* What a row of leasing terms can hold.
TermsValid(terms) ==
    /\ 0 <= terms.minAdvance /\ terms.minAdvance <= terms.maxAdvance
    /\ terms.maxAdvance <= 100
    /\ 1 <= terms.minMonths /\ terms.minMonths <= terms.maxMonths

\* The middle of the range in whole years, within the range.
DefaultMonths(terms) ==
    LET years == Money(terms.minMonths + terms.maxMonths, 24) IN
    CASE 12 * years < terms.minMonths -> terms.minMonths
      [] 12 * years > terms.maxMonths -> terms.maxMonths
      [] OTHER -> 12 * years

\* LeasingCalculatorForm: a rouble at least, and the bounds of the terms.
FormAccepts(terms, deal) ==
    /\ deal.price >= 100
    /\ terms.minAdvance <= deal.advance /\ deal.advance <= terms.maxAdvance
    /\ terms.minMonths <= deal.months /\ deal.months <= terms.maxMonths
    /\ 0 <= deal.markup /\ deal.markup <= 50 * Parts

\* The deal a tile of the catalogue shows a payment for.
DefaultDeal(terms, price) ==
    [price |-> price, advance |-> terms.minAdvance, months |-> DefaultMonths(terms),
     markup |-> terms.markup]

\* The markup is a year's, of what is financed, and does not compound.
CalculateLeasing(deal) ==
    LET share == 100 - deal.advance
        grown == deal.markup * deal.months
        whole == 120000 * Parts
    IN [advance |-> Money(deal.price * deal.advance, 100),
        financed |-> Money(deal.price * share, 100),
        overpayment |-> Money(deal.price * share * grown, whole),
        monthly |-> Money(deal.price * share * (1200 * Parts + grown), whole * deal.months),
        total |-> Money(deal.price * (whole + share * grown), whole)]

(***************************************************************************)
(* Cost of ownership                                                       *)
(***************************************************************************)

\* What the fields of the form are cleaned to; 0 where one was left empty.
Ownership == [hours : Nat, consumption : Nat, fuelPrice : Nat, maintenance : Nat,
              price : Nat, lifetime : Nat, operator : Nat]

TcoAccepts(form) == 1 <= form.hours /\ form.hours <= 20000 /\ form.lifetime <= 30

\* Fields left empty count for nothing, an empty lifetime for seven years.
TcoArguments(form) ==
    [form EXCEPT !.lifetime = IF @ = 0 THEN 7 ELSE @]

\* A fifth of the price is left in the end.
CalculateTco(a) ==
    LET fuel == a.consumption * a.fuelPrice * a.hours
        running == a.maintenance + 12 * a.operator
        denominator == 500 * a.lifetime
        total == fuel * 5 * a.lifetime + running * denominator + 400 * a.price
    IN [fuel |-> Money(fuel, 100), maintenance |-> a.maintenance,
        depreciation |-> Money(4 * a.price, 5 * a.lifetime),
        operator |-> 12 * a.operator,
        total |-> Money(total, denominator),
        perHour |-> Money(total, denominator * a.hours)]

(***************************************************************************)
(* Properties of a calculation                                             *)
(***************************************************************************)

Abs(n) == IF n < 0 THEN -n ELSE n

\* To the kopeck, as a lead keeps them, the total is the price and the
\* overpayment, and the payments make it up to half a kopeck for each amount
\* rounded.  In roubles, as they are shown, what is paid may miss the total by
\* half a rouble and the kopeck for each amount, the parts of a price by a
\* rouble; a tile shows the payment of the page or a rouble less.
LeasingAddsUp(deal) ==
    LET r == CalculateLeasing(deal)
        shown == [a \in DOMAIN r |-> Roubles(r[a])]
    IN /\ r.total = deal.price + r.overpayment
       /\ Abs(r.advance + r.financed - deal.price) <= 1
       /\ 2 * Abs(r.advance + deal.months * r.monthly - r.total) <= deal.months + 2
       /\ Abs(Roubles(deal.price) + shown.overpayment - shown.total) <= 1
       /\ Abs(shown.advance + shown.financed - Roubles(deal.price)) <= 1
       /\ 200 * Abs(shown.advance + deal.months * shown.monthly - shown.total)
             <= 101 * (deal.months + 2)
       /\ OnTile(r.monthly) \in {shown.monthly, shown.monthly - 1}

\* The costs of a year make up the total, and the cost of an hour the year;
\* in whole roubles the total is missed by two at most.
TcoAddsUp(form) ==
    LET a == TcoArguments(form)
        r == CalculateTco(a)
        shown == [x \in DOMAIN r |-> Roubles(r[x])]
    IN /\ 2 * Abs(r.fuel + r.maintenance + r.depreciation + r.operator - r.total) <= 3
       /\ 2 * Abs(a.hours * r.perHour - r.total) <= a.hours + 1
       /\ Abs(shown.fuel + shown.maintenance + shown.depreciation + shown.operator
               - shown.total) <= 2
       /\ 200 * Abs(a.hours * shown.perHour - shown.total) <= 101 * (a.hours + 1)
=============================================================================
