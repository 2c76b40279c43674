----------------------------- MODULE SpecValues -----------------------------
(***************************************************************************)
(* How a characteristic written as text becomes a value: parse_value, and  *)
(* the constraints of the row it is meant for.                             *)
(*                                                                         *)
(* A text is what its patterns tell apart: words in front, a number,       *)
(* perhaps a separator and another, and what follows.                      *)
(***************************************************************************)
EXTENDS Integers

CONSTANTS Empty,  \* a column left empty
          Limit   \* the least number too long for its column, 10^10 in the code

ASSUME ValueAssumption ==
    Limit \in Nat \ {0} /\ Empty \notin Int /\ Empty \notin BOOLEAN /\ Empty # "text"

Text == [front : {"none", "from", "about", "yes", "no", "nothing", "other"},
         first : Int \union {Empty}, second : Int \union {Empty},
         tail : {"none", "unit", "short", "phrase"}]

NoValue == [num |-> Empty, max |-> Empty, flag |-> Empty, text |-> Empty]

\* Bug: the ends of an interval are taken as they come.
AsWritten(low, high) == [NoValue EXCEPT !.num = low, !.max = high]

\* The ends may come in either order.
Ordered(low, high) ==
    [NoValue EXCEPT !.num = IF low > high THEN high ELSE low,
                    !.max = IF low > high THEN low ELSE high]

\* A number may follow "from", but an interval not "about"; a separator
\* without a number on either side, and all after it, is what follows.
ParseValue(t) ==
    LET pair == t.first # Empty /\ t.second # Empty /\ t.front \in {"none", "from"} IN
    CASE t.front = "nothing" -> NoValue
      [] t.front \in {"yes", "no"} -> [NoValue EXCEPT !.flag = t.front = "yes"]
      [] pair -> Ordered(t.first, t.second)
      [] /\ ~pair /\ t.first # Empty /\ t.tail # "phrase"
         /\ t.front \in {"none", "from", "about"} -> [NoValue EXCEPT !.num = t.first]
      [] OTHER -> [NoValue EXCEPT !.text = "text"]

\* What a column of fourteen digits holds; what is beyond its last place is
\* rounded, which keeps the order of two numbers.
Column == {n \in Int : -Limit < n /\ n < Limit}

\* Exactly one value, an upper end only above a lower one.
RowValid(v) ==
    /\ \E x \in {"num", "flag", "text"} : \A y \in {"num", "flag", "text"} :
          v[y] # Empty <=> y = x
    /\ v.max # Empty => v.num # Empty /\ v.max >= v.num
    /\ {v.num, v.max} \subseteq Column \union {Empty}

\* Whatever the text, its value can be stored or there is none, unless a number
\* it was read for is too long; and the order an interval was written in makes
\* no difference.
Storable(t) ==
    LET v == ParseValue(t) IN
    /\ v # NoValue => (RowValid(v) <=> {v.num, v.max} \ {Empty} \subseteq Column)
    /\ t.front \in {"none", "from"} /\ t.first # Empty /\ t.second # Empty =>
         v = ParseValue([t EXCEPT !.first = t.second, !.second = t.first])
=============================================================================
