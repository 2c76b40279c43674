---------------------------- MODULE AnswersProofs ----------------------------
(***************************************************************************)
(* What is promised of every answer, for any catalogue, address, landing,  *)
(* terms, deal and text.  An answer depends on nothing but what was asked, *)
(* so each proof is about the operators the answer is computed with.       *)
(***************************************************************************)
EXTENDS Answers, FiniteSetTheorems, WellFoundedInduction, TLAPS

-----------------------------------------------------------------------------
(***************************************************************************)
(* Characteristics.                                                        *)
(***************************************************************************)

\* A value that is an interval.
LEMMA IntervalValue ==
  ASSUME NEW x, NEW y
  PROVE  [NoValue EXCEPT !.num = x, !.max = y]
           = [num |-> x, max |-> y, flag |-> Empty, text |-> Empty]
<1> DEFINE v == [NoValue EXCEPT !.num = x]
           w == [v EXCEPT !.max = y]
<1>1. v = [num |-> x, max |-> Empty, flag |-> Empty, text |-> Empty]
  BY DEF NoValue
<1>2. w = [num |-> x, max |-> y, flag |-> Empty, text |-> Empty]
  <2> HIDE DEF v
  <2> QED
    BY <1>1
<1>3. [NoValue EXCEPT !.num = x, !.max = y] = w
  BY Zenon
<1> QED
  BY <1>2, <1>3

\* The row takes a value of which it has just one, but for a number too long.
Fits(v) == RowValid(v) <=> {v.num, v.max} \ {Empty} \subseteq Column

\* The ends of an interval are stored in order, however they were written.
LEMMA OrderedValid ==
  ASSUME NEW a \in Int, NEW b \in Int
  PROVE  Fits(Ordered(a, b)) /\ Ordered(a, b) = Ordered(b, a)
<1> DEFINE low == IF a > b THEN b ELSE a
           high == IF a > b THEN a ELSE b
           low2 == IF b > a THEN a ELSE b
           high2 == IF b > a THEN b ELSE a
           v == [num |-> low, max |-> high, flag |-> Empty, text |-> Empty]
<1>1. low \in Int /\ high \in Int /\ high >= low /\ low2 = low /\ high2 = high
  OBVIOUS
<1>2. /\ Ordered(a, b) = [NoValue EXCEPT !.num = low, !.max = high]
      /\ Ordered(b, a) = [NoValue EXCEPT !.num = low2, !.max = high2]
  BY Zenon DEF Ordered
<1> HIDE DEF low, high, low2, high2
<1>3. Fits(v)
  BY <1>1, ValueAssumption DEF Fits, RowValid
<1>4. Ordered(a, b) = v /\ Ordered(b, a) = v
  BY <1>1, <1>2, IntervalValue
<1> QED
  BY <1>3, <1>4

\* Two numbers make an interval unless words before them say otherwise.
LEMMA PairParsed ==
  ASSUME NEW t, t.first # Empty, t.second # Empty, t.front \in {"none", "from"}
  PROVE  ParseValue(t) = Ordered(t.first, t.second)
<1> DEFINE flag == [NoValue EXCEPT !.flag = t.front = "yes"]
           number == [NoValue EXCEPT !.num = t.first]
           words == [NoValue EXCEPT !.text = "text"]
           interval == Ordered(t.first, t.second)
           nothing == t.front = "nothing"
           answer == t.front \in {"yes", "no"}
           pair == t.first # Empty /\ t.second # Empty /\ t.front \in {"none", "from"}
           one == ~pair /\ t.first # Empty /\ t.tail # "phrase"
                  /\ t.front \in {"none", "from", "about"}
<1>1. ~nothing /\ ~answer /\ pair /\ ~one
  OBVIOUS
<1>2. ParseValue(t) = CASE nothing -> NoValue [] answer -> flag [] pair -> interval
                        [] one -> number [] OTHER -> words
  BY DEF ParseValue
<1> HIDE DEF flag, number, words, interval, nothing, answer, pair, one
<1>3. ParseValue(t) = interval
  BY <1>1, <1>2
<1> QED
  BY <1>3 DEF interval

\* Whatever a text says, only the length of a number keeps its value from the row.
LEMMA ValueStorable == ASSUME NEW t \in Text PROVE Storable(t)
<1> DEFINE pair == t.first # Empty /\ t.second # Empty
           u == [t EXCEPT !.first = t.second, !.second = t.first]
<1>1. /\ t.first \in Int \union {Empty} /\ t.second \in Int \union {Empty}
      /\ u.first = t.second /\ u.second = t.first /\ u.front = t.front /\ u.tail = t.tail
  BY DEF Text
<1>2. CASE pair /\ t.front \in {"none", "from"}
  <2>1. ParseValue(t) = Ordered(t.first, t.second)
    BY <1>2, PairParsed
  <2>2. ParseValue(u) = Ordered(t.second, t.first)
    BY <1>1, <1>2, PairParsed
  <2>3. t.first \in Int /\ t.second \in Int
    BY <1>1, <1>2
  <2> QED
    BY <2>1, <2>2, <2>3, OrderedValid DEF Storable, Fits
<1>3. CASE ~(pair /\ t.front \in {"none", "from"})
  <2>1. \/ ParseValue(t) = NoValue
        \/ ParseValue(t) = [NoValue EXCEPT !.flag = t.front = "yes"]
        \/ t.first # Empty /\ ParseValue(t) = [NoValue EXCEPT !.num = t.first]
        \/ ParseValue(t) = [NoValue EXCEPT !.text = "text"]
    BY <1>3 DEF ParseValue
  <2>2. ParseValue(t) # NoValue => Fits(ParseValue(t))
    <3>1. CASE ParseValue(t) = [NoValue EXCEPT !.flag = t.front = "yes"]
      BY <3>1, <1>1, ValueAssumption DEF Fits, RowValid, NoValue
    <3>2. CASE t.first # Empty /\ ParseValue(t) = [NoValue EXCEPT !.num = t.first]
      BY <3>2, <1>1, ValueAssumption DEF Fits, RowValid, NoValue
    <3>3. CASE ParseValue(t) = [NoValue EXCEPT !.text = "text"]
      BY <3>3, <1>1, ValueAssumption DEF Fits, RowValid, NoValue
    <3> QED
      BY <2>1, <3>1, <3>2, <3>3
  <2> QED
    BY <1>3, <2>2 DEF Storable, Fits
<1> QED
  BY <1>2, <1>3

\* Whatever a supplier wrote, the row it is meant for takes the value read,
\* unless a number is too long for its column, and an interval is the same in
\* either order (parse_value and the constraints of MachineSpec).
THEOREM ParsedIsStorableHolds == Spec => []ParsedIsStorable
<1>1. Init => ParsedIsStorable
  BY DEF Init, Nobody, ParsedIsStorable
<1>2. ParsedIsStorable /\ [Next]_asked => ParsedIsStorable'
  <2> SUFFICES ASSUME ParsedIsStorable, [Next]_asked, asked'.kind = "text", asked' # asked
               PROVE  Storable(asked'.text)
    BY DEF ParsedIsStorable
  <2>1. PICK t \in Texts : ReadValue(t)
    BY DEF Next, Ask, Leave, Nobody, Browse, OpenLanding, CountLeasing, ShowTile, CountOwnership
  <2> QED
    BY <2>1, ValueStorable, AnswersAssumption DEF ReadValue
<1> QED
  BY <1>1, <1>2, PTL DEF Spec

-----------------------------------------------------------------------------
(***************************************************************************)
(* Amounts.                                                                *)
(***************************************************************************)

\* Rounding moves an amount by half a unit at most.
LEMMA Rounding ==
  ASSUME NEW n \in Nat, NEW d \in Nat \ {0}
  PROVE  /\ Money(n, d) \in Nat
         /\ 2 * d * Money(n, d) <= 2 * n + d
         /\ 2 * n - d < 2 * d * Money(n, d)
<1> DEFINE a == 2 * n + d
           b == 2 * d
           q == a \div b
<1>1. a \in Int /\ b \in Int /\ b > 0 /\ a >= 0
  OBVIOUS
<1>2. Money(n, d) = q
  BY DEF Money
<1> HIDE DEF a, b
<1>3. q \in Int /\ b * q <= a /\ a < b * q + b
  BY <1>1
<1> HIDE DEF q
<1>4. q >= 0
  <2>1. SUFFICES ASSUME q + 1 <= 0 PROVE FALSE
    BY <1>3
  <2>2. b * (q + 1) <= 0
    BY <1>1, <1>3, <2>1
  <2> QED
    BY <1>1, <1>3, <2>2
<1> QED
  BY <1>2, <1>3, <1>4 DEF a, b

\* So does showing it in whole roubles, where a kopeck may be what decides;
\* cutting it off may be a rouble short of that.
LEMMA ShownAmount ==
  ASSUME NEW k \in Nat
  PROVE  /\ Roubles(k) \in Nat
         /\ 200 * Roubles(k) <= 2 * k + 100 /\ 2 * k - 100 < 200 * Roubles(k)
         /\ OnTile(k) \in {Roubles(k), Roubles(k) - 1}
<1>1. 100 \in Nat \ {0}
  OBVIOUS
<1>2. /\ Money(k, 100) \in Nat /\ 2 * 100 * Money(k, 100) <= 2 * k + 100
      /\ 2 * k - 100 < 2 * 100 * Money(k, 100)
  BY <1>1, Rounding
<1>3. /\ Roubles(k) \in Nat
      /\ 200 * Roubles(k) <= 2 * k + 100 /\ 2 * k - 100 < 200 * Roubles(k)
  BY <1>2 DEF Roubles
<1>4. OnTile(k) \in Int /\ 100 * OnTile(k) <= k /\ k < 100 * OnTile(k) + 100
  BY DEF OnTile
<1> DEFINE s == Roubles(k)
           t == OnTile(k)
<1>5. s \in Int /\ t \in Int /\ 200 * s < 200 * t + 300 /\ 200 * t < 200 * s + 100
  BY <1>3, <1>4
<1> HIDE DEF s, t
<1>6. t = s \/ t = s - 1
  BY <1>5
<1> QED
  BY <1>3, <1>6 DEF s, t

\* A factor both sides have goes.
LEMMA Cancelled ==
  ASSUME NEW k \in Nat \ {0}, NEW x \in Int, NEW y \in Int, k * x <= k * y
  PROVE  x <= y
<1>1. SUFFICES ASSUME y + 1 <= x PROVE FALSE
  OBVIOUS
<1>2. k * (y + 1) <= k * x
  BY <1>1
<1> QED
  BY <1>2

\* The other way round.
LEMMA CancelledStrictly ==
  ASSUME NEW k \in Nat \ {0}, NEW x \in Int, NEW y \in Int, k * x < k * y
  PROVE  x < y
<1>1. SUFFICES ASSUME y <= x PROVE FALSE
  OBVIOUS
<1>2. k * y <= k * x
  BY <1>1
<1> QED
  BY <1>2

\* Every payment is within half a kopeck of its share of the price.
LEMMA LeasingSums ==
  ASSUME NEW deal \in Deal, deal.advance <= 100, 1 <= deal.months
  PROVE  LeasingAddsUp(deal)
<1> DEFINE P == deal.price
           share == 100 - deal.advance
           grown == deal.markup * deal.months
           r == CalculateLeasing(deal)
           X == P * deal.advance
           Y == P * share
           Z == P * share * grown
           M == deal.months
           C == 1200 * Parts
           K == 120000 * Parts
<1>1. /\ P \in Nat /\ share \in Nat /\ grown \in Nat /\ M \in Nat \ {0}
      /\ X \in Nat /\ Y \in Nat /\ Z \in Nat /\ X + Y = 100 * P
      /\ C \in Nat \ {0} /\ K \in Nat \ {0} /\ K = 100 * C
  <2>1. P \in Nat /\ deal.advance \in Nat /\ M \in Nat \ {0} /\ deal.markup \in Nat
    BY DEF Deal
  <2>2. share \in Nat /\ grown \in Nat
    BY <2>1
  <2>3. X \in Nat /\ Y \in Nat
    BY <2>1, <2>2
  <2>4. Z \in Nat
    <3> HIDE DEF grown
    <3>1. Z = Y * grown
      OBVIOUS
    <3> HIDE DEF Z, Y
    <3> QED
      BY <2>2, <2>3, <3>1
  <2>5. X + Y = 100 * P
    BY <2>1
  <2>6. C \in Nat \ {0} /\ K \in Nat \ {0} /\ K = 100 * C
    BY PartsAssumption
  <2> QED
    BY <2>1, <2>2, <2>3, <2>4, <2>5, <2>6
<1>2. /\ r.advance = Money(X, 100) /\ r.financed = Money(Y, 100)
      /\ r.overpayment = Money(Z, K)
      /\ r.monthly = Money(P * share * (C + grown), K * M)
      /\ r.total = Money(P * (K + share * grown), K)
      /\ DOMAIN r = {"advance", "financed", "overpayment", "monthly", "total"}
  BY DEF CalculateLeasing
<1>3. P * share * (C + grown) = C * Y + Z /\ P * (K + share * grown) = K * P + Z
  <2> HIDE DEF share, grown, C, K
  <2> QED
    BY <1>1
<1> HIDE DEF X, Y, Z, P, M, r, C, K
<1>4. r.advance \in Nat /\ 200 * r.advance <= 2 * X + 100 /\ 2 * X - 100 <= 200 * r.advance
  <2>1. X \in Nat /\ 100 \in Nat \ {0}
    BY <1>1
  <2>2. /\ Money(X, 100) \in Nat
        /\ 2 * 100 * Money(X, 100) <= 2 * X + 100
        /\ 2 * X - 100 < 2 * 100 * Money(X, 100)
    BY <2>1, Rounding
  <2> QED
    BY <1>1, <1>2, <2>2
<1>5. r.financed \in Nat /\ 200 * r.financed <= 2 * Y + 100 /\ 2 * Y - 100 <= 200 * r.financed
  <2>1. Y \in Nat /\ 100 \in Nat \ {0}
    BY <1>1
  <2>2. /\ Money(Y, 100) \in Nat
        /\ 2 * 100 * Money(Y, 100) <= 2 * Y + 100
        /\ 2 * Y - 100 < 2 * 100 * Money(Y, 100)
    BY <2>1, Rounding
  <2> QED
    BY <1>1, <1>2, <2>2
<1> DEFINE N == K * P + Z
<1>6. /\ r.total \in Nat
      /\ 2 * K * r.total <= 2 * N + K
      /\ 2 * N - K < 2 * K * r.total
  <2>1. N \in Nat /\ r.total = Money(N, K)
    BY <1>1, <1>2, <1>3
  <2> HIDE DEF N
  <2> QED
    BY <1>1, <2>1, Rounding
<1>7. /\ r.overpayment \in Nat
      /\ 2 * K * r.overpayment <= 2 * Z + K
      /\ 2 * Z - K < 2 * K * r.overpayment
  BY <1>1, <1>2, Rounding
<1> DEFINE U == M * r.monthly
<1>8. /\ U \in Nat /\ r.monthly \in Nat
      /\ 2 * K * U <= 2 * (C * Y + Z) + K * M
      /\ 2 * (C * Y + Z) - K * M <= 2 * K * U
  <2> DEFINE n == C * Y + Z
             d == K * M
  <2>1. n \in Nat /\ d \in Nat \ {0}
    BY <1>1
  <2>2. r.monthly = Money(n, d)
    BY <1>2, <1>3
  <2> HIDE DEF n, d
  <2>3. /\ r.monthly \in Nat /\ 2 * d * r.monthly <= 2 * n + d
        /\ 2 * n - d < 2 * d * r.monthly
    BY <2>1, <2>2, Rounding
  <2>4. 2 * d * r.monthly = 2 * K * U /\ U \in Nat
    BY <1>1, <2>3 DEF d
  <2> HIDE DEF U
  <2>5. n \in Int /\ d \in Int /\ 2 * K * U \in Int
    BY <1>1, <2>1, <2>4
  <2>6. 2 * K * U <= 2 * n + d /\ 2 * n - d <= 2 * K * U
    BY <2>3, <2>4, <2>5
  <2> QED
    BY <2>3, <2>4, <2>6 DEF n, d
<1> HIDE DEF U
\* To the kopeck.
<1>9. r.total = P + r.overpayment
  <2> DEFINE o == r.overpayment
             T == r.total
             e == T - (P + o)
             v == K * P
             x == K * o
             y == K * T
  <2>1. P \in Int /\ o \in Int /\ T \in Int /\ v \in Int /\ x \in Int /\ y \in Int /\ K \in Int /\ Z \in Int
    BY <1>1, <1>6, <1>7
  <2>2. 2 * y <= 2 * v + 2 * Z + K /\ 2 * v + 2 * Z - K < 2 * y
    BY <1>1, <1>6, <2>1
  <2>3. 2 * x <= 2 * Z + K /\ 2 * Z - K < 2 * x
    BY <1>1, <1>7, <2>1
  <2>4. K * e = y - v - x /\ e \in Int
    BY <1>1, <2>1
  <2> HIDE DEF e, v, x, y
  <2>5. K * e < K * 1 /\ K * (-1) < K * e
    BY <1>1, <2>1, <2>2, <2>3, <2>4
  <2>6. e < 1 /\ -1 < e
    BY <1>1, <2>4, <2>5, CancelledStrictly
  <2>7. e = 0
    BY <2>4, <2>6
  <2> QED
    BY <2>1, <2>7 DEF e
<1>10. 2 * Abs(r.advance + U - r.total) <= M + 2
  <2> DEFINE e == r.advance + U - r.total
  <2>1. e \in Int /\ M + 2 \in Int /\ -(M + 2) \in Int
    BY <1>1, <1>4, <1>6, <1>8
  <2>2. K * (2 * e) = 2 * (K * r.advance) + 2 * (K * U) - 2 * (K * r.total)
    BY <1>1, <1>4, <1>6, <1>8
  <2>3. /\ 2 * (K * r.advance) <= 2 * (C * X) + K /\ 2 * (C * X) - K <= 2 * (K * r.advance)
    <3>1. C * (200 * r.advance) <= C * (2 * X + 100) /\ C * (2 * X - 100) <= C * (200 * r.advance)
      BY <1>1, <1>4
    <3>2. C * (200 * r.advance) = 2 * (K * r.advance)
      BY <1>1, <1>4
    <3>3. C * (2 * X + 100) = 2 * (C * X) + K /\ C * (2 * X - 100) = 2 * (C * X) - K
      BY <1>1
    <3> QED
      BY <3>1, <3>2, <3>3
  <2>4. C * X + C * Y = K * P
    <3>1. C * X + C * Y = C * (X + Y)
      BY <1>1
    <3>2. C * (100 * P) = K * P
      BY <1>1
    <3> QED
      BY <1>1, <3>1, <3>2
  <2> DEFINE ka == K * r.advance
             ku == K * U
             kt == K * r.total
             cx == C * X
             cy == C * Y
             kp == K * P
             km == K * M
  <2>5. /\ ka \in Int /\ ku \in Int /\ kt \in Int /\ cx \in Int /\ cy \in Int /\ kp \in Int
        /\ km \in Int /\ K \in Int /\ Z \in Int
    BY <1>1, <1>4, <1>6, <1>8
  <2>6. /\ 2 * kt <= 2 * (kp + Z) + K /\ 2 * (kp + Z) - K < 2 * kt
        /\ 2 * ku <= 2 * (cy + Z) + km /\ 2 * (cy + Z) - km <= 2 * ku
    BY <1>1, <1>6, <1>8, <2>5
  <2>7. K * (M + 2) = km + 2 * K /\ K * (-(M + 2)) = -(km + 2 * K)
    BY <1>1
  <2> HIDE DEF e, ka, ku, kt, cx, cy, kp, km
  <2>8. K * (2 * e) <= km + 2 * K /\ -(km + 2 * K) <= K * (2 * e)
    <3>1. K * (2 * e) = 2 * ka + 2 * ku - 2 * kt
      BY <2>2 DEF ka, ku, kt
    <3>2. 2 * ka <= 2 * cx + K /\ 2 * cx - K <= 2 * ka
      BY <2>3 DEF ka, cx
    <3>3. cx + cy = kp
      BY <2>4 DEF cx, cy, kp
    <3> QED
      BY <2>5, <2>6, <3>1, <3>2, <3>3
  <2>9. 2 * e <= M + 2 /\ -(M + 2) <= 2 * e
    <3>1. 2 * e \in Int
      BY <2>1
    <3>2. K * (2 * e) <= K * (M + 2) /\ K * (-(M + 2)) <= K * (2 * e)
      BY <2>7, <2>8
    <3> QED
      BY <1>1, <2>1, <3>1, <3>2, Cancelled
  <2> QED
    BY <1>1, <2>1, <2>9 DEF e, Abs
<1>11. Abs(r.advance + r.financed - P) <= 1
  BY <1>1, <1>4, <1>5 DEF Abs
\* In roubles.
<1> DEFINE shown == [a \in DOMAIN r |-> Roubles(r[a])]
<1>12. /\ shown.advance = Roubles(r.advance) /\ shown.financed = Roubles(r.financed)
       /\ shown.overpayment = Roubles(r.overpayment) /\ shown.monthly = Roubles(r.monthly)
       /\ shown.total = Roubles(r.total)
  BY <1>2
<1> HIDE DEF shown
<1> DEFINE sa == shown.advance
           sf == shown.financed
           so == shown.overpayment
           sm == shown.monthly
           st == shown.total
           sp == Roubles(P)
<1>13. /\ sa \in Nat /\ 200 * sa <= 2 * r.advance + 100 /\ 2 * r.advance - 100 < 200 * sa
       /\ sf \in Nat /\ 200 * sf <= 2 * r.financed + 100 /\ 2 * r.financed - 100 < 200 * sf
       /\ so \in Nat /\ 200 * so <= 2 * r.overpayment + 100 /\ 2 * r.overpayment - 100 < 200 * so
       /\ st \in Nat /\ 200 * st <= 2 * r.total + 100 /\ 2 * r.total - 100 < 200 * st
       /\ sp \in Nat /\ 200 * sp <= 2 * P + 100 /\ 2 * P - 100 < 200 * sp
       /\ sm \in Nat /\ 200 * sm <= 2 * r.monthly + 100 /\ 2 * r.monthly - 100 < 200 * sm
       /\ OnTile(r.monthly) \in {sm, sm - 1}
  <2> DEFINE Near(s, k) == s \in Nat /\ 200 * s <= 2 * k + 100 /\ 2 * k - 100 < 200 * s
  <2>1. ASSUME NEW k \in Nat
        PROVE  Near(Roubles(k), k) /\ OnTile(k) \in {Roubles(k), Roubles(k) - 1}
    BY ShownAmount
  <2> HIDE DEF Near
  <2>2. Near(sa, r.advance) /\ Near(sf, r.financed) /\ Near(so, r.overpayment)
    BY <1>4, <1>5, <1>7, <1>12, <2>1
  <2>3. Near(st, r.total) /\ Near(sp, P) /\ Near(sm, r.monthly)
    BY <1>1, <1>6, <1>8, <1>12, <2>1
  <2>4. OnTile(r.monthly) \in {sm, sm - 1}
    BY <1>8, <1>12, <2>1
  <2> HIDE DEF sa, sf, so, sm, st, sp
  <2> QED
    BY <2>2, <2>3, <2>4 DEF Near
<1> HIDE DEF sa, sf, so, sm, st, sp
<1>14. Abs(sp + so - st) <= 1
  BY <1>1, <1>6, <1>7, <1>9, <1>13 DEF Abs
<1>15. Abs(sa + sf - sp) <= 1
  BY <1>1, <1>4, <1>5, <1>11, <1>13 DEF Abs
<1>16. 200 * Abs(sa + M * sm - st) <= 101 * (M + 2)
  <2> DEFINE V == M * sm
  <2>1. V \in Int /\ 200 * V <= 2 * U + 100 * M /\ 2 * U - 100 * M <= 200 * V
    <3>1. M * (200 * sm) <= M * (2 * r.monthly + 100) /\ M * (2 * r.monthly - 100) <= M * (200 * sm)
      BY <1>1, <1>8, <1>13
    <3>2. M * (200 * sm) = 200 * V /\ V \in Int
      BY <1>1, <1>13
    <3>3. /\ M * (2 * r.monthly + 100) = 2 * U + 100 * M
          /\ M * (2 * r.monthly - 100) = 2 * U - 100 * M
      BY <1>1, <1>8 DEF U
    <3> QED
      BY <3>1, <3>2, <3>3
  <2> HIDE DEF V
  <2>2. 2 * (r.advance + U - r.total) <= M + 2 /\ -(M + 2) <= 2 * (r.advance + U - r.total)
    BY <1>1, <1>4, <1>6, <1>8, <1>10 DEF Abs
  <2>3. 200 * Abs(sa + V - st) <= 101 * (M + 2)
    BY <1>1, <1>4, <1>6, <1>8, <1>13, <2>1, <2>2 DEF Abs
  <2> QED
    BY <2>3 DEF V
<1> QED
  BY <1>9, <1>10, <1>11, <1>13, <1>14, <1>15, <1>16
  DEF LeasingAddsUp, U, M, P, r, shown, sa, sf, so, sm, st, sp

\* The total of a year holds what its parts do, and an hour its share of it.
LEMMA OwnershipSums ==
  ASSUME NEW form \in Ownership, TcoAccepts(form)
  PROVE  TcoAddsUp(form)
<1> DEFINE a == TcoArguments(form)
           r == CalculateTco(a)
           F == a.consumption * a.fuelPrice * a.hours
           R == a.maintenance + 12 * a.operator
           L == a.lifetime
           H == a.hours
           p == a.price
           N == F * 5 * L + R * (500 * L) + 400 * p
           FL == F * L
           RL == R * L
<1>1. a \in Ownership /\ L \in Nat \ {0} /\ H \in Nat \ {0}
  BY DEF TcoArguments, Ownership, TcoAccepts
<1>2. F \in Nat /\ R \in Nat /\ p \in Nat /\ a.maintenance \in Nat /\ a.operator \in Nat
  <2>1. a.consumption \in Nat /\ a.fuelPrice \in Nat /\ H \in Nat
    BY <1>1 DEF Ownership
  <2>2. a.consumption * a.fuelPrice \in Nat
    BY <2>1
  <2>3. F \in Nat
    BY <2>1, <2>2
  <2> QED
    BY <1>1, <2>3 DEF Ownership
<1>3. /\ r.fuel = Money(F, 100) /\ r.maintenance + r.operator = R
      /\ r.maintenance \in Nat /\ r.operator \in Nat
      /\ r.depreciation = Money(4 * p, 5 * L)
      /\ r.total = Money(N, 500 * L) /\ r.perHour = Money(N, 500 * L * H)
      /\ DOMAIN r = {"fuel", "maintenance", "depreciation", "operator", "total", "perHour"}
  BY <1>2 DEF CalculateTco
<1> HIDE DEF a, r, F, R, L, H, p
<1>4. FL \in Nat /\ RL \in Nat /\ N = 5 * FL + 500 * RL + 400 * p /\ N \in Nat
  BY <1>1, <1>2
<1> HIDE DEF N, FL, RL
<1>5. /\ r.fuel \in Nat
      /\ 1000 * (L * r.fuel) <= 10 * FL + 500 * L /\ 10 * FL - 500 * L <= 1000 * (L * r.fuel)
  <2>1. 100 \in Nat \ {0}
    OBVIOUS
  <2>2. /\ Money(F, 100) \in Nat /\ 2 * 100 * Money(F, 100) <= 2 * F + 100
        /\ 2 * F - 100 < 2 * 100 * Money(F, 100)
    BY <1>2, <2>1, Rounding
  <2>3. r.fuel \in Nat /\ 200 * r.fuel <= 2 * F + 100 /\ 2 * F - 100 <= 200 * r.fuel
    BY <1>2, <1>3, <2>2
  <2>4. L * (200 * r.fuel) <= L * (2 * F + 100) /\ L * (2 * F - 100) <= L * (200 * r.fuel)
    BY <1>1, <1>2, <2>3
  <2>5. /\ L * (200 * r.fuel) = 200 * (L * r.fuel) /\ L * (2 * F + 100) = 2 * FL + 100 * L
        /\ L * (2 * F - 100) = 2 * FL - 100 * L
    BY <1>1, <1>2, <2>3 DEF FL
  <2> QED
    BY <1>1, <1>4, <2>3, <2>4, <2>5
<1>6. /\ r.depreciation \in Nat
      /\ 1000 * (L * r.depreciation) <= 800 * p + 500 * L
      /\ 800 * p - 500 * L <= 1000 * (L * r.depreciation)
  <2> DEFINE n == 4 * p
             d == 5 * L
  <2>1. n \in Nat /\ d \in Nat \ {0} /\ r.depreciation = Money(n, d)
    BY <1>1, <1>2, <1>3
  <2> HIDE DEF n, d
  <2>2. /\ r.depreciation \in Nat /\ 2 * d * r.depreciation <= 2 * n + d
        /\ 2 * n - d < 2 * d * r.depreciation
    BY <2>1, Rounding
  <2>3. 2 * d * r.depreciation = 10 * (L * r.depreciation)
    BY <1>1, <2>2 DEF d
  <2> QED
    BY <1>1, <1>2, <2>2, <2>3 DEF n, d
<1>7. /\ r.total \in Nat
      /\ 1000 * (L * r.total) <= 2 * N + 500 * L /\ 2 * N - 500 * L <= 1000 * (L * r.total)
  <2> DEFINE d == 500 * L
  <2>1. N \in Nat /\ d \in Nat \ {0} /\ r.total = Money(N, d)
    BY <1>1, <1>3, <1>4
  <2> HIDE DEF d
  <2>2. /\ r.total \in Nat /\ 2 * d * r.total <= 2 * N + d /\ 2 * N - d < 2 * d * r.total
    BY <2>1, Rounding
  <2>3. 2 * d * r.total = 1000 * (L * r.total)
    BY <1>1, <2>2 DEF d
  <2> QED
    BY <1>1, <1>4, <2>2, <2>3 DEF d
<1>8. /\ r.perHour \in Nat
      /\ 1000 * (L * (H * r.perHour)) <= 2 * N + 500 * (L * H)
      /\ 2 * N - 500 * (L * H) <= 1000 * (L * (H * r.perHour))
  <2> DEFINE d == 500 * L * H
             LH == L * H
  <2>1. LH \in Nat \ {0} /\ d = 500 * LH
    BY <1>1
  <2>2. N \in Nat /\ d \in Nat \ {0} /\ r.perHour = Money(N, d)
    <3> HIDE DEF LH
    <3>1. d \in Nat \ {0}
      BY <2>1
    <3> QED
      BY <1>3, <1>4, <3>1
  <2> HIDE DEF d
  <2>3. /\ r.perHour \in Nat /\ 2 * d * r.perHour <= 2 * N + d /\ 2 * N - d < 2 * d * r.perHour
    BY <2>2, Rounding
  <2>4. LH * r.perHour = L * (H * r.perHour)
    BY <1>1, <2>3
  <2> HIDE DEF LH
  <2>5. 2 * d * r.perHour = 1000 * (LH * r.perHour)
    BY <2>1, <2>3
  <2>6. 1000 * (LH * r.perHour) <= 2 * N + 500 * LH /\ 2 * N - 500 * LH <= 1000 * (LH * r.perHour)
    BY <1>4, <2>1, <2>3, <2>5
  <2> QED
    BY <2>3, <2>4, <2>6 DEF LH
<1>9. 2 * Abs(r.fuel + r.maintenance + r.depreciation + r.operator - r.total) <= 3
  <2> DEFINE e == r.fuel + r.maintenance + r.depreciation + r.operator - r.total
             k == 500 * L
  <2>1. e \in Int /\ k \in Nat \ {0}
    BY <1>1, <1>3, <1>5, <1>6, <1>7
  <2>2. L * e = L * r.fuel + RL + L * r.depreciation - L * r.total
    <3>1. e = r.fuel + R + r.depreciation - r.total
      BY <1>3, <1>5, <1>6, <1>7, <1>2
    <3> QED
      BY <1>1, <1>2, <1>5, <1>6, <1>7, <3>1 DEF RL
  <2>3. /\ L * r.fuel \in Int /\ L * r.depreciation \in Int /\ L * r.total \in Int /\ L * e \in Int
    BY <1>1, <1>5, <1>6, <1>7, <2>1
  <2> HIDE DEF e
  <2>4. 1000 * (L * e) <= 1500 * L /\ -1500 * L <= 1000 * (L * e)
    BY <1>1, <1>2, <1>4, <1>5, <1>6, <1>7, <2>2, <2>3
  <2>5. k * (2 * e) <= k * 3 /\ k * (-3) <= k * (2 * e)
    BY <1>1, <2>1, <2>4
  <2> HIDE DEF k
  <2>6. 2 * e <= 3 /\ -3 <= 2 * e
    BY <2>1, <2>5, Cancelled
  <2> QED
    BY <2>1, <2>6 DEF e, Abs
<1>10. 2 * Abs(H * r.perHour - r.total) <= H + 1
  <2> DEFINE Q == H * r.perHour
             e == Q - r.total
             k == 500 * L
  <2>1. Q \in Int /\ e \in Int /\ k \in Nat \ {0}
    BY <1>1, <1>7, <1>8
  <2> HIDE DEF Q
  <2>2. L * e = L * Q - L * r.total /\ L * Q \in Int /\ L * r.total \in Int /\ L * H \in Int
    BY <1>1, <1>7, <2>1
  <2>3. 1000 * (L * Q) <= 2 * N + 500 * (L * H) /\ 2 * N - 500 * (L * H) <= 1000 * (L * Q)
    BY <1>8 DEF Q
  <2> HIDE DEF e
  <2>4. 1000 * (L * e) <= 500 * (L * H) + 500 * L /\ -500 * (L * H) - 500 * L <= 1000 * (L * e)
    BY <1>1, <1>4, <1>7, <2>2, <2>3
  <2>5. k * (2 * e) <= k * (H + 1) /\ k * (-(H + 1)) <= k * (2 * e)
    BY <1>1, <2>1, <2>4
  <2> HIDE DEF k
  <2>6. 2 * e <= H + 1 /\ -(H + 1) <= 2 * e
    <3>1. 2 * e \in Int /\ H + 1 \in Int /\ -(H + 1) \in Int
      BY <1>1, <2>1
    <3> QED
      BY <2>1, <2>5, <3>1, Cancelled
  <2> QED
    BY <1>1, <2>1, <2>6 DEF e, Q, Abs
\* In roubles.
<1> DEFINE shown == [x \in DOMAIN r |-> Roubles(r[x])]
<1>11. /\ shown.fuel = Roubles(r.fuel) /\ shown.maintenance = Roubles(r.maintenance)
       /\ shown.depreciation = Roubles(r.depreciation)
       /\ shown.operator = Roubles(r.operator)
       /\ shown.total = Roubles(r.total) /\ shown.perHour = Roubles(r.perHour)
  BY <1>3
<1> HIDE DEF shown
<1> DEFINE sf == shown.fuel
           sm == shown.maintenance
           sd == shown.depreciation
           so == shown.operator
           st == shown.total
           sh == shown.perHour
<1>12. /\ sf \in Nat /\ 200 * sf <= 2 * r.fuel + 100 /\ 2 * r.fuel - 100 < 200 * sf
       /\ sm \in Nat /\ 200 * sm <= 2 * r.maintenance + 100
       /\ 2 * r.maintenance - 100 < 200 * sm
       /\ sd \in Nat /\ 200 * sd <= 2 * r.depreciation + 100
       /\ 2 * r.depreciation - 100 < 200 * sd
       /\ so \in Nat /\ 200 * so <= 2 * r.operator + 100 /\ 2 * r.operator - 100 < 200 * so
       /\ st \in Nat /\ 200 * st <= 2 * r.total + 100 /\ 2 * r.total - 100 < 200 * st
       /\ sh \in Nat /\ 200 * sh <= 2 * r.perHour + 100 /\ 2 * r.perHour - 100 < 200 * sh
  <2> DEFINE Near(s, k) == s \in Nat /\ 200 * s <= 2 * k + 100 /\ 2 * k - 100 < 200 * s
  <2>1. ASSUME NEW k \in Nat
        PROVE  Near(Roubles(k), k)
    BY ShownAmount
  <2> HIDE DEF Near
  <2>2. Near(sf, r.fuel) /\ Near(sm, r.maintenance) /\ Near(sd, r.depreciation)
    BY <1>3, <1>5, <1>6, <1>11, <2>1
  <2>3. Near(so, r.operator) /\ Near(st, r.total) /\ Near(sh, r.perHour)
    BY <1>3, <1>7, <1>8, <1>11, <2>1
  <2> HIDE DEF sf, sm, sd, so, st, sh
  <2> QED
    BY <2>2, <2>3 DEF Near
<1> HIDE DEF sf, sm, sd, so, st, sh
<1>13. Abs(sf + sm + sd + so - st) <= 2
  <2>1. /\ 2 * (r.fuel + r.maintenance + r.depreciation + r.operator - r.total) <= 3
        /\ -3 <= 2 * (r.fuel + r.maintenance + r.depreciation + r.operator - r.total)
    BY <1>3, <1>5, <1>6, <1>7, <1>9 DEF Abs
  <2> QED
    BY <1>3, <1>5, <1>6, <1>7, <1>12, <2>1 DEF Abs
<1>14. 200 * Abs(H * sh - st) <= 101 * (H + 1)
  <2> DEFINE V == H * sh
             Q == H * r.perHour
  <2>1. /\ V \in Int /\ Q \in Int
        /\ 200 * V <= 2 * Q + 100 * H /\ 2 * Q - 100 * H <= 200 * V
    <3>1. H * (200 * sh) <= H * (2 * r.perHour + 100) /\ H * (2 * r.perHour - 100) <= H * (200 * sh)
      BY <1>1, <1>8, <1>12
    <3>2. H * (200 * sh) = 200 * V /\ V \in Int /\ Q \in Int
      BY <1>1, <1>8, <1>12
    <3>3. /\ H * (2 * r.perHour + 100) = 2 * Q + 100 * H
          /\ H * (2 * r.perHour - 100) = 2 * Q - 100 * H
      BY <1>1, <1>8
    <3> QED
      BY <3>1, <3>2, <3>3
  <2>2. 2 * Abs(Q - r.total) <= H + 1
    BY <1>10
  <2> HIDE DEF V, Q
  <2>3. 2 * (Q - r.total) <= H + 1 /\ -(H + 1) <= 2 * (Q - r.total)
    BY <1>1, <1>7, <2>1, <2>2 DEF Abs
  <2>4. 200 * Abs(V - st) <= 101 * (H + 1)
    BY <1>1, <1>7, <1>12, <2>1, <2>3 DEF Abs
  <2> QED
    BY <2>4 DEF V
<1> QED
  BY <1>9, <1>10, <1>13, <1>14
  DEF TcoAddsUp, a, r, H, shown, sf, sm, sd, so, st, sh

\* The tile's deal keeps within the terms (LeasingTerms.default_months).
LEMMA DefaultWithin ==
  ASSUME NEW t \in LeasingTerms, TermsValid(t), t.markup >= 0, NEW price \in Nat
  PROVE  LET d == DefaultDeal(t, price)
         IN d \in Deal /\ d.advance <= 100 /\ 1 <= d.months
<1> DEFINE years == Money(t.minMonths + t.maxMonths, 24)
           months == DefaultMonths(t)
<1>1. /\ t.minMonths \in Nat /\ t.maxMonths \in Nat /\ t.minAdvance \in Nat /\ t.maxAdvance \in Nat
      /\ 1 <= t.minMonths /\ t.minMonths <= t.maxMonths /\ t.minAdvance <= 100
      /\ t.markup \in Nat
  BY DEF LeasingTerms, TermsValid
<1>2. years \in Int
  <2>1. t.minMonths + t.maxMonths \in Nat /\ 24 \in Nat \ {0}
    BY <1>1
  <2> QED
    BY <2>1, Rounding
<1>3. months = CASE 12 * years < t.minMonths -> t.minMonths
                 [] 12 * years > t.maxMonths -> t.maxMonths
                 [] OTHER -> 12 * years
  BY DEF DefaultMonths
<1> HIDE DEF years, months
<1>4. months \in Nat /\ 1 <= months
  BY <1>1, <1>2, <1>3
<1> QED
  BY <1>1, <1>4 DEF DefaultDeal, Deal, months

\* The amounts a calculator counts and shows make up its totals to the rounding
\* of each of them, whatever is typed into it and whatever the terms are
\* (calculate_leasing, calculate_tco, the templates of their results).
THEOREM AmountsAddUpHolds == Spec => []AmountsAddUp
<1>1. Init => AmountsAddUp
  BY DEF Init, Nobody, AmountsAddUp
<1>2. AmountsAddUp /\ [Next]_asked => AmountsAddUp'
  <2> SUFFICES ASSUME AmountsAddUp, [Next]_asked, asked' # asked
               PROVE  AmountsAddUp'
    BY DEF AmountsAddUp
  <2>1. ASSUME NEW t \in Terms, NEW d \in Deals, CountLeasing(t, d)
        PROVE  AmountsAddUp'
    <3>1. asked'.kind = "leasing" /\ asked'.deal = d
      BY <2>1 DEF CountLeasing
    <3>2. d \in Deal /\ d.advance <= 100 /\ 1 <= d.months
      BY <2>1, AnswersAssumption DEF CountLeasing, FormAccepts, TermsValid, LeasingTerms, Deal
    <3>3. LeasingAddsUp(d)
      BY <3>2, LeasingSums
    <3> QED
      BY <3>1, <3>3 DEF AmountsAddUp
  <2>2. ASSUME NEW t \in Terms, NEW d \in Deals, ShowTile(t, d.price)
        PROVE  AmountsAddUp'
    <3> DEFINE e == DefaultDeal(t, d.price)
    <3>1. asked'.kind = "leasing" /\ asked'.deal = e
      BY <2>2 DEF ShowTile
    <3>2. t \in LeasingTerms /\ TermsValid(t) /\ t.markup >= 0 /\ d.price \in Nat
      BY <2>2, AnswersAssumption DEF ShowTile, Deal
    <3>3. e \in Deal /\ e.advance <= 100 /\ 1 <= e.months
      BY <3>2, DefaultWithin
    <3> HIDE DEF e
    <3>4. LeasingAddsUp(e)
      BY <3>3, LeasingSums
    <3> QED
      BY <3>1, <3>4 DEF AmountsAddUp
  <2>3. ASSUME NEW f \in Ownerships, CountOwnership(f)
        PROVE  AmountsAddUp'
    <3>1. asked'.kind = "ownership" /\ asked'.form = f
      BY <2>3 DEF CountOwnership
    <3>2. TcoAddsUp(f)
      BY <2>3, OwnershipSums, AnswersAssumption DEF CountOwnership
    <3> QED
      BY <3>1, <3>2 DEF AmountsAddUp
  <2>4. CASE asked'.kind \notin {"leasing", "ownership"}
    BY <2>4 DEF AmountsAddUp
  <2>5. \/ asked'.kind \notin {"leasing", "ownership"}
        \/ \E t \in Terms, d \in Deals : CountLeasing(t, d) \/ ShowTile(t, d.price)
        \/ \E f \in Ownerships : CountOwnership(f)
    BY DEF Next, Ask, Leave, Nobody, Browse, OpenLanding, ReadValue
  <2> QED
    BY <2>1, <2>2, <2>3, <2>4, <2>5
<1> QED
  BY <1>1, <1>2, PTL DEF Spec

-----------------------------------------------------------------------------
(***************************************************************************)
(* Counters.                                                               *)
(***************************************************************************)

\* A bound that is not a number leaves none, the rest is what was typed.
LEMMA FiltersParsed ==
  ASSUME NEW params \in Address
  PROVE  ParseFilters(params) \in Filters
<1> DEFINE numeric == [k \in Numbers |-> Interval(params.numeric[k])]
<1>1. params \in Asked([low : Raw \union {None}, high : Raw \union {None}])
  BY DEF Address
<1>2. \A raw : Interval(raw) \in Bounds \union {None}
  <2> SUFFICES ASSUME NEW raw PROVE Interval(raw) \in Bounds \union {None}
    OBVIOUS
  <2> DEFINE low == ToDecimal(raw.low)
             high == ToDecimal(raw.high)
  <2>1. low \in Int \union {None} /\ high \in Int \union {None}
    BY DEF ToDecimal
  <2>2. Interval(raw) = IF low = None /\ high = None THEN None ELSE [low |-> low, high |-> high]
    BY DEF Interval
  <2> HIDE DEF low, high
  <2> QED
    BY <2>1, <2>2 DEF Bounds
<1>3. numeric \in [Numbers -> Bounds \union {None}]
  BY <1>2
<1>4. ParseFilters(params) = [params EXCEPT !.numeric = numeric]
  BY DEF ParseFilters
<1> HIDE DEF numeric
<1> QED
  BY <1>1, <1>3, <1>4 DEF Asked, Filters

\* What the filters are with a dimension left out.
LEMMA WithoutOne ==
  ASSUME NEW f \in Filters, NEW k
  PROVE  LET h == WithoutSpec(f, k) IN
         /\ h.query = f.query /\ h.brands = f.brands /\ h.types = f.types
         /\ h.categories = f.categories /\ h.stock = f.stock
         /\ h.numeric = [n \in Numbers |-> IF n = k THEN None ELSE f.numeric[n]]
         /\ h.options = [n \in Lists |-> IF n = k THEN {} ELSE f.options[n]]
         /\ h.booleans = [n \in Flags |-> IF n = k THEN None ELSE f.booleans[n]]
BY DEF WithoutSpec, Filters, Asked

\* What is found among the machines of a catalogue is finite.
LEMMA FoundFinite ==
  ASSUME NEW c \in Seq(Machine), NEW f
  PROVE  IsFiniteSet(ApplyFilters(c, f))
<1>1. DOMAIN c = 1 .. Len(c) /\ Len(c) \in Nat
  OBVIOUS
<1>2. IsFiniteSet(DOMAIN c)
  BY <1>1, FS_Interval
<1>3. ApplyFilters(c, f) \subseteq DOMAIN c
  BY DEF ApplyFilters
<1> QED
  BY <1>2, <1>3, FS_Subset

\* Where a choice finds those it is counted for and, unless it is alone, those
\* the others find, which are different ones, it adds what its counter says.
LEMMA Added ==
  ASSUME NEW c \in Seq(Machine), NEW with, NEW without, NEW scope, NEW others,
         NEW counted, counted \subseteq ApplyFilters(c, scope),
         others = {} => ApplyFilters(c, with) = counted,
         others # {} => /\ ApplyFilters(c, with) = counted \union ApplyFilters(c, without)
                        /\ counted \intersect ApplyFilters(c, without) = {}
  PROVE  Adds(c, Cardinality(counted), with, without, others)
<1> DEFINE W == ApplyFilters(c, without)
<1>1. IsFiniteSet(counted) /\ IsFiniteSet(W)
  BY FoundFinite, FS_Subset
<1>2. Cardinality(counted) \in Nat /\ Cardinality(W) \in Nat
  BY <1>1, FS_CardinalityType
<1>3. CASE others = {}
  BY <1>2, <1>3 DEF Adds
<1>4. CASE others # {}
  <2>1. counted \intersect W = {}
    BY <1>4
  <2>2. Cardinality(counted \union W)
          = Cardinality(counted) + Cardinality(W) - Cardinality(counted \intersect W)
    BY <1>1, FS_Union
  <2>3. Cardinality(counted \intersect W) = 0
    BY <2>1, FS_EmptySet
  <2>4. ApplyFilters(c, with) = counted \union W
    BY <1>4
  <2> QED
    BY <1>2, <1>4, <2>2, <2>3, <2>4 DEF Adds
<1> QED
  BY <1>3, <1>4

\* The machines counted beside a brand are those it adds, ...
LEMMA BrandHonest ==
  ASSUME NEW c \in Seq(Machine), NEW f \in Filters, NEW b \in DOMAIN BrandFacet(c, f)
  PROVE  Adds(c, BrandFacet(c, f)[b], [f EXCEPT !.brands = @ \union {b}],
              [f EXCEPT !.brands = @ \ {b}], f.brands \ {b})
<1> DEFINE g == [f EXCEPT !.brands = @ \union {b}]
           w == [f EXCEPT !.brands = @ \ {b}]
           h == WithoutBrands(f)
           counted == {m \in ApplyFilters(c, h) : c[m].brand = b}
<1>1. /\ g.query = f.query /\ g.types = f.types /\ g.categories = f.categories
      /\ g.stock = f.stock /\ g.numeric = f.numeric /\ g.options = f.options
      /\ g.booleans = f.booleans /\ g.brands = f.brands \union {b}
  BY DEF Filters, Asked
<1>2. /\ w.query = f.query /\ w.types = f.types /\ w.categories = f.categories
      /\ w.stock = f.stock /\ w.numeric = f.numeric /\ w.options = f.options
      /\ w.booleans = f.booleans /\ w.brands = f.brands \ {b}
  BY DEF Filters, Asked
<1>3. /\ h.query = f.query /\ h.types = f.types /\ h.categories = f.categories
      /\ h.stock = f.stock /\ h.numeric = f.numeric /\ h.options = f.options
      /\ h.booleans = f.booleans /\ h.brands = {}
  BY DEF WithoutBrands, Filters, Asked
<1>4. BrandFacet(c, f)[b] = Cardinality(counted)
  BY DEF BrandFacet
<1> HIDE DEF g, w, h
<1>5. \A x : Matches(x, g) <=> Matches(x, h) /\ x.brand \in f.brands \union {b}
  BY <1>1, <1>3 DEF Matches
<1>6. ASSUME f.brands \ {b} # {}
      PROVE  \A x : Matches(x, w) <=> Matches(x, h) /\ x.brand \in f.brands \ {b}
  BY <1>2, <1>3, <1>6 DEF Matches
<1>7. f.brands \ {b} = {} => ApplyFilters(c, g) = counted
  BY <1>5 DEF ApplyFilters
<1>8. ASSUME f.brands \ {b} # {}
      PROVE  /\ ApplyFilters(c, g) = counted \union ApplyFilters(c, w)
             /\ counted \intersect ApplyFilters(c, w) = {}
  BY <1>5, <1>6, <1>8 DEF ApplyFilters
<1>9. counted \subseteq ApplyFilters(c, h)
  OBVIOUS
<1> HIDE DEF counted
<1>10. Adds(c, Cardinality(counted), g, w, f.brands \ {b})
  BY <1>7, <1>8, <1>9, Added
<1> QED
  BY <1>4, <1>10 DEF g, w

\* ... beside a type, ...
LEMMA TypeHonest ==
  ASSUME NEW c \in Seq(Machine), NEW f \in Filters, NEW t \in DOMAIN TypeFacet(c, f)
  PROVE  Adds(c, TypeFacet(c, f)[t], [f EXCEPT !.types = @ \union {t}],
              [f EXCEPT !.types = @ \ {t}], f.types \ {t})
<1> DEFINE g == [f EXCEPT !.types = @ \union {t}]
           w == [f EXCEPT !.types = @ \ {t}]
           h == WithoutTypes(f)
           counted == {m \in ApplyFilters(c, h) : c[m].type = t}
<1>1. /\ g.query = f.query /\ g.brands = f.brands /\ g.categories = f.categories
      /\ g.stock = f.stock /\ g.numeric = f.numeric /\ g.options = f.options
      /\ g.booleans = f.booleans /\ g.types = f.types \union {t}
  BY DEF Filters, Asked
<1>2. /\ w.query = f.query /\ w.brands = f.brands /\ w.categories = f.categories
      /\ w.stock = f.stock /\ w.numeric = f.numeric /\ w.options = f.options
      /\ w.booleans = f.booleans /\ w.types = f.types \ {t}
  BY DEF Filters, Asked
<1>3. /\ h.query = f.query /\ h.brands = f.brands /\ h.categories = f.categories
      /\ h.stock = f.stock /\ h.numeric = f.numeric /\ h.options = f.options
      /\ h.booleans = f.booleans /\ h.types = {}
  BY DEF WithoutTypes, Filters, Asked
<1>4. TypeFacet(c, f)[t] = Cardinality(counted)
  BY DEF TypeFacet
<1> HIDE DEF g, w, h
<1>5. \A x : Matches(x, g) <=> Matches(x, h) /\ x.type \in f.types \union {t}
  BY <1>1, <1>3 DEF Matches
<1>6. ASSUME f.types \ {t} # {}
      PROVE  \A x : Matches(x, w) <=> Matches(x, h) /\ x.type \in f.types \ {t}
  BY <1>2, <1>3, <1>6 DEF Matches
<1>7. f.types \ {t} = {} => ApplyFilters(c, g) = counted
  BY <1>5 DEF ApplyFilters
<1>8. ASSUME f.types \ {t} # {}
      PROVE  /\ ApplyFilters(c, g) = counted \union ApplyFilters(c, w)
             /\ counted \intersect ApplyFilters(c, w) = {}
  BY <1>5, <1>6, <1>8 DEF ApplyFilters
<1>9. counted \subseteq ApplyFilters(c, h)
  OBVIOUS
<1> HIDE DEF counted
<1>10. Adds(c, Cardinality(counted), g, w, f.types \ {t})
  BY <1>7, <1>8, <1>9, Added
<1> QED
  BY <1>4, <1>10 DEF g, w

\* ... beside an option of a list ...
LEMMA OptionHonest ==
  ASSUME NEW c \in Seq(Machine), NEW f \in Filters, NEW k \in Lists,
         NEW o \in DOMAIN OptionFacet(c, f, k)
  PROVE  Adds(c, OptionFacet(c, f, k)[o], [f EXCEPT !.options[k] = @ \union {o}],
              [f EXCEPT !.options[k] = @ \ {o}], f.options[k] \ {o})
<1> DEFINE g == [f EXCEPT !.options[k] = @ \union {o}]
           w == [f EXCEPT !.options[k] = @ \ {o}]
           h == WithoutSpec(f, k)
           counted == {m \in ApplyFilters(c, h) : c[m].option[k] = o}
           rest == f.options[k] \ {o}
<1>1. /\ g.query = f.query /\ g.brands = f.brands /\ g.types = f.types
      /\ g.categories = f.categories /\ g.stock = f.stock
      /\ g.numeric = f.numeric /\ g.booleans = f.booleans
      /\ \A n \in Lists : g.options[n] = IF n = k THEN f.options[k] \union {o} ELSE f.options[n]
  BY DEF Filters, Asked
<1>2. /\ w.query = f.query /\ w.brands = f.brands /\ w.types = f.types
      /\ w.categories = f.categories /\ w.stock = f.stock
      /\ w.numeric = f.numeric /\ w.booleans = f.booleans
      /\ \A n \in Lists : w.options[n] = IF n = k THEN rest ELSE f.options[n]
  BY DEF Filters, Asked
<1>3. /\ h.query = f.query /\ h.brands = f.brands /\ h.types = f.types
      /\ h.categories = f.categories /\ h.stock = f.stock
      /\ \A n \in Numbers : h.numeric[n] = f.numeric[n]
      /\ \A n \in Lists : h.options[n] = IF n = k THEN {} ELSE f.options[n]
      /\ \A n \in Flags : h.booleans[n] = f.booleans[n]
  <2>1. k \notin Numbers /\ k \notin Flags
    BY SearchAssumption
  <2>2. /\ h.query = f.query /\ h.brands = f.brands /\ h.types = f.types
        /\ h.categories = f.categories /\ h.stock = f.stock
        /\ h.numeric = [n \in Numbers |-> IF n = k THEN None ELSE f.numeric[n]]
        /\ h.options = [n \in Lists |-> IF n = k THEN {} ELSE f.options[n]]
        /\ h.booleans = [n \in Flags |-> IF n = k THEN None ELSE f.booleans[n]]
    BY WithoutOne
  <2> HIDE DEF h
  <2> QED
    BY <2>1, <2>2
<1>4. OptionFacet(c, f, k)[o] = Cardinality(counted)
  BY DEF OptionFacet
<1> HIDE DEF g, w, h, rest
<1>5. \A x : Matches(x, g) <=> Matches(x, h) /\ x.option[k] \in f.options[k] \union {o}
  BY <1>1, <1>3 DEF Matches
<1>6. ASSUME rest # {}
      PROVE  \A x : Matches(x, w) <=> Matches(x, h) /\ x.option[k] \in rest
  BY <1>2, <1>3, <1>6 DEF Matches
<1>7. rest = {} => ApplyFilters(c, g) = counted
  BY <1>5 DEF ApplyFilters, rest
<1>8. ASSUME rest # {}
      PROVE  /\ ApplyFilters(c, g) = counted \union ApplyFilters(c, w)
             /\ counted \intersect ApplyFilters(c, w) = {}
  <2>1. f.options[k] \union {o} = rest \union {o} /\ o \notin rest
    BY DEF rest
  <2> QED
    BY <1>5, <1>6, <1>8, <2>1 DEF ApplyFilters
<1>9. counted \subseteq ApplyFilters(c, h)
  OBVIOUS
<1> HIDE DEF counted
<1>10. Adds(c, Cardinality(counted), g, w, rest)
  BY <1>7, <1>8, <1>9, Added
<1> QED
  BY <1>4, <1>10 DEF g, w, rest

\* ... and beside a flag.
LEMMA FlagHonest ==
  ASSUME NEW c, NEW f \in Filters, NEW k \in Flags
  PROVE  FlagFacet(c, f, k) = Cardinality(ApplyFilters(c, [f EXCEPT !.booleans[k] = TRUE]))
<1> DEFINE yes == TRUE
           g == [f EXCEPT !.booleans[k] = yes]
           h == WithoutSpec(f, k)
<1>1. /\ g.query = f.query /\ g.brands = f.brands /\ g.types = f.types /\ g.stock = f.stock
      /\ g.categories = f.categories
      /\ g.numeric = f.numeric /\ g.options = f.options
      /\ \A n \in Flags : n # k => g.booleans[n] = f.booleans[n]
      /\ g.booleans[k] = yes /\ None # yes
  BY SearchAssumption DEF Filters, Asked
<1>2. /\ h.query = f.query /\ h.brands = f.brands /\ h.types = f.types /\ h.stock = f.stock
      /\ h.categories = f.categories
      /\ \A n \in Numbers : h.numeric[n] = f.numeric[n]
      /\ \A n \in Lists : h.options[n] = f.options[n]
      /\ \A n \in Flags : n # k => h.booleans[n] = f.booleans[n]
      /\ h.booleans[k] = None
  <2>1. k \notin Numbers /\ k \notin Lists
    BY SearchAssumption
  <2>2. /\ h.query = f.query /\ h.brands = f.brands /\ h.types = f.types /\ h.stock = f.stock
      /\ h.categories = f.categories
        /\ h.numeric = [n \in Numbers |-> IF n = k THEN None ELSE f.numeric[n]]
        /\ h.options = [n \in Lists |-> IF n = k THEN {} ELSE f.options[n]]
        /\ h.booleans = [n \in Flags |-> IF n = k THEN None ELSE f.booleans[n]]
    BY WithoutOne
  <2> HIDE DEF h
  <2> QED
    BY <2>1, <2>2
<1>3. FlagFacet(c, f, k) = Cardinality({m \in ApplyFilters(c, h) : c[m].flag[k] = yes})
  BY DEF FlagFacet
<1> HIDE DEF g, h, yes
<1>4. \A x : Matches(x, g) <=> Matches(x, h) /\ x.flag[k] = yes
  BY <1>1, <1>2 DEF Matches
<1>5. {m \in ApplyFilters(c, h) : c[m].flag[k] = yes} = ApplyFilters(c, g)
  BY <1>4 DEF ApplyFilters
<1> QED
  BY <1>3, <1>5 DEF g, yes

\* A set of numbers that is not empty has a least one.
LEMMA LeastNatural ==
  ASSUME NEW T, T \subseteq Nat, T # {}
  PROVE  \E x \in T : \A y \in T : x <= y
<1> DEFINE R == OpToRel(<, Nat)
<1>1. IsWellFoundedOn(R, Nat)
  BY NatLessThanWellFounded
<1> HIDE DEF R
<1>2. PICK x \in T : \A y \in T : ~(<<y, x>> \in R)
  BY <1>1, WFMin
<1>3. \A m, n \in Nat : m < n => <<m, n>> \in R
  BY DEF R, OpToRel
<1>4. ASSUME NEW y \in T PROVE x <= y
  <2>1. x \in Nat /\ y \in Nat
    OBVIOUS
  <2>2. ~(y < x)
    BY <1>2, <1>3, <2>1
  <2> QED
    BY <2>1, <2>2
<1> QED
  BY <1>4

\* Induction up to a bound, the property as the set of numbers that have it.
LEMMA UpTo ==
  ASSUME NEW N \in Nat, NEW S, 0 \in S, \A n \in 1 .. N : n - 1 \in S => n \in S
  PROVE  0 .. N \subseteq S
<1> DEFINE T == {n \in 0 .. N : n \notin S}
<1>1. SUFFICES ASSUME T # {} PROVE FALSE
  OBVIOUS
<1>2. PICK x \in T : \A y \in T : x <= y
  <2>1. T \subseteq Nat
    OBVIOUS
  <2> HIDE DEF T
  <2> QED
    BY <1>1, <2>1, LeastNatural
<1>3. x \in 1 .. N /\ x - 1 \in 0 .. N /\ ~(x <= x - 1)
  BY <1>2
<1> QED
  BY <1>2, <1>3


\* Numbers, finitely many, have a least and a greatest.
LEMMA Ends ==
  ASSUME NEW T, IsFiniteSet(T), T \subseteq Int, T # {}
  PROVE  (\E x \in T : \A y \in T : x <= y) /\ (\E x \in T : \A y \in T : x >= y)
<1> DEFINE N == Cardinality(T)
           Ended(U) == (\E x \in U : \A y \in U : x <= y) /\ (\E x \in U : \A y \in U : x >= y)
           S == {n \in 0 .. N : \A U \in SUBSET T : Cardinality(U) = n /\ U # {} => Ended(U)}
<1>1. N \in Nat
  BY FS_CardinalityType
<1> HIDE DEF N
<1>2. 0 \in S
  <2>1. ASSUME NEW U \in SUBSET T, Cardinality(U) = 0 PROVE U = {}
    BY <2>1, FS_Subset, FS_EmptySet
  <2>2. 0 \in 0 .. N
    BY <1>1
  <2> HIDE DEF Ended
  <2> QED
    BY <2>1, <2>2
<1>3. ASSUME NEW n \in 1 .. N, n - 1 \in S PROVE n \in S
  <2>1. ASSUME NEW U \in SUBSET T, Cardinality(U) = n, U # {} PROVE Ended(U)
    <3>1. PICK e \in U : TRUE
      BY <2>1
    <3> DEFINE W == U \ {e}
    <3>2. IsFiniteSet(U)
      BY FS_Subset
    <3>3. Cardinality(W) = n - 1
      BY <2>1, <3>1, <3>2, FS_RemoveElement
    <3>4. CASE W = {}
      <4>1. U = {e}
        BY <3>1, <3>4
      <4> QED
        BY <4>1
    <3>5. CASE W # {}
      <4>1. W \in SUBSET T /\ e \in Int /\ \A y \in U : y \in W \/ y = e
        BY <3>1
      <4>2. Ended(W)
        BY <1>3, <3>3, <3>5, <4>1
      <4> HIDE DEF W
      <4>3. PICK x \in W : \A y \in W : x <= y
        BY <4>2
      <4>4. PICK z \in W : \A y \in W : z >= y
        BY <4>2
      <4>5. x \in Int /\ z \in Int /\ x \in U /\ z \in U /\ \A y \in W : y \in Int
        BY <4>1 DEF W
      <4>6. \E v \in U : \A y \in U : v <= y
        <5>1. CASE x <= e
          BY <4>1, <4>3, <4>5, <5>1
        <5>2. CASE e <= x
          BY <3>1, <4>1, <4>3, <4>5, <5>2
        <5> QED
          BY <4>1, <4>5, <5>1, <5>2
      <4>7. \E v \in U : \A y \in U : v >= y
        <5>1. CASE z >= e
          BY <4>1, <4>4, <4>5, <5>1
        <5>2. CASE e >= z
          BY <3>1, <4>1, <4>4, <4>5, <5>2
        <5> QED
          BY <4>1, <4>5, <5>1, <5>2
      <4> QED
        BY <4>6, <4>7
    <3> QED
      BY <3>4, <3>5
  <2>2. n \in 0 .. N
    BY <1>1
  <2> HIDE DEF Ended
  <2> QED
    BY <2>1, <2>2
<1>4. N \in S
  <2> HIDE DEF S
  <2>1. 0 .. N \subseteq S
    BY <1>1, <1>2, <1>3, UpTo
  <2> QED
    BY <1>1, <2>1
<1>5. T \in SUBSET T /\ Cardinality(T) = N
  BY DEF N
<1> QED
  BY <1>4, <1>5

\* The least and the greatest are what Min and Max find.
LEMMA MinMax ==
  ASSUME NEW T, IsFiniteSet(T), T \subseteq Int, T # {}
  PROVE  /\ Min(T) \in T /\ Max(T) \in T
         /\ \A y \in T : Min(T) <= y /\ y <= Max(T)
<1>1. Min(T) \in T /\ \A y \in T : Min(T) <= y
  BY Ends DEF Min
<1>2. Max(T) \in T /\ \A y \in T : Max(T) >= y
  BY Ends DEF Max
<1> QED
  BY <1>1, <1>2

\* What a function makes of finitely many things are finitely many.
LEMMA ImageFinite ==
  ASSUME NEW S, IsFiniteSet(S), NEW f
  PROVE  IsFiniteSet({f[x] : x \in S})
<1> DEFINE T == {f[x] : x \in S}
           g == [x \in S |-> f[x]]
<1>1. g \in Surjection(S, T)
  BY DEF Surjection
<1> HIDE DEF g, T
<1>2. IsFiniteSet(T)
  BY <1>1, FS_Surjection
<1> QED
  BY <1>2 DEF T

\* The full scale of a number leaves the machines that have it, and an
\* interval of a machine overlaps the scale if it is one of those it spans.
LEMMA NumberHonest ==
  ASSUME NEW c \in Seq(Machine), NEW f \in Filters, NEW k \in Numbers
  PROVE  ApplyFilters(c, [f EXCEPT !.numeric[k] = NumberFacet(c, f, k)])
           = {m \in ApplyFilters(c, [f EXCEPT !.numeric[k] = None]) :
                NumberFacet(c, f, k) # None => c[m].number[k] # None}
<1> DEFINE F == NumberFacet(c, f, k)
           g == [f EXCEPT !.numeric[k] = F]
           e == [f EXCEPT !.numeric[k] = None]
           h == WithoutSpec(f, k)
           scope == ApplyFilters(c, h)
           of == [m \in scope |-> c[m].number[k]]
           values == {c[m].number[k] : m \in scope} \ {None}
           lows == {v.num : v \in values}
           highs == {EffectiveMax(v) : v \in values}
<1>1. /\ g.query = f.query /\ g.brands = f.brands /\ g.types = f.types /\ g.stock = f.stock
      /\ g.categories = f.categories
      /\ g.options = f.options /\ g.booleans = f.booleans
      /\ \A n \in Numbers : n # k => g.numeric[n] = f.numeric[n]
      /\ g.numeric[k] = F
  BY DEF Filters, Asked
<1>2. /\ e.query = f.query /\ e.brands = f.brands /\ e.types = f.types /\ e.stock = f.stock
      /\ e.categories = f.categories
      /\ e.options = f.options /\ e.booleans = f.booleans
      /\ \A n \in Numbers : n # k => e.numeric[n] = f.numeric[n]
      /\ e.numeric[k] = None
  BY DEF Filters, Asked
<1>3. /\ h.query = f.query /\ h.brands = f.brands /\ h.types = f.types /\ h.stock = f.stock
      /\ h.categories = f.categories
      /\ \A n \in Lists : h.options[n] = f.options[n]
      /\ \A n \in Flags : h.booleans[n] = f.booleans[n]
      /\ \A n \in Numbers : n # k => h.numeric[n] = f.numeric[n]
      /\ h.numeric[k] = None
  <2>1. k \notin Lists /\ k \notin Flags
    BY SearchAssumption
  <2>2. /\ h.query = f.query /\ h.brands = f.brands /\ h.types = f.types /\ h.stock = f.stock
      /\ h.categories = f.categories
        /\ h.numeric = [n \in Numbers |-> IF n = k THEN None ELSE f.numeric[n]]
        /\ h.options = [n \in Lists |-> IF n = k THEN {} ELSE f.options[n]]
        /\ h.booleans = [n \in Flags |-> IF n = k THEN None ELSE f.booleans[n]]
    BY WithoutOne
  <2> HIDE DEF h
  <2> QED
    BY <2>1, <2>2
<1>4. F = IF values = {} THEN None ELSE [low |-> Min(lows), high |-> Max(highs)]
  BY DEF NumberFacet
<1>5. IsFiniteSet(scope) /\ scope \subseteq DOMAIN c
  <2>1. DOMAIN c = 1 .. Len(c) /\ Len(c) \in Nat
    OBVIOUS
  <2>2. IsFiniteSet(DOMAIN c)
    BY <2>1, FS_Interval
  <2>3. scope \subseteq DOMAIN c
    BY DEF ApplyFilters
  <2> HIDE DEF scope
  <2> QED
    BY <2>2, <2>3, FS_Subset
<1>6. \A m \in DOMAIN c : c[m].number[k] \in Value \union {None}
  <2>1. \A m \in DOMAIN c : c[m] \in Machine
    OBVIOUS
  <2> QED
    BY <2>1 DEF Machine
<1> HIDE DEF g, e, h, F, scope
<1>7. IsFiniteSet(values) /\ values \subseteq Value
  <2>1. values = {of[m] : m \in scope} \ {None}
    OBVIOUS
  <2>2. IsFiniteSet({of[m] : m \in scope})
    <3> HIDE DEF of
    <3> QED
      BY <1>5, ImageFinite
  <2>3. values \subseteq Value
    BY <1>5, <1>6
  <2> HIDE DEF values, of
  <2> QED
    BY <2>1, <2>2, <2>3, FS_RemoveElement
<1>8. ASSUME NEW v \in Value
      PROVE  v.num \in Int /\ EffectiveMax(v) \in Int /\ v.num <= EffectiveMax(v)
  BY DEF Value, EffectiveMax
<1>9. \A m \in scope : c[m].number[k] # None => c[m].number[k] \in values
  OBVIOUS
<1> HIDE DEF values
<1>10. ASSUME values # {}
       PROVE  /\ F = [low |-> Min(lows), high |-> Max(highs)] /\ F # None
              /\ Min(lows) # None /\ Max(highs) # None
              /\ \A v \in values : Min(lows) <= v.num /\ EffectiveMax(v) <= Max(highs)
              /\ Min(lows) \in Int /\ Max(highs) \in Int
  <2> DEFINE num == [v \in values |-> v.num]
             top == [v \in values |-> EffectiveMax(v)]
  <2>1. lows = {num[v] : v \in values} /\ highs = {top[v] : v \in values}
    OBVIOUS
  <2>2. IsFiniteSet({num[v] : v \in values}) /\ IsFiniteSet({top[v] : v \in values})
    <3> HIDE DEF num, top
    <3> QED
      BY <1>7, ImageFinite
  <2>3. lows \subseteq Int /\ highs \subseteq Int /\ lows # {} /\ highs # {}
    BY <1>7, <1>8, <1>10
  <2>4. \A v \in values : v.num \in lows /\ EffectiveMax(v) \in highs
    OBVIOUS
  <2> HIDE DEF lows, highs, num, top
  <2>5. IsFiniteSet(lows) /\ IsFiniteSet(highs)
    BY <2>1, <2>2
  <2>6. Min(lows) \in Int /\ \A y \in lows : Min(lows) <= y
    BY <2>3, <2>5, MinMax
  <2>7. Max(highs) \in Int /\ \A y \in highs : y <= Max(highs)
    BY <2>3, <2>5, MinMax
  <2>8. F = [low |-> Min(lows), high |-> Max(highs)]
    BY <1>4, <1>10
  <2>9. F \in Bounds
    BY <2>6, <2>7, <2>8 DEF Bounds
  <2> QED
    BY <2>4, <2>6, <2>7, <2>8, <2>9, SearchAssumption
<1> HIDE DEF lows, highs
<1>11. \A x : Matches(x, e) <=> Matches(x, h)
  BY <1>2, <1>3 DEF Matches
<1>12. \A x : Matches(x, g) <=> Matches(x, e) /\ (F # None => Within(x.number[k], F))
  BY <1>1, <1>2 DEF Matches
<1>13. ASSUME NEW m \in scope, F # None
       PROVE  Within(c[m].number[k], F) <=> c[m].number[k] # None
  <2>1. values # {}
    BY <1>4, <1>13
  <2>2. ASSUME c[m].number[k] # None PROVE Within(c[m].number[k], F)
    <3> DEFINE v == c[m].number[k]
    <3>1. v \in values /\ v \in Value
      BY <1>7, <1>9, <2>2
    <3> HIDE DEF v
    <3>2. /\ v.num \in Int /\ EffectiveMax(v) \in Int /\ v.num <= EffectiveMax(v)
          /\ F.low <= v.num /\ EffectiveMax(v) <= F.high /\ F.low \in Int /\ F.high \in Int
      BY <1>8, <1>10, <2>1, <3>1
    <3>3. v # None
      BY <3>1, SearchAssumption
    <3>4. Within(v, F)
      BY <3>2, <3>3 DEF Within
    <3> QED
      BY <3>4 DEF v
  <2> QED
    BY <2>2 DEF Within
<1>14. scope = ApplyFilters(c, e)
  BY <1>11 DEF scope, ApplyFilters
<1>15. ApplyFilters(c, g) = {m \in ApplyFilters(c, e) : F # None => Within(c[m].number[k], F)}
  BY <1>12 DEF ApplyFilters
<1>16. ApplyFilters(c, g) = {m \in ApplyFilters(c, e) : F # None => c[m].number[k] # None}
  BY <1>13, <1>14, <1>15
<1> QED
  BY <1>16 DEF g, e, F

\* All counters of a page together.
LEMMA AllHonest ==
  ASSUME NEW c \in Seq(Machine), NEW f \in Filters
  PROVE  Honest(c, f)
<1>1. \A b \in DOMAIN BrandFacet(c, f) :
        Adds(c, BrandFacet(c, f)[b], [f EXCEPT !.brands = @ \union {b}],
             [f EXCEPT !.brands = @ \ {b}], f.brands \ {b})
  BY BrandHonest
<1>2. \A t \in DOMAIN TypeFacet(c, f) :
        Adds(c, TypeFacet(c, f)[t], [f EXCEPT !.types = @ \union {t}],
             [f EXCEPT !.types = @ \ {t}], f.types \ {t})
  BY TypeHonest
<1>3. \A k \in Lists : \A o \in DOMAIN OptionFacet(c, f, k) :
        Adds(c, OptionFacet(c, f, k)[o], [f EXCEPT !.options[k] = @ \union {o}],
             [f EXCEPT !.options[k] = @ \ {o}], f.options[k] \ {o})
  BY OptionHonest
<1>4. \A k \in Flags :
        FlagFacet(c, f, k) = Cardinality(ApplyFilters(c, [f EXCEPT !.booleans[k] = TRUE]))
  BY FlagHonest
<1>5. \A k \in Numbers :
        ApplyFilters(c, [f EXCEPT !.numeric[k] = NumberFacet(c, f, k)])
          = {m \in ApplyFilters(c, [f EXCEPT !.numeric[k] = None]) :
               NumberFacet(c, f, k) # None => c[m].number[k] # None}
  BY NumberHonest
<1> QED
  BY <1>1, <1>2, <1>3, <1>4, <1>5, Zenon DEF Honest

\* A choice ticked on a page of the catalogue adds exactly the machines its
\* counter says to those the ticked ones of its dimension find, and alone finds
\* just these; a flag finds what its counter says, the scale of a number all
\* that have it (build_facets, apply_filters), for any catalogue and filters.
THEOREM CountsKeptHolds == Spec => []CountsKept
<1>1. Init => CountsKept
  BY DEF Init, Nobody, CountsKept
<1>2. CountsKept /\ [Next]_asked => CountsKept'
  <2> SUFFICES ASSUME CountsKept, [Next]_asked, asked'.kind = "catalogue", asked' # asked
               PROVE  Honest(asked'.catalogue, asked'.filters)
    BY DEF CountsKept
  <2>1. PICK c \in Catalogues, p \in Addresses : Browse(c, p)
    BY DEF Next, Ask, Leave, Nobody, OpenLanding, ReadValue, CountLeasing, ShowTile, CountOwnership
  <2>2. c \in Seq(Machine) /\ ParseFilters(p) \in Filters
    BY AnswersAssumption, FiltersParsed
  <2>3. Honest(c, ParseFilters(p))
    BY <2>2, AllHonest
  <2> QED
    BY <2>1, <2>3 DEF Browse
<1> QED
  BY <1>1, <1>2, PTL DEF Spec

-----------------------------------------------------------------------------
(***************************************************************************)
(* Landings.                                                               *)
(***************************************************************************)

\* One or none of a brand or a type: what a landing asks for, in numbers.
LEMMA ChoiceCounted ==
  ASSUME NEW S, IsFiniteSet(S), NEW x,
         NEW mine, mine = IF x = None THEN S ELSE {x},
         NEW bare, bare = IF x = None THEN {} ELSE {x}
  PROVE  /\ Cardinality(mine) \in Nat /\ Asks(x) <= Cardinality(mine)
         /\ Cardinality(mine) = Asks(x) <=> mine = bare
<1>1. CASE x = None
  BY <1>1, FS_EmptySet, FS_CardinalityType DEF Asks
<1>2. CASE x # None
  <2>1. Cardinality({x}) = 1
    BY FS_Singleton
  <2> QED
    BY <1>2, <2>1 DEF Asks
<1> QED
  BY <1>1, <1>2

\* Every condition of the landing is one of the page's, and the visitor's
\* come on top: none did just when there are no more than the landing's.
LEMMA LandingShown ==
  ASSUME NEW l \in Selection, NEW P \in Filters
  PROVE  ShownAsItself(l, LandingFilters(l, P))
<1> DEFINE f == LandingFilters(l, P)
           g == LandingFilters(l, NoFilters)
           fn == {k \in Numbers : f.numeric[k] # None}
           ln == {k \in Numbers : l.bounds[k] # None}
           ff == {k \in Flags : f.booleans[k] # None}
           fo == {o \in Lists \X Options : o[2] \in f.options[o[1]]}
           b == Asks(l.brand)
           t == Asks(l.type)
           q == Asks(l.category)
<1>1. P \in Filters /\ l \in Selection
  OBVIOUS
<1>2. NoFilters \in Filters
  BY DEF NoFilters, Filters, Asked
<1>3. /\ f.query = P.query /\ f.stock = P.stock /\ f.options = P.options /\ f.booleans = P.booleans
      /\ f.brands = IF l.brand = None THEN P.brands ELSE {l.brand}
      /\ f.types = IF l.type = None THEN P.types ELSE {l.type}
      /\ f.categories = IF l.category = None THEN P.categories ELSE {l.category}
      /\ f.numeric = [k \in Numbers |-> IF l.bounds[k] = None THEN P.numeric[k] ELSE l.bounds[k]]
  BY <1>1 DEF LandingFilters, Filters, Asked
<1>4. /\ g.query = None /\ g.stock = FALSE /\ g.options = [k \in Lists |-> {}]
      /\ g.booleans = [k \in Flags |-> None]
      /\ g.brands = IF l.brand = None THEN {} ELSE {l.brand}
      /\ g.types = IF l.type = None THEN {} ELSE {l.type}
      /\ g.categories = IF l.category = None THEN {} ELSE {l.category}
      /\ g.numeric = [k \in Numbers |-> IF l.bounds[k] = None THEN None ELSE l.bounds[k]]
  BY <1>1 DEF LandingFilters, NoFilters
<1>5. f \in Filters /\ g \in Filters
  <2>1. ASSUME NEW h \in Filters PROVE LandingFilters(l, h) \in Filters
    <3> DEFINE brands == IF l.brand = None THEN h.brands ELSE {l.brand}
               types == IF l.type = None THEN h.types ELSE {l.type}
               categories == IF l.category = None THEN h.categories ELSE {l.category}
               numeric == [k \in Numbers |-> IF l.bounds[k] = None THEN h.numeric[k] ELSE l.bounds[k]]
    <3>1. brands \in SUBSET Brands /\ types \in SUBSET Types /\ categories \in SUBSET Categories
      BY <1>1 DEF Filters, Asked, Selection
    <3>2. numeric \in [Numbers -> Bounds \union {None}]
      BY <1>1 DEF Filters, Asked, Selection, Condition
    <3>3. LandingFilters(l, h) = [h EXCEPT !.brands = brands, !.types = types,
                                               !.categories = categories, !.numeric = numeric]
      BY DEF LandingFilters, Filters, Asked
    <3> HIDE DEF brands, types, categories, numeric
    <3> QED
      BY <3>1, <3>2, <3>3 DEF Filters, Asked
  <2> QED
    BY <1>1, <1>2, <2>1
<1> HIDE DEF f, g
<1>6. f = g <=> /\ f.query = None /\ ~f.stock /\ f.brands = g.brands /\ f.types = g.types
                /\ f.categories = g.categories /\ f.numeric = g.numeric
                /\ f.options = g.options /\ f.booleans = g.booleans
  <2>1. f.stock \in BOOLEAN
    BY <1>5 DEF Filters, Asked
  <2>2. ASSUME f.query = g.query, f.stock = g.stock, f.brands = g.brands, f.types = g.types,
               f.categories = g.categories, f.numeric = g.numeric, f.options = g.options,
               f.booleans = g.booleans
        PROVE  f = g
    BY <1>5, <2>2 DEF Filters, Asked
  <2> QED
    BY <1>4, <2>1, <2>2
<1> DEFINE nb == Cardinality(f.brands)
           nt == Cardinality(f.types)
           nq == Cardinality(f.categories)
           brands == f.brands = g.brands
           types == f.types = g.types
           categories == f.categories = g.categories
<1>7. nb \in Nat /\ b <= nb /\ (nb = b <=> brands)
  <2> DEFINE x == l.brand
             S == P.brands
             mine == f.brands
             bare == g.brands
  <2>1. IsFiniteSet(S)
    BY <1>1, SearchAssumption, FS_Subset DEF Filters, Asked
  <2>2. mine = (IF x = None THEN S ELSE {x}) /\ bare = (IF x = None THEN {} ELSE {x})
    BY <1>3, <1>4
  <2> HIDE DEF x, S, mine, bare
  <2>3. /\ Cardinality(mine) \in Nat /\ Asks(x) <= Cardinality(mine)
        /\ Cardinality(mine) = Asks(x) <=> mine = bare
    BY <2>1, <2>2, ChoiceCounted
  <2> QED
    BY <2>3 DEF x, mine, bare
<1>8. nt \in Nat /\ t <= nt /\ (nt = t <=> types)
  <2> DEFINE x == l.type
             S == P.types
             mine == f.types
             bare == g.types
  <2>1. IsFiniteSet(S)
    BY <1>1, SearchAssumption, FS_Subset DEF Filters, Asked
  <2>2. mine = (IF x = None THEN S ELSE {x}) /\ bare = (IF x = None THEN {} ELSE {x})
    BY <1>3, <1>4
  <2> HIDE DEF x, S, mine, bare
  <2>3. /\ Cardinality(mine) \in Nat /\ Asks(x) <= Cardinality(mine)
        /\ Cardinality(mine) = Asks(x) <=> mine = bare
    BY <2>1, <2>2, ChoiceCounted
  <2> QED
    BY <2>3 DEF x, mine, bare
<1>9. nq \in Nat /\ q <= nq /\ (nq = q <=> categories)
  <2> DEFINE x == l.category
             S == P.categories
             mine == f.categories
             bare == g.categories
  <2>1. IsFiniteSet(S)
    BY <1>1, SearchAssumption, FS_Subset DEF Filters, Asked
  <2>2. mine = (IF x = None THEN S ELSE {x}) /\ bare = (IF x = None THEN {} ELSE {x})
    BY <1>3, <1>4
  <2> HIDE DEF x, S, mine, bare
  <2>3. /\ Cardinality(mine) \in Nat /\ Asks(x) <= Cardinality(mine)
        /\ Cardinality(mine) = Asks(x) <=> mine = bare
    BY <2>1, <2>2, ChoiceCounted
  <2> QED
    BY <2>3 DEF x, mine, bare
<1> HIDE DEF nb, nt, nq, brands, types, categories
<1> DEFINE nn == Cardinality(fn)
           nl == Cardinality(ln)
           nf == Cardinality(ff)
           no == Cardinality(fo)
           numeric == f.numeric = g.numeric
           booleans == f.booleans = g.booleans
           options == f.options = g.options
<1>10. nn \in Nat /\ nl \in Nat /\ nl <= nn /\ (nn = nl <=> numeric)
  <2>1. ln \subseteq fn /\ fn \subseteq Numbers
    BY <1>3
  <2>2. IsFiniteSet(Numbers)
    BY SearchAssumption
  <2>3. fn = ln <=> f.numeric = g.numeric
    BY <1>3, <1>4
  <2> HIDE DEF fn, ln
  <2>4. IsFiniteSet(fn)
    BY <2>1, <2>2, FS_Subset
  <2>5. /\ IsFiniteSet(ln) /\ Cardinality(ln) <= Cardinality(fn)
        /\ Cardinality(fn) = Cardinality(ln) => fn = ln
    BY <2>1, <2>4, FS_Subset
  <2> QED
    BY <2>3, <2>4, <2>5, FS_CardinalityType
<1>11. nf \in Nat /\ (nf = 0 <=> booleans)
  <2>1. ff \subseteq Flags /\ IsFiniteSet(Flags)
    BY SearchAssumption
  <2>2. ff = {} <=> f.booleans = g.booleans
    BY <1>4, <1>5 DEF Filters, Asked
  <2> HIDE DEF ff
  <2> QED
    BY <2>1, <2>2, FS_Subset, FS_CardinalityType, FS_EmptySet
<1>12. no \in Nat /\ (no = 0 <=> options)
  <2>1. fo \subseteq Lists \X Options /\ IsFiniteSet(Lists \X Options)
    BY SearchAssumption, FS_Product
  <2>2. f.options \in [Lists -> SUBSET Options]
    BY <1>5 DEF Filters, Asked
  <2>3. fo = {} <=> f.options = g.options
    <3>1. ASSUME fo = {}, NEW k \in Lists PROVE f.options[k] = {}
      <4> SUFFICES ASSUME NEW x \in f.options[k] PROVE FALSE
        OBVIOUS
      <4>1. <<k, x>> \in fo
        BY <2>2
      <4> QED
        BY <3>1, <4>1
    <3>2. ASSUME f.options = g.options PROVE fo = {}
      BY <1>4, <3>2
    <3> QED
      BY <1>4, <2>2, <3>1, <3>2
  <2> HIDE DEF fo
  <2> QED
    BY <2>1, <2>3, FS_Subset, FS_CardinalityType, FS_EmptySet
<1>13. ActiveCount(f) = nb + nt + nq + (IF f.stock THEN 1 ELSE 0)
                        + nn + nf + no
  BY DEF ActiveCount, nb, nt, nq
<1>14. LandingConditions(l) = b + t + q + nl
  BY DEF LandingConditions
<1>15. f.stock \in BOOLEAN
  BY <1>5 DEF Filters, Asked
<1> DEFINE s == IF f.stock THEN 1 ELSE 0
<1>16. s \in {0, 1} /\ (s = 0 <=> ~f.stock) /\ b \in {0, 1} /\ t \in {0, 1} /\ q \in {0, 1}
  BY <1>15 DEF Asks
<1>17. ActiveCount(f) = nb + nt + nq + s + nn + nf + no
  BY <1>13
<1> HIDE DEF fn, ln, ff, fo, b, t, q, s, nn, nl, nf, no, numeric, booleans, options
<1>18. ActiveCount(f) - LandingConditions(l) <= 0
         <=> brands /\ types /\ categories /\ ~f.stock /\ numeric /\ booleans /\ options
  BY <1>7, <1>8, <1>9, <1>10, <1>11, <1>12, <1>14, <1>16, <1>17
<1>19. IsIndexable(l, f) <=> f = g
  BY <1>6, <1>18 DEF IsIndexable, brands, types, categories, numeric, booleans, options
<1> QED
  BY <1>19 DEF ShownAsItself, Indexed, f, g

\* The plain catalogue, and a landing not closed to robots, is offered to them
\* just when it shows what it was made for, whatever the address adds to it
\* (CatalogLandingView.get_filters, get_indexing_context).
THEOREM IndexedAsItselfHolds == Spec => []IndexedAsItself
<1>1. Init => IndexedAsItself
  BY DEF Init, Nobody, IndexedAsItself
<1>2. IndexedAsItself /\ [Next]_asked => IndexedAsItself'
  <2> SUFFICES ASSUME IndexedAsItself, [Next]_asked, asked' # asked
               PROVE  IndexedAsItself'
    BY DEF IndexedAsItself
  <2>1. ASSUME NEW l \in Landings, NEW p \in Addresses, OpenLanding(l, p)
        PROVE  IndexedAsItself'
    <3>1. l \in Selection /\ ParseFilters(p) \in Filters
      BY FiltersParsed, AnswersAssumption DEF Landing
    <3>2. ShownAsItself(l, LandingFilters(l, ParseFilters(p)))
      BY <3>1, LandingShown
    <3> QED
      BY <2>1, <3>2 DEF OpenLanding, IndexedAsItself
  <2>2. ASSUME NEW c \in Catalogues, NEW p \in Addresses, Browse(c, p)
        PROVE  IndexedAsItself'
    <3> DEFINE f == ParseFilters(p)
    <3>1. Plain \in Selection /\ f \in Filters
      BY FiltersParsed, AnswersAssumption DEF Plain, Selection
    <3> HIDE DEF f
    <3>2. LandingFilters(Plain, f) = f
      BY <3>1 DEF LandingFilters, Plain, Filters, Asked
    <3>3. ShownAsItself(Plain, f)
      BY <3>1, <3>2, LandingShown
    <3> QED
      BY <2>2, <3>3 DEF Browse, IndexedAsItself, f
  <2>3. CASE asked'.kind \notin {"landing", "catalogue"}
    BY <2>3 DEF IndexedAsItself
  <2>4. \/ asked'.kind \notin {"landing", "catalogue"}
        \/ \E l \in Landings, p \in Addresses : OpenLanding(l, p)
        \/ \E c \in Catalogues, p \in Addresses : Browse(c, p)
    BY DEF Next, Ask, Leave, Nobody, ReadValue, CountLeasing, ShowTile, CountOwnership
  <2> QED
    BY <2>1, <2>2, <2>3, <2>4
<1> QED
  BY <1>1, <1>2, PTL DEF Spec
=============================================================================
