-------------------------- MODULE RequestGateProofs --------------------------
(***************************************************************************)
(* Facts about the gate for any number of workers, requests, campaigns and *)
(* files, and for any limits and windows of the buckets.                   *)
(***************************************************************************)
EXTENDS RequestGate, SequenceTheorems, FiniteSetTheorems, TLAPS

\* A request goes through the buckets in order, ...
InOrder ==
    \A w \in Workers :
      /\ seat[w].at = "burst" => seat[w].entry["hour"] = None
      /\ seat[w].at = "count" => seat[w].entry[CountedBucket(w)] # None

\* ... and found room in the one it is being counted in.
FoundRoom ==
    /\ \A b \in Buckets : IsFiniteSet(history[b])
    /\ \A w \in Workers : seat[w].at = "count" =>
         /\ IsFiniteSet(seat[w].seen)
         /\ Cardinality(seat[w].seen) < Limit[CountedBucket(w)]

\* What a bucket let through from t on, in one window and with its eyes open, ...
InWindow(b, t) == {o \in passed[b] \ blind[b] : o.time \in t .. t + Window[b] - 1}

\* ... is never more than its limit, ...
BucketHolds ==
    \A b \in Buckets : \A t \in Nat :
      IsFiniteSet(InWindow(b, t)) /\ Cardinality(InWindow(b, t)) <= Limit[b]

\* ... and it is let through once: no two requests, and no two leads, share a record.
OwnRecords ==
    /\ \A w \in Workers : seat[w] # Idle =>
         /\ seat[w].id <= made
         /\ \A v \in Workers \ {w} : seat[v] # Idle => seat[v].id # seat[w].id
         /\ \A b \in Buckets : seat[w].entry[b] # None => seat[w].entry[b].id = seat[w].id
    /\ \A l \in leads, b \in Buckets : l.entry[b] # None =>
         /\ l.entry[b].id <= made
         /\ \A w \in Workers : seat[w] # Idle => seat[w].id # l.entry[b].id
    /\ \A l, k \in leads, b \in Buckets : l.entry[b] # None /\ l.entry[b] = k.entry[b] => l = k

\* The cookie is the visitor's last campaign, unless that one was too long for it.
Faithful(c, l) == l.marks \notin Oversized => c = l
CookieFaithful ==
    Faithful(cookie, landing) /\
    \A w \in Workers : seat[w] # Idle => Faithful(seat[w].cookie, seat[w].landing)

\* An entry of a seat, and a seat with another one.
LEMMA SeatFacts ==
  ASSUME TypeOK, NEW w \in Workers
  PROVE  /\ seat[w] # Idle <=> seat[w] \in Seat
         /\ seat[w].at # "idle" => seat[w] \in Seat
         /\ seat[w] \in Seat => seat[w].at # "idle"
BY DEF TypeOK, Seat, Idle

\* The ways a request changes its seat.
LEMMA SeatKept ==
  ASSUME NEW d \in Seat
  PROVE  /\ \A r \in BOOLEAN : [d EXCEPT !.at = "hour", !.refused = TRUE] \in Seat
         /\ \A b \in Buckets, s \in SUBSET Entry, e \in Entry :
              [d EXCEPT !.at = "count", !.seen = s, !.entry[b] = e] \in Seat
         /\ \A p \in {"hour", "checked"} : [d EXCEPT !.at = p, !.seen = {}] \in Seat
<1>1. [d EXCEPT !.at = "hour", !.refused = TRUE] \in Seat
  BY DEF Seat
<1>2. ASSUME NEW b \in Buckets, NEW s \in SUBSET Entry, NEW e \in Entry
      PROVE  [d EXCEPT !.at = "count", !.seen = s, !.entry[b] = e] \in Seat
  BY DEF Seat, Entries
<1>3. ASSUME NEW p \in {"hour", "checked"}
      PROVE  [d EXCEPT !.at = p, !.seen = {}] \in Seat
  BY DEF Seat
<1> QED
  BY <1>1, <1>2, <1>3

\* The ways a step of one worker leaves the others alone.
LEMMA OthersKept ==
  ASSUME TypeOK, NEW w \in Workers, NEW d, seat' = [seat EXCEPT ![w] = d]
  PROVE  /\ seat'[w] = d /\ \A v \in Workers \ {w} : seat'[v] = seat[v]
         /\ d \in Seat \union {Idle} => seat' \in [Workers -> Seat \union {Idle}]
BY DEF TypeOK

LEMMA ReadEffect ==
  ASSUME TypeOK, NEW w \in Workers, NEW b \in Buckets, ReadBucket(w, b)
  PROVE  LET e == [id |-> seat[w].id, time |-> now]
             d == [seat[w] EXCEPT !.at = "count", !.seen = Fresh(b, history[b]),
                                  !.entry[b] = e]
         IN /\ seat[w] \in Seat /\ e \in Entry /\ Fresh(b, history[b]) \subseteq Entry
            /\ d \in Seat /\ seat' = [seat EXCEPT ![w] = d]
<1> DEFINE e == [id |-> seat[w].id, time |-> now]
<1>1. seat[w] \in Seat
  BY SeatFacts DEF ReadBucket, Buckets
<1>2. e \in Entry /\ Fresh(b, history[b]) \subseteq Entry
  BY <1>1 DEF Entry, Seat, TypeOK, Fresh
<1>3. [seat[w] EXCEPT !.at = "count", !.seen = Fresh(b, history[b]), !.entry[b] = e] \in Seat
  BY <1>1, <1>2, SeatKept
<1> QED
  BY <1>1, <1>2, <1>3 DEF ReadBucket, TypeOK

LEMMA CountEffect ==
  ASSUME TypeOK, InOrder, NEW w \in Workers, Count(w)
  PROVE  LET b == CountedBucket(w)
             e == seat[w].entry[b]
         IN /\ b \in Buckets /\ seat[w] \in Seat /\ e \in Entry
            /\ seat[w].seen \subseteq Entry
            /\ history' = [history EXCEPT ![b] = seat[w].seen \union {e}]
            /\ passed' = [passed EXCEPT ![b] = @ \union {e}]
            /\ \/ /\ blind' = [blind EXCEPT ![b] = @ \union {e}]
               \/ /\ blind' = blind
                  /\ \A o \in passed[b] \ seat[w].seen : ~(o.time + Window[b] > e.time)
            /\ \E d \in Seat \union {Idle} :
                 /\ seat' = [seat EXCEPT ![w] = d]
                 /\ d = Idle \/ \E p \in {"hour", "checked"} :
                                  d = [seat[w] EXCEPT !.at = p, !.seen = {}]
<1> DEFINE b == CountedBucket(w)
           e == seat[w].entry[b]
           after == IF b = "burst" THEN "hour" ELSE "checked"
           d == IF b = "hour" /\ seat[w].refused THEN Idle
                ELSE [seat[w] EXCEPT !.at = after, !.seen = {}]
<1>1. seat[w].at = "count" /\ seat' = [seat EXCEPT ![w] = d]
  BY DEF Count
<1>2. b \in Buckets
  BY DEF CountedBucket, Buckets
<1>3. seat[w] \in Seat
  BY <1>1, SeatFacts
<1>4. e \in Entry
  BY <1>1, <1>2, <1>3 DEF InOrder, Seat, Entries
<1>5. d = Idle \/ \E p \in {"hour", "checked"} : d = [seat[w] EXCEPT !.at = p, !.seen = {}]
  OBVIOUS
<1>6. d \in Seat \union {Idle}
  BY <1>3, <1>5, SeatKept
<1>7. seat[w].seen \subseteq Entry
  BY <1>3 DEF Seat
<1>8. /\ history' = [history EXCEPT ![b] = seat[w].seen \union {e}]
      /\ passed' = [passed EXCEPT ![b] = @ \union {e}]
  BY DEF Count
<1>9. \/ blind' = [blind EXCEPT ![b] = @ \union {e}]
      \/ blind' = blind /\ \A o \in passed[b] \ seat[w].seen : ~(o.time + Window[b] > e.time)
  BY DEF Count
<1> QED
  BY <1>1, <1>2, <1>3, <1>4, <1>5, <1>6, <1>7, <1>8, <1>9

LEMMA ArriveEffect ==
  ASSUME TypeOK, NEW w \in Workers, NEW i \in Inputs, Arrive(w, i)
  PROVE  \E d \in Seat \union {Idle} :
           /\ seat' = [seat EXCEPT ![w] = d]
           /\ d # Idle => /\ d.at = "burst" /\ d.id = made + 1
                          /\ d.entry = [b \in Buckets |-> None]
                          /\ d.cookie = cookie /\ d.landing = landing
<1> DEFINE s == [at |-> "burst", id |-> made + 1, input |-> i, cookie |-> cookie,
                 landing |-> landing, refused |-> FALSE, seen |-> {},
                 entry |-> [b \in Buckets |-> None]]
           d == IF ~WantsLead(i) THEN Idle ELSE s
<1>1. made + 1 \in 1 .. MaxRequests
  BY GateAssumption DEF Arrive, TypeOK
<1>2. s \in Seat
  BY <1>1 DEF Seat, TypeOK, Entries
<1>3. seat' = [seat EXCEPT ![w] = d]
  BY DEF Arrive
<1>4. d # Idle => /\ d.at = "burst" /\ d.id = made + 1
                  /\ d.entry = [b \in Buckets |-> None]
                  /\ d.cookie = cookie /\ d.landing = landing
  OBVIOUS
<1>5. d \in Seat \union {Idle}
  BY <1>2
<1> HIDE DEF d, s
<1> QED
  BY <1>3, <1>4, <1>5

LEMMA RefuseEffect ==
  ASSUME TypeOK, NEW w \in Workers, NEW b \in Buckets, Refuse(w, b)
  PROVE  /\ seat[w] \in Seat /\ seat[w].at = b
         /\ \E d \in Seat \union {Idle} :
              /\ seat' = [seat EXCEPT ![w] = d]
              /\ d = Idle \/ /\ d = [seat[w] EXCEPT !.at = "hour", !.refused = TRUE]
<1> DEFINE d == IF b = "burst" /\ seat[w].input.door = "api"
                THEN [seat[w] EXCEPT !.at = "hour", !.refused = TRUE] ELSE Idle
<1>1. seat[w].at = b /\ seat' = [seat EXCEPT ![w] = d]
  BY DEF Refuse
<1>2. seat[w] \in Seat
  BY <1>1, SeatFacts DEF Buckets
<1>3. d \in Seat \union {Idle}
  BY <1>2, SeatKept
<1> QED
  BY <1>1, <1>2, <1>3

\* attach_files keeps a list of files, and the whole of one that is not too long.
LEMMA AttachedFacts ==
  ASSUME NEW files \in Seq(File)
  PROVE  /\ Attached(files) \in Seq(File)
         /\ Len(files) <= MaxFiles => Attached(files) = files
<1> DEFINE n == IF Len(files) < MaxFiles THEN Len(files) ELSE MaxFiles
<1>1. Len(files) \in Nat /\ n \in Nat /\ n <= Len(files) /\ MaxFiles \in Nat
  BY GateAssumption, LenProperties
<1>2. \A k \in 1 .. n : files[k] \in File
  BY <1>1, ElementOfSeq
<1>3. SubSeq(files, 1, n) \in Seq(File)
  <2> HIDE DEF n
  <2> QED
    BY <1>1, <1>2, SubSeqProperties
<1>4. Len(files) <= MaxFiles => n = Len(files)
  BY <1>1
<1> QED
  BY <1>3, <1>4, SubSeqFull DEF Attached

LEMMA CreateEffect ==
  ASSUME TypeOK, NEW w \in Workers, CreateLead(w)
  PROVE  LET l == [entry |-> seat[w].entry, input |-> seat[w].input, time |-> now,
                   kept |-> Attached(seat[w].input.files),
                   marks |-> Credited(seat[w].input, seat[w].cookie),
                   landing |-> seat[w].landing]
         IN seat[w] \in Seat /\ l \in Lead /\ leads' = leads \union {l}
<1>1. seat[w] \in Seat
  BY SeatFacts DEF CreateLead
<1>2. /\ seat[w].entry \in Entries /\ seat[w].input \in Inputs /\ seat[w].landing \in Mark
      /\ seat[w].cookie \in Mark
  BY <1>1 DEF Seat
<1>3. Attached(seat[w].input.files) \in Seq(File)
  BY <1>2, InputAssumption, AttachedFacts DEF Input
<1>4. Credited(seat[w].input, seat[w].cookie) \in [Keys -> Campaigns \union {None}]
  <2>1. seat[w].input.query \in Campaigns \union {None}
    BY <1>2, InputAssumption DEF Input
  <2>2. ReadMarks(seat[w].cookie) \in Campaigns \union {None}
    BY <1>2 DEF ReadMarks, Mark
  <2> QED
    BY <2>1, <2>2 DEF Credited, FromCookie
<1>5. now \in 0 .. MaxTime
  BY DEF TypeOK
<1> QED
  BY <1>1, <1>2, <1>3, <1>4, <1>5 DEF Lead, CreateLead

LEMMA OneMore ==
  ASSUME NEW S, IsFiniteSet(S), NEW x, NEW n \in Nat, Cardinality(S) < n
  PROVE  IsFiniteSet(S \union {x}) /\ Cardinality(S \union {x}) <= n
<1> DEFINE size == Cardinality(S)
           after == Cardinality(S \union {x})
<1>1. size \in Nat /\ after = IF x \in S THEN size ELSE size + 1
  BY FS_CardinalityType, FS_AddElement
<1>2. IsFiniteSet(S \union {x})
  BY FS_AddElement
<1>3. after <= n
  <2>1. size < n
    OBVIOUS
  <2> HIDE DEF size, after
  <2> QED
    BY <1>1, <2>1
<1> QED
  BY <1>2, <1>3

LEMMA TypeStep == TypeOK /\ InOrder /\ FoundRoom /\ [Next]_vars => TypeOK'
<1> SUFFICES ASSUME TypeOK, InOrder, FoundRoom, [Next]_vars PROVE TypeOK'
  OBVIOUS
<1> USE DEF visitorVars
<1>1. CASE Tick
  BY <1>1, GateAssumption DEF Tick, TypeOK
<1>2. ASSUME NEW c \in Campaigns \union {None}, Visit(c) PROVE TypeOK'
  <2>1. made' \in 0 .. MaxRequests
    BY <1>2, GateAssumption DEF Visit, TypeOK
  <2>2. {cookie', landing'} \subseteq Mark
    BY <1>2 DEF Visit, TypeOK, Mark
  <2> QED
    BY <1>2, <2>1, <2>2 DEF Visit, TypeOK
<1>3. ASSUME NEW w \in Workers, NEW i \in Inputs, Arrive(w, i) PROVE TypeOK'
  <2>1. seat' \in [Workers -> Seat \union {Idle}]
    BY <1>3, ArriveEffect, OthersKept
  <2>2. made' \in 0 .. MaxRequests
    BY <1>3, GateAssumption DEF Arrive, TypeOK
  <2> QED
    BY <1>3, <2>1, <2>2 DEF Arrive, TypeOK
<1>4. ASSUME NEW w \in Workers, NEW b \in Buckets, Refuse(w, b) PROVE TypeOK'
  <2>1. seat' \in [Workers -> Seat \union {Idle}]
    BY <1>4, RefuseEffect, OthersKept
  <2> QED
    BY <1>4, <2>1 DEF Refuse, TypeOK
<1>5. ASSUME NEW w \in Workers, NEW b \in Buckets, ReadBucket(w, b) PROVE TypeOK'
  <2>1. seat' \in [Workers -> Seat \union {Idle}]
    BY <1>5, ReadEffect, OthersKept
  <2> QED
    BY <1>5, <2>1 DEF ReadBucket, TypeOK
<1>6. ASSUME NEW w \in Workers, Count(w) PROVE TypeOK'
  <2> DEFINE b == CountedBucket(w)
             e == seat[w].entry[b]
  <2>1. b \in Buckets /\ e \in Entry /\ seat[w].seen \subseteq Entry
    BY <1>6, CountEffect
  <2>2. seat' \in [Workers -> Seat \union {Idle}]
    BY <1>6, CountEffect, OthersKept
  <2>3. {history', passed', blind'} \subseteq [Buckets -> SUBSET Entry]
    <3> HIDE DEF b, e
    <3>1. /\ history' = [history EXCEPT ![b] = seat[w].seen \union {e}]
          /\ passed' = [passed EXCEPT ![b] = @ \union {e}]
          /\ blind' = [blind EXCEPT ![b] = @ \union {e}] \/ blind' = blind
      BY <1>6, CountEffect DEF b, e
    <3> QED
      BY <2>1, <3>1 DEF TypeOK
  <2>4. ASSUME NEW c \in Buckets PROVE Cardinality(history'[c]) <= Limit[c]
    <3>1. CASE c = b
      <4>1. history'[c] = seat[w].seen \union {e}
        BY <1>6, <2>1, <3>1, CountEffect DEF TypeOK
      <4>2. IsFiniteSet(seat[w].seen) /\ Cardinality(seat[w].seen) < Limit[c]
        BY <1>6, <3>1 DEF FoundRoom, Count
      <4>3. Limit[c] \in Nat
        BY GateAssumption
      <4> QED
        BY <4>1, <4>2, <4>3, OneMore
    <3>2. CASE c # b
      BY <1>6, <2>1, <3>2, CountEffect DEF TypeOK
    <3> QED
      BY <3>1, <3>2
  <2> QED
    BY <1>6, <2>2, <2>3, <2>4 DEF Count, TypeOK
<1>7. ASSUME NEW w \in Workers, CreateLead(w) PROVE TypeOK'
  <2>1. leads' \subseteq Lead
    BY <1>7, CreateEffect DEF TypeOK
  <2>2. seat' \in [Workers -> Seat \union {Idle}]
    BY <1>7, OthersKept DEF CreateLead
  <2> QED
    BY <1>7, <2>1, <2>2 DEF CreateLead, TypeOK
<1>8. ASSUME NEW w \in Workers, Reject(w) PROVE TypeOK'
  <2>1. seat' \in [Workers -> Seat \union {Idle}]
    BY <1>8, OthersKept DEF Reject
  <2> QED
    BY <1>8, <2>1 DEF Reject, TypeOK
<1>9. CASE UNCHANGED vars
  BY <1>9 DEF vars, TypeOK
<1> QED
  BY <1>1, <1>2, <1>3, <1>4, <1>5, <1>6, <1>7, <1>8, <1>9 DEF Next

\* Only a worker's own step changes its place, and only in these ways.
LEMMA OrderStep == TypeOK /\ InOrder /\ [Next]_vars => InOrder'
<1> SUFFICES ASSUME TypeOK, InOrder, [Next]_vars PROVE InOrder'
  OBVIOUS
<1> DEFINE Good(d) == /\ d.at = "burst" => d.entry["hour"] = None
                      /\ d.at = "count" =>
                           d.entry[IF d.entry["hour"] = None THEN "burst" ELSE "hour"] # None
<1>1. InOrder <=> \A w \in Workers : Good(seat[w])
  BY DEF InOrder, CountedBucket
<1>2. InOrder' <=> \A w \in Workers : Good(seat'[w])
  BY DEF InOrder, CountedBucket
<1>3. Good(Idle)
  BY DEF Idle
<1>4. ASSUME NEW w \in Workers, NEW d, seat' = [seat EXCEPT ![w] = d], Good(d)
      PROVE  InOrder'
  <2> HIDE DEF Good
  <2> QED
    BY <1>1, <1>2, <1>4, OthersKept
<1>5. ASSUME NEW w \in Workers, NEW i \in Inputs, Arrive(w, i) PROVE InOrder'
  <2>1. PICK d \in Seat \union {Idle} :
          /\ seat' = [seat EXCEPT ![w] = d]
          /\ d # Idle => d.at = "burst" /\ d.entry = [b \in Buckets |-> None]
    BY <1>5, ArriveEffect
  <2>2. Good(d)
    BY <1>3, <2>1 DEF Buckets
  <2> QED
    BY <1>4, <2>1, <2>2
<1>6. ASSUME NEW w \in Workers, NEW b \in Buckets, Refuse(w, b) PROVE InOrder'
  <2>1. PICK d \in Seat \union {Idle} :
          /\ seat' = [seat EXCEPT ![w] = d]
          /\ d = Idle \/ d = [seat[w] EXCEPT !.at = "hour", !.refused = TRUE]
    BY <1>6, RefuseEffect
  <2>2. seat[w] \in Seat
    BY <1>6, RefuseEffect
  <2>3. Good(d)
    BY <1>3, <2>1, <2>2 DEF Seat
  <2> QED
    BY <1>4, <2>1, <2>3
<1>7. ASSUME NEW w \in Workers, NEW b \in Buckets, ReadBucket(w, b) PROVE InOrder'
  <2> DEFINE e == [id |-> seat[w].id, time |-> now]
             d == [seat[w] EXCEPT !.at = "count", !.seen = Fresh(b, history[b]), !.entry[b] = e]
  <2>1. seat[w] \in Seat /\ e \in Entry /\ d \in Seat /\ seat' = [seat EXCEPT ![w] = d]
    BY <1>7, ReadEffect
  <2>2. seat[w].at = b
    BY <1>7 DEF ReadBucket
  <2>3. e # None
    BY <2>1, GateAssumption DEF Entry
  <2>4. d.at = "count" /\ d.entry = [seat[w].entry EXCEPT ![b] = e]
    BY <2>1 DEF Seat
  <2>5. seat[w].entry \in Entries /\ (b = "burst" => seat[w].entry["hour"] = None)
    BY <2>1, <2>2 DEF InOrder, Seat
  <2>6. Good(d)
    <3> HIDE DEF d, e
    <3> QED
      BY <2>3, <2>4, <2>5 DEF Buckets, Entries
  <2> HIDE DEF d
  <2> QED
    BY <1>4, <2>1, <2>6
<1>8. ASSUME NEW w \in Workers, Count(w) PROVE InOrder'
  <2>1. PICK d \in Seat \union {Idle} :
          /\ seat' = [seat EXCEPT ![w] = d]
          /\ d = Idle \/ \E p \in {"hour", "checked"} : d = [seat[w] EXCEPT !.at = p, !.seen = {}]
    BY <1>8, CountEffect
  <2>2. seat[w] \in Seat
    BY <1>8, CountEffect
  <2>3. Good(d)
    BY <1>3, <2>1, <2>2 DEF Seat
  <2> QED
    BY <1>4, <2>1, <2>3
<1>9. ASSUME NEW w \in Workers, CreateLead(w) \/ Reject(w) PROVE InOrder'
  BY <1>3, <1>4, <1>9 DEF CreateLead, Reject
<1>10. CASE UNCHANGED seat
  BY <1>1, <1>2, <1>10
<1> QED
  BY <1>5, <1>6, <1>7, <1>8, <1>9, <1>10
     DEF Next, Tick, Visit, vars, visitorVars

LEMMA RoomStep == TypeOK /\ InOrder /\ FoundRoom /\ [Next]_vars => FoundRoom'
<1> SUFFICES ASSUME TypeOK, InOrder, FoundRoom, [Next]_vars PROVE FoundRoom'
  OBVIOUS
<1> DEFINE Room(d) == d.at = "count" =>
             /\ IsFiniteSet(d.seen)
             /\ Cardinality(d.seen) <
                  Limit[IF d.entry["hour"] = None THEN "burst" ELSE "hour"]
<1>1. FoundRoom <=> /\ \A b \in Buckets : IsFiniteSet(history[b])
                    /\ \A w \in Workers : Room(seat[w])
  BY DEF FoundRoom, CountedBucket
<1>2. FoundRoom' <=> /\ \A b \in Buckets : IsFiniteSet(history'[b])
                     /\ \A w \in Workers : Room(seat'[w])
  BY DEF FoundRoom, CountedBucket
<1>3. ASSUME NEW w \in Workers, NEW d, seat' = [seat EXCEPT ![w] = d],
             d.at # "count" \/ Room(d), history' = history
      PROVE  FoundRoom'
  <2>1. Room(d)
    BY <1>3
  <2> HIDE DEF Room
  <2> QED
    BY <1>1, <1>2, <1>3, <2>1, OthersKept
<1>4. ASSUME NEW w \in Workers, NEW i \in Inputs, Arrive(w, i) PROVE FoundRoom'
  <2>1. PICK d \in Seat \union {Idle} : seat' = [seat EXCEPT ![w] = d] /\ (d # Idle => d.at = "burst")
    BY <1>4, ArriveEffect
  <2>2. d.at # "count"
    BY <2>1 DEF Idle
  <2> QED
    BY <1>3, <1>4, <2>1, <2>2 DEF Arrive
<1>5. ASSUME NEW w \in Workers, NEW b \in Buckets, Refuse(w, b) PROVE FoundRoom'
  <2>1. PICK d \in Seat \union {Idle} :
          /\ seat' = [seat EXCEPT ![w] = d]
          /\ d = Idle \/ d = [seat[w] EXCEPT !.at = "hour", !.refused = TRUE]
    BY <1>5, RefuseEffect
  <2>2. seat[w] \in Seat
    BY <1>5, RefuseEffect
  <2>3. d.at # "count"
    <3>1. CASE d = Idle
      BY <3>1 DEF Idle
    <3>2. CASE d = [seat[w] EXCEPT !.at = "hour", !.refused = TRUE]
      BY <2>2, <3>2 DEF Seat
    <3> QED
      BY <2>1, <3>1, <3>2
  <2> QED
    BY <1>3, <1>5, <2>1, <2>3 DEF Refuse
<1>6. ASSUME NEW w \in Workers, NEW b \in Buckets, ReadBucket(w, b) PROVE FoundRoom'
  <2> DEFINE e == [id |-> seat[w].id, time |-> now]
             d == [seat[w] EXCEPT !.at = "count", !.seen = Fresh(b, history[b]), !.entry[b] = e]
  <2>1. seat[w] \in Seat /\ e \in Entry /\ seat' = [seat EXCEPT ![w] = d]
    BY <1>6, ReadEffect
  <2>2. seat[w].entry \in Entries /\ (b = "burst" => seat[w].entry["hour"] = None)
    BY <1>6, <2>1 DEF ReadBucket, InOrder, Seat
  <2>3. d.seen = Fresh(b, history[b]) /\ d.entry = [seat[w].entry EXCEPT ![b] = e]
    BY <2>1 DEF Seat
  <2>4. b = IF d.entry["hour"] = None THEN "burst" ELSE "hour"
    <3>1. e # None
      BY <2>1, GateAssumption DEF Entry
    <3> HIDE DEF d, e
    <3> QED
      BY <2>2, <2>3, <3>1 DEF Buckets, Entries
  <2>5. IsFiniteSet(Fresh(b, history[b])) /\ Cardinality(Fresh(b, history[b])) < Limit[b]
    <3>1. IsFiniteSet(Fresh(b, history[b]))
      BY FS_Subset DEF FoundRoom, Fresh
    <3>2. Cardinality(Fresh(b, history[b])) \in Nat /\ Limit[b] \in Nat
      BY <3>1, FS_CardinalityType, GateAssumption
    <3>3. ~(Cardinality(Fresh(b, history[b])) >= Limit[b])
      BY <1>6 DEF ReadBucket, Full
    <3> QED
      BY <3>1, <3>2, <3>3
  <2>6. Room(d)
    BY <2>3, <2>4, <2>5
  <2> HIDE DEF d
  <2> QED
    BY <1>3, <1>6, <2>1, <2>6 DEF ReadBucket
<1>7. ASSUME NEW w \in Workers, Count(w) PROVE FoundRoom'
  <2> DEFINE b == CountedBucket(w)
             e == seat[w].entry[b]
  <2>1. PICK d \in Seat \union {Idle} :
          /\ seat' = [seat EXCEPT ![w] = d]
          /\ d = Idle \/ \E p \in {"hour", "checked"} : d = [seat[w] EXCEPT !.at = p, !.seen = {}]
    BY <1>7, CountEffect
  <2>2. b \in Buckets /\ seat[w] \in Seat
        /\ history' = [history EXCEPT ![b] = seat[w].seen \union {e}]
    BY <1>7, CountEffect
  <2>3. d.at # "count"
    <3>1. CASE d = Idle
      BY <3>1 DEF Idle
    <3>2. ASSUME NEW p \in {"hour", "checked"}, d = [seat[w] EXCEPT !.at = p, !.seen = {}]
          PROVE  d.at # "count"
      BY <2>2, <3>2 DEF Seat
    <3> QED
      BY <2>1, <3>1, <3>2
  <2>4. \A v \in Workers : Room(seat'[v])
    <3>1. Room(d)
      BY <2>3
    <3> HIDE DEF Room
    <3> QED
      BY <1>1, <2>1, <3>1, OthersKept
  <2>5. IsFiniteSet(seat[w].seen \union {e})
    <3>1. IsFiniteSet(seat[w].seen)
      BY <1>7 DEF Count, FoundRoom
    <3> HIDE DEF e
    <3> QED
      BY <3>1, FS_AddElement
  <2>6. \A c \in Buckets : IsFiniteSet(history'[c])
    <3> HIDE DEF b, e
    <3> QED
      BY <2>2, <2>5 DEF TypeOK, FoundRoom
  <2> HIDE DEF Room
  <2> QED
    BY <1>2, <2>4, <2>6
<1>8. ASSUME NEW w \in Workers, CreateLead(w) \/ Reject(w) PROVE FoundRoom'
  BY <1>3, <1>8 DEF CreateLead, Reject, Idle
<1>9. CASE UNCHANGED <<seat, history>>
  BY <1>1, <1>2, <1>9
<1> QED
  BY <1>4, <1>5, <1>6, <1>7, <1>8, <1>9 DEF Next, Tick, Visit, vars

\* A request that saw the records of its window adds to them alone; one that
\* did not, and every other one, leaves the window as it was.
LEMMA HoldsStep == TypeOK /\ InOrder /\ FoundRoom /\ BucketHolds /\ [Next]_vars => BucketHolds'
<1> SUFFICES ASSUME TypeOK, InOrder, FoundRoom, BucketHolds, [Next]_vars PROVE BucketHolds'
  OBVIOUS
<1>1. ASSUME NEW w \in Workers, Count(w), NEW c \in Buckets, NEW t \in Nat
      PROVE  IsFiniteSet(InWindow(c, t)') /\ Cardinality(InWindow(c, t)') <= Limit[c]
  <2> DEFINE b == CountedBucket(w)
             e == seat[w].entry[b]
             blindly == blind' = [blind EXCEPT ![b] = @ \union {e}]
  <2>1. /\ b \in Buckets /\ e \in Entry /\ seat[w].seen \subseteq Entry
        /\ passed' = [passed EXCEPT ![b] = @ \union {e}]
        /\ blindly \/ /\ blind' = blind
                      /\ \A o \in passed[b] \ seat[w].seen : ~(o.time + Window[b] > e.time)
    BY <1>1, CountEffect
  <2>2. {passed, blind} \subseteq [Buckets -> SUBSET Entry]
        /\ Limit[c] \in Nat /\ Window[c] \in Nat
    BY GateAssumption DEF TypeOK
  <2>3. IsFiniteSet(InWindow(c, t)) /\ Cardinality(InWindow(c, t)) <= Limit[c]
    BY DEF BucketHolds
  <2>4. InWindow(c, t)' = {o \in passed'[c] \ blind'[c] : o.time \in t .. t + Window[c] - 1}
    BY DEF InWindow
  <2>5. CASE c # b \/ blindly \/ e.time \notin t .. t + Window[b] - 1
    <3>1. InWindow(c, t)' \subseteq InWindow(c, t)
      <4> HIDE DEF b, e
      <4> QED
        BY <2>1, <2>2, <2>4, <2>5 DEF InWindow
    <3> DEFINE S == InWindow(c, t)
               T == InWindow(c, t)'
    <3>2. IsFiniteSet(T) /\ Cardinality(T) <= Cardinality(S) /\ Cardinality(S) \in Nat
          /\ Cardinality(T) \in Nat
      <4>1. IsFiniteSet(S) /\ T \subseteq S
        BY <2>3, <3>1
      <4> HIDE DEF S, T
      <4> QED
        BY <4>1, FS_Subset, FS_CardinalityType
    <3> QED
      BY <2>2, <2>3, <3>2
  <2>6. CASE c = b /\ ~blindly /\ e.time \in t .. t + Window[b] - 1
    <3> DEFINE T == InWindow(c, t)'
               S == seat[w].seen
    <3>1. T \subseteq S \union {e}
      <4>1. SUFFICES ASSUME NEW o \in T, o # e PROVE o \in S
        OBVIOUS
      <4>2. o \in passed[b] /\ o.time \in t .. t + Window[b] - 1
        <5> HIDE DEF e, b
        <5> QED
          BY <2>1, <2>2, <2>4, <2>6, <4>1
      <4>3. o \in Entry /\ o.time \in Nat /\ e.time \in Nat /\ Window[b] \in Nat
        BY <2>1, <2>2, <2>6, <4>2 DEF Entry
      <4>4. o.time + Window[b] > e.time
        <5> HIDE DEF e, b
        <5> QED
          BY <2>6, <4>2, <4>3
      <4> QED
        BY <2>1, <2>6, <4>2, <4>4
    <3>2. IsFiniteSet(S) /\ Cardinality(S) < Limit[c]
      BY <1>1, <2>6 DEF FoundRoom, Count
    <3>3. IsFiniteSet(S \union {e}) /\ Cardinality(S \union {e}) <= Limit[c]
      <4> HIDE DEF e, S
      <4> QED
        BY <2>2, <3>2, OneMore
    <3> DEFINE U == S \union {e}
    <3>4. IsFiniteSet(T) /\ Cardinality(T) <= Cardinality(U) /\ Cardinality(T) \in Nat
          /\ Cardinality(U) \in Nat
      <4>1. IsFiniteSet(U) /\ T \subseteq U
        BY <3>1, <3>3
      <4> HIDE DEF T, U
      <4> QED
        BY <4>1, FS_Subset, FS_CardinalityType
    <3> QED
      BY <2>2, <3>3, <3>4
  <2> QED
    BY <2>1, <2>5, <2>6
<1>2. CASE \E w \in Workers : Count(w)
  BY <1>1, <1>2 DEF BucketHolds
<1>3. CASE UNCHANGED <<passed, blind>>
  BY <1>3 DEF BucketHolds, InWindow
<1> QED
  BY <1>2, <1>3 DEF Next, Tick, Visit, Arrive, Refuse, ReadBucket, CreateLead, Reject, vars

\* A request takes a new number, or keeps its own.
LEMMA NumbersKept ==
  ASSUME TypeOK, OwnRecords, NEW w \in Workers, NEW d \in Seat \union {Idle},
         seat' = [seat EXCEPT ![w] = d], leads' = leads,
         made' \in Nat, made <= made',
         d # Idle => /\ \/ d.id = made + 1 /\ made' = made + 1
                        \/ seat[w] # Idle /\ d.id = seat[w].id
                     /\ \A b \in Buckets : d.entry[b] # None => d.entry[b].id = d.id
  PROVE  OwnRecords'
<1>1. \A v \in Workers \ {w} : seat'[v] = seat[v]
  BY OthersKept
<1>2. seat'[w] = d
  BY OthersKept
<1>3. made \in Nat /\ \A v \in Workers : seat[v] # Idle => seat[v].id \in Nat
  BY DEF TypeOK, Seat
<1>4. \A l \in leads, b \in Buckets : l.entry[b] # None => l.entry[b].id \in Nat
  BY DEF TypeOK, Lead, Entries, Entry
<1>5. d # Idle => /\ d.id <= made' /\ d.id \in Nat
                  /\ \A v \in Workers \ {w} : seat[v] # Idle => seat[v].id # d.id
                  /\ \A l \in leads, b \in Buckets : l.entry[b] # None => d.id # l.entry[b].id
  BY <1>3, <1>4 DEF OwnRecords
<1>6. \A v \in Workers : seat'[v] # Idle =>
         /\ seat'[v].id <= made'
         /\ \A u \in Workers \ {v} : seat'[u] # Idle => seat'[u].id # seat'[v].id
         /\ \A b \in Buckets : seat'[v].entry[b] # None => seat'[v].entry[b].id = seat'[v].id
  BY <1>1, <1>2, <1>3, <1>5 DEF OwnRecords
<1>7. \A l \in leads', b \in Buckets : l.entry[b] # None =>
         /\ l.entry[b].id <= made'
         /\ \A v \in Workers : seat'[v] # Idle => seat'[v].id # l.entry[b].id
  BY <1>1, <1>2, <1>3, <1>4, <1>5 DEF OwnRecords
<1> QED
  BY <1>6, <1>7 DEF OwnRecords

LEMMA RecordsStep == TypeOK /\ InOrder /\ OwnRecords /\ [Next]_vars => OwnRecords'
<1> SUFFICES ASSUME TypeOK, InOrder, OwnRecords, [Next]_vars PROVE OwnRecords'
  OBVIOUS
<1>0. made \in Nat
  BY DEF TypeOK
<1>1. CASE Tick
  BY <1>1 DEF Tick, OwnRecords
<1>2. ASSUME NEW c \in Campaigns \union {None}, Visit(c) PROVE OwnRecords'
  <2>1. \A n : n \in Nat /\ n <= made => n <= made'
    BY <1>0, <1>2 DEF Visit
  <2>2. \A w \in Workers : seat[w] # Idle => seat[w].id \in Nat
    BY DEF TypeOK, Seat
  <2>3. \A l \in leads, b \in Buckets : l.entry[b] # None => l.entry[b].id \in Nat
    BY DEF TypeOK, Lead, Entries, Entry
  <2>4. seat' = seat /\ leads' = leads
    BY <1>2 DEF Visit
  <2> QED
    BY <2>1, <2>2, <2>3, <2>4 DEF OwnRecords
<1>3. ASSUME NEW w \in Workers, NEW i \in Inputs, Arrive(w, i) PROVE OwnRecords'
  <2>1. PICK d \in Seat \union {Idle} :
          /\ seat' = [seat EXCEPT ![w] = d]
          /\ d # Idle => d.id = made + 1 /\ d.entry = [b \in Buckets |-> None]
    BY <1>3, ArriveEffect
  <2>2. made' = made + 1 /\ leads' = leads
    BY <1>3 DEF Arrive
  <2>3. made' \in Nat /\ made <= made'
    BY <1>0, <2>2
  <2>4. \A b \in Buckets : d # Idle => d.entry[b] = None
    BY <2>1
  <2> QED
    BY <2>1, <2>2, <2>3, <2>4, NumbersKept
<1>4. ASSUME NEW w \in Workers, NEW b \in Buckets, Refuse(w, b) PROVE OwnRecords'
  <2>1. PICK d \in Seat \union {Idle} :
          /\ seat' = [seat EXCEPT ![w] = d]
          /\ d = Idle \/ d = [seat[w] EXCEPT !.at = "hour", !.refused = TRUE]
    BY <1>4, RefuseEffect
  <2>2. seat[w] \in Seat /\ seat[w] # Idle
    BY <1>4, RefuseEffect, SeatFacts
  <2>3. d # Idle => d.id = seat[w].id /\ d.entry = seat[w].entry
    BY <2>1, <2>2 DEF Seat
  <2>4. made' = made /\ leads' = leads
    BY <1>4 DEF Refuse
  <2> QED
    BY <1>0, <2>1, <2>2, <2>3, <2>4, NumbersKept DEF OwnRecords
<1>5. ASSUME NEW w \in Workers, NEW b \in Buckets, ReadBucket(w, b) PROVE OwnRecords'
  <2> DEFINE e == [id |-> seat[w].id, time |-> now]
             d == [seat[w] EXCEPT !.at = "count", !.seen = Fresh(b, history[b]), !.entry[b] = e]
  <2>1. seat[w] \in Seat /\ seat[w] # Idle /\ d \in Seat /\ seat' = [seat EXCEPT ![w] = d]
    BY <1>5, ReadEffect, SeatFacts
  <2>2. d.id = seat[w].id /\ d.entry = [seat[w].entry EXCEPT ![b] = e] /\ e.id = seat[w].id
    BY <2>1 DEF Seat
  <2>3. seat[w].entry \in Entries
    BY <2>1 DEF Seat
  <2>4. made' = made /\ leads' = leads
    BY <1>5 DEF ReadBucket, visitorVars
  <2> HIDE DEF d, e
  <2>5. \A c \in Buckets : d.entry[c] # None => d.entry[c].id = d.id
    BY <2>1, <2>2, <2>3 DEF OwnRecords, Entries
  <2>6. made' \in Nat /\ made <= made'
    BY <1>0, <2>4
  <2> QED
    BY <2>1, <2>2, <2>4, <2>5, <2>6, NumbersKept
<1>6. ASSUME NEW w \in Workers, Count(w) PROVE OwnRecords'
  <2>1. PICK d \in Seat \union {Idle} :
          /\ seat' = [seat EXCEPT ![w] = d]
          /\ d = Idle \/ \E p \in {"hour", "checked"} : d = [seat[w] EXCEPT !.at = p, !.seen = {}]
    BY <1>6, CountEffect
  <2>2. seat[w] \in Seat /\ seat[w] # Idle
    BY <1>6, CountEffect, SeatFacts
  <2>3. d # Idle => d.id = seat[w].id /\ d.entry = seat[w].entry
    BY <2>1, <2>2 DEF Seat
  <2>4. made' = made /\ leads' = leads
    BY <1>6 DEF Count
  <2> QED
    BY <1>0, <2>1, <2>2, <2>3, <2>4, NumbersKept DEF OwnRecords
<1>7. ASSUME NEW w \in Workers, CreateLead(w) PROVE OwnRecords'
  <2> DEFINE n == [entry |-> seat[w].entry, input |-> seat[w].input, time |-> now,
                   kept |-> Attached(seat[w].input.files),
                   marks |-> Credited(seat[w].input, seat[w].cookie),
                   landing |-> seat[w].landing]
  <2>1. seat[w] # Idle /\ leads' = leads \union {n} /\ n.entry = seat[w].entry
    BY <1>7, CreateEffect, SeatFacts
  <2>2. seat'[w] = Idle /\ (\A v \in Workers \ {w} : seat'[v] = seat[v]) /\ made' = made
    BY <1>7, OthersKept DEF CreateLead
  <2> HIDE DEF n
  <2>3. \A b \in Buckets : n.entry[b] # None => n.entry[b].id = seat[w].id
    BY <2>1 DEF OwnRecords
  <2>4. \A v \in Workers : seat'[v] # Idle =>
         /\ seat'[v].id <= made'
         /\ \A u \in Workers \ {v} : seat'[u] # Idle => seat'[u].id # seat'[v].id
         /\ \A b \in Buckets : seat'[v].entry[b] # None => seat'[v].entry[b].id = seat'[v].id
    BY <2>2 DEF OwnRecords
  <2>5. \A l \in leads', b \in Buckets : l.entry[b] # None =>
         /\ l.entry[b].id <= made'
         /\ \A v \in Workers : seat'[v] # Idle => seat'[v].id # l.entry[b].id
    BY <2>1, <2>2, <2>3 DEF OwnRecords
  <2>6. \A l, k \in leads', b \in Buckets : l.entry[b] # None /\ l.entry[b] = k.entry[b] => l = k
    BY <2>1, <2>3 DEF OwnRecords
  <2> QED
    BY <2>4, <2>5, <2>6 DEF OwnRecords
<1>8. ASSUME NEW w \in Workers, Reject(w) PROVE OwnRecords'
  <2>1. seat' = [seat EXCEPT ![w] = Idle] /\ made' = made /\ leads' = leads
    BY <1>8 DEF Reject
  <2>2. made' \in Nat /\ made <= made' /\ Idle \in Seat \union {Idle}
    BY <1>0, <2>1
  <2> QED
    BY <2>1, <2>2, NumbersKept
<1>9. CASE UNCHANGED vars
  BY <1>9 DEF vars, OwnRecords
<1> QED
  BY <1>1, <1>2, <1>3, <1>4, <1>5, <1>6, <1>7, <1>8, <1>9 DEF Next

LEMMA CookieStep == TypeOK /\ InOrder /\ CookieFaithful /\ [Next]_vars => CookieFaithful'
<1> SUFFICES ASSUME TypeOK, InOrder, CookieFaithful, [Next]_vars PROVE CookieFaithful'
  OBVIOUS
<1>1. ASSUME NEW w \in Workers, NEW d \in Seat \union {Idle}, seat' = [seat EXCEPT ![w] = d],
             d # Idle => Faithful(d.cookie, d.landing), cookie' = cookie, landing' = landing
      PROVE  CookieFaithful'
  <2>1. Faithful(cookie', landing')
    BY <1>1 DEF CookieFaithful
  <2>2. \A v \in Workers : seat'[v] # Idle => Faithful(seat'[v].cookie, seat'[v].landing)
    BY <1>1, OthersKept DEF CookieFaithful
  <2> QED
    BY <2>1, <2>2 DEF CookieFaithful, Faithful
<1>2. ASSUME NEW c \in Campaigns \union {None}, Visit(c) PROVE CookieFaithful'
  <2>1. seat' = seat
    BY <1>2 DEF Visit
  <2>2. Faithful(cookie', landing')
    BY <1>2 DEF Visit, CookieFaithful, Faithful
  <2> QED
    BY <2>1, <2>2 DEF CookieFaithful, Faithful
<1>3. ASSUME NEW w \in Workers, NEW i \in Inputs, Arrive(w, i) PROVE CookieFaithful'
  <2>1. PICK d \in Seat \union {Idle} :
          /\ seat' = [seat EXCEPT ![w] = d]
          /\ d # Idle => d.cookie = cookie /\ d.landing = landing
    BY <1>3, ArriveEffect
  <2>2. d # Idle => Faithful(d.cookie, d.landing)
    BY <2>1 DEF CookieFaithful
  <2> QED
    BY <1>1, <1>3, <2>1, <2>2 DEF Arrive, visitorVars
<1>4. ASSUME NEW w \in Workers, NEW b \in Buckets, Refuse(w, b) PROVE CookieFaithful'
  <2>1. PICK d \in Seat \union {Idle} :
          /\ seat' = [seat EXCEPT ![w] = d]
          /\ d = Idle \/ d = [seat[w] EXCEPT !.at = "hour", !.refused = TRUE]
    BY <1>4, RefuseEffect
  <2>2. seat[w] \in Seat /\ seat[w] # Idle
    BY <1>4, RefuseEffect, SeatFacts
  <2>3. d # Idle => d.cookie = seat[w].cookie /\ d.landing = seat[w].landing
    BY <2>1, <2>2 DEF Seat
  <2>4. d # Idle => Faithful(d.cookie, d.landing)
    BY <2>2, <2>3 DEF CookieFaithful
  <2> QED
    BY <1>1, <1>4, <2>1, <2>4 DEF Refuse, visitorVars
<1>5. ASSUME NEW w \in Workers, NEW b \in Buckets, ReadBucket(w, b) PROVE CookieFaithful'
  <2> DEFINE e == [id |-> seat[w].id, time |-> now]
             d == [seat[w] EXCEPT !.at = "count", !.seen = Fresh(b, history[b]), !.entry[b] = e]
  <2>1. seat[w] \in Seat /\ seat[w] # Idle /\ d \in Seat /\ seat' = [seat EXCEPT ![w] = d]
    BY <1>5, ReadEffect, SeatFacts
  <2>2. d.cookie = seat[w].cookie /\ d.landing = seat[w].landing
    BY <2>1 DEF Seat
  <2>3. cookie' = cookie /\ landing' = landing
    BY <1>5 DEF ReadBucket, visitorVars
  <2> HIDE DEF d
  <2> QED
    BY <1>1, <2>1, <2>2, <2>3 DEF CookieFaithful
<1>6. ASSUME NEW w \in Workers, Count(w) PROVE CookieFaithful'
  <2>1. PICK d \in Seat \union {Idle} :
          /\ seat' = [seat EXCEPT ![w] = d]
          /\ d = Idle \/ \E p \in {"hour", "checked"} : d = [seat[w] EXCEPT !.at = p, !.seen = {}]
    BY <1>6, CountEffect
  <2>2. seat[w] \in Seat /\ seat[w] # Idle
    BY <1>6, CountEffect, SeatFacts
  <2>3. d # Idle => d.cookie = seat[w].cookie /\ d.landing = seat[w].landing
    BY <2>1, <2>2 DEF Seat
  <2>4. cookie' = cookie /\ landing' = landing
    BY <1>6 DEF Count, visitorVars
  <2>5. d # Idle => Faithful(d.cookie, d.landing)
    BY <2>2, <2>3 DEF CookieFaithful
  <2> QED
    BY <1>1, <2>1, <2>4, <2>5
<1>7. ASSUME NEW w \in Workers, CreateLead(w) \/ Reject(w) PROVE CookieFaithful'
  BY <1>1, <1>7 DEF CreateLead, Reject, visitorVars
<1>8. CASE UNCHANGED <<cookie, landing, seat>>
  BY <1>8 DEF CookieFaithful, Faithful
<1> QED
  BY <1>2, <1>3, <1>4, <1>5, <1>6, <1>7, <1>8 DEF Next, Tick, vars, visitorVars

\* Two properties of leads that hold from the moment one is created.
LEMMA LeadStep ==
  TypeOK /\ CookieFaithful /\ CreditedToLast /\ AllFilesKept /\ [Next]_vars
    => CreditedToLast' /\ AllFilesKept'
<1> SUFFICES ASSUME TypeOK, CookieFaithful, CreditedToLast, AllFilesKept, [Next]_vars
             PROVE  CreditedToLast' /\ AllFilesKept'
  OBVIOUS
<1>1. ASSUME NEW w \in Workers, CreateLead(w) PROVE CreditedToLast' /\ AllFilesKept'
  <2> DEFINE i == seat[w].input
             l == [entry |-> seat[w].entry, input |-> i, time |-> now,
                   kept |-> Attached(i.files), marks |-> Credited(i, seat[w].cookie),
                   landing |-> seat[w].landing]
  <2>1. seat[w] # Idle /\ leads' = leads \union {l} /\ Accepted(i)
    BY <1>1, CreateEffect, SeatFacts DEF CreateLead
  <2>2. l.landing.marks \notin Oversized => seat[w].cookie = l.landing
    BY <2>1 DEF CookieFaithful, Faithful
  <2>3. ASSUME NEW k \in Keys, ~FromAddress(l.input, k), l.landing.marks \notin Oversized
        PROVE  l.marks[k] = IF l.time - l.landing.since <= CookieAge
                              THEN FromCookie(l.landing.marks, k) ELSE None
    <3>1. l.marks[k] = FromCookie(ReadMarks(l.landing), k)
      BY <2>2, <2>3 DEF Credited
    <3>2. FromCookie(None, k) = None
      BY DEF FromCookie, Sets
    <3> QED
      BY <3>1, <3>2 DEF ReadMarks
  <2>4. i.files \in Seq(File)
    BY <1>1, CreateEffect, InputAssumption DEF Seat, Input
  <2>5. i.door = "form" => Len(i.files) <= MaxFiles
    BY <2>1 DEF Accepted, FilesGood
  <2>6. l.input.door = "form" => l.kept = l.input.files
    BY <2>4, <2>5, AttachedFacts
  <2> HIDE DEF l, i
  <2>7. CreditedToLast'
    BY <2>1, <2>3 DEF CreditedToLast
  <2>8. AllFilesKept'
    BY <2>1, <2>6 DEF AllFilesKept
  <2> QED
    BY <2>7, <2>8
<1>2. CASE leads' = leads
  BY <1>2 DEF CreditedToLast, AllFilesKept
<1> QED
  BY <1>1, <1>2 DEF Next, Tick, Visit, Arrive, Refuse, ReadBucket, Count, Reject, vars

\* The leads of a window have records of their own in it.
LEMMA WindowsSuffice == TypeOK /\ OwnRecords /\ BucketHolds => LimitHolds
<1> SUFFICES ASSUME TypeOK, OwnRecords, BucketHolds,
                    NEW b \in Buckets, NEW t \in 0 .. now
             PROVE  Cardinality({l \in leads : /\ l.entry[b] \in passed[b] \ blind[b]
                                               /\ l.entry[b].time \in t .. t + Window[b] - 1})
                      <= Limit[b]
  BY DEF LimitHolds
<1> DEFINE S == {l \in leads : /\ l.entry[b] \in passed[b] \ blind[b]
                               /\ l.entry[b].time \in t .. t + Window[b] - 1}
           T == InWindow(b, t)
           f == [l \in S |-> l.entry[b]]
<1>1. t \in Nat
  BY DEF TypeOK
<1>2. IsFiniteSet(T) /\ Cardinality(T) <= Limit[b]
  BY <1>1 DEF BucketHolds
<1>3. \A l \in S : l.entry[b] \in T /\ l.entry[b] # None
  BY GateAssumption DEF InWindow, TypeOK, Entry
<1>4. \A l, k \in S : l.entry[b] = k.entry[b] => l = k
  BY <1>3 DEF OwnRecords
<1>5. f \in Injection(S, T)
  <2>1. f \in [S -> T]
    BY <1>3
  <2>2. \A l, k \in DOMAIN f : f[l] = f[k] => l = k
    BY <1>4
  <2> HIDE DEF f, S, T
  <2> QED
    BY <2>1, <2>2 DEF Injection, IsInjective
<1> HIDE DEF S, T, f
<1>6. IsFiniteSet(S) /\ Cardinality(S) <= Cardinality(T)
  BY <1>2, <1>5, FS_Injection
<1>7. Cardinality(S) \in Nat /\ Cardinality(T) \in Nat /\ Limit[b] \in Nat
  BY <1>2, <1>6, FS_CardinalityType, GateAssumption
<1>8. Cardinality(S) <= Limit[b]
  BY <1>2, <1>6, <1>7
<1> QED
  BY <1>8 DEF S

GateInv ==
    /\ TypeOK /\ InOrder /\ FoundRoom /\ BucketHolds /\ OwnRecords
    /\ CookieFaithful /\ CreditedToLast /\ AllFilesKept

LEMMA GateStart == Init => GateInv
<1> SUFFICES ASSUME Init PROVE GateInv
  OBVIOUS
<1>1. \A w \in Workers : seat[w] = Idle
  BY DEF Init
<1>2. \A b \in Buckets : history[b] = {} /\ passed[b] = {} /\ blind[b] = {}
  BY DEF Init
<1>3. IsFiniteSet({}) /\ Cardinality({}) = 0
  BY FS_EmptySet
<1>4. \A b \in Buckets : Limit[b] \in Nat
  BY GateAssumption
<1>5. TypeOK
  <2>1. \A b \in Buckets : Cardinality(history[b]) <= Limit[b]
    BY <1>2, <1>3, <1>4
  <2> QED
    BY <2>1, GateAssumption DEF Init, TypeOK, Mark, NoCookie
<1>6. InOrder /\ FoundRoom
  <2>1. \A w \in Workers : seat[w].at = "idle"
    BY <1>1 DEF Idle
  <2>2. InOrder
    BY <2>1 DEF InOrder
  <2>3. FoundRoom
    BY <1>2, <1>3, <2>1 DEF FoundRoom
  <2> QED
    BY <2>2, <2>3
<1>7. BucketHolds
  <2>1. \A b \in Buckets, t \in Nat : InWindow(b, t) = {}
    BY <1>2 DEF InWindow
  <2> QED
    BY <1>3, <1>4, <2>1 DEF BucketHolds
<1>8. OwnRecords
  BY <1>1 DEF Init, OwnRecords
<1>9. CookieFaithful
  BY <1>1 DEF Init, CookieFaithful, Faithful
<1>10. CreditedToLast /\ AllFilesKept
  BY DEF Init, CreditedToLast, AllFilesKept
<1> QED
  BY <1>5, <1>6, <1>7, <1>8, <1>9, <1>10 DEF GateInv

LEMMA GateHolds == Spec => []GateInv
<1>1. Init => GateInv
  BY GateStart
<1>2. GateInv /\ [Next]_vars => GateInv'
  BY TypeStep, OrderStep, RoomStep, HoldsStep, RecordsStep, CookieStep, LeadStep DEF GateInv
<1> QED
  BY <1>1, <1>2, PTL DEF Spec

\* Types of the buckets, requests and leads; a bucket never holds more records
\* than its limit (SimpleRateThrottle), however many workers write it at once.
THEOREM GateTypeCorrect == Spec => []TypeOK
<1>1. GateInv => TypeOK
  BY DEF GateInv
<1> QED
  BY <1>1, GateHolds, PTL

\* Whichever door requests come through (check_lead_throttles, the API's
\* throttle classes), a window of a bucket yields no more leads than its limit
\* allows, but for those that ran in parallel and did not see each other.
THEOREM LimitHoldsAlways == Spec => []LimitHolds
<1>1. GateInv => LimitHolds
  BY WindowsSuffice DEF GateInv
<1> QED
  BY <1>1, GateHolds, PTL

\* What the request does not say itself a lead has of its visitor's last
\* campaign (SourceTrackingMiddleware, collect_request_meta), while a cookie
\* lives and if the marks fit into one.
THEOREM CreditedToLastHolds == Spec => []CreditedToLast
<1>1. GateInv => CreditedToLast
  BY DEF GateInv
<1> QED
  BY <1>1, GateHolds, PTL

\* The cut of attach_files never takes away what a form has accepted.
THEOREM AllFilesKeptHolds == Spec => []AllFilesKept
<1>1. GateInv => AllFilesKept
  BY DEF GateInv
<1> QED
  BY <1>1, GateHolds, PTL
==============================================================================
