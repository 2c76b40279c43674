-------------------------- MODULE SiteContextProofs --------------------------
(***************************************************************************)
(* Facts about the cached entries every page is rendered with, for any     *)
(* number of requests, entries, saves and ticks, and about the addresses   *)
(* in a tree of any number of pages.                                       *)
(***************************************************************************)
EXTENDS SiteContext, SequenceTheorems, FiniteSetTheorems, WellFoundedInduction, TLAPS

\* Every version but the one in force has a time it was replaced at.
Counted ==
    \A e \in Entries : Len(until[e]) = IF table[e] = 0 THEN 0 ELSE table[e] - 1

\* A row that is being made is not there yet, and only a row that is is saved.
MadeOnce ==
    /\ \A e \in Entries : maker[e] # None => table[e] = 0
    /\ \A r \in Requests : At(r, "end") => maker[req[r].entry] = r
    /\ saving # None => table[saving] # 0

\* What a request is going to cache and show was not replaced before this tick, ...
FillFresh ==
    \A r \in Requests : At(r, "fill") =>
      LET e == req[r].entry
          v == req[r].version
      IN v >= 1 /\ (v \in DOMAIN until[e] => until[e][v] >= now)

\* ... what is in the cache not before it was put there, ...
CachedFresh ==
    \A e \in Entries : cached[e] # None =>
      LET v == cached[e].version
      IN /\ v >= 1 /\ cached[e].time <= now
         /\ v \in DOMAIN until[e] => until[e][v] >= cached[e].time

\* ... and what was shown not a life of the cache before.
ShownFresh ==
    shown.entry # None =>
      LET v == shown.version
          e == shown.entry
      IN /\ shown.latest <= table[e]
         /\ v \in DOMAIN until[e] /\ v < shown.latest => shown.time - until[e][v] < TTL

\* An entry nobody read while it was being saved is nowhere older than its row.
Clear ==
    \A e \in Singletons \ crossed :
      /\ cached[e] # None => cached[e].version >= table[e]
      /\ \A r \in Requests : At(r, "fill") /\ req[r].entry = e => req[r].version >= table[e]
      /\ saving = e => cached[e] = None /\ \A r \in Requests : req[r] # Idle => req[r].entry # e

LEMMA AppendFacts ==
  ASSUME NEW S, NEW s \in Seq(S), NEW x \in S
  PROVE  /\ Append(s, x) \in Seq(S) /\ Len(Append(s, x)) = Len(s) + 1
         /\ DOMAIN s = 1 .. Len(s) /\ DOMAIN Append(s, x) = 1 .. Len(s) + 1
         /\ \A v \in 1 .. Len(s) : Append(s, x)[v] = s[v]
         /\ Append(s, x)[Len(s) + 1] = x
<1>1. Append(s, x) \in Seq(S) /\ Len(Append(s, x)) = Len(s) + 1
  BY AppendProperties
<1>2. DOMAIN s = 1 .. Len(s) /\ DOMAIN Append(s, x) = 1 .. Len(s) + 1
  BY <1>1, LenProperties
<1> QED
  BY <1>1, <1>2, AppendProperties

LEMMA RequestKept ==
  ASSUME NEW q \in Request, NEW p \in {"get", "check", "insert", "fill", "end"}, NEW v \in Nat
  PROVE  /\ [q EXCEPT !.at = p] \in Request /\ [q EXCEPT !.at = p, !.version = v] \in Request
         /\ q # Idle
<1>1. [q EXCEPT !.at = p] \in Request
  BY DEF Request
<1>2. [q EXCEPT !.at = p, !.version = v] \in Request
  BY DEF Request
<1>3. q # Idle
  BY DEF Request, Idle
<1> QED
  BY <1>1, <1>2, <1>3

LEMMA TypeStep == TypeOK /\ [Next]_vars => TypeOK'
<1> SUFFICES ASSUME TypeOK, [Next]_vars PROVE TypeOK'
  OBVIOUS
<1> USE ContextAssumption DEF contextVars, pageVars
<1>1. CASE Tick
  BY <1>1 DEF Tick, TypeOK
<1>2. ASSUME NEW r \in Requests, NEW e \in Entries, Hit(r, e) PROVE TypeOK'
  <2>1. cached[e] \in Version
    BY <1>2 DEF Hit, Usable, TypeOK
  <2>2. shown' \in [entry : Entries \union {None}, version : Nat, time : 0 .. MaxTime,
                    latest : Nat, crossed : BOOLEAN]
    BY <1>2, <2>1 DEF Hit, Show, TypeOK, Version
  <2> QED
    BY <1>2, <2>2 DEF Hit, TypeOK
<1>3. ASSUME NEW r \in Requests, NEW e \in Entries, NEW atomic \in BOOLEAN, Miss(r, e, atomic)
      PROVE  TypeOK'
  <2>1. [at |-> "get", entry |-> e, atomic |-> atomic, version |-> 0] \in Request
    BY DEF Request
  <2>2. req' \in [Requests -> Request \union {Idle}]
    BY <1>3, <2>1 DEF Miss, TypeOK
  <2>3. crossed' \subseteq Entries
    BY <1>3 DEF Miss, TypeOK
  <2> QED
    BY <1>3, <2>2, <2>3 DEF Miss, TypeOK
<1>4. ASSUME NEW r \in Requests, Get(r) PROVE TypeOK'
  <2>1. req[r] \in Request /\ table[req[r].entry] \in Nat
    BY <1>4 DEF Get, At, TypeOK, Request
  <2>2. req' \in [Requests -> Request \union {Idle}]
    BY <1>4, <2>1, RequestKept DEF Get, TypeOK
  <2> QED
    BY <1>4, <2>2 DEF Get, TypeOK
<1>5. ASSUME NEW r \in Requests, Check(r) PROVE TypeOK'
  <2>1. req[r] \in Request
    BY <1>5 DEF Check, At, TypeOK
  <2>2. req' \in [Requests -> Request \union {Idle}]
    BY <1>5, <2>1, RequestKept DEF Check, TypeOK
  <2> QED
    BY <1>5, <2>2 DEF Check, TypeOK
<1>6. ASSUME NEW r \in Requests, Insert(r) PROVE TypeOK'
  <2> DEFINE e == req[r].entry
  <2>1. req[r] \in Request /\ e \in Entries /\ table[e] \in Nat
    BY <1>6 DEF Insert, At, TypeOK, Request
  <2>2. req' \in [Requests -> Request \union {Idle}]
    <3> DEFINE v == IF table[e] # 0 THEN table[e] ELSE 1
    <3>1. v \in Nat /\ req' = [req EXCEPT ![r] = [req[r] EXCEPT !.at = "fill", !.version = v]]
      BY <1>6, <2>1 DEF Insert
    <3> HIDE DEF v
    <3> QED
      BY <2>1, <3>1, RequestKept DEF TypeOK
  <2>3. table' \in [Entries -> Nat] /\ maker' \in [Entries -> Requests \union {None}]
    BY <1>6, <2>1 DEF Insert, TypeOK
  <2>4. cached' \in [Entries -> Version \union {None}]
    BY <1>6, <2>1 DEF Insert, TypeOK
  <2> QED
    BY <1>6, <2>2, <2>3, <2>4 DEF Insert, TypeOK
<1>7. ASSUME NEW r \in Requests, Fill(r) PROVE TypeOK'
  <2> DEFINE e == req[r].entry
  <2>1. req[r] \in Request /\ e \in Entries /\ req[r].version \in Nat
    BY <1>7 DEF Fill, At, TypeOK, Request
  <2>2. req' \in [Requests -> Request \union {Idle}]
    BY <1>7, <2>1, RequestKept DEF Fill, TypeOK
  <2>3. cached' \in [Entries -> Version \union {None}]
    BY <1>7, <2>1 DEF Fill, TypeOK, Version
  <2>4. shown' \in [entry : Entries \union {None}, version : Nat, time : 0 .. MaxTime,
                    latest : Nat, crossed : BOOLEAN]
    BY <1>7, <2>1 DEF Fill, Show, TypeOK
  <2> QED
    BY <1>7, <2>2, <2>3, <2>4 DEF Fill, TypeOK
<1>8. ASSUME NEW r \in Requests, EndRequest(r) PROVE TypeOK'
  <2>1. req[r] \in Request /\ req[r].entry \in Entries
    BY <1>8 DEF EndRequest, At, TypeOK, Request
  <2>2. table' \in [Entries -> Nat] /\ maker' \in [Entries -> Requests \union {None}]
    BY <1>8, <2>1 DEF EndRequest, TypeOK
  <2>3. req' \in [Requests -> Request \union {Idle}]
    BY <1>8 DEF EndRequest, TypeOK
  <2> QED
    BY <1>8, <2>2, <2>3 DEF EndRequest, TypeOK
<1>9. ASSUME NEW e \in Entries, Save(e) PROVE TypeOK'
  <2>1. cached' \in [Entries -> Version \union {None}]
    BY <1>9 DEF Save, TypeOK
  <2>2. crossed' \subseteq Entries /\ saving' = e /\ edits' \in 0 .. MaxEdits
    BY <1>9 DEF Save, TypeOK
  <2> QED
    BY <1>9, <2>1, <2>2 DEF Save, TypeOK
<1>10. CASE EndSave
  <2>1. saving \in Entries
    BY <1>10 DEF EndSave, TypeOK
  <2>2. table' \in [Entries -> Nat]
    BY <1>10, <2>1 DEF EndSave, TypeOK
  <2>3. Append(until[saving], now) \in Seq(0 .. MaxTime)
    BY <2>1, AppendFacts DEF TypeOK
  <2>4. until' \in [Entries -> Seq(0 .. MaxTime)]
    BY <1>10, <2>1, <2>3 DEF EndSave, TypeOK
  <2> QED
    BY <1>10, <2>2, <2>4 DEF EndSave, TypeOK
<1>11. ASSUME NEW p \in Pages, NEW s, NEW parent,
              SavePage(p, s, parent) \/ DragPage(p, parent) \/ DeletePage(p)
       PROVE  TypeOK'
  <2>1. edits' \in 0 .. MaxEdits /\ UNCHANGED <<now, contextVars>>
    BY <1>11 DEF SavePage, DragPage, DeletePage, TypeOK
  <2> QED
    BY <2>1 DEF TypeOK
<1>12. CASE UNCHANGED vars
  BY <1>12 DEF vars, TypeOK
<1> QED
  BY <1>1, <1>2, <1>3, <1>4, <1>5, <1>6, <1>7, <1>8, <1>9, <1>10, <1>11, <1>12 DEF Next

(***************************************************************************)
(* What each step of a request does to it                                  *)
(***************************************************************************)

LEMMA OthersKept ==
  ASSUME TypeOK, NEW r \in Requests, NEW q, req' = [req EXCEPT ![r] = q]
  PROVE  req'[r] = q /\ \A o \in Requests \ {r} : req'[o] = req[o]
BY DEF TypeOK

LEMMA MissEffect ==
  ASSUME TypeOK, NEW r \in Requests, NEW e \in Entries, NEW atomic \in BOOLEAN, Miss(r, e, atomic)
  PROVE  /\ req'[r].at = "get" /\ req'[r].entry = e
         /\ \A o \in Requests \ {r} : req'[o] = req[o]
         /\ crossed' = IF saving = e THEN crossed \union {e} ELSE crossed
         /\ UNCHANGED <<now, table, until, cached, maker, saving, shown>>
<1> DEFINE q == [at |-> "get", entry |-> e, atomic |-> atomic, version |-> 0]
<1>1. req' = [req EXCEPT ![r] = q]
  BY DEF Miss
<1>2. q.at = "get" /\ q.entry = e
  OBVIOUS
<1> HIDE DEF q
<1> QED
  BY <1>1, <1>2, OthersKept DEF Miss

LEMMA GetEffect ==
  ASSUME TypeOK, NEW r \in Requests, Get(r)
  PROVE  LET e == req[r].entry IN
         /\ e \in Entries /\ req[r] # Idle /\ req'[r] # Idle /\ req'[r].entry = e
         /\ req'[r].version = table[e]
         /\ req'[r].at = IF table[e] = 0 THEN "check" ELSE "fill"
         /\ \A o \in Requests \ {r} : req'[o] = req[o]
         /\ UNCHANGED <<now, table, until, cached, maker, saving, crossed, shown>>
<1>1. req[r] \in Request /\ req[r] # Idle
  BY DEF Get, At, TypeOK
<1> DEFINE e == req[r].entry
           q == [req[r] EXCEPT !.at = IF table[e] = 0 THEN "check" ELSE "fill", !.version = table[e]]
<1>2. req' = [req EXCEPT ![r] = q]
  BY DEF Get
<1>3. /\ e \in Entries /\ q # Idle /\ q.entry = e /\ q.version = table[e]
      /\ q.at = IF table[e] = 0 THEN "check" ELSE "fill"
  BY <1>1 DEF Request, Idle
<1>4. req'[r] = q /\ \A o \in Requests \ {r} : req'[o] = req[o]
  BY <1>2, OthersKept
<1> HIDE DEF q
<1> QED
  BY <1>1, <1>3, <1>4 DEF Get

LEMMA CheckEffect ==
  ASSUME TypeOK, NEW r \in Requests, Check(r)
  PROVE  /\ \/ req'[r] = Idle
            \/ req[r] # Idle /\ req'[r].at = "insert" /\ req'[r].entry = req[r].entry
         /\ \A o \in Requests \ {r} : req'[o] = req[o]
         /\ UNCHANGED <<now, table, until, cached, maker, saving, crossed, shown>>
<1>1. req[r] \in Request /\ req[r] # Idle
  BY DEF Check, At, TypeOK
<1> DEFINE q == [req[r] EXCEPT !.at = "insert"]
<1>2. req' = [req EXCEPT ![r] = Idle] \/ req' = [req EXCEPT ![r] = q]
  BY DEF Check
<1>3. q.at = "insert" /\ q.entry = req[r].entry
  BY <1>1 DEF Request
<1> HIDE DEF q
<1>4. (req'[r] = Idle \/ req'[r] = q) /\ \A o \in Requests \ {r} : req'[o] = req[o]
  BY <1>2, OthersKept
<1> QED
  BY <1>1, <1>3, <1>4 DEF Check

LEMMA InsertEffect ==
  ASSUME TypeOK, NEW r \in Requests, Insert(r)
  PROVE  LET e == req[r].entry IN
         /\ e \in Entries /\ req[r] # Idle /\ req'[r] # Idle /\ req'[r].entry = e
         /\ req'[r].at = "fill" /\ req'[r].version = IF table[e] = 0 THEN 1 ELSE table[e]
         /\ \A o \in Requests \ {r} : req'[o] = req[o]
         /\ maker[e] = None
         /\ \A f \in Entries \ {e} :
              table'[f] = table[f] /\ maker'[f] = maker[f] /\ cached'[f] = cached[f]
         /\ \/ table'[e] = table[e] /\ maker'[e] = None
            \/ table[e] = 0 /\ table'[e] = 1 /\ maker'[e] = None
            \/ table[e] = 0 /\ table'[e] = 0 /\ maker'[e] = r
         /\ cached'[e] = cached[e] \/ cached'[e] = None
         /\ UNCHANGED <<now, until, saving, crossed, shown>>
<1>1. req[r] \in Request /\ req[r] # Idle
  BY DEF Insert, At, TypeOK
<1> DEFINE e == req[r].entry
           v == IF table[e] # 0 THEN table[e] ELSE 1
           q == [req[r] EXCEPT !.at = "fill", !.version = v]
<1>2. req' = [req EXCEPT ![r] = q]
  BY DEF Insert
<1> HIDE DEF v
<1>3. e \in Entries /\ q # Idle /\ q.entry = e /\ q.at = "fill" /\ q.version = v
  BY <1>1 DEF Request, Idle
<1>4. req'[r] = q /\ \A o \in Requests \ {r} : req'[o] = req[o]
  BY <1>2, OthersKept
<1> HIDE DEF q
<1>5. /\ maker[e] = None
      /\ \A f \in Entries \ {e} :
           table'[f] = table[f] /\ maker'[f] = maker[f] /\ cached'[f] = cached[f]
      /\ cached'[e] = cached[e] \/ cached'[e] = None
  BY <1>3 DEF Insert, TypeOK
<1>6. \/ table'[e] = table[e] /\ maker'[e] = None
      \/ table[e] = 0 /\ table'[e] = 1 /\ maker'[e] = None
      \/ table[e] = 0 /\ table'[e] = 0 /\ maker'[e] = r
  BY <1>3 DEF Insert, TypeOK
<1> QED
  BY <1>1, <1>3, <1>4, <1>5, <1>6 DEF Insert, v

LEMMA FillEffect ==
  ASSUME TypeOK, NEW r \in Requests, Fill(r)
  PROVE  LET e == req[r].entry IN
         /\ e \in Entries /\ At(r, "fill") /\ req[r].version \in Nat
         /\ cached'[e] = [version |-> req[r].version, time |-> now]
         /\ \A f \in Entries \ {e} : cached'[f] = cached[f]
         /\ shown' = [entry |-> e, version |-> req[r].version, time |-> now, latest |-> table[e],
                      crossed |-> e \in crossed]
         /\ req'[r] = Idle \/ (maker[e] = r /\ req'[r].at = "end" /\ req'[r].entry = e)
         /\ \A o \in Requests \ {r} : req'[o] = req[o]
         /\ UNCHANGED <<now, table, until, maker, saving, crossed>>
<1>1. req[r] \in Request /\ req[r] # Idle
  BY DEF Fill, At, TypeOK
<1> DEFINE q == [req[r] EXCEPT !.at = "end"]
<1>2. \/ req' = [req EXCEPT ![r] = Idle]
      \/ maker[req[r].entry] = r /\ req' = [req EXCEPT ![r] = q]
  BY DEF Fill
<1>3. req[r].entry \in Entries /\ req[r].version \in Nat /\ q.at = "end" /\ q.entry = req[r].entry
  BY <1>1 DEF Request
<1> HIDE DEF q
<1>4. /\ req'[r] = Idle \/ (maker[req[r].entry] = r /\ req'[r].at = "end"
                             /\ req'[r].entry = req[r].entry)
      /\ \A o \in Requests \ {r} : req'[o] = req[o]
  BY <1>2, <1>3, OthersKept
<1>5. /\ cached'[req[r].entry] = [version |-> req[r].version, time |-> now]
      /\ \A f \in Entries \ {req[r].entry} : cached'[f] = cached[f]
  BY <1>3 DEF Fill, TypeOK
<1> QED
  BY <1>1, <1>3, <1>4, <1>5 DEF Fill, Show

LEMMA EndEffect ==
  ASSUME TypeOK, NEW r \in Requests, EndRequest(r)
  PROVE  LET e == req[r].entry IN
         /\ e \in Entries /\ At(r, "end") /\ req'[r] = Idle
         /\ \A o \in Requests \ {r} : req'[o] = req[o]
         /\ table'[e] = table[e] \/ table'[e] = 1
         /\ maker'[e] = None
         /\ \A f \in Entries \ {e} : table'[f] = table[f] /\ maker'[f] = maker[f]
         /\ UNCHANGED <<now, until, cached, saving, crossed, shown>>
<1>1. req[r].entry \in Entries
  BY DEF EndRequest, At, TypeOK, Request
<1>2. /\ table'[req[r].entry] = table[req[r].entry] \/ table'[req[r].entry] = 1
      /\ maker'[req[r].entry] = None
      /\ \A f \in Entries \ {req[r].entry} : table'[f] = table[f] /\ maker'[f] = maker[f]
  BY <1>1 DEF EndRequest, TypeOK
<1>3. req'[r] = Idle /\ \A o \in Requests \ {r} : req'[o] = req[o]
  BY OthersKept DEF EndRequest
<1> QED
  BY <1>1, <1>2, <1>3 DEF EndRequest

(***************************************************************************)
(* Nothing replaced longer ago than the life of the cache                  *)
(***************************************************************************)

LEMMA CountedStep == TypeOK /\ Counted /\ MadeOnce /\ [Next]_vars => Counted' /\ MadeOnce'
<1> SUFFICES ASSUME TypeOK, Counted, MadeOnce, [Next]_vars PROVE Counted' /\ MadeOnce'
  OBVIOUS
<1> USE ContextAssumption
<1>1. ASSUME NEW r \in Requests, Insert(r) PROVE Counted' /\ MadeOnce'
  <2> DEFINE e == req[r].entry
  <2>0. /\ maker[e] = None /\ e \in Entries
        /\ \A f \in Entries \ {e} : table'[f] = table[f] /\ maker'[f] = maker[f]
        /\ \/ table'[e] = table[e] /\ maker'[e] = None
           \/ table[e] = 0 /\ table'[e] = 1 /\ maker'[e] = None
           \/ table[e] = 0 /\ table'[e] = 0 /\ maker'[e] = r
        /\ until' = until /\ saving' = saving
    BY <1>1, InsertEffect
  <2>1. Counted'
    <3>1. ASSUME NEW f \in Entries
          PROVE  Len(until[f]) = IF table'[f] = 0 THEN 0 ELSE table'[f] - 1
      <4>1. Len(until[f]) = IF table[f] = 0 THEN 0 ELSE table[f] - 1
        BY DEF Counted
      <4>2. table'[f] = table[f] \/ (table[f] = 0 /\ table'[f] = 1)
        BY <2>0
      <4> QED
        BY <4>1, <4>2
    <3> QED
      BY <2>0, <3>1 DEF Counted
  <2>2. \A f \in Entries : maker'[f] # None => table'[f] = 0
    BY <2>0 DEF MadeOnce
  <2>3. ASSUME NEW o \in Requests, At(o, "end")' PROVE maker'[req'[o].entry] = o
    <3>1. o # r /\ req'[o] = req[o]
      BY <1>1, <2>3, InsertEffect DEF At
    <3>2. maker[req[o].entry] = o
      BY <2>3, <3>1 DEF At, MadeOnce
    <3>3. req[o].entry # e
      BY <2>0, <3>2
    <3>4. req[o].entry \in Entries
      BY <2>3, <3>1 DEF At, TypeOK, Request
    <3> QED
      BY <2>0, <3>1, <3>2, <3>3, <3>4
  <2>4. saving' # None => table'[saving'] # 0
    BY <2>0 DEF MadeOnce, TypeOK
  <2> QED
    BY <2>1, <2>2, <2>3, <2>4 DEF MadeOnce
<1>2. ASSUME NEW r \in Requests, EndRequest(r) PROVE Counted' /\ MadeOnce'
  <2> DEFINE e == req[r].entry
  <2>0. /\ table'[e] = table[e] \/ table'[e] = 1
        /\ maker'[e] = None
        /\ \A f \in Entries \ {e} : table'[f] = table[f] /\ maker'[f] = maker[f]
        /\ until' = until /\ saving' = saving
    BY <1>2, EndEffect
  <2>1. maker[e] = r /\ table[e] = 0 /\ e \in Entries
    BY <1>2, EndEffect DEF MadeOnce
  <2>2. Counted'
    <3>1. ASSUME NEW f \in Entries
          PROVE  Len(until[f]) = IF table'[f] = 0 THEN 0 ELSE table'[f] - 1
      <4>1. Len(until[f]) = IF table[f] = 0 THEN 0 ELSE table[f] - 1
        BY DEF Counted
      <4>2. table'[f] = table[f] \/ (table[f] = 0 /\ table'[f] = 1)
        BY <2>0, <2>1
      <4> QED
        BY <4>1, <4>2
    <3> QED
      BY <2>0, <3>1 DEF Counted
  <2>3. \A f \in Entries : maker'[f] # None => table'[f] = 0
    BY <2>0, <2>1 DEF MadeOnce
  <2>4. ASSUME NEW o \in Requests, At(o, "end")' PROVE maker'[req'[o].entry] = o
    <3>1. o # r /\ req'[o] = req[o]
      BY <1>2, <2>4, EndEffect DEF At
    <3>2. maker[req[o].entry] = o /\ req[o].entry # e
      BY <2>1, <2>4, <3>1 DEF At, MadeOnce
    <3>3. req[o].entry \in Entries
      BY <2>4, <3>1 DEF At, TypeOK, Request
    <3> QED
      BY <2>0, <3>1, <3>2, <3>3
  <2>5. saving' # None => table'[saving'] # 0
    BY <2>0, <2>1 DEF MadeOnce, TypeOK
  <2> QED
    BY <2>2, <2>3, <2>4, <2>5 DEF MadeOnce
<1>3. CASE EndSave
  <2>1. saving \in Entries /\ table[saving] # 0 /\ saving' = None /\ UNCHANGED <<req, maker>>
    BY <1>3 DEF EndSave, MadeOnce, TypeOK
  <2>2. CASE UNCHANGED <<table, until>>
    BY <2>1, <2>2 DEF Counted, MadeOnce, At
  <2>3. CASE /\ table' = [table EXCEPT ![saving] = @ + 1]
             /\ until' = [until EXCEPT ![saving] = Append(@, now)]
    <3>1. Len(Append(until[saving], now)) = Len(until[saving]) + 1
      BY <2>1, AppendFacts DEF TypeOK
    <3>2. Counted'
      BY <2>1, <2>3, <3>1 DEF Counted, TypeOK
    <3>3. maker[saving] = None
      BY <2>1 DEF MadeOnce
    <3> QED
      BY <2>1, <2>3, <3>2, <3>3 DEF MadeOnce, At, TypeOK
  <2> QED
    BY <1>3, <2>2, <2>3 DEF EndSave
<1>4. ASSUME UNCHANGED <<table, until, maker>>, saving' # None => table[saving'] # 0,
             \A o \in Requests : At(o, "end")' => maker[req'[o].entry] = o
      PROVE  Counted' /\ MadeOnce'
  BY <1>4 DEF Counted, MadeOnce
<1>5. ASSUME NEW r \in Requests, NEW e \in Entries, NEW atomic \in BOOLEAN, Miss(r, e, atomic)
      PROVE  Counted' /\ MadeOnce'
  BY <1>4, <1>5, MissEffect DEF MadeOnce, At
<1>6. ASSUME NEW r \in Requests, Get(r) PROVE Counted' /\ MadeOnce'
  BY <1>4, <1>6, GetEffect DEF MadeOnce, At
<1>7. ASSUME NEW r \in Requests, Check(r) PROVE Counted' /\ MadeOnce'
  BY <1>4, <1>7, CheckEffect DEF MadeOnce, At
<1>8. ASSUME NEW r \in Requests, Fill(r) PROVE Counted' /\ MadeOnce'
  <2>1. /\ req'[r] = Idle \/ maker[req'[r].entry] = r
        /\ \A o \in Requests \ {r} : req'[o] = req[o]
        /\ UNCHANGED <<table, until, maker, saving>>
    BY <1>8, FillEffect
  <2> QED
    BY <1>4, <2>1 DEF MadeOnce, At
<1>9. ASSUME NEW r \in Requests, NEW e \in Entries, Hit(r, e) PROVE Counted' /\ MadeOnce'
  BY <1>4, <1>9 DEF Hit, MadeOnce, At
<1>10. ASSUME NEW e \in Entries, Save(e) PROVE Counted' /\ MadeOnce'
  BY <1>4, <1>10 DEF Save, MadeOnce, At
<1>11. CASE UNCHANGED contextVars
  BY <1>4, <1>11 DEF contextVars, MadeOnce, At
<1> QED
  BY <1>1, <1>2, <1>3, <1>5, <1>6, <1>7, <1>8, <1>9, <1>10, <1>11
     DEF Next, Tick, SavePage, DragPage, DeletePage, vars

LEMMA UntilType ==
  ASSUME TypeOK, NEW e \in Entries
  PROVE  /\ Len(until[e]) \in Nat /\ DOMAIN until[e] = 1 .. Len(until[e])
         /\ \A v \in DOMAIN until[e] : until[e][v] \in Nat
<1>1. until[e] \in Seq(0 .. MaxTime)
  BY DEF TypeOK
<1>2. until[e] \in [1 .. Len(until[e]) -> 0 .. MaxTime] /\ Len(until[e]) \in Nat
  BY <1>1, LenProperties
<1> QED
  BY <1>2

\* The version in force has not been replaced.
LEMMA InForce ==
  ASSUME TypeOK, Counted, NEW e \in Entries, NEW v \in Nat, v >= table[e]
  PROVE  v \notin DOMAIN until[e] \/ table[e] = 0
<1>1. Len(until[e]) = IF table[e] = 0 THEN 0 ELSE table[e] - 1
  BY DEF Counted
<1> QED
  BY <1>1, UntilType DEF TypeOK

\* While no version is replaced and the clock stands, what is new among the
\* requests and in the cache must be fresh.
LEMMA NewFresh ==
  ASSUME TypeOK, FillFresh, CachedFresh, UNCHANGED <<now, until>>,
         \A o \in Requests : At(o, "fill")' => req'[o] = req[o] \/
           LET f == req'[o].entry
               v == req'[o].version
           IN v >= 1 /\ (v \in DOMAIN until[f] => until[f][v] >= now),
         \A f \in Entries : cached'[f] \in {None, cached[f]} \/
           LET v == cached'[f].version
           IN /\ v >= 1 /\ cached'[f].time <= now
              /\ v \in DOMAIN until[f] => until[f][v] >= cached'[f].time
  PROVE  FillFresh' /\ CachedFresh'
<1>1. FillFresh'
  BY DEF FillFresh, At
<1>2. CachedFresh'
  BY DEF CachedFresh
<1> QED
  BY <1>1, <1>2

LEMMA FreshStep ==
  TypeOK /\ Counted /\ FillFresh /\ CachedFresh /\ [Next]_vars => FillFresh' /\ CachedFresh'
<1> SUFFICES ASSUME TypeOK, Counted, FillFresh, CachedFresh, [Next]_vars
             PROVE  FillFresh' /\ CachedFresh'
  OBVIOUS
<1>1. CASE Tick
  <2>1. /\ \A r \in Requests : req'[r] = Idle
        /\ now' = now + 1 /\ now \in Nat /\ UNCHANGED <<until, cached>>
    BY <1>1 DEF Tick, contextVars, TypeOK
  <2>2. FillFresh'
    BY <2>1 DEF FillFresh, At
  <2>3. \A f \in Entries : cached[f] # None => cached[f].time \in Nat
    BY DEF TypeOK, Version
  <2>4. CachedFresh'
    BY <2>1, <2>3 DEF CachedFresh
  <2> QED
    BY <2>2, <2>4
<1>2. ASSUME NEW r \in Requests, Get(r) PROVE FillFresh' /\ CachedFresh'
  <2> DEFINE e == req[r].entry
  <2>1. /\ e \in Entries /\ req'[r].entry = e /\ req'[r].version = table[e]
        /\ req'[r].at = IF table[e] = 0 THEN "check" ELSE "fill"
        /\ \A o \in Requests \ {r} : req'[o] = req[o]
        /\ UNCHANGED <<now, until, cached>>
    BY <1>2, GetEffect
  <2>2. table[e] \in Nat
    BY <2>1 DEF TypeOK
  <2>3. At(r, "fill")' => table[e] >= 1 /\ table[e] \notin DOMAIN until[e]
    BY <2>1, <2>2, InForce DEF At
  <2> QED
    BY <2>1, <2>3, NewFresh
<1>3. ASSUME NEW r \in Requests, Insert(r) PROVE FillFresh' /\ CachedFresh'
  <2> DEFINE e == req[r].entry
  <2>1. /\ e \in Entries /\ req'[r].entry = e
        /\ req'[r].version = IF table[e] = 0 THEN 1 ELSE table[e]
        /\ \A o \in Requests \ {r} : req'[o] = req[o]
        /\ \A f \in Entries : cached'[f] \in {None, cached[f]}
        /\ UNCHANGED <<now, until>>
    BY <1>3, InsertEffect
  <2>2. table[e] \in Nat
    BY <2>1 DEF TypeOK
  <2>3. req'[r].version >= 1 /\ req'[r].version \notin DOMAIN until[e]
    <3>1. CASE table[e] = 0
      BY <2>1, <3>1, UntilType DEF Counted
    <3>2. CASE table[e] # 0
      BY <2>1, <2>2, <3>2, InForce
    <3> QED
      BY <3>1, <3>2
  <2> QED
    BY <2>1, <2>3, NewFresh
<1>4. ASSUME NEW r \in Requests, Fill(r) PROVE FillFresh' /\ CachedFresh'
  <2> DEFINE e == req[r].entry
             v == req[r].version
  <2>1. /\ e \in Entries /\ At(r, "fill")
        /\ \A f \in Entries \ {e} : cached'[f] = cached[f]
        /\ req'[r] = Idle \/ req'[r].at = "end"
        /\ \A o \in Requests \ {r} : req'[o] = req[o]
        /\ UNCHANGED <<now, until>>
    BY <1>4, FillEffect
  <2>4. cached'[e].version = v /\ cached'[e].time = now
    <3>1. cached'[e] = [version |-> v, time |-> now]
      BY <1>4, FillEffect
    <3> QED
      BY <3>1
  <2>2. v >= 1 /\ (v \in DOMAIN until[e] => until[e][v] >= now)
    BY <2>1 DEF FillFresh
  <2>3. now <= now
    BY ContextAssumption DEF TypeOK
  <2> QED
    BY <2>1, <2>2, <2>3, <2>4, NewFresh DEF At
<1>5. CASE EndSave
  <2>1. saving \in Entries /\ UNCHANGED <<now, cached, req>> /\ now \in 0 .. MaxTime /\ now \in Nat
    BY <1>5, ContextAssumption DEF EndSave, TypeOK
  <2>2. CASE UNCHANGED until
    BY <2>1, <2>2 DEF FillFresh, CachedFresh, At
  <2>3. CASE until' = [until EXCEPT ![saving] = Append(@, now)]
    <3>1. ASSUME NEW f \in Entries, NEW v \in DOMAIN until'[f]
          PROVE  \/ v \in DOMAIN until[f] /\ until'[f][v] = until[f][v]
                 \/ until'[f][v] = now
      <4>1. CASE f = saving
        <5>1. until[f] \in Seq(0 .. MaxTime) /\ until'[f] = Append(until[f], now)
          BY <2>3, <4>1 DEF TypeOK
        <5>2. Len(until[f]) \in Nat
          BY UntilType
        <5> QED
          BY <2>1, <3>1, <5>1, <5>2, AppendFacts
      <4>2. CASE f # saving
        BY <2>3, <3>1, <4>2 DEF TypeOK
      <4> QED
        BY <4>1, <4>2
    <3>2. FillFresh'
      <4>1. \A o \in Requests : At(o, "fill") => req[o].entry \in Entries
        BY DEF At, TypeOK, Request
      <4> QED
        BY <2>1, <3>1, <4>1 DEF FillFresh, At
    <3>3. CachedFresh'
      <4>1. \A f \in Entries : cached[f] # None => cached[f].time <= now
        BY DEF CachedFresh
      <4> QED
        BY <2>1, <3>1, <4>1 DEF CachedFresh
    <3> QED
      BY <3>2, <3>3
  <2> QED
    BY <1>5, <2>2, <2>3 DEF EndSave
<1>6. ASSUME NEW r \in Requests, NEW e \in Entries, NEW atomic \in BOOLEAN, Miss(r, e, atomic)
      PROVE  FillFresh' /\ CachedFresh'
  BY <1>6, MissEffect, NewFresh DEF At
<1>7. ASSUME NEW r \in Requests, Check(r) PROVE FillFresh' /\ CachedFresh'
  BY <1>7, CheckEffect, NewFresh DEF At
<1>8. ASSUME NEW r \in Requests, EndRequest(r) PROVE FillFresh' /\ CachedFresh'
  BY <1>8, EndEffect, NewFresh DEF At
<1>9. ASSUME NEW e \in Entries, Save(e) PROVE FillFresh' /\ CachedFresh'
  <2>1. \A f \in Entries : cached'[f] \in {None, cached[f]}
    BY <1>9 DEF Save, TypeOK
  <2>2. UNCHANGED <<now, until, req>>
    BY <1>9 DEF Save
  <2> QED
    BY <2>1, <2>2, NewFresh
<1>10. ASSUME NEW r \in Requests, NEW e \in Entries, Hit(r, e) PROVE FillFresh' /\ CachedFresh'
  BY <1>10, NewFresh DEF Hit
<1>11. CASE UNCHANGED <<now, contextVars>>
  BY <1>11, NewFresh DEF contextVars
<1> QED
  BY <1>1, <1>2, <1>3, <1>4, <1>5, <1>6, <1>7, <1>8, <1>9, <1>10, <1>11
     DEF Next, SavePage, DragPage, DeletePage, vars

LEMMA ShownStep ==
  TypeOK /\ Counted /\ MadeOnce /\ FillFresh /\ CachedFresh /\ ShownFresh /\ [Next]_vars
    => ShownFresh'
<1> SUFFICES ASSUME TypeOK, Counted, MadeOnce, FillFresh, CachedFresh, ShownFresh, [Next]_vars
             PROVE  ShownFresh'
  OBVIOUS
<1> USE ContextAssumption
<1>1. ASSUME NEW r \in Requests, NEW e \in Entries, Hit(r, e) PROVE ShownFresh'
  <2> DEFINE c == cached[e]
  <2>1. /\ c # None /\ now - c.time < TTL /\ UNCHANGED <<table, until>>
        /\ shown' = [entry |-> e, version |-> c.version, time |-> now, latest |-> table[e],
                     crossed |-> e \in crossed]
    BY <1>1 DEF Hit, Usable, Show
  <2>2. c.version \in DOMAIN until[e] => until[e][c.version] >= c.time
    BY <2>1 DEF CachedFresh
  <2>3. now \in Nat /\ table[e] \in Nat /\ c.time \in Nat
    BY <2>1 DEF TypeOK, Version
  <2>4. \A v \in DOMAIN until[e] : until[e][v] \in Nat
    BY UntilType
  <2>5. c.version \in DOMAIN until[e] => now - until[e][c.version] < TTL
    BY <2>1, <2>2, <2>3, <2>4
  <2>6. table[e] <= table[e]
    BY <2>3
  <2> QED
    BY <2>1, <2>5, <2>6 DEF ShownFresh
<1>2. ASSUME NEW r \in Requests, Fill(r) PROVE ShownFresh'
  <2> DEFINE e == req[r].entry
             v == req[r].version
  <2>1. /\ e \in Entries /\ At(r, "fill") /\ UNCHANGED <<table, until>>
        /\ shown' = [entry |-> e, version |-> v, time |-> now, latest |-> table[e],
                     crossed |-> e \in crossed]
    BY <1>2, FillEffect
  <2>2. v \in DOMAIN until[e] => until[e][v] >= now
    BY <2>1 DEF FillFresh
  <2>3. now \in Nat /\ table[e] \in Nat
    BY <2>1 DEF TypeOK
  <2>4. v \in DOMAIN until[e] => until[e][v] \in Nat
    BY <2>1, UntilType
  <2>5. v \in DOMAIN until[e] => now - until[e][v] < TTL
    BY <2>2, <2>3, <2>4
  <2>6. table[e] <= table[e]
    BY <2>3
  <2> QED
    BY <2>1, <2>5, <2>6 DEF ShownFresh
<1>3. CASE EndSave
  <2> DEFINE e == shown.entry
  <2> SUFFICES ASSUME e # None
               PROVE  /\ shown.latest <= table'[e]
                      /\ shown.version \in DOMAIN until'[e] /\ shown.version < shown.latest
                           => shown.time - until'[e][shown.version] < TTL
    BY <1>3 DEF EndSave, ShownFresh
  <2>1. e \in Entries /\ shown.latest \in Nat /\ shown.version \in Nat
    BY DEF TypeOK
  <2>2. saving \in Entries /\ table[saving] # 0 /\ table[e] \in Nat
    BY <1>3, <2>1 DEF EndSave, TypeOK, MadeOnce
  <2>3. shown.latest <= table[e]
    BY DEF ShownFresh
  <2>4. CASE UNCHANGED <<table, until>>
    BY <2>3, <2>4 DEF ShownFresh
  <2>5. CASE e # saving /\ table' = [table EXCEPT ![saving] = @ + 1]
                        /\ until' = [until EXCEPT ![saving] = Append(@, now)]
    <3>1. table'[e] = table[e] /\ until'[e] = until[e]
      BY <2>1, <2>2, <2>5 DEF TypeOK
    <3> QED
      BY <2>3, <3>1 DEF ShownFresh
  <2>6. CASE e = saving /\ table' = [table EXCEPT ![saving] = @ + 1]
                        /\ until' = [until EXCEPT ![saving] = Append(@, now)]
    <3>1. table'[e] = table[e] + 1 /\ until'[e] = Append(until[e], now)
      BY <2>1, <2>6 DEF TypeOK
    <3>2. Len(until[e]) = table[e] - 1
      BY <2>2, <2>6 DEF Counted
    <3>3. until[e] \in Seq(0 .. MaxTime) /\ now \in 0 .. MaxTime
      BY <2>1 DEF TypeOK
    <3>4. ASSUME shown.version \in DOMAIN until'[e], shown.version < shown.latest
          PROVE  shown.version \in DOMAIN until[e] /\ until'[e][shown.version] = until[e][shown.version]
      BY <2>1, <2>2, <2>3, <3>1, <3>2, <3>3, <3>4, AppendFacts
    <3>5. shown.latest <= table'[e]
      BY <2>1, <2>2, <2>3, <3>1
    <3> QED
      BY <3>4, <3>5 DEF ShownFresh
  <2> QED
    BY <1>3, <2>4, <2>5, <2>6 DEF EndSave
<1>4. ASSUME UNCHANGED <<until, shown>>, \A f \in Entries : table'[f] >= table[f]
      PROVE  ShownFresh'
  <2>1. shown.entry # None => /\ shown.entry \in Entries /\ shown.latest \in Nat
                              /\ table[shown.entry] \in Nat
    BY DEF TypeOK
  <2>2. shown.entry # None => shown.latest <= table'[shown.entry] \/ table'[shown.entry] \notin Nat
    BY <1>4, <2>1 DEF ShownFresh
  <2> QED
    BY <1>4, <2>1, <2>2, TypeStep DEF ShownFresh, TypeOK
<1>5. \A f \in Entries : table[f] \in Nat /\ table[f] >= table[f]
  BY DEF TypeOK
<1>6. ASSUME UNCHANGED <<until, shown, table>> PROVE ShownFresh'
  BY <1>6 DEF ShownFresh
<1>7. ASSUME NEW r \in Requests, Insert(r) PROVE ShownFresh'
  <2>1. /\ \A f \in Entries : table'[f] = table[f] \/ (table[f] = 0 /\ table'[f] = 1)
        /\ UNCHANGED <<until, shown>>
    BY <1>7, InsertEffect
  <2> QED
    BY <1>4, <1>5, <2>1
<1>8. ASSUME NEW r \in Requests, EndRequest(r) PROVE ShownFresh'
  <2>1. table[req[r].entry] = 0
    BY <1>8, EndEffect DEF MadeOnce
  <2>2. /\ \A f \in Entries : table'[f] = table[f] \/ (table[f] = 0 /\ table'[f] = 1)
        /\ UNCHANGED <<until, shown>>
    BY <1>8, <2>1, EndEffect
  <2> QED
    BY <1>4, <1>5, <2>2
<1>9. ASSUME NEW r \in Requests, NEW e \in Entries, NEW atomic \in BOOLEAN,
             Miss(r, e, atomic)
      PROVE  ShownFresh'
  BY <1>6, <1>9 DEF Miss
<1>11. ASSUME NEW r \in Requests, Get(r) \/ Check(r) PROVE ShownFresh'
  BY <1>6, <1>11 DEF Get, Check
<1>12. ASSUME NEW e \in Entries, Save(e) PROVE ShownFresh'
  BY <1>6, <1>12 DEF Save
<1>10. CASE Tick \/ UNCHANGED contextVars
  BY <1>6, <1>10 DEF Tick, contextVars
<1> QED
  BY <1>1, <1>2, <1>3, <1>7, <1>8, <1>9, <1>10, <1>11, <1>12
     DEF Next, SavePage, DragPage, DeletePage, vars

(***************************************************************************)
(* Nothing old at all                                                      *)
(***************************************************************************)

\* While the versions stand and no save begins or ends, what is new among the
\* requests and in the cache must be of the version in force.
LEMMA NewClear ==
  ASSUME TypeOK, Clear, crossed \subseteq crossed', UNCHANGED <<saving, table>>,
         \A f \in Entries : cached'[f] \in {None, cached[f]}
                            \/ (saving # f /\ cached'[f].version >= table[f]),
         \A o \in Requests : \/ req'[o] \in {Idle, req[o]}
                             \/ /\ saving = req'[o].entry => saving \in crossed'
                                /\ At(o, "fill")' => req'[o].version >= table[req'[o].entry]
  PROVE  Clear'
BY DEF Clear, At, Entries

LEMMA ClearStep == TypeOK /\ MadeOnce /\ FillFresh /\ CachedFresh /\ Clear /\ [Next]_vars => Clear'
<1> SUFFICES ASSUME TypeOK, MadeOnce, FillFresh, CachedFresh, Clear, [Next]_vars PROVE Clear'
  OBVIOUS
<1> USE ContextAssumption
<1>1. ASSUME NEW r \in Requests, NEW e \in Entries, NEW atomic \in BOOLEAN, Miss(r, e, atomic)
      PROVE  Clear'
  BY <1>1, MissEffect, NewClear DEF At
<1>2. ASSUME NEW r \in Requests, Get(r) PROVE Clear'
  <2> DEFINE e == req[r].entry
  <2>1. /\ e \in Entries /\ req[r] # Idle /\ req'[r].entry = e /\ req'[r].version = table[e]
        /\ \A o \in Requests \ {r} : req'[o] = req[o]
        /\ UNCHANGED <<cached, saving, table, crossed>>
    BY <1>2, GetEffect
  <2>2. table[e] >= table[e]
    BY <2>1 DEF TypeOK
  <2> QED
    BY <2>1, <2>2 DEF Clear, At
<1>3. ASSUME NEW r \in Requests, Check(r) PROVE Clear'
  BY <1>3, CheckEffect DEF Clear, At
<1>4. ASSUME NEW r \in Requests, Insert(r) PROVE Clear'
  <2> DEFINE e == req[r].entry
  <2>1. /\ e \in Entries /\ req[r] # Idle /\ req'[r] # Idle /\ req'[r].entry = e
        /\ req'[r].version = IF table[e] = 0 THEN 1 ELSE table[e]
        /\ \A o \in Requests \ {r} : req'[o] = req[o]
        /\ UNCHANGED <<saving, crossed>>
    BY <1>4, InsertEffect
  <2>2. /\ table'[e] = table[e] \/ (table[e] = 0 /\ table'[e] = 1)
        /\ \A f \in Entries \ {e} : table'[f] = table[f]
        /\ \A f \in Entries : cached'[f] = cached[f] \/ cached'[f] = None
    BY <1>4, InsertEffect
  <2>3. table[e] \in Nat /\ req'[r].version >= table'[e]
    BY <2>1, <2>2 DEF TypeOK
  <2>4. ASSUME NEW f \in Singletons \ crossed', cached'[f] # None
        PROVE  cached'[f].version >= table'[f]
    <3>1. cached'[f] = cached[f] /\ cached[f].version >= table[f] /\ cached[f].version >= 1
      BY <2>1, <2>2, <2>4 DEF Clear, CachedFresh, Entries
    <3> QED
      BY <2>1, <2>2, <3>1 DEF Entries
  <2>5. ASSUME NEW f \in Singletons \ crossed', NEW o \in Requests, At(o, "fill")',
               req'[o].entry = f
        PROVE  req'[o].version >= table'[f]
    <3>1. CASE o = r
      BY <2>1, <2>3, <2>5, <3>1
    <3>2. CASE o # r
      <4>1. At(o, "fill") /\ req'[o] = req[o] /\ req[o].version >= table[f] /\ req[o].version >= 1
        BY <2>1, <2>5, <3>2 DEF At, Clear, FillFresh
      <4> QED
        BY <2>2, <4>1 DEF Entries
    <3> QED
      BY <3>1, <3>2
  <2>6. ASSUME NEW f \in Singletons \ crossed', saving' = f
        PROVE  cached'[f] = None /\ \A o \in Requests : req'[o] # Idle => req'[o].entry # f
    <3>1. cached[f] = None /\ \A o \in Requests : req[o] # Idle => req[o].entry # f
      BY <2>1, <2>6 DEF Clear
    <3> QED
      BY <2>1, <2>2, <3>1 DEF Entries
  <2> QED
    BY <2>4, <2>5, <2>6 DEF Clear
<1>5. ASSUME NEW r \in Requests, Fill(r) PROVE Clear'
  <2> DEFINE e == req[r].entry
  <2>1. /\ e \in Entries /\ At(r, "fill")
        /\ \A f \in Entries \ {e} : cached'[f] = cached[f]
        /\ req'[r] = Idle \/ (req'[r].at = "end" /\ req'[r].entry = e)
        /\ \A o \in Requests \ {r} : req'[o] = req[o]
        /\ UNCHANGED <<saving, table, crossed>>
    BY <1>5, FillEffect
  <2>2. cached'[e].version = req[r].version
    <3>1. cached'[e] = [version |-> req[r].version, time |-> now]
      BY <1>5, FillEffect
    <3> QED
      BY <3>1
  <2>3. ASSUME NEW f \in Singletons \ crossed, f = e
        PROVE  cached'[f].version >= table[f] /\ saving # f
    BY <2>1, <2>2, <2>3 DEF Clear, At
  <2> QED
    BY <2>1, <2>3 DEF Clear, At, Entries
<1>6. ASSUME NEW r \in Requests, EndRequest(r) PROVE Clear'
  <2> DEFINE e == req[r].entry
  <2>1. /\ e \in Entries /\ table[e] = 0 /\ req'[r] = Idle
        /\ \A o \in Requests \ {r} : req'[o] = req[o]
        /\ table'[e] = 0 \/ table'[e] = 1
        /\ \A f \in Entries \ {e} : table'[f] = table[f]
        /\ UNCHANGED <<cached, saving, crossed>>
    BY <1>6, EndEffect DEF MadeOnce
  <2>2. ASSUME NEW f \in Singletons \ crossed, cached[f] # None
        PROVE  cached[f].version >= table'[f]
    <3>1. cached[f].version >= table[f] /\ cached[f].version >= 1 /\ cached[f].version \in Nat
      BY <2>2 DEF Clear, CachedFresh, Entries, TypeOK, Version
    <3> QED
      BY <2>1, <3>1 DEF Entries
  <2>3. ASSUME NEW f \in Singletons \ crossed, NEW o \in Requests, At(o, "fill")', req'[o].entry = f
        PROVE  req'[o].version >= table'[f]
    <3>1. At(o, "fill") /\ req'[o] = req[o]
      BY <2>1, <2>3 DEF At
    <3>2. req[o].version >= table[f] /\ req[o].version >= 1 /\ req[o].version \in Nat
      BY <2>3, <3>1 DEF Clear, FillFresh, At, TypeOK, Request
    <3> QED
      BY <2>1, <3>1, <3>2 DEF Entries
  <2> QED
    BY <2>1, <2>2, <2>3 DEF Clear
<1>7. ASSUME NEW e \in Entries, Save(e) PROVE Clear'
  <2>1. saving = None /\ saving' = e /\ UNCHANGED <<table, req>>
    BY <1>7 DEF Save
  <2>2. /\ e \in Singletons => cached'[e] = None
        /\ \A f \in Entries \ {e} : cached'[f] = cached[f]
    BY <1>7 DEF Save, TypeOK
  <2>3. crossed' = IF \E r \in Requests : req[r] # Idle /\ req[r].entry = e
                   THEN crossed \union {e} ELSE crossed \ {e}
    BY <1>7 DEF Save
  <2>4. ASSUME NEW f \in Singletons \ crossed', f # e
        PROVE  f \in Singletons \ crossed /\ cached'[f] = cached[f] /\ saving' # f
    BY <2>1, <2>2, <2>3, <2>4 DEF Entries
  <2>5. ASSUME e \in Singletons \ crossed'
        PROVE  cached'[e] = None /\ \A r \in Requests : req[r] # Idle => req[r].entry # e
    BY <2>2, <2>3, <2>5
  <2> QED
    BY <2>1, <2>4, <2>5 DEF Clear, At
<1>8. CASE EndSave
  <2>1. saving \in Entries /\ saving' = None /\ UNCHANGED <<cached, req, crossed>>
    BY <1>8 DEF EndSave, TypeOK
  <2>2. \A f \in Entries \ {saving} : table'[f] = table[f]
    BY <1>8, <2>1 DEF EndSave, TypeOK
  <2>3. ASSUME NEW f \in Singletons \ crossed, f = saving
        PROVE  cached[f] = None /\ \A o \in Requests : req[o] # Idle => req[o].entry # f
    BY <2>3 DEF Clear
  <2>4. \A f \in Singletons : f \in Entries /\ f # None
    BY DEF Entries
  <2> QED
    BY <2>1, <2>2, <2>3, <2>4 DEF Clear, At
<1>9. CASE Tick
  BY <1>9 DEF Tick, contextVars, Clear, At
<1>10. ASSUME NEW r \in Requests, NEW e \in Entries, Hit(r, e) PROVE Clear'
  BY <1>10 DEF Hit, Clear, At
<1>11. CASE UNCHANGED contextVars
  BY <1>11 DEF contextVars, Clear, At
<1> QED
  BY <1>1, <1>2, <1>3, <1>4, <1>5, <1>6, <1>7, <1>8, <1>9, <1>10, <1>11
     DEF Next, SavePage, DragPage, DeletePage, vars

LEMMA ShownOnceStep == TypeOK /\ Clear /\ ShownAtOnce /\ [Next]_vars => ShownAtOnce'
<1> SUFFICES ASSUME TypeOK, Clear, ShownAtOnce, [Next]_vars PROVE ShownAtOnce'
  OBVIOUS
<1>1. ASSUME NEW r \in Requests, NEW e \in Entries, Hit(r, e) PROVE ShownAtOnce'
  <2>1. shown' = [entry |-> e, version |-> cached[e].version, time |-> now, latest |-> table[e],
                  crossed |-> e \in crossed] /\ cached[e] # None
    BY <1>1 DEF Hit, Show, Usable
  <2>2. e \in Singletons \ crossed => cached[e].version >= table[e]
    BY <2>1 DEF Clear
  <2> QED
    BY <2>1, <2>2 DEF ShownAtOnce
<1>2. ASSUME NEW r \in Requests, Fill(r) PROVE ShownAtOnce'
  <2> DEFINE e == req[r].entry
  <2>1. /\ At(r, "fill")
        /\ shown' = [entry |-> e, version |-> req[r].version, time |-> now, latest |-> table[e],
                     crossed |-> e \in crossed]
    BY <1>2, FillEffect
  <2>2. e \in Singletons \ crossed => req[r].version >= table[e]
    BY <2>1 DEF Clear
  <2> QED
    BY <2>1, <2>2 DEF ShownAtOnce
<1>3. CASE UNCHANGED shown
  BY <1>3 DEF ShownAtOnce
<1> QED
  BY <1>1, <1>2, <1>3
     DEF Next, Tick, Miss, Get, Check, Insert, EndRequest, Save, EndSave,
         SavePage, DragPage, DeletePage, contextVars, vars

LEMMA ContextStart ==
  Init => /\ TypeOK /\ Counted /\ MadeOnce /\ FillFresh /\ CachedFresh /\ ShownFresh
          /\ Clear /\ ShownAtOnce
<1> SUFFICES ASSUME Init
             PROVE  /\ TypeOK /\ Counted /\ MadeOnce /\ FillFresh /\ CachedFresh /\ ShownFresh
                    /\ Clear /\ ShownAtOnce
  OBVIOUS
<1> USE ContextAssumption DEF Init
<1>1. TypeOK
  BY DEF TypeOK, Nothing
<1>2. Counted
  <2>1. Len(<<>>) = 0
    OBVIOUS
  <2> QED
    BY <2>1 DEF Counted
<1>3. MadeOnce /\ FillFresh /\ CachedFresh
  BY DEF MadeOnce, FillFresh, CachedFresh, At
<1>4. ShownFresh
  BY DEF ShownFresh, Nothing
<1>5. Clear
  <2>1. \A e \in Singletons : e \in Entries /\ e # None
    BY DEF Entries
  <2> QED
    BY <2>1 DEF Clear, At
<1>6. ShownAtOnce
  <2>1. None \notin Singletons
    BY DEF Entries
  <2> QED
    BY <2>1 DEF ShownAtOnce, Nothing
<1> QED
  BY <1>1, <1>2, <1>3, <1>4, <1>5, <1>6

\* Types of the cached entries, their rows and the requests in between.
THEOREM ContextTypeCorrect == Spec => []TypeOK
<1>1. Init => TypeOK
  BY ContextStart
<1> QED
  BY <1>1, TypeStep, PTL DEF Spec

\* No page is rendered with settings, terms or a menu replaced a cache's life
\* ago or longer (SiteSettings.load, navigation), whatever overlaps.
THEOREM ShownWithinTTLHolds == Spec => []ShownWithinTTL
<1> DEFINE Inv == TypeOK /\ Counted /\ MadeOnce /\ FillFresh /\ CachedFresh /\ ShownFresh
<1>1. Init => Inv
  BY ContextStart
<1>2. Inv /\ [Next]_vars => Inv'
  BY TypeStep, CountedStep, FreshStep, ShownStep
<1>3. Inv => ShownWithinTTL
  BY DEF ShownFresh, ShownWithinTTL
<1> QED
  BY <1>1, <1>2, <1>3, PTL DEF Spec

\* A saved setting shows on the next page (SiteSettings.save), unless a page
\* was being rendered meanwhile.
THEOREM ShownAtOnceHolds == Spec => []ShownAtOnce
<1> DEFINE Inv == TypeOK /\ Counted /\ MadeOnce /\ FillFresh /\ CachedFresh /\ Clear /\ ShownAtOnce
<1>1. Init => Inv
  BY ContextStart
<1>2. Inv /\ [Next]_vars => Inv'
  BY TypeStep, CountedStep, FreshStep, ClearStep, ShownOnceStep
<1> QED
  BY <1>1, <1>2, PTL DEF Spec

\* A first request never puts the defaults over settings saved since
\* (SiteSettings.load): the row it inserts is not there yet, and cannot be
\* saved by anybody until its own transaction is over.
THEOREM NeverBackToDefaultsHolds == Spec => NeverBackToDefaults
<1> DEFINE Inv == TypeOK /\ Counted /\ MadeOnce
<1>1. Init => Inv
  BY ContextStart
<1>2. Inv /\ [Next]_vars => Inv'
  BY TypeStep, CountedStep
<1>3. ASSUME Inv, [Next]_vars, NEW e \in Entries PROVE table'[e] >= table[e]
  <2>1. table[e] \in Nat
    BY <1>3 DEF TypeOK
  <2>2. ASSUME NEW r \in Requests, Insert(r) PROVE table'[e] >= table[e]
    BY <1>3, <2>1, <2>2 DEF Insert, TypeOK
  <2>3. ASSUME NEW r \in Requests, EndRequest(r) PROVE table'[e] >= table[e]
    <3>1. maker[req[r].entry] = r /\ req[r].entry \in Entries /\ r # None
      BY <1>3, <2>3, ContextAssumption DEF EndRequest, At, MadeOnce, TypeOK, Request
    <3>2. table[req[r].entry] = 0
      BY <1>3, <3>1 DEF MadeOnce
    <3> QED
      BY <1>3, <2>1, <2>3, <3>1, <3>2 DEF EndRequest, TypeOK
  <2>4. CASE EndSave
    <3>1. table \in [Entries -> Nat]
      BY <1>3 DEF TypeOK
    <3>2. CASE table' = [table EXCEPT ![saving] = table[saving] + 1]
      BY <3>1, <3>2
    <3> QED
      BY <2>1, <2>4, <3>2 DEF EndSave
  <2>5. CASE UNCHANGED table
    BY <2>1, <2>5
  <2>6. ASSUME NEW r \in Requests,
               \/ \E d \in Entries : Hit(r, d)
               \/ \E d \in Entries, atomic \in BOOLEAN : Miss(r, d, atomic)
               \/ Get(r) \/ Check(r) \/ Fill(r)
        PROVE  UNCHANGED table
    BY <2>6 DEF Hit, Miss, Get, Check, Fill
  <2>7. ASSUME NEW d \in Entries, Save(d) PROVE UNCHANGED table
    BY <2>7 DEF Save
  <2>8. ASSUME NEW p \in Pages,
               \/ \E s \in Slugs, parent \in Pages \union {None} : SavePage(p, s, parent)
               \/ \E parent \in Pages \union {None} : DragPage(p, parent)
               \/ DeletePage(p)
        PROVE  UNCHANGED table
    BY <2>8 DEF SavePage, DragPage, DeletePage, contextVars
  <2>9. CASE Tick \/ UNCHANGED vars
    BY <2>9, <2>5 DEF Tick, vars, contextVars
  <2> QED
    BY <1>3, <2>2, <2>3, <2>4, <2>5, <2>6, <2>7, <2>8, <2>9 DEF Next
<1>4. Inv /\ [Next]_vars => [\A e \in Entries : table'[e] >= table[e]]_table
  BY <1>3
<1> QED
  BY <1>1, <1>2, <1>4, PTL DEF Spec, NeverBackToDefaults
-----------------------------------------------------------------------------
(***************************************************************************)
(* The tree of pages.  Address and Subtree are recursive functions, so the *)
(* facts about them rest on three lemmas: a set of numbers has a least     *)
(* one, hence induction up to a bound, hence a function defined by what it *)
(* does to its previous value exists.                                      *)
(***************************************************************************)
\* A set of numbers that is not empty has a least one.
LEMMA LeastNatural ==
  ASSUME NEW T, T \subseteq Nat, T # {}
  PROVE  \E x \in T : \A y \in T : x <= y
<1> DEFINE R == OpToRel(<, Nat)
<1>1. IsWellFoundedOn(R, Nat)
  BY NatLessThanWellFounded
<1> HIDE DEF R
<1>2. PICK x \in T : \A y \in T : ~(<<y, x>> \in R)
  BY <1>1, WFMin
<1>3. \A m, n \in Nat : m < n => <<m, n>> \in R
  BY DEF R, OpToRel
<1>4. ASSUME NEW y \in T PROVE x <= y
  <2>1. x \in Nat /\ y \in Nat
    OBVIOUS
  <2>2. ~(y < x)
    BY <1>2, <1>3, <2>1
  <2> QED
    BY <2>1, <2>2
<1> QED
  BY <1>4

\* Induction up to a bound, the property as the set of numbers that have it.
LEMMA UpTo ==
  ASSUME NEW N \in Nat, NEW S, 0 \in S, \A n \in 1 .. N : n - 1 \in S => n \in S
  PROVE  0 .. N \subseteq S
<1> DEFINE T == {n \in 0 .. N : n \notin S}
<1>1. SUFFICES ASSUME T # {} PROVE FALSE
  OBVIOUS
<1>2. PICK x \in T : \A y \in T : x <= y
  <2>1. T \subseteq Nat
    OBVIOUS
  <2> HIDE DEF T
  <2> QED
    BY <1>1, <2>1, LeastNatural
<1>3. x \in 1 .. N /\ x - 1 \in 0 .. N /\ ~(x <= x - 1)
  BY <1>2
<1> QED
  BY <1>2, <1>3

\* Something repeated N times has a result after each time.
LEMMA Iterated ==
  ASSUME NEW N \in Nat, NEW V, NEW base \in V, NEW step \in [V -> V]
  PROVE  \E f \in [0 .. N -> V] :
           f[0] = base /\ \A n \in 0 .. N : n # 0 => f[n] = step[f[n - 1]]
<1> DEFINE S == {k \in 0 .. N : \E f \in [0 .. k -> V] :
                     f[0] = base /\ \A n \in 1 .. k : f[n] = step[f[n - 1]]}
<1>1. 0 \in S
  <2> DEFINE h == [n \in 0 .. 0 |-> base]
  <2>1. h \in [0 .. 0 -> V] /\ h[0] = base /\ \A n \in 1 .. 0 : h[n] = step[h[n - 1]]
    OBVIOUS
  <2> HIDE DEF h
  <2> QED
    BY <2>1
<1>2. ASSUME NEW k \in 1 .. N, k - 1 \in S PROVE k \in S
  <2>1. PICK g \in [0 .. (k - 1) -> V] :
               g[0] = base /\ \A n \in 1 .. (k - 1) : g[n] = step[g[n - 1]]
    BY <1>2
  <2> DEFINE h == [n \in 0 .. k |-> IF n = k THEN step[g[k - 1]] ELSE g[n]]
  <2>2. k - 1 \in 0 .. (k - 1) /\ \A n \in 0 .. k : n # k => n \in 0 .. (k - 1)
    OBVIOUS
  <2>3. g[k - 1] \in V
    BY <2>1, <2>2
  <2>4. h \in [0 .. k -> V] /\ h[0] = base
    BY <2>1, <2>2, <2>3
  <2>5. h[k] = step[h[k - 1]]
    BY <2>1, <2>2
  <2>6. ASSUME NEW n \in 1 .. k, n # k PROVE h[n] = step[h[n - 1]]
    <3>1. n \in 1 .. (k - 1) /\ n - 1 \in 0 .. k /\ n - 1 # k /\ n \in 0 .. k
      BY <2>6
    <3> QED
      BY <2>1, <2>6, <3>1
  <2> HIDE DEF h
  <2> QED
    BY <2>4, <2>5, <2>6
<1> HIDE DEF S
<1>3. N \in S
  BY <1>1, <1>2, UpTo
<1>4. PICK f \in [0 .. N -> V] : f[0] = base /\ \A n \in 1 .. N : f[n] = step[f[n - 1]]
  BY <1>3 DEF S
<1>5. \A n \in 0 .. N : n # 0 => n \in 1 .. N
  OBVIOUS
<1> QED
  BY <1>4, <1>5

\* Subtree is what its recursive definition says.
LEMMA SubtreeBuilt ==
  ASSUME NEW p \in Pages
  PROVE  \E f :
           /\ f[0] = {p}
           /\ \A n \in 1 .. Cardinality(Pages) :
                f[n] = f[n - 1] \union {q \in There : pages[q].parent \in f[n - 1]}
           /\ Subtree(p) = f[Cardinality(Pages)]
<1> DEFINE N == Cardinality(Pages)
           V == SUBSET Pages
           base == {p}
           step == [X \in V |-> X \union {q \in There : pages[q].parent \in X}]
           below[n \in 0 .. N] ==
             IF n = 0 THEN {p}
             ELSE below[n - 1] \union {q \in There : pages[q].parent \in below[n - 1]}
<1>1. Subtree(p) = below[N]
  BY DEF Subtree
<1>2. N \in Nat /\ step \in [V -> V] /\ base \in V
  BY ContextAssumption, FS_CardinalityType DEF There
<1>3. PICK f \in [0 .. N -> V] :
           f[0] = base /\ \A n \in 0 .. N : n # 0 => f[n] = step[f[n - 1]]
  <2> HIDE DEF step, N, V, base
  <2> QED
    BY <1>2, Iterated
<1>4. f = [n \in 0 .. N |-> IF n = 0 THEN {p}
                            ELSE f[n - 1] \union {q \in There : pages[q].parent \in f[n - 1]}]
  <2>1. ASSUME NEW n \in 1 .. N
        PROVE  f[n] = f[n - 1] \union {q \in There : pages[q].parent \in f[n - 1]}
    <3>1. n - 1 \in 0 .. N /\ n \in 0 .. N /\ n # 0
      BY <1>2
    <3>2. f[n - 1] \in V /\ f[n] = step[f[n - 1]]
      BY <1>3, <3>1
    <3> HIDE DEF V
    <3> QED
      BY <3>2
  <2>2. \A n \in 0 .. N : n = 0 \/ n \in 1 .. N
    BY <1>2
  <2> HIDE DEF step, N, V
  <2> QED
    BY <1>3, <2>1, <2>2
<1>5. below = [n \in 0 .. N |-> IF n = 0 THEN {p}
                 ELSE below[n - 1] \union {q \in There : pages[q].parent \in below[n - 1]}]
  BY <1>4
<1> HIDE DEF below
<1>6. /\ \A n \in 1 .. N : below[n] = below[n - 1] \union {q \in There : pages[q].parent \in below[n - 1]}
      /\ below[0] = {p}
  BY <1>2, <1>5
<1> QED
  BY <1>1, <1>6

\* The pages below a page stay below it: looking as many levels down as there
\* are pages finds them all.
LEMMA SubtreeClosed ==
  ASSUME NEW p \in Pages
  PROVE  /\ p \in Subtree(p) /\ Subtree(p) \subseteq Pages
         /\ \A q \in There : pages[q].parent \in Subtree(p) => q \in Subtree(p)
<1> DEFINE N == Cardinality(Pages)
           Closed(X) == \A q \in There : pages[q].parent \in X => q \in X
<1>1. PICK f :
           /\ f[0] = {p}
           /\ \A n \in 1 .. N : f[n] = f[n - 1] \union {q \in There : pages[q].parent \in f[n - 1]}
           /\ Subtree(p) = f[N]
  BY SubtreeBuilt
<1>2. N \in Nat
  BY ContextAssumption, FS_CardinalityType
<1> DEFINE S == {n \in 0 .. N : /\ p \in f[n] /\ f[n] \subseteq Pages
                                /\ Closed(f[n]) \/ Cardinality(f[n]) >= n + 1}
<1>3. 0 \in S
  <2>1. Cardinality({p}) = 1
    BY FS_Singleton
  <2>2. f[0] = {p} /\ 0 \in 0 .. N /\ Cardinality(f[0]) >= 0 + 1
    BY <1>1, <1>2, <2>1
  <2> QED
    BY <2>2
<1>4. ASSUME NEW n \in 1 .. N, n - 1 \in S PROVE n \in S
  <2> DEFINE X == f[n - 1]
             Y == f[n]
  <2>1. Y = X \union {q \in There : pages[q].parent \in X}
    BY <1>1
  <2>2. p \in X /\ X \subseteq Pages /\ (Closed(X) \/ Cardinality(X) >= n)
    BY <1>2, <1>4
  <2>3. p \in Y /\ Y \subseteq Pages
    BY <2>1, <2>2 DEF There
  <2>4. CASE Closed(X)
    <3>1. Y = X
      BY <2>1, <2>4
    <3> QED
      BY <1>2, <2>3, <2>4, <3>1
  <2>5. CASE ~Closed(X) /\ Cardinality(X) >= n
    <3>1. X \subseteq Y /\ X # Y
      BY <2>1, <2>5
    <3>2. IsFiniteSet(Y)
      BY <2>3, ContextAssumption, FS_Subset
    <3> HIDE DEF X, Y
    <3>3. /\ Cardinality(Y) \in Nat /\ Cardinality(X) \in Nat
          /\ Cardinality(X) <= Cardinality(Y) /\ Cardinality(X) # Cardinality(Y)
      BY <3>1, <3>2, FS_Subset, FS_CardinalityType
    <3>4. Cardinality(Y) >= n + 1
      BY <2>5, <3>3
    <3> QED
      BY <1>2, <2>3, <3>4 DEF Y
  <2> QED
    BY <2>2, <2>4, <2>5
<1>5. N \in S
  <2> HIDE DEF S, N
  <2>1. 0 .. N \subseteq S
    BY <1>2, <1>3, <1>4, UpTo
  <2> QED
    BY <1>2, <2>1
<1>6. Cardinality(f[N]) <= N
  BY <1>5, ContextAssumption, FS_Subset
<1>7. Cardinality(f[N]) \in Nat
  BY <1>5, ContextAssumption, FS_Subset, FS_CardinalityType
<1> QED
  BY <1>1, <1>2, <1>5, <1>6, <1>7

\* A tree a save may leave: whoever has a parent has one that is there.
Rooted(tree) ==
    /\ tree \in [Pages -> Page \union {None}]
    /\ \A q \in Pages : tree[q] # None /\ tree[q].parent # None => tree[tree[q].parent] # None

\* Address is what its recursive definition says, and a sequence of slugs.
LEMMA AddressBuilt ==
  ASSUME NEW tree, Rooted(tree)
  PROVE  LET T == {q \in Pages : tree[q] # None}
             N == Cardinality(Pages)
         IN \E f \in [0 .. N -> [T -> Seq(Slugs)]] :
              /\ Address(tree) = f[N]
              /\ \A n \in 0 .. N : \A p \in T :
                   f[n][p] = IF tree[p].parent = None \/ n = 0 THEN <<tree[p].slug>>
                             ELSE Append(f[n - 1][tree[p].parent], tree[p].slug)
<1> DEFINE N == Cardinality(Pages)
           T == {q \in Pages : tree[q] # None}
           V == [T -> Seq(Slugs)]
           base == [p \in T |-> <<tree[p].slug>>]
           step == [g \in V |-> [p \in T |->
             IF tree[p].parent = None THEN <<tree[p].slug>>
             ELSE Append(g[tree[p].parent], tree[p].slug)]]
           of[n \in 0 .. N] == [p \in {q \in Pages : tree[q] # None} |->
             IF tree[p].parent = None \/ n = 0 THEN <<tree[p].slug>>
             ELSE Append(of[n - 1][tree[p].parent], tree[p].slug)]
<1>1. Address(tree) = of[N]
  BY DEF Address
<1>2. N \in Nat
  BY ContextAssumption, FS_CardinalityType
<1>3. \A p \in T : /\ tree[p].slug \in Slugs
                   /\ tree[p].parent = None \/ tree[p].parent \in T
  BY DEF Rooted, Page
<1>4. step \in [V -> V] /\ base \in V
  <2>1. base \in V
    BY <1>3
  <2>2. ASSUME NEW g \in V PROVE step[g] \in V
    <3>1. \A p \in T : tree[p].parent # None =>
              Append(g[tree[p].parent], tree[p].slug) \in Seq(Slugs)
      BY <1>3
    <3>2. \A p \in T : <<tree[p].slug>> \in Seq(Slugs)
      BY <1>3
    <3> QED
      BY <3>1, <3>2
  <2> QED
    BY <2>1, <2>2
<1>5. PICK f \in [0 .. N -> V] :
           f[0] = base /\ \A n \in 0 .. N : n # 0 => f[n] = step[f[n - 1]]
  <2> HIDE DEF step, N, V, base
  <2> QED
    BY <1>2, <1>4, Iterated
<1>6. ASSUME NEW n \in 0 .. N
      PROVE  f[n] = [p \in T |->
                       IF tree[p].parent = None \/ n = 0 THEN <<tree[p].slug>>
                       ELSE Append(f[n - 1][tree[p].parent], tree[p].slug)]
  <2>1. CASE n = 0
    BY <1>5, <2>1
  <2>2. CASE n # 0
    <3>1. n - 1 \in 0 .. N
      BY <1>2, <2>2
    <3>2. f[n - 1] \in V /\ f[n] = step[f[n - 1]]
      BY <1>5, <2>2, <3>1
    <3> HIDE DEF V
    <3>3. f[n] = [p \in T |-> IF tree[p].parent = None THEN <<tree[p].slug>>
                              ELSE Append(f[n - 1][tree[p].parent], tree[p].slug)]
      BY <3>2
    <3> QED
      BY <2>2, <3>3
  <2> QED
    BY <2>1, <2>2
<1>7. f = [n \in 0 .. N |-> [p \in T |->
             IF tree[p].parent = None \/ n = 0 THEN <<tree[p].slug>>
             ELSE Append(f[n - 1][tree[p].parent], tree[p].slug)]]
  <2> HIDE DEF V, N, T
  <2> QED
    BY <1>5, <1>6
<1>8. of = [n \in 0 .. N |-> [p \in T |->
              IF tree[p].parent = None \/ n = 0 THEN <<tree[p].slug>>
              ELSE Append(of[n - 1][tree[p].parent], tree[p].slug)]]
  BY <1>7
<1> HIDE DEF of, base, step
<1>9. \A n \in 0 .. N : of[n] = [p \in T |->
              IF tree[p].parent = None \/ n = 0 THEN <<tree[p].slug>>
              ELSE Append(of[n - 1][tree[p].parent], tree[p].slug)]
  <2> HIDE DEF T, N
  <2> QED
    BY <1>8
<1>10. of \in [0 .. N -> V]
  <2> DEFINE S == {n \in 0 .. N : of[n] \in V}
  <2>1. 0 \in S
    <3>1. 0 \in 0 .. N
      BY <1>2
    <3>2. of[0] = [p \in T |-> <<tree[p].slug>>]
      <4> HIDE DEF N, T
      <4> QED
        BY <1>9, <3>1
    <3>3. of[0] \in V
      BY <1>4, <3>2 DEF base
    <3> QED
      BY <3>1, <3>3
  <2>2. ASSUME NEW n \in 1 .. N, n - 1 \in S PROVE n \in S
    <3>1. n \in 0 .. N /\ n # 0 /\ of[n - 1] \in V
      BY <1>2, <2>2
    <3>2. of[n] = [p \in T |-> IF tree[p].parent = None THEN <<tree[p].slug>>
                               ELSE Append(of[n - 1][tree[p].parent], tree[p].slug)]
      BY <1>9, <3>1
    <3> DEFINE Word(p) == IF tree[p].parent = None THEN <<tree[p].slug>>
                          ELSE Append(of[n - 1][tree[p].parent], tree[p].slug)
    <3>3. ASSUME NEW p \in T PROVE Word(p) \in Seq(Slugs)
      <4>1. CASE tree[p].parent = None
        BY <1>3, <4>1
      <4>2. CASE tree[p].parent # None
        <5> DEFINE word == of[n - 1][tree[p].parent]
        <5>1. tree[p].parent \in T /\ tree[p].slug \in Slugs
          BY <1>3, <4>2
        <5>2. word \in Seq(Slugs)
          BY <3>1, <5>1
        <5>3. Append(word, tree[p].slug) \in Seq(Slugs)
          <6> HIDE DEF word
          <6> QED
            BY <5>1, <5>2
        <5> QED
          BY <4>2, <5>3
      <4> QED
        BY <4>1, <4>2
    <3>4. of[n] = [p \in T |-> Word(p)]
      BY <3>2
    <3> HIDE DEF Word
    <3> QED
      BY <3>1, <3>3, <3>4
  <2> HIDE DEF S, N
  <2>3. 0 .. N \subseteq S
    BY <1>2, <2>1, <2>2, UpTo
  <2>4. \A n \in 0 .. N : of[n] \in V
    BY <2>3 DEF S
  <2>5. DOMAIN of = 0 .. N /\ of = [n \in DOMAIN of |-> of[n]]
    BY <1>8
  <2> HIDE DEF V, T
  <2> QED
    BY <2>4, <2>5
<1>11. \A n \in 0 .. N : \A p \in T :
                   of[n][p] = IF tree[p].parent = None \/ n = 0 THEN <<tree[p].slug>>
                             ELSE Append(of[n - 1][tree[p].parent], tree[p].slug)
  <2> HIDE DEF N, T
  <2> QED
    BY <1>9
<1> HIDE DEF N, T
<1> QED
  BY <1>1, <1>10, <1>11 DEF T, N

\* Two trees that agree outside X, where nobody outside has a parent inside,
\* give the pages outside the same addresses.
LEMMA AddressAgrees ==
  ASSUME NEW t, NEW u, NEW X, Rooted(t), Rooted(u),
         \A q \in Pages \ X :
           /\ t[q] # None <=> u[q] # None
           /\ t[q] # None => /\ t[q].slug = u[q].slug /\ t[q].parent = u[q].parent
                             /\ t[q].parent \notin X
  PROVE  \A q \in Pages \ X : t[q] # None => Address(t)[q] = Address(u)[q]
<1> DEFINE N == Cardinality(Pages)
           T == {q \in Pages : t[q] # None}
           U == {q \in Pages : u[q] # None}
<1>1. PICK f \in [0 .. N -> [T -> Seq(Slugs)]] :
              /\ Address(t) = f[N]
              /\ \A n \in 0 .. N : \A p \in T :
                   f[n][p] = IF t[p].parent = None \/ n = 0 THEN <<t[p].slug>>
                             ELSE Append(f[n - 1][t[p].parent], t[p].slug)
  BY AddressBuilt
<1>2. PICK g \in [0 .. N -> [U -> Seq(Slugs)]] :
              /\ Address(u) = g[N]
              /\ \A n \in 0 .. N : \A p \in U :
                   g[n][p] = IF u[p].parent = None \/ n = 0 THEN <<u[p].slug>>
                             ELSE Append(g[n - 1][u[p].parent], u[p].slug)
  BY AddressBuilt
<1>3. N \in Nat
  BY ContextAssumption, FS_CardinalityType
<1>4. \A q \in T \ X : /\ q \in U /\ t[q].slug = u[q].slug /\ t[q].parent = u[q].parent
                       /\ t[q].parent # None => t[q].parent \in T \ X
  BY DEF Rooted, Page
<1> DEFINE S == {n \in 0 .. N : \A q \in T \ X : f[n][q] = g[n][q]}
<1> HIDE DEF N, T, U
<1>5. 0 \in S
  <2>1. 0 \in 0 .. N
    BY <1>3
  <2>2. ASSUME NEW q \in T \ X PROVE f[0][q] = g[0][q]
    <3>1. f[0][q] = <<t[q].slug>>
      BY <1>1, <2>1
    <3>2. g[0][q] = <<u[q].slug>>
      BY <1>2, <1>4, <2>1
    <3> QED
      BY <1>4, <3>1, <3>2
  <2> QED
    BY <2>1, <2>2
<1>6. ASSUME NEW n \in 1 .. N, n - 1 \in S PROVE n \in S
  <2>1. n \in 0 .. N /\ n # 0 /\ \A q \in T \ X : f[n - 1][q] = g[n - 1][q]
    BY <1>3, <1>6
  <2>2. ASSUME NEW q \in T \ X PROVE f[n][q] = g[n][q]
    <3>1. CASE t[q].parent = None
      <4>1. f[n][q] = <<t[q].slug>>
        BY <1>1, <2>1, <3>1
      <4>2. g[n][q] = <<u[q].slug>>
        BY <1>2, <1>4, <2>1, <3>1
      <4> QED
        BY <1>4, <4>1, <4>2
    <3>2. CASE t[q].parent # None
      <4>1. f[n][q] = Append(f[n - 1][t[q].parent], t[q].slug)
        BY <1>1, <2>1, <3>2
      <4>2. g[n][q] = Append(g[n - 1][u[q].parent], u[q].slug)
        BY <1>2, <1>4, <2>1, <3>2
      <4>3. f[n - 1][t[q].parent] = g[n - 1][u[q].parent]
        BY <1>4, <2>1, <3>2
      <4> QED
        BY <1>4, <4>1, <4>2, <4>3
    <3> QED
      BY <3>1, <3>2
  <2> QED
    BY <2>1, <2>2
<1>7. N \in S
  <2> HIDE DEF S
  <2>1. 0 .. N \subseteq S
    BY <1>3, <1>5, <1>6, UpTo
  <2> QED
    BY <1>3, <2>1
<1> QED
  BY <1>1, <1>2, <1>7 DEF T

\* The tree of pages is sound, and so are the addresses of those not excused.
PagesOK == Rooted(pages) /\ stale \subseteq Pages
PageInv == PagesOK /\ PathTrue

\* Saving, moving or deleting a page touches the addresses of its branch alone.
LEMMA SavePageStep ==
  ASSUME PageInv, NEW p \in Pages, NEW s \in Slugs, NEW parent \in Pages \union {None},
         SavePage(p, s, parent)
  PROVE  PageInv'
<1> DEFINE tree == Written(p, s, parent)
           path == PathOf(p, tree)
           X == IF pages[p] = None THEN {p} ELSE Subtree(p)
<1>1. /\ parent = None \/ parent \in There \ X
      /\ pages' = [tree EXCEPT ![p].path = path]
      /\ stale' = IF pages[p] = None THEN stale ELSE (stale \union Subtree(p)) \ {p}
  BY DEF SavePage
<1>2. p \in X /\ X \subseteq Pages /\ \A q \in There \ X : pages[q].parent \notin X
  <2>1. CASE pages[p] = None
    <3>1. p # None /\ X = {p}
      BY <2>1, ContextAssumption
    <3>2. \A q \in There : pages[q].parent # p
      BY <2>1, <3>1 DEF PageInv, PagesOK, Rooted, There
    <3> QED
      BY <3>1, <3>2
  <2>2. CASE pages[p] # None
    BY <2>2, SubtreeClosed
  <2> QED
    BY <2>1, <2>2
<1>3. [slug |-> s, parent |-> parent, path |-> <<>>] \in Page
  BY DEF Page
<1>4. /\ \A q \in Pages : q # p => tree[q] = pages[q]
      /\ tree[p] = [slug |-> s, parent |-> parent, path |-> <<>>]
      /\ tree \in [Pages -> Page \union {None}]
  BY <1>3 DEF Written, PageInv, PagesOK, Rooted
<1>5. \A r \in Page : r # None
  BY ContextAssumption
<1>6. Rooted(tree)
  <2> HIDE DEF X, tree
  <2>1. tree[p] # None
    BY <1>3, <1>4, <1>5
  <2>2. parent # None => tree[parent] # None
    BY <1>1, <1>2, <1>4 DEF There
  <2>3. ASSUME NEW q \in Pages, tree[q] # None, tree[q].parent # None, q # p
        PROVE  tree[tree[q].parent] # None
    <3>1. tree[q] = pages[q] /\ pages[q] \in Page
      BY <1>4, <2>3 DEF PageInv, PagesOK, Rooted
    <3>2. pages[q].parent \in Pages /\ pages[pages[q].parent] # None
      BY <2>3, <3>1 DEF PageInv, PagesOK, Rooted, Page
    <3> QED
      BY <1>4, <2>1, <3>1, <3>2
  <2> QED
    BY <1>4, <2>1, <2>2, <2>3 DEF Rooted
<1>7. path \in Seq(Slugs)
  <2> HIDE DEF tree
  <2>1. tree[p] # None
    BY <1>3, <1>4, <1>5
  <2> DEFINE N == Cardinality(Pages)
             T == {q \in Pages : tree[q] # None}
  <2>2. PICK f \in [0 .. N -> [T -> Seq(Slugs)]] : Address(tree) = f[N]
    BY <1>6, AddressBuilt
  <2>3. N \in 0 .. N
    BY ContextAssumption, FS_CardinalityType
  <2> QED
    BY <2>1, <2>2, <2>3 DEF PathOf
<1>8. /\ \A q \in Pages : q # p => pages'[q] = pages[q]
      /\ pages'[p] = [slug |-> s, parent |-> parent, path |-> path]
      /\ pages' \in [Pages -> Page \union {None}]
  <2> HIDE DEF tree, path
  <2>1. pages'[p] = [tree[p] EXCEPT !.path = path] /\ \A q \in Pages : q # p => pages'[q] = tree[q]
    BY <1>1, <1>4
  <2>2. pages'[p] = [slug |-> s, parent |-> parent, path |-> path]
    BY <1>4, <2>1
  <2>3. pages'[p] \in Page
    BY <1>7, <2>2 DEF Page
  <2>4. pages' = [q \in Pages |-> pages'[q]]
    BY <1>1, <1>4
  <2> QED
    BY <1>4, <2>1, <2>2, <2>3, <2>4
<1>9. pages'[p] # None /\ tree[p] # None
  BY <1>3, <1>4, <1>5, <1>7, <1>8 DEF Page
<1> HIDE DEF tree, path, X
<1>10. Rooted(pages')
  <2>1. \A q \in Pages : /\ tree[q] # None <=> pages'[q] # None
                         /\ tree[q].parent = pages'[q].parent
    BY <1>4, <1>8, <1>9
  <2>2. \A q \in Pages : tree[q] # None /\ tree[q].parent # None => tree[q].parent \in Pages
    BY <1>6 DEF Rooted, Page
  <2> QED
    BY <1>6, <1>8, <2>1, <2>2 DEF Rooted
<1>11. \A q \in Pages : tree[q] # None => Address(tree)[q] = Address(pages')[q]
  <2> DEFINE Nobody == {}
  <2>1. \A q \in Pages \ Nobody :
           /\ tree[q] # None <=> pages'[q] # None
           /\ tree[q] # None => /\ tree[q].slug = pages'[q].slug /\ tree[q].parent = pages'[q].parent
                                /\ tree[q].parent \notin Nobody
    BY <1>4, <1>8, <1>9
  <2> HIDE DEF Nobody
  <2>2. \A q \in Pages \ Nobody : tree[q] # None => Address(tree)[q] = Address(pages')[q]
    BY <1>6, <1>10, <2>1, AddressAgrees
  <2> QED
    BY <2>2 DEF Nobody
<1>12. \A q \in Pages \ X : pages[q] # None => Address(pages)[q] = Address(tree)[q]
  <2>1. \A q \in Pages \ X :
           /\ pages[q] # None <=> tree[q] # None
           /\ pages[q] # None => /\ pages[q].slug = tree[q].slug /\ pages[q].parent = tree[q].parent
                                 /\ pages[q].parent \notin X
    BY <1>2, <1>4 DEF There
  <2> QED
    BY <1>6, <2>1, AddressAgrees DEF PageInv, PagesOK
<1>13. ASSUME NEW q \in There', q \notin stale' PROVE pages'[q].path = Address(pages')[q]
  <2>1. CASE q = p
    <3>1. pages'[q].path = Address(tree)[p]
      BY <1>8, <2>1 DEF path, PathOf
    <3> QED
      BY <1>9, <1>11, <2>1, <3>1
  <2>2. CASE q # p
    <3>1. q \in There /\ q \notin stale /\ q \notin X
      BY <1>1, <1>8, <1>13, <2>2 DEF There, X
    <3>2. pages'[q].path = Address(pages)[q]
      BY <1>8, <2>2, <3>1 DEF PageInv, PathTrue, There
    <3>3. tree[q] # None /\ q \in Pages \ X /\ pages[q] # None
      BY <1>4, <2>2, <3>1 DEF There
    <3> QED
      BY <1>11, <1>12, <3>2, <3>3
  <2> QED
    BY <2>1, <2>2
<1>14. stale' \subseteq Pages
  BY <1>1, <1>2 DEF X, PageInv, PagesOK
<1> QED
  BY <1>10, <1>13, <1>14 DEF PageInv, PagesOK, PathTrue

LEMMA DragPageStep ==
  ASSUME PageInv, NEW p \in Pages, NEW parent \in Pages \union {None}, DragPage(p, parent)
  PROVE  PageInv'
<1>1. /\ p \in There /\ parent \in {None} \union (There \ Subtree(p))
      /\ pages' = [pages EXCEPT ![p].parent = parent]
      /\ stale' = stale \union Subtree(p)
  BY DEF DragPage
<1>2. /\ p \in Subtree(p) /\ Subtree(p) \subseteq Pages
      /\ \A q \in There : pages[q].parent \in Subtree(p) => q \in Subtree(p)
  BY SubtreeClosed
<1>3. pages \in [Pages -> Page \union {None}] /\ pages[p] \in Page
  BY <1>1 DEF PageInv, PagesOK, Rooted, There
<1>4. /\ pages' \in [Pages -> Page \union {None}] /\ pages'[p] \in Page
      /\ pages'[p].parent = parent
      /\ \A q \in Pages : q # p => pages'[q] = pages[q]
  <2>1. [pages[p] EXCEPT !.parent = parent] \in Page /\ [pages[p] EXCEPT !.parent = parent].parent = parent
    BY <1>3 DEF Page
  <2>2. pages' = [pages EXCEPT ![p] = [pages[p] EXCEPT !.parent = parent]]
    BY <1>1
  <2> HIDE DEF Page
  <2> QED
    BY <1>3, <2>1, <2>2
<1>5. pages'[p] # None
  BY <1>4, ContextAssumption
<1>6. Rooted(pages')
  BY <1>1, <1>4, <1>5 DEF Rooted, PageInv, PagesOK, There
<1>7. \A q \in Pages \ Subtree(p) :
           /\ pages[q] # None <=> pages'[q] # None
           /\ pages[q] # None => /\ pages[q].slug = pages'[q].slug /\ pages[q].parent = pages'[q].parent
                                 /\ pages[q].parent \notin Subtree(p)
  BY <1>2, <1>4 DEF There
<1>8. \A q \in Pages \ Subtree(p) : pages[q] # None => Address(pages)[q] = Address(pages')[q]
  BY <1>6, <1>7, AddressAgrees DEF PageInv, PagesOK
<1>9. ASSUME NEW q \in There', q \notin stale' PROVE pages'[q].path = Address(pages')[q]
  <2>1. q \in There /\ q \notin stale /\ q \in Pages \ Subtree(p) /\ pages'[q] = pages[q]
    BY <1>1, <1>2, <1>4, <1>9 DEF There
  <2>2. pages[q].path = Address(pages)[q] /\ pages[q] # None
    BY <2>1 DEF PageInv, PathTrue, There
  <2> QED
    BY <1>8, <2>1, <2>2
<1> QED
  BY <1>1, <1>2, <1>6, <1>9 DEF PageInv, PagesOK, PathTrue

LEMMA DeletePageStep ==
  ASSUME PageInv, NEW p \in Pages, DeletePage(p)
  PROVE  PageInv'
<1>1. /\ p \in There
      /\ pages' = [q \in Pages |-> IF q \in Subtree(p) THEN None ELSE pages[q]]
      /\ stale' = stale \ Subtree(p)
  BY DEF DeletePage
<1>2. /\ p \in Subtree(p) /\ Subtree(p) \subseteq Pages
      /\ \A q \in There : pages[q].parent \in Subtree(p) => q \in Subtree(p)
  BY SubtreeClosed
<1>3. Rooted(pages')
  <2>1. ASSUME NEW q \in Pages, pages'[q] # None, pages'[q].parent # None
        PROVE  pages'[pages'[q].parent] # None
    <3>1. q \notin Subtree(p) /\ pages'[q] = pages[q] /\ q \in There
      BY <1>1, <2>1 DEF There
    <3>2. pages[q].parent \in Pages /\ pages[pages[q].parent] # None
      BY <2>1, <3>1 DEF PageInv, PagesOK, Rooted, Page
    <3>3. pages[q].parent \notin Subtree(p)
      BY <1>2, <3>1
    <3> QED
      BY <1>1, <3>1, <3>2, <3>3
  <2> QED
    BY <1>1, <2>1 DEF Rooted, PageInv, PagesOK
<1>4. \A q \in Pages \ Subtree(p) :
           /\ pages[q] # None <=> pages'[q] # None
           /\ pages[q] # None => /\ pages[q].slug = pages'[q].slug /\ pages[q].parent = pages'[q].parent
                                 /\ pages[q].parent \notin Subtree(p)
  BY <1>1, <1>2 DEF There
<1>5. \A q \in Pages \ Subtree(p) : pages[q] # None => Address(pages)[q] = Address(pages')[q]
  BY <1>3, <1>4, AddressAgrees DEF PageInv, PagesOK
<1>6. ASSUME NEW q \in There', q \notin stale' PROVE pages'[q].path = Address(pages')[q]
  <2>1. q \in There /\ q \notin stale /\ q \in Pages \ Subtree(p) /\ pages'[q] = pages[q]
    BY <1>1, <1>6 DEF There
  <2>2. pages[q].path = Address(pages)[q] /\ pages[q] # None
    BY <2>1 DEF PageInv, PathTrue, There
  <2> QED
    BY <1>5, <2>1, <2>2
<1> QED
  BY <1>1, <1>3, <1>6 DEF PageInv, PagesOK, PathTrue

LEMMA PageStep == PageInv /\ [Next]_vars => PageInv'
<1> SUFFICES ASSUME PageInv, [Next]_vars PROVE PageInv'
  OBVIOUS
<1>1. CASE UNCHANGED pageVars
  BY <1>1 DEF pageVars, PageInv, PagesOK, PathTrue, There
<1>2. CASE \E p \in Pages :
             \/ \E s \in Slugs, parent \in Pages \union {None} : SavePage(p, s, parent)
             \/ \E parent \in Pages \union {None} : DragPage(p, parent)
             \/ DeletePage(p)
  BY <1>2, SavePageStep, DragPageStep, DeletePageStep
<1> QED
  BY <1>1, <1>2
  DEF Next, vars, Tick, EndSave, Save, Hit, Miss, Get, Check, Insert, Fill, EndRequest

\* A page is found under the address its place in the tree gives it, unless
\* the tree changed above it after its last save (Page.save, build_url_path).
THEOREM PathTrueHolds == Spec => []PathTrue
<1>1. Init => PageInv
  BY DEF Init, PageInv, PagesOK, Rooted, PathTrue, There
<1>2. PageInv => PathTrue
  BY DEF PageInv
<1> QED
  BY <1>1, <1>2, PageStep, PTL DEF Spec
=============================================================================
