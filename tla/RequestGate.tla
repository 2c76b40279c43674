----------------------------- MODULE RequestGate -----------------------------
(***************************************************************************)
(* What a request has to pass before it becomes a lead: the two throttling *)
(* buckets of its address, the checks of the form and of its files, and    *)
(* the campaign the lead is credited to.                                   *)
(*                                                                         *)
(* A bucket is a list of recent requests in the cache, read and written in *)
(* two calls, so that requests handled by different workers at the same    *)
(* time do not see each other.  One address and one browser are modelled;  *)
(* time is counted in ticks.                                               *)
(***************************************************************************)
EXTENDS Naturals, FiniteSets, Sequences

CONSTANTS Workers,      \* web processes
          Inputs,       \* what visitors send, see Input below
          Campaigns,    \* marks of advertising campaigns in a page's address
          Oversized,    \* those too long for a cookie
          Keys,         \* TRACKED_KEYS
          UtmKeys,      \* UTM_KEYS, all of them but yclid
          KeysOf,       \* the keys each campaign sets
          Limit,        \* requests a bucket lets through in its window
          Window,       \* length of a bucket's window
          CookieAge,    \* life of the source cookie
          MaxFiles,     \* MAX_FILES_PER_LEAD
          MaxRequests,  \* bound on the requests and visits
          MaxTime,      \* bound on the clock
          None

Buckets == {"burst", "hour"}

ASSUME GateAssumption ==
    /\ Limit \in [Buckets -> Nat \ {0}]
    /\ Window \in [Buckets -> Nat \ {0}]
    /\ {CookieAge, MaxFiles, MaxRequests, MaxTime} \subseteq Nat
    /\ Oversized \subseteq Campaigns
    /\ UtmKeys \subseteq Keys
    /\ KeysOf \in [Campaigns -> SUBSET Keys]
    /\ None \notin Campaigns \union [id : Nat, time : Nat]

Doors == {"form", "api", "calculator"}
File == [extension : STRING, content : STRING, size : {"empty", "fits", "large"}]

\* The signed time of the form: none, not signed by us or more than six hours
\* old, less than LEAD_MIN_FORM_SECONDS old, or in between.
Stamps == {"missing", "broken", "hasty", "fair"}

\* fields: the ordinary fields are valid; contacts: name and phone are given;
\* live: recalculation while typing;
\* query: marks in the address of the request itself.
Input == [door : Doors, fields : BOOLEAN, consent : BOOLEAN, contacts : BOOLEAN,
          live : BOOLEAN, trap : BOOLEAN, stamp : Stamps,
          query : Campaigns \union {None}, files : Seq(File)]

ASSUME InputAssumption == Inputs \subseteq Input

VARIABLES now,      \* the clock
          cookie,   \* the source cookie of the browser
          history,  \* the buckets of the address, as the cache holds them
          seat,     \* the request each worker is handling
          made,     \* requests and visits so far
          passed,   \* all a bucket has ever let through, and of these
          blind,    \* those that did not see a record of their window
          leads,    \* leads created
          landing   \* the campaign the visitor came from last

visitorVars == <<now, cookie, landing>>
vars == <<visitorVars, history, seat, made, passed, blind, leads>>

Idle == [at |-> "idle"]
NoCookie == [marks |-> None, since |-> 0]

Init ==
    /\ now = 0
    /\ cookie = NoCookie /\ landing = NoCookie
    /\ history = [b \in Buckets |-> {}]
    /\ passed = [b \in Buckets |-> {}] /\ blind = [b \in Buckets |-> {}]
    /\ seat = [w \in Workers |-> Idle]
    /\ made = 0
    /\ leads = {}

(***************************************************************************)
(* Pages and campaigns (SourceTrackingMiddleware)                          *)
(***************************************************************************)

Tick ==
    /\ now < MaxTime
    /\ now' = now + 1
    /\ UNCHANGED <<cookie, landing, history, seat, made, passed, blind, leads>>

\* Bug: a page without marks forgets where the visitor came from.
VisitForgetting(c) ==
    /\ made < MaxRequests /\ made' = made + 1
    /\ cookie' = IF c \in Campaigns \ Oversized
                 THEN [marks |-> c, since |-> now] ELSE NoCookie
    /\ landing' = IF c \in Campaigns THEN [marks |-> c, since |-> now] ELSE landing
    /\ UNCHANGED <<now, history, seat, passed, blind, leads>>

\* A page is opened from inside the site, or with marks in its address.
\* Marks too long for a cookie leave the cookie as it was.
Visit(c) ==
    /\ made < MaxRequests /\ made' = made + 1
    /\ cookie' = IF c \in Campaigns \ Oversized
                 THEN [marks |-> c, since |-> now] ELSE cookie
    /\ landing' = IF c \in Campaigns THEN [marks |-> c, since |-> now] ELSE landing
    /\ UNCHANGED <<now, history, seat, passed, blind, leads>>

\* The signature is good for CookieAge, whatever the browser returns.
ReadMarks(c) == IF now - c.since <= CookieAge THEN c.marks ELSE None

Sets(campaign, k) == campaign # None /\ k \in KeysOf[campaign]

\* collect_request_meta: the utm keys in the request's own address are laid
\* over those of the cookie, key by key.
FromAddress(i, k) == k \in UtmKeys /\ Sets(i.query, k)
FromCookie(campaign, k) == IF Sets(campaign, k) THEN campaign ELSE None
Credited(i, c) ==
    [k \in Keys |-> IF FromAddress(i, k) THEN i.query ELSE FromCookie(ReadMarks(c), k)]

(***************************************************************************)
(* The checks of a form                                                    *)
(***************************************************************************)

\* LeadFileValidator: a known extension, a size, and content to match.
Signatures(extension) ==
    CASE extension = ".pdf" -> {"pdf"}
      [] extension \in {".doc", ".xls"} -> {"ole2", "zip"}
      [] extension \in {".docx", ".xlsx"} -> {"zip"}
      [] extension \in {".jpg", ".jpeg"} -> {"jpeg"}
      [] extension = ".png" -> {"png"}
      [] OTHER -> {}

GoodFile(f) == f.size = "fits" /\ f.content \in Signatures(f.extension)

\* Bug: the number of files is not checked.
FilesGoodAnyNumber(files) == \A k \in DOMAIN files : GoodFile(files[k])

FilesGood(files) ==
    Len(files) <= MaxFiles /\ \A k \in DOMAIN files : GoodFile(files[k])

\* No stamp at all is let through: the page may come from a cache.
StampGood(stamp) == stamp \in {"missing", "fair"}

\* LeadForm and LeadCreateSerializer ask for the same.
FormGood(i) == i.fields /\ i.consent /\ ~i.trap /\ i.contacts /\ StampGood(i.stamp)

Accepted(i) ==
    CASE i.door = "form" -> FormGood(i) /\ FilesGood(i.files)
      [] i.door = "api" -> FormGood(i)
      [] i.door = "calculator" -> TRUE

(***************************************************************************)
(* A request                                                               *)
(***************************************************************************)

\* The calculators answer at once unless contacts are left with a good form;
\* the form and the API go to the buckets before anything is validated.
WantsLead(i) == i.door = "calculator" => i.fields /\ i.contacts /\ ~i.live

Arrive(w, i) ==
    /\ seat[w] = Idle /\ made < MaxRequests
    /\ made' = made + 1
    /\ seat' = [seat EXCEPT ![w] =
            IF ~WantsLead(i) THEN Idle
            ELSE [at |-> "burst", id |-> made + 1, input |-> i, cookie |-> cookie,
                  landing |-> landing, refused |-> FALSE, seen |-> {},
                  entry |-> [b \in Buckets |-> None]]]
    /\ UNCHANGED <<visitorVars, history, passed, blind, leads>>

Fresh(b, entries) == {e \in entries : e.time + Window[b] > now}

\* Bug: one request too many.
FullOneLater(b) == Cardinality(Fresh(b, history[b])) > Limit[b]

Full(b) == Cardinality(Fresh(b, history[b])) >= Limit[b]

\* A full bucket ends a form request; the API consults the next one all the same.
Refuse(w, b) ==
    /\ seat[w].at = b /\ Full(b)
    /\ seat' = [seat EXCEPT ![w] =
            IF b = "burst" /\ seat[w].input.door = "api"
            THEN [seat[w] EXCEPT !.at = "hour", !.refused = TRUE] ELSE Idle]
    /\ UNCHANGED <<visitorVars, history, made, passed, blind, leads>>

\* SimpleRateThrottle reads the bucket ...
ReadBucket(w, b) ==
    /\ seat[w].at = b /\ ~Full(b)
    /\ seat' = [seat EXCEPT ![w] =
            [@ EXCEPT !.at = "count", !.seen = Fresh(b, history[b]),
                      !.entry[b] = [id |-> seat[w].id, time |-> now]]]
    /\ UNCHANGED <<visitorVars, history, made, passed, blind, leads>>

CountedBucket(w) == IF seat[w].entry["hour"] = None THEN "burst" ELSE "hour"

\* ... and puts it back with the request added, over what others have added.
Count(w) ==
    LET b == CountedBucket(w)
        e == seat[w].entry[b]
        after == IF b = "burst" THEN "hour" ELSE "checked"
    IN /\ seat[w].at = "count"
       /\ history' = [history EXCEPT ![b] = seat[w].seen \union {e}]
       /\ passed' = [passed EXCEPT ![b] = @ \union {e}]
       /\ blind' = IF \E o \in passed[b] \ seat[w].seen : o.time + Window[b] > e.time
                   THEN [blind EXCEPT ![b] = @ \union {e}] ELSE blind
       /\ seat' = [seat EXCEPT ![w] =
                     IF b = "hour" /\ seat[w].refused THEN Idle
                     ELSE [seat[w] EXCEPT !.at = after, !.seen = {}]]
       /\ UNCHANGED <<visitorVars, made, leads>>

\* attach_files takes the first MaxFiles of them.
Attached(files) == SubSeq(files, 1, IF Len(files) < MaxFiles THEN Len(files) ELSE MaxFiles)

CreateLead(w) ==
    /\ seat[w].at = "checked"
    /\ Accepted(seat[w].input)
    /\ leads' = leads \union
         {[entry |-> seat[w].entry, input |-> seat[w].input, time |-> now,
           kept |-> Attached(seat[w].input.files),
           marks |-> Credited(seat[w].input, seat[w].cookie),
           landing |-> seat[w].landing]}
    /\ seat' = [seat EXCEPT ![w] = Idle]
    /\ UNCHANGED <<visitorVars, history, made, passed, blind>>

Reject(w) ==
    /\ seat[w].at = "checked"
    /\ ~Accepted(seat[w].input)
    /\ seat' = [seat EXCEPT ![w] = Idle]
    /\ UNCHANGED <<visitorVars, history, made, passed, blind, leads>>

Next ==
    \/ Tick
    \/ \E c \in Campaigns \union {None} : Visit(c)
    \/ \E w \in Workers :
         \/ \E i \in Inputs : Arrive(w, i)
         \/ \E b \in Buckets : Refuse(w, b) \/ ReadBucket(w, b)
         \/ Count(w) \/ CreateLead(w) \/ Reject(w)

Spec == Init /\ [][Next]_vars

(***************************************************************************)
(* Properties                                                              *)
(***************************************************************************)

Entry == [id : 1 .. MaxRequests, time : 0 .. MaxTime]
Entries == [Buckets -> Entry \union {None}]
Mark == [marks : Campaigns \union {None}, since : 0 .. MaxTime]
Seat == [at : {"burst", "hour", "count", "checked"}, id : 1 .. MaxRequests, input : Inputs,
         cookie : Mark, landing : Mark, refused : BOOLEAN, seen : SUBSET Entry,
         entry : Entries]
Lead == [entry : Entries, input : Inputs, time : 0 .. MaxTime, kept : Seq(File),
         marks : [Keys -> Campaigns \union {None}], landing : Mark]

TypeOK ==
    /\ now \in 0 .. MaxTime /\ made \in 0 .. MaxRequests
    /\ {cookie, landing} \subseteq Mark
    /\ {history, passed, blind} \subseteq [Buckets -> SUBSET Entry]
    /\ \A b \in Buckets : Cardinality(history[b]) <= Limit[b]
    /\ seat \in [Workers -> Seat \union {Idle}]
    /\ leads \subseteq Lead

\* Form, API and calculators share the buckets: whichever door they come
\* through, no window of either bucket yields more leads than its limit, but
\* for requests that ran in parallel and did not see each other.
LimitHolds ==
    \A b \in Buckets : \A t \in 0 .. now :
        Cardinality({l \in leads : /\ l.entry[b] \in passed[b] \ blind[b]
                                  /\ l.entry[b].time \in t .. t + Window[b] - 1})
            <= Limit[b]

\* A lead has the marks of the campaign its visitor came from last, for as
\* long as a cookie lives, but for the keys the request itself sets; those of
\* an earlier one only when the marks of the last were too long to be kept.
CreditedToLast ==
    \A l \in leads, k \in Keys :
      ~FromAddress(l.input, k) /\ l.landing.marks \notin Oversized =>
        l.marks[k] = IF l.time - l.landing.since <= CookieAge
                       THEN FromCookie(l.landing.marks, k) ELSE None

\* Whatever a visitor attached to an accepted form is kept: attach_files cuts
\* its list at the limit the form has already checked.
AllFilesKept == \A l \in leads : l.input.door = "form" => l.kept = l.input.files
==============================================================================
