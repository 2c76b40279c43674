# Modern Machinery: formal verification

TLA+ models of the site's own logic (`src/apps`, `src/config`), the TLC runs
that check them on small instances, and proofs of their main theorems for
every value of the constants, checked by TLAPS.

The site is a Django application for a dealer of heavy machinery: a public
catalog with filters, and enquiries ("leads", заявки) that visitors leave and
the staff receive by e-mail. It runs as several processes (web workers, a
Celery worker, Celery beat) around PostgreSQL and Redis; Redis is cache and
broker at once. What is hard in it does not live in one function but between
these: a transaction that has not committed, a cache entry that has, a task
that is gone, a row that was read some moments ago.

Contents: [inventory](#1-the-system) · [modules](#2-modules) ·
[runs](#3-runs) · [what the runs found](#4-disagreements-found) ·
[proofs](#5-proofs) · [limits](#6-what-is-not-modelled) · [plan](#7-plan)

## 1. The system

| component (src/apps) | state it keeps | operations | interacts with |
| --- | --- | --- | --- |
| **leads: creation, notification** `leads/services/creation.py`, `antispam.py`, `tasks.py`, `signals.py` | `Lead`, `LeadAttachment`, `LeadEvent` rows; documents in private storage; `leads:dedupe:*` in the cache; Celery tasks | `create_lead` (form view, API), `send_lead_notification` with 3 retries, deletion with its documents | routing, broker, SMTP, admin |
| **leads: routing** `leads/services/routing.py`, `users/models.py` | `LeadRoutingRule`, `User`, `LEADS_BLOCKED_EMAIL_DOMAINS` | `match_rule`, `resolve_recipients`, admin edits, `remove_lead_email`, `purge_email_domain` | creation, company departments |
| **leads: retention** `leads/tasks.py` | `purge_after`, `is_anonymized`, contact columns, documents | `purge_expired_leads` every day | admin edits, private storage |
| **leads: gate** `forms.py`, `throttling.py`, `validators.py`, `middleware.py`, `core/throttling.py` | two buckets per address in the cache, signed time in the form, cookie with source marks | rate limits, honeypot and fill time, upload limits | creation |
| **catalog: facets** `catalog/services/facets.py`, signals of `catalog` and `specs` | `catalog:facets:version` and answers in the cache | `get_facets`, `invalidate_facets` | machines, stock, characteristics |
| **catalog: filters, pages, landings** `catalog/services/filters.py`, `views.py`, `querysets.py` | none of their own | parse a query, select machines, canonical pages | facets, seo |
| **catalog: models, images** `catalog/models.py`, `services/images.py` | machines, derivatives of images on disk | save, re-derive, slug change | seo redirects |
| **specs** `specs/normalization.py`, `signals.py`, `models.py` | `MachineSpec`, `Machine.specs_cache` | normalise a value, rebuild the snapshot | catalog, facets |
| **content** `content/models.py`, `context_processors.py` | page tree, settings (one row), menu; both cached ten minutes | save, load, path of a page | every page |
| **seo** `seo/middleware.py`, `models.py` | `RedirectRule`, `NotFoundLog` | redirect on 404, count, log | catalog, content |
| **financing, tco** `financing/services/leasing.py`, `leads/services/tco.py` | programmes | decimal arithmetic of payments and costs | pages |
| **imports** `seed_demo` | `ImportRun` | one transaction of many upserts and files | everything |
| **parts, services, company, users** | directories | admin edits | routing (departments, users) |

Which behaviours are hard, and what makes each component correct:

* *Creation and notification.* Requests overlap; the cache and the disk do not
  roll back with the transaction; the task is published after commit by a
  process that may die; it is acknowledged on receipt; the broker's keys can
  be evicted (`allkeys-lru`); SMTP can accept a letter and still raise; the
  lead can be deleted at any moment. Correct means: no task before its
  commit, never two workers on one lead, a log that agrees with the retries,
  no lead that is silently left without a letter or a trace, no document of a lead
  left behind that the log does not name.
* *Routing.* Rules, accounts and block lists change while tasks wait and a
  command rewrites rules one by one. Correct means: the sharpest rule wins,
  everybody entitled and nobody else receives the lead, nobody receives it on
  a domain blocked when it came, and it goes to nobody only when even the
  fallback is blocked.
* *Retention.* The task has no transaction and may die or overlap with
  itself; the admin writes whole rows it has read before; the storage may refuse to remove a
  document. Correct means: what is marked anonymized is clean, a document on disk can be
  found by a row or by the log, and everything expired is anonymized in the end.
* *Facets.* A version raised inside a transaction, readers that query for a
  while, a counter that may be missing or evicted. Correct means: a cached panel
  misses no change that is announced and visible, with exceptions that end by
  themselves, and is right again when it times out.
* *Gate.* Buckets of an address read and written in two cache calls, shared by
  three doors; marks of a campaign that live in a cookie for a while. Correct
  means: the limit holds for requests that see each other, nothing accepted is
  cut off, a lead is credited to the campaign its visitor came from last.
* *Settings, terms, menu.* Cached entries cleared before the commit or never;
  a row the first request creates. Correct means: nothing older than a cache's
  life is shown, and nothing old at all unless a page was being rendered
  during the save.
* *Machines.* Slug, redirects, snapshot and copies of a picture are derived
  from other rows when one of them is saved, and written back from what a form
  has read. Correct means: old addresses lead to the card, a tile tells what
  the characteristics say, the picture shown is the one its row names.
* *Page tree.* The address of a page is stored in it and built from its
  ancestors when it is saved.
* *Catalogue, calculators, characteristics.* No state, but many cases: counters
  beside the filters, landings that contain one another, sums rounded one by
  one, texts in every shape.
* *Demonstration data.* Tables that name one another in a thousand places, and
  a run repeated on a site people have been working on.

The hazards are listed one by one, with their lines, in `PROJECT.json`.

## 2. Modules

    LeadDelivery        what notification promises (abstract)
      ^ implemented by
    LeadPipeline        creation, deduplication, task, deletion
      MCLeadPipeline    instances          LeadPipelineProofs   theorems
    LeadRouting         whom the site writes to
      MCLeadRouting     an instance        LeadRoutingProofs    theorems
    LeadRetention       the purge against the admin
      MCLeadRetention   instances          LeadRetentionProofs  theorems
    FacetCache          versioned cache of the filter panel
      MCFacetCache      an instance        CatalogProofs        theorems
    RequestGate         throttles, checks, uploads, source marks
      MCRequestGate     an instance        RequestGateProofs    theorems
    MachineCard         slugs and redirects, snapshot, pictures
      MCMachineCard     an instance        MachineCardProofs    theorems
    SiteContext         settings, terms and menu in the cache; page tree
      MCSiteContext     an instance        SiteContextProofs    theorems
    DemoData            the tables of demonstration data
      ^ extended by
    DemoSeed            runs of seed_demo among administrators
      MCDemoSeed        an instance        CatalogProofs        theorems
    CatalogSearch   Calculators   SpecValues      pure operators
      ^ extended by
    Answers             the requests that compute and store nothing
      MCAnswers         inputs             AnswersProofs        theorems

Common conventions: definitions keep the names of the source where they can;
an action is what one process does between two points at which another may
act (a cache call, a file operation, a commit, a step of a Celery task outside
a transaction). Definitions marked `Bug:` are used by no specification: each is
a plausible mistake in the definition below it, and a run's property must fail
when it takes that definition's place.

**LeadPipeline.** A request is in one of the states of `pc`; the inserts of
`create_lead` are invisible to others until `Commit` (`ATOMIC_REQUESTS`), files
(`disk`) and the fingerprint (`cache`) are visible at once. `LookUp`,
`UseExisting`, `SaveLead`, `Remember`, `Commit`/`CommitExisting`, `Publish`
follow `create_lead` line by line; `Abort` and `FailToPublish` are the ways a
request ends early. The existence of the lead found in the cache is read by the
same step that writes the repeat's files; that the lead can be deleted between
that step and the commit is in the model (`RejectExisting`). A worker goes
through `tpc`: `Take`, `Fetch` or `Missing`, `Send`, then `RecordSent` or
`RecordFailed` and `Retry`. `Send` chooses acceptance and error independently
except that a refused letter always raises. A lead is identified by the request
that inserts it, `lead[r]` being its committed state. The recipients are any
member of `RecipientSets`; LeadRouting computes them. `BeginDelete` is an administrator's
deletion up to its commit: `post_delete` removes the documents, and one the
storage will not give up (disturbance "storage") stays on disk while the signal writes
it to the log (`refused`) and lets the row go; `CommitDelete` and `RollbackDelete` end it.

**LeadRouting.** Rules and accounts as records, a lead as the data routing looks
at. `Matches`, `SortKey`, `Precedes`, `MatchRule`, `Subscribers`, `Resolve`
are `match_rule`, `lead_recipients` and `resolve_recipients`; domains form a
relation `Below` instead of suffixes of strings. The removal commands read all
rules (`BeginRemoval`) and save one after another (`WriteKept`), failing on one
deleted meanwhile; `purge_email_domain` is the same in a transaction, i.e. the
steps without anything in between. Deleting a machine type or category deletes
its rules (`DeleteRule`); `DeleteDepartment` is PROTECT for rules and SET_NULL
for staff. The admin's form demands an address, its list edits two columns.

**LeadRetention.** A row is its contact columns (in the edit form), its trace
columns (read-only in the admin) and the flag; `files` are the rows of its documents,
`disk` the documents, `refused` what the log names as not removed. The purge visits what it has
selected: documents one by one, then the row, then the event. `RemoveDocuments` is
the `post_delete` signal both the purge and a deletion go through. A crash may
come between the removal of a document and the commit of its row (`CrashPurge`), and a
deletion of a lead may be rolled back behind it (`DeleteLead`). An editor reads the
row, then writes all of it back (`SaveRow`); a form was filled earlier than the
row was read (`OpenForm`, `SubmitForm`). `MaxDisturbances` bounds crashes and
edits together.

**FacetCache.** The catalog is the set of changes committed so far, an answer the
set each of its two groups of queries has seen. `Raise`, `FindNoVersion` and
`Restart` are `invalidate_facets`; readers are `get_facets`. Changes in
`Transactional` become visible after their signal; at the start the cache is empty or has
a version. Three ghosts say what a property may expect: `top`, the highest number so
far; `worn`, numbers up to which are in use for the second time, since an eviction
or a late reader of an empty cache has set the counter back; `early`, changes that somebody
counted without between their signal and their commit, under the current number.

**RequestGate.** One address and one browser. A worker's `seat` walks through the
buckets "burst" and "hour": `ReadBucket` and `Count` are the two cache calls
of `SimpleRateThrottle`, `Refuse` its full bucket, which ends a form at once
while the API goes on to count in the next. Then `CreateLead` or `Reject`
decides by `Accepted`: the checks of the form (honeypot, signed time, consent,
contacts), of the files (extension, size, content) and of the API, which has no
files. `Visit` is `SourceTrackingMiddleware`. `Credited` merges the marks of a
lead key by key: the request's own UTM parameters are laid over those of the cookie
(`creation.py:39-44`). `passed` and `blind` are history:
what a bucket ever let through, and which of it had not seen a record of its
own window because two workers ran in parallel.

**MachineCard.** A request of an administrator is a `draft`: it reads the row when
the form is filled, looks the slug up in `pre_save`, and then writes the whole
row, the snapshot it has read included (`SaveForm`), or, as an action of the list, one
column of it (`Publish`); a picture and characteristics follow, of which the latter
rebuild the snapshot; commit or rollback. The row is locked from its update on. The
row of a picture is read when the form is processed and written back whole at the
commit, beside the copies it had then (`painted`), however stale: two forms may write
a picture's rows one over the other. Hiding and deleting a machine and editing the
reference book of characteristics are the other actions. Of a gallery one picture is
followed; that a picture is removed from it, or another added beside it, is not. `Destination` follows the redirects as `RedirectMiddleware` does, one
404 at a time. Ghosts (`held`, `raced`, `excused`, `spoilt`) only say which
exception of a property applies.

**SiteContext.** A request finds a cached entry (`Hit`) or goes `Miss`, `Get`,
`Check`, `Insert`, `Fill`: `get_or_create` of the single row, with the
`full_clean` of `save` that makes the second of two first requests fail, and
the menu's query. It runs inside the transaction of its view or after it
(`atomic`). `Save` clears the cached entry before `EndSave` commits or rolls
back. A request is assumed to take less than a tick of the clock, of which
`TTL` are ten minutes. Pages: `SavePage` builds `path` from the tree of the moment,
`DragPage` changes the parent alone (the list of `django-treebeard`),
`DeletePage` takes the subtree along. The two halves share nothing but the
bound on saves.

**DemoData, DemoSeed.** `DemoData` holds the tables of `demo_data.py` down to the
names that are looked up: brands, categories, types with their ranges,
landings, pages, rules and the rest; titles and texts are left out. `DemoSeed`
goes through the stages of `seed_demo`, each bringing its rows in by their
natural keys and looking others up; a missing one, or one found twice, ends
the run and its transaction. What people have changed (`edited`) is kept as pairs of a row and
a field, since a run writes over some and not over others (`WrittenOver`): a landing
keeps the category it was given and conditions on further numbers, a landing made
for a number its brand too. Between the stages administrators hide, edit,
delete or double the rows of `Touched`, among those the run has not come to
(what it has written it has locked); deleting a category a later stage of the same
run will look up is left out. The fields of settings, leasing terms and rules that runs
leave alone are not followed; a renamed rule comes back with the addresses of the data.
That a second run changes nothing is not claimed (section 4). `price` is drawn at random, within the range of
its type. Its specification is `SeedSpec`, of `SeedInit` and `SeedNext`: CatalogProofs
speaks of it and of FacetCache at once.

**CatalogSearch, Calculators, SpecValues, Answers.** Operators: `parse_filters`,
the selection of machines, the facets and `is_indexable` of the catalogue; the
leasing calculator and the cost of ownership in kopecks, and in whole roubles as
pages (`Roubles`) and tiles (`OnTile`) show them; `parse_value` on texts taken apart the
way its patterns do, and the columns its values are meant for. `Parts` is what a per
cent of markup is divided in, 100 in the code; `Limit` the least number its column
is too short for, 10^10. The plain catalogue is a selection without conditions (`Plain`). `Answers` asks one question after
another, its invariants say what each answer must satisfy. What may be asked is
given by sets that stand for the tables and forms: `Machine`, `Address`,
`Filters`, `Landing`, `LeasingTerms`, `Deal`, `Ownership`, `Text`, with the
constraints the database keeps. `Decimal("NaN")` is left out.

## 3. Runs

| run | instance | shows |
| --- | --- | --- |
| `pipeline_faults` | 2 requests with one fingerprint and up to 1 file each, 2 workers, 3 retries, every disturbance | `OneNotice`, `NoticeAfterCommit`, `SentIsFinal`, `TryCountsFailures`, `LettersBounded`, `NoOrphanOfOwnLead`; refinement of LeadDelivery |
| `pipeline_settles` | 3 requests one at a time, 1 worker, 1 retry, rollbacks and deletions, fairness | `OneLeadPerPrint`, `NeverSilent`, `LeadSettles`, `NoticeEnds` |
| `routing` | 2 rules, 2 accounts, 4 addresses on 3 domains, 3 block lists, 2 leads | `SpecificRuleWins`, `RightRecipients`, `LeadsAvoidBlocked`, `RemovalKeepsDepartment` |
| `retention` | 2 leads, a document each, 2 purges, a list and a form in use, 3 disturbances, fairness | `NoDocumentLost`, `TraceIsClean`, `EventuallyAnonymized` |
| `facets` | a change outside and one inside a transaction, 2 readers, a cache cold at the start or not, a version evicted at any time, fairness | `NothingMissed`, `EventuallyFresh` |
| `gate` | 2 workers, limits of 1 per tick and 2 per two ticks, 3 requests, every door, good and bad forms and files, a campaign whose marks fit a cookie and one whose do not | `LimitHolds`, `CreditedToLast`, `AllFilesKept` |
| `card` | 2 machines, 4 slugs, 2 administrators, 3 requests | `LinksLive`, `SnapshotTrue`, `PictureTrue` |
| `site` | 2 requests, one single row and the menu, 3 pages, 3 saves, a tick to expiry | `ShownWithinTTL`, `ShownAtOnce`, `NeverBackToDefaults`, `PathTrue` |
| `demo` | the real tables, 3 runs, 2 changes by administrators | `FailsOnlyOverDoubles`, `LandingsCanShow` |
| `answers` | 2 catalogues of up to 4 machines and every selection of filters on them, 16 landings, grids of sums with markups in halves of a per cent, every shape of text with numbers up to one too long | `CountsKept`, `IndexedAsItself`, `AmountsAddUp`, `ParsedIsStorable` |
| `pipeline_race`, `retention_stale_form` | as small as possible | a counterexample each, section 4 |

**Bounds.** Two requests and two workers are enough for every pair that can
collide (two copies of a form; a repeat and a deletion; two attempts of one
task); three retries are the real number. Sequences of three submissions are
what deduplication needs (one rolled back, one that finds the entry it left,
one more). Two rules show every shadowing of one by another, and two leads the
case of no machine; `MaxQueued = 1` keeps one task waiting while anything
happens around it. Two purges overlap; with one document to a lead, a run dies before,
behind and in the middle of its removal, and what several documents add, some removed and
some not, is left to the proof, which holds for any number. `MaxVersion` is one more than the number of changes, so the
counter never stops one. In `gate` three requests against limits of one and two
give every refusal, and two workers every pair that can overlap; three visits
or requests are a campaign, another page and the form. In `card` three requests are a rename
there, back and on, or a slug that passes from one machine to another; four slugs
leave a free one in every state. In `site` two requests meet in every step of
the creation of a row, one tick is the whole life of an entry, three pages make a tree of
three levels. In `demo` the third run meets what the second one left on
a site edited twice; more edits only add rows of kinds already touched, since
`Touched` has one of each. In `answers` a machine inside and outside of every filter's range
exists in each catalogue, and the sums are below what TLC's 32-bit integers
hold, which is also why a per cent has two parts and a column takes numbers below 8:
both are constants, and the proofs speak of any. `CHECK_DEADLOCK FALSE` appears where every visitor has
come, every task has ended and the system may rest; routing and the answers never do.

**Fairness.** `FairSpec` of LeadPipeline: a request that has begun and a worker
that lives take their next step — WSGI and Celery run them to their end, and
what ends them early is an action of its own (`Abort`, `WorkerDies`) that the
liveness run leaves out for workers and the broker, since an early-acknowledged
task cannot be recovered; nobody need submit or delete. LeadRetention: beat
starts the purge every day and its workers go on; crashes and edits may be
finite in number only, without which no term would ever end. FacetCache:
requests go on and timeouts come; nobody need visit or save. Strong fairness
is not assumed anywhere.

**Properties that need a word.** `OneNotice` counts a request between commit and
publication, a task in the broker and a worker as places where the duty to
notify may be. `NeverSilent` reads "announced, being announced, or the log says
why not"; it is false, and not claimed, when a broker or a process loses work
(`DeliverySpec` says what remains true then). `EventuallyAnonymized` allows a
list edit to undo a purge, which the next purge repeats. `NoOrphanOfOwnLead`
and `NoDocumentLost` say of documents on disk that a row or the log names them: a
refused removal loses the row and leaves the log, and nothing else (a crash,
a rollback, a second purge) may leave a document that neither names. `TraceIsClean` and
`AnonymizedIsClean` allow behind the flag what the log names, and nothing besides.
`NothingMissed`: what the panel shows has counted every change that is announced and
visible, made in a transaction or not. Excepted are `early` changes, until the next change
raises the version, and numbers `worn`, until the counter has passed its former height;
`EventuallyFresh` rests on the timeout of the answers alone and covers these too.
`RightRecipients`: a lead goes to exactly the addresses entitled to it that are not
blocked, be they the rule's own, its department's staff's or those of subscribers without
a department, and to the fallback just when there are none. `RemovalKeepsDepartment` is why the commands leave a rule
without addresses in place instead of removing it. The ghosts `blind`, `raced`,
`excused`, `spoilt`, `crossed` and `stale` mark, at the step where it happens,
the overlap or edit after which the code promises nothing; each is as
narrow as the runs allow, and the property fails without it.
`FailsOnlyOverDoubles`: a run of `seed_demo` may stumble only over a row entered
twice by hand where the database has no natural key. `LandingsCanShow`: after a run,
for every landing there is a machine of the data that can be drawn to satisfy its
conditions, and the landing is as the data have it, unless somebody made it narrower in a
field runs leave alone (`Narrowed`).
`NeverBackToDefaults`: a request that found no row of settings may come to create
it long after another one has, and after an administrator has saved it.
`CountsKept`: choices of a dimension are alternatives, so one more adds as many machines as
its counter says to those the others find, and alone it finds as many; a flag leaves as many,
and a number's full scale all that have the number.
`IndexedAsItself`: a landing is offered to robots just when it shows its own content and
is not closed, the plain catalogue just when nothing is filtered.
`AmountsAddUp`: amounts make up their totals to what rounding each of them can cost, to the
kopeck as a lead keeps them and to the rouble as they are shown. `ParsedIsStorable`: a value
that was read fits the constraints of its row just when its numbers fit their columns.

## 4. Disagreements found

1. `pipeline_race`: deduplication is check-then-act. Two copies of a form that
   overlap both become leads, and both are announced
   (`creation.py:93` and `:126`).
2. `retention_stale_form`: an edit form opened before the purge and submitted
   after it puts contact data back behind the flag, where no purge looks again
   (`admin.py:80`). The proof of `AnonymizedIsClean` assumes exactly that no
   form is submitted.

Seen while modelling, without a run of its own. Where an exception is written
into a property, taking it out makes TLC show the case.

* *Leads.* A repeat writes its documents before its rows meet the foreign key;
  when the lead is deleted in between they stay on disk without a row
  (`creation.py:101`; `NoOrphanOfOwnLead` is about the lead's own documents). A deletion
  rolled back has already removed its file (`signals.py:26`). A document the storage refuses to
  remove stays on disk for good: the signal logs it and lets the row go (`signals.py:25-28`),
  the purge sets the flag, and no later run finds it, though `tasks.py:144-145` says
  «оставлять их на диске после срока нельзя» (`refused`). A task lost between
  commit and broker, or evicted there, is not looked for: the lead stays without a letter.
  Recipients travel
  with the task: a domain blocked while it waits still gets the letter
  (`creation.py:132`). The event of an anonymization is lost when the purge dies
  behind the row (`tasks.py:166`). `remove_lead_email` overwrites an address added
  between its reading and its writing; one mailbox in two spellings gets two
  letters; the staff of a deleted department become receivers of every lead.
* *Facets.* In a request the version is raised before the commit; a visitor in
  between caches the old catalog under the new version, until the answer times
  out (`catalog/signals.py:64`; `early` in `Covers`), while the docstring at `facets.py:10-12` says that
  with a change all stored answers go out of use at once. After an eviction the
  counter starts from one again and can show answers of the earlier version one
  (`facets.py:226`); a reader who found an empty cache and is late sets it back to one too
  (`facets.py:42`; both `worn`).
* *Settings.* The second of two first requests fails in `full_clean` with a
  server error, before the `IntegrityError` that `load()` catches
  (`content/models.py:402`), though its docstring promises the page against just
  that; it never puts the defaults back, though (`NeverBackToDefaults`). A menu item whose page is deleted renders an
  empty link for ten minutes.
* *Machines.* A form of a machine deleted meanwhile inserts it anew. A slug
  changed between another request's look-up and its update leaves no redirect,
  or one that leads back (`raced`). A machine renamed there and back while hidden makes
  a loop. A replaced image that cannot be processed keeps the copies of the old
  one, which the site goes on showing (`catalog/models.py:405`, `spoilt`), while the docstring says
  «без превью сайт покажет исходник» (392-394). Two hits of one unknown address can lose one of them.
* *Pages.* The paths below a renamed or dragged page stay as they were until
  each is saved.
* *Catalogue and calculators.* A search for nothing but separators matches every part.
  `Decimal("NaN")` passes for a bound. `financing/tests/test_calculator.py:78-88` says that advance and
  payments «должны сойтись с итогом»: they do to the rounding of each amount, and in the
  roubles shown to half a rouble and half a kopeck for each (`LeasingAddsUp`). The tile cuts a payment
  off to roubles (`financing.py:50`) that its docstring rounds («округлённый до рублей», 29), and so may be
  a rouble below the calculator's page; with a negative `default_markup_percent` it raises
  `ValueError`. A chosen option, flag or number that no machine in scope has is
  not drawn in the panel, so the next submission of its form drops it. On a landing its own brand, type and
  category go before the visitor's. The docstring of
  `search_vector` gives other weights than the code.
* *Characteristics.* `parse_value` has no caller but its tests. «около 6–7» keeps
  its lower end, «6 цилиндров» is read as the number six. A number from 10^10 on is read and then
  refused by its column (`specs/models.py:126`).
* *Demonstration data.* The head of the command calls it idempotent and says that the catalogue
  does not change from one run to the next (`seed_demo.py:3-5`). Every run renews `published_at` and `synced_at`,
  and publishes again what was hidden; a landing an administrator gave a category or
  another condition, or one by a number a brand, stays so and may show nothing
  (690-739, `Narrowed`). A price once drawn is never taken back, and applicabilities add up, so the same seed gives another site after another
  history. A machine renamed by hand is created a second time under its old slug; a rule, employee or partner entered twice
  makes every later run fail; files written before a rollback stay; a
  review of type "pogruzchik" finds no machine; `ImportRun` of a failed run is rolled back with it.

## 5. Proofs

`tlapm` proves every theorem below from the assumptions on the constants in
each module (`PipelineAssumption`, `RoutingAssumption`, `RetentionAssumption`,
`FacetAssumption`, `GateAssumption`, `InputAssumption`, `CardAssumption`,
`ContextAssumption`, `SeedAssumption`, `SearchAssumption`, `PartsAssumption`,
`ValueAssumption`, `AnswersAssumption`, and `NoneIsNoAnswer` and `GoneIsNoRow`, which say that a
name stands for nothing else),
for any number of requests, workers, retries, rules, leads, documents, editors,
readers, changes, machines, pages and cached entries. The assumptions say that
names do not coincide, that limits are numbers, and that what is kept in tables is
finite; those of Answers, that what is asked has the shape of the tables and
forms. Hypotheses beyond them are in the statement of the theorem and named below.

* **LeadPipelineProofs.** `TypeCorrect`. `OneNoticeHolds`: OneNotice is inductive
  with the types. `NoticeAfterCommitHolds` through `CommitInv`, which adds
  where the row is while the request runs. `TryCountsFailuresHolds` through
  `LogInv`, which adds how far letters and events may be ahead of the number of
  the attempt; it needs OneNotice, since two attempts at once would count each
  other's failures. `SentIsFinalHolds` and `LettersBoundedHolds` from
  `LogInv` and the lemmas `...Owes`, which say for each action how the set of
  owed leads changes; a lead that is no longer owed never is again.
  `DeliveryImplemented`: the same lemmas map every step to Record, Confirm, Drop
  or a stutter of LeadDelivery. `NoOrphanOfOwnLeadHolds`, under every
  disturbance, through `FileInv`: a request's files have rows from its commit on and not
  before, nobody finds a lead in the cache whose request has not got that far, and
  the rows a deletion has collected have lost their files for good, unless the log
  names them as refused.
  `NeverSilentHolds` assumes that `Disturbances` has none of "publish", "broker" and
  "worker": every step that ends the duty to notify then writes how (`SpokenEnd`;
  steps of requests and of the admin leave the duties as they are, `QuietStep`). `OneLeadPerPrintHolds`
  assumes that one request runs at a time and the cache keeps its entries, through
  `DedupeInv`: a live lead is the one the cache names for its fingerprint, and who is
  about to make another has seen that there is none. `pipeline_settles` satisfies
  both hypotheses, and `pipeline_race` shows what happens when two requests run.
* **LeadRoutingProofs.** `RoutingTypeCorrect`. `SpecificRuleWinsHolds`: any
  non-empty set of sort keys has a first element (`FirstExists`, by the
  well-foundedness of < on the naturals, applied to priority, then specificity,
  then primary key), so that the CHOOSE in `First` is justified.
  `RemovalKeepsDepartmentHolds`: the sort keys of all candidates, and with them
  the choice, are the same before and after `WriteKept`.
  `LeadsAvoidBlockedHolds` and `RightRecipientsHolds`, the latter from the two
  halves of `Resolve`: the fallback is used only when nobody entitled is left.
* **LeadRetentionProofs.** `NoDocumentLostHolds` is inductive with the types
  (`DocumentStep`): every step that takes a row away takes the document with it or writes it
  to the log. `TraceIsCleanHolds`, without further assumptions, with
  `CopyTraceIsClean` (the copy an editor is about to write is clean too) as the
  strengthening, preserved because documents only ever disappear and the log only grows
  (`FilesShrink`); that the last row is gone before the flag is set gives, with
  `NoDocumentLost`, that what is left on disk is in the log. `AnonymizedIsCleanHolds` the same way for the contact
  columns, for specifications without `SubmitForm`.
* **CatalogProofs**, about FacetCache and DemoSeed. `FacetTypeCorrect`. `NothingMissedHolds` in every behaviour,
  on an empty cache or another, through two invariants. `NumberInv`: a number the counter has
  never had has no answers and no readers, so that raising it above `top` starts afresh.
  `CoverInv`: what is stored under the current number, and what its readers have
  seen, covers all announced changes but the early ones, the invisible ones included,
  or the property would break at their commit.
  Of `seed_demo`, two kinds of facts. Those about the tables are about data that
  are fixed, and are proved table by table: every name a row goes by belongs to a
  row of its own stage or of an earlier one (`AllFound`, from `CompanyFound` to
  `RulesFound`), no range a number is drawn from is empty (`SomethingDrawn`), and for
  every landing there is a machine it can show (`CatalogLandingsSatisfied`,
  `RangeLandingsSatisfied`). Those about the runs hold for any rows administrators
  work on, any number of runs, interruptions and edits: `SeedTypes` says in which tables
  what people have changed can be, `Complete` that an untouched site has every row with the
  values of the data. From both, `FailsOnlyOverDoublesHolds` and
  `LandingsCanShowHolds`, the latter with what a run leaves of the edits of a landing:
  no landing is in both lists (`RangesApart`), and so only what makes it narrower
  outlives the run (`LeftNarrowed`).
* **RequestGateProofs.** `GateTypeCorrect`, which includes that no bucket ever
  holds more records than its limit. `LimitHoldsAlways` counts: `FoundRoom`
  says that what a request has read is smaller than the limit; when it is
  counted, the records of any window of its bucket are among those it has
  read and its own, or it is one of the blind ones, or the window is an old
  one (`BucketHolds`, for every window at once); and leads have records of
  their own (`OwnRecords`), so a window has no more leads than records
  (`WindowsSuffice`, by an injection). `CreditedToLastHolds` through
  `CookieFaithful`: a cookie that differs from the visitor's last campaign does
  so because that one did not fit. `AllFilesKeptHolds` from `AttachedFacts`.
* **MachineCardProofs.** `CardTypeCorrect`. `SnapshotTrueHolds` rests on
  `LockedOnce` (two requests never have the row of one machine updated and
  uncommitted) and `DraftTrue`, which says what an open request is going to commit: a
  snapshot rebuilt from the characteristics it has written, or the
  characteristics as they are. `PictureTrueHolds` through `DraftPictured`, the same for pictures: whatever row a form
  has read, fresh or stale, it is one whose copies are those of its file, and what it writes is so again.
  Neither is inductive alone, because what is committed was computed from
  what a form had read. `LinksLiveHolds` through `SlugInv`: a rule leads
  from one slug of a machine to another of the same one (`SlugsHeld`), an open request
  knows the slug it is about to replace (`DraftSlugs`), and, unless `raced`, slugs
  have ranks that sink along every rule (`Ranked`): a rename gives the new slug
  the lowest. So following the rules passes no slug twice and ends within as many
  hops as there are slugs (`LeadsSomewhere`), among the machine's own slugs if nobody
  took one over (`LeadsHome`).
* **SiteContextProofs.** `ContextTypeCorrect`. `ShownWithinTTLHolds`: every version
  but the latest has its time of replacement (`Counted`), what a
  request carries was not replaced before the current tick (`FillFresh`), and
  so what is cached was not replaced before it was cached (`CachedFresh`).
  `ShownAtOnceHolds` adds `MadeOnce` (one request makes a row, all
  others wait) and `Clear`: no cached entry or request holds an old version of
  a row that has not been saved in the middle of a request.
  `NeverBackToDefaultsHolds` from `MadeOnce` too: whoever's insertion is about to
  be committed, there is no row yet, and so nothing of an administrator's in it.
  `PathTrueHolds` through `PageInv`, in which every page's parent exists: saving,
  moving or deleting a page changes the addresses of its own branch alone, and
  marks what is not saved along with it as stale.
* **AnswersProofs.** There is one state to speak of, so each theorem is a lemma about the
  operators for every input. `CountsKeptHolds`: what a choice added finds is the disjoint union of what its counter
  counts and what the other choices of its dimension find (`Added`), for brands, types
  and options; flags and the ends of a number's scale follow one by one
  (`BrandHonest` to `NumberHonest`), and the ends exist since a catalogue is finite. `IndexedAsItselfHolds`: an address adds conditions to those of a
  landing and takes none away, so that equal numbers of conditions mean equal
  conditions (`LandingShown`, of the plain catalogue too). `AmountsAddUpHolds` from the bounds of one
  rounding (`Rounding`) and of the second one to roubles (`ShownAmount`), added up over the
  amounts (`LeasingSums`, `OwnershipSums`) and divided by the common
  factor (`Cancelled`), for any price, term, markup and division of a per cent;
  the deal of a tile keeps within the terms (`DefaultWithin`). `ParsedIsStorableHolds`
  by the cases of `parse_value`, for a column of any length.

*Recursion.* `Destination` follows rules and `Address` climbs a tree by recursive
functions over a number of hops. What they compute is proved in two steps. The
function exists and satisfies its own equation (`Iterated`, `DestinationBuilt`,
`AddressBuilt`); then a set of the numbers for which a claim holds contains 0 and with every
number its successor up to the bound, and so all of them (`UpTo`, from the least element
of a set of naturals, `LeastNatural`). This needs slugs and pages to be finitely many,
which is assumed and true of a table.

*What the proofs changed.* The arms of CASE in `ParseValue` overlapped: a text could be a
number and an interval at once, for which TLA+ leaves the choice open while
TLC takes the first. The guards now exclude one another in the order of the code. The options
chosen are counted as pairs of a list and an option. The tables of demonstration data are
functions over their keys, one arm for each, instead of being put together with `:>` and
`@@`, which the provers do not know.

Model-checked only: liveness (`LeadSettles`, `NoticeEnds`, `EventuallyAnonymized`,
`EventuallyFresh`), which needs fairness and ENABLED. Every safety property a
passing run checks is the statement of a theorem.

## 6. What is not modelled

HTML, CSS, scripts and templates; the admin's look; serializers that only rename
fields; drawing of images; search ranking (PostgreSQL full text), paging,
comparison and suggestions; tables of words (aliases of labels and units); counters of hits and
of unknown addresses; published lists without behaviour (news, vacancies,
reviews, parts, services, partners); logins and permissions; migrations; delivery of private
files (a permission check without state); CI, Docker and backups, except where a
setting changes behaviour (`ATOMIC_REQUESTS`, Celery's acknowledgement, Redis's
eviction). Below the models: PostgreSQL at READ COMMITTED, its row locks and foreign keys,
Django's `on_commit`, Celery's delivery of a task to one worker, Redis's single commands
are taken as they are documented.

## 7. Plan

Done, in this order: creation and notification, routing, retention, facets; then the
gate, the machine card, the site's context, the catalogue and calculators, the
demonstration data; then proofs of every safety property. What is left is
parts (`normalize_article` and the search by article), the 404 log and the bulk actions of
the leads' admin. Each is small and of little risk.
