# A verification project for FindMyPerson

FindMyPerson asks people who were somewhere at some time whether they saw
somebody, without a server ever knowing who was where. A reporter's phone sends
a report to the server; an operator reviews it; the server publishes every
released report in signed *shard bundles* behind a CDN; every phone downloads the
bundles of the places it follows, matches the reports against the location
history it keeps to itself, and its owner may answer; the reporter's phone reads
the answers.

This directory holds TLA+ modules that model that path from end to end, the TLC
configurations that check them, and theorems that TLAPS checks. `PROJECT.json`
is the machine-readable list of all of it: which lines of the source every
definition stands for, what every run checks, which plausible bug in the code
(a *mutant* of a definition) makes every checked property fail, and which hazard
of the code each property is for.

## 1. The system

| component | source | state it keeps | operations | modelled by |
|---|---|---|---|---|
| report lifecycle | `server/src/app.ts`, `db.ts`, `lifecycle.ts`, `packages/shared/src/payload/widening.ts` | `reports` | submit, edit (widen only), end, expire, review | `ReportEdits`, `ShardCompiler`, `ReportSubmission` |
| idempotency | `server/src/app.ts`, `db.ts` | `idempotency` | begin, finish, forget | `ReportSubmission`, `ReportEdits` |
| responses and review | `server/src/app.ts`, `db.ts`, `moderation.ts` | `responses`, `response_reviews` | post, moderate, release, reject, page | `Responses` |
| operator page | `server/src/operatorPage.ts` | a session cookie, open tabs | sign in, load, decide, be told | `OperatorPage` |
| shard compiler, signing keys | `server/src/shards/*` | `shard_generations`, `shard_index_state`, `shard_cdn_pending`, the object store, CDN edges | a pass, started by a timer; key rotation | `ShardCompiler`, `KeyRing` |
| signed documents | `packages/shared/src/payload/*` | none | sign, verify, read | `Payload`, `Readers` |
| published board | the object store and the CDN | `index.json`, `shards/<cell>/<n>.json` | read by devices | `Board` (specification), `Publisher` (assumption) |
| bundle fetcher | `packages/shared/src/fetch/*` | keys of `kv`, `report_cache` | a cycle | `FetchCycle` |
| fetch trigger | `app/src/fetch/*` | waits in memory | wakes, cycles back to back, joined calls | `FetchTrigger` |
| match rule, geometry | `packages/shared/src/match/matchReport.ts`, `geo/*` | none | is this history evidence? where is a report filed? | `MatchRule` (H3 and floating point are not) |
| match runner, purge | `packages/shared/src/match/*`, `retention/*` | `match`, `report_cache.last_matched_at` | a maintenance run | `MatchRunner` |
| stay derivation | `packages/shared/src/stay/*` | `stay`, a cursor in `kv` | derive in steps | `StayDerivation` |
| subscriptions | `packages/shared/src/subscription/*` | `subscription` | watch set, sync | `Subscriptions` |
| report form, submit queue, submit screen | `app/src/report/*`, `store/tables/ownReport.ts` | `own_report`, `kv identity.device_id`, the screen | validate, confirm, a pass, record an answer, tell the reporter | `ReportForm`, `ReportSubmission`, `SubmitScreen` |
| outbound responses | `store/tables/outboundResponse.ts` | `outbound_response` | enqueue, send, settle, purge | `OutboundResponses` |
| reading responses | `store/tables/receivedResponse.ts` | `received_response`, a cursor | read a page, save it, save the cursor | `Responses` |
| data store, native store, migrations | `app/src/store/*`, `packages/encrypted-store`, `store/migrations.ts` | the file, the key vault, connections, the queue of work | open, migrate, run work one by one, delete everything | `DeviceStore` |
| location capture | `packages/native-location-capture` | mode, mechanism, permission, status | start, stop, ask, wake, store a fix | `LocationCapture` |
| capture screens | `app/src/permissions`, `home`, `settings`, `diagnostics` | the status last shown, "prompt used" | poll, ask, pause, resume, delete | `CaptureScreens`, `HealthCard` |
| encodings, evaluation harness, the other screens | `payload/canonical.ts`, `encoding.ts`, `server/src/harness`, design system, navigation | none, or an offline simulation | | not modelled (section 7) |

`m0/` is a finished feasibility study, not part of the running system.

### How they interact

* **Server to phones**: only through files. The compiler reads the database in
  one transaction and then writes an object store and purges a CDN, with no
  transaction over the three. Phones poll. Edges may answer with old copies.
* **Phone to server**: HTTP requests with an idempotency key, given up on after a
  timeout, and repeated.
* **On the phone**: one SQLite file with two connections. JavaScript queues its
  statements (`createDataStore`), so that work that waits for the network lets
  other work in between its statements; the native capture module writes fixes
  and visits, and purges history, at any moment.
* **On the phone's screens**: statuses arrive as events or as answers of calls
  made earlier, so a screen may act on what was true a while ago.

### What is hard about it

No unit test covers well: passes and cycles that die between two stores; stale
index copies; clocks set back on the server (the issue times of the index) and on
the phone (retention, waits, cursors); requests that arrive after they were given
up on; two passes over one queue; the owner deleting everything while something
waits for the network; a delete half of which failed; rows that arrive late behind
a cursor; row ids used again after a purge; prompts that can be used once; tabs and
screens that decide on what they last saw. `PROJECT.json` lists them as hazards,
each at its line and with the properties that would fail.

### What makes each component correct

* Compiler: publishes only what was released; a path never changes its content;
  the index names only what is there; readers see whole publications, signed by one
  key; a stale edge copy is never forgotten; in the end readers see exactly what
  may be shown.
* Fetcher: never goes back to an older revision, never takes a published report
  for ended, keeps nothing that cannot end, misses nothing it counts as held, and
  catches up.
* Submission: filed at most once, delivered in the end, and the row and the screen
  tell the truth about what the server has.
* Edits: what one revision accepts as evidence every later one accepts.
* Responses: one per device, none skipped, none shown that was not released, a
  decision is final, sender and operator are told what happened, all are read.
* Matching: one match per report ever, no timely fix left behind the cursor, no
  match without its report, evidence is found in the end.
* History: deriving in steps is deriving at once; the shards followed are those of
  the history there is, and hold every report it is evidence for.
* Capture: one mechanism at a time, nothing stored after a stop was acknowledged,
  no button that cannot work goes unexplained, what is shown becomes true.
* Store: no row is orphaned, a confirmed delete is one, the file is always readable
  with the key there is and on the schema of the build.

## 2. The modules

Abstractions common to all: identifiers are model values or small numbers; a
signature is the key and what it was made over; a content hash is the content; a
shard area is a set. **Scenarios**: most modules have a variable `scenario` (or
`budget`), picked in `Init` from the constant `Scenarios`: which actors take part
and how often each trouble may happen. The troubles are counted down as they
happen, so every behaviour of a scenario is one of the unbounded system, and a
property may say `Never("event")` of a trouble it does not survive. The theorems
hold for every set of scenarios. Every other unbounded counter has a named bound
(`Max...`) in the guard of the event it counts. History variables are marked as
such.

**`KeyRing`, `Payload`, `ShardCompiler`, `Readers`, `Board`** (server/src/shards,
packages/shared/src/payload). `KeyRing` is which key signs at a second and which
keys an app release cut at that second pins; `Payload` what is signed and what a
device makes of a document; `ShardCompiler` the columns of `reports` a pass depends
on, the three tables, the object store, `stale` (CDN paths whose edge copy is
wrong), the pass in progress, and `written`, the history of every bundle put. Its
actions are the routes (`Release`, `Reject`, `Widen`, `End`, `Expire`), the clock,
and the steps of `compileShards` in its order: `Plan` (read, sign, number; one
transaction), `Compare` (`addPendingCdnPaths`), `PutBundle`, `PutIndex`,
`RecordIndex`, `DeleteBundle`, `Invalidate`. `PassDies` may fall between any two;
`DiesAfterIndexPut` separates the deaths the pass recovers from and the one it does
not (finding 1). Reports change between any two steps because the pass awaits the
object store. `Board` is the abstract specification: a board that is replaced as a
whole by a snapshot of what could be broadcast (`PublishesAtomically`).

**`Publisher`, `FetchCycle`, `FetchTrigger`** (packages/shared/src/fetch,
app/src/fetch). `Publisher` is the board as a device meets it: numbered editions,
generations that go up, bundles that disappear once superseded, edges that answer
with any edition since `edgeFrom`; an assumption here and what `ShardCompiler`'s
properties say there. `FetchCycle` has one action per stretch between two points
where `runFetchCycle` gives way: `StartCycle` (gates, state loaded),
`IndexAnswered`, `BundlesAnswered`, `Write` (the one transaction), and the failures
of each. What a cycle loaded stays in `cycle.loaded`, because the code computes its
write from it, so a store that was deleted meanwhile is overwritten the way the
code does it. Times are differences from the device's clock. `FetchTrigger` adds
what a wake makes of it: the waits in memory, back-to-back cycles, joined calls.

**`ReportForm`, `ReportSubmission`, `SubmitScreen`** (app/src/report,
server/src/app.ts). `ReportForm` is pure: what the form accepts, what it sends, and
the schema the server reads it with. `ReportSubmission` has the phone's rows with
the statements of `runSubmitQueue` one by one, requests on the wire that nobody may
be waiting for any more, and the server's `idempotent` wrapper with each commit a
step. The server is one process, so `serving` is one request; the steps exist
because it may die between two commits. `WHERE ... AND state = 'sending'` is
`StillSending`. `SubmitScreen` is the screen with passes of its own among those of
wakes.

**`ReportEdits`, `Responses`, `OutboundResponses`, `OperatorPage`, `TipJourney`**
(server/src, store/tables). `Responses` has the rows with their `seq`, the
operator's decisions, the idempotency table, and a reporter that reads pages; a
request is one step; the response fetch has no caller in the app yet, so the model
runs the table functions in the order their comments prescribe, twice at a time.
`ReportEdits` has patches with `expected_revision`, retried or confirmed again,
against the widen-only rule, and the phone that applies answers out of order.
`OutboundResponses` is the sender's queue (its sender is not written yet: the model
follows the state machine the table documents). `OperatorPage` has two tabs that
share a cookie, go stale and decide. `TipJourney` composes them; its `mode` says
which of them act.

**`MatchRule`, `MatchRunner`** (packages/shared/src/match, retention). `MatchRule`
is pure: the grid, the bounds, stays before fixes, the retention cutoff and the
cover of an area, over any metric space. `MatchRunner` is one maintenance run,
statement by statement. Place is there a number and a report's criteria reach up to
a level, which is what widening raises. `samples` carry a mark `late`, which no code
sees: which fixes the runner documents it may miss. In the app a run takes one turn
of the store's queue; the runner is written for any caller (`setLastMatchedAt`
compares the revision, and a test revises a report under a run), so the model lets
the fetcher in as well.

**`StayDerivation`, `Subscriptions`, `EvidenceFollowed`** (packages/shared/src/stay,
subscription). Fixes on a line of positions, the tracker and the ledger of
`deriveStays` with centroids kept exactly, the cursor and its rewind, visits
reported late, both purges, kills and a clock set back; then the watch set of the
history and its sync; then both with `MatchRule`: is a report the history is
evidence for in a followed shard? The loops of the tracker (rows absorbed one after
another, fixes placed again when a dwell breaks, rows reconciled) are functions of
the number of their rounds, with as many rounds as the code can need
(`AbsorbingEnds`, `FeedingEnds`); the rows of a ledger are kept under numbers, which
stand for the identity of the objects in `StayLedger`. `EvidenceFollowed` names what
it takes from h3 and from the sizes chosen (`GeometryAssumption`): an average of
places is a place, a distance shorter than that of two places is reached on the way
(the cover of an area is computed over cells, not over the fixes there are), and a
res-5 cell with its ring holds all that is within `MATCH_RADIUS_M` of it, a cell
being several kilometres across and the radius some hundred metres.

**`LocationCapture`, `HealthCard`, `CaptureScreens`** (packages/native-location-capture,
app screens). The module from the reference implementation of its contract
(`fake.ts`), calls taken one at a time, the operating system between any two steps;
what the card and the headings say of a status; and three screens over it, each
with the status it was last given. That an answer may be overtaken by an event is
how `NativeLocationCaptureModule.kt` sends them.

**`DeviceStore`** (app/src/store, packages/encrypted-store, store/migrations.ts). One
file and one key, opened by JavaScript (a queue of work) and by the native writer;
the steps of opening, migrating and deleting everything; deaths, locked restarts,
failing steps, a lost key, a native half that answers before it did its work, and
builds of two schema versions installed in either order.

## 3. The runs

Every run finishes within about three and a half minutes on two workers.
"Violation" runs show a disagreement between the code and what the repository says
of it (section 6).

| run | distinct states | properties | scenarios and bounds |
|---|---|---|---|
| `compiler` | 2.03 M | `OnlyReleasedPublished`, `OneContentPerKey`, `IndexClosed`, `StaleIsPending`, `SignedAlike`, `IndexIssuedLater`, `PublishesAtomically`, `Converges` | 2 reports, 2 shards, 2 revisions, one invalid query; both published with a death, or the first alone with two of: a death, a clock set back across a key rotation, a lost object |
| `fetch` | 1.28 M | `NoRollback`, `RemovedHasEnded`, `CachedIsHeld`, `HeldIsStored`, `CatchesUp` | 2 reports (one revision unreadable), 3 shards, 3 editions, 1 request slot; a device with cover, or one that waits while its clock is set back, its list moves, everything is deleted or a request fails, or one with a backlog |
| `submission` | 942 k | `AtMostOneReport`, `AcknowledgedUnlessDeleted`, `FailedNeverAccepted`, `Delivered`, `OutcomeIsShown` | 2 reports; two overlapping passes, or keys that age with a delete, or a watched screen; abandoned requests, a 500, a kill, a server death |
| `match` | 3.84 M | `AtMostOneMatch`, `MatchHasReport`, `NoFixLeftBehind`, `EvidenceIsMatched` | 1 report of 3 revisions with 1 fix and 1 visit, or a clock that jumps and a pass that dies |
| `responses` | 1.15 M | `OneTipEach`, `NothingSkipped`, `HeldIsNeverRead`, `EvidenceSurvivesEdits`, `ToldTheTruth`, `EveryTipIsRead` | 2 devices and keys, 2 fetches, pages of 1; or 3 edits among 8 patches on a line; or 1 sender; or 2 tabs |
| `stays` | 1.88 M | `SameAsAtOnce`, `NoFixSkipped`, `ClearOfVisits`, `FollowsHistory`, `EvidenceIsFollowed` | 4 fixes at 2 positions, times 0..2, one event (purge, visit, failure, step back), 4 reports on the line |
| `capture` | 909 k | `OneMechanism`, `DeadButtonExplained`, `NothingSavedWhileStopped`, `ShownSettles` | two scenarios on Android, three of the permission flow on iOS |
| `store` | 6 M | `StoredIsKept`, `DeletedIsGone`, `Readable` | 3 or 4 jobs, 2 rows; deaths with a fault; a lie and a lost key; replaced builds |
| `compiler_unrecorded` | | violation of `IndexClosed` | a death between put and record of the index |
| `submission_deleted` | | violation of `AcknowledgedIsOwn` | a delete under a pass |
| `match_clock_ahead` | | violation of `NotifiedOnce` | two jumps of the clock |
| `store_dead_handle` | | violation of `ClosedIsNotUsed` | one fault in a delete |

The liveness properties share a run with the safety properties that hold under the
same events.

Pure functions are checked by assumptions TLC evaluates with a run: in
`MCReportSubmission`, that every small form without an error makes a request the
schema accepts, that every photo becomes a thumbnail the schema accepts and that
every hour is written once with AM or PM; in `MCCaptureScreens`, that the card and
the permission flow, which have a table each, send the user to one page for a flag
(and that "all set" there may leave `store_unusable` and `service_not_running`
unmentioned, for which the flow has no remedy).

**Why the bounds are enough.** A shard with one report and one with two covers
emptying, refilling and moving of content; two revisions give a widened area and a
third one tells an edit of the words from one of the criteria; three editions let
an edge be two behind, which is what it takes to skip an edition and see an old
one. One request slot makes every second change wait. Two passes and one
abandoned request each are what it takes for an answer to arrive after another
pass took the row. Pages of one row make every row a page boundary. Four fixes at
two positions open a stay, leave it, come back and leave something open. Two rows
and four jobs let a write be queued before, during and after a delete. That a bound
is not too small to matter is what the mutants show: each property fails when the
definition it depends on is changed the way a plausible bug would change it. Larger
instances were run once where they fit: all three troubles of the compiler at once
(3.3 M), three positions or five fixes (2.7 M), the store with three rows (9.3 M), the
operator's page with two devices (3.6 M). And every safety property of these runs
is a theorem, for every bound (section 5).

**Deadlock** is checked in the compiler and capture runs. The other systems may
stop: nothing is queued, all editions are published, all responses are read.

No symmetry reduction is used: most runs check a liveness property or an action
property, with which it does not go together.

## 4. Fairness

All of it is weak fairness.

* `compiler`: the steps of passes; the worker's timer starts one for as long as
  the server runs (`worker.ts`, `setInterval`). Not the reports or the clock.
* `fetch`: in the scenarios that go on, the steps of the trigger and its cycles,
  because the app wakes again and again (`useAppWake`); time; edge copies of the
  index, which have a max-age. Not editions, and never that a request succeeds:
  faults are bounded instead.
* `submission`: a step of each pass, be it a wake's or the screen's own; the server
  answering what it received; delays passing. Not confirming, not that a key ages,
  and nothing of abandoned requests. `Delivered` is about one pass at a time: two
  that overlap for ever requeue each other's rows. `OutcomeIsShown` takes that the
  wakes do not start passes over the screen's row for ever.
* `match`: the steps of maintenance runs, which follow every wake. Neither the
  clock nor the fetcher.
* `responses`: the reporter's fetches. Neither posts nor the operator.
* `capture`: the module serving its calls, JavaScript continuing after an answer,
  the store's queue, and the card's poll.
* `stays` and `store`: none; their properties are safety.

## 5. What is proved

TLAPS checks every theorem below for all values of the constants that satisfy the
assumptions of the component's module: what type each constant has, that a limit is
not negative, the triangle inequality of a metric; nothing about sizes. Every
safety property a passing run checks is one of them. The inductive invariants named
here are in the modules of proofs, before the lemmas that keep them, one lemma per
action or kind of action.

### `ShardCompilerProofs`: the compiler, its keys and its readers

* `OnlyReleasedIsPublished`. `GenuineInv` adds the generation rows to what was put,
  because a pass puts what the rows hold, long after they were computed; it is kept
  because a release is never taken back and revisions only grow.
* `OneContentPerKeyForever`. `NumberingInv`: a row is at or past every number ever put
  for its shard, and at one of them only with that bundle's content or empty.
* `GenerationsOnlyGoUp`, an action property no run states: an index that is put lists
  each shard at the highest number ever put for it, so never below one listed before;
  `plan.ts:131` counts on it. `NewestInv`: what a pass wants and does not put was put
  by an earlier one, whatever the store has lost since. Starting an emptied shard over
  (`NextGenerationForgetting`) breaks it within the bounds of `compiler`.
* `IndexIsAlwaysClosed` assumes `~DiesAfterIndexPut` (finding 1 is the counterexample
  without it); `IndexClosed` itself speaks of stores that lost nothing. `ProgressInv`
  relates, phase by phase, what is still to be put and deleted to the index, the
  recorded state and the store.
* `NoEdgeCopyIsLeft` (`StaleIsPending`). `PendingInv`: a number not used yet was never
  named by an index, so no edge can hold a "not found" for it.
* `EveryIndexIsIssuedLater`, an action property, from `IssuedInv`: the index is the
  recorded one, or lost, except between put and record. Same assumption.
* `PassesPublishWholeBoards`: `ShardCompiler` implements `Board`. The mapping is
  *current* = what could be filed now, *snapshot* = the content of the generation
  rows, *board* = the queries of the bundles the index names. Each action is a step
  of `Board` or none; `BoardInv` has `ReadersInv` and, while nothing was lost,
  `ProgressInv`.
* `NamedIsSignedAlike` and `WholeOrNotAtAll`: from `ReadersInv`, everything an index
  names was signed by the key that signed it, so an app release reads a board as a
  whole or not at all, whenever it was cut. The second ranges over every cut second
  and so is only proved.
* `PinsOutlastRotation`: a key that signs now was trusted when an earlier release was
  cut, for any ring.

### `FetchCycleProofs`: the fetcher under its trigger

`NeverRolledBack`, `EndedIsEnded`, `CachedStaysHeld`, `HeldStaysStored`, from `FetchInv`:
editions only grow and a generation is one content until the shard is empty
(`GrowInv`); a held shard is what some accepted edition listed, issued no later than
the index accepted last (`HeldAt`, `BoundInv`); what was learned is at most what
that index says; and what a cycle loaded is in step with the store or everything
was deleted since (`LoadedInv`). That a report the write drops is over rests on
areas that only widen (`StaysListed`, `DroppedIsOver`). The first two properties are
conditional on `Never("deletes")`, the last on `Never("deletes")` or
`Never("purges")`: the proof found that condition.

### `SubmissionProofs`: form, queue, wire, server, screen

* `SubmissionTypeCorrect`, and `KeyFiledOncePerDevice` unconditionally, from `WireInv`
  (at most one request on the wire is awaited by a pass, and it is the one its row
  speaks of) and `ServerInv` (the idempotency table and what was filed agree, whatever
  died in between).
* `ReportFiledOnce`, `AcknowledgedIsFiled` and `FailedIsNotFiled`, as long as the data
  were not deleted, from `PhoneInv`: one identity, keys never used twice, a refused key
  is filed nowhere, and an outcome is recorded only from an answer to that row's key.
* `WhatIsShownIsTrue`: the safety half of `OutcomeIsShown`, from `SaidInv`.
* `FormMakesItsRequest`: for every form, limits, time zone and clock past one
  retention, a form with nothing to correct makes a request the schema accepts, whose
  window ends by now and begins within the retention. Two packages state these rules
  separately. The exception is in the statement: a time the zone skips over midnight
  passes the form and makes no request.

### `TipJourneyProofs`: the match rule, edits, responses, sender, operator

* `RetrospectiveIsTheRule`: the runner's order (stays first, fixes only of the cells
  of the cover) finds what the rule finds, by the triangle inequality.
  `LatePurgeChangesNothing`: purging before or after changes no result.
* `NoSequenceOfEditsNarrows`, `EvidenceOutlivesEdits`, `PhoneKeepsTheNewest`,
  `EditsTypeCorrect`. `LaterCovers` says that any later revision covers any earlier one;
  coarsening to the grid loses a step once, not per edit. `MoveTakesTheLeastRadius`:
  the radius the phone asks for a move is the least the server's rule accepts.
* `TypeCorrect`, `OneResponsePerDevice`, `NothingIsSkipped`,
  `HeldNeverReachesTheReporter`, `DecisionsAreFinal`. `ReadInv` says of the phone's
  cursor, and of every cursor a fetch carries, that no delivered row at or below it
  is unread: a row that becomes delivered takes a number no cursor has reached, and
  every row between a page's two cursors is on the page, for any page size.
* `EditsImplementResponses`, `JourneyImplementsResponses`: every step of the composed
  system is a step of `Responses` or leaves it alone, so that those invariants carry
  over to the specification the run checks (`JourneyKeepsTheTips`,
  `JourneyKeepsTheEvidence`).
* `ToldIsTrue` (`ToldTheTruth`): `SenderInv` (a key is answered once and what is
  remembered only grows, so an answer that comes late is still the answer) and
  `NoticeInv` (decisions are final, so a notice shown in a tab stays true).

### `MatchRunnerProofs`

`MatchTypeCorrect` and `MatchStaysWithReport` unconditionally, from `ListedInv`: a
report is in one place of a pass only, the revision a pass holds is the cached one or
an older one, a pass holds no report past its expiry, and a matched report has its
row. `MatchedOnce` and `CursorStaysBehind` while the clock is left alone, from
`SteadyInv`: a report that lost its match is over for good, and everything a pass has
read of a fix or a stay is still so when it writes (`ReadInv`, `DecidedInv`), for
evidence only fades as time goes on.

### `CaptureProofs`

`TypeCorrect`; `OneMechanismAlways`; `NothingSavedAfterStop`, from one call under way at
a time; `DeadButtonAlwaysExplained`, from `PromptInv`: the spent prompt is recorded, or
its mark waits in the store's queue, or a delete forgot it, or the screen that used it
knows.

### `DeviceStoreProofs`

`StoredRowsAreKept`, `ConfirmedDeleteIsTrue`, `StoreStaysReadable`, unconditionally: for
any number of faults, lies, lost keys, deaths and replaced builds. `StoreInv`: a
connection in use is on the file there is, under the vault's key and on the build's
schema (`ConnInv`); a job that opens holds no handle and the key it read is the
vault's (`OpeningInv`); the key a delete held when it began is the old one or
unreadable, and never the one the new store opens with (`DeletingInv`).

### `StaysProofs`: stays, the watch set and the evidence

A loop is proved about by its least bad round; the first lemmas say, loop by loop,
that the function of its rounds is one.

* `Good` is what holds of a tracker all through a run, whatever it is fed: each row
  of its ledger and each row removed has a cluster whose centroid lies between two
  positions; no stay is stored under two of these rows; a row with the id of a
  stored stay began when that stay did (this is what makes `UPDATE`, which cannot
  move a start, write the row); every stored stay is in the ledger or among the
  removed; no row that is not still to be reconciled is at the place and time of a
  visit; and the dwell that waits is made of fixes that were fed. One lemma per
  operation of the tracker, then `Begin`, `Place`, a feed, a reconciliation and the
  write keep it.
* `WatchInvariant`: `HistoryInv` says of the store that ids are positive and no two
  stays or fixes share one, that the cursor is at or below the largest id there is,
  and that a fix at or below it has been finished with; the rest of `WatchInv` that a
  table which is up to date is the watch set of the history at `now`. That the
  cursor never passes the largest id is what every purge's rewind is for; it also
  means that the branch of `derive.ts:93` for restarted ids is not reached as
  long as every purge goes through those statements.
* `NoFixIsSkipped`: a fix at or below the new cursor was fed in this run, or was at or
  below the old one. A dwell that waits begins with a fix that was fed, so the cursor
  stops before it; ids used again after a purge are above the rewound cursor.
* `RunsClearVisits` (`ClearOfVisits`, an action property): rows that a visit has come
  to cover are exactly those to be reconciled, each is taken out and what replaces it
  is clear, and nothing a run adds touches a visit.
* `HistoryIsFollowed`: what the loop that coarsens leaves fits the cap, and the
  difference written makes the table equal to the watch set, one row per topic.
* `EvidenceIsFound`: a stay's centroid, rounded down, is a place, so a report whose
  coarsened criteria hold it is filed, by criteria as written, under a cell in the
  ring of a cell the stay's is followed for.
* `AbsorbingEnds`, `FeedingEnds`: the rounds counted are enough. After as many rounds
  as there are rows nothing is left to absorb; after (q + 1)² + 1 rounds for q waiting
  fixes the queue is empty. The weight that falls with every round is (T + q)² + q
  over the T fixes queued and the q waiting.
* `SplitAsAtOnce` (`SameAsAtOnce`), in five steps.
  1. Two trackers with the same rows (`Twin`: same cluster, both open or both closed)
     and the same dwell do the same with a fix, whatever their rows are numbered and
     stored under (`FedTwin`). What picks a row picks the one that ends last, so this
     needs that no two rows end together (`OneEndEach`).
  2. Fixes in order give that (`Sorted`): the rows end at or before the fix last
     placed, an open row last of all, no two together, and the dwell that waits is
     the stretch of the log since. It fails when the clock goes back (section 6).
  3. A dwell that waits grew by fixes that each kept it together (`Builds`), so
     feeding its stretch again builds it again (`FoundAgain`, `DwellIsBack`), and the
     new cursor is right before it (`CursorBeforeDwell`).
  4. A run writes one stay for each row of its ledger (`WrittenRows`).
  5. So `IsSplit` survives a run, `DerivedIsSplit`: the stays are the rows of the
     tracker fed all fixes up to `upTo`, and those after the cursor are its dwell.
     `TableIsSplit` is `SplitInv`, that `IsSplit` holds while fixes are in order and
     nothing was disturbed. TLC cannot evaluate `SplitInv`: `Builds` ranges over the
     ways to grow a dwell, all functions. It checks `SameAsAtOnce`, which follows.

### What stays with TLC

* Liveness: `Converges`, `CatchesUp`, `Delivered`, `OutcomeIsShown`, `EvidenceIsMatched`,
  `EveryTipIsRead`, `ShownSettles`. It needs fairness and `ENABLED`.
* The values of backoff waits (a recursive `Delay`), that a thumbnail fits (integer
  division of sides), and the tables of the health card.

## 6. Findings

Four runs end in a violation; `PROJECT.json` quotes the line contradicted.

1. **An index that names a deleted bundle for good** (`compiler_unrecorded`). The
   index is put and then recorded. If the pass dies between and the newly listed
   report ends before the next pass, the listing equals the recorded one again;
   the index is left alone while the bundle it names is deleted. For the same
   reason the next index may be issued no later than the one it replaces.
2. **An answer written into another report's row** (`submission_deleted`): a queue
   pass that outlives "Delete all my data" goes on with ids of the old store; the
   row that has the id now is acknowledged with the old report and never sent.
3. **Two matches for one report** (`match_clock_ahead`): a clock that runs ahead for
   one purge deletes a report and its match; when the report is fetched again it
   matches again.
4. **A closed connection stays in use** (`store_dead_handle`): a delete that fails
   after it closed the connection leaves the closed handle as the current store, and
   all later work fails on it until the app restarts.

The conditions in the properties of passing runs are known limits of the code. Each
property fails without its condition:

| property | condition | because |
|---|---|---|
| `NoRollback`, `RemovedHasEnded` | no "Delete all my data" | a cycle that outlives the delete writes shard rows without the index they came from; the floor for older edge copies is gone |
| `HeldIsStored` | no delete, or no purge | the same, once a report it stored was purged |
| `AtMostOneReport`, `AcknowledgedUnlessDeleted` | no delete | the device id goes with the data; finding 2 |
| `FailedNeverAccepted` | the key has not aged | a key may expire in the queue after an attempt whose answer was lost |
| `Delivered` | not `Unfinishable` | a key in progress stays so if the server dies before it commits the answer; every retry is told to wait until the key expires |
| `OutcomeIsShown` | not `missed` | a screen whose row was settled by somebody else's pass, or whose own pass throws after settling it, says "has not been sent yet" for ever |
| `AtMostOneMatch`, `NoFixLeftBehind`, `EvidenceIsMatched` | the clock does not jump | a clock set back catches up between two passes; finding 3 |
| `IndexClosed` | the store loses nothing | the index is only rewritten when the listing changes |
| `SameAsAtOnce` | fixes are stored in the order of their times | when the clock goes back two stays may end at one instant; the later dwell continues the one listed last (`extract.ts:272`), and a run over stored rows lists them by start (`stay.ts:149`), the run that made them as they were made. Radius 3, one second to make a stay or to bridge: fixes (time, position) (1, 4), (2, 4), then back, (0, 0), (2, 0), (2, 4), (3, 2) end as one stay at once and as two when a run comes before the last; `extract.ts:298` says "exactly these rows [...] however the fixes are split across runs" |

Smaller things met on the way, without a run of their own: failed tips are purged by
the time they were queued, not when they failed (`outboundResponse.ts:195`,
`purge.ts:21`); an older answer of the same revision moves the phone's own report
from ended back to active (`ownReport.ts:231`; nothing calls it yet); a report
purged while the clock ran ahead is fetched again only when its shard moves
(`reportCache.ts:192`); Home's report card shows a rejected report as live
(`HomeScreen.tsx:67`), though `api/reports.ts:54` says clients check
`review_state` first.

## 7. Not modelled

H3, great-circle distances, canonical JSON and encodings are used as the
abstractions named above; cryptography as which key signed what. HTTP is modelled by
its outcomes. SQL transactions are taken to be atomic and SQLite to keep what it
committed; one compiler per store is a documented precondition (`compiler.ts:63`).
Of capture, the counters over 24 hours, the diagnostics log, `debugInjectSample` and
the rejection of `getStatus`; of the store, cipher parameters and VACUUM; of the
operator's page, its HTML, the password check and the refusal of foreign sites; of
edits, the ageing of keys and descriptive fields; of subscriptions, the times of a
row; of the match rule, the order of the evidence and the checks for NaN. The
evaluation harness, the design system, navigation, onboarding, the build-policy
checks and the r2 transport are left out. `ShardCompiler` is not shown to implement
`Publisher` as a whole, and would not step by step: a pass that dies after it took its
numbers leaves gaps, a rotated key makes new numbers for the same reports, and a
report that does not make a valid query is left out. A fetcher compares numbers and
never counts them. What it does count on, that editions are whole, later than the one
before and never numbered lower, and that a path keeps its bytes, are properties of
the `compiler` run and theorems (section 5).

## 8. Plan

1. `Publisher` with gaps between its numbers, and `ShardCompiler` shown to implement it.
2. The sender of `outbound_response` and the caller of `applyServerReport`, once the
   app has them.
