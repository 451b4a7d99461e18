---------------------------- MODULE MatchRunner ----------------------------
(***************************************************************************)
(* Finding, on the phone, the reports its history crossed: the retention    *)
(* purge and the match pass that follow each other in one maintenance run,  *)
(* while the fetcher revises the cached reports and the native writer adds  *)
(* fixes and visits between any two statements of the pass.  The app runs a *)
(* pass in one turn of the store's queue, where only the native writer can  *)
(* come between; the runner promises more (setLastMatchedAt compares the    *)
(* revision, runner.test.ts revises a report under a run), and so is        *)
(* modelled under every caller.                                             *)
(*                                                                         *)
(* Place is abstracted to a level: a report with criteria level c covers    *)
(* the places 1..c, and a widening edit raises c.  Every report has the     *)
(* same window, which is the one on the grid, with its margin.              *)
(***************************************************************************)
EXTENDS Integers, FiniteSetsExt

CONSTANTS
  Reports,      \* query ids
  Criteria,     \* the criteria level of each revision
  Window,       \* [from, to]: when history is evidence
  Expires,      \* when the reports expire
  Late,         \* MATCH_SAMPLE_LATE_SEC
  Retention,    \* RETENTION_SEC
  MaxTime,      \* bound on the clock
  Scenarios     \* which revisions there are, and how often each event may happen

Revisions == DOMAIN Criteria
Times == 1..MaxTime
Places == 1..Max({Criteria[v] : v \in Revisions})

Events == {"fixes",   \* fixes taken
           "visits",  \* stays written by a visit
           "faults",  \* deaths and store failures
           "jumps"}   \* changes of the clock, either way

ASSUME MatchAssumption ==
  /\ \A v \in Revisions : v \in Nat \ {0} /\ Criteria[v] \in Nat \ {0}
  /\ {Window.from, Window.to, Expires, Late, Retention} \subseteq Nat
  /\ MaxTime \in Nat
  /\ \A s \in Scenarios : s.revisions \subseteq Revisions /\ s.budget \in [Events -> Nat]

VARIABLES
  now,       \* the device clock
  cache,     \* table report_cache: revision and last_matched_at (Owed is NULL)
  ended,     \* reports the fetcher has dropped for good
  taken,     \* fixes taken that have not reached the store
  samples,   \* table location_sample
  stays,     \* table stay
  matches,   \* table match: the revision matched, or 0
  inserted,  \* how often a match row was inserted, since the store was made
  known,     \* readReports: the revision remembered of each report, or 0
  pass,      \* the match pass
  scenario   \* the one this behaviour follows, and what is left of its events

history == <<taken, samples, stays>>
vars == <<now, cache, ended, history, matches, inserted, known, pass, scenario>>

NotCached == [revision |-> 0, cursor |-> 0]
Owed == 0
Idle == [at |-> "idle"]

Spend(event) == scenario.left[event] > 0 /\ scenario' = [scenario EXCEPT !.left[event] = @ - 1]
Never(event) == scenario.left[event] = scenario.budget[event]

-----------------------------------------------------------------------------
(* The rule *)

\* Where history can be evidence at time t; from > to is null.
Bounds(t) == [from |-> IF t - Retention > Window.from THEN t - Retention ELSE Window.from, to |-> Window.to]
Possible(t) == Expires > t /\ Bounds(t).from <= Bounds(t).to

Near(place, revision) == place <= Criteria[revision]

FixesAsEvidence(fixes, revision, t) ==
  {f \in fixes : Near(f.place, revision) /\ f.ts \in Bounds(t).from..Bounds(t).to}

StaysAsEvidence(rows, revision, t) ==
  {s \in rows : Near(s.place, revision) /\ s.start <= Bounds(t).to /\ s.end >= Bounds(t).from}

\* Stays first; fixes only when no stay is evidence.
IsEvidence(rows, fixes, revision, t) ==
  Possible(t) /\ (StaysAsEvidence(rows, revision, t) # {} \/ FixesAsEvidence(fixes, revision, t) # {})

-----------------------------------------------------------------------------
(* The other writers of the store *)

\* The cursor of a revised report: reset when the criteria changed.
Revised(r, revision) ==
  IF Criteria[revision] # Criteria[cache[r].revision] THEN Owed ELSE cache[r].cursor

\* Only a strictly newer revision replaces a stored one.
Fetch(r, revision) ==
  /\ r \notin ended /\ revision \in scenario.revisions /\ revision > cache[r].revision
  /\ cache' = [cache EXCEPT ![r] =
       [revision |-> revision, cursor |-> IF @ = NotCached THEN Owed ELSE Revised(r, revision)]]
  /\ UNCHANGED <<now, ended, history, matches, inserted, known, pass, scenario>>

Ends(r) ==
  /\ cache[r] # NotCached
  /\ ended' = ended \cup {r}
  /\ cache' = [cache EXCEPT ![r] = NotCached]
  /\ UNCHANGED <<now, history, matches, inserted, known, pass, scenario>>

Takes(place) ==
  /\ Spend("fixes")
  /\ taken' = taken \cup {[ts |-> now, place |-> place]}
  /\ UNCHANGED <<now, cache, ended, samples, stays, matches, inserted, known, pass>>

\* `late` is not stored: it marks the fixes the runner says it may miss.
Stores(f) ==
  /\ taken' = taken \ {f}
  /\ samples' = samples \cup {[ts |-> f.ts, place |-> f.place, late |-> now > f.ts + Late]}
  /\ UNCHANGED <<now, cache, ended, stays, matches, inserted, known, pass, scenario>>

\* A visit is written when it is over, however long ago it began.
Visits(start, place) ==
  /\ Spend("visits")
  /\ start <= now
  /\ stays' = stays \cup {[start |-> start, end |-> now, place |-> place]}
  /\ UNCHANGED <<now, cache, ended, taken, samples, matches, inserted, known, pass>>

StaysKept(rows, cutoff) ==
  {[s EXCEPT !.start = IF @ < cutoff THEN cutoff ELSE @] : s \in {x \in rows : x.end >= cutoff}}

\* A capture wake with no JavaScript purges the history, at any moment.
NativePurge ==
  /\ samples' = {f \in samples : f.ts >= now - Retention}
  /\ stays' = StaysKept(stays, now - Retention)
  /\ <<samples, stays>> # <<samples', stays'>>
  /\ UNCHANGED <<now, cache, ended, taken, matches, inserted, known, pass, scenario>>

Tick ==
  /\ now < MaxTime
  /\ now' = now + 1
  /\ UNCHANGED <<cache, ended, history, matches, inserted, known, pass, scenario>>

\* With no fix on its way, so that lateness compares two readings of one clock.
ClockJumps(t) ==
  /\ t # now /\ taken = {}
  /\ Spend("jumps")
  /\ now' = t
  /\ UNCHANGED <<cache, ended, history, matches, inserted, known, pass>>

-----------------------------------------------------------------------------
(* The maintenance run *)

CachedEarly(t) ==  \* mutant: reports are purged before they expire
  [r \in Reports |-> IF Expires <= t + 2 THEN NotCached ELSE cache[r]]

CachedAt(t) == [r \in Reports |-> IF Expires <= t THEN NotCached ELSE cache[r]]

OrphansKept(reports) == matches  \* mutant: the matches of purged reports are left

\* Reports before matches: a match is an orphan once its report is gone.
NotOrphans(reports) == [r \in Reports |-> IF reports[r] = NotCached THEN 0 ELSE matches[r]]

Purge(t) ==
  /\ samples' = {f \in samples : f.ts >= t - Retention}
  /\ stays' = StaysKept(stays, t - Retention)
  /\ cache' = CachedAt(t)
  /\ matches' = NotOrphans(CachedAt(t))

\* The clock is read once, before the purge; a purge that fails does not stop the pass.
StartRun ==
  /\ pass = Idle
  /\ Purge(now) \/ UNCHANGED <<samples, stays, cache, matches>>
  /\ pass' = [at |-> "list", ts |-> now]
  /\ UNCHANGED <<now, ended, taken, inserted, known, scenario>>

CursorsOf(reports) ==
  {[report |-> r, revision |-> cache[r].revision, cursor |-> cache[r].cursor] :
     r \in {x \in reports : cache[x] # NotCached}}

LiveCursorsEarly(t) == CursorsOf({x \in Reports : Expires > t + 1})  \* mutant: not in their last hours
LiveCursors(t) == CursorsOf({x \in Reports : Expires > t})

\* The cursors of the live reports; what is remembered of the others is forgotten.
List ==
  /\ pass.at = "list"
  /\ LET rows == LiveCursors(pass.ts)
     IN  pass' = IF rows = {} THEN Idle
                 ELSE [at |-> "matches", ts |-> pass.ts, rows |-> rows, known |-> known]
  /\ known' = [r \in Reports |-> 0]
  /\ UNCHANGED <<now, cache, ended, history, matches, inserted, scenario>>

ReadMatches ==
  /\ pass.at = "matches"
  /\ pass' = [at |-> "scan", ts |-> pass.ts, rows |-> pass.rows, known |-> pass.known,
              matched |-> {r \in Reports : matches[r] # 0}, open |-> {}]
  /\ UNCHANGED <<now, cache, ended, history, matches, inserted, known, scenario>>

CursorOfAny(r, revision, t) ==  \* mutant: WHERE query_id = ? alone
  IF cache[r] = NotCached THEN cache ELSE [cache EXCEPT ![r].cursor = t]

\* A report the fetcher has revised since is left alone.
SetLastMatchedAt(r, revision, t) ==
  IF cache[r].revision = revision /\ cache[r] # NotCached THEN [cache EXCEPT ![r].cursor = t] ELSE cache

\* One listed report: matched already, remembered, or read now, as it is now.
Scan(row) ==
  LET r == row.report
      remembered == pass.known[r] = row.revision
      revision == IF remembered THEN row.revision ELSE cache[r].revision
      cursor == IF remembered THEN row.cursor ELSE cache[r].cursor
      rest == pass.rows \ {row}
  IN  /\ pass.at = "scan" /\ row \in pass.rows
      /\ \/ /\ r \in pass.matched
            /\ cache' = IF row.cursor = Owed THEN SetLastMatchedAt(r, row.revision, pass.ts) ELSE cache
            /\ pass' = [pass EXCEPT !.rows = rest]
            /\ UNCHANGED known
         \/ /\ r \notin pass.matched /\ revision = 0
            /\ pass' = [pass EXCEPT !.rows = rest]
            /\ UNCHANGED <<cache, known>>
         \/ /\ r \notin pass.matched /\ revision # 0 /\ ~Possible(pass.ts)
            /\ cache' = IF cursor = Owed THEN SetLastMatchedAt(r, revision, pass.ts) ELSE cache
            /\ known' = [known EXCEPT ![r] = revision]
            /\ pass' = [pass EXCEPT !.rows = rest]
         \/ /\ r \notin pass.matched /\ revision # 0 /\ Possible(pass.ts)
            /\ known' = [known EXCEPT ![r] = revision]
            /\ pass' = [pass EXCEPT !.rows = rest,
                                    !.open = @ \cup {[report |-> r, revision |-> revision, cursor |-> cursor]}]
            /\ UNCHANGED cache
      /\ UNCHANGED <<now, ended, history, matches, inserted, scenario>>

Scanned ==
  /\ pass.at = "scan" /\ pass.rows = {}
  /\ pass' = IF pass.open = {} THEN Idle ELSE [at |-> "stays", ts |-> pass.ts, open |-> pass.open]
  /\ UNCHANGED <<now, cache, ended, history, matches, inserted, known, scenario>>

ReadStays ==
  /\ pass.at = "stays"
  /\ pass' = [at |-> "fixes", ts |-> pass.ts, open |-> pass.open, stays |-> stays]
  /\ UNCHANGED <<now, cache, ended, history, matches, inserted, known, scenario>>

Since(cursor, t) == (IF cursor < t THEN cursor ELSE t) - Late

\* The fixes since the oldest cursor, as far as the bounds reach.
ReadFixes ==
  /\ pass.at = "fixes"
  /\ LET cursors == {o.cursor : o \in pass.open} \ {Owed}
     IN  pass' = [at |-> "match", ts |-> pass.ts, open |-> pass.open, stays |-> pass.stays,
                  fixes |-> {f \in samples : \E c \in cursors : f.ts >= Since(c, pass.ts)}]
  /\ UNCHANGED <<now, cache, ended, history, matches, inserted, known, scenario>>

Behind(o) == o.cursor = Owed \/ o.cursor > pass.ts \/ pass.ts - o.cursor > Late

\* A retrospective pass reads all the fixes in the bounds, a prospective one the recent ones.
Decide(o) ==
  /\ pass.at = "match" /\ o \in pass.open
  /\ LET found == IsEvidence(pass.stays, IF o.cursor = Owed THEN samples ELSE pass.fixes, o.revision, pass.ts)
     IN  pass' = [at |-> IF found THEN "insert" ELSE IF Behind(o) THEN "cursor" ELSE "match",
                  ts |-> pass.ts, open |-> pass.open \ {o}, stays |-> pass.stays, fixes |-> pass.fixes, report |-> o]
  /\ UNCHANGED <<now, cache, ended, history, matches, inserted, known, scenario>>

\* ON CONFLICT (query_id) DO NOTHING.
InsertMatch ==
  /\ pass.at = "insert"
  /\ LET r == pass.report.report
     IN  IF matches[r] = 0
           THEN /\ matches' = [matches EXCEPT ![r] = pass.report.revision]
                /\ inserted' = [inserted EXCEPT ![r] = @ + 1]
           ELSE UNCHANGED <<matches, inserted>>
  /\ pass' = [pass EXCEPT !.at = IF pass.report.cursor = Owed THEN "cursor" ELSE "match"]
  /\ UNCHANGED <<now, cache, ended, history, known, scenario>>

SetCursor ==
  /\ pass.at = "cursor"
  /\ cache' = SetLastMatchedAt(pass.report.report, pass.report.revision, pass.ts)
  /\ pass' = [pass EXCEPT !.at = "match"]
  /\ UNCHANGED <<now, ended, history, matches, inserted, known, scenario>>

PassEnds ==
  /\ pass.at = "match" /\ pass.open = {}
  /\ pass' = Idle
  /\ UNCHANGED <<now, cache, ended, history, matches, inserted, known, scenario>>

\* A statement fails, or the process dies and forgets what it had read.
PassStops ==
  /\ pass # Idle
  /\ Spend("faults")
  /\ pass' = Idle
  /\ known' \in {known, [r \in Reports |-> 0]}
  /\ UNCHANGED <<now, cache, ended, history, matches, inserted>>

-----------------------------------------------------------------------------

Init ==
  /\ now = 1
  /\ cache = [r \in Reports |-> NotCached] /\ ended = {}
  /\ taken = {} /\ samples = {} /\ stays = {}
  /\ matches = [r \in Reports |-> 0] /\ inserted = matches /\ known = matches
  /\ pass = Idle
  /\ \E s \in Scenarios : scenario = [revisions |-> s.revisions, budget |-> s.budget, left |-> s.budget]

PassStep ==
  \/ StartRun \/ List \/ ReadMatches \/ Scanned \/ ReadStays \/ ReadFixes
  \/ pass.at = "scan" /\ \E row \in pass.rows : Scan(row)
  \/ pass.at = "match" /\ \E o \in pass.open : Decide(o)
  \/ InsertMatch \/ SetCursor \/ PassEnds

Next ==
  \/ PassStep \/ PassStops
  \/ \E r \in Reports : Ends(r) \/ \E revision \in Revisions : Fetch(r, revision)
  \/ \E place \in Places : Takes(place) \/ \E start \in Times : Visits(start, place)
  \/ \E f \in taken : Stores(f)
  \/ NativePurge \/ Tick \/ \E t \in Times : ClockJumps(t)

Spec == Init /\ [][Next]_vars

\* A run follows every wake and every return to the foreground.
FairSpec == Spec /\ WF_vars(PassStep)

-----------------------------------------------------------------------------
(* Types *)

Fixes == [ts : Nat, place : Nat]
Samples == [ts : Nat, place : Nat, late : BOOLEAN]
Stays == [start : Int, end : Nat, place : Nat]
Listed == [report : Reports, revision : Revisions, cursor : Nat]
Remembered == [Reports -> {0} \cup Revisions]

PassStates ==
  [at : {"idle"}] \cup [at : {"list"}, ts : Nat]
  \cup [at : {"matches"}, ts : Nat, rows : SUBSET Listed, known : Remembered]
  \cup [at : {"scan"}, ts : Nat, rows : SUBSET Listed, known : Remembered,
        matched : SUBSET Reports, open : SUBSET Listed]
  \cup [at : {"stays"}, ts : Nat, open : SUBSET Listed]
  \cup [at : {"fixes"}, ts : Nat, open : SUBSET Listed, stays : SUBSET Stays]
  \cup [at : {"match"}, ts : Nat, open : SUBSET Listed, stays : SUBSET Stays, fixes : SUBSET Samples]
  \cup [at : {"match", "insert", "cursor"}, ts : Nat, open : SUBSET Listed,
        stays : SUBSET Stays, fixes : SUBSET Samples, report : Listed]

TypeOK ==
  /\ now \in Nat
  /\ cache \in [Reports -> [revision : {0} \cup Revisions, cursor : Nat]]
  /\ ended \subseteq Reports
  /\ taken \subseteq Fixes /\ samples \subseteq Samples /\ stays \subseteq Stays
  /\ matches \in Remembered /\ inserted \in [Reports -> Nat] /\ known \in Remembered
  /\ pass \in PassStates
  /\ scenario \in [revisions : SUBSET Revisions, budget : [Events -> Nat], left : [Events -> Nat]]

-----------------------------------------------------------------------------
(* Properties *)

\* At most one match per report, ever: no second revision, pass, purge or re-delivery
\* of the report makes a second row, and so a second notification.
NotifiedOnce == \A r \in Reports : inserted[r] <= 1

\* So it is while the clock is left alone; a report purged by a clock that ran ahead
\* comes back without its match.
AtMostOneMatch == Never("jumps") => NotifiedOnce

\* A match stands beside the report it is about, at the revision matched or a later
\* one, until the report has ended.
MatchHasReport ==
  \A r \in Reports \ ended : matches[r] # 0 => cache[r].revision >= matches[r]

\* A fix that reached the store in time is never left behind the cursor: while a report
\* has no match, the next pass reads every fix that is evidence for it.
NoFixLeftBehind ==
  Never("jumps") => \A r \in Reports : cache[r] # NotCached /\ cache[r].cursor # Owed /\ matches[r] = 0 =>
    \A f \in samples : ~f.late /\ IsEvidence({}, {f}, cache[r].revision, now) => f.ts >= Since(cache[r].cursor, now)

\* A live report the stored history is evidence for gets its match, however the fetcher,
\* the native writer and failures interrupt the passes.
Unmatched(r) ==
  /\ cache[r] # NotCached /\ matches[r] = 0
  /\ IsEvidence(stays, {f \in samples : ~f.late}, cache[r].revision, now)
EvidenceIsMatched == \A r \in Reports : Unmatched(r) /\ Never("jumps") ~> ~Unmatched(r) \/ ~Never("jumps")
=============================================================================
