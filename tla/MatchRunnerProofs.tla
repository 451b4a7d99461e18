------------------------- MODULE MatchRunnerProofs -------------------------
(* Proofs about the match pass, for every set of reports, revisions, windows *)
(* and waits: a report is notified once, its match stands beside it, and the *)
(* cursor never passes a fix that was stored in time.                        *)
EXTENDS MatchRunner, TLAPS

----------------------------------------------------------------------------
(* What a pass still has to do. *)

HasRows == {"matches", "scan"}
HasOpen == {"scan", "stays", "fixes", "match", "insert", "cursor"}
HasReport == {"insert", "cursor"}

ToDo ==
  (IF pass.at \in HasRows THEN pass.rows ELSE {})
  \cup (IF pass.at \in HasOpen THEN pass.open ELSE {})
  \cup (IF pass.at \in HasReport THEN {pass.report} ELSE {})

LEMMA PassShapes ==
  ASSUME NEW q \in PassStates
  PROVE  /\ q.at \in {"idle", "list"} \cup HasRows \cup HasOpen
         /\ q = Idle <=> q.at = "idle"
         /\ q.at # "idle" => q.ts \in Nat
         /\ q.at \in HasRows => q.rows \in SUBSET Listed /\ q.known \in Remembered
         /\ q.at = "scan" => q.matched \in SUBSET Reports
         /\ q.at \in HasOpen => q.open \in SUBSET Listed
         /\ q.at \in {"fixes", "match", "insert", "cursor"} => q.stays \in SUBSET Stays
         /\ q.at \in {"match", "insert", "cursor"} => q.fixes \in SUBSET Samples
         /\ q.at \in HasReport => q.report \in Listed
BY DEF PassStates, Idle, HasRows, HasOpen, HasReport

LEMMA PassBuilt ==
  ASSUME NEW ts \in Nat, NEW rows \in SUBSET Listed, NEW of \in Remembered,
         NEW matched \in SUBSET Reports, NEW open \in SUBSET Listed, NEW read \in SUBSET Stays,
         NEW fixes \in SUBSET Samples, NEW report \in Listed
  PROVE  /\ Idle \in PassStates /\ [at |-> "list", ts |-> ts] \in PassStates
         /\ [at |-> "matches", ts |-> ts, rows |-> rows, known |-> of] \in PassStates
         /\ [at |-> "scan", ts |-> ts, rows |-> rows, known |-> of, matched |-> matched,
             open |-> open] \in PassStates
         /\ [at |-> "stays", ts |-> ts, open |-> open] \in PassStates
         /\ [at |-> "fixes", ts |-> ts, open |-> open, stays |-> read] \in PassStates
         /\ [at |-> "match", ts |-> ts, open |-> open, stays |-> read, fixes |-> fixes] \in PassStates
         /\ \A at \in {"match", "insert", "cursor"} :
              [at |-> at, ts |-> ts, open |-> open, stays |-> read, fixes |-> fixes,
               report |-> report] \in PassStates
BY DEF PassStates, Idle

\* A scan goes on, with what it opened.
LEMMA ScanMoved ==
  ASSUME NEW q \in PassStates, q.at = "scan", NEW rows \in SUBSET Listed
  PROVE  /\ [q EXCEPT !.rows = rows] \in PassStates
         /\ [q EXCEPT !.rows = rows].at = "scan" /\ [q EXCEPT !.rows = rows].ts = q.ts
         /\ [q EXCEPT !.rows = rows].rows = rows /\ [q EXCEPT !.rows = rows].open = q.open
         /\ [q EXCEPT !.rows = rows].matched = q.matched
BY DEF PassStates

\* A report is settled, step by step.
LEMMA ReportMoved ==
  ASSUME NEW q \in PassStates, q.at \in HasReport, NEW at \in {"match", "cursor"}
  PROVE  /\ [q EXCEPT !.at = at] \in PassStates
         /\ [q EXCEPT !.at = at].at = at /\ [q EXCEPT !.at = at].ts = q.ts
         /\ [q EXCEPT !.at = at].open = q.open /\ [q EXCEPT !.at = at].fixes = q.fixes
         /\ [q EXCEPT !.at = at].report = q.report
BY DEF PassStates, HasReport

----------------------------------------------------------------------------
(* The store. *)

Cached == [revision : {0} \cup Revisions, cursor : Nat]

LEMMA ListedTyped ==
  ASSUME MatchAssumption, NEW e \in Listed
  PROVE  e.report \in Reports /\ e.revision \in Revisions /\ e.revision \in Nat \ {0} /\ e.cursor \in Nat
BY DEF Listed, MatchAssumption

LEMMA ToDoTyped ==
  ASSUME pass \in PassStates
  PROVE  ToDo \in SUBSET Listed
BY PassShapes DEF ToDo

LEMMA CachedTyped ==
  ASSUME MatchAssumption, cache \in [Reports -> Cached], NEW r \in Reports
  PROVE  /\ cache[r] \in Cached /\ cache[r].revision \in {0} \cup Revisions
         /\ cache[r].revision \in Nat /\ cache[r].cursor \in Nat
         /\ cache[r] = [revision |-> cache[r].revision, cursor |-> cache[r].cursor]
         /\ cache[r].revision # 0 => cache[r] # NotCached /\ cache[r].revision \in Revisions
         /\ cache[r].revision = 0 /\ cache[r].cursor = 0 => cache[r] = NotCached
         /\ cache[r] = NotCached => cache[r].revision = 0 /\ cache[r].cursor = 0
BY DEF Cached, NotCached, MatchAssumption

\* The cursor of one report is set, if it is still at the revision.
LEMMA CursorSet ==
  ASSUME MatchAssumption, cache \in [Reports -> Cached], NEW r \in Reports, NEW revision,
         NEW t \in Nat, cache' = SetLastMatchedAt(r, revision, t)
  PROVE  /\ cache' \in [Reports -> Cached]
         /\ \A x \in Reports :
              /\ cache'[x].revision = cache[x].revision
              /\ \/ cache'[x] = cache[x]
                 \/ /\ x = r /\ cache[r].revision = revision /\ cache[r] # NotCached
                    /\ cache'[x].cursor = t
<1>1. CASE cache' = cache
  BY <1>1
<1>2. CASE cache[r].revision = revision /\ cache[r] # NotCached /\ cache' = [cache EXCEPT ![r].cursor = t]
  <2>1. PICK row : row = [cache[r] EXCEPT !.cursor = t]
    OBVIOUS
  <2>2. row \in Cached /\ row.revision = cache[r].revision /\ row.cursor = t
    BY <2>1 DEF Cached
  <2>3. cache' = [cache EXCEPT ![r] = row]
    BY <1>2, <2>1
  <2>4. cache' \in [Reports -> Cached] /\ cache'[r] = row
        /\ \A x \in Reports : x # r => cache'[x] = cache[x]
    BY <2>2, <2>3
  <2>5. QED BY <1>2, <2>2, <2>4
<1>3. QED BY <1>1, <1>2 DEF SetLastMatchedAt

LEMMA StaysKeptTyped ==
  ASSUME NEW rows \in SUBSET Stays, NEW cutoff \in Int
  PROVE  StaysKept(rows, cutoff) \subseteq Stays
<1>1. \A s \in Stays : [s EXCEPT !.start = IF s.start < cutoff THEN cutoff ELSE s.start] \in Stays
  BY DEF Stays
<1>2. QED BY <1>1 DEF StaysKept

ScenarioTypeOK ==
  scenario \in [revisions : SUBSET Revisions, budget : [Events -> Nat], left : [Events -> Nat]]

LEMMA SpendTyped ==
  ASSUME ScenarioTypeOK, NEW event \in Events, Spend(event)
  PROVE  /\ ScenarioTypeOK' /\ scenario'.budget = scenario.budget
         /\ scenario'.left["jumps"] = scenario.left["jumps"] - (IF event = "jumps" THEN 1 ELSE 0)
<1>1. scenario'.left = [scenario.left EXCEPT ![event] = @ - 1]
      /\ scenario.left[event] > 0 /\ scenario.left \in [Events -> Nat]
  BY DEF Spend, ScenarioTypeOK
<1>2. scenario'.left \in [Events -> Nat]
  BY <1>1
<1>3. scenario' = [scenario EXCEPT !.left = scenario'.left]
  BY DEF Spend, ScenarioTypeOK
<1>4. ScenarioTypeOK' /\ scenario'.budget = scenario.budget
  BY <1>2, <1>3 DEF ScenarioTypeOK
<1>5. QED BY <1>1, <1>4 DEF Events

LeftInv == scenario.left["jumps"] <= scenario.budget["jumps"]

ClockLeftAlone == \A t \in Times : ~ClockJumps(t)

LEMMA ScenarioStep ==
  ASSUME ScenarioTypeOK, LeftInv, Next
  PROVE  /\ ScenarioTypeOK' /\ LeftInv'
         /\ Never("jumps")' => Never("jumps") /\ ClockLeftAlone
<1>1. scenario.left["jumps"] \in Nat /\ scenario.budget["jumps"] \in Nat
  BY DEF ScenarioTypeOK, Events
<1>2. CASE \E t \in Times : ClockJumps(t)
  <2>1. Spend("jumps") /\ "jumps" \in Events
    BY <1>2 DEF ClockJumps, Events
  <2>2. /\ ScenarioTypeOK' /\ scenario'.budget = scenario.budget
        /\ scenario'.left["jumps"] = scenario.left["jumps"] - 1
    BY <2>1, SpendTyped
  <2>3. QED BY <1>1, <2>2 DEF LeftInv, Never
<1>3. CASE scenario' = scenario
  <2>1. ~\E t \in Times : ClockJumps(t)
    <3>1. SUFFICES ASSUME Spend("jumps") PROVE FALSE
      BY DEF ClockJumps
    <3>2. scenario'.left["jumps"] = scenario.left["jumps"] - 1
      BY <3>1, SpendTyped DEF Events
    <3>3. QED BY <1>1, <1>3, <3>2
  <2>2. QED BY <1>3, <2>1 DEF ScenarioTypeOK, LeftInv, Never, ClockLeftAlone
<1>4. ASSUME NEW event \in Events \ {"jumps"}, Spend(event)
      PROVE  ScenarioTypeOK' /\ LeftInv' /\ (Never("jumps")' => Never("jumps") /\ ClockLeftAlone)
  <2>1. /\ ScenarioTypeOK' /\ scenario'.budget = scenario.budget
        /\ scenario'.left["jumps"] = scenario.left["jumps"] - 0
    BY <1>4, SpendTyped
  <2>2. ASSUME Spend("jumps") PROVE FALSE
    <3>1. scenario'.left["jumps"] = scenario.left["jumps"] - 1
      BY <2>2, SpendTyped DEF Events
    <3>2. QED BY <1>1, <2>1, <3>1
  <2>3. ClockLeftAlone
    BY <2>2, SMTT(30) DEF ClockLeftAlone, ClockJumps
  <2>4. QED BY <1>1, <2>1, <2>3 DEF LeftInv, Never
<1>5. scenario' = scenario \/ (\E t \in Times : ClockJumps(t))
        \/ \E event \in Events \ {"jumps"} : Spend(event)
  BY Zenon DEF Next, PassStep, StartRun, List, ReadMatches, Scan, Scanned, ReadStays, ReadFixes, Decide,
    InsertMatch, SetCursor, PassEnds, PassStops, Ends, Fetch, Takes, Visits, Stores, NativePurge, Tick,
    Events
<1>6. QED BY <1>2, <1>3, <1>4, <1>5

----------------------------------------------------------------------------
(* What the other writers of the store do. *)

\* Revision 0 is no report, which has no cursor.
NullInv == \A r \in Reports : cache[r].revision = 0 => cache[r].cursor = 0

FetchEffect(r, revision) ==
  /\ cache' \in [Reports -> Cached] /\ r \notin ended
  /\ \A x \in Reports : x # r => cache'[x] = cache[x]
  /\ cache'[r].revision = revision /\ revision > cache[r].revision
  /\ \/ cache'[r].cursor = Owed
     \/ /\ cache[r].revision # 0 /\ cache'[r].cursor = cache[r].cursor
        /\ Criteria[revision] = Criteria[cache[r].revision]
  /\ UNCHANGED <<now, ended, taken, samples, stays, matches, inserted, known, pass, scenario>>

LEMMA Fetched ==
  ASSUME MatchAssumption, TypeOK, NullInv, NEW r \in Reports, NEW revision \in Revisions,
         Fetch(r, revision)
  PROVE  FetchEffect(r, revision)
<1>1. cache \in [Reports -> Cached] /\ scenario.revisions \subseteq Revisions
  BY DEF TypeOK, Cached
<1>2. PICK row : row = [revision |-> revision,
                        cursor |-> IF cache[r] = NotCached THEN Owed ELSE Revised(r, revision)]
  OBVIOUS
<1>3. cache' = [cache EXCEPT ![r] = row] /\ r \notin ended /\ revision > cache[r].revision
  BY <1>2 DEF Fetch
<1>4. /\ row.revision = revision
      /\ row.cursor = Owed
           \/ /\ cache[r] # NotCached /\ row.cursor = cache[r].cursor
              /\ Criteria[revision] = Criteria[cache[r].revision]
  BY <1>2 DEF Revised
<1>5. cache[r] # NotCached => cache[r].revision # 0
  BY <1>1, CachedTyped DEF NullInv
<1>6. row.cursor \in Nat
  BY <1>1, <1>4, CachedTyped DEF Owed
<1>7. row \in Cached
  BY <1>2, <1>4, <1>6 DEF Cached
<1>8. cache' \in [Reports -> Cached] /\ cache'[r] = row
      /\ \A x \in Reports : x # r => cache'[x] = cache[x]
  BY <1>1, <1>3, <1>7
<1>9. QED BY <1>3, <1>4, <1>5, <1>8 DEF FetchEffect, Fetch, history

LEMMA Ended ==
  ASSUME MatchAssumption, TypeOK, NEW r \in Reports, Ends(r)
  PROVE  /\ cache' \in [Reports -> Cached] /\ ended' = ended \cup {r}
         /\ \A x \in Reports : x # r => cache'[x] = cache[x]
         /\ cache'[r].revision = 0 /\ cache'[r].cursor = 0
         /\ UNCHANGED <<now, taken, samples, stays, matches, inserted, known, pass, scenario>>
<1>1. cache \in [Reports -> Cached] /\ NotCached \in Cached
      /\ NotCached.revision = 0 /\ NotCached.cursor = 0
  BY DEF TypeOK, Cached, NotCached
<1>2. cache' = [cache EXCEPT ![r] = NotCached]
  BY DEF Ends
<1>3. cache' \in [Reports -> Cached] /\ cache'[r] = NotCached
      /\ \A x \in Reports : x # r => cache'[x] = cache[x]
  BY <1>1, <1>2
<1>4. QED BY <1>1, <1>3 DEF Ends, history

\* Time and history go on: fixes are taken and stored, visits are written, some is purged.
HistoryStep ==
  \/ \E place \in Places : Takes(place) \/ \E start \in Times : Visits(start, place)
  \/ \E f \in taken : Stores(f)
  \/ NativePurge \/ Tick \/ \E t \in Times : ClockJumps(t)

\* A fix that is stored now is late, or was taken no longer than Late ago.
HistoryEffect ==
  /\ taken' \subseteq Fixes /\ stays' \subseteq Stays /\ samples' \subseteq Samples
  /\ now' \in Nat /\ (now' = now \/ now' = now + 1 \/ ~ClockLeftAlone)
  /\ \A f \in samples' : f \in samples \/ f.late \/ now <= f.ts + Late
  /\ UNCHANGED <<cache, ended, matches, inserted, known, pass>>

LEMMA HistoryGoesOn ==
  ASSUME MatchAssumption, TypeOK, HistoryStep
  PROVE  HistoryEffect
<1>1. /\ now \in Nat /\ taken \subseteq Fixes /\ stays \subseteq Stays /\ samples \subseteq Samples
      /\ Retention \in Nat /\ Late \in Nat /\ now - Retention \in Int
  BY DEF TypeOK, MatchAssumption
<1>2. ASSUME NEW place \in Places, Takes(place)
      PROVE  HistoryEffect
  <2>1. [ts |-> now, place |-> place] \in Fixes
    BY <1>1 DEF Fixes, Places
  <2>2. QED BY <1>1, <1>2, <2>1 DEF HistoryEffect, Takes
<1>3. ASSUME NEW place \in Places, NEW start \in Times, Visits(start, place)
      PROVE  HistoryEffect
  <2>1. [start |-> start, end |-> now, place |-> place] \in Stays
    BY <1>1 DEF Stays, Places, Times
  <2>2. QED BY <1>1, <1>3, <2>1 DEF HistoryEffect, Visits
<1>4. ASSUME NEW f \in taken, Stores(f)
      PROVE  HistoryEffect
  <2>1. f.ts \in Nat /\ f.place \in Nat
    BY <1>1 DEF Fixes
  <2>2. PICK new : new = [ts |-> f.ts, place |-> f.place, late |-> now > f.ts + Late]
    OBVIOUS
  <2>3. new.ts = f.ts /\ new.place = f.place /\ new.late = (now > f.ts + Late)
    BY <2>2
  <2>4. new \in Samples
    BY <2>1, <2>2 DEF Samples
  <2>5. samples' = samples \cup {new}
    BY <1>4, <2>2 DEF Stores
  <2>6. new.late \/ now <= new.ts + Late
    <3>1. CASE now > f.ts + Late
      BY <2>3, <3>1, Zenon
    <3>2. CASE ~(now > f.ts + Late)
      BY <1>1, <2>1, <2>3, <3>2
    <3>3. QED BY <3>1, <3>2
  <2>7. QED BY <1>1, <1>4, <2>4, <2>5, <2>6 DEF HistoryEffect, Stores
<1>5. CASE NativePurge
  <2>1. stays' \subseteq Stays
    BY <1>1, <1>5, StaysKeptTyped DEF NativePurge
  <2>2. samples' \subseteq samples
    BY <1>5 DEF NativePurge
  <2>3. QED BY <1>1, <1>5, <2>1, <2>2 DEF HistoryEffect, NativePurge
<1>6. CASE Tick
  BY <1>1, <1>6 DEF HistoryEffect, Tick, history
<1>7. ASSUME NEW t \in Times, ClockJumps(t)
      PROVE  HistoryEffect
  <2>1. t \in Nat /\ ~ClockLeftAlone
    BY <1>7 DEF Times, ClockLeftAlone
  <2>2. QED BY <1>1, <1>7, <2>1 DEF HistoryEffect, ClockJumps, history
<1>8. QED BY <1>2, <1>3, <1>4, <1>5, <1>6, <1>7 DEF HistoryStep

----------------------------------------------------------------------------
(* What the steps of a run do. *)

\* The purge: a report and its match go together, an orphan match goes alone.
StartEffect ==
  /\ pass = Idle /\ pass' = [at |-> "list", ts |-> now]
  /\ cache' \in [Reports -> Cached] /\ matches' \in Remembered
  /\ samples' \subseteq samples /\ stays' \subseteq Stays
  /\ \A r \in Reports :
       \/ cache'[r] = cache[r] /\ matches'[r] = matches[r]
       \/ /\ cache'[r].revision = 0 /\ cache'[r].cursor = 0 /\ matches'[r] = 0
          /\ cache[r].revision = 0 \/ Expires <= now
  /\ UNCHANGED <<now, ended, taken, inserted, known, scenario>>

LEMMA Started ==
  ASSUME MatchAssumption, TypeOK, StartRun
  PROVE  StartEffect
<1>1. /\ pass = Idle /\ pass' = [at |-> "list", ts |-> now]
      /\ UNCHANGED <<now, ended, taken, inserted, known, scenario>>
      /\ cache \in [Reports -> Cached] /\ matches \in Remembered /\ stays \subseteq Stays
      /\ now \in Nat /\ now - Retention \in Int
  BY DEF StartRun, TypeOK, Cached, MatchAssumption
<1>2. CASE UNCHANGED <<samples, stays, cache, matches>>
  BY <1>1, <1>2 DEF StartEffect
<1>3. CASE Purge(now)
  <2>1. samples' \subseteq samples /\ stays' \subseteq Stays
    BY <1>1, <1>3, StaysKeptTyped DEF Purge
  <2>2. NotCached \in Cached /\ NotCached.revision = 0 /\ NotCached.cursor = 0
    BY DEF NotCached, Cached
  <2>3. cache' = [r \in Reports |-> IF Expires <= now THEN NotCached ELSE cache[r]]
    BY <1>3 DEF Purge, CachedAt
  <2>4. cache' \in [Reports -> Cached]
        /\ \A r \in Reports : cache'[r] = IF Expires <= now THEN NotCached ELSE cache[r]
    BY <1>1, <2>2, <2>3
  <2>5. matches' = [r \in Reports |-> IF cache'[r] = NotCached THEN 0 ELSE matches[r]]
    BY <1>3 DEF Purge, NotOrphans
  <2>6. matches' \in Remembered
        /\ \A r \in Reports : matches'[r] = IF cache'[r] = NotCached THEN 0 ELSE matches[r]
    BY <1>1, <2>5 DEF Remembered
  <2>7. ASSUME NEW r \in Reports
        PROVE  \/ cache'[r] = cache[r] /\ matches'[r] = matches[r]
               \/ /\ cache'[r].revision = 0 /\ cache'[r].cursor = 0 /\ matches'[r] = 0
                  /\ cache[r].revision = 0 \/ Expires <= now
    <3>1. CASE cache'[r] = NotCached
      BY <2>2, <2>4, <2>6, <3>1
    <3>2. CASE cache'[r] # NotCached
      BY <2>4, <2>6, <3>2
    <3>3. QED BY <3>1, <3>2
  <2>8. QED BY <1>1, <2>1, <2>4, <2>6, <2>7 DEF StartEffect
<1>4. QED BY <1>2, <1>3 DEF StartRun

\* The reports whose cursors are read, as the cache has them.
LEMMA ListedNow ==
  ASSUME MatchAssumption, TypeOK, NullInv, List
  PROVE  /\ pass.at = "list" /\ pass' \in PassStates
         /\ pass'.at = "idle" \/ (pass'.at = "matches" /\ pass'.ts = pass.ts)
         /\ \A e \in ToDo' : /\ cache[e.report].revision = e.revision
                             /\ cache[e.report].cursor = e.cursor
         /\ \A e, f \in ToDo' : e.report = f.report => e = f
         /\ ToDo' # {} => Expires > pass.ts
         /\ known' \in Remembered
         /\ UNCHANGED <<now, cache, ended, taken, samples, stays, matches, inserted, scenario>>
<1> DEFINE live == {x \in Reports : cache[x] # NotCached /\ Expires > pass.ts}
           Row(r) == [report |-> r, revision |-> cache[r].revision, cursor |-> cache[r].cursor]
           rows == {Row(r) : r \in live}
<1>0. LiveCursors(pass.ts) = rows
  <2>1. live = {x \in {y \in Reports : Expires > pass.ts} : cache[x] # NotCached}
    OBVIOUS
  <2>2. QED BY <2>1 DEF LiveCursors, CursorsOf
<1>1. /\ pass.at = "list" /\ pass \in PassStates /\ known \in Remembered
      /\ cache \in [Reports -> Cached]
      /\ UNCHANGED <<now, cache, ended, taken, samples, stays, matches, inserted, scenario>>
      /\ pass' = IF rows = {} THEN Idle
                 ELSE [at |-> "matches", ts |-> pass.ts, rows |-> rows, known |-> known]
      /\ known' = [r \in Reports |-> 0]
  BY <1>0 DEF List, TypeOK, Cached, history
<1>2. pass.ts \in Nat
  BY <1>1, PassShapes
<1>3. ASSUME NEW r \in live
      PROVE  /\ Row(r) \in Listed /\ Row(r).report = r
             /\ Row(r).revision = cache[r].revision /\ Row(r).cursor = cache[r].cursor
  <2>1. cache[r].revision \in Revisions /\ cache[r].cursor \in Nat
    BY <1>1, CachedTyped DEF NullInv
  <2>2. QED BY <2>1 DEF Listed
<1>4. rows \in SUBSET Listed /\ (rows # {} => Expires > pass.ts)
  BY <1>3
<1>5. \A e \in rows : /\ e.report \in live /\ e = Row(e.report)
                      /\ cache[e.report].revision = e.revision /\ cache[e.report].cursor = e.cursor
  BY <1>3
<1> HIDE DEF rows, live, Row
<1>6. known' \in Remembered
  BY <1>1 DEF Remembered
<1>7. CASE rows = {}
  <2>1. pass' = Idle /\ Idle \in PassStates /\ Idle.at = "idle"
    BY <1>1, <1>7 DEF Idle, PassStates
  <2>2. ToDo' = {}
    BY <2>1 DEF ToDo, HasRows, HasOpen, HasReport
  <2>3. QED BY <1>1, <1>6, <2>1, <2>2
<1>8. CASE rows # {}
  <2>1. pass' = [at |-> "matches", ts |-> pass.ts, rows |-> rows, known |-> known]
    BY <1>1, <1>8
  <2>2. pass' \in PassStates
    BY <1>1, <1>2, <1>4, <2>1 DEF PassStates
  <2>3. pass'.at = "matches" /\ pass'.ts = pass.ts /\ pass'.rows = rows
    BY <2>1
  <2>4. ToDo' = rows
    BY <2>3 DEF ToDo, HasRows, HasOpen, HasReport
  <2>5. \A e, f \in rows : e.report = f.report => e = f
    BY <1>5
  <2>6. QED BY <1>1, <1>4, <1>5, <1>6, <2>2, <2>3, <2>4, <2>5
<1>9. QED BY <1>7, <1>8

\* The store is left alone, and the pass has no more to do than it had.
GoesOn ==
  /\ pass' \in PassStates /\ ToDo' \subseteq ToDo
  /\ pass'.at # "idle" => pass'.ts = pass.ts
  /\ known' \in Remembered
  /\ UNCHANGED <<now, cache, ended, taken, samples, stays, matches, inserted>>

FixesRead ==
  {f \in samples : \E c \in {o.cursor : o \in pass.open} \ {Owed} : f.ts >= Since(c, pass.ts)}

LEMMA ReadsOn ==
  ASSUME MatchAssumption, TypeOK,
         ReadMatches \/ Scanned \/ ReadStays \/ ReadFixes \/ PassEnds \/ PassStops
  PROVE  /\ GoesOn
         /\ \/ pass'.at \in {"idle", "stays", "fixes"}
            \/ /\ pass.at = "matches" /\ pass'.at = "scan"
               /\ pass'.matched = {r \in Reports : matches[r] # 0} /\ pass'.open = {}
            \/ pass'.at = "match" /\ pass'.open = pass.open /\ pass'.fixes = FixesRead
<1>1. pass \in PassStates /\ samples \in SUBSET Samples /\ stays \in SUBSET Stays
      /\ known \in Remembered
  BY DEF TypeOK
<1>2. CASE PassEnds \/ PassStops \/ (Scanned /\ pass.open = {})
  <2>1. pass' = Idle /\ Idle \in PassStates /\ Idle.at = "idle"
    BY <1>2 DEF PassEnds, PassStops, Scanned, Idle, PassStates
  <2>2. ToDo' = {}
    BY <2>1 DEF ToDo, HasRows, HasOpen, HasReport
  <2>3. known' \in Remembered
    BY <1>1, <1>2 DEF PassEnds, PassStops, Scanned, Remembered
  <2>4. UNCHANGED <<now, cache, ended, taken, samples, stays, matches, inserted>>
    BY <1>2 DEF PassEnds, PassStops, Scanned, history
  <2>5. QED BY <2>1, <2>2, <2>3, <2>4 DEF GoesOn
<1>3. CASE ReadMatches
  <2>1. pass.at = "matches" /\ pass.ts \in Nat /\ pass.rows \in SUBSET Listed /\ pass.known \in Remembered
    BY <1>1, <1>3, PassShapes DEF ReadMatches, HasRows
  <2>2. PICK matched : matched = {r \in Reports : matches[r] # 0}
    OBVIOUS
  <2>3. pass' = [at |-> "scan", ts |-> pass.ts, rows |-> pass.rows, known |-> pass.known,
                 matched |-> matched, open |-> {}]
    BY <1>3, <2>2 DEF ReadMatches
  <2>4. pass' \in PassStates
    BY <2>1, <2>2, <2>3 DEF PassStates
  <2>5. /\ pass'.at = "scan" /\ pass'.ts = pass.ts /\ pass'.rows = pass.rows
        /\ pass'.matched = matched /\ pass'.open = {}
    BY <2>3
  <2>6. ToDo' \subseteq ToDo
    BY <2>1, <2>5 DEF ToDo, HasRows, HasOpen, HasReport
  <2>7. QED BY <1>1, <1>3, <2>1, <2>2, <2>4, <2>5, <2>6 DEF GoesOn, ReadMatches, history
<1>4. CASE Scanned /\ pass.open # {}
  <2>1. pass.at = "scan" /\ pass.ts \in Nat /\ pass.open \in SUBSET Listed
    BY <1>1, <1>4, PassShapes DEF Scanned, HasOpen
  <2>2. pass' = [at |-> "stays", ts |-> pass.ts, open |-> pass.open]
    BY <1>4 DEF Scanned
  <2>3. pass' \in PassStates /\ pass'.at = "stays" /\ pass'.ts = pass.ts /\ pass'.open = pass.open
    BY <2>1, <2>2 DEF PassStates
  <2>4. ToDo' \subseteq ToDo
    BY <2>1, <2>3 DEF ToDo, HasRows, HasOpen, HasReport
  <2>5. QED BY <1>1, <1>4, <2>3, <2>4 DEF GoesOn, Scanned, history
<1>5. CASE ReadStays
  <2>1. pass.at = "stays" /\ pass.ts \in Nat /\ pass.open \in SUBSET Listed
    BY <1>1, <1>5, PassShapes DEF ReadStays, HasOpen
  <2>2. pass' = [at |-> "fixes", ts |-> pass.ts, open |-> pass.open, stays |-> stays]
    BY <1>5 DEF ReadStays
  <2>3. pass' \in PassStates /\ pass'.at = "fixes" /\ pass'.ts = pass.ts /\ pass'.open = pass.open
    BY <1>1, <2>1, <2>2 DEF PassStates
  <2>4. ToDo' \subseteq ToDo
    BY <2>1, <2>3 DEF ToDo, HasRows, HasOpen, HasReport
  <2>5. QED BY <1>1, <1>5, <2>3, <2>4 DEF GoesOn, ReadStays, history
<1>6. CASE ReadFixes
  <2>1. /\ pass.at = "fixes" /\ pass.ts \in Nat /\ pass.open \in SUBSET Listed
        /\ pass.stays \in SUBSET Stays
    BY <1>1, <1>6, PassShapes DEF ReadFixes, HasOpen
  <2>2. pass' = [at |-> "match", ts |-> pass.ts, open |-> pass.open, stays |-> pass.stays,
                 fixes |-> FixesRead]
    BY <1>6 DEF ReadFixes, FixesRead
  <2>3. FixesRead \in SUBSET Samples
    BY <1>1 DEF FixesRead
  <2>4. /\ pass' \in PassStates /\ pass'.at = "match" /\ pass'.ts = pass.ts
        /\ pass'.open = pass.open /\ pass'.fixes = FixesRead
    BY <2>1, <2>2, <2>3 DEF PassStates
  <2>5. ToDo' \subseteq ToDo
    BY <2>1, <2>4 DEF ToDo, HasRows, HasOpen, HasReport
  <2>6. QED BY <1>1, <1>6, <2>4, <2>5 DEF GoesOn, ReadFixes, history
<1>7. QED BY <1>2, <1>3, <1>4, <1>5, <1>6

\* One report of the list: settled, passed over, or opened as it was listed or as it is now.
ScanEffect(row) ==
  /\ pass.at = "scan" /\ row \in pass.rows
  /\ pass' \in PassStates /\ pass'.at = "scan" /\ pass'.ts = pass.ts
  /\ pass'.rows = pass.rows \ {row} /\ pass'.matched = pass.matched
  /\ \/ cache' = cache /\ pass'.open = pass.open
     \/ /\ \E revision : cache' = SetLastMatchedAt(row.report, revision, pass.ts)
        /\ row.report \in pass.matched \/ ~Possible(pass.ts)
        /\ pass'.open = pass.open
     \/ /\ cache' = cache
        /\ \E o \in Listed :
             /\ pass'.open = pass.open \cup {o} /\ o.report = row.report
             /\ \/ o.revision = row.revision /\ o.cursor = row.cursor
                \/ o.revision = cache[row.report].revision /\ o.cursor = cache[row.report].cursor
  /\ known' \in Remembered
  /\ UNCHANGED <<now, ended, taken, samples, stays, matches, inserted>>

LEMMA ScannedOne ==
  ASSUME MatchAssumption, TypeOK, pass.at = "scan", NEW row \in pass.rows, Scan(row)
  PROVE  ScanEffect(row)
<1>1. pass \in PassStates /\ known \in Remembered /\ cache \in [Reports -> Cached]
  BY DEF TypeOK, Cached
<1>2. /\ pass.ts \in Nat /\ pass.rows \in SUBSET Listed /\ pass.open \in SUBSET Listed
  BY <1>1, PassShapes DEF HasRows, HasOpen
<1>3. PICK r : r = row.report
  OBVIOUS
<1>4. PICK revision : revision = IF pass.known[r] = row.revision THEN row.revision ELSE cache[r].revision
  OBVIOUS
<1>5. PICK cursor : cursor = IF pass.known[r] = row.revision THEN row.cursor ELSE cache[r].cursor
  OBVIOUS
<1>6. PICK rest : rest = pass.rows \ {row}
  OBVIOUS
<1>7. /\ r \in Reports /\ cursor \in Nat /\ revision \in {0} \cup Revisions
      /\ \/ revision = row.revision /\ cursor = row.cursor
         \/ revision = cache[r].revision /\ cursor = cache[r].cursor
  BY <1>1, <1>2, <1>3, <1>4, <1>5, ListedTyped, CachedTyped
<1>8. UNCHANGED <<now, ended, taken, samples, stays, matches, inserted>>
  BY DEF Scan, history
<1>9. \A v \in Revisions : [known EXCEPT ![r] = v] \in Remembered
  BY <1>1, <1>7 DEF Remembered
<1>10. /\ rest \in SUBSET Listed
       /\ [pass EXCEPT !.rows = rest] \in PassStates
       /\ [pass EXCEPT !.rows = rest].at = "scan" /\ [pass EXCEPT !.rows = rest].ts = pass.ts
       /\ [pass EXCEPT !.rows = rest].rows = rest /\ [pass EXCEPT !.rows = rest].open = pass.open
       /\ [pass EXCEPT !.rows = rest].matched = pass.matched
  BY <1>1, <1>2, <1>6, ScanMoved
<1>11. CASE /\ r \in pass.matched
            /\ cache' = IF row.cursor = Owed THEN SetLastMatchedAt(r, row.revision, pass.ts) ELSE cache
            /\ pass' = [pass EXCEPT !.rows = rest] /\ known' = known
  BY <1>1, <1>3, <1>6, <1>8, <1>10, <1>11 DEF ScanEffect
<1>12. CASE pass' = [pass EXCEPT !.rows = rest] /\ cache' = cache /\ known' = known
  BY <1>1, <1>6, <1>8, <1>10, <1>12 DEF ScanEffect
<1>13. CASE /\ revision # 0 /\ ~Possible(pass.ts)
            /\ cache' = IF cursor = Owed THEN SetLastMatchedAt(r, revision, pass.ts) ELSE cache
            /\ known' = [known EXCEPT ![r] = revision]
            /\ pass' = [pass EXCEPT !.rows = rest]
  BY <1>3, <1>6, <1>7, <1>8, <1>9, <1>10, <1>13 DEF ScanEffect
<1>14. CASE /\ revision # 0 /\ cache' = cache
            /\ known' = [known EXCEPT ![r] = revision]
            /\ pass' = [pass EXCEPT !.rows = rest,
                                    !.open = @ \cup {[report |-> r, revision |-> revision, cursor |-> cursor]}]
  <2>1. PICK o : o = [report |-> r, revision |-> revision, cursor |-> cursor]
    OBVIOUS
  <2>2. o \in Listed /\ o.report = r /\ o.revision = revision /\ o.cursor = cursor
    BY <1>7, <1>14, <2>1 DEF Listed
  <2>3. PICK open : open = pass.open \cup {o}
    OBVIOUS
  <2>4. open \in SUBSET Listed
    BY <1>2, <2>2, <2>3
  <2>5. pass' = [pass EXCEPT !.rows = rest, !.open = open]
    BY <1>14, <2>1, <2>3
  <2>6. /\ pass' \in PassStates /\ pass'.at = "scan" /\ pass'.ts = pass.ts /\ pass'.rows = rest
        /\ pass'.open = open /\ pass'.matched = pass.matched
    BY <1>1, <1>10, <2>4, <2>5 DEF PassStates
  <2>7. known' \in Remembered
    BY <1>7, <1>9, <1>14
  <2>8. QED BY <1>3, <1>6, <1>7, <1>8, <1>14, <2>2, <2>3, <2>6, <2>7 DEF ScanEffect
<1>15. QED BY <1>3, <1>4, <1>5, <1>6, <1>11, <1>12, <1>13, <1>14 DEF Scan

\* One report of those opened: its match is next, or its cursor, or it stays as it is.
DecideEffect(o) ==
  /\ pass.at = "match" /\ o \in pass.open /\ GoesOn
  /\ pass'.at \in {"match", "insert", "cursor"}
  /\ pass'.open = pass.open \ {o} /\ pass'.fixes = pass.fixes /\ pass'.report = o
  /\ pass'.at = "cursor" =>
       ~IsEvidence(pass.stays, IF o.cursor = Owed THEN samples ELSE pass.fixes, o.revision, pass.ts)

LEMMA Decided ==
  ASSUME MatchAssumption, TypeOK, pass.at = "match", NEW o \in pass.open, Decide(o)
  PROVE  DecideEffect(o)
<1>1. pass \in PassStates /\ known \in Remembered
  BY DEF TypeOK
<1>2. /\ pass.ts \in Nat /\ pass.open \in SUBSET Listed /\ pass.stays \in SUBSET Stays
      /\ pass.fixes \in SUBSET Samples
  BY <1>1, PassShapes DEF HasOpen
<1>3. PICK found : found = IsEvidence(pass.stays, IF o.cursor = Owed THEN samples ELSE pass.fixes,
                                      o.revision, pass.ts)
  OBVIOUS
<1>4. PICK at : at = IF found THEN "insert" ELSE IF Behind(o) THEN "cursor" ELSE "match"
  OBVIOUS
<1>5. at \in {"match", "insert", "cursor"} /\ (at = "cursor" => ~found)
  BY <1>4
<1>6. pass' = [at |-> at, ts |-> pass.ts, open |-> pass.open \ {o}, stays |-> pass.stays,
               fixes |-> pass.fixes, report |-> o]
  BY <1>3, <1>4 DEF Decide
<1>7. /\ pass' \in PassStates /\ pass'.at = at /\ pass'.ts = pass.ts /\ pass'.open = pass.open \ {o}
      /\ pass'.fixes = pass.fixes /\ pass'.report = o
  BY <1>2, <1>5, <1>6 DEF PassStates
<1>8. ToDo' \subseteq ToDo
  BY <1>5, <1>7 DEF ToDo, HasRows, HasOpen, HasReport
<1>9. GoesOn
  BY <1>1, <1>7, <1>8 DEF GoesOn, Decide, history
<1>10. QED BY <1>3, <1>5, <1>7, <1>9 DEF DecideEffect

\* A match is inserted once.
InsertEffect ==
  LET r == pass.report.report IN
  /\ pass.at = "insert" /\ pass' \in PassStates /\ pass'.at \in {"cursor", "match"}
  /\ pass'.ts = pass.ts /\ pass'.open = pass.open /\ pass'.fixes = pass.fixes
  /\ pass'.report = pass.report
  /\ matches' \in Remembered /\ inserted' \in [Reports -> Nat] /\ matches'[r] # 0
  /\ \A x \in Reports : x # r => matches'[x] = matches[x] /\ inserted'[x] = inserted[x]
  /\ matches[r] = 0 => matches'[r] = pass.report.revision /\ inserted'[r] = inserted[r] + 1
  /\ matches[r] # 0 => matches'[r] = matches[r] /\ inserted'[r] = inserted[r]
  /\ UNCHANGED <<now, cache, ended, taken, samples, stays, known, scenario>>

LEMMA Inserted ==
  ASSUME MatchAssumption, TypeOK, InsertMatch
  PROVE  InsertEffect
<1>1. pass \in PassStates /\ matches \in Remembered /\ inserted \in [Reports -> Nat]
      /\ pass.at = "insert"
  BY DEF TypeOK, InsertMatch
<1>2. pass.report \in Listed
  BY <1>1, PassShapes DEF HasReport
<1>3. PICK r : r = pass.report.report
  OBVIOUS
<1>4. PICK v : v = pass.report.revision
  OBVIOUS
<1>5. r \in Reports /\ v \in Revisions /\ v # 0
  BY <1>2, <1>3, <1>4, ListedTyped
<1>6. PICK at \in {"match", "cursor"} : pass' = [pass EXCEPT !.at = at]
  BY DEF InsertMatch
<1>7. /\ pass' \in PassStates /\ pass'.at = at /\ pass'.ts = pass.ts /\ pass'.open = pass.open
      /\ pass'.fixes = pass.fixes /\ pass'.report = pass.report
  BY <1>1, <1>6, ReportMoved DEF HasReport
<1>8. CASE matches[r] = 0
  <2>1. matches' = [matches EXCEPT ![r] = v] /\ inserted' = [inserted EXCEPT ![r] = @ + 1]
    BY <1>3, <1>4, <1>8 DEF InsertMatch
  <2>2. matches' \in Remembered /\ matches'[r] = v /\ \A x \in Reports : x # r => matches'[x] = matches[x]
    BY <1>1, <1>5, <2>1 DEF Remembered
  <2>3. PICK n \in Nat : n = inserted[r] + 1
    BY <1>1, <1>5
  <2>4. inserted' = [inserted EXCEPT ![r] = n]
    BY <2>1, <2>3
  <2>5. inserted' \in [Reports -> Nat] /\ inserted'[r] = n
        /\ \A x \in Reports : x # r => inserted'[x] = inserted[x]
    BY <1>1, <1>5, <2>4
  <2>6. QED
    BY <1>1, <1>3, <1>4, <1>5, <1>7, <1>8, <2>2, <2>3, <2>5 DEF InsertEffect, InsertMatch, history
<1>9. CASE matches[r] # 0
  <2>1. matches' = matches /\ inserted' = inserted
    BY <1>3, <1>9 DEF InsertMatch
  <2>2. QED
    BY <1>1, <1>3, <1>7, <1>9, <2>1 DEF InsertEffect, InsertMatch, history
<1>10. QED BY <1>8, <1>9

\* The report of the pass is done with.
SetEffect ==
  /\ pass.at = "cursor" /\ pass' \in PassStates /\ pass'.at = "match"
  /\ pass'.ts = pass.ts /\ pass'.open = pass.open /\ pass'.fixes = pass.fixes
  /\ cache' = SetLastMatchedAt(pass.report.report, pass.report.revision, pass.ts)
  /\ UNCHANGED <<now, ended, taken, samples, stays, matches, inserted, known, scenario>>

LEMMA SetOnce ==
  ASSUME TypeOK, SetCursor
  PROVE  SetEffect
<1>1. pass \in PassStates /\ pass.at = "cursor" /\ pass' = [pass EXCEPT !.at = "match"]
  BY DEF TypeOK, SetCursor
<1>2. PICK at \in {"match", "cursor"} : at = "match"
  OBVIOUS
<1>3. /\ pass' \in PassStates /\ pass'.at = "match" /\ pass'.ts = pass.ts /\ pass'.open = pass.open
      /\ pass'.fixes = pass.fixes
  BY <1>1, <1>2, ReportMoved DEF HasReport
<1>4. QED BY <1>1, <1>3 DEF SetEffect, SetCursor, history

----------------------------------------------------------------------------
(* Types, and what a pass takes a report for.                                *)

\* A report is in one place of the pass.
DistinctInv ==
  /\ \A e, f \in ToDo : e.report = f.report => e = f
  /\ pass.at = "scan" => \A e \in pass.rows, f \in pass.open : e.report # f.report
  /\ pass.at \in HasReport => \A o \in pass.open : o.report # pass.report.report

\* Its revision is the cached one, or an older one, whose cursor is the cached one.
HeldInv ==
  \A e \in ToDo : /\ e.report \in ended \/ cache[e.report].revision >= e.revision
                  /\ cache[e.report].revision = e.revision => cache[e.report].cursor = e.cursor

\* No report that has expired is in a pass, and those said to be matched are.
LiveInv ==
  /\ ToDo # {} => Expires > pass.ts
  /\ pass.at = "scan" => \A r \in pass.matched : matches[r] # 0

EndedInv == \A r \in ended : cache[r].revision = 0

ListedInv ==
  TypeOK /\ LeftInv /\ NullInv /\ EndedInv /\ DistinctInv /\ HeldInv /\ LiveInv /\ MatchHasReport

LEMMA FetchKeepsListed ==
  ASSUME MatchAssumption, ListedInv, ScenarioTypeOK', LeftInv', NEW r \in Reports,
         NEW revision \in Revisions, FetchEffect(r, revision)
  PROVE  ListedInv'
<1>1. /\ cache \in [Reports -> Cached] /\ cache' \in [Reports -> Cached] /\ r \notin ended
      /\ \A x \in Reports : x # r => cache'[x] = cache[x]
      /\ cache'[r].revision = revision /\ revision > cache[r].revision
      /\ UNCHANGED <<ended, matches, pass>> /\ pass \in PassStates
      /\ revision \in Nat /\ revision # 0 /\ cache[r].revision \in Nat
      /\ matches[r] \in Nat
  BY CachedTyped DEF FetchEffect, ListedInv, TypeOK, Cached, MatchAssumption, Remembered
<1>2. ToDo' = ToDo /\ ToDo \in SUBSET Listed
  BY <1>1, ToDoTyped DEF ToDo
<1>3. TypeOK'
  BY DEF ListedInv, TypeOK, FetchEffect, ScenarioTypeOK, Cached
<1>4. NullInv' /\ EndedInv' /\ DistinctInv' /\ LiveInv'
  BY <1>1, <1>2 DEF ListedInv, TypeOK, NullInv, EndedInv, DistinctInv, LiveInv
<1>5. HeldInv'
  <2>1. ASSUME NEW e \in ToDo
        PROVE  /\ e.report \in ended \/ cache'[e.report].revision >= e.revision
               /\ cache'[e.report].revision = e.revision => cache'[e.report].cursor = e.cursor
    <3>1. e.report \in Reports /\ e.revision \in Nat
      BY <1>2, ListedTyped
    <3>2. /\ e.report \in ended \/ cache[e.report].revision >= e.revision
          /\ cache[e.report].revision = e.revision => cache[e.report].cursor = e.cursor
      BY DEF ListedInv, HeldInv
    <3>3. CASE e.report # r
      BY <1>1, <3>1, <3>2, <3>3
    <3>4. CASE e.report = r
      BY <1>1, <3>1, <3>2, <3>4
    <3>5. QED BY <3>3, <3>4
  <2>2. QED BY <1>1, <1>2, <2>1 DEF HeldInv
<1>6. MatchHasReport'
  BY <1>1 DEF ListedInv, MatchHasReport
<1>7. QED BY <1>3, <1>4, <1>5, <1>6 DEF ListedInv

LEMMA EndKeepsListed ==
  ASSUME MatchAssumption, ListedInv, ScenarioTypeOK', LeftInv', NEW r \in Reports, Ends(r)
  PROVE  ListedInv'
<1>1. /\ cache' \in [Reports -> Cached] /\ ended' = ended \cup {r}
      /\ \A x \in Reports : x # r => cache'[x] = cache[x]
      /\ cache'[r].revision = 0 /\ cache'[r].cursor = 0
      /\ UNCHANGED <<now, taken, samples, stays, matches, inserted, known, pass, scenario>>
  BY Ended DEF ListedInv
<1>2. ToDo' = ToDo /\ ToDo \in SUBSET Listed
  BY <1>1, ToDoTyped DEF ToDo, ListedInv, TypeOK
<1>3. TypeOK'
  BY <1>1 DEF ListedInv, TypeOK, ScenarioTypeOK, Cached
<1>4. NullInv' /\ EndedInv' /\ DistinctInv' /\ LiveInv' /\ MatchHasReport'
  BY <1>1, <1>2 DEF ListedInv, NullInv, EndedInv, DistinctInv, LiveInv, MatchHasReport, TypeOK
<1>5. HeldInv'
  <2>1. \A e \in ToDo : e.report \in Reports /\ e.revision # 0
    BY <1>2, ListedTyped
  <2>2. QED BY <1>1, <1>2, <2>1 DEF ListedInv, HeldInv
<1>6. QED BY <1>3, <1>4, <1>5 DEF ListedInv

LEMMA HistoryKeepsListed ==
  ASSUME MatchAssumption, ListedInv, ScenarioTypeOK', LeftInv', HistoryEffect
  PROVE  ListedInv'
<1>1. UNCHANGED <<cache, ended, matches, pass>>
  BY DEF HistoryEffect
<1>2. TypeOK'
  BY DEF ListedInv, TypeOK, HistoryEffect, ScenarioTypeOK
<1>3. QED
  BY <1>1, <1>2 DEF ListedInv, NullInv, EndedInv, DistinctInv, HeldInv, LiveInv, MatchHasReport, ToDo

LEMMA StartKeepsListed ==
  ASSUME MatchAssumption, ListedInv, ScenarioTypeOK', LeftInv', StartEffect
  PROVE  ListedInv'
<1>1. pass'.at = "list" /\ pass'.ts = now /\ pass' \in PassStates
  BY DEF StartEffect, PassStates, ListedInv, TypeOK
<1>2. ToDo' = {}
  BY <1>1 DEF ToDo, HasRows, HasOpen, HasReport
<1>3. TypeOK'
  BY <1>1 DEF ListedInv, TypeOK, StartEffect, ScenarioTypeOK, Cached
<1>4. DistinctInv' /\ HeldInv' /\ LiveInv'
  BY <1>1, <1>2 DEF DistinctInv, HeldInv, LiveInv, HasReport
<1>5. NullInv' /\ EndedInv' /\ MatchHasReport'
  BY DEF ListedInv, TypeOK, StartEffect, NullInv, EndedInv, MatchHasReport
<1>6. QED BY <1>3, <1>4, <1>5 DEF ListedInv

LEMMA ListKeepsListed ==
  ASSUME MatchAssumption, ListedInv, ScenarioTypeOK', LeftInv', List
  PROVE  ListedInv'
<1>1. /\ pass.at = "list" /\ pass' \in PassStates
      /\ pass'.at = "idle" \/ (pass'.at = "matches" /\ pass'.ts = pass.ts)
      /\ \A e \in ToDo' : /\ cache[e.report].revision = e.revision
                          /\ cache[e.report].cursor = e.cursor
      /\ \A e, f \in ToDo' : e.report = f.report => e = f
      /\ ToDo' # {} => Expires > pass.ts
      /\ known' \in Remembered
      /\ UNCHANGED <<now, cache, ended, taken, samples, stays, matches, inserted, scenario>>
  BY ListedNow DEF ListedInv
<1>2. TypeOK'
  BY <1>1 DEF ListedInv, TypeOK, ScenarioTypeOK
<1>3. NullInv' /\ EndedInv' /\ MatchHasReport'
  BY <1>1 DEF ListedInv, NullInv, EndedInv, MatchHasReport
<1>4. DistinctInv'
  BY <1>1 DEF DistinctInv, HasReport
<1>5. HeldInv'
  <2>1. (pass \in PassStates => ToDo \in SUBSET Listed)'
    BY ToDoTyped, PTL
  <2>2. \A e \in ToDo' : e.revision \in Nat
    BY <1>1, <2>1, ListedTyped
  <2>3. QED BY <1>1, <2>2 DEF HeldInv
<1>6. LiveInv'
  <2>1. pass'.at = "idle" => ToDo' = {}
    BY DEF ToDo, HasRows, HasOpen, HasReport
  <2>2. QED BY <1>1, <2>1 DEF LiveInv
<1>7. QED BY <1>2, <1>3, <1>4, <1>5, <1>6 DEF ListedInv

LEMMA ReadsKeepListed ==
  ASSUME MatchAssumption, ListedInv, ScenarioTypeOK', LeftInv',
         ReadMatches \/ Scanned \/ ReadStays \/ ReadFixes \/ PassEnds \/ PassStops
  PROVE  ListedInv'
<1>1. /\ GoesOn
      /\ \/ pass'.at \in {"idle", "stays", "fixes"}
         \/ /\ pass.at = "matches" /\ pass'.at = "scan"
            /\ pass'.matched = {r \in Reports : matches[r] # 0} /\ pass'.open = {}
         \/ pass'.at = "match" /\ pass'.open = pass.open /\ pass'.fixes = FixesRead
  BY ReadsOn DEF ListedInv
<1>2. /\ pass' \in PassStates /\ ToDo' \subseteq ToDo /\ (pass'.at # "idle" => pass'.ts = pass.ts)
      /\ known' \in Remembered
      /\ UNCHANGED <<now, cache, ended, taken, samples, stays, matches, inserted>>
  BY <1>1 DEF GoesOn
<1>3. TypeOK'
  BY <1>2 DEF ListedInv, TypeOK, ScenarioTypeOK
<1>4. NullInv' /\ EndedInv' /\ MatchHasReport' /\ HeldInv'
  BY <1>2 DEF ListedInv, NullInv, EndedInv, MatchHasReport, HeldInv
<1>5. DistinctInv'
  BY <1>1, <1>2 DEF ListedInv, DistinctInv, HasReport
<1>6. LiveInv'
  <2>1. pass'.at = "idle" => ToDo' = {}
    BY DEF ToDo, HasRows, HasOpen, HasReport
  <2>2. QED BY <1>1, <1>2, <2>1 DEF ListedInv, LiveInv
<1>7. QED BY <1>3, <1>4, <1>5, <1>6 DEF ListedInv

\* Setting the cursor of a report that is no longer to be done disturbs no other.
LEMMA SetKeepsHeld ==
  ASSUME MatchAssumption, ListedInv, NEW r \in Reports, NEW revision, pass.ts \in Nat,
         cache' = SetLastMatchedAt(r, revision, pass.ts), UNCHANGED <<ended, matches>>,
         ToDo' \subseteq ToDo, \A e \in ToDo' : e.report # r
  PROVE  /\ cache' \in [Reports -> Cached]
         /\ NullInv' /\ EndedInv' /\ MatchHasReport' /\ HeldInv'
<1>1. cache \in [Reports -> Cached] /\ ToDo \in SUBSET Listed
  BY ToDoTyped DEF ListedInv, TypeOK, Cached
<1>2. /\ cache' \in [Reports -> Cached]
      /\ \A x \in Reports :
           /\ cache'[x].revision = cache[x].revision
           /\ \/ cache'[x] = cache[x]
              \/ /\ x = r /\ cache[r].revision = revision /\ cache[r] # NotCached
                 /\ cache'[x].cursor = pass.ts
  BY <1>1, CursorSet
<1>3. NullInv'
  BY <1>1, <1>2, CachedTyped DEF ListedInv, NullInv
<1>4. EndedInv' /\ MatchHasReport'
  BY <1>2 DEF ListedInv, TypeOK, EndedInv, MatchHasReport
<1>5. \A e \in ToDo' : e \in ToDo /\ e.report \in Reports /\ cache'[e.report] = cache[e.report]
  BY <1>1, <1>2, ListedTyped
<1>6. HeldInv'
  BY <1>5 DEF ListedInv, HeldInv
<1>7. QED BY <1>2, <1>3, <1>4, <1>6

LEMMA ScanKeepsListed ==
  ASSUME MatchAssumption, ListedInv, ScenarioTypeOK', LeftInv', NEW row \in pass.rows,
         ScanEffect(row)
  PROVE  ListedInv'
<1>1. /\ pass \in PassStates /\ pass.at = "scan" /\ pass' \in PassStates /\ pass'.at = "scan"
      /\ pass'.ts = pass.ts /\ pass'.rows = pass.rows \ {row} /\ pass'.matched = pass.matched
      /\ known' \in Remembered
      /\ UNCHANGED <<now, ended, taken, samples, stays, matches, inserted>>
  BY DEF ScanEffect, ListedInv, TypeOK
<1>2. /\ pass.ts \in Nat /\ pass.rows \in SUBSET Listed /\ pass.open \in SUBSET Listed
  BY <1>1, PassShapes DEF HasRows, HasOpen
<1>3. ToDo = pass.rows \cup pass.open /\ ToDo' = pass'.rows \cup pass'.open
  BY <1>1 DEF ToDo, HasRows, HasOpen, HasReport
<1>4. /\ row.report \in Reports /\ row.revision \in Nat
      /\ \A e \in pass.rows \ {row} : e.report # row.report
      /\ \A e \in pass.open : e.report # row.report
      /\ \A e, f \in pass.rows \cup pass.open : e.report = f.report => e = f
      /\ \A e \in pass.rows, f \in pass.open : e.report # f.report
  BY <1>1, <1>2, <1>3, ListedTyped DEF ListedInv, DistinctInv
<1>5. /\ Expires > pass.ts
      /\ \A r \in pass.matched : matches[r] # 0
  BY <1>1, <1>3 DEF ListedInv, LiveInv
<1>6. LiveInv'
  BY <1>1, <1>5 DEF LiveInv
<1>7. CASE pass'.open = pass.open
  <2>1. ToDo' \subseteq ToDo /\ \A e \in ToDo' : e.report # row.report
    BY <1>1, <1>3, <1>4, <1>7
  <2>2. DistinctInv'
    BY <1>1, <1>3, <1>4, <1>7 DEF DistinctInv, HasReport
  <2>3. CASE cache' = cache
    <3>1. TypeOK'
      BY <1>1, <2>3 DEF ListedInv, TypeOK, ScenarioTypeOK
    <3>2. NullInv' /\ EndedInv' /\ MatchHasReport' /\ HeldInv'
      BY <1>1, <2>1, <2>3 DEF ListedInv, NullInv, EndedInv, MatchHasReport, HeldInv
    <3>3. QED BY <1>6, <2>2, <3>1, <3>2 DEF ListedInv
  <2>4. ASSUME NEW revision, cache' = SetLastMatchedAt(row.report, revision, pass.ts)
        PROVE  ListedInv'
    <3>1. cache' \in [Reports -> Cached] /\ NullInv' /\ EndedInv' /\ MatchHasReport' /\ HeldInv'
      BY <1>1, <1>2, <1>4, <2>1, <2>4, SetKeepsHeld
    <3>2. TypeOK'
      BY <1>1, <3>1 DEF ListedInv, TypeOK, ScenarioTypeOK, Cached
    <3>3. QED BY <1>6, <2>2, <3>1, <3>2 DEF ListedInv
  <2>5. QED BY <2>3, <2>4 DEF ScanEffect
<1>8. ASSUME cache' = cache, NEW o \in Listed, pass'.open = pass.open \cup {o},
             o.report = row.report,
             \/ o.revision = row.revision /\ o.cursor = row.cursor
             \/ o.revision = cache[row.report].revision /\ o.cursor = cache[row.report].cursor
      PROVE  ListedInv'
  <2>1. TypeOK'
    BY <1>1, <1>8 DEF ListedInv, TypeOK, ScenarioTypeOK
  <2>2. NullInv' /\ EndedInv' /\ MatchHasReport'
    BY <1>1, <1>8 DEF ListedInv, NullInv, EndedInv, MatchHasReport
  <2>3. DistinctInv'
    BY <1>1, <1>3, <1>4, <1>8 DEF DistinctInv, HasReport
  <2>4. /\ row.report \in ended \/ cache[row.report].revision >= row.revision
        /\ cache[row.report].revision = row.revision => cache[row.report].cursor = row.cursor
    BY <1>3 DEF ListedInv, HeldInv
  <2>5. cache[row.report].revision \in Nat /\ o.revision \in Nat
    BY <1>4, CachedTyped, ListedTyped DEF ListedInv, TypeOK, Cached
  <2>6. /\ o.report \in ended \/ cache[o.report].revision >= o.revision
        /\ cache[o.report].revision = o.revision => cache[o.report].cursor = o.cursor
    BY <1>8, <2>4, <2>5
  <2>7. HeldInv'
    BY <1>1, <1>3, <1>8, <2>6 DEF ListedInv, HeldInv
  <2>8. QED BY <1>6, <2>1, <2>2, <2>3, <2>7 DEF ListedInv
<1>9. QED BY <1>7, <1>8 DEF ScanEffect

LEMMA DecideKeepsListed ==
  ASSUME MatchAssumption, ListedInv, ScenarioTypeOK', LeftInv', NEW o \in pass.open,
         DecideEffect(o)
  PROVE  ListedInv'
<1>1. /\ pass \in PassStates /\ pass.at = "match" /\ pass' \in PassStates /\ ToDo' \subseteq ToDo
      /\ pass'.at \in {"match", "insert", "cursor"} /\ pass'.ts = pass.ts
      /\ pass'.open = pass.open \ {o} /\ pass'.report = o
      /\ known' \in Remembered
      /\ UNCHANGED <<now, cache, ended, taken, samples, stays, matches, inserted>>
  BY DEF DecideEffect, GoesOn, ListedInv, TypeOK
<1>2. TypeOK'
  BY <1>1 DEF ListedInv, TypeOK, ScenarioTypeOK
<1>3. NullInv' /\ EndedInv' /\ MatchHasReport' /\ HeldInv' /\ LiveInv'
  BY <1>1 DEF ListedInv, NullInv, EndedInv, MatchHasReport, HeldInv, LiveInv
<1>4. \A e \in pass.open \ {o} : e.report # o.report
  <2>1. pass.open \subseteq ToDo
    BY <1>1 DEF ToDo, HasOpen
  <2>2. QED BY <2>1 DEF ListedInv, DistinctInv
<1>5. DistinctInv'
  BY <1>1, <1>4 DEF ListedInv, DistinctInv
<1>6. QED BY <1>2, <1>3, <1>5 DEF ListedInv

LEMMA InsertKeepsListed ==
  ASSUME MatchAssumption, ListedInv, ScenarioTypeOK', LeftInv', InsertEffect
  PROVE  ListedInv'
<1>1. PICK r : r = pass.report.report
  OBVIOUS
<1>2. /\ pass \in PassStates /\ pass.at = "insert" /\ pass' \in PassStates
      /\ pass'.at \in {"cursor", "match"} /\ pass'.ts = pass.ts /\ pass'.open = pass.open
      /\ pass'.report = pass.report
      /\ matches' \in Remembered /\ inserted' \in [Reports -> Nat]
      /\ \A x \in Reports : x # r => matches'[x] = matches[x]
      /\ matches[r] = 0 => matches'[r] = pass.report.revision
      /\ matches[r] # 0 => matches'[r] = matches[r]
      /\ UNCHANGED <<now, cache, ended, taken, samples, stays, known, scenario>>
  BY <1>1 DEF InsertEffect, ListedInv, TypeOK
<1>3. pass.report \in Listed /\ r \in Reports /\ pass.report \in ToDo
  BY <1>1, <1>2, PassShapes, ListedTyped DEF HasReport, ToDo
<1>4. ToDo' \subseteq ToDo
  BY <1>2 DEF ToDo, HasRows, HasOpen, HasReport
<1>5. TypeOK'
  BY <1>2 DEF InsertEffect, ListedInv, TypeOK, ScenarioTypeOK
<1>6. NullInv' /\ EndedInv' /\ HeldInv'
  BY <1>2, <1>4 DEF ListedInv, NullInv, EndedInv, HeldInv
<1>7. LiveInv' /\ DistinctInv'
  BY <1>2, <1>4 DEF ListedInv, LiveInv, DistinctInv, HasReport
<1>8. MatchHasReport'
  <2>1. r \in ended \/ cache[r].revision >= pass.report.revision
    BY <1>1, <1>3 DEF ListedInv, HeldInv
  <2>2. QED BY <1>2, <2>1 DEF ListedInv, MatchHasReport
<1>9. QED BY <1>5, <1>6, <1>7, <1>8 DEF ListedInv

LEMMA SetKeepsListed ==
  ASSUME MatchAssumption, ListedInv, ScenarioTypeOK', LeftInv', SetEffect
  PROVE  ListedInv'
<1>1. /\ pass \in PassStates /\ pass.at = "cursor" /\ pass' \in PassStates /\ pass'.at = "match"
      /\ pass'.ts = pass.ts /\ pass'.open = pass.open
      /\ cache' = SetLastMatchedAt(pass.report.report, pass.report.revision, pass.ts)
      /\ UNCHANGED <<now, ended, taken, samples, stays, matches, inserted, known, scenario>>
  BY DEF SetEffect, ListedInv, TypeOK
<1>2. PICK r : r = pass.report.report
  OBVIOUS
<1>3. /\ pass.ts \in Nat /\ pass.report \in Listed /\ r \in Reports
      /\ ToDo' = pass.open /\ ToDo' \subseteq ToDo
  BY <1>1, <1>2, PassShapes, ListedTyped DEF HasReport, ToDo, HasRows, HasOpen
<1>4. \A e \in ToDo' : e.report # r
  BY <1>1, <1>2, <1>3 DEF ListedInv, DistinctInv, HasReport
<1>5. PICK revision : revision = pass.report.revision
  OBVIOUS
<1>6. cache' \in [Reports -> Cached] /\ NullInv' /\ EndedInv' /\ MatchHasReport' /\ HeldInv'
  BY <1>1, <1>2, <1>3, <1>4, <1>5, SetKeepsHeld
<1>7. TypeOK'
  BY <1>1, <1>6 DEF ListedInv, TypeOK, ScenarioTypeOK, Cached
<1>8. DistinctInv' /\ LiveInv'
  BY <1>1, <1>3 DEF ListedInv, DistinctInv, LiveInv, HasReport
<1>9. QED BY <1>6, <1>7, <1>8 DEF ListedInv

----------------------------------------------------------------------------
(* Every step is one of those above.                                         *)

StepEffect ==
  \/ \E r \in Reports, revision \in Revisions : FetchEffect(r, revision)
  \/ \E r \in Reports : Ends(r)
  \/ HistoryEffect \/ StartEffect \/ List
  \/ ReadMatches \/ Scanned \/ ReadStays \/ ReadFixes \/ PassEnds \/ PassStops
  \/ \E row \in pass.rows : ScanEffect(row)
  \/ \E o \in pass.open : DecideEffect(o)
  \/ InsertEffect \/ SetEffect

LEMMA StepTaken ==
  ASSUME MatchAssumption, TypeOK, NullInv, Next
  PROVE  StepEffect
<1>1. ASSUME NEW r \in Reports, NEW revision \in Revisions, Fetch(r, revision)
      PROVE  StepEffect
  BY <1>1, Fetched DEF StepEffect
<1>2. ASSUME NEW r \in Reports, Ends(r)
      PROVE  StepEffect
  BY <1>2 DEF StepEffect
<1>3. CASE HistoryStep
  BY <1>3, HistoryGoesOn DEF StepEffect
<1>4. CASE StartRun
  BY <1>4, Started DEF StepEffect
<1>5. CASE InsertMatch
  BY <1>5, Inserted DEF StepEffect
<1>6. CASE SetCursor
  BY <1>6, SetOnce DEF StepEffect
<1>7. ASSUME pass.at = "scan", NEW row \in pass.rows, Scan(row)
      PROVE  StepEffect
  BY <1>7, ScannedOne DEF StepEffect
<1>8. ASSUME pass.at = "match", NEW o \in pass.open, Decide(o)
      PROVE  StepEffect
  BY <1>8, Decided DEF StepEffect
<1>9. CASE List \/ ReadMatches \/ Scanned \/ ReadStays \/ ReadFixes \/ PassEnds \/ PassStops
  BY <1>9 DEF StepEffect
<1>10. QED
  BY <1>1, <1>2, <1>3, <1>4, <1>5, <1>6, <1>7, <1>8, <1>9 DEF Next, PassStep, HistoryStep

LEMMA StutterKeepsListed ==
  ASSUME ListedInv, UNCHANGED vars
  PROVE  ListedInv'
BY DEF ListedInv, TypeOK, LeftInv, NullInv, EndedInv, DistinctInv, HeldInv, LiveInv, MatchHasReport,
  ToDo, vars, history

LEMMA ListedStep ==
  ASSUME MatchAssumption, ListedInv, [Next]_vars
  PROVE  ListedInv'
<1>1. CASE UNCHANGED vars
  BY <1>1, StutterKeepsListed
<1>2. CASE Next
  <2>1. TypeOK /\ LeftInv /\ NullInv /\ ScenarioTypeOK
    BY DEF ListedInv, TypeOK, ScenarioTypeOK
  <2>2. ScenarioTypeOK' /\ LeftInv'
    BY <1>2, <2>1, ScenarioStep
  <2>3. StepEffect
    BY <1>2, <2>1, StepTaken
  <2>4. ASSUME NEW r \in Reports, NEW revision \in Revisions, FetchEffect(r, revision)
        PROVE  ListedInv'
    BY <2>2, <2>4, FetchKeepsListed
  <2>5. ASSUME NEW r \in Reports, Ends(r)
        PROVE  ListedInv'
    BY <2>2, <2>5, EndKeepsListed
  <2>6. CASE HistoryEffect
    BY <2>2, <2>6, HistoryKeepsListed
  <2>7. CASE StartEffect
    BY <2>2, <2>7, StartKeepsListed
  <2>8. CASE List
    BY <2>2, <2>8, ListKeepsListed
  <2>9. CASE ReadMatches \/ Scanned \/ ReadStays \/ ReadFixes \/ PassEnds \/ PassStops
    BY <2>2, <2>9, ReadsKeepListed
  <2>10. ASSUME NEW row \in pass.rows, ScanEffect(row)
         PROVE  ListedInv'
    BY <2>2, <2>10, ScanKeepsListed
  <2>11. ASSUME NEW o \in pass.open, DecideEffect(o)
         PROVE  ListedInv'
    BY <2>2, <2>11, DecideKeepsListed
  <2>12. CASE InsertEffect
    BY <2>2, <2>12, InsertKeepsListed
  <2>13. CASE SetEffect
    BY <2>2, <2>13, SetKeepsListed
  <2>14. QED
    BY <2>3, <2>4, <2>5, <2>6, <2>7, <2>8, <2>9, <2>10, <2>11, <2>12, <2>13 DEF StepEffect
<1>3. QED BY <1>1, <1>2

LEMMA ListedInit ==
  ASSUME MatchAssumption, Init
  PROVE  ListedInv
<1>1. PICK s \in Scenarios : scenario = [revisions |-> s.revisions, budget |-> s.budget, left |-> s.budget]
  BY DEF Init
<1>2. s.revisions \subseteq Revisions /\ s.budget \in [Events -> Nat]
  BY DEF MatchAssumption
<1>3. scenario.left["jumps"] = scenario.budget["jumps"] /\ s.budget["jumps"] \in Nat
  BY <1>1, <1>2 DEF Events
<1>4. LeftInv
  BY <1>1, <1>3 DEF LeftInv
<1>5. NotCached \in Cached /\ NotCached.revision = 0 /\ NotCached.cursor = 0
  BY DEF Cached, NotCached
<1>6. cache = [r \in Reports |-> NotCached]
  BY DEF Init
<1>7. cache \in [Reports -> Cached]
      /\ \A r \in Reports : cache[r].revision = 0 /\ cache[r].cursor = 0
  BY <1>5, <1>6
<1>8. pass \in PassStates /\ pass.at = "idle"
  BY DEF Init, Idle, PassStates
<1>9. ToDo = {}
  BY <1>8 DEF ToDo, HasRows, HasOpen, HasReport
<1>10. matches \in Remembered /\ inserted \in [Reports -> Nat] /\ known \in Remembered
       /\ \A r \in Reports : matches[r] = 0
  BY DEF Init, Remembered
<1>11. TypeOK
  BY <1>1, <1>2, <1>7, <1>8, <1>10 DEF Init, TypeOK, Cached
<1>12. NullInv /\ EndedInv /\ DistinctInv /\ HeldInv /\ LiveInv /\ MatchHasReport
  BY <1>7, <1>8, <1>9, <1>10
    DEF Init, NullInv, EndedInv, DistinctInv, HeldInv, LiveInv, MatchHasReport, HasReport
<1>13. QED BY <1>4, <1>11, <1>12 DEF ListedInv

\* The store, the reports a pass has read and its place in it are always what they are
\* said to be, under every scenario.
THEOREM MatchTypeCorrect == ASSUME MatchAssumption PROVE Spec => []TypeOK
<1>1. Spec => []ListedInv
  BY ListedInit, ListedStep, PTL DEF Spec
<1>2. ListedInv => TypeOK
  BY DEF ListedInv
<1>3. QED BY <1>1, <1>2, PTL

\* A match never outlives its report, nor gets ahead of it: the purge, the fetcher and a
\* pass that read the report long ago leave them side by side.
THEOREM MatchStaysWithReport == ASSUME MatchAssumption PROVE Spec => []MatchHasReport
<1>1. Spec => []ListedInv
  BY ListedInit, ListedStep, PTL DEF Spec
<1>2. ListedInv => MatchHasReport
  BY DEF ListedInv
<1>3. QED BY <1>1, <1>2, PTL

----------------------------------------------------------------------------
(* Evidence in one fix. *)

LEMMA OneFix ==
  ASSUME NEW f, NEW revision, NEW t
  PROVE  IsEvidence({}, {f}, revision, t) <=>
           Possible(t) /\ Near(f.place, revision) /\ f.ts \in Bounds(t).from..Bounds(t).to
BY DEF IsEvidence, StaysAsEvidence, FixesAsEvidence

LEMMA FixAmong ==
  ASSUME NEW rows, NEW fixes, NEW f \in fixes, NEW revision, NEW t,
         IsEvidence({}, {f}, revision, t)
  PROVE  IsEvidence(rows, fixes, revision, t)
BY OneFix DEF IsEvidence, FixesAsEvidence

\* What is not evidence now is not evidence later: the retention moves on.
LEMMA EvidenceFades ==
  ASSUME MatchAssumption, NEW f, f.ts \in Nat, NEW revision, NEW s \in Nat, NEW t \in Nat, s <= t
  PROVE  /\ Possible(t) => Possible(s)
         /\ IsEvidence({}, {f}, revision, t) => IsEvidence({}, {f}, revision, s)
<1>1. Window.from \in Nat /\ Window.to \in Nat /\ Expires \in Nat /\ Retention \in Nat
  BY DEF MatchAssumption
<1>2. /\ Bounds(s).from \in Int /\ Bounds(t).from \in Int /\ Bounds(s).from <= Bounds(t).from
      /\ Bounds(s).to = Window.to /\ Bounds(t).to = Window.to
  BY <1>1 DEF Bounds
<1>3. Possible(t) => Possible(s)
  BY <1>1, <1>2 DEF Possible
<1>4. f.ts \in Bounds(t).from..Bounds(t).to => f.ts \in Bounds(s).from..Bounds(s).to
  BY <1>1, <1>2
<1>5. QED BY <1>3, <1>4, OneFix

----------------------------------------------------------------------------
(* While the clock is left alone. *)

\* A report that lost its match is over: it has ended, or expired.
Over(r) ==
  \/ r \in ended /\ \A e \in ToDo : e.report # r
  \/ Expires <= now /\ (pass # Idle => Expires <= pass.ts)

OnceInv == \A r \in Reports : inserted[r] <= 1 /\ (inserted[r] = 1 /\ matches[r] = 0 => Over(r))

ClockInv == (pass # Idle => pass.ts <= now) /\ \A r \in Reports : cache[r].cursor <= now

\* The pass has every fix a report it still decides about has had since its cursor, save
\* those that reached the store too late or too recently.
ReadInv ==
  pass.at \in {"match", "insert", "cursor"} =>
    \A o \in pass.open, f \in samples :
      o.cursor # Owed /\ ~f.late /\ f.ts < pass.ts - Late /\ f.ts >= Since(o.cursor, pass.ts)
        => f \in pass.fixes

\* The report whose cursor is to move has no evidence among them.
DecidedInv ==
  pass.at = "cursor" /\ matches[pass.report.report] = 0
    /\ cache[pass.report.report].revision = pass.report.revision =>
      \A f \in samples : ~f.late /\ f.ts < pass.ts - Late
        => ~IsEvidence({}, {f}, pass.report.revision, now)

\* Nor has a report among the fixes behind its cursor.
CursorInv ==
  \A r \in Reports : cache[r] # NotCached /\ cache[r].cursor # Owed /\ matches[r] = 0 =>
    \A f \in samples : ~f.late /\ IsEvidence({}, {f}, cache[r].revision, now)
      => f.ts >= cache[r].cursor - Late

SteadyInv == OnceInv /\ ClockInv /\ ReadInv /\ DecidedInv /\ CursorInv

LEMMA CursorIsSince ==
  ASSUME MatchAssumption, TypeOK, ClockInv, NEW r \in Reports
  PROVE  Since(cache[r].cursor, now) = cache[r].cursor - Late
<1>1. cache[r].cursor \in Nat /\ now \in Nat /\ Late \in Nat /\ cache[r].cursor <= now
  BY CachedTyped DEF TypeOK, Cached, MatchAssumption, ClockInv
<1>2. QED BY <1>1 DEF Since

LEMMA NothingBehind ==
  ASSUME MatchAssumption, TypeOK, Never("jumps") => SteadyInv
  PROVE  NoFixLeftBehind
BY CursorIsSince DEF NoFixLeftBehind, SteadyInv, CursorInv

\* What leaves the matches alone, and has no report to do that it had not.
LEMMA OnceKept ==
  ASSUME MatchAssumption, TypeOK, OnceInv, UNCHANGED <<matches, inserted>>,
         ended \subseteq ended', now' \in Nat, now <= now',
         \A e \in ToDo' : \E f \in ToDo : f.report = e.report,
         pass' # Idle => pass # Idle /\ pass'.ts = pass.ts
  PROVE  OnceInv'
<1>1. now \in Nat /\ Expires \in Nat
  BY DEF TypeOK, MatchAssumption
<1>2. ASSUME NEW r \in Reports, Over(r)
      PROVE  Over(r)'
  BY <1>1, <1>2 DEF Over
<1>3. QED BY <1>2 DEF OnceInv

\* What leaves the store alone but for fixes purged or stored in time, and time going on.
LEMMA CursorKept ==
  ASSUME MatchAssumption, TypeOK, ClockInv, CursorInv, UNCHANGED <<cache, matches>>,
         now' \in Nat, now <= now', samples' \subseteq Samples,
         \A f \in samples' : f \in samples \/ f.late \/ now <= f.ts + Late
  PROVE  CursorInv'
<1>1. ASSUME NEW r \in Reports, cache[r] # NotCached, cache[r].cursor # Owed, matches[r] = 0,
             NEW f \in samples', ~f.late, IsEvidence({}, {f}, cache[r].revision, now')
      PROVE  f.ts >= cache[r].cursor - Late
  <2>1. /\ f.ts \in Nat /\ cache[r].cursor \in Nat /\ now \in Nat /\ Late \in Nat
        /\ cache[r].cursor <= now
    BY CachedTyped DEF Samples, TypeOK, Cached, MatchAssumption, ClockInv
  <2>2. IsEvidence({}, {f}, cache[r].revision, now)
    BY <1>1, <2>1, EvidenceFades
  <2>3. CASE f \in samples
    BY <1>1, <2>2, <2>3 DEF CursorInv
  <2>4. CASE now <= f.ts + Late
    BY <2>1, <2>4
  <2>5. QED BY <1>1, <2>3, <2>4
<1>2. QED BY <1>1 DEF CursorInv

LEMMA FetchKeepsSteady ==
  ASSUME MatchAssumption, ListedInv, SteadyInv, NEW r \in Reports, NEW revision \in Revisions,
         FetchEffect(r, revision)
  PROVE  SteadyInv'
<1>1. /\ cache \in [Reports -> Cached] /\ cache' \in [Reports -> Cached] /\ r \notin ended
      /\ \A x \in Reports : x # r => cache'[x] = cache[x]
      /\ cache'[r].revision = revision /\ revision > cache[r].revision
      /\ revision \in Nat /\ cache[r].revision \in Nat /\ now \in Nat
      /\ UNCHANGED <<now, ended, taken, samples, stays, matches, inserted, pass>>
      /\ pass \in PassStates
  BY CachedTyped DEF FetchEffect, ListedInv, TypeOK, Cached, MatchAssumption
<1>2. \/ cache'[r].cursor = Owed
      \/ /\ cache[r].revision # 0 /\ cache'[r].cursor = cache[r].cursor
         /\ Criteria[revision] = Criteria[cache[r].revision]
  BY DEF FetchEffect
<1>3. ToDo' = ToDo
  BY <1>1 DEF ToDo
<1>4. OnceInv' /\ ReadInv'
  BY <1>1, <1>3 DEF SteadyInv, OnceInv, Over, ReadInv
<1>5. ClockInv'
  <2>1. cache'[r].cursor <= now
    BY <1>1, <1>2 DEF SteadyInv, ClockInv, Owed
  <2>2. QED BY <1>1, <2>1 DEF SteadyInv, ClockInv
<1>6. DecidedInv'
  <2>1. CASE pass.at = "cursor" /\ pass.report.report = r
    <3>1. pass.report \in Listed /\ pass.report \in ToDo
      BY <1>1, <2>1, PassShapes DEF ToDo, HasReport
    <3>2. cache[r].revision >= pass.report.revision /\ pass.report.revision \in Nat
      BY <1>1, <2>1, <3>1, ListedTyped DEF ListedInv, HeldInv
    <3>3. cache'[r].revision # pass.report.revision
      BY <1>1, <3>2
    <3>4. QED BY <1>1, <2>1, <3>3 DEF DecidedInv
  <2>2. CASE pass.at = "cursor" /\ pass.report.report # r
    <3>1. pass.report.report \in Reports
      BY <1>1, <2>2, PassShapes, ListedTyped DEF HasReport
    <3>2. QED BY <1>1, <2>2, <3>1 DEF SteadyInv, DecidedInv
  <2>3. CASE pass.at # "cursor"
    BY <1>1, <2>3 DEF DecidedInv
  <2>4. QED BY <2>1, <2>2, <2>3
<1>7. CursorInv'
  <2>1. ASSUME NEW x \in Reports, cache'[x] # NotCached, cache'[x].cursor # Owed, matches[x] = 0,
               NEW f \in samples, ~f.late, IsEvidence({}, {f}, cache'[x].revision, now)
        PROVE  f.ts >= cache'[x].cursor - Late
    <3>1. CASE x # r
      BY <1>1, <2>1, <3>1 DEF SteadyInv, CursorInv
    <3>2. CASE x = r
      <4>1. /\ cache[r].revision # 0 /\ cache'[r].cursor = cache[r].cursor
            /\ Criteria[revision] = Criteria[cache[r].revision]
        BY <1>2, <2>1, <3>2
      <4>2. cache[r] # NotCached
        BY <1>1, <4>1, CachedTyped
      <4>3. IsEvidence({}, {f}, cache[r].revision, now)
        BY <1>1, <2>1, <3>2, <4>1, OneFix DEF Near
      <4>4. QED BY <1>1, <2>1, <3>2, <4>1, <4>2, <4>3 DEF SteadyInv, CursorInv
    <3>3. QED BY <3>1, <3>2
  <2>2. QED BY <1>1, <2>1 DEF CursorInv
<1>8. QED BY <1>4, <1>5, <1>6, <1>7 DEF SteadyInv

LEMMA EndKeepsSteady ==
  ASSUME MatchAssumption, ListedInv, SteadyInv, NEW r \in Reports, Ends(r)
  PROVE  SteadyInv'
<1>1. /\ cache' \in [Reports -> Cached] /\ ended' = ended \cup {r}
      /\ \A x \in Reports : x # r => cache'[x] = cache[x]
      /\ cache'[r].revision = 0 /\ cache'[r].cursor = 0
      /\ UNCHANGED <<now, taken, samples, stays, matches, inserted, known, pass, scenario>>
      /\ pass \in PassStates /\ now \in Nat
  BY Ended DEF ListedInv, TypeOK
<1>2. ToDo' = ToDo
  BY <1>1 DEF ToDo
<1>3. OnceInv'
  BY <1>1, <1>2, OnceKept DEF SteadyInv, ListedInv
<1>4. ClockInv' /\ ReadInv'
  BY <1>1 DEF SteadyInv, ClockInv, ReadInv
<1>5. DecidedInv'
  <2>1. CASE pass.at = "cursor"
    <3>1. pass.report.report \in Reports /\ pass.report.revision # 0
      BY <1>1, <2>1, PassShapes, ListedTyped DEF HasReport
    <3>2. QED BY <1>1, <2>1, <3>1 DEF SteadyInv, DecidedInv
  <2>2. QED BY <1>1, <2>1 DEF DecidedInv
<1>6. CursorInv'
  BY <1>1 DEF SteadyInv, CursorInv, Owed
<1>7. QED BY <1>3, <1>4, <1>5, <1>6 DEF SteadyInv

LEMMA HistoryKeepsSteady ==
  ASSUME MatchAssumption, ListedInv, SteadyInv, ClockLeftAlone, HistoryEffect
  PROVE  SteadyInv'
<1>1. /\ now \in Nat /\ now' \in Nat /\ now <= now' /\ samples' \subseteq Samples
      /\ \A f \in samples' : f \in samples \/ f.late \/ now <= f.ts + Late
      /\ UNCHANGED <<cache, ended, matches, inserted, known, pass>>
      /\ pass \in PassStates /\ cache \in [Reports -> Cached] /\ Late \in Nat
  BY DEF HistoryEffect, ListedInv, TypeOK, Cached, MatchAssumption
<1>2. ToDo' = ToDo
  BY <1>1 DEF ToDo
<1>3. OnceInv'
  BY <1>1, <1>2, OnceKept DEF SteadyInv, ListedInv
<1>4. pass # Idle => pass.ts \in Nat /\ pass.ts <= now
  BY <1>1, PassShapes DEF SteadyInv, ClockInv
<1>5. ClockInv'
  <2>1. \A r \in Reports : cache[r].cursor \in Nat /\ cache[r].cursor <= now
    BY <1>1, CachedTyped DEF SteadyInv, ClockInv
  <2>2. \A r \in Reports : cache[r].cursor <= now'
    BY <1>1, <2>1
  <2>3. pass # Idle => pass.ts <= now'
    BY <1>1, <1>4
  <2>4. QED BY <1>1, <2>2, <2>3 DEF ClockInv
<1>6. ASSUME pass # Idle, NEW f \in samples', ~f.late, f.ts < pass.ts - Late
      PROVE  f \in samples
  <2>1. f.ts \in Nat
    BY <1>1 DEF Samples
  <2>2. ~(now <= f.ts + Late)
    BY <1>1, <1>4, <1>6, <2>1
  <2>3. QED BY <1>1, <1>6, <2>2
<1>7. pass.at # "idle" => pass # Idle
  BY <1>1, PassShapes
<1>8. ReadInv'
  BY <1>1, <1>6, <1>7 DEF SteadyInv, ReadInv
<1>9. DecidedInv'
  <2>1. ASSUME pass.at = "cursor", matches[pass.report.report] = 0,
               cache[pass.report.report].revision = pass.report.revision,
               NEW f \in samples', ~f.late, f.ts < pass.ts - Late,
               IsEvidence({}, {f}, pass.report.revision, now')
        PROVE  FALSE
    <3>1. f \in samples /\ f.ts \in Nat
      BY <1>1, <1>6, <1>7, <2>1 DEF Samples
    <3>2. IsEvidence({}, {f}, pass.report.revision, now)
      BY <1>1, <2>1, <3>1, EvidenceFades
    <3>3. QED BY <2>1, <3>1, <3>2 DEF SteadyInv, DecidedInv
  <2>2. QED BY <1>1, <2>1 DEF DecidedInv
<1>10. CursorInv'
  BY <1>1, CursorKept DEF SteadyInv, ListedInv
<1>11. QED BY <1>3, <1>5, <1>8, <1>9, <1>10 DEF SteadyInv

LEMMA StartKeepsSteady ==
  ASSUME MatchAssumption, ListedInv, SteadyInv, StartEffect
  PROVE  SteadyInv'
<1>1. /\ pass'.at = "list" /\ pass'.ts = now /\ now \in Nat /\ Expires \in Nat
      /\ cache \in [Reports -> Cached] /\ matches \in Remembered
      /\ samples' \subseteq samples
      /\ \A r \in Reports :
           \/ cache'[r] = cache[r] /\ matches'[r] = matches[r]
           \/ /\ cache'[r].revision = 0 /\ cache'[r].cursor = 0 /\ matches'[r] = 0
              /\ cache[r].revision = 0 \/ Expires <= now
      /\ UNCHANGED <<now, ended, taken, inserted, known, scenario>>
  BY DEF StartEffect, ListedInv, TypeOK, Cached, MatchAssumption
<1>2. ToDo' = {}
  BY <1>1 DEF ToDo, HasRows, HasOpen, HasReport
<1>3. OnceInv'
  <2>1. ASSUME NEW r \in Reports, inserted[r] = 1, matches'[r] = 0
        PROVE  Over(r)'
    <3>1. CASE matches[r] = 0
      BY <1>1, <1>2, <2>1, <3>1 DEF SteadyInv, OnceInv, Over
    <3>2. CASE matches[r] # 0 /\ Expires <= now
      BY <1>1, <3>2 DEF Over
    <3>3. CASE matches[r] # 0 /\ cache[r].revision = 0
      <4>1. matches[r] \in Nat
        BY <1>1 DEF Remembered, MatchAssumption
      <4>2. r \in ended
        BY <3>3, <4>1 DEF ListedInv, MatchHasReport
      <4>3. QED BY <1>1, <1>2, <4>2 DEF Over
    <3>4. QED BY <1>1, <2>1, <3>1, <3>2, <3>3
  <2>2. QED BY <1>1, <2>1 DEF SteadyInv, OnceInv
<1>4. ClockInv' /\ ReadInv' /\ DecidedInv'
  <2>1. \A r \in Reports : cache'[r].cursor <= now
    BY <1>1 DEF SteadyInv, ClockInv
  <2>2. QED BY <1>1, <2>1 DEF ClockInv, ReadInv, DecidedInv
<1>5. CursorInv'
  BY <1>1 DEF SteadyInv, CursorInv, Owed
<1>6. QED BY <1>3, <1>4, <1>5 DEF SteadyInv

LEMMA ListKeepsSteady ==
  ASSUME MatchAssumption, ListedInv, SteadyInv, ListedInv', List
  PROVE  SteadyInv'
<1>1. /\ pass.at = "list" /\ pass' \in PassStates
      /\ pass'.at = "idle" \/ (pass'.at = "matches" /\ pass'.ts = pass.ts)
      /\ \A e \in ToDo' : cache[e.report].revision = e.revision
      /\ UNCHANGED <<now, cache, ended, taken, samples, stays, matches, inserted, scenario>>
  BY ListedNow DEF ListedInv
<1>2. pass # Idle /\ (pass' # Idle => pass'.ts = pass.ts)
  <2>1. pass' # Idle => pass'.at # "idle"
    BY <1>1, PassShapes
  <2>2. QED BY <1>1, <2>1 DEF Idle
<1>3. \A e \in ToDo' : e.report \notin ended
  <2>1. (pass \in PassStates => ToDo \in SUBSET Listed)'
    BY ToDoTyped, PTL
  <2>2. \A e \in ToDo' : e.report \in Reports /\ e.revision # 0
    BY <1>1, <2>1, ListedTyped
  <2>3. QED BY <1>1, <2>2 DEF ListedInv, EndedInv
<1>4. OnceInv'
  <2>1. ASSUME NEW r \in Reports, Over(r)
        PROVE  Over(r)'
    BY <1>1, <1>2, <1>3, <2>1 DEF Over
  <2>2. QED BY <1>1, <2>1 DEF SteadyInv, OnceInv
<1>5. ClockInv' /\ ReadInv' /\ DecidedInv' /\ CursorInv'
  BY <1>1, <1>2 DEF SteadyInv, ClockInv, ReadInv, DecidedInv, CursorInv
<1>6. QED BY <1>4, <1>5 DEF SteadyInv

LEMMA ReadsKeepSteady ==
  ASSUME MatchAssumption, ListedInv, SteadyInv, ListedInv',
         ReadMatches \/ Scanned \/ ReadStays \/ ReadFixes \/ PassEnds \/ PassStops
  PROVE  SteadyInv'
<1>1. /\ GoesOn
      /\ \/ pass'.at \in {"idle", "scan", "stays", "fixes"}
         \/ pass'.at = "match" /\ pass'.open = pass.open /\ pass'.fixes = FixesRead
  BY ReadsOn DEF ListedInv
<1>2. /\ pass \in PassStates /\ pass' \in PassStates /\ ToDo' \subseteq ToDo
      /\ pass'.at # "idle" => pass'.ts = pass.ts
      /\ UNCHANGED <<now, cache, ended, taken, samples, stays, matches, inserted>>
      /\ now \in Nat
  BY <1>1 DEF GoesOn, ListedInv, TypeOK
<1>3. pass # Idle
  BY DEF Idle, ReadMatches, Scanned, ReadStays, ReadFixes, PassEnds, PassStops
<1>4. pass' # Idle => pass'.ts = pass.ts
  BY <1>2, PassShapes
<1>5. OnceInv'
  BY <1>2, <1>3, <1>4, OnceKept DEF SteadyInv, ListedInv
<1>6. ClockInv' /\ CursorInv'
  BY <1>2, <1>3, <1>4 DEF SteadyInv, ClockInv, CursorInv
<1>7. ReadInv' /\ DecidedInv'
  BY <1>1, <1>2 DEF ReadInv, DecidedInv, FixesRead
<1>8. QED BY <1>5, <1>6, <1>7 DEF SteadyInv

LEMMA ScanKeepsSteady ==
  ASSUME MatchAssumption, ListedInv, SteadyInv, NEW row \in pass.rows, ScanEffect(row)
  PROVE  SteadyInv'
<1>1. /\ pass \in PassStates /\ pass.at = "scan" /\ pass' \in PassStates /\ pass'.at = "scan"
      /\ pass'.ts = pass.ts /\ pass'.rows = pass.rows \ {row}
      /\ UNCHANGED <<now, ended, taken, samples, stays, matches, inserted>>
      /\ now \in Nat /\ samples \in SUBSET Samples /\ cache \in [Reports -> Cached]
  BY DEF ScanEffect, ListedInv, TypeOK, Cached
<1>2. /\ pass.ts \in Nat /\ pass.ts <= now /\ pass # Idle /\ pass' # Idle
      /\ pass.rows \in SUBSET Listed /\ row.report \in Reports
  BY <1>1, PassShapes, ListedTyped DEF HasRows, SteadyInv, ClockInv, Idle
<1>3. ToDo = pass.rows \cup pass.open /\ ToDo' = pass'.rows \cup pass'.open
  BY <1>1 DEF ToDo, HasRows, HasOpen, HasReport
<1>4. \A e \in pass'.open : e \in pass.open \/ e.report = row.report
  BY DEF ScanEffect
<1>5. \A e \in ToDo' : \E f \in ToDo : f.report = e.report
  BY <1>1, <1>3, <1>4
<1>6. OnceInv'
  BY <1>1, <1>2, <1>5, OnceKept DEF SteadyInv, ListedInv
<1>7. ReadInv' /\ DecidedInv'
  BY <1>1 DEF ReadInv, DecidedInv
<1>8. CASE cache' = cache
  BY <1>1, <1>2, <1>6, <1>7, <1>8 DEF SteadyInv, ClockInv, CursorInv
<1>9. ASSUME NEW revision, cache' = SetLastMatchedAt(row.report, revision, pass.ts),
             row.report \in pass.matched \/ ~Possible(pass.ts)
      PROVE  SteadyInv'
  <2>1. PICK r \in Reports : r = row.report
    BY <1>2
  <2>2. \A x \in Reports :
          /\ cache'[x].revision = cache[x].revision
          /\ cache'[x] = cache[x] \/ (x = r /\ cache'[x].cursor = pass.ts)
    BY <1>1, <1>2, <1>9, <2>1, CursorSet
  <2>3. ClockInv'
    BY <1>1, <1>2, <2>2 DEF SteadyInv, ClockInv
  <2>4. CursorInv'
    <3>1. ASSUME cache'[r] # cache[r], matches[r] = 0, NEW f \in samples,
                 IsEvidence({}, {f}, cache'[r].revision, now)
          PROVE  FALSE
      <4>1. ~Possible(pass.ts)
        BY <1>1, <1>9, <2>1, <3>1 DEF ListedInv, LiveInv
      <4>2. f.ts \in Nat
        BY <1>1 DEF Samples
      <4>3. Possible(now)
        BY <3>1, OneFix
      <4>4. QED BY <1>1, <1>2, <4>1, <4>2, <4>3, EvidenceFades
    <3>2. QED BY <1>1, <2>2, <3>1 DEF SteadyInv, CursorInv
  <2>5. QED BY <1>6, <1>7, <2>3, <2>4 DEF SteadyInv
<1>10. QED BY <1>8, <1>9 DEF ScanEffect

LEMMA DecideKeepsSteady ==
  ASSUME MatchAssumption, ListedInv, SteadyInv, NEW o \in pass.open, DecideEffect(o)
  PROVE  SteadyInv'
<1>1. /\ pass \in PassStates /\ pass.at = "match" /\ pass' \in PassStates /\ ToDo' \subseteq ToDo
      /\ pass'.at \in {"match", "insert", "cursor"} /\ pass'.ts = pass.ts
      /\ pass'.open = pass.open \ {o} /\ pass'.fixes = pass.fixes /\ pass'.report = o
      /\ UNCHANGED <<now, cache, ended, taken, samples, stays, matches, inserted>>
      /\ now \in Nat /\ samples \in SUBSET Samples /\ cache \in [Reports -> Cached] /\ Late \in Nat
  BY DEF DecideEffect, GoesOn, ListedInv, TypeOK, Cached, MatchAssumption
<1>2. /\ pass # Idle /\ pass' # Idle /\ pass.ts \in Nat /\ pass.ts <= now
      /\ o \in Listed /\ o \in ToDo /\ o.report \in Reports
  BY <1>1, PassShapes, ListedTyped DEF ToDo, HasOpen, SteadyInv, ClockInv, Idle
<1>3. OnceInv'
  BY <1>1, <1>2, OnceKept DEF SteadyInv, ListedInv
<1>4. ClockInv' /\ CursorInv' /\ ReadInv'
  BY <1>1, <1>2 DEF SteadyInv, ClockInv, CursorInv, ReadInv
<1>5. DecidedInv'
  <2>1. ASSUME pass'.at = "cursor", matches[o.report] = 0, cache[o.report].revision = o.revision,
               NEW f \in samples, ~f.late, f.ts < pass.ts - Late,
               IsEvidence({}, {f}, o.revision, now)
        PROVE  FALSE
    <3>1. ~IsEvidence(pass.stays, IF o.cursor = Owed THEN samples ELSE pass.fixes, o.revision, pass.ts)
      BY <2>1 DEF DecideEffect
    <3>2. f.ts \in Nat /\ IsEvidence({}, {f}, o.revision, pass.ts)
      BY <1>1, <1>2, <2>1, EvidenceFades DEF Samples
    <3>3. o.cursor # Owed /\ f \notin pass.fixes
      BY <2>1, <3>1, <3>2, FixAmong
    <3>4. cache[o.report].cursor = o.cursor
      BY <1>2, <2>1 DEF ListedInv, HeldInv
    <3>5. o.cursor \in Nat /\ o.revision # 0
      BY <1>2, ListedTyped
    <3>6. cache[o.report] # NotCached
      BY <1>1, <1>2, <2>1, <3>5, CachedTyped
    <3>7. f.ts >= o.cursor - Late
      BY <1>2, <2>1, <3>3, <3>4, <3>6 DEF SteadyInv, CursorInv
    <3>8. f.ts >= Since(o.cursor, pass.ts)
      BY <1>1, <1>2, <3>2, <3>5, <3>7 DEF Since
    <3>9. QED BY <1>1, <2>1, <3>3, <3>8 DEF SteadyInv, ReadInv
  <2>2. QED BY <1>1, <2>1 DEF DecidedInv
<1>6. QED BY <1>3, <1>4, <1>5 DEF SteadyInv

LEMMA InsertKeepsSteady ==
  ASSUME MatchAssumption, ListedInv, SteadyInv, InsertEffect
  PROVE  SteadyInv'
<1>1. PICK r : r = pass.report.report
  OBVIOUS
<1>2. /\ pass \in PassStates /\ pass.at = "insert" /\ pass' \in PassStates
      /\ pass'.at \in {"cursor", "match"} /\ pass'.ts = pass.ts /\ pass'.open = pass.open
      /\ pass'.fixes = pass.fixes /\ pass'.report = pass.report
      /\ matches' \in Remembered /\ inserted \in [Reports -> Nat] /\ matches'[r] # 0
      /\ \A x \in Reports : x # r => matches'[x] = matches[x] /\ inserted'[x] = inserted[x]
      /\ matches[r] = 0 => inserted'[r] = inserted[r] + 1
      /\ matches[r] # 0 => matches'[r] = matches[r] /\ inserted'[r] = inserted[r]
      /\ UNCHANGED <<now, cache, ended, taken, samples, stays, known, scenario>>
      /\ Expires \in Nat
  BY <1>1 DEF InsertEffect, ListedInv, TypeOK, MatchAssumption
<1>3. /\ r \in Reports /\ pass.report \in ToDo /\ pass # Idle /\ pass' # Idle /\ pass.ts \in Nat
  BY <1>1, <1>2, PassShapes, ListedTyped DEF HasReport, ToDo, Idle
<1>4. ToDo' \subseteq ToDo
  BY <1>2 DEF ToDo, HasRows, HasOpen, HasReport
<1>5. ~Over(r)
  BY <1>1, <1>2, <1>3 DEF Over, ListedInv, LiveInv
<1>6. OnceInv'
  <2>1. inserted'[r] <= 1
    <3>1. CASE matches[r] = 0
      <4>1. inserted[r] # 1 /\ inserted[r] <= 1 /\ inserted[r] \in Nat
        BY <1>2, <1>3, <1>5, <3>1 DEF SteadyInv, OnceInv
      <4>2. QED BY <1>2, <3>1, <4>1
    <3>2. CASE matches[r] # 0
      BY <1>2, <1>3, <3>2 DEF SteadyInv, OnceInv
    <3>3. QED BY <3>1, <3>2
  <2>2. ASSUME NEW x \in Reports, x # r
        PROVE  inserted'[x] <= 1 /\ (inserted'[x] = 1 /\ matches'[x] = 0 => Over(x)')
    <3>1. Over(x) => Over(x)'
      BY <1>2, <1>3, <1>4 DEF Over
    <3>2. QED BY <1>2, <2>2, <3>1 DEF SteadyInv, OnceInv
  <2>3. QED BY <1>2, <2>1, <2>2 DEF OnceInv
<1>7. ClockInv' /\ ReadInv'
  BY <1>2, <1>3 DEF SteadyInv, ClockInv, ReadInv
<1>8. DecidedInv'
  BY <1>1, <1>2 DEF DecidedInv
<1>9. CursorInv'
  <2>1. \A x \in Reports : matches'[x] = 0 => matches[x] = 0
    BY <1>2
  <2>2. QED BY <1>2, <2>1 DEF SteadyInv, CursorInv
<1>10. QED BY <1>6, <1>7, <1>8, <1>9 DEF SteadyInv

LEMMA SetKeepsSteady ==
  ASSUME MatchAssumption, ListedInv, SteadyInv, SetEffect
  PROVE  SteadyInv'
<1>1. PICK r : r = pass.report.report
  OBVIOUS
<1>2. PICK revision : revision = pass.report.revision
  OBVIOUS
<1>3. /\ pass \in PassStates /\ pass.at = "cursor" /\ pass' \in PassStates /\ pass'.at = "match"
      /\ pass'.ts = pass.ts /\ pass'.open = pass.open /\ pass'.fixes = pass.fixes
      /\ cache' = SetLastMatchedAt(r, revision, pass.ts)
      /\ UNCHANGED <<now, ended, taken, samples, stays, matches, inserted, known, scenario>>
      /\ now \in Nat /\ samples \in SUBSET Samples /\ cache \in [Reports -> Cached] /\ Late \in Nat
  BY <1>1, <1>2 DEF SetEffect, ListedInv, TypeOK, Cached, MatchAssumption
<1>4. /\ r \in Reports /\ pass # Idle /\ pass' # Idle /\ pass.ts \in Nat /\ pass.ts <= now
  BY <1>1, <1>3, PassShapes, ListedTyped DEF HasReport, Idle, SteadyInv, ClockInv
<1>5. ToDo' \subseteq ToDo
  BY <1>3 DEF ToDo, HasRows, HasOpen, HasReport
<1>6. \A x \in Reports :
        /\ cache'[x].revision = cache[x].revision
        /\ \/ cache'[x] = cache[x]
           \/ x = r /\ cache[r].revision = revision /\ cache'[x].cursor = pass.ts
  BY <1>3, <1>4, CursorSet
<1>7. OnceInv'
  BY <1>3, <1>4, <1>5, OnceKept DEF SteadyInv, ListedInv
<1>8. ClockInv' /\ ReadInv' /\ DecidedInv'
  BY <1>3, <1>4, <1>6 DEF SteadyInv, ClockInv, ReadInv, DecidedInv
<1>9. CursorInv'
  <2>1. ASSUME cache[r].revision = revision, matches[r] = 0, NEW f \in samples, ~f.late,
               IsEvidence({}, {f}, cache[r].revision, now)
        PROVE  f.ts >= pass.ts - Late
    <3>1. ~(f.ts < pass.ts - Late)
      BY <1>1, <1>2, <1>3, <2>1 DEF SteadyInv, DecidedInv
    <3>2. f.ts \in Nat
      BY <1>3 DEF Samples
    <3>3. QED BY <1>3, <1>4, <3>1, <3>2
  <2>2. ASSUME NEW x \in Reports, cache'[x] # NotCached, cache'[x].cursor # Owed, matches[x] = 0,
               NEW f \in samples, ~f.late, IsEvidence({}, {f}, cache'[x].revision, now)
        PROVE  f.ts >= cache'[x].cursor - Late
    <3>1. CASE cache'[x] = cache[x]
      BY <2>2, <3>1 DEF SteadyInv, CursorInv
    <3>2. CASE x = r /\ cache[r].revision = revision /\ cache'[x].cursor = pass.ts
      BY <1>6, <2>1, <2>2, <3>2
    <3>3. QED BY <1>6, <3>1, <3>2
  <2>3. QED BY <1>3, <2>2 DEF CursorInv
<1>10. QED BY <1>7, <1>8, <1>9 DEF SteadyInv

LEMMA SteadyStep ==
  ASSUME MatchAssumption, ListedInv, SteadyInv, ClockLeftAlone, [Next]_vars
  PROVE  SteadyInv'
<1>1. CASE UNCHANGED vars
  BY <1>1 DEF SteadyInv, OnceInv, Over, ClockInv, ReadInv, DecidedInv, CursorInv, ToDo, vars, history
<1>2. CASE Next
  <2>1. StepEffect /\ ListedInv'
    BY <1>2, StepTaken, ListedStep DEF ListedInv
  <2>2. ASSUME NEW r \in Reports, NEW revision \in Revisions, FetchEffect(r, revision)
        PROVE  SteadyInv'
    BY <2>2, FetchKeepsSteady
  <2>3. ASSUME NEW r \in Reports, Ends(r)
        PROVE  SteadyInv'
    BY <2>3, EndKeepsSteady
  <2>4. CASE HistoryEffect
    BY <2>4, HistoryKeepsSteady
  <2>5. CASE StartEffect
    BY <2>5, StartKeepsSteady
  <2>6. CASE List
    BY <2>1, <2>6, ListKeepsSteady
  <2>7. CASE ReadMatches \/ Scanned \/ ReadStays \/ ReadFixes \/ PassEnds \/ PassStops
    BY <2>1, <2>7, ReadsKeepSteady
  <2>8. ASSUME NEW row \in pass.rows, ScanEffect(row)
        PROVE  SteadyInv'
    BY <2>8, ScanKeepsSteady
  <2>9. ASSUME NEW o \in pass.open, DecideEffect(o)
        PROVE  SteadyInv'
    BY <2>9, DecideKeepsSteady
  <2>10. CASE InsertEffect
    BY <2>10, InsertKeepsSteady
  <2>11. CASE SetEffect
    BY <2>11, SetKeepsSteady
  <2>12. QED
    BY <2>1, <2>2, <2>3, <2>4, <2>5, <2>6, <2>7, <2>8, <2>9, <2>10, <2>11 DEF StepEffect
<1>3. QED BY <1>1, <1>2

LEMMA SteadyInit ==
  ASSUME MatchAssumption, Init
  PROVE  SteadyInv
<1>1. NotCached.cursor = 0 /\ \A r \in Reports : cache[r] = NotCached /\ inserted[r] = 0
  BY DEF Init, NotCached
<1>2. pass = Idle /\ pass.at = "idle" /\ now = 1
  BY DEF Init, Idle
<1>3. QED BY <1>1, <1>2 DEF SteadyInv, OnceInv, ClockInv, ReadInv, DecidedInv, CursorInv

MatchInv == ListedInv /\ (Never("jumps") => SteadyInv)

LEMMA MatchInvHolds == ASSUME MatchAssumption PROVE Spec => []MatchInv
<1>1. Init => MatchInv
  BY ListedInit, SteadyInit DEF MatchInv
<1>2. MatchInv /\ [Next]_vars => MatchInv'
  <2>1. SUFFICES ASSUME MatchInv, [Next]_vars PROVE MatchInv'
    OBVIOUS
  <2>2. ListedInv'
    BY <2>1, ListedStep DEF MatchInv
  <2>3. CASE UNCHANGED vars
    <3>1. Never("jumps")' <=> Never("jumps")
      BY <2>3 DEF Never, vars
    <3>2. SteadyInv => SteadyInv'
      BY <2>3 DEF SteadyInv, OnceInv, Over, ClockInv, ReadInv, DecidedInv, CursorInv, ToDo, vars, history
    <3>3. QED BY <2>1, <2>2, <3>1, <3>2 DEF MatchInv
  <2>4. CASE Next
    <3>1. Never("jumps")' => Never("jumps") /\ ClockLeftAlone
      BY <2>1, <2>4, ScenarioStep DEF MatchInv, ListedInv, TypeOK, ScenarioTypeOK
    <3>2. Never("jumps")' => SteadyInv'
      BY <2>1, <3>1, SteadyStep DEF MatchInv
    <3>3. QED BY <2>2, <3>2 DEF MatchInv
  <2>5. QED BY <2>1, <2>3, <2>4
<1>3. QED BY <1>1, <1>2, PTL DEF Spec

\* A report is matched, and so notified, once: nothing the fetcher, the purge, a second
\* pass or a failed one does makes a second row, while the clock is left alone.
THEOREM MatchedOnce == ASSUME MatchAssumption PROVE Spec => []AtMostOneMatch
<1>1. MatchInv => AtMostOneMatch
  BY DEF MatchInv, SteadyInv, OnceInv, AtMostOneMatch, NotifiedOnce
<1>2. QED BY <1>1, MatchInvHolds, PTL

\* The cursor of an unmatched report never passes a fix that is evidence for it and was
\* stored in time, whatever the passes it was moved by had read.
THEOREM CursorStaysBehind == ASSUME MatchAssumption PROVE Spec => []NoFixLeftBehind
<1>1. MatchInv => NoFixLeftBehind
  BY NothingBehind DEF MatchInv, ListedInv
<1>2. QED BY <1>1, MatchInvHolds, PTL
=============================================================================
