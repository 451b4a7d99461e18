-------------------------- MODULE SubmissionProofs --------------------------
(* Proofs about the submission of a report, for every number of passes and   *)
(* reports and every scenario: what is filed, what the phone takes for an    *)
(* answer, and what the screen says of it.                                   *)
EXTENDS SubmitScreen, ReportForm, SequenceTheorems, FiniteSetTheorems, WellFoundedInduction, TLAPS

-----------------------------------------------------------------------------
(* The least of numbers. *)

\* A nonempty set of naturals has a least element: of the sets of elements below one, finite
\* all, one is minimal by inclusion.
LEMMA HasLeast ==
  ASSUME NEW S \in SUBSET Nat, S # {}
  PROVE  \E x \in S : \A y \in S : x <= y
<1> DEFINE Below(x) == {y \in S : y < x}
           T == {Below(x) : x \in S}
<1>1. T \subseteq FiniteSubsetsOf(S) /\ T # {}
  <2>1. ASSUME NEW x \in S PROVE IsFiniteSet(Below(x))
    <3>1. IsFiniteSet(0 .. x)
      BY FS_Interval
    <3>2. \A y \in S : y < x => y \in 0 .. x
      OBVIOUS
    <3>3. Below(x) \subseteq 0 .. x
      BY <3>2, Zenon
    <3>4. QED BY <3>1, <3>3, FS_Subset
  <2>2. \A x \in S : Below(x) \in FiniteSubsetsOf(S)
    BY <2>1 DEF FiniteSubsetsOf
  <2>3. QED BY <2>2
<1>2. IsWellFoundedOn(StrictSubsetOrdering(S), FiniteSubsetsOf(S))
  BY FS_StrictSubsetOrderingWellFounded
<1>3. PICK U \in T : \A V \in T : <<V, U>> \notin StrictSubsetOrdering(S)
  <2> HIDE DEF T
  <2>1. QED BY <1>1, <1>2, WFMin
<1>4. PICK x \in S : U = Below(x)
  OBVIOUS
<1>5. ASSUME NEW y \in S, y < x PROVE FALSE
  <2>1. /\ \A z \in S : z < y => z < x
        /\ ~ (y < y)
    BY <1>5
  <2>2. PICK V \in T : V = Below(y)
    OBVIOUS
  <2>3. y \in U /\ y \notin V
    BY <1>4, <1>5, <2>1, <2>2, Zenon
  <2>4. V \subseteq U /\ U \subseteq S
    BY <1>4, <2>1, <2>2, Zenon
  <2>5. <<V, U>> \in StrictSubsetOrdering(S)
    BY <2>3, <2>4 DEF StrictSubsetOrdering
  <2>6. QED BY <1>3, <2>5
<1>6. QED BY <1>5

----------------------------------------------------------------------------
(* What a step of the screens does to the queue and the server: one of the   *)
(* actions of ReportSubmission, or nothing.                                  *)

PassStep(p) ==
  \/ PassStarts(p) \/ ListDue(p) \/ PassEnds(p) \/ MarkSending(p) \/ GiveUp(p)
  \/ ReadIdentity(p) \/ MintIdentity(p) \/ RecordAnswer(p) \/ StoreFails(p)

PhoneStep ==
  \/ Confirm \/ \E p \in Passes : PassStep(p)
  \/ \E i \in DOMAIN own : BecomesDue(i)
  \/ \E key \in Keys : Ages(key)

NetworkStep == AppDies \/ (\E p \in Passes : Abandon(p)) \/ \E m \in wire : Lost(m)

ServesStep ==
  InsertPending \/ FinishIdempotency \/ InsertFails \/ ServerDies \/ \E m \in wire : Receive(m)

Step == PhoneStep \/ NetworkStep \/ ServesStep \/ DeleteAll \/ UNCHANGED vars

LEMMA StepOfScreen == [Next]_screenVars => Step
<1>1. CASE Next
  <2>1. CASE Opens \/ Leaves \/ SaveFails
    BY <2>1 DEF Opens, Leaves, SaveFails, Step
  <2>2. CASE Press \/ Enqueued
    BY <2>2 DEF Press, Enqueued, Step, PhoneStep
  <2>3. CASE PhoneDies
    BY <2>3 DEF PhoneDies, Step, NetworkStep
  <2>4. ASSUME NEW p \in Passes, ScreenPass(p) \/ WakePass(p) \/ PassGoesOn(p) \/ Throws(p)
        PROVE  PassStep(p)
    BY <2>4 DEF ScreenPass, WakePass, PassGoesOn, Throws, GivesUp, Records, Ends, PassStep
  <2>5. CASE \/ \E p \in Passes : Abandon(p)
             \/ \E i \in DOMAIN own : BecomesDue(i)
             \/ \E key \in Keys : Ages(key)
             \/ ServerStep \/ InsertFails \/ ServerDies
             \/ \E m \in wire : Lost(m)
             \/ DeleteAll
    BY <2>5 DEF Step, PhoneStep, NetworkStep, ServesStep, ServerStep
  <2>6. QED BY <1>1, <2>1, <2>2, <2>3, <2>4, <2>5 DEF Next, Step, PhoneStep
<1>2. CASE UNCHANGED screenVars
  BY <1>2 DEF screenVars, Step
<1>3. QED BY <1>1, <1>2

----------------------------------------------------------------------------
(* The scenario and the bounds of its events.                                *)

ScenarioTypeOK ==
  scenario \in [passes : SUBSET Passes, screens : SUBSET Passes, refused : SUBSET Keys,
                keysAge : BOOLEAN, startsWithId : BOOLEAN, budget : [Events -> Nat],
                left : [Events -> Nat]]

\* The scenario stays; only its events are spent.
SameScenario ==
  /\ scenario'.passes = scenario.passes /\ scenario'.refused = scenario.refused
  /\ scenario'.startsWithId = scenario.startsWithId /\ scenario'.budget = scenario.budget
  /\ scenario'.screens = scenario.screens

LeftInv == scenario.left["deletes"] <= scenario.budget["deletes"]

LEMMA SpendTyped ==
  ASSUME ScenarioTypeOK, NEW event \in Events, Spend(event)
  PROVE  /\ ScenarioTypeOK' /\ SameScenario
         /\ scenario'.left["deletes"] =
              scenario.left["deletes"] - (IF event = "deletes" THEN 1 ELSE 0)
<1>1. scenario'.left = [scenario.left EXCEPT ![event] = @ - 1]
      /\ scenario.left[event] > 0 /\ scenario.left \in [Events -> Nat]
  BY DEF Spend, ScenarioTypeOK
<1>2. scenario'.left \in [Events -> Nat]
  BY <1>1
<1>3. scenario' = [scenario EXCEPT !.left = scenario'.left]
  BY DEF Spend, ScenarioTypeOK
<1>4. ScenarioTypeOK' /\ SameScenario
  BY <1>2, <1>3 DEF ScenarioTypeOK, SameScenario
<1>5. QED BY <1>1, <1>4 DEF Events

LEMMA ScenarioStep ==
  ASSUME ScenarioTypeOK, LeftInv, Step
  PROVE  /\ ScenarioTypeOK' /\ SameScenario /\ LeftInv'
         /\ ~DeleteAll => (Never("deletes")' <=> Never("deletes"))
         /\ DeleteAll => ~Never("deletes")'
<1>1. CASE scenario' = scenario /\ ~DeleteAll
  BY <1>1 DEF ScenarioTypeOK, SameScenario, LeftInv, Never
<1>2. ASSUME NEW event \in Events \ {"deletes"}, Spend(event), ~DeleteAll
      PROVE  /\ ScenarioTypeOK' /\ SameScenario /\ LeftInv'
             /\ Never("deletes")' <=> Never("deletes")
  <2>1. /\ ScenarioTypeOK' /\ SameScenario
        /\ scenario'.left["deletes"] = scenario.left["deletes"] - 0
    BY <1>2, SpendTyped
  <2>2. scenario.left["deletes"] \in Nat
    BY DEF ScenarioTypeOK, Events
  <2>3. QED BY <2>1, <2>2 DEF SameScenario, LeftInv, Never
<1>3. CASE DeleteAll
  <2>1. Spend("deletes")
    BY <1>3 DEF DeleteAll
  <2>2. /\ ScenarioTypeOK' /\ SameScenario
        /\ scenario'.left["deletes"] = scenario.left["deletes"] - 1
    BY <2>1, SpendTyped DEF Events
  <2>3. scenario.left["deletes"] \in Nat /\ scenario.budget["deletes"] \in Nat
    BY DEF ScenarioTypeOK, Events
  <2>4. scenario'.left["deletes"] < scenario.left["deletes"]
    BY <2>2, <2>3
  <2>5. LeftInv'
    BY <2>2, <2>3, <2>4 DEF SameScenario, LeftInv, ScenarioTypeOK
  <2>6. ~Never("deletes")'
    BY <2>2, <2>3, <2>4 DEF SameScenario, LeftInv, Never, ScenarioTypeOK
  <2>7. QED BY <1>3, <2>2, <2>5, <2>6
<1>4. ~DeleteAll => scenario' = scenario \/ \E event \in Events \ {"deletes"} : Spend(event)
  BY DEF Step, PhoneStep, NetworkStep, ServesStep, PassStep, Confirm, QueuedRow, PassStarts, ListDue, PassEnds,
    MarkSending, GiveUp, ReadIdentity, MintIdentity, RecordAnswer, StoreFails, BecomesDue, Ages,
    AppDies, Abandon, Lost, Receive, InsertPending, FinishIdempotency, InsertFails, ServerDies, vars,
    Events
<1>5. QED BY <1>1, <1>2, <1>3, <1>4

----------------------------------------------------------------------------
(* The rows of the queue.                                                    *)

LEMMA RowsMapped ==
  ASSUME NEW S, NEW s \in Seq(S), NEW f, DOMAIN f = DOMAIN s,
         f = [i \in DOMAIN f |-> f[i]], \A i \in DOMAIN s : f[i] \in S
  PROVE  f \in Seq(S)
<1>1. Len(s) \in Nat /\ DOMAIN s = 1..Len(s)
  OBVIOUS
<1>2. f \in [1..Len(s) -> S]
  BY <1>1
<1>3. QED BY <1>1, <1>2, SeqDef

LEMMA RequeuedRows ==
  ASSUME own \in Seq(Rows), own' = Requeued
  PROVE  /\ own' \in Seq(Rows) /\ DOMAIN own' = DOMAIN own
         /\ \A i \in DOMAIN own : \/ own'[i] = own[i]
                                  \/ own'[i].key = own[i].key /\ own'[i].state = "queued"
<1>1. \A i \in DOMAIN own : own[i] \in Rows
  BY ElementOfSeq
<1>2. DOMAIN own' = DOMAIN own /\ own' = [i \in DOMAIN own' |-> own'[i]]
  BY Zenon DEF Requeued
<1>3. \A i \in DOMAIN own :
        own'[i] = IF own[i].state = "sending"
                    THEN [own[i] EXCEPT !.state = "queued", !.due = TRUE] ELSE own[i]
  BY Zenon DEF Requeued
<1>4. \A i \in DOMAIN own : own'[i] \in Rows
  BY <1>1, <1>3, Zenon DEF Rows
<1>5. own' \in Seq(Rows)
  BY <1>2, <1>4, RowsMapped
<1>6. \A i \in DOMAIN own : \/ own'[i] = own[i]
                            \/ own'[i].key = own[i].key /\ own'[i].state = "queued"
  BY <1>1, <1>3, Zenon DEF Rows
<1>7. QED BY <1>2, <1>5, <1>6

LEMMA RowSet ==
  ASSUME own \in Seq(Rows), NEW id \in DOMAIN own, NEW row \in Rows, own' = [own EXCEPT ![id] = row]
  PROVE  /\ own' \in Seq(Rows) /\ DOMAIN own' = DOMAIN own /\ own'[id] = row
         /\ \A i \in DOMAIN own : i # id => own'[i] = own[i]
BY ExceptSeq

----------------------------------------------------------------------------
(* Where a pass may be.                                                      *)

LEMMA PassShapes ==
  ASSUME NEW q \in PassStates
  PROVE  /\ q.at \in {"idle", "list", "take", "check", "mint", "await", "answered"}
         /\ q = Idle <=> q.at = "idle"
         /\ q.at \notin {"idle", "list"} => q.rows \subseteq Taken
         /\ q.at \in {"check", "mint", "await", "answered"} => q.row \in Taken
         /\ q.at = "answered" => q.answer \in Answers
BY DEF PassStates, Idle

LEMMA PassBuilt ==
  ASSUME NEW rows \in SUBSET Taken, NEW row \in Taken, NEW answer \in Answers
  PROVE  /\ Idle \in PassStates /\ [at |-> "list"] \in PassStates
         /\ [at |-> "take", rows |-> rows] \in PassStates
         /\ \A at \in {"check", "mint", "await"} :
              [at |-> at, rows |-> rows, row |-> row] \in PassStates
         /\ [at |-> "answered", rows |-> rows, row |-> row, answer |-> answer] \in PassStates
BY DEF PassStates, Idle

LEMMA PassMoved ==
  ASSUME NEW q \in PassStates, q.at \in {"check", "mint"}, NEW at \in {"mint", "await"}
  PROVE  /\ [q EXCEPT !.at = at] \in PassStates /\ [q EXCEPT !.at = at].at = at
         /\ [q EXCEPT !.at = at].row = q.row /\ [q EXCEPT !.at = at].rows = q.rows
BY DEF PassStates

LEMMA PassSet ==
  ASSUME passes \in [Passes -> PassStates], NEW p \in Passes, NEW q \in PassStates,
         passes' = [passes EXCEPT ![p] = q]
  PROVE  /\ passes' \in [Passes -> PassStates] /\ passes'[p] = q
         /\ \A other \in Passes : other # p => passes'[other] = passes[other]
OBVIOUS

----------------------------------------------------------------------------
(* What a step of a pass does, in the words of the invariants.               *)

IsRow(row) == row.id \in DOMAIN own /\ own[row.id].key = row.key

HasRows(q) == q.at \notin {"idle", "list"}
HasRow(q) == q.at \in {"check", "mint", "await", "answered"}

\* It sends at most one request, under the id the phone has or is given now.
SendEffect(p) ==
  \/ /\ passes'[p].at # "await" /\ UNCHANGED <<wire, deviceId, identities>>
  \/ /\ passes'[p].at = "await" /\ HasRow(passes[p]) /\ passes'[p].row = passes[p].row
     /\ deviceId' \in Devices
     /\ wire' = wire \cup {[key |-> passes[p].row.key, device |-> deviceId', by |-> p]}
     /\ \/ UNCHANGED <<deviceId, identities>>
        \/ /\ passes[p].at = "mint"
           /\ identities' = identities + 1 /\ deviceId' = identities'

\* It goes on with rows it had, or with rows of the table.
RowsEffect(p) ==
  /\ HasRows(passes'[p]) =>
       \A row \in passes'[p].rows : IsRow(row) \/ (HasRows(passes[p]) /\ row \in passes[p].rows)
  /\ HasRow(passes'[p]) =>
       \/ HasRow(passes[p]) /\ passes'[p].row = passes[p].row
       \/ HasRows(passes[p]) /\ passes'[p].row \in passes[p].rows

\* It settles only the row it holds, by the answer it got or for the age of the key.
OutcomeEffect(p) ==
  \A i \in DOMAIN own :
    /\ own'[i].key = own[i].key
    /\ own'[i].state = "active" =>
         \/ own'[i] = own[i]
         \/ /\ passes[p].at = "answered" /\ passes[p].answer.kind = "ok" /\ i = passes[p].row.id
            /\ own'[i].report = passes[p].answer.report
    /\ own'[i].state = "failed" =>
         \/ own'[i] = own[i]
         \/ /\ HasRow(passes[p]) /\ i = passes[p].row.id
            /\ \/ passes[p].row.key \in aged
               \/ passes[p].at = "answered" /\ passes[p].answer.kind = "rejected"

PassEffect(p) ==
  /\ passes' = [passes EXCEPT ![p] = passes'[p]] /\ passes'[p] \in PassStates
  /\ passes[p].at # "await" /\ (passes[p].at # "idle" \/ p \in scenario.passes)
  /\ passes'[p].at # "answered" /\ (passes'[p].at = "mint" => deviceId = 0)
  /\ own' \in Seq(Rows) /\ DOMAIN own' = DOMAIN own
  /\ UNCHANGED <<confirmed, aged, serverVars>>
  /\ SendEffect(p) /\ RowsEffect(p) /\ OutcomeEffect(p)

\* A step that leaves the rows alone.
LEMMA RowsSame ==
  ASSUME own' = own, NEW p
  PROVE  OutcomeEffect(p)
BY DEF OutcomeEffect

LEMMA PassStepEffect ==
  ASSUME TypeOK, NEW p \in Passes, PassStep(p)
  PROVE  PassEffect(p)
<1> DEFINE q == passes[p]
<1>1. /\ passes \in [Passes -> PassStates] /\ q \in PassStates
      /\ own \in Seq(Rows) /\ deviceId \in Nat /\ identities \in Nat
  BY DEF TypeOK
<1>2. /\ q = Idle <=> q.at = "idle"
      /\ q.at \notin {"idle", "list"} => q.rows \in SUBSET Taken
      /\ q.at \in {"check", "mint", "await", "answered"} => q.row \in Taken
      /\ q.at = "answered" => q.answer \in Answers
  BY <1>1, PassShapes
<1>3. \A r \in PassStates : passes' = [passes EXCEPT ![p] = r] => passes'[p] = r
  BY <1>1
<1>4. CASE PassStarts(p)
  <2>1. passes' = [passes EXCEPT ![p] = [at |-> "list"]] /\ [at |-> "list"] \in PassStates
    BY <1>4 DEF PassStarts, PassStates
  <2>2. passes'[p] = [at |-> "list"]
    BY <1>3, <2>1
  <2>3. /\ own' \in Seq(Rows) /\ DOMAIN own' = DOMAIN own
        /\ \A i \in DOMAIN own : \/ own'[i] = own[i]
                                 \/ own'[i].key = own[i].key /\ own'[i].state = "queued"
    BY <1>1, <1>4, RequeuedRows DEF PassStarts
  <2>4. OutcomeEffect(p)
    BY <2>3 DEF OutcomeEffect
  <2>5. SendEffect(p) /\ RowsEffect(p)
    BY <1>4, <2>2 DEF PassStarts, SendEffect, RowsEffect, HasRows, HasRow
  <2>6. /\ q.at = "idle" /\ p \in scenario.passes /\ passes'[p].at = "list"
        /\ UNCHANGED <<confirmed, aged, serverVars>>
    BY <1>2, <1>4, <2>2 DEF PassStarts
  <2>7. QED
    BY <2>1, <2>2, <2>3, <2>4, <2>5, <2>6 DEF PassEffect
<1>5. CASE ListDue(p)
  <2> DEFINE rows == {[id |-> i, key |-> own[i].key] : i \in {j \in DOMAIN own : own[j].state = "queued" /\ own[j].due}}
  <2>1. \A row \in rows : row \in Taken /\ IsRow(row)
    <3>1. \A i \in DOMAIN own : i \in Nat /\ own[i].key \in Keys
      <4>1. \A i \in DOMAIN own : i \in Nat /\ own[i] \in Rows
        BY <1>1, ElementOfSeq
      <4>2. QED BY <4>1 DEF Rows
    <3>2. QED BY <3>1 DEF Taken, IsRow
  <2>2. /\ q.at = "list" /\ passes' = [passes EXCEPT ![p] = [at |-> "take", rows |-> rows]]
        /\ UNCHANGED <<phoneVars, wire, serverVars>>
    BY <1>5 DEF ListDue
  <2> HIDE DEF rows
  <2>3. [at |-> "take", rows |-> rows] \in PassStates
    BY <2>1 DEF PassStates
  <2>4. passes'[p] = [at |-> "take", rows |-> rows]
    BY <1>3, <2>2, <2>3
  <2>5. SendEffect(p) /\ RowsEffect(p)
    BY <2>1, <2>2, <2>4 DEF SendEffect, RowsEffect, HasRows, HasRow, phoneVars
  <2>6. QED
    BY <1>1, <2>2, <2>3, <2>4, <2>5, RowsSame DEF PassEffect, phoneVars
<1>6. CASE PassEnds(p) \/ StoreFails(p)
  <2>1. /\ q.at # "idle" /\ q.at # "await" /\ passes' = [passes EXCEPT ![p] = Idle]
        /\ UNCHANGED <<phoneVars, wire, serverVars>>
    BY <1>6 DEF PassEnds, StoreFails
  <2>2. Idle \in PassStates /\ Idle.at = "idle"
    BY DEF PassStates, Idle
  <2>3. passes'[p] = Idle
    BY <1>3, <2>1, <2>2
  <2>4. SendEffect(p) /\ RowsEffect(p)
    BY <2>1, <2>2, <2>3 DEF SendEffect, RowsEffect, HasRows, HasRow, phoneVars
  <2>5. QED
    BY <1>1, <2>1, <2>2, <2>3, <2>4, RowsSame DEF PassEffect, phoneVars
<1>7. CASE MarkSending(p)
  <2>1. PICK row, rest : row = Oldest(q.rows) /\ rest = q.rows \ {row}
    OBVIOUS
  <2>2. /\ q.at = "take" /\ q.rows # {} /\ q.rows \in SUBSET Taken
        /\ UNCHANGED <<deviceId, identities, confirmed, aged, wire, serverVars>>
    BY <1>2, <1>7 DEF MarkSending
  <2>3. \/ /\ row.id \in DOMAIN own /\ own' = [own EXCEPT ![row.id].state = "sending"]
           /\ passes' = [passes EXCEPT ![p] = [at |-> "check", rows |-> rest, row |-> row]]
        \/ /\ own' = own
           /\ passes' = [passes EXCEPT ![p] = [at |-> "take", rows |-> rest]]
    BY <1>7, <2>1 DEF MarkSending
  <2>4. row \in q.rows /\ row \in Taken /\ rest \in SUBSET Taken /\ rest \subseteq q.rows
    <3>1. \E r \in q.rows : \A other \in q.rows : r.id <= other.id
      <4>1. PICK some \in q.rows : TRUE
        BY <2>2
      <4>2. {r.id : r \in q.rows} \in SUBSET Nat /\ {r.id : r \in q.rows} # {}
        BY <2>2, <4>1 DEF Taken
      <4>3. PICK least \in {r.id : r \in q.rows} : \A n \in {r.id : r \in q.rows} : least <= n
        BY <4>2, HasLeast
      <4>4. QED BY <4>3
    <3>2. row \in q.rows
      BY <2>1, <3>1 DEF Oldest
    <3>3. QED BY <2>1, <2>2, <3>2
  <2>5. CASE /\ row.id \in DOMAIN own /\ own' = [own EXCEPT ![row.id].state = "sending"]
             /\ passes' = [passes EXCEPT ![p] = [at |-> "check", rows |-> rest, row |-> row]]
    <3>1. [at |-> "check", rows |-> rest, row |-> row] \in PassStates
      BY <2>4 DEF PassStates
    <3>2. passes'[p] = [at |-> "check", rows |-> rest, row |-> row]
      BY <1>3, <2>5, <3>1
    <3>3. [own[row.id] EXCEPT !.state = "sending"] \in Rows
          /\ [own[row.id] EXCEPT !.state = "sending"].key = own[row.id].key
          /\ [own[row.id] EXCEPT !.state = "sending"].state = "sending"
      <4>1. own[row.id] \in Rows
        BY <1>1, <2>5, ElementOfSeq
      <4>2. QED BY <4>1 DEF Rows
    <3>4. own' = [own EXCEPT ![row.id] = [own[row.id] EXCEPT !.state = "sending"]]
      BY <2>5
    <3>5. /\ own' \in Seq(Rows) /\ DOMAIN own' = DOMAIN own
          /\ own'[row.id] = [own[row.id] EXCEPT !.state = "sending"]
          /\ \A i \in DOMAIN own : i # row.id => own'[i] = own[i]
      BY <1>1, <2>5, <3>3, <3>4, RowSet
    <3>6. OutcomeEffect(p)
      BY <3>3, <3>5 DEF OutcomeEffect
    <3>7. SendEffect(p) /\ RowsEffect(p)
      BY <2>2, <2>4, <3>2 DEF SendEffect, RowsEffect, HasRows, HasRow
    <3>8. passes' = [passes EXCEPT ![p] = passes'[p]] /\ passes'[p].at = "check"
      <4>1. passes' = [passes EXCEPT ![p] = passes'[p]]
        BY <2>5, <3>2, Zenon
      <4>2. passes'[p].at = "check"
        BY <3>2
      <4>3. QED BY <4>1, <4>2
    <3>9. QED
      BY <2>2, <3>1, <3>2, <3>5, <3>6, <3>7, <3>8 DEF PassEffect
  <2>6. CASE own' = own /\ passes' = [passes EXCEPT ![p] = [at |-> "take", rows |-> rest]]
    <3>1. [at |-> "take", rows |-> rest] \in PassStates
      BY <2>4 DEF PassStates
    <3>2. passes'[p] = [at |-> "take", rows |-> rest]
      BY <1>3, <2>6, <3>1
    <3>3. SendEffect(p) /\ RowsEffect(p)
      BY <2>2, <2>4, <3>2 DEF SendEffect, RowsEffect, HasRows, HasRow
    <3>4. QED
      BY <1>1, <2>2, <2>6, <3>1, <3>2, <3>3, RowsSame DEF PassEffect
  <2>7. QED BY <2>3, <2>5, <2>6
<1>8. CASE GiveUp(p) \/ RecordAnswer(p)
  <2>1. /\ q.at \in {"check", "answered"} /\ q.rows \in SUBSET Taken /\ q.row \in Taken
        /\ passes' = [passes EXCEPT ![p] = [at |-> "take", rows |-> q.rows]]
        /\ UNCHANGED <<deviceId, identities, confirmed, aged, wire, serverVars>>
    BY <1>2, <1>8 DEF GiveUp, RecordAnswer, Continue
  <2>2. [at |-> "take", rows |-> q.rows] \in PassStates
    BY <2>1 DEF PassStates
  <2>3. passes'[p] = [at |-> "take", rows |-> q.rows]
    BY <1>3, <2>1, <2>2
  <2>4. SendEffect(p) /\ RowsEffect(p)
    BY <2>1, <2>3 DEF SendEffect, RowsEffect, HasRows, HasRow
  <2>5. PICK state \in {"queued", "active", "failed"}, query \in Nat :
          /\ Settle(q.row.id, state, query, FALSE)
          /\ state = "active" => q.at = "answered" /\ q.answer.kind = "ok" /\ query = q.answer.report
          /\ state = "failed" => \/ q.row.key \in aged
                                 \/ q.at = "answered" /\ q.answer.kind = "rejected"
    <3>1. CASE GiveUp(p)
      BY <3>1 DEF GiveUp, TooOld
    <3>2. CASE RecordAnswer(p)
      <4>1. q.at = "answered" /\ q.answer.report \in Nat
        BY <1>2, <3>2 DEF RecordAnswer, Answers
      <4>2. QED BY <3>2, <4>1 DEF RecordAnswer, Acknowledged
    <3>3. QED BY <1>8, <3>1, <3>2
  <2>6. /\ own' \in Seq(Rows) /\ DOMAIN own' = DOMAIN own
        /\ \A i \in DOMAIN own : \/ own'[i] = own[i]
                                 \/ /\ i = q.row.id /\ own[i].state = "sending"
                                    /\ own'[i].key = own[i].key /\ own'[i].state = state
                                    /\ own'[i].report = query
    <3>1. PICK id : id = q.row.id
      OBVIOUS
    <3>2. CASE ~StillSending(id)
      <4>1. own' = own
        BY <2>5, <3>1, <3>2 DEF Settle
      <4>2. QED BY <1>1, <4>1
    <3>3. CASE StillSending(id)
      <4>1. id \in DOMAIN own /\ own[id] \in Rows /\ own[id].state = "sending"
        BY <1>1, <3>3, ElementOfSeq DEF StillSending
      <4>2. PICK row : row = [key |-> own[id].key, state |-> state, due |-> FALSE, report |-> query]
        OBVIOUS
      <4>3. row \in Rows /\ row.key = own[id].key /\ row.state = state /\ row.report = query
        BY <2>5, <4>1, <4>2 DEF Rows
      <4>4. own' = [own EXCEPT ![id] = row]
        BY <2>5, <3>1, <3>3, <4>2 DEF Settle
      <4>5. /\ own' \in Seq(Rows) /\ DOMAIN own' = DOMAIN own /\ own'[id] = row
            /\ \A i \in DOMAIN own : i # id => own'[i] = own[i]
        BY <1>1, <4>1, <4>3, <4>4, RowSet
      <4>6. QED BY <3>1, <4>1, <4>3, <4>5
    <3>4. QED BY <3>2, <3>3
  <2>7. OutcomeEffect(p)
    BY <2>1, <2>5, <2>6 DEF OutcomeEffect, HasRow
  <2>8. passes' = [passes EXCEPT ![p] = passes'[p]] /\ passes'[p].at = "take"
    <3>1. passes' = [passes EXCEPT ![p] = passes'[p]]
      BY <2>1, <2>3, Zenon
    <3>2. passes'[p].at = "take"
      BY <2>3
    <3>3. QED BY <3>1, <3>2
  <2>9. QED
    BY <2>1, <2>2, <2>3, <2>4, <2>6, <2>7, <2>8 DEF PassEffect
<1>9. CASE ReadIdentity(p) \/ MintIdentity(p)
  <2>1. /\ q.at \in {"check", "mint"} /\ q.row \in Taken
        /\ UNCHANGED <<own, confirmed, aged, serverVars>>
    BY <1>2, <1>9 DEF ReadIdentity, MintIdentity, phoneVars
  <2>2. PICK at \in {"mint", "await"} :
          /\ passes' = [passes EXCEPT ![p] = [q EXCEPT !.at = at]]
          /\ at = "mint" => deviceId = 0 /\ UNCHANGED <<wire, deviceId, identities>>
          /\ at = "await" =>
               /\ wire' = wire \cup {[key |-> q.row.key, device |-> deviceId', by |-> p]}
               /\ \/ deviceId # 0 /\ UNCHANGED <<deviceId, identities>>
                  \/ q.at = "mint" /\ identities' = identities + 1 /\ deviceId' = identities'
    BY <1>9 DEF ReadIdentity, MintIdentity, Send, phoneVars
  <2>3. /\ [q EXCEPT !.at = at] \in PassStates /\ [q EXCEPT !.at = at].at = at
        /\ [q EXCEPT !.at = at].row = q.row /\ [q EXCEPT !.at = at].rows = q.rows
    BY <1>1, <2>1, PassMoved
  <2>4. passes'[p] = [q EXCEPT !.at = at]
    BY <1>3, <2>2, <2>3
  <2>5. at = "await" => deviceId' \in Devices
    BY <1>1, <2>2 DEF Devices
  <2>6. SendEffect(p)
    BY <2>1, <2>2, <2>3, <2>4, <2>5 DEF SendEffect, HasRow
  <2>7. RowsEffect(p)
    BY <2>1, <2>3, <2>4 DEF RowsEffect, HasRows, HasRow
  <2>8. QED
    BY <1>1, <2>1, <2>2, <2>3, <2>4, <2>6, <2>7, RowsSame DEF PassEffect
<1>10. QED BY <1>4, <1>5, <1>6, <1>7, <1>8, <1>9 DEF PassStep

----------------------------------------------------------------------------
(* A request is awaited by one pass, which holds the row it is about, or by  *)
(* nobody; no pass awaits two.                                               *)

AwaitedBy(m) == m.by # Nobody => passes[m.by].at = "await" /\ passes[m.by].row.key = m.key

WireInv ==
  /\ \A m \in wire : AwaitedBy(m)
  /\ \A m, n \in wire : m.by = n.by => m.by = Nobody \/ m = n
  /\ serving # NoRequest =>
       AwaitedBy(serving) /\ \A m \in wire : m.by = serving.by => m.by = Nobody

TypeAndWire == TypeOK /\ LeftInv /\ WireInv

LEMMA RequestsTyped ==
  ASSUME TypeOK
  PROVE  /\ \A m \in wire : /\ m \in Requests /\ m.key \in Keys /\ m.device \in Devices
                            /\ m.by # Nobody => m.by \in Passes
         /\ serving # NoRequest => /\ serving \in Served /\ serving.key \in Keys
                                   /\ serving.device \in Devices /\ serving.report \in Nat
                                   /\ serving.by # Nobody => serving.by \in Passes
<1>1. wire \subseteq Requests /\ serving \in {NoRequest} \cup Served
  BY DEF TypeOK
<1>2. \A m \in Requests : /\ m.key \in Keys /\ m.device \in Devices
                          /\ m.by # Nobody => m.by \in Passes
  BY DEF Requests
<1>3. \A m \in Served : /\ m.key \in Keys /\ m.device \in Devices /\ m.report \in Nat
                        /\ m.by # Nobody => m.by \in Passes
  BY DEF Served
<1>4. QED BY <1>1, <1>2, <1>3

\* A pass that awaited nothing moves on.
LEMMA PassKeepsWire ==
  ASSUME SubmissionAssumption, TypeOK, WireInv, NEW p \in Passes, PassEffect(p), ScenarioTypeOK'
  PROVE  TypeOK' /\ WireInv'
<1>1. /\ passes' = [passes EXCEPT ![p] = passes'[p]] /\ passes'[p] \in PassStates
      /\ passes[p].at # "await" /\ own' \in Seq(Rows)
      /\ UNCHANGED <<confirmed, aged, serving, remembered, reports>>
      /\ SendEffect(p)
  BY DEF PassEffect, serverVars
<1>2. passes \in [Passes -> PassStates] /\ passes[p] \in PassStates /\ p # Nobody
  BY DEF TypeOK, SubmissionAssumption
<1>3. /\ passes' \in [Passes -> PassStates]
      /\ \A other \in Passes : other # p => passes'[other] = passes[other]
  BY <1>1, <1>2, PassSet
<1>4. PICK m : m = [key |-> passes[p].row.key, device |-> deviceId', by |-> p]
  OBVIOUS
<1>5. \/ /\ passes'[p].at # "await" /\ UNCHANGED <<wire, deviceId, identities>>
      \/ /\ passes'[p].at = "await" /\ passes'[p].row = passes[p].row
         /\ passes[p].row \in Taken /\ deviceId' \in Devices
         /\ wire' = wire \cup {m}
         /\ \/ UNCHANGED <<deviceId, identities>>
            \/ identities' = identities + 1 /\ deviceId' = identities'
  BY <1>1, <1>2, <1>4, PassShapes DEF SendEffect, HasRow
<1>6. /\ m.key = passes[p].row.key /\ m.by = p
      /\ passes[p].row \in Taken /\ deviceId' \in Devices => m \in Requests
  BY <1>4 DEF Taken, Requests
<1>7. \A n \in wire : n.by # p
  <2>1. \A n \in wire : n.by # Nobody => passes[n.by].at = "await"
    BY DEF WireInv, AwaitedBy
  <2>2. QED BY <1>1, <1>2, <2>1
<1>8. serving # NoRequest => serving.by # p
  <2>1. serving # NoRequest => (serving.by # Nobody => passes[serving.by].at = "await")
    BY DEF WireInv, AwaitedBy
  <2>2. QED BY <1>1, <1>2, <2>1
<1>9. TypeOK'
  <2>1. wire' \subseteq Requests
    BY <1>5, <1>6 DEF TypeOK
  <2>2. deviceId' \in Nat /\ identities' \in Nat /\ deviceId' <= identities'
    BY <1>5 DEF TypeOK
  <2>3. QED
    BY <1>1, <1>3, <2>1, <2>2 DEF TypeOK, ScenarioTypeOK
<1>10. \A n : AwaitedBy(n) /\ n.by # p /\ (n.by # Nobody => n.by \in Passes) => AwaitedBy(n)'
  BY <1>3 DEF AwaitedBy
<1>11. passes'[p].at = "await" /\ passes'[p].row = passes[p].row => AwaitedBy(m)'
  BY <1>6 DEF AwaitedBy
<1>12. \A n \in wire' : AwaitedBy(n)'
  <2>1. \A n \in wire : AwaitedBy(n) /\ (n.by # Nobody => n.by \in Passes)
    BY RequestsTyped DEF WireInv
  <2>2. QED BY <1>5, <1>7, <1>10, <1>11, <2>1
<1>13. \A n, o \in wire' : n.by = o.by => n.by = Nobody \/ n = o
  BY <1>5, <1>6, <1>7 DEF WireInv
<1>14. serving' # NoRequest =>
         AwaitedBy(serving)' /\ \A n \in wire' : n.by = serving'.by => n.by = Nobody
  <2>1. serving # NoRequest =>
          /\ AwaitedBy(serving) /\ (serving.by # Nobody => serving.by \in Passes)
          /\ \A n \in wire : n.by = serving.by => n.by = Nobody
    BY RequestsTyped DEF WireInv
  <2>2. serving # NoRequest => AwaitedBy(serving)'
    <3>1. serving # NoRequest /\ serving.by # Nobody => passes'[serving.by] = passes[serving.by]
      BY <1>3, <1>8, <2>1
    <3>2. QED BY <1>1, <2>1, <3>1 DEF AwaitedBy
  <2>3. QED BY <1>1, <1>5, <1>6, <1>8, <2>1, <2>2
<1>15. QED BY <1>9, <1>12, <1>13, <1>14 DEF WireInv

\* The pass that awaits the request has its answer; the others are where they were.
Told(m, kind, report) ==
  /\ passes' \in [Passes -> PassStates]
  /\ \A p \in Passes : p # m.by => passes'[p] = passes[p]
  /\ m.by # Nobody =>
       /\ passes[m.by].at = "await" /\ passes'[m.by].at = "answered"
       /\ passes'[m.by].rows = passes[m.by].rows /\ passes'[m.by].row = passes[m.by].row
       /\ passes'[m.by].answer.kind = kind /\ passes'[m.by].answer.report = report

LEMMA AnswerTold ==
  ASSUME passes \in [Passes -> PassStates], NEW m, m.by # Nobody => m.by \in Passes, AwaitedBy(m),
         NEW kind \in {"ok", "retry", "rejected"}, NEW report \in Nat,
         passes' = IF m.by = Nobody THEN passes
                   ELSE [passes EXCEPT ![m.by] =
                           [at |-> "answered", rows |-> passes[m.by].rows, row |-> passes[m.by].row,
                            answer |-> [kind |-> kind, report |-> report]]]
  PROVE  Told(m, kind, report)
<1>1. CASE m.by = Nobody
  BY <1>1 DEF Told
<1>2. CASE m.by # Nobody
  <2>1. PICK p \in Passes : p = m.by
    BY <1>2
  <2>2. passes[p] \in PassStates /\ passes[p].at = "await"
    BY <1>2, <2>1 DEF AwaitedBy
  <2>3. passes[p].rows \in SUBSET Taken /\ passes[p].row \in Taken
    BY <2>2, PassShapes
  <2>4. PICK answer : answer = [kind |-> kind, report |-> report]
    OBVIOUS
  <2>5. answer \in Answers /\ answer.kind = kind /\ answer.report = report
    BY <2>4 DEF Answers
  <2>6. PICK after : after = [at |-> "answered", rows |-> passes[p].rows, row |-> passes[p].row,
                              answer |-> answer]
    OBVIOUS
  <2>7. /\ after \in PassStates /\ after.at = "answered" /\ after.rows = passes[p].rows
        /\ after.row = passes[p].row /\ after.answer = answer
    BY <2>3, <2>5, <2>6, PassBuilt
  <2>8. passes' = [passes EXCEPT ![p] = after]
    BY <1>2, <2>1, <2>4, <2>6
  <2>9. /\ passes' \in [Passes -> PassStates] /\ passes'[p] = after
        /\ \A other \in Passes : other # p => passes'[other] = passes[other]
    BY <2>7, <2>8, PassSet
  <2>10. QED BY <2>1, <2>2, <2>5, <2>7, <2>9 DEF Told
<1>3. QED BY <1>1, <1>2

\* The requests of some passes are abandoned: they keep what they ask.
Abandoned(abandoning) ==
  /\ \A n \in wire' :
       /\ n \in Requests
       /\ \E m \in wire : /\ n.key = m.key /\ n.device = m.device
                          /\ n.by = Nobody \/ (n = m /\ m.by \notin abandoning)
  /\ serving' # NoRequest <=> serving # NoRequest
  /\ serving # NoRequest =>
       /\ serving' \in Served /\ serving'.key = serving.key
       /\ serving'.device = serving.device /\ serving'.report = serving.report
       /\ serving'.by = Nobody \/ (serving' = serving /\ serving.by \notin abandoning)

LEMMA Orphaned ==
  ASSUME TypeOK, SubmissionAssumption, NEW abandoning \in SUBSET Passes, Orphan(abandoning)
  PROVE  Abandoned(abandoning)
<1>1. wire \subseteq Requests /\ serving \in {NoRequest} \cup Served
  BY DEF TypeOK
<1>2. \A m \in Requests :
        LET n == [m EXCEPT !.by = IF m.by \in abandoning THEN Nobody ELSE m.by]
        IN /\ n \in Requests /\ n.key = m.key /\ n.device = m.device
           /\ n.by = Nobody \/ (n = m /\ m.by \notin abandoning)
  BY DEF Requests
<1>3. \A m \in Served :
        LET n == [m EXCEPT !.by = IF m.by \in abandoning THEN Nobody ELSE m.by]
        IN /\ n \in Served /\ n.key = m.key /\ n.device = m.device /\ n.report = m.report
           /\ n.by = Nobody \/ (n = m /\ m.by \notin abandoning)
  BY DEF Served
<1>4. \A m \in Served : m # NoRequest
  <2>1. \A m \in Served : m.key \in 1..MaxReports
    BY DEF Served, Keys
  <2>2. NoRequest.key = 0 /\ 0 \notin 1..MaxReports
    BY DEF NoRequest, SubmissionAssumption
  <2>3. QED BY <2>1, <2>2
<1>5. wire' = {[m EXCEPT !.by = IF m.by \in abandoning THEN Nobody ELSE m.by] : m \in wire}
  BY DEF Orphan
<1>6. serving' = IF serving = NoRequest THEN serving
                 ELSE [serving EXCEPT !.by = IF serving.by \in abandoning THEN Nobody ELSE serving.by]
  BY DEF Orphan
<1>7. ASSUME NEW n \in wire'
      PROVE  /\ n \in Requests
             /\ \E m \in wire : /\ n.key = m.key /\ n.device = m.device
                                /\ n.by = Nobody \/ (n = m /\ m.by \notin abandoning)
  <2>1. PICK m \in wire : n = [m EXCEPT !.by = IF m.by \in abandoning THEN Nobody ELSE m.by]
    BY <1>5
  <2>2. /\ n \in Requests /\ n.key = m.key /\ n.device = m.device
        /\ n.by = Nobody \/ (n = m /\ m.by \notin abandoning)
    BY <1>1, <1>2, <2>1
  <2>3. QED BY <2>2
<1>8. /\ serving' # NoRequest <=> serving # NoRequest
      /\ serving # NoRequest =>
           /\ serving' \in Served /\ serving'.key = serving.key
           /\ serving'.device = serving.device /\ serving'.report = serving.report
           /\ serving'.by = Nobody \/ (serving' = serving /\ serving.by \notin abandoning)
  BY <1>1, <1>3, <1>4, <1>6
<1>9. QED BY <1>7, <1>8 DEF Abandoned

LEMMA AbandonedKeepsWire ==
  ASSUME SubmissionAssumption, TypeOK, WireInv, ScenarioTypeOK', NEW abandoning \in SUBSET Passes,
         Abandoned(abandoning), UNCHANGED <<phoneVars, remembered, reports>>,
         passes' \in [Passes -> PassStates],
         \A p \in Passes \ abandoning : passes'[p] = passes[p]
  PROVE  TypeOK' /\ WireInv'
<1>1. TypeOK'
  <2>1. wire' \subseteq Requests /\ serving' \in {NoRequest} \cup Served
    BY DEF Abandoned
  <2>2. QED BY <2>1 DEF TypeOK, ScenarioTypeOK, phoneVars
<1>2. \A m : AwaitedBy(m) /\ m.by \notin abandoning /\ (m.by # Nobody => m.by \in Passes) => AwaitedBy(m)'
  BY DEF AwaitedBy
<1>3. \A n \in wire' : n.by # Nobody => n \in wire /\ n.by \notin abandoning
  BY DEF Abandoned
<1>4. serving' # NoRequest /\ serving'.by # Nobody =>
        serving # NoRequest /\ serving' = serving /\ serving.by \notin abandoning
  BY DEF Abandoned
<1>5. \A n \in wire' : AwaitedBy(n)'
  <2>1. \A n \in wire' : n.by # Nobody => AwaitedBy(n)'
    BY <1>2, <1>3, RequestsTyped DEF WireInv
  <2>2. \A n : n.by = Nobody => AwaitedBy(n)'
    BY DEF AwaitedBy
  <2>3. QED BY <2>1, <2>2
<1>6. \A m, n \in wire' : m.by = n.by => m.by = Nobody \/ m = n
  BY <1>3 DEF WireInv
<1>7. serving' # NoRequest => AwaitedBy(serving)'
  <2>1. CASE serving'.by = Nobody
    BY <2>1 DEF AwaitedBy
  <2>2. CASE serving' # NoRequest /\ serving'.by # Nobody
    <3>1. AwaitedBy(serving) /\ serving.by \in Passes
      BY <1>4, <2>2, RequestsTyped DEF WireInv
    <3>2. QED BY <1>4, <2>2, <3>1 DEF AwaitedBy
  <2>3. QED BY <2>1, <2>2
<1>8. serving' # NoRequest => \A m \in wire' : m.by = serving'.by => m.by = Nobody
  BY <1>3, <1>4 DEF WireInv
<1>9. QED BY <1>1, <1>5, <1>6, <1>7, <1>8 DEF WireInv

LEMMA AnswerKeepsWire ==
  ASSUME SubmissionAssumption, TypeOK, WireInv, ScenarioTypeOK', NEW m, NEW kind, NEW report,
         Told(m, kind, report), UNCHANGED <<phoneVars, reports>>, serving' = NoRequest,
         m.by # Nobody => m.by \in Passes, wire' \subseteq wire, \A n \in wire' : n.by = m.by => n.by = Nobody,
         remembered' \subseteq [device : Devices, key : Keys, report : Nat]
  PROVE  TypeOK' /\ WireInv'
<1>1. TypeOK'
  BY DEF TypeOK, ScenarioTypeOK, phoneVars, Told
<1>2. ASSUME NEW n \in wire'
      PROVE  AwaitedBy(n)'
  <2>1. AwaitedBy(n) /\ (n.by # Nobody => n.by \in Passes)
    BY RequestsTyped DEF WireInv
  <2>2. n.by # Nobody => n.by # m.by
    OBVIOUS
  <2>3. n.by # Nobody => passes'[n.by] = passes[n.by]
    BY <2>1, <2>2 DEF Told
  <2>4. QED BY <2>1, <2>3 DEF AwaitedBy
<1>3. \A n, o \in wire' : n.by = o.by => n.by = Nobody \/ n = o
  BY DEF WireInv
<1>4. QED BY <1>1, <1>2, <1>3 DEF WireInv

\* What the answers to a request say.
LEMMA ReceiveEffect ==
  ASSUME TypeOK, WireInv, NEW m \in wire, Receive(m)
  PROVE  /\ serving = NoRequest /\ wire' = wire \ {m} /\ UNCHANGED <<phoneVars, reports, scenario>>
         /\ \/ \E kind \in {"ok", "retry", "rejected"}, report \in Nat :
                 /\ Told(m, kind, report) /\ UNCHANGED <<serving, remembered>>
                 /\ kind = "rejected" => m.key \in scenario.refused
                 /\ kind = "ok" => \E x \in remembered : /\ x.device = m.device /\ x.key = m.key
                                                         /\ x.report = report /\ x.report # 0
            \/ /\ m.key \notin scenario.refused /\ UNCHANGED passes
               /\ \A x \in remembered : ~(x.device = m.device /\ x.key = m.key)
               /\ remembered' = remembered \cup {[device |-> m.device, key |-> m.key, report |-> 0]}
               /\ serving' = [key |-> m.key, device |-> m.device, by |-> m.by, report |-> 0]
<1>1. /\ passes \in [Passes -> PassStates] /\ (m.by # Nobody => m.by \in Passes) /\ AwaitedBy(m)
      /\ \A x \in remembered : x.report \in Nat
  BY RequestsTyped DEF TypeOK, WireInv
<1>2. \A kind \in {"ok", "retry", "rejected"}, report \in Nat :
        Answer(m, kind, report) => Told(m, kind, report)
  BY <1>1, AnswerTold DEF Answer
<1>3. serving = NoRequest /\ wire' = wire \ {m} /\ UNCHANGED <<phoneVars, reports, scenario>>
  BY DEF Receive
<1>4. CASE /\ m.key \in scenario.refused /\ Answer(m, "rejected", 0)
           /\ UNCHANGED <<serving, remembered>>
  BY <1>2, <1>3, <1>4
<1>5. ASSUME NEW x \in Earlier(m), UNCHANGED <<serving, remembered>>,
             IF x.report = 0 THEN Answer(m, WhileInProgress, 0) ELSE Answer(m, "ok", x.report)
      PROVE  \E kind \in {"ok", "retry", "rejected"}, report \in Nat :
               /\ Told(m, kind, report) /\ UNCHANGED <<serving, remembered>>
               /\ kind = "rejected" => m.key \in scenario.refused
               /\ kind = "ok" => \E y \in remembered : /\ y.device = m.device /\ y.key = m.key
                                                       /\ y.report = report /\ y.report # 0
  <2>1. x \in remembered /\ x.device = m.device /\ x.key = m.key /\ x.report \in Nat
    BY <1>1 DEF Earlier
  <2>2. CASE x.report = 0
    <3>1. Told(m, "retry", 0)
      BY <1>2, <1>5, <2>2 DEF WhileInProgress
    <3>2. QED BY <1>5, <3>1
  <2>3. CASE x.report # 0
    <3>1. Told(m, "ok", x.report)
      BY <1>2, <1>5, <2>1, <2>3
    <3>2. QED BY <1>5, <2>1, <2>3, <3>1
  <2>4. QED BY <2>2, <2>3
<1>6. CASE /\ m.key \notin scenario.refused /\ Earlier(m) = {}
           /\ remembered' = remembered \cup {[device |-> m.device, key |-> m.key, report |-> 0]}
           /\ serving' = [key |-> m.key, device |-> m.device, by |-> m.by, report |-> 0]
           /\ UNCHANGED passes
  <2>1. \A x \in remembered : ~(x.device = m.device /\ x.key = m.key)
    BY <1>6 DEF Earlier
  <2>2. QED BY <1>3, <1>6, <2>1
<1>7. QED BY <1>3, <1>4, <1>5, <1>6 DEF Receive

\* The end of a request: the report is answered, or nothing was filed.
LEMMA EndEffect ==
  ASSUME TypeOK, WireInv, FinishIdempotency \/ InsertFails \/ ServerDies
  PROVE  /\ serving # NoRequest /\ serving' = NoRequest
         /\ UNCHANGED <<phoneVars, wire, reports>>
         /\ \E kind \in {"ok", "retry"} :
              /\ Told(serving, kind, IF kind = "ok" THEN serving.report ELSE 0)
              /\ kind = "ok" => serving.report # 0
         /\ \/ UNCHANGED remembered
            \/ /\ serving.report = 0 /\ remembered' = remembered \ Unfinished(serving)
            \/ /\ serving.report # 0
               /\ remembered' = {x \in remembered : x \notin Unfinished(serving)}
                                  \cup {[device |-> serving.device, key |-> serving.key,
                                         report |-> serving.report]}
<1>1. serving # NoRequest
  BY DEF FinishIdempotency, InsertFails, ServerDies
<1>2. /\ passes \in [Passes -> PassStates] /\ (serving.by # Nobody => serving.by \in Passes)
      /\ AwaitedBy(serving) /\ serving.report \in Nat
  BY <1>1, RequestsTyped DEF TypeOK, WireInv
<1>3. \A kind \in {"ok", "retry", "rejected"}, report \in Nat :
        Answer(serving, kind, report) => Told(serving, kind, report)
  BY <1>2, AnswerTold DEF Answer
<1>4. CASE FinishIdempotency
  <2>1. serving.report # 0 /\ Told(serving, "ok", serving.report)
    BY <1>2, <1>3, <1>4 DEF FinishIdempotency
  <2>2. QED BY <1>1, <1>4, <2>1 DEF FinishIdempotency
<1>5. CASE InsertFails
  <2>1. Told(serving, "retry", 0)
    BY <1>3, <1>5 DEF InsertFails
  <2>2. QED BY <1>1, <1>5, <2>1 DEF InsertFails
<1>6. CASE ServerDies
  <2>1. Told(serving, "retry", 0)
    BY <1>3, <1>6 DEF ServerDies
  <2>2. QED BY <1>1, <1>6, <2>1 DEF ServerDies
<1>7. QED BY <1>4, <1>5, <1>6

\* Requests given up on: the pass goes on as if the answer were "try again".
LEMMA AbandonEffect ==
  ASSUME TypeOK, WireInv, SubmissionAssumption, AppDies \/ \E p \in Passes : Abandon(p)
  PROVE  \E abandoning \in SUBSET Passes :
           /\ Abandoned(abandoning) /\ UNCHANGED <<phoneVars, remembered, reports>>
           /\ passes' \in [Passes -> PassStates]
           /\ \A p \in Passes \ abandoning : passes'[p] = passes[p]
           /\ \A p \in abandoning :
                \/ passes'[p] = Idle
                \/ /\ passes[p].at = "await" /\ passes'[p].at = "answered"
                   /\ passes'[p].row = passes[p].row /\ passes'[p].rows = passes[p].rows
                   /\ passes'[p].answer.kind = "retry"
<1>1. CASE AppDies
  <2>1. Abandoned(Passes) /\ UNCHANGED <<phoneVars, remembered, reports>>
    BY <1>1, Orphaned DEF AppDies
  <2>2. passes' = [p \in Passes |-> Idle] /\ Idle \in PassStates
    BY <1>1 DEF AppDies, PassStates, Idle
  <2>3. passes' \in [Passes -> PassStates] /\ \A p \in Passes : passes'[p] = Idle
    BY <2>2
  <2>4. QED BY <2>1, <2>3
<1>2. ASSUME NEW p \in Passes, Abandon(p)
      PROVE  /\ Abandoned({p}) /\ UNCHANGED <<phoneVars, remembered, reports>>
             /\ passes' \in [Passes -> PassStates]
             /\ \A other \in Passes \ {p} : passes'[other] = passes[other]
             /\ passes[p].at = "await" /\ passes'[p].at = "answered"
             /\ passes'[p].row = passes[p].row /\ passes'[p].rows = passes[p].rows
             /\ passes'[p].answer.kind = "retry"
  <2>1. {p} \in SUBSET Passes /\ Orphan({p}) /\ UNCHANGED <<phoneVars, remembered, reports>>
    BY <1>2 DEF Abandon
  <2>2. Abandoned({p})
    BY <2>1, Orphaned
  <2>3. passes \in [Passes -> PassStates] /\ passes[p].at = "await"
    BY <1>2 DEF Abandon, TypeOK
  <2>4. passes[p].rows \in SUBSET Taken /\ passes[p].row \in Taken
    BY <2>3, PassShapes
  <2>5. [kind |-> "retry", report |-> 0] \in Answers
    BY DEF Answers
  <2>6. PICK after : after = [at |-> "answered", rows |-> passes[p].rows, row |-> passes[p].row,
                              answer |-> [kind |-> "retry", report |-> 0]]
    OBVIOUS
  <2>7. /\ after \in PassStates /\ after.at = "answered" /\ after.rows = passes[p].rows
        /\ after.row = passes[p].row /\ after.answer.kind = "retry"
    BY <2>4, <2>5, <2>6, PassBuilt
  <2>8. passes' = [passes EXCEPT ![p] = after]
    BY <1>2, <2>6 DEF Abandon
  <2>9. /\ passes' \in [Passes -> PassStates] /\ passes'[p] = after
        /\ \A other \in Passes : other # p => passes'[other] = passes[other]
    BY <2>3, <2>7, <2>8, PassSet
  <2>10. QED BY <2>1, <2>2, <2>3, <2>7, <2>9
<1>3. CASE \E p \in Passes : Abandon(p)
  <2>1. PICK p \in Passes : Abandon(p)
    BY <1>3
  <2>2. {p} \in SUBSET Passes
    OBVIOUS
  <2>3. \A other \in {p} :
          /\ passes[other].at = "await" /\ passes'[other].at = "answered"
          /\ passes'[other].row = passes[other].row /\ passes'[other].rows = passes[other].rows
          /\ passes'[other].answer.kind = "retry"
    BY <1>2, <2>1
  <2>4. QED BY <1>2, <2>1, <2>2, <2>3, ZenonT(40)
<1>4. QED BY <1>1, <1>3

\* The rows may change in a step that leaves the passes and the requests alone.
LEMMA PhoneKeepsWire ==
  ASSUME SubmissionAssumption, TypeOK, WireInv, ScenarioTypeOK',
         (Confirm \/ (\E i \in DOMAIN own : BecomesDue(i)) \/ (\E key \in Keys : Ages(key))
           \/ DeleteAll \/ UNCHANGED vars)
  PROVE  TypeOK' /\ WireInv'
<1>1. UNCHANGED <<identities, passes, wire, serving, remembered, reports>>
      /\ deviceId' \in {deviceId, 0}
  BY DEF Confirm, QueuedRow, BecomesDue, Ages, DeleteAll, vars, phoneVars, serverVars
<1>2. own' \in Seq(Rows)
  <2>1. own \in Seq(Rows) /\ <<>> \in Seq(Rows)
    BY DEF TypeOK
  <2>2. CASE Confirm
    <3>1. confirmed' \in Keys
      BY <2>2 DEF Confirm, QueuedRow, TypeOK, Keys, SubmissionAssumption
    <3>2. [key |-> confirmed', state |-> "queued", due |-> TRUE, report |-> 0] \in Rows
      BY <3>1 DEF Rows
    <3>3. QED BY <2>1, <2>2, <3>2, AppendProperties DEF Confirm, QueuedRow
  <2>3. ASSUME NEW i \in DOMAIN own, BecomesDue(i)
        PROVE  own' \in Seq(Rows)
    <3>1. own[i] \in Rows
      BY <2>1, ElementOfSeq
    <3>2. [own[i] EXCEPT !.due = TRUE] \in Rows
      BY <3>1 DEF Rows
    <3>3. own' = [own EXCEPT ![i] = [own[i] EXCEPT !.due = TRUE]]
      BY <2>3 DEF BecomesDue
    <3>4. QED BY <2>1, <3>2, <3>3, RowSet
  <2>4. CASE DeleteAll \/ UNCHANGED vars \/ \E key \in Keys : Ages(key)
    BY <2>1, <2>4 DEF DeleteAll, Ages, vars, phoneVars
  <2>5. QED BY <2>2, <2>3, <2>4
<1>3. confirmed' \in 0..MaxReports /\ aged' \subseteq Keys
  <2>1. CASE Confirm
    BY <2>1 DEF Confirm, QueuedRow, TypeOK, SubmissionAssumption
  <2>2. CASE \E key \in Keys : Ages(key)
    BY <2>2 DEF Ages, TypeOK
  <2>3. CASE DeleteAll \/ UNCHANGED vars \/ \E i \in DOMAIN own : BecomesDue(i)
    BY <2>3 DEF DeleteAll, BecomesDue, vars, phoneVars, TypeOK
  <2>4. QED BY <2>1, <2>2, <2>3
<1>4. TypeOK'
  BY <1>1, <1>2, <1>3 DEF TypeOK, ScenarioTypeOK
<1>5. WireInv'
  BY <1>1 DEF WireInv, AwaitedBy
<1>6. QED BY <1>4, <1>5

LEMMA ServesKeepWire ==
  ASSUME SubmissionAssumption, TypeOK, WireInv, ScenarioTypeOK', ServesStep
  PROVE  TypeOK' /\ WireInv'
<1> DEFINE Memory == [device : Devices, key : Keys, report : Nat]
<1>1. remembered \subseteq Memory
  BY DEF TypeOK
<1>2. serving # NoRequest =>
        [device |-> serving.device, key |-> serving.key, report |-> serving.report] \in Memory
  BY RequestsTyped
<1>3. CASE FinishIdempotency \/ InsertFails \/ ServerDies
  <2>1. PICK kind \in {"ok", "retry"} :
          Told(serving, kind, IF kind = "ok" THEN serving.report ELSE 0)
    BY <1>3, EndEffect
  <2>2. PICK report : report = IF kind = "ok" THEN serving.report ELSE 0
    OBVIOUS
  <2>3. Told(serving, kind, report)
    BY <2>1, <2>2
  <2>4. /\ serving # NoRequest /\ serving' = NoRequest /\ UNCHANGED <<phoneVars, wire, reports>>
    BY <1>3, EndEffect
  <2>5. remembered' \subseteq Memory
    BY <1>1, <1>2, <1>3, <2>4, EndEffect
  <2>6. \A n \in wire' : n.by = serving.by => n.by = Nobody
    BY <2>4 DEF WireInv
  <2>7. QED BY <2>3, <2>4, <2>5, <2>6, RequestsTyped, AnswerKeepsWire
<1>4. ASSUME NEW m \in wire, Receive(m)
      PROVE  TypeOK' /\ WireInv'
  <2>1. /\ serving = NoRequest /\ wire' = wire \ {m} /\ UNCHANGED <<phoneVars, reports>>
    BY <1>4, ReceiveEffect
  <2>2. m \in Requests /\ m.key \in Keys /\ m.device \in Devices /\ (m.by # Nobody => m.by \in Passes)
    BY RequestsTyped
  <2>3. \A n \in wire' : n.by = m.by => n.by = Nobody
    BY <2>1 DEF WireInv
  <2>4. ASSUME NEW kind \in {"ok", "retry", "rejected"}, NEW report \in Nat,
               Told(m, kind, report), UNCHANGED <<serving, remembered>>
        PROVE  TypeOK' /\ WireInv'
    BY <1>1, <2>1, <2>2, <2>3, <2>4, AnswerKeepsWire
  <2>5. CASE /\ UNCHANGED passes
             /\ remembered' = remembered \cup {[device |-> m.device, key |-> m.key, report |-> 0]}
             /\ serving' = [key |-> m.key, device |-> m.device, by |-> m.by, report |-> 0]
    <3>1. serving' \in Served /\ serving'.by = m.by /\ serving'.key = m.key
      BY <2>2, <2>5 DEF Served, Requests
    <3>2. remembered' \subseteq Memory
      BY <1>1, <2>2, <2>5
    <3>3. TypeOK'
      BY <2>1, <2>5, <3>1, <3>2 DEF TypeOK, ScenarioTypeOK, phoneVars
    <3>4. AwaitedBy(serving)' /\ \A n \in wire' : AwaitedBy(n)'
      BY <2>1, <2>5, <3>1 DEF WireInv, AwaitedBy
    <3>5. WireInv'
      BY <2>1, <2>3, <3>1, <3>4 DEF WireInv
    <3>6. QED BY <3>3, <3>5
  <2>6. QED BY <1>4, <2>4, <2>5, ReceiveEffect
<1>5. CASE InsertPending
  <2>1. /\ serving # NoRequest /\ UNCHANGED <<phoneVars, passes, wire, remembered>>
        /\ reports' = Append(reports, [key |-> serving.key, device |-> serving.device])
        /\ serving' = [serving EXCEPT !.report = Len(reports')]
    BY <1>5 DEF InsertPending
  <2>2. [key |-> serving.key, device |-> serving.device] \in [key : Keys, device : Devices]
    BY <2>1, RequestsTyped
  <2>3. reports \in Seq([key : Keys, device : Devices])
    BY DEF TypeOK
  <2>4. reports' \in Seq([key : Keys, device : Devices]) /\ Len(reports') \in Nat
    BY <2>1, <2>2, <2>3, AppendProperties
  <2>5. serving' \in Served /\ serving'.by = serving.by /\ serving'.key = serving.key
    BY <2>1, <2>4, RequestsTyped DEF Served
  <2>6. TypeOK'
    BY <2>1, <2>4, <2>5 DEF TypeOK, ScenarioTypeOK, phoneVars
  <2>7. WireInv'
    BY <2>1, <2>5 DEF WireInv, AwaitedBy
  <2>8. QED BY <2>6, <2>7
<1>6. QED BY <1>3, <1>4, <1>5 DEF ServesStep

LEMMA WireKept ==
  ASSUME SubmissionAssumption, TypeAndWire, Step
  PROVE  TypeAndWire'
<1>1. TypeOK /\ LeftInv /\ WireInv /\ ScenarioTypeOK
  BY DEF TypeAndWire, TypeOK, ScenarioTypeOK
<1>2. ScenarioTypeOK' /\ LeftInv'
  BY <1>1, ScenarioStep
<1>3. ASSUME NEW p \in Passes, PassStep(p)
      PROVE  TypeOK' /\ WireInv'
  BY <1>1, <1>2, <1>3, PassStepEffect, PassKeepsWire
<1>4. CASE AppDies \/ \E p \in Passes : Abandon(p)
  <2>1. PICK abandoning \in SUBSET Passes :
          /\ Abandoned(abandoning) /\ UNCHANGED <<phoneVars, remembered, reports>>
          /\ passes' \in [Passes -> PassStates]
          /\ \A p \in Passes \ abandoning : passes'[p] = passes[p]
    BY <1>1, <1>4, AbandonEffect
  <2>2. TypeOK' /\ WireInv'
    BY <1>1, <1>2, <2>1, AbandonedKeepsWire
  <2>3. QED BY <1>2, <2>2 DEF TypeAndWire
<1>5. ASSUME NEW m \in wire, Lost(m)
      PROVE  TypeOK' /\ WireInv'
  <2>1. wire' \subseteq wire /\ UNCHANGED <<phoneVars, passes, serving, remembered, reports>>
    BY <1>5 DEF Lost, serverVars
  <2>2. TypeOK'
    BY <1>1, <1>2, <2>1 DEF TypeOK, ScenarioTypeOK, phoneVars
  <2>3. WireInv'
    BY <1>1, <2>1 DEF WireInv, AwaitedBy
  <2>4. QED BY <2>2, <2>3
<1>6. CASE ServesStep
  BY <1>1, <1>2, <1>6, ServesKeepWire DEF TypeAndWire
<1>7. CASE \/ Confirm \/ (\E i \in DOMAIN own : BecomesDue(i)) \/ (\E key \in Keys : Ages(key))
           \/ DeleteAll \/ UNCHANGED vars
  BY <1>1, <1>2, <1>7, PhoneKeepsWire DEF TypeAndWire
<1>8. QED
  BY <1>2, <1>3, <1>4, <1>5, <1>6, <1>7 DEF Step, PhoneStep, NetworkStep, TypeAndWire

----------------------------------------------------------------------------
(* What the server files, whatever happens to the phone.                     *)

FiledFor(i, x) == i \in DOMAIN reports /\ reports[i].key = x.key /\ reports[i].device = x.device

\* A key is filed once for a device.
OnePerDevice ==
  \A i, j \in DOMAIN reports :
    reports[i].key = reports[j].key /\ reports[i].device = reports[j].device => i = j

\* What is remembered was filed, and every report is remembered.
RememberedInv ==
  /\ \A x \in remembered : x.report # 0 => FiledFor(x.report, x)
  /\ \A i \in DOMAIN reports : \E x \in remembered : FiledFor(i, x)

\* The request being served has its key, and no report until it inserts one.
ServingInv ==
  serving # NoRequest =>
    /\ \E x \in remembered : x.key = serving.key /\ x.device = serving.device
    /\ serving.report = 0 => \A i \in DOMAIN reports : ~FiledFor(i, serving)
    /\ serving.report # 0 => FiledFor(serving.report, serving)

ServerInv == OnePerDevice /\ RememberedInv /\ ServingInv

LEMMA ReceiveKeepsServer ==
  ASSUME TypeOK, WireInv, ServerInv, NEW m \in wire, Receive(m)
  PROVE  ServerInv'
<1>1. reports' = reports
  BY ReceiveEffect
<1>2. CASE UNCHANGED <<serving, remembered>>
  BY <1>1, <1>2 DEF ServerInv, OnePerDevice, RememberedInv, ServingInv, FiledFor
<1>3. CASE /\ \A x \in remembered : ~(x.device = m.device /\ x.key = m.key)
           /\ remembered' = remembered \cup {[device |-> m.device, key |-> m.key, report |-> 0]}
           /\ serving' = [key |-> m.key, device |-> m.device, by |-> m.by, report |-> 0]
  <2>1. OnePerDevice'
    BY <1>1 DEF ServerInv, OnePerDevice
  <2>2. PICK new : new = [device |-> m.device, key |-> m.key, report |-> 0]
    OBVIOUS
  <2>3. /\ new.device = m.device /\ new.key = m.key /\ new.report = 0
        /\ remembered' = remembered \cup {new}
    BY <1>3, <2>2
  <2>4. /\ serving'.key = m.key /\ serving'.device = m.device /\ serving'.report = 0
    BY <1>3
  <2>5. RememberedInv'
    BY <1>1, <2>3 DEF ServerInv, RememberedInv, FiledFor
  <2>6. \A i \in DOMAIN reports : ~(reports[i].key = m.key /\ reports[i].device = m.device)
    BY <1>3 DEF ServerInv, RememberedInv, FiledFor
  <2>7. ServingInv'
    BY <1>1, <2>3, <2>4, <2>6 DEF ServingInv, FiledFor
  <2>8. QED BY <2>1, <2>5, <2>7 DEF ServerInv
<1>4. QED BY <1>2, <1>3, ReceiveEffect

LEMMA EndKeepsServer ==
  ASSUME TypeOK, WireInv, ServerInv, FinishIdempotency \/ InsertFails \/ ServerDies
  PROVE  ServerInv'
<1>1. serving # NoRequest /\ serving' = NoRequest /\ reports' = reports
  BY EndEffect
<1>2. OnePerDevice' /\ ServingInv'
  BY <1>1 DEF ServerInv, OnePerDevice, ServingInv
<1>3. CASE UNCHANGED remembered
  BY <1>1, <1>2, <1>3 DEF ServerInv, RememberedInv, FiledFor
<1>4. CASE serving.report = 0 /\ remembered' = remembered \ Unfinished(serving)
  <2>1. \A i \in DOMAIN reports : ~FiledFor(i, serving)
    BY <1>1, <1>4 DEF ServerInv, ServingInv
  <2>2. \A x \in remembered : x \notin remembered' => x.key = serving.key /\ x.device = serving.device
    BY <1>4 DEF Unfinished
  <2>3. \A i \in DOMAIN reports : \E x \in remembered' : FiledFor(i, x)
    BY <2>1, <2>2 DEF ServerInv, RememberedInv, FiledFor
  <2>4. RememberedInv'
    BY <1>1, <1>4, <2>3 DEF ServerInv, RememberedInv, FiledFor
  <2>5. QED BY <1>2, <2>4 DEF ServerInv
<1>5. CASE /\ serving.report # 0
           /\ remembered' = {x \in remembered : x \notin Unfinished(serving)}
                              \cup {[device |-> serving.device, key |-> serving.key,
                                     report |-> serving.report]}
  <2>1. FiledFor(serving.report, serving)
    BY <1>1, <1>5 DEF ServerInv, ServingInv
  <2>2. PICK new : new = [device |-> serving.device, key |-> serving.key, report |-> serving.report]
    OBVIOUS
  <2>3. /\ new.device = serving.device /\ new.key = serving.key /\ new.report = serving.report
        /\ new \in remembered' /\ \A x \in remembered' : x \in remembered \/ x = new
    BY <1>5, <2>2
  <2>4. \A x \in remembered : x \notin remembered' => x.key = serving.key /\ x.device = serving.device
    BY <1>5 DEF Unfinished
  <2>5. \A i \in DOMAIN reports : \E x \in remembered' : FiledFor(i, x)
    BY <2>3, <2>4 DEF ServerInv, RememberedInv, FiledFor
  <2>6. \A x \in remembered' : x.report # 0 => FiledFor(x.report, x)
    BY <2>1, <2>3 DEF ServerInv, RememberedInv, FiledFor
  <2>7. RememberedInv'
    BY <1>1, <2>5, <2>6 DEF RememberedInv, FiledFor
  <2>8. QED BY <1>2, <2>7 DEF ServerInv
<1>6. QED BY <1>3, <1>4, <1>5, EndEffect

\* The insert: what it adds, and that the rest is as it was.
InsertEffect(report) ==
  /\ serving # NoRequest /\ serving.report = 0 /\ serving' # NoRequest
  /\ serving'.key = serving.key /\ serving'.device = serving.device /\ serving'.by = serving.by
  /\ report # 0 /\ serving'.report = report
  /\ DOMAIN reports' = DOMAIN reports \cup {report} /\ report \notin DOMAIN reports
  /\ \A i \in DOMAIN reports : reports'[i] = reports[i]
  /\ reports'[report].key = serving.key /\ reports'[report].device = serving.device
  /\ UNCHANGED <<phoneVars, passes, wire, remembered, scenario>>

LEMMA Inserted ==
  ASSUME SubmissionAssumption, TypeOK, InsertPending
  PROVE  \E report \in Nat : InsertEffect(report)
<1>1. /\ serving # NoRequest /\ serving.report = 0
      /\ UNCHANGED <<phoneVars, passes, wire, remembered, scenario>>
  BY DEF InsertPending
<1>2. PICK new : new = [key |-> serving.key, device |-> serving.device]
  OBVIOUS
<1>3. /\ new \in [key : Keys, device : Devices]
      /\ new.key = serving.key /\ new.device = serving.device
  BY <1>1, <1>2, RequestsTyped
<1>4. reports' = Append(reports, new) /\ serving' = [serving EXCEPT !.report = Len(reports')]
  BY <1>2 DEF InsertPending
<1>5. reports \in Seq([key : Keys, device : Devices]) /\ Len(reports) \in Nat
      /\ DOMAIN reports = 1..Len(reports)
  BY DEF TypeOK
<1>6. /\ Len(reports') = Len(reports) + 1 /\ reports'[Len(reports) + 1] = new
      /\ \A i \in DOMAIN reports : reports'[i] = reports[i]
      /\ DOMAIN reports' = 1..Len(reports')
  BY <1>3, <1>4, <1>5, AppendProperties
<1>7. DOMAIN reports' = DOMAIN reports \cup {Len(reports')} /\ Len(reports') \notin DOMAIN reports
      /\ Len(reports') \in Nat /\ Len(reports') # 0
  BY <1>5, <1>6
<1>8. /\ serving'.key = serving.key /\ serving'.device = serving.device
      /\ serving'.by = serving.by /\ serving'.report = Len(reports')
      /\ serving' # NoRequest
  <2>1. serving \in Served
    BY <1>1, RequestsTyped
  <2>2. /\ serving'.key = serving.key /\ serving'.device = serving.device
        /\ serving'.by = serving.by /\ serving'.report = Len(reports')
    BY <1>4, <2>1 DEF Served
  <2>3. serving.key # 0
    BY <1>1, RequestsTyped DEF Keys, SubmissionAssumption
  <2>4. QED BY <2>2, <2>3 DEF NoRequest
<1>9. QED BY <1>1, <1>3, <1>6, <1>7, <1>8 DEF InsertEffect

LEMMA InsertKeepsServer ==
  ASSUME ServerInv, NEW report, InsertEffect(report)
  PROVE  ServerInv'
<1>1. \A i \in DOMAIN reports : ~(reports[i].key = serving.key /\ reports[i].device = serving.device)
  BY DEF InsertEffect, ServerInv, ServingInv, FiledFor
<1>2. OnePerDevice'
  BY <1>1 DEF InsertEffect, ServerInv, OnePerDevice
<1>3. \E x \in remembered : x.key = serving.key /\ x.device = serving.device
  BY DEF InsertEffect, ServerInv, ServingInv
<1>4. \A x : \A i : FiledFor(i, x) => FiledFor(i, x)'
  BY DEF FiledFor, InsertEffect
<1>5. RememberedInv'
  <2>1. \A x \in remembered : x.report # 0 => FiledFor(x.report, x)
    BY DEF ServerInv, RememberedInv
  <2>2. \A i \in DOMAIN reports : \E x \in remembered : FiledFor(i, x)
    BY DEF ServerInv, RememberedInv
  <2>3. \E x \in remembered : FiledFor(report, x)'
    BY <1>3 DEF FiledFor, InsertEffect
  <2>4. remembered' = remembered /\ DOMAIN reports' = DOMAIN reports \cup {report}
    BY DEF InsertEffect
  <2>5. \A x \in remembered' : x.report # 0 => FiledFor(x.report, x)'
    BY <1>4, <2>1, <2>4
  <2>6. \A i \in DOMAIN reports' : \E x \in remembered' : FiledFor(i, x)'
    BY <1>4, <2>2, <2>3, <2>4
  <2>7. QED BY <2>5, <2>6 DEF RememberedInv, FiledFor
<1>6. ServingInv'
  BY <1>3 DEF ServingInv, InsertEffect, FiledFor
<1>7. QED BY <1>2, <1>5, <1>6 DEF ServerInv

LEMMA ServerKept ==
  ASSUME SubmissionAssumption, TypeAndWire, ServerInv, Step
  PROVE  ServerInv'
<1>1. TypeOK /\ WireInv
  BY DEF TypeAndWire
<1>2. CASE FinishIdempotency \/ InsertFails \/ ServerDies
  BY <1>1, <1>2, EndKeepsServer
<1>3. CASE \E m \in wire : Receive(m)
  BY <1>1, <1>3, ReceiveKeepsServer
<1>4. CASE InsertPending
  BY <1>1, <1>4, Inserted, InsertKeepsServer
<1>5. CASE AppDies \/ \E p \in Passes : Abandon(p)
  <2>1. PICK abandoning \in SUBSET Passes :
          Abandoned(abandoning) /\ UNCHANGED <<remembered, reports>>
    BY <1>1, <1>5, AbandonEffect
  <2>2. OnePerDevice' /\ RememberedInv'
    BY <2>1 DEF ServerInv, OnePerDevice, RememberedInv, FiledFor
  <2>3. /\ serving' # NoRequest => serving # NoRequest
        /\ serving # NoRequest => /\ serving'.key = serving.key /\ serving'.device = serving.device
                                  /\ serving'.report = serving.report
    BY <2>1 DEF Abandoned
  <2>4. ServingInv'
    BY <2>1, <2>3 DEF ServerInv, ServingInv, FiledFor
  <2>5. QED BY <2>2, <2>4 DEF ServerInv
<1>6. CASE \/ PhoneStep \/ (\E m \in wire : Lost(m)) \/ DeleteAll \/ UNCHANGED vars
  <2>1. UNCHANGED <<serving, remembered, reports>>
    BY <1>6 DEF PhoneStep, PassStep, Confirm, QueuedRow, PassStarts, ListDue, PassEnds, MarkSending, GiveUp,
      ReadIdentity, MintIdentity, RecordAnswer, StoreFails, BecomesDue, Ages, Lost, DeleteAll, vars,
      serverVars
  <2>2. QED BY <2>1 DEF ServerInv, OnePerDevice, RememberedInv, ServingInv, FiledFor
<1>7. QED
  BY <1>2, <1>3, <1>4, <1>5, <1>6 DEF Step, NetworkStep, ServesStep

----------------------------------------------------------------------------
(* What the phone knows, as long as its data is not deleted.                 *)

\* One device id is used, and it is minted before anything is sent.
DeviceInv ==
  /\ \A m \in wire : m.device = deviceId
  /\ serving # NoRequest => serving.device = deviceId
  /\ \A x \in remembered : x.device = deviceId
  /\ \A i \in DOMAIN reports : reports[i].device = deviceId
  /\ scenario.startsWithId => deviceId # 0
  /\ scenario.startsWithId \/ \A p, q \in scenario.passes : p = q
  /\ \A p \in Passes : /\ passes[p].at # "idle" => p \in scenario.passes
                       /\ passes[p].at = "mint" => deviceId = 0

\* The rows a pass holds are rows of the table.
RowInv ==
  \A p \in Passes : /\ HasRows(passes[p]) => \A row \in passes[p].rows : IsRow(row)
                    /\ HasRow(passes[p]) => IsRow(passes[p].row)

\* What is refused is never filed.
RefusedInv ==
  /\ serving # NoRequest => serving.key \notin scenario.refused
  /\ \A i \in DOMAIN reports : reports[i].key \notin scenario.refused

\* An answer is true of the row the pass holds.
AnswerInv ==
  \A p \in Passes : passes[p].at = "answered" =>
    /\ passes[p].answer.kind = "ok" =>
         /\ passes[p].answer.report \in DOMAIN reports
         /\ reports[passes[p].answer.report].key = passes[p].row.key
    /\ passes[p].answer.kind = "rejected" => passes[p].row.key \in scenario.refused

\* And so is what was written of it.
OutcomeInv ==
  \A i \in DOMAIN own :
    /\ own[i].state = "active" =>
         own[i].report \in DOMAIN reports /\ reports[own[i].report].key = own[i].key
    /\ own[i].state = "failed" => own[i].key \in aged \cup scenario.refused

PhoneInv == DeviceInv /\ RowInv /\ RefusedInv /\ AnswerInv /\ OutcomeInv

\* Nothing was sent by a phone that has no id.
LEMMA NothingSent ==
  ASSUME TypeOK, DeviceInv, deviceId = 0
  PROVE  wire = {} /\ serving = NoRequest /\ remembered = {} /\ \A i : i \notin DOMAIN reports
<1>1. \A x \in remembered : x.device \in Devices
  BY DEF TypeOK
<1>2. \A i \in DOMAIN reports : reports[i].device \in Devices
  <2>1. PICK Report : Report = [key : Keys, device : Devices]
    OBVIOUS
  <2>2. reports \in Seq(Report)
    BY <2>1 DEF TypeOK
  <2>3. \A i \in DOMAIN reports : reports[i] \in Report
    BY <2>2, ElementOfSeq
  <2>4. \A report \in Report : report.device \in Devices
    BY <2>1
  <2>5. QED BY <2>3, <2>4
<1>3. 0 \notin Devices
  BY DEF Devices
<1>4. QED BY <1>1, <1>2, <1>3, RequestsTyped DEF DeviceInv

LEMMA PassKeepsPhone ==
  ASSUME TypeOK, PhoneInv, SameScenario, NEW p \in Passes, PassEffect(p)
  PROVE  PhoneInv'
<1>1. /\ passes' = [passes EXCEPT ![p] = passes'[p]]
      /\ passes[p].at # "idle" \/ p \in scenario.passes
      /\ passes'[p].at # "answered" /\ (passes'[p].at = "mint" => deviceId = 0)
      /\ DOMAIN own' = DOMAIN own
      /\ UNCHANGED <<aged, serving, remembered, reports>>
      /\ SendEffect(p) /\ RowsEffect(p) /\ OutcomeEffect(p)
  BY DEF PassEffect, serverVars
<1>2. passes \in [Passes -> PassStates] /\ passes' \in [Passes -> PassStates]
      /\ \A q \in Passes : q # p => passes'[q] = passes[q]
  BY PassSet DEF TypeOK, PassEffect
<1>3. /\ scenario'.passes = scenario.passes /\ scenario'.refused = scenario.refused
      /\ scenario'.startsWithId = scenario.startsWithId
  BY DEF SameScenario
<1>4. DeviceInv /\ RowInv /\ RefusedInv /\ AnswerInv /\ OutcomeInv
  BY DEF PhoneInv
<1>5. DeviceInv'
  <2>1. \A q \in Passes : passes'[q].at # "idle" => q \in scenario.passes
    BY <1>1, <1>2, <1>4 DEF DeviceInv
  <2>2. CASE UNCHANGED deviceId
    <3>1. \A m \in wire' : m.device = deviceId
      BY <1>1, <1>4, <2>2 DEF SendEffect, DeviceInv
    <3>2. \A q \in Passes : passes'[q].at = "mint" => deviceId = 0
      BY <1>1, <1>2, <1>4 DEF DeviceInv
    <3>3. QED BY <1>1, <1>3, <1>4, <2>1, <2>2, <3>1, <3>2 DEF DeviceInv
  <2>3. CASE /\ passes[p].at = "mint" /\ passes'[p].at = "await" /\ deviceId' \in Devices
             /\ wire' = wire \cup {[key |-> passes[p].row.key, device |-> deviceId', by |-> p]}
    <3>1. deviceId = 0 /\ p \in scenario.passes
      BY <1>4, <2>3 DEF DeviceInv
    <3>2. wire = {} /\ serving = NoRequest /\ remembered = {} /\ \A i : i \notin DOMAIN reports
      BY <1>4, <3>1, NothingSent
    <3>3. deviceId' # 0
      BY <2>3 DEF Devices
    <3>4. ~scenario.startsWithId /\ \A q, r \in scenario.passes : q = r
      BY <1>4, <3>1 DEF DeviceInv
    <3>5. \A q \in Passes : passes'[q].at = "mint" => q = p
      BY <2>1, <3>1, <3>4
    <3>6. \A q \in Passes : passes'[q].at # "mint"
      BY <2>3, <3>5
    <3>7. \A m \in wire' : m.device = deviceId'
      BY <2>3, <3>2
    <3>8. QED BY <1>1, <1>3, <2>1, <3>2, <3>3, <3>4, <3>6, <3>7 DEF DeviceInv
  <2>4. QED BY <1>1, <2>2, <2>3 DEF SendEffect
<1>6. \A row : IsRow(row) => IsRow(row)'
  BY <1>1 DEF IsRow, OutcomeEffect
<1>7. RowInv'
  <2>1. HasRows(passes'[p]) => \A row \in passes'[p].rows : IsRow(row)
    BY <1>1, <1>4 DEF RowsEffect, RowInv
  <2>2. HasRow(passes'[p]) => IsRow(passes'[p].row)
    BY <1>1, <1>4 DEF RowsEffect, RowInv
  <2>3. \A q \in Passes : /\ HasRows(passes'[q]) => \A row \in passes'[q].rows : IsRow(row)
                          /\ HasRow(passes'[q]) => IsRow(passes'[q].row)
    BY <1>2, <1>4, <2>1, <2>2 DEF RowInv
  <2>4. QED BY <1>6, <2>3 DEF RowInv, HasRows, HasRow
<1>8. RefusedInv'
  BY <1>1, <1>3, <1>4 DEF RefusedInv
<1>9. AnswerInv'
  BY <1>1, <1>2, <1>3, <1>4 DEF AnswerInv
<1>10. OutcomeInv'
  <2>1. ASSUME NEW i \in DOMAIN own, own'[i].state = "active"
        PROVE  own'[i].report \in DOMAIN reports /\ reports[own'[i].report].key = own'[i].key
    <3>1. CASE own'[i] = own[i]
      BY <1>4, <2>1, <3>1 DEF OutcomeInv
    <3>2. CASE /\ passes[p].at = "answered" /\ passes[p].answer.kind = "ok" /\ i = passes[p].row.id
               /\ own'[i].report = passes[p].answer.report
      <4>1. IsRow(passes[p].row)
        BY <1>4, <3>2 DEF RowInv, HasRow
      <4>2. QED BY <1>1, <1>4, <3>2, <4>1 DEF AnswerInv, IsRow, OutcomeEffect
    <3>3. QED BY <1>1, <2>1, <3>1, <3>2 DEF OutcomeEffect
  <2>2. ASSUME NEW i \in DOMAIN own, own'[i].state = "failed"
        PROVE  own'[i].key \in aged \cup scenario.refused
    <3>1. CASE own'[i] = own[i]
      BY <1>4, <2>2, <3>1 DEF OutcomeInv
    <3>2. CASE /\ HasRow(passes[p]) /\ i = passes[p].row.id
               /\ \/ passes[p].row.key \in aged
                  \/ passes[p].at = "answered" /\ passes[p].answer.kind = "rejected"
      <4>1. IsRow(passes[p].row)
        BY <1>4, <3>2 DEF RowInv
      <4>2. QED BY <1>1, <1>4, <3>2, <4>1 DEF AnswerInv, IsRow, OutcomeEffect
    <3>3. QED BY <1>1, <2>2, <3>1, <3>2 DEF OutcomeEffect
  <2>3. QED BY <1>1, <1>3, <2>1, <2>2 DEF OutcomeInv
<1>11. QED BY <1>5, <1>7, <1>8, <1>9, <1>10 DEF PhoneInv

\* An answer that is true of the request is true of the row.
LEMMA TellKeepsPhone ==
  ASSUME SubmissionAssumption, PhoneInv, SameScenario, NEW m, NEW kind, NEW report,
         Told(m, kind, report), m.by # Nobody => m.by \in Passes, AwaitedBy(m),
         kind = "ok" => FiledFor(report, m), kind = "rejected" => m.key \in scenario.refused,
         UNCHANGED <<phoneVars, reports>>, wire' \subseteq wire,
         serving' = serving \/ serving' = NoRequest,
         \A x \in remembered' : x.device = deviceId
  PROVE  PhoneInv'
<1>1. DeviceInv /\ RowInv /\ RefusedInv /\ AnswerInv /\ OutcomeInv
  BY DEF PhoneInv
<1>2. /\ scenario'.passes = scenario.passes /\ scenario'.refused = scenario.refused
      /\ scenario'.startsWithId = scenario.startsWithId
      /\ UNCHANGED <<own, deviceId, aged, reports>>
  BY DEF SameScenario, phoneVars
<1>3. ASSUME NEW p \in Passes
      PROVE  \/ passes'[p] = passes[p]
             \/ /\ p = m.by /\ m.by # Nobody
                /\ passes[p].at = "await" /\ passes'[p].at = "answered"
                /\ passes'[p].rows = passes[p].rows /\ passes'[p].row = passes[p].row
                /\ passes'[p].answer.kind = kind /\ passes'[p].answer.report = report
  <2>1. CASE p # m.by
    BY <2>1 DEF Told
  <2>2. CASE p = m.by
    <3>1. m.by # Nobody
      BY <2>2 DEF SubmissionAssumption
    <3>2. QED BY <2>2, <3>1 DEF Told
  <2>3. QED BY <2>1, <2>2
<1>4. DeviceInv'
  <2>1. ASSUME NEW p \in Passes
        PROVE  /\ passes'[p].at # "idle" => p \in scenario.passes
               /\ passes'[p].at = "mint" => deviceId = 0
    BY <1>1, <1>3 DEF DeviceInv
  <2>2. QED BY <1>1, <1>2, <2>1 DEF DeviceInv
<1>5. RowInv'
  <2>1. ASSUME NEW p \in Passes
        PROVE  /\ HasRows(passes'[p]) => \A row \in passes'[p].rows : IsRow(row)
               /\ HasRow(passes'[p]) => IsRow(passes'[p].row)
    <3>1. CASE passes'[p] = passes[p]
      BY <1>1, <3>1 DEF RowInv
    <3>2. CASE /\ passes[p].at = "await"
               /\ passes'[p].rows = passes[p].rows /\ passes'[p].row = passes[p].row
      <4>1. HasRows(passes[p]) /\ HasRow(passes[p])
        BY <3>2 DEF HasRows, HasRow
      <4>2. QED BY <1>1, <3>2, <4>1 DEF RowInv
    <3>3. QED BY <1>3, <3>1, <3>2
  <2>2. \A row : IsRow(row) => IsRow(row)'
    BY <1>2 DEF IsRow
  <2>3. QED BY <2>1, <2>2 DEF RowInv, HasRow, HasRows
<1>6. RefusedInv'
  BY <1>1, <1>2 DEF RefusedInv
<1>7. AnswerInv'
  <2>1. ASSUME NEW p \in Passes, passes'[p].at = "answered"
        PROVE  /\ passes'[p].answer.kind = "ok" =>
                    /\ passes'[p].answer.report \in DOMAIN reports
                    /\ reports[passes'[p].answer.report].key = passes'[p].row.key
               /\ passes'[p].answer.kind = "rejected" => passes'[p].row.key \in scenario.refused
    <3>1. CASE passes'[p] = passes[p]
      BY <1>1, <2>1, <3>1 DEF AnswerInv
    <3>2. CASE /\ p = m.by /\ m.by # Nobody /\ passes'[p].row = passes[p].row
               /\ passes'[p].answer.kind = kind /\ passes'[p].answer.report = report
      <4>1. passes'[p].row.key = m.key
        BY <3>2 DEF AwaitedBy
      <4>2. QED BY <3>2, <4>1 DEF FiledFor
    <3>3. QED BY <1>3, <3>1, <3>2
  <2>2. QED BY <1>2, <2>1 DEF AnswerInv
<1>8. OutcomeInv'
  BY <1>1, <1>2 DEF OutcomeInv
<1>9. QED BY <1>4, <1>5, <1>6, <1>7, <1>8 DEF PhoneInv

LEMMA ReceiveKeepsPhone ==
  ASSUME SubmissionAssumption, TypeOK, WireInv, ServerInv, PhoneInv, SameScenario,
         NEW m \in wire, Receive(m)
  PROVE  PhoneInv'
<1>1. /\ serving = NoRequest /\ wire' = wire \ {m} /\ UNCHANGED <<phoneVars, reports, scenario>>
  BY ReceiveEffect
<1>2. (m.by # Nobody => m.by \in Passes) /\ AwaitedBy(m) /\ m.device = deviceId
      /\ \A x \in remembered : x.device = deviceId
  BY RequestsTyped DEF WireInv, PhoneInv, DeviceInv
<1>3. ASSUME NEW kind, NEW report, Told(m, kind, report), UNCHANGED <<serving, remembered>>,
             kind = "rejected" => m.key \in scenario.refused,
             kind = "ok" => \E x \in remembered : /\ x.device = m.device /\ x.key = m.key
                                                  /\ x.report = report /\ x.report # 0
      PROVE  PhoneInv'
  <2>1. kind = "ok" => FiledFor(report, m)
    BY <1>3 DEF ServerInv, RememberedInv, FiledFor
  <2>2. /\ UNCHANGED <<phoneVars, reports>> /\ wire' \subseteq wire /\ serving' = serving
        /\ \A x \in remembered' : x.device = deviceId
    BY <1>1, <1>2, <1>3
  <2>3. QED BY <1>2, <1>3, <2>1, <2>2, TellKeepsPhone
<1>4. CASE /\ m.key \notin scenario.refused /\ UNCHANGED passes
           /\ remembered' = remembered \cup {[device |-> m.device, key |-> m.key, report |-> 0]}
           /\ serving' = [key |-> m.key, device |-> m.device, by |-> m.by, report |-> 0]
  <2>1. UNCHANGED <<own, deviceId, aged, passes, reports, scenario>>
    BY <1>1, <1>4 DEF phoneVars
  <2>2. serving'.key \notin scenario.refused /\ serving'.device = deviceId
        /\ \A x \in remembered' : x.device = deviceId
    BY <1>2, <1>4
  <2>3. DeviceInv' /\ RefusedInv'
    BY <1>1, <2>1, <2>2 DEF PhoneInv, DeviceInv, RefusedInv
  <2>4. RowInv' /\ AnswerInv' /\ OutcomeInv'
    BY <2>1 DEF PhoneInv, RowInv, AnswerInv, OutcomeInv, IsRow, HasRow, HasRows
  <2>5. QED BY <2>3, <2>4 DEF PhoneInv
<1>5. QED BY <1>3, <1>4, ReceiveEffect

LEMMA EndKeepsPhone ==
  ASSUME SubmissionAssumption, TypeOK, WireInv, ServerInv, PhoneInv, SameScenario,
         FinishIdempotency \/ InsertFails \/ ServerDies
  PROVE  PhoneInv'
<1>1. /\ serving # NoRequest /\ serving' = NoRequest /\ UNCHANGED <<phoneVars, wire, reports>>
  BY EndEffect
<1>2. PICK kind \in {"ok", "retry"} :
        /\ Told(serving, kind, IF kind = "ok" THEN serving.report ELSE 0)
        /\ kind = "ok" => serving.report # 0
  BY EndEffect
<1>3. PICK report : report = IF kind = "ok" THEN serving.report ELSE 0
  OBVIOUS
<1>4. Told(serving, kind, report)
  BY <1>2, <1>3
<1>5. (serving.by # Nobody => serving.by \in Passes) /\ AwaitedBy(serving)
      /\ serving.device = deviceId /\ \A x \in remembered : x.device = deviceId
  BY <1>1, RequestsTyped DEF WireInv, PhoneInv, DeviceInv
<1>6. kind = "ok" => FiledFor(report, serving)
  BY <1>1, <1>2, <1>3 DEF ServerInv, ServingInv
<1>7. \A x \in remembered' : x.device = deviceId
  <2>1. CASE remembered' \subseteq remembered
    BY <1>5, <2>1
  <2>2. CASE remembered' = {x \in remembered : x \notin Unfinished(serving)}
                              \cup {[device |-> serving.device, key |-> serving.key,
                                     report |-> serving.report]}
    BY <1>5, <2>2
  <2>3. QED BY <2>1, <2>2, EndEffect
<1>8. QED BY <1>1, <1>4, <1>5, <1>6, <1>7, TellKeepsPhone

LEMMA InsertKeepsPhone ==
  ASSUME PhoneInv, NEW report, InsertEffect(report)
  PROVE  PhoneInv'
<1>1. DeviceInv /\ RowInv /\ RefusedInv /\ AnswerInv /\ OutcomeInv
  BY DEF PhoneInv
<1>2. UNCHANGED <<own, deviceId, aged, passes, wire, remembered, scenario>>
  BY DEF InsertEffect, phoneVars
<1>3. /\ DOMAIN reports' = DOMAIN reports \cup {report}
      /\ \A i \in DOMAIN reports : reports'[i] = reports[i]
      /\ reports'[report].key = serving.key /\ reports'[report].device = serving.device
      /\ serving # NoRequest /\ serving'.key = serving.key /\ serving'.device = serving.device
  BY DEF InsertEffect
<1>4. DeviceInv'
  BY <1>1, <1>2, <1>3 DEF DeviceInv
<1>5. RowInv'
  BY <1>1, <1>2 DEF RowInv, IsRow, HasRow, HasRows
<1>6. RefusedInv'
  BY <1>1, <1>2, <1>3 DEF RefusedInv
<1>7. AnswerInv'
  BY <1>1, <1>2, <1>3 DEF AnswerInv
<1>8. OutcomeInv'
  BY <1>1, <1>2, <1>3 DEF OutcomeInv
<1>9. QED BY <1>4, <1>5, <1>6, <1>7, <1>8 DEF PhoneInv

LEMMA AbandonKeepsPhone ==
  ASSUME PhoneInv, SameScenario, NEW abandoning \in SUBSET Passes,
         Abandoned(abandoning), UNCHANGED <<phoneVars, remembered, reports>>,
         \A p \in Passes \ abandoning : passes'[p] = passes[p],
         \A p \in abandoning :
           \/ passes'[p] = Idle
           \/ /\ passes[p].at = "await" /\ passes'[p].at = "answered"
              /\ passes'[p].row = passes[p].row /\ passes'[p].rows = passes[p].rows
              /\ passes'[p].answer.kind = "retry"
  PROVE  PhoneInv'
<1>1. DeviceInv /\ RowInv /\ RefusedInv /\ AnswerInv /\ OutcomeInv
  BY DEF PhoneInv
<1>2. /\ scenario'.passes = scenario.passes /\ scenario'.refused = scenario.refused
      /\ scenario'.startsWithId = scenario.startsWithId
      /\ UNCHANGED <<own, deviceId, aged, remembered, reports>>
  BY DEF SameScenario, phoneVars
<1>3. ASSUME NEW p \in Passes
      PROVE  \/ passes'[p] = passes[p]
             \/ passes'[p].at = "idle"
             \/ /\ passes[p].at = "await" /\ passes'[p].at = "answered"
                /\ passes'[p].row = passes[p].row /\ passes'[p].rows = passes[p].rows
                /\ passes'[p].answer.kind = "retry"
  BY DEF Idle
<1>4. DeviceInv'
  <2>1. \A n \in wire' : n.device = deviceId
    BY <1>1 DEF Abandoned, DeviceInv
  <2>2. serving' # NoRequest => serving'.device = deviceId
    BY <1>1 DEF Abandoned, DeviceInv
  <2>3. ASSUME NEW p \in Passes
        PROVE  /\ passes'[p].at # "idle" => p \in scenario.passes
               /\ passes'[p].at = "mint" => deviceId = 0
    BY <1>1, <1>3 DEF DeviceInv
  <2>4. QED BY <1>1, <1>2, <2>1, <2>2, <2>3 DEF DeviceInv
<1>5. RowInv'
  <2>1. ASSUME NEW p \in Passes
        PROVE  /\ HasRows(passes'[p]) => \A row \in passes'[p].rows : IsRow(row)
               /\ HasRow(passes'[p]) => IsRow(passes'[p].row)
    <3>1. CASE passes'[p] = passes[p]
      BY <1>1, <3>1 DEF RowInv
    <3>2. CASE passes'[p].at = "idle"
      BY <3>2 DEF HasRows, HasRow
    <3>3. CASE /\ passes[p].at = "await"
               /\ passes'[p].rows = passes[p].rows /\ passes'[p].row = passes[p].row
      <4>1. HasRows(passes[p]) /\ HasRow(passes[p])
        BY <3>3 DEF HasRows, HasRow
      <4>2. QED BY <1>1, <3>3, <4>1 DEF RowInv
    <3>4. QED BY <1>3, <3>1, <3>2, <3>3
  <2>2. \A row : IsRow(row) => IsRow(row)'
    BY <1>2 DEF IsRow
  <2>3. QED BY <2>1, <2>2 DEF RowInv, HasRow, HasRows
<1>6. RefusedInv'
  BY <1>1, <1>2 DEF RefusedInv, Abandoned
<1>7. AnswerInv'
  <2>1. ASSUME NEW p \in Passes, passes'[p].at = "answered"
        PROVE  passes'[p] = passes[p] \/ passes'[p].answer.kind = "retry"
    BY <1>3, <2>1
  <2>2. QED BY <1>1, <1>2, <2>1 DEF AnswerInv
<1>8. OutcomeInv'
  BY <1>1, <1>2 DEF OutcomeInv
<1>9. QED BY <1>4, <1>5, <1>6, <1>7, <1>8 DEF PhoneInv

\* A report is confirmed, a delay passes, a key ages: no row is settled by it.
LEMMA RowsGrow ==
  ASSUME SubmissionAssumption, TypeOK,
         Confirm \/ (\E i \in DOMAIN own : BecomesDue(i)) \/ (\E key \in Keys : Ages(key))
  PROVE  /\ aged \subseteq aged'
         /\ \A i \in DOMAIN own : i \in DOMAIN own' /\ own'[i].key = own[i].key
         /\ \A i \in DOMAIN own' :
              \/ own'[i].state = "queued"
              \/ /\ i \in DOMAIN own /\ own'[i].key = own[i].key
                 /\ own'[i].state = own[i].state /\ own'[i].report = own[i].report
<1>1. own \in Seq(Rows) /\ DOMAIN own = 1..Len(own) /\ Len(own) \in Nat
      /\ \A i \in DOMAIN own : own[i] \in Rows
  BY ElementOfSeq DEF TypeOK
<1>2. CASE Confirm
  <2>1. PICK row : row = [key |-> confirmed', state |-> "queued", due |-> TRUE, report |-> 0]
    OBVIOUS
  <2>2. own' = Append(own, row) /\ row.state = "queued"
    BY <1>2, <2>1 DEF Confirm, QueuedRow
  <2>3. row \in Rows
    BY <1>2, <2>1 DEF Confirm, QueuedRow, Rows, Keys, TypeOK, SubmissionAssumption
  <2>4. /\ Len(own') = Len(own) + 1 /\ own'[Len(own) + 1] = row
        /\ \A i \in DOMAIN own : own'[i] = own[i]
        /\ DOMAIN own' = 1..Len(own')
    BY <1>1, <2>2, <2>3, AppendProperties
  <2>5. DOMAIN own' = DOMAIN own \cup {Len(own) + 1}
    BY <1>1, <2>4
  <2>6. QED BY <1>2, <2>2, <2>4, <2>5 DEF Confirm, QueuedRow
<1>3. ASSUME NEW id \in DOMAIN own, BecomesDue(id)
      PROVE  /\ aged \subseteq aged'
             /\ \A i \in DOMAIN own : i \in DOMAIN own' /\ own'[i].key = own[i].key
             /\ \A i \in DOMAIN own' :
                   /\ i \in DOMAIN own /\ own'[i].key = own[i].key
                   /\ own'[i].state = own[i].state /\ own'[i].report = own[i].report
  <2>1. PICK row : row = [own[id] EXCEPT !.due = TRUE]
    OBVIOUS
  <2>2. /\ row \in Rows /\ row.key = own[id].key /\ row.state = own[id].state
        /\ row.report = own[id].report
    BY <1>1, <2>1 DEF Rows
  <2>3. own' = [own EXCEPT ![id] = row] /\ aged' = aged
    BY <1>3, <2>1 DEF BecomesDue
  <2>4. DOMAIN own' = DOMAIN own /\ own'[id] = row
        /\ \A i \in DOMAIN own : i # id => own'[i] = own[i]
    BY <1>1, <2>2, <2>3, RowSet
  <2>5. QED BY <2>2, <2>3, <2>4
<1>4. CASE \E key \in Keys : Ages(key)
  BY <1>4 DEF Ages
<1>5. QED BY <1>2, <1>3, <1>4

LEMMA RowsKeepPhone ==
  ASSUME SubmissionAssumption, TypeOK, PhoneInv,
         Confirm \/ (\E i \in DOMAIN own : BecomesDue(i)) \/ (\E key \in Keys : Ages(key))
  PROVE  PhoneInv'
<1>1. DeviceInv /\ RowInv /\ RefusedInv /\ AnswerInv /\ OutcomeInv
  BY DEF PhoneInv
<1>2. UNCHANGED <<deviceId, passes, wire, serving, remembered, reports, scenario>>
  BY DEF Confirm, QueuedRow, BecomesDue, Ages, serverVars
<1>3. /\ aged \subseteq aged'
      /\ \A i \in DOMAIN own : i \in DOMAIN own' /\ own'[i].key = own[i].key
      /\ \A i \in DOMAIN own' :
           \/ own'[i].state = "queued"
           \/ /\ i \in DOMAIN own /\ own'[i].key = own[i].key
              /\ own'[i].state = own[i].state /\ own'[i].report = own[i].report
  BY RowsGrow
<1>4. DeviceInv' /\ RefusedInv' /\ AnswerInv'
  BY <1>1, <1>2 DEF DeviceInv, RefusedInv, AnswerInv
<1>5. RowInv'
  <2>1. \A row : IsRow(row) => IsRow(row)'
    BY <1>3 DEF IsRow
  <2>2. QED BY <1>1, <1>2, <2>1 DEF RowInv, HasRow, HasRows
<1>6. OutcomeInv'
  BY <1>1, <1>2, <1>3 DEF OutcomeInv
<1>7. QED BY <1>4, <1>5, <1>6 DEF PhoneInv

LEMMA PhoneKept ==
  ASSUME SubmissionAssumption, TypeAndWire, ServerInv, PhoneInv, Step, ~DeleteAll
  PROVE  PhoneInv'
<1>1. TypeOK /\ WireInv /\ LeftInv /\ ScenarioTypeOK
  BY DEF TypeAndWire, TypeOK, ScenarioTypeOK
<1>2. SameScenario
  BY <1>1, ScenarioStep
<1>3. ASSUME NEW p \in Passes, PassStep(p)
      PROVE  PhoneInv'
  BY <1>1, <1>2, <1>3, PassStepEffect, PassKeepsPhone
<1>4. CASE AppDies \/ \E p \in Passes : Abandon(p)
  <2>1. PICK abandoning \in SUBSET Passes :
          /\ Abandoned(abandoning) /\ UNCHANGED <<phoneVars, remembered, reports>>
          /\ \A p \in Passes \ abandoning : passes'[p] = passes[p]
          /\ \A p \in abandoning :
               \/ passes'[p] = Idle
               \/ /\ passes[p].at = "await" /\ passes'[p].at = "answered"
                  /\ passes'[p].row = passes[p].row /\ passes'[p].rows = passes[p].rows
                  /\ passes'[p].answer.kind = "retry"
    BY <1>1, <1>4, AbandonEffect
  <2>2. QED BY <1>2, <2>1, AbandonKeepsPhone
<1>5. CASE (\E m \in wire : Lost(m)) \/ UNCHANGED vars
  <2>1. /\ wire' \subseteq wire
        /\ UNCHANGED <<own, deviceId, aged, passes, serving, remembered, reports, scenario>>
    BY <1>5 DEF Lost, vars, phoneVars, serverVars
  <2>2. QED
    BY <2>1 DEF PhoneInv, DeviceInv, RowInv, RefusedInv, AnswerInv, OutcomeInv, IsRow, HasRow, HasRows
<1>6. CASE FinishIdempotency \/ InsertFails \/ ServerDies
  BY <1>1, <1>2, <1>6, EndKeepsPhone
<1>7. CASE InsertPending
  BY <1>1, <1>7, Inserted, InsertKeepsPhone
<1>8. ASSUME NEW m \in wire, Receive(m)
      PROVE  PhoneInv'
  BY <1>1, <1>2, <1>8, ReceiveKeepsPhone
<1>9. CASE \/ Confirm \/ (\E i \in DOMAIN own : BecomesDue(i)) \/ (\E key \in Keys : Ages(key))
  BY <1>1, <1>9, RowsKeepPhone
<1>10. QED
  BY <1>3, <1>4, <1>5, <1>6, <1>7, <1>8, <1>9 DEF Step, PhoneStep, NetworkStep, ServesStep

----------------------------------------------------------------------------
(* From the first state on.                                                  *)

SubmissionInv == TypeAndWire /\ ServerInv /\ (Never("deletes") => PhoneInv)

LEMMA ScenarioStarts ==
  ASSUME SubmissionAssumption, NEW s \in Scenarios, scenario = WithAllLeft(s)
  PROVE  /\ ScenarioTypeOK /\ scenario.left = scenario.budget
         /\ scenario.startsWithId \/ \A p, q \in scenario.passes : p = q
         /\ scenario.screens # {} => scenario.budget["deletes"] = 0
<1>1. /\ s \in [passes : SUBSET Passes, screens : SUBSET Passes, refused : SUBSET Keys,
                keysAge : BOOLEAN, startsWithId : BOOLEAN, budget : [Events -> Nat]]
      /\ s.startsWithId \/ \A p, q \in s.passes : p = q
      /\ s.screens # {} => s.budget["deletes"] = 0
  BY DEF SubmissionAssumption
<1>2. DOMAIN s = {"passes", "screens", "refused", "keysAge", "startsWithId", "budget"}
  BY <1>1
<1>3. scenario = [x \in DOMAIN s \cup {"left"} |-> IF x = "left" THEN s.budget ELSE s[x]]
  BY DEF WithAllLeft
<1>4. /\ scenario.passes = s.passes /\ scenario.screens = s.screens
      /\ scenario.refused = s.refused /\ scenario.keysAge = s.keysAge
      /\ scenario.startsWithId = s.startsWithId /\ scenario.budget = s.budget
      /\ scenario.left = s.budget
  BY <1>2, <1>3
<1>5. PICK t : t = [passes |-> s.passes, screens |-> s.screens, refused |-> s.refused,
                    keysAge |-> s.keysAge, startsWithId |-> s.startsWithId,
                    budget |-> s.budget, left |-> s.budget]
  OBVIOUS
<1>6. scenario = t
  BY <1>2, <1>3, <1>5
<1>7. t \in [passes : SUBSET Passes, screens : SUBSET Passes, refused : SUBSET Keys,
             keysAge : BOOLEAN, startsWithId : BOOLEAN, budget : [Events -> Nat],
             left : [Events -> Nat]]
  BY <1>1, <1>5
<1>8. QED BY <1>1, <1>4, <1>6, <1>7 DEF ScenarioTypeOK

LEMMA SubmissionStarts ==
  ASSUME SubmissionAssumption, Init
  PROVE  SubmissionInv
<1>1. PICK s \in Scenarios : scenario = WithAllLeft(s)
  BY DEF Init
<1>2. /\ ScenarioTypeOK /\ scenario.left = scenario.budget
      /\ scenario.startsWithId \/ \A p, q \in scenario.passes : p = q
  BY <1>1, ScenarioStarts
<1>3. /\ own = <<>> /\ confirmed = 0 /\ aged = {} /\ wire = {} /\ serving = NoRequest
      /\ remembered = {} /\ reports = <<>>
      /\ deviceId = (IF scenario.startsWithId THEN 1 ELSE 0) /\ identities = deviceId
  BY DEF Init
<1>4. passes \in [Passes -> PassStates] /\ \A p \in Passes : passes[p] = Idle
  <2>1. passes = [p \in Passes |-> Idle] /\ Idle \in PassStates
    BY DEF Init, PassStates, Idle
  <2>2. QED BY <2>1
<1>5. \A i : i \notin DOMAIN own /\ i \notin DOMAIN reports
  BY <1>3
<1>6. TypeOK
  <2>1. own \in Seq(Rows) /\ reports \in Seq([key : Keys, device : Devices])
    BY <1>3
  <2>2. QED BY <1>2, <1>3, <1>4, <2>1 DEF TypeOK, ScenarioTypeOK, SubmissionAssumption
<1>7. LeftInv /\ WireInv
  <2>1. scenario.left["deletes"] \in Nat
    BY <1>2 DEF ScenarioTypeOK, Events
  <2>2. QED BY <1>2, <1>3, <2>1 DEF LeftInv, WireInv
<1>8. ServerInv
  BY <1>3, <1>5 DEF ServerInv, OnePerDevice, RememberedInv, ServingInv, FiledFor
<1>9. \A p \in Passes : passes[p].at = "idle"
  BY <1>4 DEF Idle
<1>10. DeviceInv
  BY <1>2, <1>3, <1>5, <1>9 DEF DeviceInv
<1>11. RowInv /\ RefusedInv /\ AnswerInv /\ OutcomeInv
  BY <1>3, <1>5, <1>9 DEF RowInv, RefusedInv, AnswerInv, OutcomeInv, HasRow, HasRows
<1>12. QED BY <1>6, <1>7, <1>8, <1>10, <1>11 DEF SubmissionInv, TypeAndWire, PhoneInv

LEMMA SubmissionGoesOn ==
  ASSUME SubmissionAssumption, SubmissionInv, [Next]_screenVars
  PROVE  SubmissionInv'
<1>1. Step
  BY StepOfScreen
<1>2. TypeAndWire /\ ServerInv /\ (Never("deletes") => PhoneInv)
  BY DEF SubmissionInv
<1>3. TypeAndWire' /\ ServerInv'
  BY <1>1, <1>2, WireKept, ServerKept
<1>4. ScenarioTypeOK /\ LeftInv
  BY <1>2 DEF TypeAndWire, TypeOK, ScenarioTypeOK
<1>5. CASE ~DeleteAll
  <2>1. Never("deletes")' => Never("deletes")
    BY <1>1, <1>4, <1>5, ScenarioStep
  <2>2. Never("deletes")' => PhoneInv'
    BY <1>1, <1>2, <1>5, <2>1, PhoneKept
  <2>3. QED BY <1>3, <2>2 DEF SubmissionInv
<1>6. CASE DeleteAll
  <2>1. ~Never("deletes")'
    BY <1>1, <1>4, <1>6, ScenarioStep
  <2>2. QED BY <1>3, <2>1 DEF SubmissionInv
<1>7. QED BY <1>5, <1>6

LEMMA SubmissionInvariant == SubmissionAssumption /\ Spec => []SubmissionInv
<1>1. SubmissionAssumption /\ ScreenInit => SubmissionInv
  BY SubmissionStarts DEF ScreenInit
<1>2. SubmissionAssumption /\ SubmissionInv /\ [Next]_screenVars => SubmissionInv'
  BY SubmissionGoesOn
<1>3. QED BY SubmissionAssumption, <1>1, <1>2, PTL DEF Spec

\* The tables, the passes and the requests have the types the code gives them.
THEOREM SubmissionTypeCorrect == Spec => []TypeOK
<1>1. SubmissionInv => TypeOK
  BY DEF SubmissionInv, TypeAndWire
<1>2. QED BY SubmissionAssumption, SubmissionInvariant, <1>1, PTL

\* However requests are repeated, abandoned and answered late, and wherever the server
\* dies between its three statements, one key of one device is filed once; not even a
\* phone that deletes its data changes that.
THEOREM KeyFiledOncePerDevice == Spec => []OnePerDevice
<1>1. SubmissionInv => OnePerDevice
  BY DEF SubmissionInv, ServerInv
<1>2. QED BY SubmissionAssumption, SubmissionInvariant, <1>1, PTL

\* A confirmed report is filed at most once by a phone that keeps its device id.
THEOREM ReportFiledOnce == Spec => []AtMostOneReport
<1>1. SubmissionInv => AtMostOneReport
  BY DEF SubmissionInv, ServerInv, OnePerDevice, PhoneInv, DeviceInv, AtMostOneReport
<1>2. QED BY SubmissionAssumption, SubmissionInvariant, <1>1, PTL

\* A row that says its report is active names the report that was filed for it.
THEOREM AcknowledgedIsFiled == Spec => []AcknowledgedUnlessDeleted
<1>1. ASSUME SubmissionInv
      PROVE  AcknowledgedUnlessDeleted
  <2>1. SUFFICES ASSUME Never("deletes"), NEW i \in DOMAIN own, own[i].state = "active"
                 PROVE  reports[own[i].report] = [key |-> own[i].key, device |-> deviceId]
    BY DEF AcknowledgedUnlessDeleted, AcknowledgedIsOwn
  <2>2. DeviceInv /\ OutcomeInv /\ TypeOK
    BY <1>1, <2>1 DEF SubmissionInv, TypeAndWire, PhoneInv
  <2>3. own[i].report \in DOMAIN reports /\ reports[own[i].report].key = own[i].key
    BY <2>1, <2>2 DEF OutcomeInv
  <2>4. reports[own[i].report].device = deviceId
    BY <2>2, <2>3 DEF DeviceInv
  <2>5. PICK Report : Report = [key : Keys, device : Devices]
    OBVIOUS
  <2>6. reports \in Seq(Report)
    BY <2>2, <2>5 DEF TypeOK
  <2>7. reports[own[i].report] \in Report
    BY <2>3, <2>6, ElementOfSeq
  <2>8. QED BY <2>3, <2>4, <2>5, <2>7
<1>2. QED BY SubmissionAssumption, SubmissionInvariant, <1>1, PTL

\* A row that failed while its key lived was refused, and what is refused is never filed.
THEOREM FailedIsNotFiled == Spec => []FailedNeverAccepted
<1>1. SubmissionInv => FailedNeverAccepted
  BY DEF SubmissionInv, PhoneInv, OutcomeInv, RefusedInv, FailedNeverAccepted
<1>2. QED BY SubmissionAssumption, SubmissionInvariant, <1>1, PTL

----------------------------------------------------------------------------
(* What the screen says.                                                     *)

Filed(key) == \E i \in DOMAIN reports : reports[i].key = key

ScreenTypeOK ==
  screen \in [at : {"closed", "editing", "sending", "queued", "submitted", "rejected"}, row : Nat,
              pass : Passes \cup {NoPass}, said : {"nothing", "acknowledged", "failed"},
              missed : BOOLEAN]

\* No data is deleted where a screen is watched.
WatchedInv ==
  /\ screen.at # "closed" \/ screen.pass # NoPass => scenario.screens # {}
  /\ screen.row # NoRow => screen.at # "closed"
  /\ scenario.screens # {} => scenario.budget["deletes"] = 0

\* What the pass of the screen said of its row is so, and so is the phase it left behind.
SaidInv ==
  screen.row # NoRow =>
    /\ screen.row \in DOMAIN own
    /\ screen.said = "acknowledged" \/ screen.at = "submitted" => Filed(own[screen.row].key)
    /\ screen.said = "failed" \/ screen.at = "rejected" =>
         own[screen.row].key \in aged \cup scenario.refused

ScreenInv == SubmissionInv /\ ScreenTypeOK /\ WatchedInv /\ SaidInv

\* Rows, reports and aged keys stay.
LEMMA TablesGrow ==
  ASSUME SubmissionAssumption, TypeAndWire, Step, ~DeleteAll
  PROVE  /\ \A i \in DOMAIN own : i \in DOMAIN own' /\ own'[i].key = own[i].key
         /\ \A key : Filed(key) => Filed(key)'
         /\ aged \subseteq aged'
<1>1. TypeOK /\ WireInv
  BY DEF TypeAndWire
<1>2. CASE \/ Confirm \/ (\E i \in DOMAIN own : BecomesDue(i)) \/ (\E key \in Keys : Ages(key))
  <2>1. reports' = reports
    BY <1>2 DEF Confirm, QueuedRow, BecomesDue, Ages, serverVars
  <2>2. QED BY <1>1, <1>2, <2>1, RowsGrow DEF Filed
<1>3. ASSUME NEW p \in Passes, PassStep(p)
      PROVE  /\ \A i \in DOMAIN own : i \in DOMAIN own' /\ own'[i].key = own[i].key
             /\ \A key : Filed(key) => Filed(key)'
             /\ aged \subseteq aged'
  <2>1. PassEffect(p)
    BY <1>1, <1>3, PassStepEffect
  <2>2. QED BY <2>1 DEF PassEffect, OutcomeEffect, Filed, serverVars
<1>4. CASE InsertPending
  <2>1. PICK report \in Nat : InsertEffect(report)
    BY <1>1, <1>4, Inserted
  <2>2. QED BY <2>1 DEF InsertEffect, Filed, phoneVars
<1>5. CASE \/ NetworkStep \/ FinishIdempotency \/ InsertFails \/ ServerDies \/ UNCHANGED vars
           \/ \E m \in wire : Receive(m)
  <2>1. UNCHANGED <<own, aged, reports>>
    BY <1>5 DEF NetworkStep, AppDies, Abandon, Lost, FinishIdempotency, InsertFails, ServerDies, Receive,
      vars, phoneVars, serverVars
  <2>2. QED BY <2>1 DEF Filed
<1>6. QED BY <1>2, <1>3, <1>4, <1>5 DEF Step, PhoneStep, ServesStep

\* The screen is closed or newly opened, has a row of its own now, or goes on with its row,
\* of which it says no more than it did or what is so.
ScreenEffect ==
  \/ screen'.row = NoRow
  \/ screen'.row \in DOMAIN own' /\ screen'.at = "sending" /\ screen'.said = "nothing"
  \/ /\ screen'.row = screen.row
     /\ screen'.said = "acknowledged" \/ screen'.at = "submitted" =>
          \/ screen.said = "acknowledged" \/ screen.at = "submitted"
          \/ screen.row # NoRow => Filed(own[screen.row].key)
     /\ screen'.said = "failed" \/ screen'.at = "rejected" =>
          \/ screen.said = "failed" \/ screen.at = "rejected"
          \/ screen.row # NoRow => own[screen.row].key \in aged \cup scenario.refused

LEMMA ScreenSet ==
  ASSUME ScreenTypeOK, NEW at, NEW pass, NEW said, NEW missed
  PROVE  /\ [screen EXCEPT !.pass = pass].at = screen.at
         /\ [screen EXCEPT !.pass = pass].row = screen.row
         /\ [screen EXCEPT !.pass = pass].said = screen.said
         /\ [screen EXCEPT !.said = said].at = screen.at
         /\ [screen EXCEPT !.said = said].pass = screen.pass
         /\ [screen EXCEPT !.said = said].row = screen.row
         /\ [screen EXCEPT !.said = said].said = said
         /\ [screen EXCEPT !.missed = missed].at = screen.at
         /\ [screen EXCEPT !.missed = missed].pass = screen.pass
         /\ [screen EXCEPT !.missed = missed].row = screen.row
         /\ [screen EXCEPT !.missed = missed].said = screen.said
         /\ [screen EXCEPT !.at = at, !.pass = pass, !.said = said].at = at
         /\ [screen EXCEPT !.at = at, !.pass = pass, !.said = said].row = screen.row
         /\ [screen EXCEPT !.at = at, !.pass = pass, !.said = said].said = said
         /\ [screen EXCEPT !.at = at, !.pass = pass, !.said = said, !.missed = missed].at = at
         /\ [screen EXCEPT !.at = at, !.pass = pass, !.said = said, !.missed = missed].row = screen.row
         /\ [screen EXCEPT !.at = at, !.pass = pass, !.said = said, !.missed = missed].said = said
BY DEF ScreenTypeOK

LEMMA ScreenStays ==
  ASSUME screen' = screen
  PROVE  ScreenEffect
BY DEF ScreenEffect

\* A pass says what its step did to its row.
LEMMA SaysEffect ==
  ASSUME TypeOK, ScreenTypeOK, PhoneInv, NEW p \in Passes, HasRow(passes[p]),
         NEW outcome \in {"nothing", "acknowledged", "failed"}, Says(p, outcome),
         outcome = "acknowledged" => Filed(passes[p].row.key),
         outcome = "failed" => passes[p].row.key \in aged \cup scenario.refused
  PROVE  ScreenTypeOK' /\ screen'.at = screen.at /\ screen'.pass = screen.pass /\ ScreenEffect
<1>1. IsRow(passes[p].row)
  BY DEF PhoneInv, RowInv
<1>2. CASE Waiting /\ passes[p].row.id = screen.row /\ screen' = [screen EXCEPT !.said = outcome]
  <2>1. ScreenTypeOK'
    BY <1>2 DEF ScreenTypeOK
  <2>2. /\ screen'.at = screen.at /\ screen'.row = screen.row /\ screen'.said = outcome
        /\ screen'.pass = screen.pass
    BY <1>2, ScreenSet
  <2>3. own[screen.row].key = passes[p].row.key
    BY <1>1, <1>2 DEF IsRow
  <2>4. QED BY <2>1, <2>2, <2>3 DEF ScreenEffect
<1>3. CASE screen' = [screen EXCEPT !.missed = TRUE]
  <2>1. ScreenTypeOK'
    BY <1>3 DEF ScreenTypeOK
  <2>2. /\ screen'.at = screen.at /\ screen'.row = screen.row /\ screen'.said = screen.said
        /\ screen'.pass = screen.pass
    BY <1>3, ScreenSet
  <2>3. QED BY <2>1, <2>2 DEF ScreenEffect
<1>4. CASE screen' = screen
  BY <1>4, ScreenStays DEF ScreenTypeOK
<1>5. QED BY <1>2, <1>3, <1>4 DEF Says

LEMMA PassTells ==
  ASSUME ScreenAssumption, TypeOK, ScreenTypeOK, PhoneInv, NEW p \in Passes,
         ScreenPass(p) \/ WakePass(p) \/ PassGoesOn(p) \/ Throws(p)
  PROVE  /\ ScreenTypeOK' /\ ScreenEffect
         /\ screen'.at # "closed" \/ screen'.pass # NoPass =>
              screen.at # "closed" \/ screen.pass # NoPass \/ p \in scenario.screens
         /\ screen.at # "closed" => screen'.at # "closed"
<1>1. CASE ScreenPass(p)
  <2>1. screen' = [screen EXCEPT !.pass = p] /\ p \in scenario.screens
    BY <1>1 DEF ScreenPass
  <2>2. ScreenTypeOK'
    BY <2>1 DEF ScreenTypeOK
  <2>3. screen'.at = screen.at /\ screen'.row = screen.row /\ screen'.said = screen.said
    BY <2>1, ScreenSet
  <2>4. QED BY <2>1, <2>2, <2>3 DEF ScreenEffect
<1>2. CASE screen' = screen
  BY <1>2, ScreenStays DEF ScreenTypeOK
<1>3. CASE GivesUp(p)
  <2>1. passes[p].at = "check" /\ passes[p].row.key \in aged /\ Says(p, "failed")
    BY <1>3 DEF GivesUp, GiveUp, TooOld
  <2>2. HasRow(passes[p])
    BY <2>1 DEF HasRow
  <2>3. PICK outcome \in {"nothing", "acknowledged", "failed"} : outcome = "failed"
    OBVIOUS
  <2>4. QED BY <2>1, <2>2, <2>3, SaysEffect
<1>4. CASE Records(p)
  <2>1. passes[p].at = "answered" /\ Says(p, Outcome(passes[p].answer))
    BY <1>4 DEF Records, RecordAnswer
  <2>2. HasRow(passes[p]) /\ passes[p].answer.kind \in {"ok", "retry", "rejected"}
    <3>1. passes[p] \in PassStates
      BY DEF TypeOK
    <3>2. passes[p].answer \in Answers
      BY <2>1, <3>1, PassShapes
    <3>3. QED BY <2>1, <3>2 DEF HasRow, Answers
  <2>3. PICK outcome : outcome = Outcome(passes[p].answer)
    OBVIOUS
  <2>4. /\ outcome \in {"nothing", "acknowledged", "failed"}
        /\ outcome = "acknowledged" => passes[p].answer.kind = "ok"
        /\ outcome = "failed" => passes[p].answer.kind = "rejected"
    BY <2>2, <2>3 DEF Outcome
  <2>5. /\ outcome = "acknowledged" => Filed(passes[p].row.key)
        /\ outcome = "failed" => passes[p].row.key \in aged \cup scenario.refused
    BY <2>1, <2>4 DEF PhoneInv, AnswerInv, Filed
  <2>6. QED BY <2>1, <2>2, <2>3, <2>4, <2>5, SaysEffect
<1>5. CASE Ends(p) /\ screen' # screen
  <2>1. /\ screen.pass = p /\ p # NoPass
        /\ screen' = [screen EXCEPT !.at = PhaseAfter(screen.said), !.pass = NoPass, !.said = "nothing"]
    BY <1>5 DEF Ends, ScreenAssumption
  <2>2. PICK at : at = PhaseAfter(screen.said)
    OBVIOUS
  <2>3. /\ at \in {"submitted", "rejected", "queued"}
        /\ at = "submitted" => screen.said = "acknowledged"
        /\ at = "rejected" => screen.said = "failed"
    BY <2>2 DEF PhaseAfter, ScreenTypeOK
  <2>4. screen' = [screen EXCEPT !.at = at, !.pass = NoPass, !.said = "nothing"]
    BY <2>1, <2>2
  <2>5. ScreenTypeOK'
    BY <2>3, <2>4 DEF ScreenTypeOK
  <2>6. screen'.at = at /\ screen'.row = screen.row /\ screen'.said = "nothing"
    BY <2>4, ScreenSet
  <2>7. QED BY <2>1, <2>3, <2>5, <2>6 DEF ScreenEffect
<1>6. CASE Throws(p) /\ screen' # screen
  <2>1. PICK missed : missed = (screen.missed \/ screen.said # "nothing")
    OBVIOUS
  <2>2. /\ screen.pass = p /\ p # NoPass
        /\ screen' = [screen EXCEPT !.at = "queued", !.pass = NoPass, !.said = "nothing", !.missed = missed]
    BY <1>6, <2>1 DEF Throws, ScreenAssumption
  <2>3. missed \in BOOLEAN
    BY <2>1
  <2>4. ScreenTypeOK'
    BY <2>2, <2>3 DEF ScreenTypeOK
  <2>5. screen'.at = "queued" /\ screen'.row = screen.row /\ screen'.said = "nothing"
    BY <2>2, ScreenSet
  <2>6. QED BY <2>2, <2>4, <2>5 DEF ScreenEffect
<1>7. QED
  BY <1>1, <1>2, <1>3, <1>4, <1>5, <1>6 DEF WakePass, PassGoesOn

LEMMA ClosedScreen ==
  LET Screens == [at : {"closed", "editing", "sending", "queued", "submitted", "rejected"},
                  row : Nat, pass : Passes \cup {NoPass},
                  said : {"nothing", "acknowledged", "failed"}, missed : BOOLEAN]
  IN /\ Closed \in Screens /\ Closed.at = "closed" /\ Closed.row = NoRow
     /\ Closed.pass = NoPass /\ Closed.said = "nothing"
     /\ \A at \in {"editing", "sending", "rejected"} :
          LET opened == [Closed EXCEPT !.at = at]
          IN /\ opened \in Screens /\ opened.at = at /\ opened.row = NoRow
             /\ opened.pass = NoPass /\ opened.said = "nothing"
     /\ \A row \in Nat :
          LET opened == [Closed EXCEPT !.at = "sending", !.row = row]
          IN /\ opened \in Screens /\ opened.at = "sending" /\ opened.row = row
             /\ opened.pass = NoPass /\ opened.said = "nothing"
BY Zenon DEF Closed, NoRow

\* Where no screen is watched none opens.
LEMMA UnwatchedStays ==
  ASSUME ScreenAssumption, WatchedInv, scenario.screens = {}, Next
  PROVE  screen' = screen \/ screen' = Closed
<1>1. screen.at = "closed" /\ screen.pass = NoPass
  BY DEF WatchedInv
<1>2. ~Waiting /\ ~MayPress
  BY <1>1 DEF Waiting, MayPress
<1>3. ASSUME NEW p \in Passes, ScreenPass(p) \/ WakePass(p) \/ PassGoesOn(p) \/ Throws(p)
      PROVE  screen' = screen
  <2>1. screen.pass # p
    BY <1>1 DEF ScreenAssumption
  <2>2. QED
    BY <1>2, <1>3, <2>1 DEF ScreenPass, WakePass, PassGoesOn, Throws, GivesUp, Records, Ends, Says
<1>4. QED BY <1>1, <1>2, <1>3 DEF Next, Opens, Leaves, Press, SaveFails, Enqueued, PhoneDies

LEMMA ScreenStepEffect ==
  ASSUME ScreenAssumption, SubmissionAssumption, ScreenInv, Next
  PROVE  ScreenTypeOK' /\ WatchedInv' /\ ScreenEffect
<1>1. /\ ScreenTypeOK /\ WatchedInv /\ TypeOK /\ ScenarioTypeOK /\ LeftInv
      /\ scenario'.screens = scenario.screens /\ scenario'.budget = scenario.budget
  <2>1. /\ ScreenTypeOK /\ WatchedInv /\ TypeOK /\ ScenarioTypeOK /\ LeftInv
    BY DEF ScreenInv, SubmissionInv, TypeAndWire, TypeOK, ScenarioTypeOK
  <2>2. QED BY <2>1, StepOfScreen, ScenarioStep DEF SameScenario
<1>2. ASSUME ScreenTypeOK', screen'.pass = NoPass, screen'.said = "nothing",
             screen'.row # NoRow => screen'.at = "sending" /\ screen'.row \in DOMAIN own',
             screen'.at # "closed" => scenario.screens # {}
      PROVE  ScreenTypeOK' /\ WatchedInv' /\ ScreenEffect
  BY <1>1, <1>2 DEF WatchedInv, ScreenEffect
<1>3. CASE screen' = Closed \/ Leaves \/ PhoneDies
  <2>1. screen' = Closed
    BY <1>3 DEF Leaves, PhoneDies
  <2>2. QED BY <1>2, <2>1, ClosedScreen, Zenon DEF ScreenTypeOK
<1>4. CASE screen' = screen
  BY <1>1, <1>4, ScreenStays DEF ScreenTypeOK, WatchedInv
<1>5. CASE scenario.screens = {}
  BY <1>1, <1>3, <1>4, <1>5, UnwatchedStays
<1>6. CASE scenario.screens # {}
  <2>1. PhoneInv
    <3>1. scenario.left["deletes"] \in Nat /\ scenario.budget["deletes"] = 0
      BY <1>1, <1>6 DEF ScenarioTypeOK, Events, WatchedInv
    <3>2. Never("deletes")
      BY <1>1, <3>1 DEF LeftInv, Never
    <3>3. QED BY <3>2 DEF ScreenInv, SubmissionInv
  <2>2. CASE Opens \/ SaveFails
    <3>1. PICK at \in {"editing", "rejected"} : screen' = [Closed EXCEPT !.at = at]
      BY <2>2 DEF Opens, SaveFails
    <3>2. QED BY <1>2, <1>6, <3>1, ClosedScreen, Zenon DEF ScreenTypeOK
  <2>3. CASE Press
    <3>1. PICK row : row = Len(own')
      OBVIOUS
    <3>2. screen' = [Closed EXCEPT !.at = "sending", !.row = row]
      BY <2>3, <3>1 DEF Press
    <3>3. row \in Nat /\ row \in DOMAIN own'
      <4>1. own \in Seq(Rows)
        BY <1>1 DEF TypeOK
      <4>2. PICK new : own' = Append(own, new)
        BY <2>3 DEF Press, Confirm, QueuedRow
      <4>3. Len(own') = Len(own) + 1 /\ Len(own) \in Nat /\ DOMAIN own' = 1..Len(own')
        BY <4>1, <4>2
      <4>4. QED BY <3>1, <4>3
    <3>4. QED BY <1>2, <1>6, <3>2, <3>3, ClosedScreen, Zenon DEF ScreenTypeOK
  <2>4. ASSUME NEW p \in Passes, ScreenPass(p) \/ WakePass(p) \/ PassGoesOn(p) \/ Throws(p)
        PROVE  ScreenTypeOK' /\ WatchedInv' /\ ScreenEffect
    <3>1. /\ ScreenTypeOK' /\ ScreenEffect
          /\ screen.at # "closed" => screen'.at # "closed"
          /\ screen'.row # NoRow => screen.row # NoRow \/ screen'.at # "closed"
      BY <1>1, <2>1, <2>4, PassTells DEF ScreenEffect
    <3>2. WatchedInv'
      BY <1>1, <1>6, <3>1 DEF WatchedInv
    <3>3. QED BY <3>1, <3>2
  <2>5. QED BY <1>3, <1>4, <2>2, <2>3, <2>4 DEF Next, Enqueued
<1>7. QED BY <1>5, <1>6

LEMMA ScreenGoesOn ==
  ASSUME ScreenAssumption, SubmissionAssumption, ScreenInv, [Next]_screenVars
  PROVE  ScreenInv'
<1>1. /\ SubmissionInv' /\ ScreenTypeOK /\ WatchedInv /\ SaidInv /\ Step
      /\ TypeAndWire /\ LeftInv /\ ScenarioTypeOK
  BY SubmissionGoesOn, StepOfScreen
     DEF ScreenInv, SubmissionInv, TypeAndWire, TypeOK, ScenarioTypeOK
<1>2. ScreenTypeOK' /\ WatchedInv' /\ ScreenEffect
  <2>1. CASE Next
    BY <2>1, ScreenStepEffect
  <2>2. CASE UNCHANGED screenVars
    <3>1. screen' = screen /\ scenario' = scenario
      BY <2>2 DEF screenVars, vars
    <3>2. QED BY <1>1, <3>1, ScreenStays DEF ScreenTypeOK, WatchedInv
  <2>3. QED BY <2>1, <2>2
<1>3. scenario'.refused = scenario.refused /\ scenario'.screens = scenario.screens
      /\ scenario'.budget = scenario.budget
  BY <1>1, ScenarioStep DEF SameScenario
<1>4. SaidInv'
  <2>1. SUFFICES ASSUME screen'.row # NoRow
                 PROVE  SaidInv'
    BY DEF SaidInv
  <2>2. scenario.screens # {} /\ scenario.budget["deletes"] = 0
    BY <1>2, <1>3, <2>1 DEF WatchedInv
  <2>3. ~DeleteAll
    <3>1. scenario.left["deletes"] \in Nat /\ scenario.left["deletes"] <= 0
      BY <1>1, <2>2 DEF ScenarioTypeOK, Events, LeftInv
    <3>2. QED BY <3>1 DEF DeleteAll, Spend
  <2>4. /\ \A i \in DOMAIN own : i \in DOMAIN own' /\ own'[i].key = own[i].key
        /\ \A key : Filed(key) => Filed(key)'
        /\ aged \subseteq aged'
    BY <1>1, <2>3, TablesGrow
  <2>5. CASE screen'.row \in DOMAIN own' /\ screen'.at = "sending" /\ screen'.said = "nothing"
    BY <2>5 DEF SaidInv
  <2>6. CASE screen'.row = screen.row
    <3>1. screen.row \in DOMAIN own' /\ own'[screen.row].key = own[screen.row].key
      BY <1>1, <2>1, <2>4, <2>6 DEF SaidInv
    <3>2. CASE /\ screen'.said = "acknowledged" \/ screen'.at = "submitted" =>
                    Filed(own[screen.row].key)
               /\ screen'.said = "failed" \/ screen'.at = "rejected" =>
                    own[screen.row].key \in aged \cup scenario.refused
      BY <1>3, <2>4, <2>6, <3>1, <3>2 DEF SaidInv
    <3>3. CASE screen'.at = "sending" /\ screen'.said = "nothing"
      BY <2>6, <3>1, <3>3 DEF SaidInv
    <3>4. QED BY <1>1, <1>2, <2>1, <2>6, <3>2, <3>3 DEF SaidInv, ScreenEffect
  <2>7. QED BY <1>2, <2>1, <2>5, <2>6 DEF ScreenEffect
<1>5. QED BY <1>1, <1>2, <1>4 DEF ScreenInv

\* The screen says "submitted" only of a report the server holds, and lets the reporter
\* press again only when the server does not, as long as the key lives: part of
\* OutcomeIsShown, whose other part is liveness.
THEOREM WhatIsShownIsTrue == Spec => []ShownIsTrue
<1>1. ScreenAssumption /\ SubmissionAssumption /\ ScreenInit => ScreenInv
  <2>1. SUFFICES ASSUME ScreenAssumption, SubmissionAssumption, ScreenInit
                 PROVE  ScreenInv
    OBVIOUS
  <2>2. SubmissionInv /\ screen = Closed
    BY <2>1, SubmissionStarts DEF ScreenInit
  <2>3. ScreenTypeOK /\ screen.at = "closed" /\ screen.row = NoRow /\ screen.pass = NoPass
    BY <2>2, ClosedScreen, Zenon DEF ScreenTypeOK
  <2>4. PICK s \in Scenarios : scenario = WithAllLeft(s)
    BY <2>1 DEF ScreenInit, Init
  <2>5. scenario.screens # {} => scenario.budget["deletes"] = 0
    BY <2>1, <2>4, ScenarioStarts
  <2>6. QED BY <2>2, <2>3, <2>5 DEF ScreenInv, WatchedInv, SaidInv
<1>2. ScreenAssumption /\ SubmissionAssumption /\ ScreenInv /\ [Next]_screenVars => ScreenInv'
  BY ScreenGoesOn
<1>3. ScreenInv => ShownIsTrue
  <2>1. SUFFICES ASSUME ScreenInv, screen.row # NoRow, own[screen.row].key \notin aged
                 PROVE  /\ screen.at = "submitted" => Filed(own[screen.row].key)
                        /\ screen.at = "rejected" => ~Filed(own[screen.row].key)
    BY DEF ShownIsTrue, Filed
  <2>2. PhoneInv
    <3>1. WatchedInv /\ ScenarioTypeOK /\ LeftInv
      BY <2>1 DEF ScreenInv, SubmissionInv, TypeAndWire, TypeOK, ScenarioTypeOK
    <3>2. scenario.left["deletes"] \in Nat /\ scenario.budget["deletes"] = 0
      BY <2>1, <3>1 DEF ScenarioTypeOK, Events, WatchedInv
    <3>3. Never("deletes")
      BY <3>1, <3>2 DEF LeftInv, Never
    <3>4. QED BY <2>1, <3>3 DEF ScreenInv, SubmissionInv
  <2>3. QED BY <2>1, <2>2 DEF ScreenInv, SaidInv, PhoneInv, RefusedInv, Filed
<1>4. QED BY SubmissionAssumption, ScreenAssumption, <1>1, <1>2, <1>3, PTL DEF Spec


----------------------------------------------------------------------------
(* The form: its rules, the schema and the retention, for every form.        *)

\* What a form with nothing to correct has been found to be.
LEMMA NothingToCorrect ==
  ASSUME NEW values \in ReportFormValues, NEW now \in Int, ValidateForm(values, now) = {}
  PROVE  /\ ~(values.name = 0 \/ values.name > MaxName) /\ ~(values.phone # "e164")
         /\ ~(values.location = None \/ ~OnTheMap(values.location))
         /\ ~TooLongAgo(values, now) /\ ~InTheFuture(values, now)
         /\ ~(values.description.typed > MaxDescription) /\ ~(Len(values.photos) > MaxPhotos)
<1> DEFINE name == values.name = 0 \/ values.name > MaxName
           phone == values.phone # "e164"
           location == values.location = None \/ ~OnTheMap(values.location)
           date == ParseLocalDateTime(values.date, Midnight) = None \/ TooLongAgo(values, now)
           time == ParseLocalDateTime(LeapDay, values.time) = None \/ InTheFuture(values, now)
           description == values.description.typed > MaxDescription
           photos == Len(values.photos) > MaxPhotos
           wrong == [name |-> name, phone |-> phone, location |-> location, date |-> date,
                     time |-> time, description |-> description, photos |-> photos]
<1>1. {field \in DOMAIN wrong : wrong[field]} = {}
  BY DEF ValidateForm
<1>2. DOMAIN wrong = {"name", "phone", "location", "date", "time", "description", "photos"}
  OBVIOUS
<1>3. /\ wrong["name"] = name /\ wrong["phone"] = phone /\ wrong["location"] = location
      /\ wrong["date"] = date /\ wrong["time"] = time
      /\ wrong["description"] = description /\ wrong["photos"] = photos
  OBVIOUS
<1> HIDE DEF wrong
<1>4. \A field \in DOMAIN wrong : ~wrong[field]
  BY <1>1
<1> HIDE DEF name, phone, location, date, time, description, photos
<1>5. ~name /\ ~phone /\ ~location /\ ~date /\ ~time /\ ~description /\ ~photos
  BY <1>2, <1>3, <1>4, Zenon
<1>6. QED BY <1>5 DEF name, phone, location, date, time, description, photos

\* A form with nothing to correct makes a request the schema accepts, about a time phones still
\* keep and none that is to come, for every form, every time zone, every clock that has run for a
\* retention, and every limit: form.ts and shared/src/api/reports.ts agree.
THEOREM FormMakesItsRequest ==
  ASSUME NEW values \in ReportFormValues, NEW now \in Nat, now >= RetentionSec
  PROVE  MakesItsRequest(values, now)
<1>1. SUFFICES ASSUME ValidateForm(values, now) = {}, When(values) # None
               PROVE  /\ BuildRequest(values, now) = Request(values, now)
                      /\ Request(values, now).from >= now - RetentionSec
                      /\ Request(values, now).to <= now
  BY DEF MakesItsRequest
<1>2. /\ values.name \in Nat /\ values.name # 0 /\ values.name <= MaxName /\ values.phone = "e164"
      /\ OnTheMap(values.location) /\ ~TooLongAgo(values, now) /\ ~InTheFuture(values, now)
      /\ values.description.trimmed \in Nat /\ values.description.typed \in Nat
      /\ values.description.trimmed <= values.description.typed
      /\ values.description.typed <= MaxDescription
      /\ values.photos \in Seq(PersonPhotos) /\ Len(values.photos) <= MaxPhotos
  <2>1. /\ values.name \in Nat /\ values.photos \in Seq(PersonPhotos)
        /\ values.description \in {d \in [typed : Nat, trimmed : Nat] : d.trimmed <= d.typed}
    BY DEF ReportFormValues
  <2>2. /\ values.description.typed \in Nat /\ values.description.trimmed \in Nat
        /\ values.description.trimmed <= values.description.typed
        /\ Len(values.photos) \in Nat
    BY <2>1
  <2>3. MaxName \in Nat /\ MaxDescription \in Nat /\ MaxPhotos \in Nat
    BY FormAssumption
  <2>4. values.name # 0 /\ values.name <= MaxName /\ values.phone = "e164"
    BY <1>1, <2>1, <2>3, NothingToCorrect
  <2>5. OnTheMap(values.location) /\ ~TooLongAgo(values, now) /\ ~InTheFuture(values, now)
    BY <1>1, NothingToCorrect
  <2>6. values.description.typed <= MaxDescription /\ Len(values.photos) <= MaxPhotos
    BY <1>1, <2>2, <2>3, NothingToCorrect
  <2>7. QED BY <2>1, <2>2, <2>4, <2>5, <2>6
<1>3. When(values) \in Int
  <2>1. When(values) = LocalMoment(values.date, HourOf(values.time), values.time.minute)
        /\ values.date \in Dates /\ IsTime(values.time)
    BY <1>1 DEF When, ParseLocalDateTime
  <2>2. HourOf(values.time) \in 0 .. 23 /\ values.time.minute \in 0 .. 59
    <3>1. /\ values.time.hour \in 0 .. 99 /\ values.time.minute \in 0 .. 99
          /\ values.time.half \in {"none", "am", "pm"}
      BY <2>1 DEF IsTime, TypedTimes
    <3>2. values.time.hour % 12 \in 0 .. 11
      BY <3>1
    <3>3. QED BY <2>1, <3>1, <3>2 DEF IsTime, HourOf
  <2>3. QED BY <1>1, <2>1, <2>2, FormAssumption
<1> DEFINE at == When(values)
           from == at - WindowBefore
           to == Lesser(at + WindowAfter, now)
<1>4. /\ WindowBefore \in Nat /\ WindowAfter \in Nat /\ RetentionSec \in Nat
      /\ WindowBefore <= WindowAfter /\ WindowBefore + WindowAfter <= RetentionSec
  BY FormAssumption
<1>5. at <= now /\ now - at <= RetentionSec - WindowAfter
  BY <1>1, <1>2, <1>3, <1>4 DEF InTheFuture, TooLongAgo
<1>6. /\ from \in Nat /\ to \in Nat /\ from <= to /\ to - from <= RetentionSec
      /\ from >= now - RetentionSec /\ to <= now
  <2> HIDE DEF at
  <2>1. at \in Int
    BY <1>3 DEF at
  <2>2. QED BY <1>4, <1>5, <2>1 DEF Lesser
<1> DEFINE radius == Lesser(DefaultRadius, MaxRadius)
           sent == IF values.photos = <<>> THEN None ELSE values.photos
<1>7. radius \in 0 .. MaxRadius
  BY FormAssumption DEF Lesser
<1>8. \/ sent = None
      \/ Len(sent) \in 1 .. MaxPhotos /\ \A i \in DOMAIN sent : sent[i] \in PersonPhotos
  <2>1. CASE values.photos = <<>>
    BY <2>1
  <2>2. CASE values.photos # <<>>
    <3>1. Len(values.photos) \in Nat /\ Len(values.photos) # 0
      BY <1>2, <2>2, EmptySeq
    <3>2. \A i \in DOMAIN values.photos : values.photos[i] \in PersonPhotos
      BY <1>2, ElementOfSeq, LenProperties
    <3>3. QED BY <1>2, <2>2, <3>1, <3>2, FormAssumption
  <2>3. QED BY <2>1, <2>2
<1>9. /\ Request(values, now).center = values.location /\ Request(values, now).radius = radius
      /\ Request(values, now).from = from /\ Request(values, now).to = to
      /\ Request(values, now).name = values.name
      /\ Request(values, now).description = values.description.trimmed
      /\ Request(values, now).photos = sent /\ Request(values, now).phone = values.phone
  BY DEF Request
<1> HIDE DEF at, from, to, radius, sent
<1>10. RequestFits(Request(values, now))
  <2>1. TimeWindowFits(Request(values, now).from, Request(values, now).to)
    BY <1>6, <1>9 DEF TimeWindowFits
  <2>2. PersonFits(Request(values, now))
    <3>1. MaxName \in Nat /\ MaxDescription \in Nat
      BY FormAssumption
    <3>2. values.name \in 1 .. MaxName
      BY <1>2, <3>1
    <3>3. values.description.trimmed \in 0 .. MaxDescription
      BY <1>2, <3>1
    <3>4. QED BY <1>8, <1>9, <3>2, <3>3 DEF PersonFits
  <2>3. QED BY <1>2, <1>7, <1>9, <2>1, <2>2 DEF RequestFits
<1>11. QED BY <1>1, <1>6, <1>9, <1>10 DEF BuildRequest
=============================================================================
