-------------------------- MODULE ReportSubmission --------------------------
(***************************************************************************)
(* How a confirmed report reaches the server once: the durable queue on the *)
(* phone (own_report), passes over it that may overlap, an HTTP request     *)
(* that may be abandoned and still arrive, and the server's idempotency     *)
(* table, whose statements commit one by one.                               *)
(*                                                                         *)
(* A key is the submit itself: minted when the report is confirmed and sent *)
(* with every attempt.  Waiting is abstracted to whether a row is due and   *)
(* whether a key has outlived IDEMPOTENCY_KEY_TTL_SEC.                      *)
(***************************************************************************)
EXTENDS Naturals, Sequences, FiniteSetsExt, TLC

CONSTANTS
  Passes,      \* calls of runSubmitQueue that may overlap
  MaxReports,  \* bound on reports confirmed
  Scenarios    \* where a behaviour starts and what may happen in it

Keys == 1..MaxReports

Events == {"abandoned",     \* requests given up on
           "storeErrors",   \* statements of a pass that fail
           "kills",         \* deaths of the app
           "serverErrors",  \* requests answered 500
           "serverDeaths",  \* deaths of the server while it serves a request
           "deletes"}       \* "Delete all my data"

Nobody == "nobody"   \* waits for the answer to an abandoned request

\* Two passes that both find no device id would each mint one; the statements of one
\* driver do not interleave so, and such a phone has one pass.
ASSUME SubmissionAssumption ==
  /\ MaxReports \in Nat /\ Nobody \notin Passes
  /\ \A s \in Scenarios :
       /\ s \in [passes : SUBSET Passes,
                 screens : SUBSET Passes,    \* the passes a submit screen may start
                 refused : SUBSET Keys,      \* the keys whose report the server refuses
                 keysAge : BOOLEAN,          \* may a key outlive its time to live?
                 startsWithId : BOOLEAN,     \* does the store hold a device id?
                 budget : [Events -> Nat]]
       /\ s.screens \subseteq s.passes
       /\ s.screens # {} => s.budget.deletes = 0
       /\ s.startsWithId \/ \A p, q \in s.passes : p = q

VARIABLES
  own,         \* table own_report, by id
  deviceId,    \* kv identity.device_id, or 0
  identities,  \* device ids minted so far
  confirmed,   \* keys minted so far
  aged,        \* keys older than IDEMPOTENCY_KEY_TTL_SEC
  passes,      \* where each pass is
  wire,        \* requests on their way to the server
  serving,     \* the request the server is in the middle of
  remembered,  \* table idempotency; report 0 is a request that has not finished
  reports,     \* table reports, by id
  scenario     \* the one this behaviour follows, and what is left of its events

phoneVars == <<own, deviceId, identities, confirmed, aged>>
serverVars == <<serving, remembered, reports>>
vars == <<phoneVars, passes, wire, serverVars, scenario>>

Idle == [at |-> "idle"]
NoRequest == [key |-> 0]

Spend(event) == scenario.left[event] > 0 /\ scenario' = [scenario EXCEPT !.left[event] = @ - 1]
Never(event) == scenario.left[event] = scenario.budget[event]

-----------------------------------------------------------------------------
(* The phone *)

\* A new row, due now.
QueuedRow(key) == [key |-> key, state |-> "queued", due |-> TRUE, report |-> 0]

Confirm ==
  /\ confirmed < MaxReports
  /\ confirmed' = confirmed + 1
  /\ own' = Append(own, QueuedRow(confirmed'))
  /\ UNCHANGED <<deviceId, identities, aged, passes, wire, serverVars, scenario>>

RequeuedNone == own  \* mutant: rows a killed process left are not looked for

\* Rows in `sending` go back to `queued`, due now, whoever put them there.
Requeued ==
  [i \in DOMAIN own |-> IF own[i].state = "sending"
                          THEN [own[i] EXCEPT !.state = "queued", !.due = TRUE] ELSE own[i]]

PassStarts(p) ==
  /\ p \in scenario.passes /\ passes[p] = Idle
  /\ own' = Requeued
  /\ passes' = [passes EXCEPT ![p] = [at |-> "list"]]
  /\ UNCHANGED <<deviceId, identities, confirmed, aged, wire, serverVars, scenario>>

\* The pass keeps the rows as it read them.
ListDue(p) ==
  /\ passes[p].at = "list"
  /\ passes' = [passes EXCEPT ![p] =
       [at |-> "take",
        rows |-> {[id |-> i, key |-> own[i].key] : i \in {j \in DOMAIN own : own[j].state = "queued" /\ own[j].due}}]]
  /\ UNCHANGED <<phoneVars, wire, serverVars, scenario>>

PassEnds(p) ==
  /\ passes[p].at = "take" /\ passes[p].rows = {}
  /\ passes' = [passes EXCEPT ![p] = Idle]
  /\ UNCHANGED <<phoneVars, wire, serverVars, scenario>>

Oldest(rows) == CHOOSE row \in rows : \A other \in rows : row.id <= other.id

MarkSending(p) ==
  /\ passes[p].at = "take" /\ passes[p].rows # {}
  /\ LET row == Oldest(passes[p].rows)
         rest == passes[p].rows \ {row}
     IN  IF row.id \in DOMAIN own /\ own[row.id].state = "queued"
           THEN /\ own' = [own EXCEPT ![row.id].state = "sending"]
                /\ passes' = [passes EXCEPT ![p] = [at |-> "check", rows |-> rest, row |-> row]]
           ELSE /\ passes' = [passes EXCEPT ![p] = [at |-> "take", rows |-> rest]]
                /\ UNCHANGED own
  /\ UNCHANGED <<deviceId, identities, confirmed, aged, wire, serverVars, scenario>>

\* Every outcome is written WHERE id = ? AND state = 'sending'.
StillSending(id) == id \in DOMAIN own /\ own[id].state = "sending"

Acknowledged(query) == [state |-> "active", report |-> query]

Settle(id, state, query, due) ==
  own' = IF StillSending(id)
           THEN [own EXCEPT ![id] = [key |-> @.key, state |-> state, due |-> due, report |-> query]]
           ELSE own

Continue(p) == passes' = [passes EXCEPT ![p] = [at |-> "take", rows |-> @.rows]]

\* A key the server may have forgotten must not be retried.
TooOld(key) == key \in aged

GiveUp(p) ==
  /\ passes[p].at = "check" /\ TooOld(passes[p].row.key)
  /\ Settle(passes[p].row.id, "failed", 0, FALSE)
  /\ Continue(p)
  /\ UNCHANGED <<deviceId, identities, confirmed, aged, wire, serverVars, scenario>>

Send(p, device) ==
  /\ wire' = wire \cup {[key |-> passes[p].row.key, device |-> device, by |-> p]}
  /\ passes' = [passes EXCEPT ![p].at = "await"]

ReadIdentity(p) ==
  /\ passes[p].at = "check" /\ ~TooOld(passes[p].row.key)
  /\ IF deviceId # 0 THEN Send(p, deviceId)
     ELSE passes' = [passes EXCEPT ![p].at = "mint"] /\ UNCHANGED wire
  /\ UNCHANGED <<phoneVars, serverVars, scenario>>

MintIdentity(p) ==
  /\ passes[p].at = "mint"
  /\ identities' = identities + 1 /\ deviceId' = identities'
  /\ Send(p, deviceId')
  /\ UNCHANGED <<own, confirmed, aged, serverVars, scenario>>

RecordAnswer(p) ==
  /\ passes[p].at = "answered"
  /\ LET id == passes[p].row.id
         answer == passes[p].answer
     IN  \/ answer.kind = "ok"
            /\ Settle(id, Acknowledged(answer.report).state, Acknowledged(answer.report).report, FALSE)
         \/ answer.kind = "retry" /\ Settle(id, "queued", 0, FALSE)
         \/ answer.kind = "rejected" /\ Settle(id, "failed", 0, FALSE)
  /\ Continue(p)
  /\ UNCHANGED <<deviceId, identities, confirmed, aged, wire, serverVars, scenario>>

\* The delay a retry waits has passed.
BecomesDue(i) ==
  /\ own[i].state = "queued" /\ ~own[i].due
  /\ own' = [own EXCEPT ![i].due = TRUE]
  /\ UNCHANGED <<deviceId, identities, confirmed, aged, passes, wire, serverVars, scenario>>

Ages(key) ==
  /\ scenario.keysAge /\ key \in 1..confirmed \ aged
  /\ aged' = aged \cup {key}
  /\ UNCHANGED <<own, deviceId, identities, confirmed, passes, wire, serverVars, scenario>>

\* Nothing waits for these requests any more; they may still arrive.
Orphan(abandoning) ==
  /\ wire' = {[m EXCEPT !.by = IF @ \in abandoning THEN Nobody ELSE @] : m \in wire}
  /\ serving' = IF serving = NoRequest THEN serving
                ELSE [serving EXCEPT !.by = IF @ \in abandoning THEN Nobody ELSE @]

\* The timeout, a lost connection, an unreadable answer.
Abandon(p) ==
  /\ passes[p].at = "await"
  /\ Spend("abandoned")
  /\ Orphan({p})
  /\ passes' = [passes EXCEPT ![p] = [at |-> "answered", rows |-> @.rows, row |-> @.row,
                                      answer |-> [kind |-> "retry", report |-> 0]]]
  /\ UNCHANGED <<phoneVars, remembered, reports>>

\* A statement throws, and the pass with it; the row is left for the next one.
StoreFails(p) ==
  /\ passes[p].at \in {"list", "take", "check", "mint", "answered"}
  /\ Spend("storeErrors")
  /\ passes' = [passes EXCEPT ![p] = Idle]
  /\ UNCHANGED <<phoneVars, wire, serverVars>>

AppDies ==
  /\ \E p \in Passes : passes[p] # Idle
  /\ Spend("kills")
  /\ Orphan(Passes)
  /\ passes' = [p \in Passes |-> Idle]
  /\ UNCHANGED <<phoneVars, remembered, reports>>

\* A pass in progress goes on with whichever store is current.
DeleteAll ==
  /\ Spend("deletes")
  /\ own' = <<>> /\ deviceId' = 0
  /\ UNCHANGED <<identities, confirmed, aged, passes, wire, serverVars>>

-----------------------------------------------------------------------------
(* The server, which handles one request at a time *)

Answer(m, kind, report) ==
  passes' = IF m.by = Nobody THEN passes
            ELSE [passes EXCEPT ![m.by] = [at |-> "answered", rows |-> @.rows, row |-> @.row,
                                           answer |-> [kind |-> kind, report |-> report]]]

Lost(m) ==
  /\ m \in wire /\ m.by = Nobody
  /\ wire' = wire \ {m}
  /\ UNCHANGED <<phoneVars, passes, serverVars, scenario>>

EarlierOfDevice(m) ==  \* mutant: keys are looked up by device alone
  {x \in remembered : x.device = m.device}

EarlierFinished(m) ==  \* mutant: a request that never finished leaves its key free
  {x \in remembered : x.device = m.device /\ x.key = m.key /\ x.report # 0}

\* What is remembered under (device, key).
Earlier(m) == {x \in remembered : x.device = m.device /\ x.key = m.key}

WhileInProgressFinal == "rejected"  \* mutant: idempotency_in_progress is not retryable

WhileInProgress == "retry"

\* A refusal comes before the idempotency table is read.
Receive(m) ==
  /\ serving = NoRequest /\ m \in wire
  /\ wire' = wire \ {m}
  /\ \/ /\ m.key \in scenario.refused
        /\ Answer(m, "rejected", 0)
        /\ UNCHANGED <<serving, remembered>>
     \/ /\ m.key \notin scenario.refused
        /\ \E x \in Earlier(m) :
             IF x.report = 0 THEN Answer(m, WhileInProgress, 0) ELSE Answer(m, "ok", x.report)
        /\ UNCHANGED <<serving, remembered>>
     \/ /\ m.key \notin scenario.refused /\ Earlier(m) = {}
        /\ remembered' = remembered \cup {[device |-> m.device, key |-> m.key, report |-> 0]}
        /\ serving' = [key |-> m.key, device |-> m.device, by |-> m.by, report |-> 0]
        /\ UNCHANGED passes
  /\ UNCHANGED <<phoneVars, reports, scenario>>

InsertPending ==
  /\ serving # NoRequest /\ serving.report = 0
  /\ reports' = Append(reports, [key |-> serving.key, device |-> serving.device])
  /\ serving' = [serving EXCEPT !.report = Len(reports')]
  /\ UNCHANGED <<phoneVars, passes, wire, remembered, scenario>>

Unfinished(m) == {x \in remembered : x.device = m.device /\ x.key = m.key /\ x.report = 0}

FinishIdempotency ==
  /\ serving # NoRequest /\ serving.report # 0
  /\ remembered' = {x \in remembered : x \notin Unfinished(serving)}
                     \cup {[device |-> serving.device, key |-> serving.key, report |-> serving.report]}
  /\ Answer(serving, "ok", serving.report)
  /\ serving' = NoRequest
  /\ UNCHANGED <<phoneVars, wire, reports, scenario>>

\* The insert throws: the key is forgotten and the answer is a 500.
InsertFails ==
  /\ serving # NoRequest /\ serving.report = 0
  /\ Spend("serverErrors")
  /\ remembered' = remembered \ Unfinished(serving)
  /\ Answer(serving, "retry", 0)
  /\ serving' = NoRequest
  /\ UNCHANGED <<phoneVars, wire, reports>>

\* Or its last write fails: nobody clears the key.
ServerDies ==
  /\ serving # NoRequest
  /\ Spend("serverDeaths")
  /\ Answer(serving, "retry", 0)
  /\ serving' = NoRequest
  /\ UNCHANGED <<phoneVars, wire, remembered, reports>>

-----------------------------------------------------------------------------

WithAllLeft(s) == [x \in DOMAIN s \cup {"left"} |-> IF x = "left" THEN s.budget ELSE s[x]]

Init ==
  /\ scenario \in {WithAllLeft(s) : s \in Scenarios}
  /\ own = <<>> /\ confirmed = 0 /\ aged = {}
  /\ deviceId = (IF scenario.startsWithId THEN 1 ELSE 0) /\ identities = deviceId
  /\ passes = [p \in Passes |-> Idle]
  /\ wire = {} /\ serving = NoRequest /\ remembered = {} /\ reports = <<>>

ServerStep == InsertPending \/ FinishIdempotency \/ \E m \in wire : Receive(m)

-----------------------------------------------------------------------------
(* Types *)

Rows == [key : Keys, state : {"queued", "sending", "active", "failed"}, due : BOOLEAN,
         report : Nat]
Taken == [id : Nat, key : Keys]
Answers == [kind : {"ok", "retry", "rejected"}, report : Nat]
PassStates ==
  [at : {"idle", "list"}]
  \cup [at : {"take"}, rows : SUBSET Taken]
  \cup [at : {"check", "mint", "await"}, rows : SUBSET Taken, row : Taken]
  \cup [at : {"answered"}, rows : SUBSET Taken, row : Taken, answer : Answers]

Devices == Nat \ {0}
Requests == [key : Keys, device : Devices, by : Passes \cup {Nobody}]
Served == [key : Keys, device : Devices, by : Passes \cup {Nobody}, report : Nat]

TypeOK ==
  /\ own \in Seq(Rows) /\ confirmed \in 0..MaxReports /\ aged \subseteq Keys
  /\ deviceId \in Nat /\ identities \in Nat /\ deviceId <= identities
  /\ passes \in [Passes -> PassStates]
  /\ wire \subseteq Requests /\ serving \in {NoRequest} \cup Served
  /\ remembered \subseteq [device : Devices, key : Keys, report : Nat]
  /\ reports \in Seq([key : Keys, device : Devices])
  /\ scenario \in [passes : SUBSET Passes, screens : SUBSET Passes, refused : SUBSET Keys,
                   keysAge : BOOLEAN, startsWithId : BOOLEAN, budget : [Events -> Nat],
                   left : [Events -> Nat]]

-----------------------------------------------------------------------------
(* Properties *)

\* However often a submit is sent, by overlapping passes, after a kill or a server
\* that died half way, the server files it once, as long as the phone keeps its id.
AtMostOneReport ==
  Never("deletes") => \A i, j \in DOMAIN reports : reports[i].key = reports[j].key => i = j

\* An acknowledged row shows the report that was filed for it, under the device id
\* this phone has, the only one that may edit or end it.
AcknowledgedIsOwn ==
  \A i \in DOMAIN own : own[i].state = "active" =>
    reports[own[i].report] = [key |-> own[i].key, device |-> deviceId]

\* It is so on a phone whose data was never deleted.
AcknowledgedUnlessDeleted == Never("deletes") => AcknowledgedIsOwn

\* "sending -> failed: final failure; the server never accepted the report": so it is
\* of a row that failed within the life of its key.
FailedNeverAccepted ==
  Never("deletes") => \A i \in DOMAIN own : own[i].state = "failed" /\ own[i].key \notin aged => \A j \in DOMAIN reports : reports[j].key # own[i].key

Settled(row) == row.state \in {"active", "failed"}

\* A request the server died in the middle of keeps its key until it expires.
Unfinishable(key) == \E x \in remembered : x.key = key /\ x.device = deviceId /\ x.report = 0
=============================================================================
