----------------------------- MODULE Responses -----------------------------
(***************************************************************************)
(* The tips of one report: posted by devices through the idempotency table, *)
(* held or delivered by moderation, decided by the operator, and read page  *)
(* by page by the reporter's phone, whose fetches may overlap and die.      *)
(*                                                                         *)
(* The server handles one request at a time, so a request is one step; the  *)
(* phone saves a page and its cursor in statements of their own.  A tip is  *)
(* named by the device it is from.                                          *)
(***************************************************************************)
EXTENDS Naturals, Sequences, FiniteSetsExt

CONSTANTS
  Devices,    \* the devices that may answer the report
  Keys,       \* idempotency keys a device may use
  PageSize,   \* RESPONSE_PAGE_SIZE
  Fetches,    \* fetches of the reporter's phone that may overlap
  MaxStops    \* bound on fetches that die

ASSUME ResponsesAssumption == PageSize \in Nat \ {0} /\ MaxStops \in Nat

VARIABLES
  review,      \* reports.review_state
  status,      \* reports.status
  rows,        \* table responses
  nextSeq,     \* the next seq (AUTOINCREMENT)
  reviews,     \* table response_reviews, by device
  remembered,  \* table idempotency: was the request accepted?
  received,    \* the phone's table received_response
  cursor,      \* the phone's own_report.responses_cursor, 0 for none
  fetching,    \* where each fetch is
  stops        \* fetches that may still die

reportVars == <<review, status>>
serverVars == <<reportVars, rows, nextSeq, reviews, remembered>>
phoneVars == <<received, cursor, fetching, stops>>
vars == <<serverVars, phoneVars>>

Idle == [at |-> "idle"]
RowOf(d) == {x \in rows : x.device = d}

-----------------------------------------------------------------------------
(* The report *)

MayDecideAgain(verdict) == verdict = "released" => status = "active"  \* mutant: a decision is not final

MayDecide(verdict) == review = "pending" /\ (verdict = "released" => status = "active")

Decide(verdict) ==
  /\ MayDecide(verdict)
  /\ review' = verdict
  /\ UNCHANGED <<status, rows, nextSeq, reviews, remembered, phoneVars>>

\* Ended by its reporter, or found expired by the first read after expires_at.
Closes(how) ==
  /\ status = "active"
  /\ status' = how
  /\ UNCHANGED <<review, rows, nextSeq, reviews, remembered, phoneVars>>

-----------------------------------------------------------------------------
(* Tips *)

MayInsertAny(d) == review = "released" /\ status = "active"  \* mutant: a device may answer again

\* One response per (report, device), held ones included.
MayInsert(d) == review = "released" /\ status = "active" /\ RowOf(d) = {}

Insert(d, moderation) ==
  /\ rows' = rows \cup {[seq |-> nextSeq, device |-> d, moderation |-> moderation]}
  /\ nextSeq' = nextSeq + 1

\* Moderation is any verdict; a refusal is remembered under the key like an acceptance.
Post(d, key) ==
  /\ \A x \in remembered : <<x.device, x.key>> # <<d, key>>
  /\ \/ MayInsert(d) /\ \E moderation \in {"delivered", "held"} : Insert(d, moderation)
     \/ ~MayInsert(d) /\ UNCHANGED <<rows, nextSeq>>
  /\ remembered' = remembered \cup {[device |-> d, key |-> key, accepted |-> MayInsert(d)]}
  /\ UNCHANGED <<reportVars, reviews, phoneVars>>

\* A held response the operator has not decided yet.
Undecided(d) == {x \in RowOf(d) : x.moderation = "held" /\ reviews[d] = "none"}

DeliveredInPlace(row) == [row EXCEPT !.moderation = "delivered"]  \* mutant: the row keeps its seq

\* Deleted and inserted again, so that it takes a new seq.
Delivered(row) == [seq |-> nextSeq, device |-> row.device, moderation |-> "delivered"]

ReleaseHeldResponse(d) ==
  /\ \E row \in Undecided(d) : rows' = (rows \ {row}) \cup {Delivered(row)}
  /\ nextSeq' = nextSeq + 1
  /\ reviews' = [reviews EXCEPT ![d] = "released"]
  /\ UNCHANGED <<reportVars, remembered, phoneVars>>

RejectHeldResponse(d) ==
  /\ Undecided(d) # {}
  /\ reviews' = [reviews EXCEPT ![d] = "rejected"]
  /\ UNCHANGED <<reportVars, rows, nextSeq, remembered, phoneVars>>

-----------------------------------------------------------------------------
(* The reporter reads *)

ListedAny(after) == {x \in rows : x.seq > after}  \* mutant: held rows are listed

ListDelivered(after) == {x \in rows : x.moderation = "delivered" /\ x.seq > after}

Page(after) == {x \in ListDelivered(after) : Cardinality({y \in ListDelivered(after) : y.seq < x.seq}) < PageSize}

CursorGivenBack(after) == after  \* mutant: the last row is looked for past the end of the page

\* The seq of the last row of the page, or the cursor that was given.
NextCursor(after) == Max({after} \cup {x.seq : x \in Page(after)})

ListResponses(f) ==
  /\ fetching[f] = Idle
  /\ fetching' = [fetching EXCEPT ![f] =
       [at |-> "save", tips |-> {x.device : x \in Page(cursor)}, cursor |-> NextCursor(cursor)]]
  /\ UNCHANGED <<serverVars, received, cursor, stops>>

SaveReceivedResponses(f) ==
  /\ fetching[f].at = "save"
  /\ received' = received \cup fetching[f].tips
  /\ fetching' = [fetching EXCEPT ![f].at = "cursor"]
  /\ UNCHANGED <<serverVars, cursor, stops>>

SetResponsesCursor(f) ==
  /\ fetching[f].at = "cursor"
  /\ cursor' = fetching[f].cursor
  /\ fetching' = [fetching EXCEPT ![f] = Idle]
  /\ UNCHANGED <<serverVars, received, stops>>

FetchStops(f) ==
  /\ fetching[f] # Idle /\ stops > 0
  /\ stops' = stops - 1
  /\ fetching' = [fetching EXCEPT ![f] = Idle]
  /\ UNCHANGED <<serverVars, received, cursor>>

-----------------------------------------------------------------------------

Init ==
  /\ review = "pending" /\ status = "active"
  /\ rows = {} /\ nextSeq = 1 /\ reviews = [d \in Devices |-> "none"] /\ remembered = {}
  /\ received = {} /\ cursor = 0 /\ fetching = [f \in Fetches |-> Idle] /\ stops = MaxStops

FetchStep(f) == ListResponses(f) \/ SaveReceivedResponses(f) \/ SetResponsesCursor(f)

Next ==
  \/ \E verdict \in {"released", "rejected"} : Decide(verdict)
  \/ \E how \in {"ended", "expired"} : Closes(how)
  \/ \E d \in Devices : (\E key \in Keys : Post(d, key)) \/ ReleaseHeldResponse(d) \/ RejectHeldResponse(d)
  \/ \E f \in Fetches : FetchStep(f) \/ FetchStops(f)

Spec == Init /\ [][Next]_vars

\* The reporter goes on reading, one fetch after the other.
FairSpec == Spec /\ \A f \in Fetches : WF_vars(FetchStep(f))

-----------------------------------------------------------------------------
(* Properties *)

\* Every variable holds a value of its type, and no seq is used twice.
TypeOK ==
  /\ review \in {"pending", "released", "rejected"} /\ status \in {"active", "ended", "expired"}
  /\ rows \subseteq [seq : 1..(nextSeq - 1), device : Devices, moderation : {"delivered", "held"}]
  /\ \A x, y \in rows : x.seq = y.seq => x = y
  /\ reviews \in [Devices -> {"none", "released", "rejected"}]
  /\ remembered \subseteq [device : Devices, key : Keys, accepted : BOOLEAN]
  /\ received \subseteq Devices /\ cursor \in 0..(nextSeq - 1)

\* A device has one response to the report, whatever keys it sends and whatever the
\* operator does with the first; and one exactly when a request of it was accepted.
OneTipEach ==
  \A d \in Devices :
    /\ Cardinality(RowOf(d)) <= 1
    /\ RowOf(d) # {} <=> \E x \in remembered : x.device = d /\ x.accepted

\* A delivered response is never behind the cursor of a reporter who has not got it,
\* not even one released after the reporter read past where it was held.
NothingSkipped == \A x \in rows : x.moderation = "delivered" /\ x.seq <= cursor => x.device \in received

\* What is held, and what the operator rejected, never reaches the reporter.
HeldIsNeverRead == \A d \in received : \A x \in RowOf(d) : x.moderation = "delivered" /\ reviews[d] # "rejected"

\* The operator's decision on a response is final.
DecisionIsFinal == [][\A d \in Devices : reviews[d] # "none" => reviews'[d] = reviews[d]]_reviews

\* Every delivered response reaches the reporter, though fetches overlap and die.
EveryTipIsRead == \A d \in Devices : (\E x \in RowOf(d) : x.moderation = "delivered") ~> d \in received
=============================================================================
