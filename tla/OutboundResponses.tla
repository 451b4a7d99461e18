------------------------- MODULE OutboundResponses -------------------------
(* The phones that answer a report (shared/src/store/tables/outboundResponse): *)
(* a tip is queued once the user has confirmed it, and sent under one key by *)
(* attempts that may fail, be cut off with the app, or reach the server long *)
(* after the phone has given them up; a finished tip is purged after a while. *)
(*                                                                           *)
(* The queue's statements are the code's; the sender that will issue them,   *)
(* which the app does not have yet, follows the table's state machine.  Of   *)
(* the times of a row only their age is kept: past the retention or not.     *)
EXTENDS Responses

VARIABLES
  outbound,   \* table outbound_response, by device: one row per report
  attempting, \* the devices with an attempt in progress
  requests    \* requests on their way to the server

outboundVars == <<outbound, attempting, requests>>

NoTip == [state |-> "none"]
States == {"queued", "sending", "sent", "failed"}

SetState(d, state) == outbound' = [outbound EXCEPT ![d].state = state]

\* A device queues at most one tip for the report; the key is a new one.
EnqueueResponse(d) ==
  /\ review = "released"  \* the phone has the report
  /\ outbound[d] = NoTip
  /\ \E key \in Keys :
       /\ <<d, key>> \notin requests
       /\ outbound' = [outbound EXCEPT ![d] =
            [state |-> "queued", key |-> key, due |-> TRUE, createdAged |-> FALSE, sentAged |-> FALSE]]
  /\ UNCHANGED <<vars, attempting, requests>>

IsDue(d) == outbound[d].state = "queued" /\ outbound[d].due

MarkResponseSending(d) ==
  /\ IsDue(d) /\ d \notin attempting
  /\ SetState(d, "sending")
  /\ attempting' = attempting \cup {d}
  /\ requests' = requests \cup {<<d, outbound[d].key>>}
  /\ UNCHANGED vars

AnsweredAnew(d, key, accepted) == accepted /\ status = "active"  \* mutant: judged again, not replayed

\* The answer under a key is the one remembered, whatever became of the report since.
Answer(d, key, accepted) == accepted

\* The server has answered the request of the attempt.
Learns(d, accepted) ==
  /\ d \in attempting
  /\ \E x \in remembered : /\ x.device = d /\ x.key = outbound[d].key
                           /\ Answer(d, x.key, x.accepted) = accepted
  /\ attempting' = attempting \ {d}

\* Only now may the app say "sent".
MarkResponseSent(d) ==
  /\ Learns(d, TRUE)
  /\ outbound[d].state = "sending"
  /\ SetState(d, "sent")
  /\ UNCHANGED <<vars, requests>>

\* The error is one that no retry can help.
MarkResponseFailed(d) ==
  /\ Learns(d, FALSE)
  /\ outbound[d].state = "sending"
  /\ SetState(d, "failed")
  /\ UNCHANGED <<vars, requests>>

\* No answer, or a retryable error: the request may still reach the server.
MarkResponseRetry(d) ==
  /\ d \in attempting
  /\ outbound[d].state = "sending"
  /\ outbound' = [outbound EXCEPT ![d].state = "queued", ![d].due = FALSE]
  /\ attempting' = attempting \ {d}
  /\ UNCHANGED <<vars, requests>>

NextAttemptComes(d) ==
  /\ outbound[d].state = "queued" /\ ~outbound[d].due
  /\ outbound' = [outbound EXCEPT ![d].due = TRUE]
  /\ UNCHANGED <<vars, attempting, requests>>

\* The app is ended in the middle of an attempt, and started again.
SenderDies(d) ==
  /\ d \in attempting
  /\ attempting' = attempting \ {d}
  /\ UNCHANGED <<vars, outbound, requests>>

\* Startup recovery: sending again is safe because the key is unchanged.
RequeueInterruptedResponses(d) ==
  /\ d \notin attempting
  /\ outbound[d].state = "sending"
  /\ outbound' = [outbound EXCEPT ![d].state = "queued", ![d].due = TRUE]
  /\ UNCHANGED <<vars, attempting, requests>>

\* The retention passes since the tip was queued, or since it was sent.
Ages(d) ==
  /\ outbound[d].state \in States
  /\ \/ ~outbound[d].createdAged
        /\ outbound' = [outbound EXCEPT ![d].createdAged = TRUE]
     \/ outbound[d].state = "sent" /\ outbound[d].createdAged /\ ~outbound[d].sentAged
        /\ outbound' = [outbound EXCEPT ![d].sentAged = TRUE]
  /\ UNCHANGED <<vars, attempting, requests>>

\* coalesce(sent_at, created_at): a failed tip is as old as its confirmation.
Finished(d) ==
  \/ outbound[d].state = "sent" /\ outbound[d].sentAged
  \/ outbound[d].state = "failed" /\ outbound[d].createdAged

DeleteFinishedResponses(d) ==
  /\ Finished(d)
  /\ outbound' = [outbound EXCEPT ![d] = NoTip]
  /\ UNCHANGED <<vars, attempting, requests>>

\* A request arrives, perhaps long after its attempt; one answered before is replayed.
RequestArrives(d, key) ==
  /\ <<d, key>> \in requests
  /\ Post(d, key)
  /\ UNCHANGED outboundVars

OutboundInit == outbound = [d \in Devices |-> NoTip] /\ attempting = {} /\ requests = {}

SendStep(d) ==
  \/ EnqueueResponse(d) \/ MarkResponseSending(d) \/ MarkResponseRetry(d) \/ NextAttemptComes(d)
  \/ MarkResponseSent(d) \/ MarkResponseFailed(d)
  \/ SenderDies(d) \/ RequeueInterruptedResponses(d)
  \/ Ages(d) \/ DeleteFinishedResponses(d)
  \/ \E key \in Keys : RequestArrives(d, key)

----------------------------------------------------------------------------
AcceptedUnder(d, key) == \E x \in remembered : x.device = d /\ x.key = key /\ x.accepted

\* "Only now may the UI say sent", and what it says has failed was refused: a tip that
\* the server has taken is never reported as lost, whichever attempt or process asked.
SentAndFailedAreTrue ==
  \A d \in Devices :
    /\ outbound[d].state = "sent" => AcceptedUnder(d, outbound[d].key)
    /\ outbound[d].state = "failed" => ~AcceptedUnder(d, outbound[d].key)
=============================================================================
