----------------------------- MODULE TipJourney -----------------------------
(* A tip from the phone that sends it to the reporter who reads it, with the *)
(* operator's page in between: the modules on one report, one at a time.     *)
EXTENDS ReportEdits, OutboundResponses, OperatorPage

CONSTANT Senders  \* the devices whose tip is followed there

ASSUME JourneyAssumption == Senders \subseteq Devices /\ Keys # {}

journeyVars == <<reportEditVars, outboundVars, pageVars>>

JourneyInit == EditsInit /\ OutboundInit /\ PageInit

\* The operator's API, and the reporter reading.
Around ==
  \/ \E verdict \in {"released", "rejected"} : Decide(verdict)
  \/ \E how \in {"ended", "expired"} : Closes(how)
  \/ \E d \in Devices : ReleaseHeldResponse(d) \/ RejectHeldResponse(d)
  \/ \E f \in Fetches : FetchStep(f)

Sends ==
  /\ mode = "sends"
  /\ \/ \E d \in Senders : SendStep(d)
     \/ Around /\ UNCHANGED outboundVars
  /\ UNCHANGED <<editVars, mode, pageVars>>

\* Where the page is followed, a device answers under one key.
OneKey == CHOOSE key \in Keys : TRUE

Pages ==
  /\ mode = "page"
  /\ \/ PageStep
     \/ (Around \/ \E d \in Senders : Post(d, OneKey)) /\ UNCHANGED pageVars
  /\ UNCHANGED <<editVars, mode, outboundVars>>

JourneyNext ==
  \/ mode \in {"tips", "edits"} /\ EditsNext /\ UNCHANGED <<outboundVars, pageVars>>
  \/ Sends
  \/ Pages

JourneySpec == JourneyInit /\ [][JourneyNext]_journeyVars

\* The reporter goes on reading, one fetch after the other.
Reading(f) == mode # "edits" /\ FetchStep(f) /\ UNCHANGED <<editVars, mode, outboundVars, pageVars>>
JourneyFairSpec == JourneySpec /\ \A f \in Fetches : WF_journeyVars(Reading(f))

\* What the sender of a tip and the operator are told is what happened.
ToldTheTruth == SentAndFailedAreTrue /\ NoticesAreTrue
=============================================================================
