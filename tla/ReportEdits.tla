---------------------------- MODULE ReportEdits ----------------------------
(* Edits of a live report (server/src/app.ts, shared/src/payload/widening):  *)
(* patches are retried under their key or confirmed again under a new one,   *)
(* arrive in any order and meet the widen-only rule, while the operator      *)
(* decides and the report ends; answers reach the phone late.                *)
(*                                                                           *)
(* A patch is the fields it sets and the values it gives them.  Descriptive  *)
(* fields are left out: a patch of these alone sets no field.  Positions are *)
(* points of any metric space, in whole metres.                              *)
EXTENDS Responses, MatchRule

CONSTANTS
  Times,        \* where a window may begin and end
  Initial,      \* the criteria the report was filed with
  Patches,      \* the patches a reporter may send
  Tolerance,    \* EDIT_CENTER_TOLERANCE_M
  MatchRadius,  \* MATCH_RADIUS_M
  MatchWindow,  \* MATCH_WINDOW_SEC
  MaxEdits,     \* bound on edits confirmed
  Modes         \* what a behaviour is about: "tips", "edits" or both

Criteria == [center : Places, radius : Nat, from : Times, to : Times]

ASSUME EditsAssumption ==
  /\ Times \subseteq Nat /\ Tolerance \in Nat /\ MaxEdits \in Nat
  /\ MatchRadius \in Nat \ {0} /\ MatchWindow \in Nat \ {0}
  /\ Initial \in Criteria
  /\ \A p \in Patches : p.sets \subseteq {"center", "radius", "window"} /\ p.to \in Criteria

VARIABLES
  revisions,  \* the report's criteria by revision; all but the last are history
  edits,      \* edits the reporter confirmed
  answered,   \* table idempotency: what each edit was answered
  phone,      \* the report as the phone has it: own_report.report and state
  mode        \* the one this behaviour is about

editVars == <<revisions, edits, answered, phone>>
reportEditVars == <<vars, editVars, mode>>

Current == revisions[Len(revisions)]

----------------------------------------------------------------------------
(* The server *)

\* What the patch leaves out is unchanged.
ApplyReportPatch(current, patch) ==
  [center |-> IF "center" \in patch.sets THEN patch.to.center ELSE current.center,
   radius |-> IF "radius" \in patch.sets THEN patch.to.radius ELSE current.radius,
   from |-> IF "window" \in patch.sets THEN patch.to.from ELSE current.from,
   to |-> IF "window" \in patch.sets THEN patch.to.to ELSE current.to]

MovesWithinAllowance(previous, next) ==  \* mutant: an allowance for every move
  /\ next.from <= previous.from /\ next.to >= previous.to
  /\ next.radius >= previous.radius
  /\ Metric[previous.center][next.center] <= MatchRadius

\* The new window contains the old one and the new disc covers the old one.
IsWideningEdit(previous, next) ==
  /\ next.from <= previous.from /\ next.to >= previous.to
  /\ next.radius >= previous.radius
  /\ Metric[previous.center][next.center] + previous.radius <= next.radius + Tolerance

\* What a client that drags the pin sets the radius to, at least.
MinRadiusForCenterMove(previous, center) ==
  LET needed == Metric[previous.center][center] + previous.radius - Tolerance
  IN IF needed > previous.radius THEN needed ELSE previous.radius

MayBeEdited == review # "rejected" /\ status = "active"

Verdict(edit) ==
  CASE ~MayBeEdited -> "report_not_active"
    [] MayBeEdited /\ edit.expected # Len(revisions) -> "revision_conflict"
    [] OTHER -> IF IsWideningEdit(Current, ApplyReportPatch(Current, edit.patch))
                THEN "ok" ELSE "edit_not_widening"

Answered(edit) == \E x \in answered : x.key = edit.key

\* A request that was answered under its key is answered the same again, and does nothing.
PatchReport(edit) ==
  /\ edit \in edits /\ ~Answered(edit)
  /\ revisions' = IF Verdict(edit) = "ok"
                    THEN Append(revisions, ApplyReportPatch(Current, edit.patch))
                    ELSE revisions
  /\ answered' = answered \cup {[key |-> edit.key, verdict |-> Verdict(edit),
                                 revision |-> Len(revisions'), status |-> status]}
  /\ UNCHANGED <<vars, edits, phone, mode>>

----------------------------------------------------------------------------
(* The phone *)

\* Against the revision the phone has; a new key every time.
ConfirmEdit(patch) ==
  /\ Cardinality(edits) < MaxEdits
  /\ edits' = edits \cup {[key |-> Cardinality(edits) + 1, expected |-> phone.revision, patch |-> patch]}
  /\ UNCHANGED <<vars, revisions, answered, phone, mode>>

\* An older revision never replaces a newer one.
ApplyServerReport(revision, state) ==
  phone' = IF phone.revision > revision THEN phone ELSE [revision |-> revision, state |-> state]

\* The answer to an edit, late or given again to a retry.
LearnsOfEdit(x) ==
  /\ x \in answered /\ x.verdict = "ok"
  /\ ApplyServerReport(x.revision, x.status)
  /\ UNCHANGED <<vars, revisions, edits, answered, mode>>

\* The answer to a read, or to the end of the report.
Refreshes ==
  /\ ApplyServerReport(Len(revisions), status)
  /\ UNCHANGED <<vars, revisions, edits, answered, mode>>

----------------------------------------------------------------------------
EditsInit ==
  /\ Init
  /\ revisions = <<Initial>>
  /\ edits = {} /\ answered = {}
  /\ phone = [revision |-> 1, state |-> "active"]
  /\ mode \in Modes

TipStep ==
  \/ \E d \in Devices : (\E key \in Keys : Post(d, key)) \/ ReleaseHeldResponse(d) \/ RejectHeldResponse(d)
  \/ \E f \in Fetches : FetchStep(f) \/ FetchStops(f)

EditStep ==
  \/ \E patch \in Patches : ConfirmEdit(patch)
  \/ \E edit \in edits : PatchReport(edit)
  \/ \E x \in answered : LearnsOfEdit(x)
  \/ Refreshes

EditsNext ==
  \/ /\ \/ \E verdict \in {"released", "rejected"} : Decide(verdict)
        \/ \E how \in {"ended", "expired"} : Closes(how)
        \/ mode = "tips" /\ TipStep
     /\ UNCHANGED <<editVars, mode>>
  \/ mode = "edits" /\ EditStep

EditsSpec == EditsInit /\ [][EditsNext]_reportEditVars

\* The reporter goes on reading, one fetch after the other.
EditsFairSpec ==
  EditsSpec /\ \A f \in Fetches : WF_reportEditVars(mode = "tips" /\ FetchStep(f) /\ UNCHANGED <<editVars, mode>>)

----------------------------------------------------------------------------
\* A report matches a place and a time.
Reaches(criteria, place, time, slack) ==
  /\ criteria.from <= time /\ time <= criteria.to
  /\ Metric[criteria.center][place] <= criteria.radius + slack

\* No sequence of edits narrows anything: what one revision of a report matches, every later
\* one matches, within the tolerance of the edits between the two (widening.ts).
EditsOnlyWiden ==
  \A i, j \in DOMAIN revisions : i <= j =>
    \A place \in Places, time \in Times :
      Reaches(revisions[i], place, time, 0)
        => Reaches(revisions[j], place, time, (j - i) * Tolerance)

\* What matching accepts as evidence: the criteria read on the grid, and the match radius and
\* window around them.
Accepted(criteria) ==
  LET c == CoarsenCriteria(criteria, [radiusStep |-> MatchRadius, windowStep |-> MatchWindow])
  IN [center |-> c.center, radius |-> c.radius + MatchRadius,
      from |-> c.from - MatchWindow, to |-> c.to + MatchWindow]

StillAccepts(earlier, later, slack) ==
  \A place \in Places, time \in Times : Reaches(earlier, place, time, 0) => Reaches(later, place, time, slack)

\* The edit rule judges criteria as written and matching reads them on a grid, so an edit may
\* lose evidence at the far edge; but however many edits there are, never at another time and
\* never by as much as one step of the grid, the tolerances aside.
EvidenceSurvivesEdits ==
  \A j \in DOMAIN revisions : \A i \in 1 .. j - 1 :
    StillAccepts(Accepted(revisions[i]), Accepted(revisions[j]), (MatchRadius - 1) + (j - i) * Tolerance)

\* Answers in any order: the phone never goes back to an older revision (ownReport.ts,
\* applyServerReport).  Its state can: an older answer of the same revision is applied.
PhoneNeverGoesBack == [][phone'.revision >= phone.revision]_phone
=============================================================================
