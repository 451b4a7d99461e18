---------------------------- MODULE SubmitScreen ----------------------------
(* The screen a report is confirmed on (app/src/report/ReportSubmitScreen):  *)
(* it starts passes over the queue, at once and then on a timer, and tells   *)
(* the reporter what became of its own row, while wakes of the app           *)
(* (store/StoreMaintenance) start passes of their own.                       *)
(*                                                                           *)
(* The form, its checks and the photos are in module ReportForm: a press here *)
(* is one of a form with nothing to correct.  A press and the row it writes  *)
(* are one step.                                                             *)
EXTENDS ReportSubmission

VARIABLE screen  \* the phase, the row it waits for, the pass it started and what that said

screenVars == <<vars, screen>>

NoPass == "no pass"
ASSUME ScreenAssumption == NoPass \notin Passes
NoRow == 0
Closed == [at |-> "closed", row |-> NoRow, pass |-> NoPass, said |-> "nothing",
           missed |-> FALSE]  \* history: the outcome went to something else
Waiting == screen.at \in {"sending", "queued"}

Opens ==
  /\ scenario.screens # {} /\ screen.at = "closed"
  /\ screen' = [Closed EXCEPT !.at = "editing"]
  /\ UNCHANGED vars

\* Left with Back, or replaced by the live report: what its pass says is ignored.
Leaves ==
  /\ screen.at # "closed"
  /\ screen' = Closed
  /\ UNCHANGED vars

MayPress == screen.at \in {"editing", "rejected"}

Press ==
  /\ MayPress
  /\ Confirm
  /\ screen' = [Closed EXCEPT !.at = "sending", !.row = Len(own')]

SaveFails ==
  /\ MayPress
  /\ screen' = [Closed EXCEPT !.at = "rejected"]
  /\ UNCHANGED vars

\* A report confirmed where no screen is watched.
Enqueued == scenario.screens = {} /\ Confirm /\ UNCHANGED screen

\* At once after the press, then whenever the timer finds the screen queued; one at a time.
ScreenPass(p) ==
  /\ p \in scenario.screens
  /\ Waiting /\ screen.pass = NoPass
  /\ PassStarts(p)
  /\ screen' = [screen EXCEPT !.pass = p]

WakePass(p) ==
  /\ p \notin scenario.screens
  /\ PassStarts(p)
  /\ UNCHANGED screen

\* Row by row the result of the pass grows, whether or not the row took the outcome.
Says(p, outcome) ==
  LET about == Waiting /\ passes[p].row.id = screen.row IN
  screen' = IF about /\ screen.pass = p THEN [screen EXCEPT !.said = outcome]
            ELSE IF about /\ own' # own /\ Settled(own'[screen.row]) THEN [screen EXCEPT !.missed = TRUE]
            ELSE screen

GivesUp(p) == GiveUp(p) /\ Says(p, "failed")

Outcome(answer) ==
  CASE answer.kind = "ok" -> "acknowledged"
    [] answer.kind = "rejected" -> "failed"
    [] OTHER -> "nothing"

Records(p) == RecordAnswer(p) /\ Says(p, Outcome(passes[p].answer))

PhaseAfterIgnoring(said) == IF said = "acknowledged" THEN "submitted" ELSE "queued"  \* mutant

PhaseAfter(said) ==
  CASE said = "acknowledged" -> "submitted"
    [] said = "failed" -> "rejected"
    [] OTHER -> "queued"

Ends(p) ==
  /\ PassEnds(p)
  /\ screen' = IF screen.pass = p
                 THEN [screen EXCEPT !.at = PhaseAfter(screen.said), !.pass = NoPass, !.said = "nothing"]
                 ELSE screen

\* A pass that throws says nothing, not even of the rows it had settled.
Throws(p) ==
  /\ StoreFails(p)
  /\ screen' = IF screen.pass = p
                 THEN [screen EXCEPT !.at = "queued", !.pass = NoPass, !.said = "nothing",
                                     !.missed = @ \/ screen.said # "nothing"]
                 ELSE screen

PassGoesOn(p) ==
  \/ GivesUp(p) \/ Records(p) \/ Ends(p)
  \/ (ListDue(p) \/ MarkSending(p) \/ ReadIdentity(p) \/ MintIdentity(p)) /\ UNCHANGED screen

PhoneDies == AppDies /\ screen' = Closed

ScreenInit == Init /\ screen = Closed

Next ==
  \/ Opens \/ Leaves \/ Press \/ SaveFails \/ Enqueued
  \/ \E p \in Passes : ScreenPass(p) \/ WakePass(p) \/ PassGoesOn(p) \/ Throws(p)
  \/ PhoneDies
  \/ /\ UNCHANGED screen
     /\ \/ \E p \in Passes : Abandon(p)
        \/ \E i \in DOMAIN own : BecomesDue(i)
        \/ \E key \in Keys : Ages(key)
        \/ ServerStep \/ InsertFails \/ ServerDies
        \/ \E m \in wire : Lost(m)
        \/ DeleteAll

Spec == ScreenInit /\ [][Next]_screenVars

\* A screen that waits starts passes on its timer, and every start of the app and return to
\* it does; nothing promises a wake while the screen is open.  A pass goes on, an attempt
\* that is not given up on is answered, and delays pass.
FairSpec ==
  /\ Spec
  /\ \A p \in Passes :
       WF_screenVars(PassGoesOn(p) \/ ScreenPass(p) \/ (screen.at = "closed" /\ WakePass(p)))
  /\ WF_screenVars(ServerStep /\ UNCHANGED screen)
  /\ \A i \in Keys : WF_screenVars(i \in DOMAIN own /\ BecomesDue(i) /\ UNCHANGED screen)

----------------------------------------------------------------------------
\* Every confirmed report is delivered, and the phone knows it, unless the server
\* refuses it; one whose key expires settles all the same.  Only a request the server
\* died in the middle of may keep its row waiting until the key expires.  It takes that
\* the passes do not overlap for ever: each would requeue the row the other one sends.
Delivered ==
  Cardinality(scenario.passes) = 1 /\ scenario.screens = {} =>
  <>[](\A i \in DOMAIN own :
         \/ own[i].state = "active"
         \/ own[i].state = "failed" /\ own[i].key \in scenario.refused \cup aged
         \/ own[i].key \notin aged /\ Unfinishable(own[i].key))

\* The screen sends the reporter on only when the server holds the report, and lets them
\* press again only when it does not, as long as its key lives.
ShownIsTrue ==
  screen.row # NoRow /\ own[screen.row].key \notin aged =>
  LET filed == \E i \in DOMAIN reports : reports[i].key = own[screen.row].key
  IN (screen.at = "submitted" => filed) /\ (screen.at = "rejected" => ~filed)

\* What the screen says is true, and it comes: a screen that waits learns the outcome of its
\* row, unless a pass of somebody else settled it or the pass that did threw afterwards (then
\* it says "has not been sent yet" for ever), or the server died in the middle of the request.
\* It takes that the wakes do not start passes over it for ever.
AloneWithQueue == \A p \in Passes \ scenario.screens : passes[p] = Idle
OutcomeIsShown ==
  /\ []ShownIsTrue
  /\ <>[]AloneWithQueue =>
       (Waiting ~> (~Waiting \/ screen.missed \/ Unfinishable(own[screen.row].key)))
=============================================================================
