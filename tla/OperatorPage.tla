---------------------------- MODULE OperatorPage ----------------------------
(* The operator's page (server/src/operatorPage): a sign-in that runs out,   *)
(* tabs that show the reports and the held responses as they were when they  *)
(* were loaded, and buttons that decide them now.                            *)
EXTENDS Responses

CONSTANT Tabs  \* the tabs the operator has open; they share one cookie

ASSUME PageAssumption == {"nothing", "report"} \cap Devices = {}  \* what a notice is about

VARIABLES
  session,  \* does the cookie still hold?
  tabs      \* what each tab shows

pageVars == <<session, tabs>>

Decided(about, action) == [about |-> about, action |-> action]
NoNotice == Decided("nothing", "none")

SignedOut == [at |-> "login"]
\* On the way to the dashboard, with the notice the redirect asks for.
Redirected(notice) == [at |-> "redirect", notice |-> notice]

\* The cards, with the report's status as it is shown: an ended one cannot be released.
Dashboard(notice) ==
  [at |-> "page", notice |-> notice,
   report |-> IF review = "pending" THEN status ELSE "none",
   held |-> {d \in Devices : Undecided(d) # {}}]

Show(t, page) == tabs' = [tabs EXCEPT ![t] = page]

----------------------------------------------------------------------------
SignIn(t) ==
  /\ tabs[t] = SignedOut
  /\ session' = TRUE
  /\ Show(t, Redirected(NoNotice))
  /\ UNCHANGED vars

SignOut(t) ==
  /\ tabs[t].at = "page"
  /\ session' = FALSE
  /\ Show(t, SignedOut)
  /\ UNCHANGED vars

SessionRunsOut == session /\ session' = FALSE /\ UNCHANGED <<vars, tabs>>

\* The gate, before any body is read.
TurnedAway(t) ==
  /\ ~session /\ tabs[t].at # "login"
  /\ Show(t, SignedOut)
  /\ UNCHANGED <<vars, session>>

\* GET: what it shows is read now, whatever the notice is about.
LoadsDashboard(t) ==
  /\ session /\ tabs[t].at = "redirect"
  /\ Show(t, Dashboard(tabs[t].notice))
  /\ UNCHANGED <<vars, session>>

\* Opened or loaded again: the address keeps the notice.
Reloads(t) ==
  /\ session /\ tabs[t].at \in {"login", "page"}
  /\ Show(t, Redirected(IF tabs[t].at = "page" THEN tabs[t].notice ELSE NoNotice))
  /\ UNCHANGED <<vars, session>>

Offered(t, verdict) ==
  \/ verdict = "released" /\ tabs[t].report = "active"
  \/ verdict = "rejected" /\ tabs[t].report # "none"

\* The decision of the API; a card that was decided or ended since changes nothing.
PressesReport(t, verdict) ==
  /\ session /\ tabs[t].at = "page" /\ Offered(t, verdict)
  /\ \/ Decide(verdict) /\ Show(t, Redirected(Decided("report", verdict)))
     \/ ~MayDecide(verdict) /\ Show(t, Dashboard(NoNotice)) /\ UNCHANGED vars
  /\ UNCHANGED session

DecideHeldResponse(d, verdict) ==
  IF verdict = "released" THEN ReleaseHeldResponse(d) ELSE RejectHeldResponse(d)

PressesResponse(t, d, verdict) ==
  /\ session /\ tabs[t].at = "page" /\ d \in tabs[t].held
  /\ \/ DecideHeldResponse(d, verdict) /\ Show(t, Redirected(Decided(d, verdict)))
     \/ Undecided(d) = {} /\ Show(t, Dashboard(NoNotice)) /\ UNCHANGED vars
  /\ UNCHANGED session

PageInit == session = FALSE /\ tabs = [t \in Tabs |-> SignedOut]

PageStep ==
  \/ SessionRunsOut
  \/ \E t \in Tabs :
       \/ SignIn(t) \/ SignOut(t) \/ TurnedAway(t) \/ LoadsDashboard(t) \/ Reloads(t)
       \/ \E verdict \in {"released", "rejected"} :
            PressesReport(t, verdict) \/ \E d \in Devices : PressesResponse(t, d, verdict)

----------------------------------------------------------------------------
\* "Report released.", "Response rejected. It will never be delivered.": what the page says
\* was decided is still what the tables hold, whatever the other tab or the API pressed.
NoticesAreTrue ==
  \A t \in Tabs : tabs[t].at \in {"redirect", "page"} =>
    LET notice == tabs[t].notice
    IN /\ notice.about = "report" => review = notice.action
       /\ notice.about \in Devices =>
            /\ reviews[notice.about] = notice.action
            /\ \A row \in RowOf(notice.about) :
                 row.moderation = IF notice.action = "released" THEN "delivered" ELSE "held"
=============================================================================
