--------------------------- MODULE CaptureScreens ---------------------------
(* The screens over the capture module: the health card, which polls; the    *)
(* permission flow, which remembers that iOS's one Always prompt was used;   *)
(* and Settings, which pauses, resumes and deletes.  Each shows the status   *)
(* it was last given, by an event at once or by an answer some time later.   *)
(*                                                                           *)
(* `forgotten` and the field readFailed are history.                         *)
EXTENDS HealthCard

CONSTANT Scenarios  \* where the phone begins, and how often the bounded events happen

Events == {"fixes",    \* fixes the platform delivers
           "os",       \* changes by the device, or by the user outside the app
           "presses",  \* buttons pressed
           "opens",    \* times the permission flow is opened
           "returns",  \* times the app comes back to the screen
           "deaths"}   \* deaths of the app

ASSUME ScenarioAssumption ==
  \A s \in Scenarios : /\ s.platform \in {"android", "ios"} /\ s.permission \in Permissions
                       /\ s.started \in BOOLEAN
                       /\ s.budget \in [Events -> Nat]

VARIABLES shown,      \* the status each screen shows
          flow,       \* the permission flow: which instance is mounted (0: none), and its state
          work,       \* what Settings is busy with, or "none"
          storeQueue, \* the data store's queue: calls about the prompt flag, and a delete
          recorded,   \* kv permission.ios_always_prompt_used
          forgotten,  \* the record of a used prompt was lost
          budget      \* what is left of the bounded events

screenVars == <<shown, flow, work, storeQueue, recorded, forgotten>>
vars == <<captureVars, screenVars, budget>>

Spend(event) == budget[event] > 0 /\ budget' = [budget EXCEPT ![event] = @ - 1]

Nothing == [permission |-> "unread"]
Screens == {"health", "flow", "settings"}
Mounted(s) == s # "flow" \/ flow.instance # 0
Closed == [instance |-> 0, promptUsed |-> "no", busy |-> FALSE, skipped |-> FALSE,
           declined |-> FALSE, readFailed |-> FALSE]

\* onStatusChanged: every mounted screen takes the status the event carries.
Heard == shown' = [s \in Screens |-> IF emitted' # emitted /\ Mounted(s) THEN emitted' ELSE shown[s]]

StatusCall(s, of) == Call("getStatus", [screen |-> s, instance |-> IF s = "flow" THEN flow.instance ELSE 0], of)
Outstanding(s) == \/ \E i \in DOMAIN calls : calls[i].op = "getStatus" /\ calls[i].by.screen = s
                  \/ \E i \in DOMAIN answers : answers[i].call.op = "getStatus" /\ answers[i].call.by.screen = s

Refreshes(s) ==
  /\ Mounted(s) /\ ~Outstanding(s)
  /\ Ask(StatusCall(s, "refresh"))
  /\ UNCHANGED <<moduleVars, deviceVars, emitted, answers, screenVars>>

\* mutant
PollUntilShown ==
  IF shown["health"] = Nothing THEN Refreshes("health") /\ UNCHANGED budget ELSE UNCHANGED vars

\* The timer of the health card.
Poll == Refreshes("health") /\ UNCHANGED budget

\* AppState 'active'; the health card does the same, as it does on its timer.
AppReturns == Refreshes("flow") /\ Spend("returns")

----------------------------------------------------------------------------
(* usePermissionFlow.                                                        *)

OpenFlow ==
  /\ flow.instance = 0 /\ Spend("opens")
  /\ flow' = [Closed EXCEPT !.instance = budget.opens,
                            !.promptUsed = IF platform = "ios" THEN "unread" ELSE "no"]
  /\ storeQueue' = IF platform = "ios"
                   THEN Append(storeQueue, [op |-> "read", instance |-> budget.opens])
                   ELSE storeQueue
  /\ Ask(Call("getStatus", [screen |-> "flow", instance |-> budget.opens], "mount"))
  /\ UNCHANGED <<moduleVars, deviceVars, emitted, answers, shown, work, recorded, forgotten>>

CloseFlow ==
  /\ flow.instance # 0
  /\ flow' = Closed
  /\ shown' = [shown EXCEPT !["flow"] = Nothing]
  /\ UNCHANGED <<captureVars, work, storeQueue, recorded, forgotten, budget>>

\* permissionStage, once the status and the flag are read.
Stage ==
  IF shown["flow"] = Nothing \/ flow.promptUsed = "unread" THEN "none"
  ELSE CASE shown["flow"].permission = "undetermined" ->
              IF platform = "android" THEN "disclosure" ELSE "purpose"
         [] shown["flow"].permission = "foreground_only" ->
              IF flow.declined THEN "limited" ELSE "upgrade"
         [] shown["flow"].permission = "always" -> "complete"
         [] OTHER -> shown["flow"].permission

Asking == Stage \in {"disclosure", "purpose"}

\* The stage on the screen: "Not now" leaves the stages that ask.
StageShown == IF Asking /\ flow.skipped THEN "skipped" ELSE Stage

\* The step the stage's button asks for.
StepOffered ==
  IF flow.busy THEN "none"
  ELSE CASE StageShown \in {"disclosure", "purpose"} -> "foreground"
         [] StageShown = "upgrade" /\ flow.promptUsed = "no" -> "background"
         [] OTHER -> "none"

Leaves(choice) ==
  /\ flow' = choice
  /\ Spend("presses")
  /\ UNCHANGED <<captureVars, shown, work, storeQueue, recorded, forgotten>>

Decline == \/ StageShown \in {"disclosure", "purpose"} /\ Leaves([flow EXCEPT !.skipped = TRUE])
           \/ StageShown = "upgrade" /\ Leaves([flow EXCEPT !.declined = TRUE])
Reconsider == \/ StageShown = "skipped" /\ Leaves([flow EXCEPT !.skipped = FALSE])
              \/ /\ StageShown = "limited" /\ flow.promptUsed = "no"
                 /\ Leaves([flow EXCEPT !.declined = FALSE])

PressAllow ==
  /\ StepOffered # "none" /\ Spend("presses")
  /\ LET spends == StepOffered = "background" /\ platform = "ios"
     IN /\ flow' = [flow EXCEPT !.busy = TRUE, !.promptUsed = IF spends THEN "yes" ELSE @]
        /\ storeQueue' = IF spends
                         THEN Append(storeQueue, [op |-> "mark", instance |-> flow.instance])
                         ELSE storeQueue
  /\ Ask(Call("requestPermission", [screen |-> "flow", instance |-> flow.instance], StepOffered))
  /\ UNCHANGED <<moduleVars, deviceVars, emitted, answers, shown, work, recorded, forgotten>>

----------------------------------------------------------------------------
(* SettingsScreen: pause, resume and delete, each under run().               *)

Press(job, call) ==
  /\ work = "none" /\ Spend("presses")
  /\ work' = job
  /\ Ask(call)
  /\ UNCHANGED <<moduleVars, deviceVars, emitted, answers, shown, flow, storeQueue, recorded,
                 forgotten>>

SettingsCall(op, arg) == Call(op, [screen |-> "settings", instance |-> 0], arg)
SettingsOffers(button) ==
  shown["settings"] # Nothing /\ Tracking(shown["settings"]).button = button

Pause == SettingsOffers("pause") /\ Press("pausing", SettingsCall("stop", "none"))
Resume == /\ SettingsOffers("resume")
          /\ \E config \in Configs : Press("resuming", SettingsCall("start", config))
DeleteAll == Press("stopping", SettingsCall("stop", "none"))

----------------------------------------------------------------------------
(* A promise continues.                                                      *)

Answered(op, screen) ==
  answers # <<>> /\ answers[1].call.op = op /\ answers[1].call.by.screen = screen
Continued == answers' = Tail(answers)

ShowStatus ==
  /\ \E s \in Screens :
       /\ Answered("getStatus", s)
       /\ LET current == s # "flow" \/ answers[1].call.by.instance = flow.instance
          IN /\ shown' = IF current THEN [shown EXCEPT ![s] = answers[1].result] ELSE shown
             /\ flow' = IF s = "flow" /\ current /\ answers[1].call.arg = "request"
                        THEN [flow EXCEPT !.busy = FALSE] ELSE flow
  /\ Continued
  /\ UNCHANGED <<moduleVars, deviceVars, emitted, calls, work, storeQueue, recorded, forgotten,
                 budget>>

RequestAnswered ==
  /\ Answered("requestPermission", "flow")
  /\ Ask(Call("getStatus", answers[1].call.by, "request"))
  /\ Continued
  /\ UNCHANGED <<moduleVars, deviceVars, emitted, screenVars, budget>>

\* The end of run(): no longer busy, and the status is read again.
SettingsDone == work' = "none" /\ Ask(StatusCall("settings", "run"))

SettingsAnswered ==
  /\ Answered("stop", "settings") \/ Answered("start", "settings")
  /\ \/ /\ work = "stopping"
        /\ work' = "deleting"
        /\ storeQueue' = Append(storeQueue, [op |-> "delete", instance |-> 0])
        /\ UNCHANGED calls
     \/ /\ work # "stopping"
        /\ SettingsDone
        /\ UNCHANGED storeQueue
  /\ Continued
  /\ UNCHANGED <<moduleVars, deviceVars, emitted, shown, flow, recorded, forgotten, budget>>

----------------------------------------------------------------------------
(* The data store's queue.                                                   *)

StoreTurn(op) == storeQueue # <<>> /\ storeQueue[1].op = op /\ storeQueue' = Tail(storeQueue)

ReadPromptUsed ==
  /\ StoreTurn("read")
  /\ LET was == flow.promptUsed
         now == IF was = "yes" \/ (~storeFails /\ recorded) THEN "yes" ELSE "no"
     IN flow' = IF storeQueue[1].instance # flow.instance THEN flow
                ELSE [flow EXCEPT !.promptUsed = now, !.readFailed = storeFails]
  /\ UNCHANGED <<captureVars, shown, work, recorded, forgotten, budget>>

\* mutant
MarkNothing ==
  /\ StoreTurn("mark")
  /\ forgotten' = (storeFails /\ (forgotten \/ ~recorded))
  /\ UNCHANGED <<captureVars, shown, flow, work, recorded, budget>>

MarkPromptUsed ==
  /\ StoreTurn("mark")
  /\ recorded' = (recorded \/ ~storeFails)
  /\ forgotten' = (storeFails /\ (forgotten \/ ~recorded))
  /\ UNCHANGED <<captureVars, shown, flow, work, budget>>

DeleteStore ==
  /\ StoreTurn("delete")
  /\ recorded' = FALSE
  /\ forgotten' = (forgotten \/ recorded)
  /\ SettingsDone
  /\ UNCHANGED <<moduleVars, deviceVars, emitted, answers, shown, flow, budget>>

----------------------------------------------------------------------------

Pending(op) == \E i \in DOMAIN storeQueue : storeQueue[i].op = op

\* The screens mounted from the start read the status once.
MountCalls == <<Call("getStatus", [screen |-> "health", instance |-> 0], "mount"),
                Call("getStatus", [screen |-> "settings", instance |-> 0], "mount")>>

\* The process dies and is started again: the selection, the prompt and the
\* store are kept (a delete under way may have got through), all else is lost.
AppDies ==
  /\ Spend("deaths")
  /\ \/ UNCHANGED <<alive, mechanisms>>
     \/ alive' = FALSE /\ mechanisms' = [m \in Modes |-> 0]
  /\ UNCHANGED <<selection, refusing, storeUnusable, samples, deviceVars>>
  /\ Notify
  /\ answers' = <<>> /\ calls' = MountCalls
  /\ shown' = [s \in Screens |-> Nothing]
  /\ flow' = Closed /\ work' = "none" /\ storeQueue' = <<>>
  /\ \E wiped \in {FALSE} \cup {Pending("delete")} :
       /\ recorded' = (recorded /\ ~wiped)
       /\ forgotten' = (forgotten \/ Pending("mark") \/ (recorded /\ wiped))

Init ==
  /\ \E s \in Scenarios : CaptureInit(s.platform, s.permission, s.started) /\ budget = s.budget
  /\ calls = MountCalls
  /\ shown = [s \in Screens |-> Nothing]
  /\ flow = Closed /\ work = "none" /\ storeQueue = <<>>
  /\ recorded = FALSE /\ forgotten = FALSE

\* What the module does, and what the device does to it.
ModuleServes == /\ Serve
                /\ Heard
                /\ UNCHANGED <<flow, work, storeQueue, recorded, forgotten, budget>>
FixArrives == DeliverFix /\ Spend("fixes") /\ UNCHANGED screenVars
DeviceChanges == /\ \/ \E state \in Permissions \ {"undetermined"} : SetPermission(state)
                    \/ \E flag \in Conditions : SetCondition(flag)
                    \/ RefuseNextStart \/ SetStoreFailure \/ KillMechanism
                 /\ Spend("os")
                 /\ Heard
                 /\ UNCHANGED <<flow, work, storeQueue, recorded, forgotten>>
Restarted == /\ RestartMechanism
             /\ Heard
             /\ UNCHANGED <<flow, work, storeQueue, recorded, forgotten, budget>>

Continue == ShowStatus \/ RequestAnswered \/ SettingsAnswered
StoreServes == ReadPromptUsed \/ MarkPromptUsed \/ DeleteStore

Next ==
  \/ ModuleServes \/ FixArrives \/ DeviceChanges \/ Restarted
  \/ Poll \/ AppReturns
  \/ OpenFlow \/ CloseFlow \/ PressAllow \/ Decline \/ Reconsider
  \/ Pause \/ Resume \/ DeleteAll
  \/ Continue \/ StoreServes \/ AppDies

Spec == Init /\ [][Next]_vars

FairSpec ==
  /\ Spec
  /\ WF_vars(ModuleServes) /\ WF_vars(Continue) /\ WF_vars(StoreServes)
  /\ WF_vars(Poll)
----------------------------------------------------------------------------
(* Types.                                                                    *)

Flags == Conditions \cup {"background_permission_missing", "service_not_running", "store_unusable"}
Selections == [mode : Modes, minInterval : Nat, notification : Nat]
Statuses == [running : BOOLEAN, mode : Modes \cup {"stopped"},
             tier : Modes \cup {"stopped", "throttled"}, permission : Permissions,
             health : SUBSET Flags, lastSample : Nat]

Steps == {"foreground", "background"}
FlowCaller == [screen : {"flow"}, instance : Nat \ {0}]
ScreenCaller == [screen : {"health", "settings"}, instance : {0}]

StatusCalls == [op : {"getStatus"}, by : FlowCaller \cup ScreenCaller,
                arg : {"mount", "refresh", "request", "run"}, at : {"queued"}]
OtherCalls ==
  [op : {"requestPermission"}, by : FlowCaller, arg : Steps, at : {"queued"}]
  \cup [op : {"start"}, by : ScreenCaller, arg : Configs, at : {"queued", "checking"}]
  \cup [op : {"stop"}, by : ScreenCaller, arg : {"none"}, at : {"queued"}]
  \cup [op : {"deliverFix"}, by : {"os"}, arg : Nat, at : {"queued", "checking", "written"}]
Calls == StatusCalls \cup OtherCalls

Results == Permissions \cup {"ok", "invalid_argument", "permission_denied", "store_unusable",
                             "start_failed"}
Answers == [call : StatusCalls, result : Statuses] \cup [call : OtherCalls, result : Results]

Flows == [instance : Nat, promptUsed : {"unread", "yes", "no"}, busy : BOOLEAN,
          skipped : BOOLEAN, declined : BOOLEAN, readFailed : BOOLEAN]
StoreCalls == [op : {"read", "mark", "delete"}, instance : Nat]

ModuleTypeOK ==
  /\ selection \in {Stopped} \cup Selections
  /\ alive \in BOOLEAN /\ (alive => selection # Stopped)
  /\ mechanisms \in [Modes -> Int]
  /\ refusing \in BOOLEAN /\ storeUnusable \in BOOLEAN
  /\ samples \in Seq(Nat)

DeviceTypeOK ==
  /\ platform \in {"android", "ios"} /\ permission \in Permissions
  /\ upgradeSpent \in BOOLEAN /\ conditions \subseteq Conditions
  /\ storeFails \in BOOLEAN /\ delivered \in Nat

\* Only the first call of the queue is under way.
QueueTypeOK ==
  /\ calls \in Seq(Calls) /\ answers \in Seq(Answers)
  /\ \A i \in DOMAIN calls : i > 1 => calls[i].at = "queued"

\* A closed flow shows nothing.
ScreenTypeOK ==
  /\ shown \in [Screens -> Statuses \cup {Nothing}]
  /\ flow \in Flows /\ (flow.instance = 0 => shown["flow"] = Nothing)
  /\ work \in {"none", "pausing", "resuming", "stopping", "deleting"}
  /\ storeQueue \in Seq(StoreCalls)
  /\ recorded \in BOOLEAN /\ forgotten \in BOOLEAN
  /\ budget \in [Events -> Nat]

TypeOK == /\ ModuleTypeOK /\ DeviceTypeOK /\ QueueTypeOK /\ ScreenTypeOK
          /\ emitted \in Statuses
----------------------------------------------------------------------------
(* Properties.                                                               *)

\* Between the end of a stop() and the next start(), no fix is stored, although
\* a fix may already have been accepted when "Pause tracking" is pressed
\* (SettingsScreen: "Nothing new is being saved").
NothingSavedWhileStopped == [][samples' # samples => selection # Stopped]_vars

\* start() stops the mechanism that is alive before it starts another: with
\* refusals, kills, restarts and overlapping calls, the mechanisms alive are
\* never two, and none is left that the selection does not name.
OneMechanism ==
  \A m \in Modes : mechanisms[m] = (IF Running /\ selection.mode = m THEN 1 ELSE 0)

\* "So the dead Allow Always button never flashes": the flow offers the button
\* after iOS has shown its one prompt only if the record of it was lost (a
\* delete of all data, a store that could not be written, a death) or could
\* not be read.
DeadButtonExplained ==
  platform = "ios" /\ upgradeSpent /\ StepOffered = "background"
    => forgotten \/ flow.readFailed

\* What Home says of capture is so: "working" only while a mechanism is alive at
\* its full rate and nothing is wrong with the phone, "paused" only while capture
\* was not asked for, the permission flow only while it has something to ask;
\* and the first problem listed by the diagnostics is the one Home names.
HomeIsTrue ==
  LET card == HomeCard(shown["health"])
  IN /\ card.title = "working" => /\ \E m \in Modes : mechanisms[m] = 1
                                  /\ permission = "always" /\ conditions = {} /\ ~storeUnusable
     /\ card.title = "paused" => selection = Stopped
     /\ card.action = "permission" => permission # "always"
     /\ HomeHeading(shown["health"]) = "needs fixing" <=> card.state = "broken"
     /\ DiagnosticsCards(shown["health"])[1].title = card.title

\* The health card shows the true status in the end, although an answer may be
\* older than an event that overtook it: the poll repairs it.
ShownSettles == <>[](shown["health"] = ComputeStatus /\ HomeIsTrue)

=============================================================================
