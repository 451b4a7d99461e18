-------------------------- MODULE LocationCapture --------------------------
(* The capture module behind the app (packages/native-location-capture):     *)
(* the selected mode, the mechanism that carries it, the permission, the     *)
(* check of the store before each write, and the status it reports.  Calls   *)
(* are taken one at a time; what the operating system does is not a call and *)
(* comes between any two steps of one.                                       *)
(*                                                                           *)
(* A fix is a number.  Whether enough time has passed or the phone has moved *)
(* far enough is a choice (`news`).  The counters over the last 24 hours and *)
(* the diagnostics log are left out.                                         *)
EXTENDS Integers, FiniteSets, SequencesExt

CONSTANTS Configs,      \* configurations start() is given
          Conditions    \* health flags the device raises by itself

ASSUME CaptureAssumption ==
  \A c \in Configs : /\ c.useForegroundService \in BOOLEAN
                     /\ {c.minInterval, c.notification} \subseteq Nat

VARIABLES platform,
          permission,   \* what the user has allowed
          upgradeSpent, \* iOS has shown its one Always prompt
          conditions,   \* the device's flags that are raised
          selection,    \* the mode and config of the last start, or Stopped
          alive,        \* mechanismAlive
          mechanisms,   \* history: starts less stops and kills of each mode
          refusing,     \* the OS will refuse the next start
          storeFails,   \* the store would fail its check now
          storeUnusable,\* it failed the last one
          delivered,    \* fixes the platform has delivered
          samples,      \* the fixes stored
          emitted,      \* the status of the last onStatusChanged
          calls,        \* the queue of serial()
          answers       \* promises that are settled and not yet continued

moduleVars == <<selection, alive, mechanisms, refusing, storeUnusable, samples>>
deviceVars == <<platform, permission, upgradeSpent, conditions, storeFails, delivered>>
queueVars == <<calls, answers>>
captureVars == <<moduleVars, deviceVars, emitted, queueVars>>

Permissions == {"undetermined", "denied", "foreground_only", "always", "restricted"}
Modes == {"wm", "fgs", "ios"}
Stopped == [mode |-> "stopped"]

----------------------------------------------------------------------------
(* The status.                                                               *)

HasLocationPermission == permission \in {"always", "foreground_only"}
Running == selection # Stopped /\ alive

Health == conditions
  \cup {f \in {"background_permission_missing"} : permission # "always"}
  \cup {f \in {"service_not_running"} : selection # Stopped /\ ~alive}
  \cup {f \in {"store_unusable"} : storeUnusable}

Tier == CASE ~Running \/ ~HasLocationPermission -> "stopped"
          [] permission = "always" -> selection.mode
          [] OTHER -> "throttled"

ComputeStatus ==
  [running |-> Running, mode |-> selection.mode, tier |-> Tier,
   permission |-> permission, health |-> Health, lastSample |-> Len(samples)]

\* Emits onStatusChanged if the status differs from the one last emitted.
Notify == emitted' = ComputeStatus'

----------------------------------------------------------------------------
(* serial: a call waits for the ones before it.  `at` is how far it is.      *)

Call(op, by, arg) == [op |-> op, by |-> by, arg |-> arg, at |-> "queued"]
Ask(call) == calls' = Append(calls, call)

\* mutant
HasTurnAtOnce(i) == i = i

HasTurn(i) == i = 1
Serving(i, op, step) == HasTurn(i) /\ calls[i].op = op /\ calls[i].at = step

Proceed(i, step) == calls' = [calls EXCEPT ![i].at = step] /\ UNCHANGED answers
Resolve(i, result) ==
  /\ calls' = RemoveAt(calls, i)
  /\ answers' = Append(answers, [call |-> calls[i], result |-> result])
Settle(i) == calls' = RemoveAt(calls, i) /\ UNCHANGED answers

----------------------------------------------------------------------------
(* start, stop and the mechanism.                                            *)

ModeOf(config) ==
  IF platform = "ios" THEN "ios" ELSE IF config.useForegroundService THEN "fgs" ELSE "wm"

\* minIntervalSec must be greater than 0, and fgs needs a notification title.
ConfigProblem(config) ==
  config.minInterval = 0 \/ (ModeOf(config) = "fgs" /\ config.notification = 0)

\* The fields the mode uses; two selections are the same capture if these are.
SelectionOf(config) ==
  [mode |-> ModeOf(config), minInterval |-> config.minInterval,
   notification |-> IF ModeOf(config) = "fgs" THEN config.notification ELSE 0]

StartRejected(i) ==
  /\ Serving(i, "start", "queued")
  /\ ConfigProblem(calls[i].arg) \/ ~HasLocationPermission
  /\ Resolve(i, IF ConfigProblem(calls[i].arg) THEN "invalid_argument" ELSE "permission_denied")
  /\ UNCHANGED <<moduleVars, deviceVars, emitted>>

StartChecksStore(i) ==
  /\ Serving(i, "start", "queued")
  /\ ~ConfigProblem(calls[i].arg) /\ HasLocationPermission
  /\ Proceed(i, "checking")
  /\ UNCHANGED <<moduleVars, deviceVars, emitted>>

\* mutant
SwitchedOver(from, to, started) ==
  [m \in Modes |-> mechanisms[m] - (IF alive /\ m = from.mode /\ ~started THEN 1 ELSE 0)
                                 + (IF started /\ m = to.mode THEN 1 ELSE 0)]

\* Stop first, then start: each mechanism counted by itself.
Switched(from, to, started) ==
  [m \in Modes |-> mechanisms[m] - (IF alive /\ m = from.mode THEN 1 ELSE 0)
                                 + (IF started /\ m = to.mode THEN 1 ELSE 0)]

\* What the status says of the store is what the last check found.
CheckStore == storeUnusable' = storeFails

StartSelects(i) ==
  /\ Serving(i, "start", "checking")
  /\ CheckStore
  /\ LET next == SelectionOf(calls[i].arg)
     IN \/ /\ storeFails
           /\ Resolve(i, "store_unusable")
           /\ UNCHANGED <<selection, alive, mechanisms, refusing>>
        \/ /\ ~storeFails /\ Running /\ selection = next
           /\ Resolve(i, "ok")
           /\ UNCHANGED <<selection, alive, mechanisms, refusing>>
        \/ /\ ~storeFails /\ ~(Running /\ selection = next)
           /\ selection' = next
           /\ alive' = ~refusing
           /\ mechanisms' = Switched(selection, next, ~refusing)
           /\ refusing' = FALSE
           /\ Resolve(i, IF refusing THEN "start_failed" ELSE "ok")
  /\ UNCHANGED <<samples, deviceVars>>
  /\ Notify

Stop(i) ==
  /\ Serving(i, "stop", "queued")
  /\ selection' = Stopped
  /\ alive' = FALSE
  /\ mechanisms' = Switched(selection, Stopped, FALSE)
  /\ Resolve(i, "ok")
  /\ UNCHANGED <<refusing, storeUnusable, samples, deviceVars>>
  /\ Notify

GetStatus(i) ==
  /\ Serving(i, "getStatus", "queued")
  /\ Resolve(i, ComputeStatus)
  /\ UNCHANGED <<moduleVars, deviceVars, emitted>>

----------------------------------------------------------------------------
(* requestPermission.                                                        *)

\* Does the platform show a prompt for this step?
Askable(step) ==
  IF step = "foreground" THEN permission = "undetermined"
  ELSE permission = "foreground_only" /\ ~upgradeSpent

\* What the user may answer.
Outcomes(step) ==
  IF step = "foreground" THEN {"foreground_only", "denied"} ELSE {"always", "foreground_only"}

RequestPermission(i) ==
  /\ Serving(i, "requestPermission", "queued")
  /\ LET step == calls[i].arg
     IN \/ /\ ~Askable(step)
           /\ Resolve(i, permission)
           /\ UNCHANGED <<permission, upgradeSpent>>
        \/ /\ Askable(step)
           /\ upgradeSpent' = (upgradeSpent \/ (step = "background" /\ platform = "ios"))
           /\ \E answer \in Outcomes(step) : permission' = answer /\ Resolve(i, answer)
  /\ UNCHANGED <<moduleVars, platform, conditions, storeFails, delivered>>
  /\ Notify

----------------------------------------------------------------------------
(* The capture path: deliverFix, and debugInjectSample of a debug build.     *)

DeliverFix ==
  /\ delivered' = delivered + 1
  /\ Ask(Call("deliverFix", "os", delivered + 1))
  /\ UNCHANGED <<moduleVars, platform, permission, upgradeSpent, conditions, storeFails,
                 emitted, answers>>

JudgeFix(i) ==
  /\ Serving(i, "deliverFix", "queued")
  /\ \E news \in BOOLEAN :
       IF Running /\ HasLocationPermission /\ (samples = <<>> \/ news)
       THEN Proceed(i, "checking")
       ELSE Settle(i)
  /\ UNCHANGED <<moduleVars, deviceVars, emitted>>

\* write: the check, and then the insert.
WriteFix(i) ==
  /\ Serving(i, "deliverFix", "checking")
  /\ CheckStore
  /\ \/ /\ storeFails
        /\ Settle(i)
        /\ UNCHANGED samples
     \/ /\ ~storeFails
        /\ samples' = Append(samples, calls[i].arg)
        /\ Proceed(i, "written")
  /\ UNCHANGED <<selection, alive, mechanisms, refusing, deviceVars>>
  /\ IF storeFails THEN Notify ELSE emitted' = [ComputeStatus' EXCEPT !.lastSample = Len(samples)]

\* After the purge: onSampleWritten and the new status.
AnnounceFix(i) ==
  /\ Serving(i, "deliverFix", "written")
  /\ Settle(i)
  /\ UNCHANGED <<moduleVars, deviceVars>>
  /\ Notify

----------------------------------------------------------------------------
(* What the operating system and the user do outside the app.                *)

SetPermission(state) ==
  /\ state # permission
  /\ permission' = state
  /\ UNCHANGED <<moduleVars, platform, upgradeSpent, conditions, storeFails, delivered, queueVars>>
  /\ Notify

SetCondition(flag) ==
  /\ conditions' = IF flag \in conditions THEN conditions \ {flag} ELSE conditions \cup {flag}
  /\ UNCHANGED <<moduleVars, platform, permission, upgradeSpent, storeFails, delivered, queueVars>>
  /\ Notify

RefuseNextStart ==
  /\ ~refusing /\ refusing' = TRUE
  /\ UNCHANGED <<selection, alive, mechanisms, storeUnusable, samples, deviceVars, emitted, queueVars>>

SetStoreFailure ==
  /\ storeFails' = ~storeFails
  /\ UNCHANGED <<moduleVars, platform, permission, upgradeSpent, conditions, delivered,
                 emitted, queueVars>>

KillMechanism ==
  /\ Running
  /\ alive' = FALSE
  /\ mechanisms' = [mechanisms EXCEPT ![selection.mode] = @ - 1]
  /\ UNCHANGED <<selection, refusing, storeUnusable, samples, deviceVars, queueVars>>
  /\ Notify

\* The watchdog, a reboot or a relaunch by the OS.
RestartMechanism ==
  /\ selection # Stopped /\ ~alive
  /\ alive' = TRUE
  /\ mechanisms' = [mechanisms EXCEPT ![selection.mode] = @ + 1]
  /\ UNCHANGED <<selection, refusing, storeUnusable, samples, deviceVars, queueVars>>
  /\ Notify

----------------------------------------------------------------------------

\* A phone with some permission, on which capture was started before or not.
CaptureInit(on, allowed, started) ==
  /\ platform = on /\ permission = allowed
  /\ selection \in IF started THEN {SelectionOf(c) : c \in {d \in Configs : ~ConfigProblem(d)}}
                   ELSE {Stopped}
  /\ alive = started
  /\ mechanisms = [m \in Modes |-> IF m = selection.mode THEN 1 ELSE 0]
  /\ upgradeSpent = FALSE /\ conditions = {}
  /\ refusing = FALSE /\ storeFails = FALSE /\ storeUnusable = FALSE
  /\ delivered = 0 /\ samples = <<>>
  /\ emitted = ComputeStatus
  /\ answers = <<>>

\* The module serves the call whose turn it is.
Serve ==
  \E i \in DOMAIN calls :
    \/ StartRejected(i) \/ StartChecksStore(i) \/ StartSelects(i) \/ Stop(i) \/ GetStatus(i)
    \/ RequestPermission(i) \/ JudgeFix(i) \/ WriteFix(i) \/ AnnounceFix(i)
=============================================================================
