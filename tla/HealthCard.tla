----------------------------- MODULE HealthCard -----------------------------
(* What the app says about capture, from a status of the capture module: the *)
(* card and the heading of Home, the list of the diagnostics screen, the     *)
(* tracking section of Settings.  A text is named by the flag or the state   *)
(* it is about; how it looks is left out.                                    *)
EXTENDS LocationCapture

\* Most blocking first.
FlagPriority ==
  <<"store_unusable", "location_services_off", "background_permission_missing",
    "precise_location_off", "service_not_running", "battery_optimisation_active",
    "hibernation_not_exempt", "oem_restriction_suspected", "background_refresh_off",
    "low_power_mode">>

\* What the flag's button does: nothing, the permission flow, or a page of the
\* system's settings.
FixOf(flag) ==
  CASE flag = "store_unusable" -> "none"
    [] flag = "background_permission_missing" -> "permission"
    [] flag = "hibernation_not_exempt" -> "hibernation"
    [] flag \in {"service_not_running", "battery_optimisation_active",
                 "oem_restriction_suspected"} -> "battery"
    [] OTHER -> "app"

SortFlags(flags) == SelectSeq(FlagPriority, LAMBDA flag : flag \in flags)

\* runFix.
Leads(fix) == IF fix \in {"none", "permission"} THEN fix ELSE "system_settings"

HealthyCard(status) ==
  [state |-> "healthy", title |-> IF status.mode = "stopped" THEN "paused" ELSE "working",
   action |-> "none", more |-> 0]

BrokenCard(flag, more, fallback) ==
  [state |-> "broken", title |-> flag, more |-> more,
   action |-> IF FixOf(flag) = "none" THEN fallback ELSE Leads(FixOf(flag))]

\* CaptureHealthStatus: the first flag, and how many more there are.
HomeCard(status) ==
  IF status.health = {} THEN HealthyCard(status)
  ELSE BrokenCard(SortFlags(status.health)[1], Cardinality(status.health) - 1, "diagnostics")

\* CaptureHealthDiagnostics: a card for every flag.
DiagnosticsCards(status) ==
  LET flags == SortFlags(status.health)
  IN IF flags = <<>> THEN <<HealthyCard(status)>>
     ELSE [i \in DOMAIN flags |-> BrokenCard(flags[i], 0, "check_again")]

\* Home's heading, of a phone with no active report.
HomeHeading(status) == IF status.health # {} THEN "needs fixing" ELSE "nothing more to do"

\* The tracking section of Settings: what it says, and its one button.
Tracking(status) ==
  CASE status.running -> [says |-> "on", button |-> "pause"]
    [] ~status.running /\ status.permission \in {"foreground_only", "always"} ->
         [says |-> "paused", button |-> "resume"]
    [] OTHER -> [says |-> "off", button |-> "permission flow"]

\* remedies: the flags the permission flow has a settings page for, each with that page.
RemedyPage ==
  [flag \in {"battery_optimisation_active", "oem_restriction_suspected"} |-> "battery"]
  @@ ("hibernation_not_exempt" :> "hibernation")
  @@ [flag \in {"location_services_off", "precise_location_off", "background_refresh_off",
                "low_power_mode"} |-> "app"]
Remedies(status) ==
  IF status.permission \in {"always", "foreground_only"} THEN status.health \cap DOMAIN RemedyPage
  ELSE {}

\* The last stage of the flow says all is done when there is nothing to remedy.
CompleteTitle(status) == IF Remedies(status) = {} THEN "all set" ELSE "almost there"
=============================================================================
