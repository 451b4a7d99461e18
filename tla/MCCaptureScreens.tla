-------------------------- MODULE MCCaptureScreens --------------------------
(* The configuration the app passes, the foreground service it could select, *)
(* and one that is refused on Android.  The first two scenarios are about    *)
(* capture, the others about the permission flow on iOS.                     *)
EXTENDS CaptureScreens

MCConfigs ==
  {[useForegroundService |-> FALSE, minInterval |-> 1, notification |-> 1],
   [useForegroundService |-> TRUE, minInterval |-> 1, notification |-> 1],
   [useForegroundService |-> TRUE, minInterval |-> 1, notification |-> 0]}

Budget(fixes, os, presses, opens, returns, deaths) ==
  [fixes |-> fixes, os |-> os, presses |-> presses, opens |-> opens,
   returns |-> returns, deaths |-> deaths]

Scenario(on, allowed, capturing, bounds) ==
  [platform |-> on, permission |-> allowed, started |-> capturing, budget |-> bounds]

MCScenarios ==
  {Scenario("android", "always", TRUE, Budget(1, 1, 2, 0, 0, 0)),
   Scenario("android", "undetermined", FALSE, Budget(0, 1, 2, 1, 0, 0)),
   Scenario("ios", "foreground_only", FALSE, Budget(0, 1, 1, 2, 0, 0)),
   Scenario("ios", "foreground_only", FALSE, Budget(0, 0, 2, 2, 0, 0)),
   Scenario("ios", "foreground_only", FALSE, Budget(0, 0, 1, 2, 1, 1))}

\* The card of Home and the permission flow, each with a table of its own, send the user to one
\* page for a flag, and a status that is all set lacks at most what the flow cannot remedy.
ASSUME OnePageForAFlag ==
  /\ \A flag \in DOMAIN RemedyPage : flag \in Range(FlagPriority) /\ RemedyPage[flag] = FixOf(flag)
  /\ \A health \in SUBSET Range(FlagPriority) :
       LET status == [permission |-> "always", mode |-> "moving", health |-> health]
       IN CompleteTitle(status) = "all set" /\ HomeHeading(status) = "needs fixing" =>
            health \subseteq {"store_unusable", "background_permission_missing", "service_not_running"}
=============================================================================
