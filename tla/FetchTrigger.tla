---------------------------- MODULE FetchTrigger ----------------------------
(***************************************************************************)
(* What a wake of the app makes of the fetcher: the trigger holds wakes off *)
(* for as long as the last cycle said, runs cycles back to back while       *)
(* changed shards are waiting, and joins calls made meanwhile.  It is the   *)
(* fetcher's only caller.  Its wait is in memory: a new process asks at     *)
(* once, and the fetcher's own gates, which are in the store, still hold.   *)
(*                                                                         *)
(* As in FetchCycle, times are differences from the device's clock.        *)
(***************************************************************************)
EXTENDS FetchCycle

VARIABLES
  running,    \* the run in progress: cycles that have ended, and now - startedAt
  notBefore   \* the wait the last run left, in memory

triggeredVars == <<vars, running, notBefore>>

NoRun == [cycles |-> -1, elapsed |-> 0]
NoWait == [set |-> FALSE, wait |-> 0]

\* A wait longer than any was left by a clock that has since been set back.
TooSoon == notBefore.wait \in 1..Max({scenario.backoffMax, scenario.interval})

NewRun == [cycles |-> 0, elapsed |-> 0]

\* At a wake (start, foreground, a stored fix), or in a run that goes on; a call made
\* while a run is in progress joins it.
Asking == cycle = NoCycle /\ (running = NoRun => ~TooSoon)
Asker == IF running = NoRun THEN NewRun ELSE running

-----------------------------------------------------------------------------
(* How a cycle ended, and what the run makes of it. *)

Completed(deferred) == [outcome |-> "completed", deferred |-> deferred, retryIn |-> 0]
RetryIn(wait) == [outcome |-> "retry", deferred |-> 0, retryIn |-> wait]
Recheck == [outcome |-> "recheck", deferred |-> 0, retryIn |-> 0]

\* When the network may next be asked.
WaitAfter(last) ==
  CASE last.outcome = "completed" ->
         IF last.deferred > 0 THEN 0 ELSE Max({0, scenario.interval - Asker.elapsed})
    [] last.outcome = "recheck" -> Max({0, scenario.recheck - Asker.elapsed})
    [] OTHER -> last.retryIn

GoesOn(last) == /\ last.outcome = "completed" /\ last.deferred > 0
                /\ running.cycles + 1 < scenario.maxCycles

Ends(last) ==
  IF GoesOn(last) THEN running' = [running EXCEPT !.cycles = @ + 1] /\ UNCHANGED notBefore
                  ELSE running' = NoRun /\ notBefore' = [set |-> TRUE, wait |-> WaitAfter(last)]

\* What a cycle in progress answers if this step ends it.
EndsWith(last) == IF cycle' = NoCycle THEN Ends(last) ELSE UNCHANGED <<running, notBefore>>

\* One of the fetcher's gates answers, without a request.
PutOffByGate(metered) ==
  /\ Asking
  /\ \/ BackedOff /\ Ends(RetryIn(backoff.wait))
     \/ ~BackedOff /\ PutOff(metered) /\ Ends(Recheck)
  /\ UNCHANGED vars

\* The watch list or what is held cannot be read.
StoreUnreadable ==
  /\ Asking
  /\ Spend("faults")
  /\ Ends(Recheck)
  /\ UNCHANGED <<publisherVars, watch, storeVars, cycle, historyVars>>

CycleStarts(metered) == Asking /\ StartCycle(metered) /\ running' = Asker /\ UNCHANGED notBefore

CycleFails ==
  /\ cycle # NoCycle
  /\ IndexRequestFails \/ WriteFails
  /\ Ends(RetryIn(BackoffAfter(cycle.loaded.backoff, cycle.elapsed).wait))

CycleGoesOn ==
  /\ cycle # NoCycle
  /\ IndexAnswered \/ BundlesAnswered \/ Write
  /\ EndsWith(IF cycle.phase = "write" /\ ~cycle.failed THEN Completed(cycle.deferred)
              ELSE RetryIn(BackoffAfter(cycle.loaded.backoff, cycle.elapsed).wait))

-----------------------------------------------------------------------------

\* The process ends, in a cycle or between two, and with it the wait.
ProcessEnds ==
  /\ \/ AppDies
     \/ /\ cycle = NoCycle /\ <<running, notBefore>> # <<NoRun, NoWait>>
        /\ Spend("faults")
        /\ UNCHANGED <<publisherVars, watch, storeVars, cycle, historyVars>>
  /\ running' = NoRun /\ notBefore' = NoWait

Elapses(d) ==
  /\ ClockMoves(d)
  /\ running' = IF running = NoRun THEN NoRun
                ELSE [running EXCEPT !.elapsed = Min({Max({scenario.interval, scenario.recheck}), @ + d})]
  /\ notBefore' = IF notBefore.set THEN [notBefore EXCEPT !.wait = Max({0, @ - d})] ELSE notBefore
  /\ <<backoff, completed, cycle, running, notBefore>>' # <<backoff, completed, cycle, running, notBefore>>

Tick == Elapses(1) /\ UNCHANGED scenario
ClockSetBack == Spend("stepBacks") /\ Elapses(0 - (scenario.backoffMax + 1))

TriggeredInit == Init /\ running = NoRun /\ notBefore = NoWait

TriggerStep == PutOffByGate(TRUE) \/ CycleStarts(TRUE) \/ CycleGoesOn

Elsewhere ==
  /\ \/ PublisherStep \/ KeyRetired \/ WatchMoves \/ DeleteAll
     \/ \E r \in Reports : Purge(r)
  /\ UNCHANGED <<running, notBefore>>

Next ==
  \/ TriggerStep \/ CycleStarts(FALSE)
  \/ CycleFails \/ StoreUnreadable \/ ProcessEnds
  \/ Tick \/ ClockSetBack \/ Elsewhere

Spec == TriggeredInit /\ [][Next]_triggeredVars

\* The app wakes again and again, requests are answered, time passes, and edge
\* copies of the index expire.
FairSpec ==
  /\ Spec
  /\ WF_triggeredVars(scenario.goesOn /\ TriggerStep)
  /\ WF_triggeredVars(scenario.goesOn /\ Tick)
  /\ WF_triggeredVars(/\ scenario.goesOn /\ EdgesRefresh
                     /\ UNCHANGED <<watch, storeVars, cycle, historyVars, scenario, running, notBefore>>)
=============================================================================
