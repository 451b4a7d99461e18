---------------------------- MODULE CaptureProofs ----------------------------
(* Proofs about the capture module and its screens, for every set of         *)
(* configurations, conditions and scenarios.                                 *)
EXTENDS CaptureScreens, SequenceTheorems, TLAPS

----------------------------------------------------------------------------
(* Sequences as they change here: at the head, or at the end.                *)

LEMMA Appended ==
  ASSUME NEW S, NEW s \in Seq(S), NEW e \in S
  PROVE  /\ Append(s, e) \in Seq(S)
         /\ Len(Append(s, e)) = Len(s) + 1
         /\ \A i \in DOMAIN s : Append(s, e)[i] = s[i]
         /\ Append(s, e)[Len(s) + 1] = e
BY AppendProperties

LEMMA SeqDomain ==
  ASSUME NEW S, NEW s \in Seq(S)
  PROVE  Len(s) \in Nat /\ DOMAIN s = 1..Len(s)
BY LenProperties

LEMMA FirstRemoved ==
  ASSUME NEW S, NEW s \in Seq(S), s # <<>>
  PROVE  /\ RemoveAt(s, 1) \in Seq(S)
         /\ Len(RemoveAt(s, 1)) = Len(s) - 1
         /\ \A i \in 1..(Len(s) - 1) : RemoveAt(s, 1)[i] = s[i + 1]
<1> DEFINE n == Len(s)
           before == SubSeq(s, 1, 0)
           after == SubSeq(s, 2, n)
<1>1. n \in Nat \ {0}
  BY EmptySeq
<1>2. before \in Seq(S) /\ Len(before) = 0
  BY SubSeqProperties
<1>3. /\ after \in Seq(S)
      /\ Len(after) = n - 1
      /\ \A i \in 1..(n - 1) : after[i] = s[i + 1]
  <2>1. \A i \in 2..n : s[i] \in S
    BY <1>1, ElementOfSeq
  <2>2. /\ after \in Seq(S)
        /\ Len(after) = IF 2 <= n THEN n - 2 + 1 ELSE 0
        /\ \A i \in 1..(n - 2 + 1) : after[i] = s[2 + i - 1]
    BY <1>1, <2>1, SubSeqProperties
  <2> HIDE DEF after, n
  <2>3. QED BY <1>1, <2>2
<1>4. /\ before \o after \in Seq(S)
      /\ Len(before \o after) = Len(before) + Len(after)
      /\ \A i \in 1..(Len(before) + Len(after)) :
           (before \o after)[i] = IF i <= Len(before) THEN before[i] ELSE after[i - Len(before)]
  BY <1>2, <1>3, ConcatProperties
<1>5. RemoveAt(s, 1) = before \o after
  BY DEF RemoveAt
<1> HIDE DEF before, after, n
<1>6. /\ RemoveAt(s, 1) \in Seq(S)
      /\ Len(RemoveAt(s, 1)) = n - 1
      /\ \A i \in 1..(n - 1) : RemoveAt(s, 1)[i] = s[i + 1]
  <2>1. Len(before) + Len(after) = n - 1 /\ n - 1 \in Nat
    BY <1>1, <1>2, <1>3
  <2>2. RemoveAt(s, 1) \in Seq(S) /\ Len(RemoveAt(s, 1)) = n - 1
    BY <1>4, <1>5, <2>1
  <2>3. ASSUME NEW i \in 1..(n - 1)
        PROVE  RemoveAt(s, 1)[i] = s[i + 1]
    <3>1. RemoveAt(s, 1)[i] = IF i <= 0 THEN before[i] ELSE after[i - 0]
      BY <1>2, <1>4, <1>5, <2>1
    <3>2. ~(i <= 0) /\ i - 0 = i
      BY <2>1
    <3>3. QED BY <1>3, <3>1, <3>2
  <2>4. QED BY <2>2, <2>3
<1>7. QED BY <1>6 DEF n

LEMMA FirstTaken ==
  ASSUME NEW S, NEW s \in Seq(S), s # <<>>
  PROVE  /\ Tail(s) \in Seq(S)
         /\ Len(Tail(s)) = Len(s) - 1
         /\ \A i \in 1..(Len(s) - 1) : Tail(s)[i] = s[i + 1]
BY HeadTailProperties

----------------------------------------------------------------------------
(* Types: the status, and the queue as the steps of serial() change it.      *)

LEMMA StatusTyped == ModuleTypeOK /\ DeviceTypeOK => ComputeStatus \in Statuses
<1> SUFFICES ASSUME ModuleTypeOK, DeviceTypeOK
             PROVE  ComputeStatus \in Statuses
  OBVIOUS
<1>1. selection.mode \in Modes \cup {"stopped"} /\ (selection # Stopped => selection.mode \in Modes)
  BY DEF ModuleTypeOK, Selections, Stopped
<1>2. Running \in BOOLEAN /\ (Running => selection # Stopped)
  BY DEF Running
<1>3. Tier \in Modes \cup {"stopped", "throttled"}
  BY <1>1, <1>2 DEF Tier
<1>4. Health \subseteq Flags
  BY DEF Health, Flags, DeviceTypeOK
<1>5. Len(samples) \in Nat
  BY DEF ModuleTypeOK
<1>6. QED
  BY <1>1, <1>2, <1>3, <1>4, <1>5 DEF ComputeStatus, Statuses, DeviceTypeOK

\* Only the first call of the queue is under way.
OneUnderWay(queue) == \A i \in DOMAIN queue : i > 1 => queue[i].at = "queued"

LEMMA AskTyped ==
  ASSUME QueueTypeOK, NEW call \in Calls, call.at = "queued", Ask(call)
  PROVE  /\ calls' \in Seq(Calls) /\ OneUnderWay(calls')
         /\ Len(calls') = Len(calls) + 1 /\ calls'[Len(calls) + 1] = call
         /\ \A i \in DOMAIN calls : calls'[i] = calls[i]
<1>1. calls \in Seq(Calls) /\ Len(calls) \in Nat
  BY DEF QueueTypeOK
<1>2. /\ calls' \in Seq(Calls)
      /\ Len(calls') = Len(calls) + 1
      /\ \A i \in DOMAIN calls : calls'[i] = calls[i]
      /\ calls'[Len(calls) + 1] = call
  BY <1>1, Appended DEF Ask
<1>3. \A i \in DOMAIN calls' : i \in DOMAIN calls \/ i = Len(calls) + 1
  BY <1>1, <1>2
<1>4. QED BY <1>2, <1>3 DEF QueueTypeOK, OneUnderWay

LEMMA ProceedTyped ==
  ASSUME QueueTypeOK, NEW i \in DOMAIN calls, HasTurn(i), NEW step,
         [calls[i] EXCEPT !.at = step] \in Calls, Proceed(i, step)
  PROVE  /\ i = 1 /\ calls' \in Seq(Calls) /\ OneUnderWay(calls') /\ UNCHANGED answers
         /\ Len(calls') = Len(calls)
         /\ calls'[1] = [calls[1] EXCEPT !.at = step]
         /\ \A j \in DOMAIN calls : j > 1 => calls'[j] = calls[j]
<1>1. i = 1 /\ calls \in Seq(Calls) /\ Len(calls) \in Nat /\ OneUnderWay(calls)
  BY DEF HasTurn, QueueTypeOK, OneUnderWay
<1>2. calls' = [calls EXCEPT ![1] = [calls[1] EXCEPT !.at = step]]
  BY <1>1 DEF Proceed
<1>3. calls' \in Seq(Calls) /\ Len(calls') = Len(calls) /\ DOMAIN calls' = DOMAIN calls
  BY <1>1, <1>2, ExceptSeq
<1>4. /\ calls'[1] = [calls[1] EXCEPT !.at = step]
      /\ \A j \in DOMAIN calls : j > 1 => calls'[j] = calls[j]
  BY <1>1, <1>2
<1>5. OneUnderWay(calls')
  <2>1. SUFFICES ASSUME NEW j \in DOMAIN calls', j > 1
                 PROVE  calls'[j].at = "queued"
    BY DEF OneUnderWay
  <2>2. j \in DOMAIN calls
    BY <1>3, Zenon
  <2>3. calls'[j] = calls[j]
    BY <1>4, <2>1, <2>2, Zenon
  <2>4. calls[j].at = "queued"
    BY <1>1, <2>1, <2>2, ZenonT(60) DEF OneUnderWay
  <2>5. QED BY <2>3, <2>4, Zenon
<1>6. QED BY <1>1, <1>3, <1>4, <1>5 DEF Proceed

LEMMA FirstSettled ==
  ASSUME QueueTypeOK, NEW i \in DOMAIN calls, HasTurn(i), calls' = RemoveAt(calls, i)
  PROVE  /\ i = 1 /\ calls' \in Seq(Calls) /\ Len(calls') = Len(calls) - 1
         /\ \A j \in DOMAIN calls' : j + 1 \in DOMAIN calls /\ calls'[j] = calls[j + 1]
         /\ \A j \in DOMAIN calls' : calls'[j].at = "queued"
         /\ OneUnderWay(calls')
<1>1. /\ i = 1 /\ calls \in Seq(Calls) /\ Len(calls) \in Nat /\ calls # <<>>
      /\ DOMAIN calls = 1..Len(calls)
  <2>1. i = 1 /\ calls \in Seq(Calls)
    BY DEF HasTurn, QueueTypeOK
  <2>2. Len(calls) \in Nat /\ DOMAIN calls = 1..Len(calls)
    BY <2>1, SeqDomain, ZenonT(60)
  <2>3. QED BY <2>1, <2>2
<1>2. /\ calls' \in Seq(Calls)
      /\ Len(calls') = Len(calls) - 1
      /\ \A j \in 1..(Len(calls) - 1) : calls'[j] = calls[j + 1]
  BY <1>1, FirstRemoved, Zenon
<1>3. \A j \in DOMAIN calls' : j \in 1..(Len(calls) - 1) /\ j + 1 \in DOMAIN calls /\ j + 1 > 1
  BY <1>1, <1>2
<1>4. \A j \in DOMAIN calls' : calls'[j] = calls[j + 1] /\ calls'[j].at = "queued"
  <2>1. SUFFICES ASSUME NEW j \in DOMAIN calls'
                 PROVE  calls'[j] = calls[j + 1] /\ calls'[j].at = "queued"
    OBVIOUS
  <2>2. calls'[j] = calls[j + 1]
    BY <1>2, <1>3
  <2>3. calls[j + 1].at = "queued"
    BY <1>3 DEF QueueTypeOK
  <2>4. QED BY <2>2, <2>3
<1>5. QED BY <1>1, <1>2, <1>3, <1>4, Zenon DEF OneUnderWay

LEMMA ResolveTyped ==
  ASSUME QueueTypeOK, NEW i \in DOMAIN calls, HasTurn(i), NEW result,
         [call |-> calls[i], result |-> result] \in Answers, Resolve(i, result)
  PROVE  answers' \in Seq(Answers)
BY Appended DEF Resolve, QueueTypeOK

----------------------------------------------------------------------------
(* Every step keeps every variable in its type: first what the module does.  *)

LEMMA SelectionTyped ==
  ASSUME CaptureAssumption, NEW c \in Configs
  PROVE  SelectionOf(c) \in Selections /\ SelectionOf(c) # Stopped
<1>1. ModeOf(c) \in Modes
  BY DEF ModeOf, Modes
<1>2. c.minInterval \in Nat /\ c.notification \in Nat
  BY DEF CaptureAssumption
<1>3. SelectionOf(c) \in Selections
  BY <1>1, <1>2 DEF SelectionOf, Selections
<1>4. SelectionOf(c).mode # Stopped.mode
  BY <1>1 DEF SelectionOf, Stopped, Modes
<1>5. QED BY <1>3, <1>4

LEMMA SwitchedTyped ==
  ASSUME mechanisms \in [Modes -> Int], NEW from, NEW to, NEW started
  PROVE  Switched(from, to, started) \in [Modes -> Int]
BY DEF Switched

LEMMA LastSampleTyped ==
  ASSUME NEW st \in Statuses, NEW n \in Nat
  PROVE  [st EXCEPT !.lastSample = n] \in Statuses
BY DEF Statuses

\* The type of what Serve may change.
ServedTypeOK == ModuleTypeOK /\ DeviceTypeOK /\ QueueTypeOK /\ emitted \in Statuses

LEMMA ServeTypeOK ==
  ASSUME CaptureAssumption, ServedTypeOK, Serve
  PROVE  ServedTypeOK'
<1> USE DEF ServedTypeOK
<1>1. PICK i \in DOMAIN calls :
        \/ StartRejected(i) \/ StartChecksStore(i) \/ StartSelects(i) \/ Stop(i) \/ GetStatus(i)
        \/ RequestPermission(i) \/ JudgeFix(i) \/ WriteFix(i) \/ AnnounceFix(i)
  BY DEF Serve
<1>2. calls[i] \in Calls /\ HasTurn(i)
  <2>1. \A op, step : Serving(i, op, step) => HasTurn(i)
    BY DEF Serving
  <2>2. HasTurn(i)
    BY <1>1, <2>1, Zenon DEF StartRejected, StartChecksStore, StartSelects, Stop, GetStatus,
      RequestPermission, JudgeFix, WriteFix, AnnounceFix
  <2>3. calls \in Seq(Calls)
    BY DEF QueueTypeOK
  <2>4. calls[i] \in Calls
    BY <2>3, ElementOfSeq
  <2>5. QED BY <2>2, <2>4
<1>3. \A result : Resolve(i, result) /\ [call |-> calls[i], result |-> result] \in Answers => QueueTypeOK'
  BY <1>2, FirstSettled, ResolveTyped DEF Resolve, QueueTypeOK, OneUnderWay
<1>4. Settle(i) => QueueTypeOK'
  BY <1>2, FirstSettled DEF Settle, QueueTypeOK, OneUnderWay
<1>5. \A step : Proceed(i, step) /\ [calls[i] EXCEPT !.at = step] \in Calls => QueueTypeOK'
  BY <1>2, ProceedTyped DEF QueueTypeOK, OneUnderWay
<1>6. ModuleTypeOK' /\ DeviceTypeOK' /\ Notify => emitted' \in Statuses
  <2>1. (ModuleTypeOK /\ DeviceTypeOK => ComputeStatus \in Statuses)'
    BY StatusTyped, PTL
  <2>2. QED BY <2>1 DEF Notify
<1>7. CASE StartRejected(i)
  <2>1. calls[i] \in OtherCalls
    BY <1>2, <1>7 DEF StartRejected, Serving, Calls, StatusCalls, OtherCalls
  <2>2. \A r \in Results : [call |-> calls[i], result |-> r] \in Answers
    BY <2>1 DEF Answers
  <2>3. QueueTypeOK'
    BY <1>3, <1>7, <2>2 DEF StartRejected, Results
  <2>4. QED BY <1>7, <2>3 DEF StartRejected, moduleVars, deviceVars, ModuleTypeOK, DeviceTypeOK
<1>8. CASE StartChecksStore(i)
  <2>1. [calls[i] EXCEPT !.at = "checking"] \in Calls
    BY <1>2, <1>8 DEF StartChecksStore, Serving, Calls, StatusCalls, OtherCalls
  <2>2. QueueTypeOK'
    BY <1>5, <1>8, <2>1 DEF StartChecksStore
  <2>3. QED BY <1>8, <2>2 DEF StartChecksStore, moduleVars, deviceVars, ModuleTypeOK, DeviceTypeOK
<1>9. CASE StartSelects(i)
  <2>1. calls[i] \in OtherCalls /\ calls[i].arg \in Configs
    BY <1>2, <1>9 DEF StartSelects, Serving, Calls, StatusCalls, OtherCalls
  <2>2. \A r \in Results : [call |-> calls[i], result |-> r] \in Answers
    BY <2>1 DEF Answers
  <2>3. QueueTypeOK'
    BY <1>3, <1>9, <2>2 DEF StartSelects, Results
  <2>4. DeviceTypeOK'
    BY <1>9 DEF StartSelects, deviceVars, DeviceTypeOK
  <2>5. SelectionOf(calls[i].arg) \in Selections /\ SelectionOf(calls[i].arg) # Stopped
    BY <2>1, SelectionTyped
  <2>7. ModuleTypeOK'
    <3>1. PICK next : next = SelectionOf(calls[i].arg)
      OBVIOUS
    <3>2. \/ UNCHANGED <<selection, alive, mechanisms, refusing>>
          \/ /\ selection' = next /\ alive' = ~refusing /\ refusing' = FALSE
             /\ mechanisms' = Switched(selection, next, ~refusing)
      BY <1>9, <3>1 DEF StartSelects
    <3>3. storeUnusable' \in BOOLEAN /\ UNCHANGED samples
      <4>1. storeUnusable' = storeFails /\ UNCHANGED samples
        BY <1>9 DEF StartSelects, CheckStore
      <4>2. storeFails \in BOOLEAN
        BY DEF DeviceTypeOK
      <4>3. QED BY <4>1, <4>2
    <3>4. next \in Selections /\ next # Stopped
      BY <2>5, <3>1
    <3>5. mechanisms' \in [Modes -> Int]
      BY <3>2, SwitchedTyped DEF ModuleTypeOK
    <3>6. alive' \in BOOLEAN /\ refusing' \in BOOLEAN /\ (alive' => selection' # Stopped)
      <4>1. CASE UNCHANGED <<selection, alive, mechanisms, refusing>>
        <5>1. selection' = selection /\ alive' = alive /\ refusing' = refusing
          BY <4>1
        <5>2. alive \in BOOLEAN /\ refusing \in BOOLEAN /\ (alive => selection # Stopped)
          BY DEF ModuleTypeOK
        <5>3. QED BY <5>1, <5>2, Zenon
      <4>2. CASE selection' = next /\ alive' = ~refusing /\ refusing' = FALSE
        BY <3>4, <4>2, Zenon DEF ModuleTypeOK
      <4>3. QED BY <3>2, <4>1, <4>2
    <3>7. selection' \in {Stopped} \cup Selections
      BY <3>2, <3>4 DEF ModuleTypeOK
    <3>8. samples' \in Seq(Nat)
      BY <3>3 DEF ModuleTypeOK
    <3>9. QED BY <3>3, <3>5, <3>6, <3>7, <3>8 DEF ModuleTypeOK
  <2>8. QED BY <1>6, <1>9, <2>3, <2>4, <2>7 DEF StartSelects
<1>10. CASE Stop(i)
  <2>1. calls[i] \in OtherCalls
    BY <1>2, <1>10 DEF Stop, Serving, Calls, StatusCalls, OtherCalls
  <2>2. [call |-> calls[i], result |-> "ok"] \in Answers
    BY <2>1 DEF Answers, Results
  <2>3. QueueTypeOK'
    BY <1>3, <1>10, <2>2 DEF Stop
  <2>4. DeviceTypeOK'
    BY <1>10 DEF Stop, deviceVars, DeviceTypeOK
  <2>5. ModuleTypeOK'
    BY <1>10, SwitchedTyped DEF Stop, ModuleTypeOK
  <2>6. QED BY <1>6, <1>10, <2>3, <2>4, <2>5 DEF Stop
<1>11. CASE GetStatus(i)
  <2>1. calls[i] \in StatusCalls
    BY <1>2, <1>11 DEF GetStatus, Serving, Calls, StatusCalls, OtherCalls
  <2>2. [call |-> calls[i], result |-> ComputeStatus] \in Answers
    BY <2>1, StatusTyped DEF Answers
  <2>3. QueueTypeOK'
    BY <1>3, <1>11, <2>2 DEF GetStatus
  <2>4. QED BY <1>11, <2>3 DEF GetStatus, moduleVars, deviceVars, ModuleTypeOK, DeviceTypeOK
<1>12. CASE RequestPermission(i)
  <2>1. calls[i] \in OtherCalls
    BY <1>2, <1>12 DEF RequestPermission, Serving, Calls, StatusCalls, OtherCalls
  <2>2. \A r \in Results : [call |-> calls[i], result |-> r] \in Answers
    BY <2>1 DEF Answers
  <2>3. Permissions \subseteq Results /\ \A step : Outcomes(step) \subseteq Permissions
    BY DEF Results, Permissions, Outcomes
  <2>4. QueueTypeOK' /\ permission' \in Permissions /\ upgradeSpent' \in BOOLEAN
    BY <1>3, <1>12, <2>2, <2>3 DEF RequestPermission, DeviceTypeOK
  <2>5. ModuleTypeOK' /\ DeviceTypeOK'
    BY <1>12, <2>4 DEF RequestPermission, moduleVars, ModuleTypeOK, DeviceTypeOK
  <2>6. QED BY <1>6, <1>12, <2>4, <2>5 DEF RequestPermission
<1>13. CASE JudgeFix(i)
  <2>1. [calls[i] EXCEPT !.at = "checking"] \in Calls
    BY <1>2, <1>13 DEF JudgeFix, Serving, Calls, StatusCalls, OtherCalls
  <2>2. QueueTypeOK'
    BY <1>4, <1>5, <1>13, <2>1 DEF JudgeFix
  <2>3. QED BY <1>13, <2>2 DEF JudgeFix, moduleVars, deviceVars, ModuleTypeOK, DeviceTypeOK
<1>14. CASE WriteFix(i)
  <2>1. [calls[i] EXCEPT !.at = "written"] \in Calls /\ calls[i].arg \in Nat
    BY <1>2, <1>14 DEF WriteFix, Serving, Calls, StatusCalls, OtherCalls
  <2>2. QueueTypeOK'
    BY <1>4, <1>5, <1>14, <2>1 DEF WriteFix
  <2>3. samples' \in Seq(Nat)
    <3>1. samples \in Seq(Nat)
      BY DEF ModuleTypeOK
    <3>2. Append(samples, calls[i].arg) \in Seq(Nat)
      BY <2>1, <3>1, AppendProperties
    <3>3. samples' = samples \/ samples' = Append(samples, calls[i].arg)
      BY <1>14 DEF WriteFix
    <3>4. QED BY <3>1, <3>2, <3>3
  <2>4. ModuleTypeOK' /\ DeviceTypeOK'
    <3>1. UNCHANGED <<selection, alive, mechanisms, refusing, deviceVars>> /\ storeUnusable' = storeFails
      BY <1>14 DEF WriteFix, CheckStore
    <3>2. QED BY <2>3, <3>1 DEF deviceVars, ModuleTypeOK, DeviceTypeOK
  <2>5. ComputeStatus' \in Statuses
    <3>1. (ModuleTypeOK /\ DeviceTypeOK => ComputeStatus \in Statuses)'
      BY StatusTyped, PTL
    <3>2. QED BY <2>4, <3>1
  <2>6. [ComputeStatus' EXCEPT !.lastSample = Len(samples)] \in Statuses
    <3>1. Len(samples) \in Nat
      BY DEF ModuleTypeOK
    <3>2. QED BY <2>5, <3>1, LastSampleTyped
  <2>7. emitted' \in Statuses
    BY <1>6, <1>14, <2>4, <2>6 DEF WriteFix
  <2>8. QED BY <2>2, <2>4, <2>7
<1>15. CASE AnnounceFix(i)
  <2>1. QueueTypeOK'
    BY <1>4, <1>15 DEF AnnounceFix
  <2>2. ModuleTypeOK' /\ DeviceTypeOK'
    BY <1>15 DEF AnnounceFix, moduleVars, deviceVars, ModuleTypeOK, DeviceTypeOK
  <2>3. QED BY <1>6, <1>15, <2>1, <2>2 DEF AnnounceFix
<1>16. QED
  BY <1>1, <1>7, <1>8, <1>9, <1>10, <1>11, <1>12, <1>13, <1>14, <1>15

----------------------------------------------------------------------------
(* Then what the device and the screens do.                                  *)

LEMMA SpendTyped ==
  ASSUME budget \in [Events -> Nat], NEW event \in Events, Spend(event)
  PROVE  budget' \in [Events -> Nat] /\ \A e \in Events : budget'[e] <= budget[e]
BY DEF Spend

LEMMA HeardTyped ==
  ASSUME ScreenTypeOK, emitted' \in Statuses, Heard
  PROVE  /\ shown' \in [Screens -> Statuses \cup {Nothing}]
         /\ flow.instance = 0 => shown'["flow"] = Nothing
<1>1. shown \in [Screens -> Statuses \cup {Nothing}]
  BY DEF ScreenTypeOK
<1>2. shown' \in [Screens -> Statuses \cup {Nothing}]
  BY <1>1 DEF Heard
<1>3. flow.instance = 0 => shown'["flow"] = shown["flow"]
  BY <1>1 DEF Heard, Mounted, Screens
<1>4. QED BY <1>2, <1>3 DEF ScreenTypeOK

LEMMA MountTyped ==
  /\ MountCalls \in Seq(Calls) /\ Len(MountCalls) = 2
  /\ \A i \in DOMAIN MountCalls : MountCalls[i].at = "queued" /\ MountCalls[i].op = "getStatus"
<1>1. \A s \in {"health", "settings"} :
        Call("getStatus", [screen |-> s, instance |-> 0], "mount") \in Calls
  BY DEF Call, Calls, StatusCalls, ScreenCaller
<1>2. \A s \in {"health", "settings"} :
        LET c == Call("getStatus", [screen |-> s, instance |-> 0], "mount")
        IN c.at = "queued" /\ c.op = "getStatus"
  BY DEF Call
<1>3. \A x, y \in Calls : <<x, y>> \in Seq(Calls) /\ Len(<<x, y>>) = 2
                         /\ DOMAIN <<x, y>> = 1..2 /\ <<x, y>>[1] = x /\ <<x, y>>[2] = y
  OBVIOUS
<1>4. QED BY <1>1, <1>2, <1>3 DEF MountCalls

LEMMA ClosedTyped == Closed \in Flows
BY DEF Closed, Flows

LEMMA CountedTyped ==
  ASSUME NEW f \in [Modes -> Int], NEW m \in Modes
  PROVE  /\ [f EXCEPT ![m] = @ - 1] \in [Modes -> Int]
         /\ [f EXCEPT ![m] = @ + 1] \in [Modes -> Int]
BY DEF Modes

LEMMA InitTypeOK ==
  ASSUME CaptureAssumption, ScenarioAssumption, Init
  PROVE  TypeOK
<1>1. PICK s \in Scenarios : CaptureInit(s.platform, s.permission, s.started) /\ budget = s.budget
  BY DEF Init
<1>2. /\ s.platform \in {"android", "ios"} /\ s.permission \in Permissions
      /\ s.started \in BOOLEAN /\ s.budget \in [Events -> Nat]
  BY DEF ScenarioAssumption
<1>3. /\ s.started => selection \in Selections /\ selection # Stopped
      /\ ~s.started => selection = Stopped
  BY <1>1, SelectionTyped DEF CaptureInit
<1>4. ModuleTypeOK
  <2>1. alive = s.started /\ refusing = FALSE /\ storeUnusable = FALSE /\ samples = <<>>
        /\ mechanisms = [m \in Modes |-> IF m = selection.mode THEN 1 ELSE 0]
    BY <1>1 DEF CaptureInit
  <2>2. alive \in BOOLEAN /\ (alive => selection # Stopped)
    BY <1>2, <1>3, <2>1
  <2>3. mechanisms \in [Modes -> Int] /\ samples \in Seq(Nat)
    BY <2>1
  <2>4. selection \in {Stopped} \cup Selections
    BY <1>2, <1>3
  <2>5. QED BY <2>1, <2>2, <2>3, <2>4 DEF ModuleTypeOK
<1>5. DeviceTypeOK
  BY <1>1, <1>2 DEF CaptureInit, DeviceTypeOK
<1>6. QueueTypeOK
  BY <1>1, MountTyped DEF Init, CaptureInit, QueueTypeOK
<1>7. emitted \in Statuses
  BY <1>1, <1>4, <1>5, StatusTyped DEF CaptureInit
<1>8. ScreenTypeOK
  <2>1. shown \in [Screens -> Statuses \cup {Nothing}] /\ shown["flow"] = Nothing
    BY DEF Init, Screens
  <2>2. /\ flow = Closed /\ work = "none" /\ storeQueue = <<>>
        /\ recorded = FALSE /\ forgotten = FALSE
    BY DEF Init
  <2>3. budget \in [Events -> Nat]
    BY <1>1, <1>2
  <2>4. flow \in Flows
    BY <2>2, ClosedTyped
  <2>5. storeQueue \in Seq(StoreCalls)
    BY <2>2
  <2> HIDE <2>2
  <2>6. work = "none" /\ recorded = FALSE /\ forgotten = FALSE
    BY DEF Init
  <2>7. QED BY <2>1, <2>3, <2>4, <2>5, <2>6 DEF ScreenTypeOK
<1>9. QED BY <1>4, <1>5, <1>6, <1>7, <1>8 DEF TypeOK

LEMMA DeviceTypedAgain ==
  ASSUME TypeOK, DeviceChanges \/ Restarted \/ FixArrives
  PROVE  TypeOK'
<1> USE DEF TypeOK
<1>1. ModuleTypeOK' /\ DeviceTypeOK' /\ Notify => emitted' \in Statuses
  <2>1. (ModuleTypeOK /\ DeviceTypeOK => ComputeStatus \in Statuses)'
    BY StatusTyped, PTL
  <2>2. QED BY <2>1 DEF Notify
<1>2. ASSUME UNCHANGED <<flow, work, storeQueue, recorded, forgotten>>, Heard, emitted' \in Statuses,
             budget' \in [Events -> Nat]
      PROVE  ScreenTypeOK'
  <2>1. /\ shown' \in [Screens -> Statuses \cup {Nothing}]
        /\ flow.instance = 0 => shown'["flow"] = Nothing
    BY <1>2, HeardTyped
  <2>2. QED BY <1>2, <2>1 DEF ScreenTypeOK
<1>3. ASSUME Running, UNCHANGED selection
      PROVE  [mechanisms EXCEPT ![selection.mode] = @ - 1] \in [Modes -> Int]
  <2>1. selection.mode \in Modes
    BY <1>3 DEF Running, ModuleTypeOK, Selections
  <2>2. QED BY <2>1, CountedTyped DEF ModuleTypeOK
<1>4. CASE DeviceChanges
  <2>1. budget' \in [Events -> Nat]
    BY <1>4, SpendTyped DEF DeviceChanges, ScreenTypeOK, Events
  <2>2. ModuleTypeOK' /\ DeviceTypeOK' /\ QueueTypeOK' /\ emitted' \in Statuses
    <3>1. CASE \E state \in Permissions \ {"undetermined"} : SetPermission(state)
      <4>1. /\ permission' \in Permissions /\ Notify
            /\ UNCHANGED <<moduleVars, platform, upgradeSpent, conditions, storeFails, delivered, queueVars>>
        BY <3>1 DEF SetPermission
      <4>2. QED BY <1>1, <4>1 DEF moduleVars, queueVars, ModuleTypeOK, DeviceTypeOK, QueueTypeOK
    <3>2. CASE \E flag \in Conditions : SetCondition(flag)
      <4>1. /\ conditions' \subseteq Conditions /\ Notify
            /\ UNCHANGED <<moduleVars, platform, permission, upgradeSpent, storeFails, delivered, queueVars>>
        BY <3>2 DEF SetCondition, DeviceTypeOK
      <4>2. QED BY <1>1, <4>1 DEF moduleVars, queueVars, ModuleTypeOK, DeviceTypeOK, QueueTypeOK
    <3>3. CASE RefuseNextStart
      BY <3>3 DEF RefuseNextStart, deviceVars, queueVars, ModuleTypeOK, DeviceTypeOK, QueueTypeOK
    <3>4. CASE SetStoreFailure
      BY <3>4 DEF SetStoreFailure, moduleVars, queueVars, ModuleTypeOK, DeviceTypeOK, QueueTypeOK
    <3>5. CASE KillMechanism
      <4>1. /\ alive' = FALSE /\ mechanisms' \in [Modes -> Int] /\ Notify
            /\ UNCHANGED <<selection, refusing, storeUnusable, samples, deviceVars, queueVars>>
        BY <1>3, <3>5 DEF KillMechanism
      <4>2. ModuleTypeOK' /\ DeviceTypeOK' /\ QueueTypeOK'
        BY <4>1 DEF deviceVars, queueVars, ModuleTypeOK, DeviceTypeOK, QueueTypeOK
      <4>3. QED BY <1>1, <4>1, <4>2
    <3>6. QED BY <1>4, <3>1, <3>2, <3>3, <3>4, <3>5 DEF DeviceChanges
  <2>3. QED BY <1>2, <1>4, <2>1, <2>2 DEF DeviceChanges
<1>5. CASE Restarted
  <2>1. /\ alive' = TRUE /\ selection # Stopped /\ mechanisms' \in [Modes -> Int] /\ Notify
        /\ UNCHANGED <<selection, refusing, storeUnusable, samples, deviceVars, queueVars>>
    <3>1. /\ alive' = TRUE /\ selection # Stopped /\ Notify
          /\ mechanisms' = [mechanisms EXCEPT ![selection.mode] = @ + 1]
          /\ UNCHANGED <<selection, refusing, storeUnusable, samples, deviceVars, queueVars>>
      BY <1>5 DEF Restarted, RestartMechanism
    <3>2. selection.mode \in Modes /\ mechanisms \in [Modes -> Int]
      BY <3>1 DEF ModuleTypeOK, Selections
    <3>3. mechanisms' \in [Modes -> Int]
      BY <3>1, <3>2, CountedTyped
    <3>4. QED BY <3>1, <3>3
  <2>2. ModuleTypeOK' /\ DeviceTypeOK' /\ QueueTypeOK'
    BY <2>1 DEF deviceVars, queueVars, ModuleTypeOK, DeviceTypeOK, QueueTypeOK
  <2>3. emitted' \in Statuses
    BY <1>1, <2>1, <2>2
  <2>4. QED BY <1>2, <1>5, <2>2, <2>3 DEF Restarted, ScreenTypeOK
<1>6. CASE FixArrives
  <2>1. DeliverFix /\ UNCHANGED screenVars /\ budget' \in [Events -> Nat]
    BY <1>6, SpendTyped DEF FixArrives, ScreenTypeOK, Events
  <2>2. delivered' \in Nat
    BY <2>1 DEF DeliverFix, DeviceTypeOK
  <2>3. Call("deliverFix", "os", delivered + 1) \in Calls
        /\ Call("deliverFix", "os", delivered + 1).at = "queued"
    BY DEF Call, Calls, OtherCalls, DeviceTypeOK
  <2>4. QueueTypeOK'
    BY <2>1, <2>3, AskTyped DEF DeliverFix, QueueTypeOK, OneUnderWay
  <2>5. QED
    BY <2>1, <2>2, <2>4 DEF DeliverFix, moduleVars, screenVars, ModuleTypeOK, DeviceTypeOK, ScreenTypeOK
<1>7. QED BY <1>4, <1>5, <1>6

LEMMA ServesTypeOK ==
  ASSUME CaptureAssumption, TypeOK, ModuleServes
  PROVE  TypeOK'
<1>1. ServedTypeOK' /\ Heard /\ UNCHANGED <<flow, work, storeQueue, recorded, forgotten, budget>>
  BY ServeTypeOK DEF ModuleServes, TypeOK, ServedTypeOK
<1>2. /\ shown' \in [Screens -> Statuses \cup {Nothing}]
      /\ flow.instance = 0 => shown'["flow"] = Nothing
  BY <1>1, HeardTyped DEF TypeOK, ServedTypeOK
<1>3. QED BY <1>1, <1>2 DEF TypeOK, ScreenTypeOK, ServedTypeOK

LEMMA StatusCallTyped ==
  ASSUME ScreenTypeOK, NEW s \in Screens, Mounted(s), NEW of \in {"mount", "refresh", "request", "run"}
  PROVE  StatusCall(s, of) \in Calls /\ StatusCall(s, of).at = "queued"
<1>1. CASE s = "flow"
  <2>1. flow.instance \in Nat \ {0}
    BY <1>1 DEF Mounted, ScreenTypeOK, Flows
  <2>2. [screen |-> s, instance |-> flow.instance] \in FlowCaller
    BY <1>1, <2>1 DEF FlowCaller
  <2>3. QED BY <1>1, <2>2 DEF StatusCall, Call, Calls, StatusCalls
<1>2. CASE s # "flow"
  <2>1. [screen |-> s, instance |-> 0] \in ScreenCaller
    BY <1>2 DEF ScreenCaller, Screens
  <2>2. QED BY <1>2, <2>1 DEF StatusCall, Call, Calls, StatusCalls
<1>3. QED BY <1>1, <1>2

\* What a step of the screens leaves alone.
LEMMA ModuleUntouched ==
  ASSUME TypeOK, UNCHANGED <<moduleVars, deviceVars, emitted>>
  PROVE  ModuleTypeOK' /\ DeviceTypeOK' /\ emitted' \in Statuses
BY DEF TypeOK, ModuleTypeOK, DeviceTypeOK, moduleVars, deviceVars

LEMMA AskedTypeOK ==
  ASSUME QueueTypeOK, NEW call \in Calls, call.at = "queued", Ask(call), UNCHANGED answers
  PROVE  QueueTypeOK'
BY AskTyped DEF QueueTypeOK, OneUnderWay

LEMMA StoreAsked ==
  ASSUME ScreenTypeOK, NEW op \in {"read", "mark", "delete"}, NEW instance \in Nat
  PROVE  Append(storeQueue, [op |-> op, instance |-> instance]) \in Seq(StoreCalls)
<1>1. [op |-> op, instance |-> instance] \in StoreCalls
  BY DEF StoreCalls
<1>2. QED BY <1>1, AppendProperties DEF ScreenTypeOK

LEMMA RefreshTypeOK ==
  ASSUME TypeOK, NEW s \in Screens, Refreshes(s), budget' \in [Events -> Nat]
  PROVE  TypeOK'
<1>1. ModuleTypeOK' /\ DeviceTypeOK' /\ emitted' \in Statuses
  BY ModuleUntouched DEF Refreshes
<1>2. QueueTypeOK'
  BY StatusCallTyped, AskedTypeOK DEF Refreshes, TypeOK
<1>3. ScreenTypeOK'
  BY DEF Refreshes, TypeOK, ScreenTypeOK, screenVars
<1>4. QED BY <1>1, <1>2, <1>3 DEF TypeOK

LEMMA FlowTypeOK ==
  ASSUME TypeOK, OpenFlow \/ CloseFlow \/ PressAllow \/ Decline \/ Reconsider
  PROVE  TypeOK'
<1>0. /\ shown \in [Screens -> Statuses \cup {Nothing}] /\ flow \in Flows
      /\ flow.instance = 0 => shown["flow"] = Nothing
      /\ storeQueue \in Seq(StoreCalls) /\ budget \in [Events -> Nat]
      /\ budget.opens \in Nat
  BY DEF TypeOK, ScreenTypeOK, Events
<1>1. CASE OpenFlow
  <2>1. ModuleTypeOK' /\ DeviceTypeOK' /\ emitted' \in Statuses
    BY <1>1, ModuleUntouched DEF OpenFlow
  <2>2. Spend("opens") /\ budget.opens \in Nat \ {0}
    BY <1>0, <1>1 DEF OpenFlow, Spend
  <2>3. LET call == Call("getStatus", [screen |-> "flow", instance |-> budget.opens], "mount")
        IN call \in Calls /\ call.at = "queued"
    BY <2>2 DEF Call, Calls, StatusCalls, FlowCaller
  <2>4. QueueTypeOK'
    BY <1>1, <2>3, AskedTypeOK DEF OpenFlow, TypeOK
  <2>5. flow' \in Flows /\ flow'.instance # 0
    BY <1>1, <2>2 DEF OpenFlow, Closed, Flows
  <2>6. storeQueue' \in Seq(StoreCalls)
    BY <1>0, <1>1, StoreAsked DEF OpenFlow, TypeOK
  <2>7. budget' \in [Events -> Nat]
    BY <1>0, <2>2, SpendTyped DEF Events
  <2>8. QED BY <1>1, <2>1, <2>4, <2>5, <2>6, <2>7 DEF OpenFlow, TypeOK, ScreenTypeOK
<1>2. CASE CloseFlow
  <2>1. /\ UNCHANGED <<moduleVars, deviceVars, emitted, calls, answers>>
        /\ UNCHANGED <<work, storeQueue, recorded, forgotten, budget>>
    BY <1>2 DEF CloseFlow, captureVars, queueVars
  <2>2. ModuleTypeOK' /\ DeviceTypeOK' /\ emitted' \in Statuses
    BY <2>1, ModuleUntouched
  <2>3. shown' \in [Screens -> Statuses \cup {Nothing}] /\ shown'["flow"] = Nothing
    BY <1>0, <1>2 DEF CloseFlow, Screens
  <2>4. QED BY <1>2, <2>1, <2>2, <2>3, ClosedTyped DEF CloseFlow, TypeOK, QueueTypeOK, ScreenTypeOK
<1>3. CASE PressAllow
  <2>1. ModuleTypeOK' /\ DeviceTypeOK' /\ emitted' \in Statuses
    BY <1>3, ModuleUntouched DEF PressAllow
  <2>2. flow.instance # 0 /\ StepOffered \in Steps
    <3>1. StepOffered \in Steps
      BY <1>3 DEF PressAllow, StepOffered, Steps
    <3>2. shown["flow"] = Nothing => StageShown = "none"
      BY DEF StageShown, Stage, Asking
    <3>3. StageShown = "none" => StepOffered = "none"
      BY DEF StepOffered
    <3>4. QED BY <1>0, <1>3, <3>1, <3>2, <3>3 DEF PressAllow
  <2>3. LET call == Call("requestPermission", [screen |-> "flow", instance |-> flow.instance], StepOffered)
        IN call \in Calls /\ call.at = "queued"
    BY <1>0, <2>2 DEF Call, Calls, OtherCalls, FlowCaller, Flows
  <2>4. QueueTypeOK'
    BY <1>3, <2>3, AskedTypeOK DEF PressAllow, TypeOK
  <2>5. flow' \in Flows /\ flow'.instance = flow.instance
    BY <1>0, <1>3 DEF PressAllow, Flows
  <2>6. storeQueue' \in Seq(StoreCalls)
    BY <1>0, <1>3, StoreAsked DEF PressAllow, TypeOK, Flows
  <2>7. budget' \in [Events -> Nat]
    BY <1>0, <1>3, SpendTyped DEF PressAllow, Events
  <2>8. QED BY <1>3, <2>1, <2>4, <2>5, <2>6, <2>7 DEF PressAllow, TypeOK, ScreenTypeOK
<1>4. CASE Decline \/ Reconsider
  <2>1. PICK choice \in Flows : Leaves(choice) /\ choice.instance = flow.instance
    <3>1. \/ Leaves([flow EXCEPT !.skipped = TRUE]) \/ Leaves([flow EXCEPT !.declined = TRUE])
          \/ Leaves([flow EXCEPT !.skipped = FALSE]) \/ Leaves([flow EXCEPT !.declined = FALSE])
      BY <1>4, Zenon DEF Decline, Reconsider
    <3>2. \A b \in BOOLEAN :
            /\ [flow EXCEPT !.skipped = b] \in Flows /\ [flow EXCEPT !.skipped = b].instance = flow.instance
            /\ [flow EXCEPT !.declined = b] \in Flows /\ [flow EXCEPT !.declined = b].instance = flow.instance
      BY <1>0 DEF Flows
    <3>3. QED BY <3>1, <3>2
  <2>2. UNCHANGED <<moduleVars, deviceVars, emitted, calls, answers>>
    BY <2>1 DEF Leaves, captureVars, queueVars
  <2>3. ModuleTypeOK' /\ DeviceTypeOK' /\ emitted' \in Statuses
    BY <2>2, ModuleUntouched
  <2>4. budget' \in [Events -> Nat]
    BY <1>0, <2>1, SpendTyped DEF Leaves, Events
  <2>5. QED BY <2>1, <2>2, <2>3, <2>4 DEF Leaves, TypeOK, QueueTypeOK, ScreenTypeOK
<1>5. QED BY <1>1, <1>2, <1>3, <1>4

LEMMA SettingsTypeOK ==
  ASSUME TypeOK, Pause \/ Resume \/ DeleteAll
  PROVE  TypeOK'
<1>1. PICK job \in {"pausing", "resuming", "stopping"}, call \in Calls :
        Press(job, call) /\ call.at = "queued"
  <2>1. CASE Pause \/ DeleteAll
    <3>1. LET call == SettingsCall("stop", "none") IN call \in Calls /\ call.at = "queued"
      BY DEF SettingsCall, Call, Calls, OtherCalls, ScreenCaller
    <3>2. QED BY <2>1, <3>1 DEF Pause, DeleteAll
  <2>2. CASE Resume
    <3>1. PICK config \in Configs : Press("resuming", SettingsCall("start", config))
      BY <2>2 DEF Resume
    <3>2. LET call == SettingsCall("start", config) IN call \in Calls /\ call.at = "queued"
      BY DEF SettingsCall, Call, Calls, OtherCalls, ScreenCaller
    <3>3. QED BY <3>1, <3>2
  <2>3. QED BY <2>1, <2>2
<1>2. ModuleTypeOK' /\ DeviceTypeOK' /\ emitted' \in Statuses
  BY <1>1, ModuleUntouched DEF Press
<1>3. QueueTypeOK'
  BY <1>1, AskedTypeOK DEF Press, TypeOK
<1>4. budget' \in [Events -> Nat]
  BY <1>1, SpendTyped DEF Press, Events, TypeOK, ScreenTypeOK
<1>5. ScreenTypeOK'
  BY <1>1, <1>4 DEF Press, TypeOK, ScreenTypeOK
<1>6. QED BY <1>2, <1>3, <1>5 DEF TypeOK

LEMMA AnswersTyped ==
  ASSUME TypeOK, Continued, answers # <<>>
  PROVE  /\ answers' \in Seq(Answers) /\ answers[1] \in Answers
BY FirstTaken, ElementOfSeq DEF TypeOK, QueueTypeOK, Continued

LEMMA AfterRunTyped ==
  ASSUME TypeOK, SettingsDone
  PROVE  /\ calls' \in Seq(Calls) /\ OneUnderWay(calls') /\ work' = "none"
         /\ \A i \in DOMAIN calls : i \in DOMAIN calls' /\ calls'[i] = calls[i]
         /\ \A i \in DOMAIN calls' : i \in DOMAIN calls \/ calls'[i].op = "getStatus"
<1>1. /\ StatusCall("settings", "run") \in Calls /\ StatusCall("settings", "run").at = "queued"
      /\ StatusCall("settings", "run").op = "getStatus"
  BY StatusCallTyped DEF TypeOK, Screens, Mounted, StatusCall, Call
<1>2. /\ calls' \in Seq(Calls) /\ OneUnderWay(calls')
      /\ Len(calls') = Len(calls) + 1 /\ calls'[Len(calls) + 1] = StatusCall("settings", "run")
      /\ \A i \in DOMAIN calls : calls'[i] = calls[i]
  BY <1>1, AskTyped DEF SettingsDone, TypeOK
<1>3. calls \in Seq(Calls) /\ Len(calls) \in Nat
  BY DEF TypeOK, QueueTypeOK
<1>4. \A i \in DOMAIN calls' : i \in DOMAIN calls \/ i = Len(calls) + 1
  BY <1>2, <1>3
<1>5. \A i \in DOMAIN calls : i \in DOMAIN calls'
  BY <1>2, <1>3
<1>6. QED BY <1>1, <1>2, <1>4, <1>5 DEF SettingsDone

LEMMA ContinueTypeOK ==
  ASSUME TypeOK, Continue
  PROVE  TypeOK'
<1>1. CASE ShowStatus
  <2>1. PICK s \in Screens :
          /\ Answered("getStatus", s)
          /\ LET current == s # "flow" \/ answers[1].call.by.instance = flow.instance
             IN /\ shown' = IF current THEN [shown EXCEPT ![s] = answers[1].result] ELSE shown
                /\ flow' = IF s = "flow" /\ current /\ answers[1].call.arg = "request"
                           THEN [flow EXCEPT !.busy = FALSE] ELSE flow
    BY <1>1 DEF ShowStatus
  <2>2. answers # <<>> /\ answers' \in Seq(Answers) /\ answers[1] \in Answers
    BY <1>1, <2>1, AnswersTyped DEF ShowStatus, Answered
  <2>3. answers[1].call \in StatusCalls /\ answers[1].result \in Statuses
    BY <2>1, <2>2 DEF Answers, Answered, StatusCalls, OtherCalls
  <2>4. s = "flow" => answers[1].call.by.instance # 0
    BY <2>1, <2>3 DEF Answered, StatusCalls, FlowCaller, ScreenCaller
  <2>5. ModuleTypeOK' /\ DeviceTypeOK' /\ emitted' \in Statuses
    BY <1>1, ModuleUntouched DEF ShowStatus
  <2>6. flow' \in Flows /\ flow'.instance = flow.instance
    BY <2>1 DEF TypeOK, ScreenTypeOK, Flows
  <2>7. shown' \in [Screens -> Statuses \cup {Nothing}]
        /\ (flow.instance = 0 => shown'["flow"] = shown["flow"])
    BY <2>1, <2>3, <2>4 DEF TypeOK, ScreenTypeOK, Screens
  <2>8. QED BY <1>1, <2>2, <2>5, <2>6, <2>7 DEF ShowStatus, TypeOK, QueueTypeOK, ScreenTypeOK
<1>2. CASE RequestAnswered
  <2>1. answers # <<>> /\ answers' \in Seq(Answers) /\ answers[1] \in Answers
    BY <1>2, AnswersTyped DEF RequestAnswered, Answered
  <2>2. answers[1].call.by \in FlowCaller
    BY <1>2, <2>1 DEF RequestAnswered, Answered, Answers, StatusCalls, OtherCalls
  <2>3. LET call == Call("getStatus", answers[1].call.by, "request")
        IN call \in Calls /\ call.at = "queued"
    BY <2>2 DEF Call, Calls, StatusCalls
  <2>4. calls' \in Seq(Calls) /\ OneUnderWay(calls')
    BY <1>2, <2>3, AskTyped DEF RequestAnswered, TypeOK
  <2>5. ModuleTypeOK' /\ DeviceTypeOK' /\ emitted' \in Statuses
    BY <1>2, ModuleUntouched DEF RequestAnswered
  <2>6. QED
    BY <1>2, <2>1, <2>4, <2>5 DEF RequestAnswered, screenVars, TypeOK, QueueTypeOK, ScreenTypeOK, OneUnderWay
<1>3. CASE SettingsAnswered
  <2>1. answers' \in Seq(Answers)
    BY <1>3, AnswersTyped DEF SettingsAnswered, Answered
  <2>2. ModuleTypeOK' /\ DeviceTypeOK' /\ emitted' \in Statuses
    BY <1>3, ModuleUntouched DEF SettingsAnswered
  <2>3. QueueTypeOK'
    BY <1>3, <2>1, AfterRunTyped DEF SettingsAnswered, TypeOK, QueueTypeOK, OneUnderWay
  <2>4. storeQueue' \in Seq(StoreCalls)
    BY <1>3, StoreAsked DEF SettingsAnswered, TypeOK, ScreenTypeOK
  <2>5. work' \in {"none", "deleting"}
    BY <1>3 DEF SettingsAnswered, SettingsDone
  <2>6. QED BY <1>3, <2>2, <2>3, <2>4, <2>5 DEF SettingsAnswered, TypeOK, ScreenTypeOK
<1>4. QED BY <1>1, <1>2, <1>3 DEF Continue

LEMMA StoreTurnTyped ==
  ASSUME ScreenTypeOK, NEW op, StoreTurn(op)
  PROVE  /\ storeQueue # <<>> /\ storeQueue[1].op = op /\ storeQueue[1] \in StoreCalls
         /\ storeQueue' \in Seq(StoreCalls) /\ Len(storeQueue') = Len(storeQueue) - 1
         /\ \A i \in DOMAIN storeQueue' :
              i + 1 \in DOMAIN storeQueue /\ storeQueue'[i] = storeQueue[i + 1]
<1>1. storeQueue # <<>> /\ storeQueue \in Seq(StoreCalls) /\ storeQueue' = Tail(storeQueue)
  BY DEF StoreTurn, ScreenTypeOK
<1>2. /\ storeQueue' \in Seq(StoreCalls) /\ Len(storeQueue') = Len(storeQueue) - 1
      /\ \A i \in 1..(Len(storeQueue) - 1) : storeQueue'[i] = storeQueue[i + 1]
  BY <1>1, FirstTaken
<1>3. Len(storeQueue) \in Nat \ {0} /\ storeQueue[1] \in StoreCalls
  BY <1>1, EmptySeq, ElementOfSeq
<1>4. QED BY <1>1, <1>2, <1>3 DEF StoreTurn

LEMMA StoreServesTypeOK ==
  ASSUME TypeOK, StoreServes
  PROVE  TypeOK'
<1>1. storeQueue' \in Seq(StoreCalls)
  BY StoreTurnTyped DEF StoreServes, ReadPromptUsed, MarkPromptUsed, DeleteStore, TypeOK
<1>2. ModuleTypeOK' /\ DeviceTypeOK' /\ emitted' \in Statuses
  <2>1. UNCHANGED <<moduleVars, deviceVars, emitted>>
    BY DEF StoreServes, ReadPromptUsed, MarkPromptUsed, DeleteStore, captureVars
  <2>2. QED BY <2>1, ModuleUntouched
<1>3. CASE ReadPromptUsed
  <2>1. flow' \in Flows /\ flow'.instance = flow.instance
    BY <1>3 DEF ReadPromptUsed, TypeOK, ScreenTypeOK, DeviceTypeOK, Flows
  <2>2. UNCHANGED <<calls, answers, shown, work, recorded, forgotten, budget>>
    BY <1>3 DEF ReadPromptUsed, captureVars, queueVars
  <2>3. QED BY <1>1, <1>2, <2>1, <2>2 DEF TypeOK, QueueTypeOK, ScreenTypeOK
<1>4. CASE MarkPromptUsed
  <2>1. recorded' \in BOOLEAN /\ forgotten' \in BOOLEAN
    BY <1>4 DEF MarkPromptUsed
  <2>2. UNCHANGED <<calls, answers, shown, flow, work, budget>>
    BY <1>4 DEF MarkPromptUsed, captureVars, queueVars
  <2>3. QED BY <1>1, <1>2, <2>1, <2>2 DEF TypeOK, QueueTypeOK, ScreenTypeOK
<1>5. CASE DeleteStore
  <2>1. recorded' \in BOOLEAN /\ forgotten' \in BOOLEAN
    BY <1>5 DEF DeleteStore
  <2>2. calls' \in Seq(Calls) /\ OneUnderWay(calls') /\ work' = "none"
    BY <1>5, AfterRunTyped DEF DeleteStore
  <2>3. UNCHANGED <<answers, shown, flow, budget>>
    BY <1>5 DEF DeleteStore
  <2>4. QED BY <1>1, <1>2, <2>1, <2>2, <2>3 DEF TypeOK, QueueTypeOK, ScreenTypeOK, OneUnderWay
<1>6. QED BY <1>3, <1>4, <1>5 DEF StoreServes

LEMMA DeathTypeOK ==
  ASSUME TypeOK, AppDies
  PROVE  TypeOK'
<1>1. DeviceTypeOK'
  BY DEF AppDies, TypeOK, DeviceTypeOK, deviceVars
<1>2. ModuleTypeOK'
  <2>1. UNCHANGED <<selection, refusing, storeUnusable, samples>>
    BY DEF AppDies
  <2>2. UNCHANGED <<alive, mechanisms>> \/ (alive' = FALSE /\ mechanisms' = [m \in Modes |-> 0])
    BY DEF AppDies
  <2>3. mechanisms' \in [Modes -> Int] /\ alive' \in BOOLEAN /\ (alive' => selection' # Stopped)
    <3>1. mechanisms \in [Modes -> Int] /\ alive \in BOOLEAN /\ (alive => selection # Stopped)
      BY DEF TypeOK, ModuleTypeOK
    <3>2. CASE UNCHANGED <<alive, mechanisms>>
      <4>1. alive' = alive /\ mechanisms' = mechanisms /\ selection' = selection
        BY <2>1, <3>2
      <4>2. QED BY <3>1, <4>1, Zenon
    <3>3. CASE alive' = FALSE /\ mechanisms' = [m \in Modes |-> 0]
      <4>1. mechanisms' \in [Modes -> Int]
        BY <3>3
      <4>2. alive' \in BOOLEAN /\ ~alive'
        BY <3>3
      <4>3. QED BY <4>1, <4>2
    <3>4. QED BY <2>2, <3>2, <3>3
  <2>4. QED BY <2>1, <2>3 DEF TypeOK, ModuleTypeOK
<1>3. emitted' \in Statuses
  <2>1. (ModuleTypeOK /\ DeviceTypeOK => ComputeStatus \in Statuses)'
    BY StatusTyped, PTL
  <2>2. QED BY <1>1, <1>2, <2>1 DEF AppDies, Notify
<1>4. QueueTypeOK'
  BY MountTyped DEF AppDies, QueueTypeOK
<1>5. ScreenTypeOK'
  <2>1. shown' \in [Screens -> Statuses \cup {Nothing}] /\ shown'["flow"] = Nothing
    BY DEF AppDies, Screens
  <2>2. flow' \in Flows /\ work' = "none" /\ storeQueue' \in Seq(StoreCalls)
    BY ClosedTyped DEF AppDies
  <2>3. recorded' \in BOOLEAN /\ forgotten' \in BOOLEAN
    BY DEF AppDies
  <2>4. budget' \in [Events -> Nat]
    BY SpendTyped DEF AppDies, TypeOK, ScreenTypeOK, Events
  <2>5. QED BY <2>1, <2>2, <2>3, <2>4 DEF ScreenTypeOK
<1>6. QED BY <1>1, <1>2, <1>3, <1>4, <1>5 DEF TypeOK

(* Every reachable state has the types of CaptureScreens!TypeOK.             *)
LEMMA NextTypeOK ==
  ASSUME CaptureAssumption, TypeOK, [Next]_vars
  PROVE  TypeOK'
<1>1. CASE Poll \/ AppReturns
  <2>1. budget' \in [Events -> Nat]
    BY <1>1, SpendTyped DEF Poll, AppReturns, TypeOK, ScreenTypeOK, Events
  <2>2. QED BY <1>1, <2>1, RefreshTypeOK DEF Poll, AppReturns, Screens
<1>2. CASE UNCHANGED vars
  BY <1>2 DEF vars, captureVars, moduleVars, deviceVars, queueVars, screenVars, TypeOK, ModuleTypeOK,
    DeviceTypeOK, QueueTypeOK, ScreenTypeOK
<1>3. QED
  BY <1>1, <1>2, ServesTypeOK, DeviceTypedAgain, FlowTypeOK, SettingsTypeOK, ContinueTypeOK,
    StoreServesTypeOK, DeathTypeOK DEF Next

THEOREM TypeCorrect == Spec => []TypeOK
<1>1. Init => TypeOK
  BY InitTypeOK, CaptureAssumption, ScenarioAssumption
<1>2. TypeOK /\ [Next]_vars => TypeOK'
  BY NextTypeOK, CaptureAssumption
<1>3. QED BY <1>1, <1>2, PTL DEF Spec

----------------------------------------------------------------------------
(* The invariants.                                                           *)

\* A fix whose store check has passed is under way only while capture is asked for.
AcceptedInv ==
  calls # <<>> /\ calls[1].op = "deliverFix" /\ calls[1].at = "checking" => selection # Stopped

\* The calls that may still spend the one prompt.
AskedAlways ==
  \E i \in DOMAIN calls : calls[i].op = "requestPermission" /\ calls[i].arg = "background"
MayBeSpent == upgradeSpent \/ AskedAlways

ReadsFlow(i) == storeQueue[i].op = "read" /\ storeQueue[i].instance = flow.instance
Marks(i) == storeQueue[i].op = "mark"

\* A prompt that was used is recorded, or its record was lost, or is being written.
RecordInv == platform = "ios" /\ MayBeSpent => recorded \/ forgotten \/ Pending("mark")

\* Instances of the flow are told apart.
InstanceInv ==
  /\ flow.instance # 0 => flow.instance > budget.opens
  /\ \A i \in DOMAIN storeQueue : storeQueue[i].op = "read" => storeQueue[i].instance > budget.opens

\* The open flow waits for one read, with no mark behind it; one that has read "not used"
\* has no mark to come, and was right unless the record was lost.
ReadInv ==
  platform = "ios" /\ flow.instance # 0 =>
    /\ flow.promptUsed = "unread" =>
         /\ \A i, j \in DOMAIN storeQueue : ReadsFlow(i) /\ ReadsFlow(j) => i = j
         /\ \A i, j \in DOMAIN storeQueue : ReadsFlow(i) /\ Marks(j) => j < i
    /\ flow.promptUsed # "unread" => \A i \in DOMAIN storeQueue : ~ReadsFlow(i)
    /\ flow.promptUsed = "no" =>
         /\ \A i \in DOMAIN storeQueue : ~Marks(i)
         /\ MayBeSpent => forgotten \/ flow.readFailed

PromptInv == RecordInv /\ InstanceInv /\ ReadInv

----------------------------------------------------------------------------
(* One mechanism.                                                            *)

LEMMA OneMechanismSame ==
  ASSUME OneMechanism, UNCHANGED <<selection, alive, mechanisms>>
  PROVE  OneMechanism'
BY DEF OneMechanism, Running

LEMMA SwitchedIsOne ==
  ASSUME TypeOK, OneMechanism, NEW to, NEW started \in BOOLEAN,
         mechanisms' = Switched(selection, to, started), selection' = to, alive' = started,
         started => to # Stopped
  PROVE  OneMechanism'
<1>1. mechanisms \in [Modes -> Int] /\ alive \in BOOLEAN /\ (alive => selection # Stopped)
  BY DEF TypeOK, ModuleTypeOK
<1>2. \A m \in Modes : mechanisms[m] = IF alive /\ m = selection.mode THEN 1 ELSE 0
  BY <1>1 DEF OneMechanism, Running
<1>3. \A m \in Modes : mechanisms'[m] = IF started /\ m = to.mode THEN 1 ELSE 0
  BY <1>1, <1>2 DEF Switched
<1>4. QED BY <1>3 DEF OneMechanism, Running

LEMMA OneMechanismKept ==
  ASSUME CaptureAssumption, TypeOK, OneMechanism, [Next]_vars
  PROVE  OneMechanism'
<1>1. CASE ModuleServes
  <2>1. PICK i \in DOMAIN calls :
          \/ StartRejected(i) \/ StartChecksStore(i) \/ StartSelects(i) \/ Stop(i) \/ GetStatus(i)
          \/ RequestPermission(i) \/ JudgeFix(i) \/ WriteFix(i) \/ AnnounceFix(i)
    BY <1>1 DEF ModuleServes, Serve
  <2>2. CASE StartSelects(i)
    <3>1. calls[i] \in Calls /\ calls[i].op = "start"
      BY <2>2, ElementOfSeq DEF StartSelects, Serving, TypeOK, QueueTypeOK
    <3>2. calls[i].arg \in Configs
      BY <3>1 DEF Calls, StatusCalls, OtherCalls
    <3>3. SelectionOf(calls[i].arg) # Stopped
      BY <3>2, SelectionTyped
    <3>4. PICK next : next = SelectionOf(calls[i].arg)
      OBVIOUS
    <3>5. \/ UNCHANGED <<selection, alive, mechanisms>>
          \/ /\ selection' = next /\ alive' = ~refusing
             /\ mechanisms' = Switched(selection, next, ~refusing)
      BY <2>2, <3>4 DEF StartSelects
    <3>6. QED BY <3>3, <3>4, <3>5, OneMechanismSame, SwitchedIsOne
  <2>3. CASE Stop(i)
    BY <2>3, SwitchedIsOne DEF Stop
  <2>4. CASE ~StartSelects(i) /\ ~Stop(i)
    BY <2>1, <2>4, OneMechanismSame DEF StartRejected, StartChecksStore, GetStatus, RequestPermission,
      JudgeFix, WriteFix, AnnounceFix, moduleVars
  <2>5. QED BY <2>2, <2>3, <2>4
<1>2. CASE DeviceChanges
  <2>1. CASE KillMechanism
    <3>1. /\ Running /\ alive' = FALSE /\ selection' = selection
          /\ mechanisms' = [mechanisms EXCEPT ![selection.mode] = @ - 1]
      BY <2>1 DEF KillMechanism
    <3>2. selection.mode \in Modes /\ mechanisms \in [Modes -> Int]
      BY <3>1 DEF Running, TypeOK, ModuleTypeOK, Selections
    <3>3. \A m \in Modes : mechanisms'[m] = 0
      BY <3>1, <3>2 DEF OneMechanism
    <3>4. QED BY <3>1, <3>3 DEF OneMechanism, Running
  <2>2. CASE ~KillMechanism
    BY <1>2, <2>2, OneMechanismSame DEF DeviceChanges, SetPermission, SetCondition, RefuseNextStart,
      SetStoreFailure, moduleVars
  <2>3. QED BY <2>1, <2>2
<1>3. CASE Restarted
  <2>1. /\ selection # Stopped /\ ~alive /\ alive' = TRUE /\ selection' = selection
        /\ mechanisms' = [mechanisms EXCEPT ![selection.mode] = @ + 1]
    BY <1>3 DEF Restarted, RestartMechanism
  <2>2. selection.mode \in Modes /\ mechanisms \in [Modes -> Int]
    BY <2>1 DEF TypeOK, ModuleTypeOK, Selections
  <2>3. \A m \in Modes : mechanisms[m] = 0
    BY <2>1 DEF OneMechanism, Running
  <2>4. \A m \in Modes : mechanisms'[m] = IF selection.mode = m THEN 1 ELSE 0
    BY <2>1, <2>2, <2>3
  <2>5. Running'
    BY <2>1 DEF Running
  <2>6. QED BY <2>1, <2>4, <2>5 DEF OneMechanism
<1>4. CASE AppDies
  <2>1. CASE UNCHANGED <<alive, mechanisms>>
    BY <1>4, <2>1, OneMechanismSame DEF AppDies
  <2>2. CASE alive' = FALSE /\ mechanisms' = [m \in Modes |-> 0]
    BY <2>2 DEF OneMechanism, Running
  <2>3. QED BY <1>4, <2>1, <2>2 DEF AppDies
<1>5. CASE UNCHANGED moduleVars
  BY <1>5, OneMechanismSame DEF moduleVars
<1>6. CASE ~(ModuleServes \/ DeviceChanges \/ Restarted \/ AppDies)
  <2>1. UNCHANGED moduleVars
    BY <1>6 DEF Next, vars, captureVars, FixArrives, DeliverFix, Poll, AppReturns, Refreshes, OpenFlow,
      CloseFlow, PressAllow, Decline, Reconsider, Leaves, Pause, Resume, DeleteAll, Press, Continue,
      ShowStatus, RequestAnswered, SettingsAnswered, StoreServes, ReadPromptUsed, MarkPromptUsed,
      DeleteStore
  <2>2. QED BY <1>5, <2>1
<1>7. QED BY <1>1, <1>2, <1>3, <1>4, <1>6

(* start(), stop() and the restarts of the system leave one mechanism at     *)
(* most, and it is the one the selection names: in every state, whatever the *)
(* calls, refusals and kills before it.                                      *)
THEOREM OneMechanismAlways == Spec => []OneMechanism
<1>1. Init => OneMechanism
  <2> SUFFICES ASSUME Init
               PROVE  OneMechanism
    OBVIOUS
  <2>1. PICK s \in Scenarios : CaptureInit(s.platform, s.permission, s.started)
    BY DEF Init
  <2>2. mechanisms = [m \in Modes |-> IF m = selection.mode THEN 1 ELSE 0]
        /\ alive = s.started /\ s.started \in BOOLEAN /\ (~s.started => selection = Stopped)
    BY <2>1, ScenarioAssumption DEF CaptureInit
  <2>3. TypeOK
    BY InitTypeOK, CaptureAssumption, ScenarioAssumption
  <2>4. \A m \in Modes : m = selection.mode => selection # Stopped
    BY DEF Modes, Stopped
  <2>5. QED
    BY <2>2, <2>3, <2>4 DEF OneMechanism, Running, TypeOK, ModuleTypeOK
<1>2. TypeOK /\ OneMechanism /\ [Next]_vars => OneMechanism'
  BY OneMechanismKept, CaptureAssumption
<1>3. QED BY <1>1, <1>2, TypeCorrect, PTL DEF Spec

----------------------------------------------------------------------------
(* Nothing is stored after a stop.                                           *)

\* The first call is the same, or another that is not under way.
FirstKept == /\ calls' # <<>> => \/ calls'[1].at = "queued"
                                 \/ calls # <<>> /\ calls'[1] = calls[1]
             /\ selection # Stopped => selection' # Stopped

LEMMA FirstKeptAccepts ==
  ASSUME AcceptedInv, FirstKept
  PROVE  AcceptedInv'
BY DEF AcceptedInv, FirstKept

LEMMA AskKeepsFirst ==
  ASSUME QueueTypeOK, NEW op, NEW by, NEW arg, Ask(Call(op, by, arg))
  PROVE  calls' # <<>> => calls'[1].at = "queued" \/ (calls # <<>> /\ calls'[1] = calls[1])
<1> DEFINE call == Call(op, by, arg)
           All == Calls \cup {call}
<1>1. calls \in Seq(All) /\ call \in All /\ call.at = "queued"
  BY SeqMonotonic DEF QueueTypeOK, Call
<1>2. calls' = Append(calls, call)
  BY DEF Ask
<1> HIDE DEF call, All
<1>3. /\ Len(calls') = Len(calls) + 1 /\ calls'[Len(calls) + 1] = call
      /\ \A i \in DOMAIN calls : calls'[i] = calls[i]
  BY <1>1, <1>2, Appended
<1>4. CASE calls = <<>>
  BY <1>1, <1>3, <1>4
<1>5. CASE calls # <<>>
  <2>1. 1 \in DOMAIN calls
    BY <1>1, <1>5, EmptySeq
  <2>2. QED BY <1>3, <1>5, <2>1
<1>6. QED BY <1>4, <1>5

LEMMA ServeKeepsAccepted ==
  ASSUME CaptureAssumption, TypeOK, AcceptedInv, Serve
  PROVE  AcceptedInv' /\ (samples' # samples => selection # Stopped)
<1>1. PICK i \in DOMAIN calls :
        \/ StartRejected(i) \/ StartChecksStore(i) \/ StartSelects(i) \/ Stop(i) \/ GetStatus(i)
        \/ RequestPermission(i) \/ JudgeFix(i) \/ WriteFix(i) \/ AnnounceFix(i)
  BY DEF Serve
<1>2. QueueTypeOK /\ calls \in Seq(Calls) /\ calls[i] \in Calls
  BY ElementOfSeq DEF TypeOK, QueueTypeOK
<1>3. ASSUME HasTurn(i), calls' = RemoveAt(calls, i)
      PROVE  AcceptedInv'
  <2>1. /\ Len(calls') = Len(calls) - 1 /\ calls' \in Seq(Calls)
        /\ \A j \in DOMAIN calls' : calls'[j].at = "queued"
    BY <1>2, <1>3, FirstSettled
  <2>2. calls' # <<>> => 1 \in DOMAIN calls'
    BY <2>1, EmptySeq
  <2>3. calls' # <<>> => calls'[1].at = "queued"
    BY <2>1, <2>2
  <2>4. QED BY <2>3 DEF AcceptedInv
<1>4. CASE StartRejected(i) \/ Stop(i) \/ GetStatus(i) \/ RequestPermission(i) \/ AnnounceFix(i)
  <2>1. HasTurn(i) /\ calls' = RemoveAt(calls, i)
    BY <1>4 DEF StartRejected, Stop, GetStatus, RequestPermission, AnnounceFix, Serving, Resolve, Settle
  <2>2. samples' = samples
    BY <1>4 DEF StartRejected, Stop, GetStatus, RequestPermission, AnnounceFix, moduleVars
  <2>3. QED BY <1>3, <2>1, <2>2
<1>5. CASE StartSelects(i)
  <2>1. HasTurn(i) /\ calls' = RemoveAt(calls, i) /\ samples' = samples
    BY <1>5 DEF StartSelects, Serving, Resolve
  <2>2. QED BY <1>3, <2>1
<1>6. CASE StartChecksStore(i)
  <2>1. HasTurn(i) /\ calls[i].op = "start" /\ Proceed(i, "checking") /\ samples' = samples
    BY <1>6 DEF StartChecksStore, Serving, moduleVars
  <2>2. [calls[i] EXCEPT !.at = "checking"] \in Calls
    BY <1>2, <2>1 DEF Calls, StatusCalls, OtherCalls
  <2>3. i = 1 /\ calls'[1] = [calls[1] EXCEPT !.at = "checking"]
    BY <1>2, <2>1, <2>2, ProceedTyped
  <2>4. calls'[1].op = "start"
    BY <1>2, <2>1, <2>3 DEF Calls, StatusCalls, OtherCalls
  <2>5. QED BY <2>1, <2>4 DEF AcceptedInv
<1>7. CASE JudgeFix(i)
  <2>1. HasTurn(i) /\ samples' = samples /\ selection' = selection
    BY <1>7 DEF JudgeFix, Serving, moduleVars
  <2>2. Settle(i) \/ selection # Stopped
    BY <1>7 DEF JudgeFix, Running
  <2>3. QED BY <1>3, <2>1, <2>2 DEF Settle, AcceptedInv
<1>8. CASE WriteFix(i)
  <2>1. HasTurn(i) /\ calls[i].op = "deliverFix" /\ calls[i].at = "checking" /\ selection' = selection
    BY <1>8 DEF WriteFix, Serving
  <2>2. i = 1 /\ calls # <<>>
    BY <1>2, <2>1 DEF HasTurn
  <2>3. selection # Stopped
    BY <2>1, <2>2 DEF AcceptedInv
  <2>4. QED BY <2>1, <2>3 DEF AcceptedInv
<1>9. QED BY <1>1, <1>4, <1>5, <1>6, <1>7, <1>8

LEMMA AcceptedKept ==
  ASSUME CaptureAssumption, TypeOK, AcceptedInv, [Next]_vars
  PROVE  AcceptedInv' /\ (samples' # samples => selection # Stopped)
<1>1. CASE ModuleServes
  BY <1>1, ServeKeepsAccepted DEF ModuleServes
<1>2. CASE AppDies
  <2>1. calls'[1].at = "queued" /\ samples' = samples
    BY <1>2, MountTyped DEF AppDies
  <2>2. QED BY <2>1 DEF AcceptedInv
<1>3. CASE ~ModuleServes /\ ~AppDies
  <2>1. UNCHANGED <<selection, samples>>
    BY <1>3 DEF Next, vars, captureVars, moduleVars, DeviceChanges, SetPermission, SetCondition,
      RefuseNextStart, SetStoreFailure, KillMechanism, Restarted, RestartMechanism, FixArrives, DeliverFix,
      Poll, AppReturns, Refreshes, OpenFlow, CloseFlow, PressAllow, Decline, Reconsider, Leaves, Pause,
      Resume, DeleteAll, Press, Continue, ShowStatus, RequestAnswered, SettingsAnswered, StoreServes,
      ReadPromptUsed, MarkPromptUsed, DeleteStore
  <2>2. calls' = calls \/ \E op, by, arg : Ask(Call(op, by, arg))
    BY <1>3 DEF Next, vars, captureVars, queueVars, DeviceChanges, SetPermission, SetCondition,
      RefuseNextStart, SetStoreFailure, KillMechanism, Restarted, RestartMechanism, FixArrives, DeliverFix,
      Poll, AppReturns, Refreshes, OpenFlow, CloseFlow, PressAllow, Decline, Reconsider, Leaves, Pause,
      Resume, DeleteAll, Press, Continue, ShowStatus, RequestAnswered, SettingsAnswered, StoreServes,
      ReadPromptUsed, MarkPromptUsed, DeleteStore, SettingsDone, StatusCall, SettingsCall
  <2>3. calls \in Seq(Calls) /\ QueueTypeOK
    BY DEF TypeOK, QueueTypeOK
  <2>4. calls' # <<>> => calls'[1].at = "queued" \/ (calls # <<>> /\ calls'[1] = calls[1])
    BY <2>2, <2>3, AskKeepsFirst
  <2>5. QED BY <2>1, <2>4, FirstKeptAccepts DEF FirstKept
<1>4. QED BY <1>1, <1>2, <1>3

(* No step stores a fix while capture is stopped, although the fix may have  *)
(* been accepted before the stop was pressed: the check of the store and the *)
(* insert are one turn of the queue, and the stop waits for it.              *)
THEOREM NothingSavedAfterStop == Spec => NothingSavedWhileStopped
<1>1. Init => AcceptedInv
  BY MountTyped DEF Init, AcceptedInv
<1>2. TypeOK /\ AcceptedInv /\ [Next]_vars => AcceptedInv' /\ [samples' # samples => selection # Stopped]_vars
  BY AcceptedKept, CaptureAssumption
<1>3. Spec => []AcceptedInv
  BY <1>1, <1>2, TypeCorrect, PTL DEF Spec
<1>4. QED
  BY <1>2, <1>3, TypeCorrect, PTL DEF Spec, NothingSavedWhileStopped

----------------------------------------------------------------------------
(* The button of the one prompt.                                             *)

SpendsPrompt(call) == call.op = "requestPermission" /\ call.arg = "background"

LEMMA ServeSpends ==
  ASSUME TypeOK, Serve
  PROVE  MayBeSpent' => MayBeSpent
<1> SUFFICES ASSUME MayBeSpent'
             PROVE  MayBeSpent
  OBVIOUS
<1>1. PICK i \in DOMAIN calls :
        \/ StartRejected(i) \/ StartChecksStore(i) \/ StartSelects(i) \/ Stop(i) \/ GetStatus(i)
        \/ RequestPermission(i) \/ JudgeFix(i) \/ WriteFix(i) \/ AnnounceFix(i)
  BY DEF Serve
<1>2. QueueTypeOK /\ calls \in Seq(Calls) /\ calls[i] \in Calls
  BY ElementOfSeq DEF TypeOK, QueueTypeOK
<1>3. ASSUME HasTurn(i), calls' = RemoveAt(calls, i)
      PROVE  AskedAlways' => AskedAlways
  BY <1>2, <1>3, FirstSettled DEF AskedAlways
<1>4. ASSUME HasTurn(i), NEW step, [calls[i] EXCEPT !.at = step] \in Calls, Proceed(i, step),
             calls[i].op # "requestPermission"
      PROVE  AskedAlways' => AskedAlways
  <2>1. /\ i = 1 /\ calls' \in Seq(Calls) /\ Len(calls') = Len(calls)
        /\ calls'[1] = [calls[1] EXCEPT !.at = step]
        /\ \A j \in DOMAIN calls : j > 1 => calls'[j] = calls[j]
    BY <1>2, <1>4, ProceedTyped
  <2>2. calls'[1].op # "requestPermission"
    BY <1>2, <1>4, <2>1 DEF Calls, StatusCalls, OtherCalls
  <2>3. DOMAIN calls' = DOMAIN calls /\ \A j \in DOMAIN calls' : j = 1 \/ j > 1
    BY <1>2, <2>1
  <2>4. QED BY <2>1, <2>2, <2>3 DEF AskedAlways
<1>5. CASE StartRejected(i) \/ StartSelects(i) \/ Stop(i) \/ GetStatus(i) \/ AnnounceFix(i)
  <2>1. HasTurn(i) /\ calls' = RemoveAt(calls, i) /\ upgradeSpent' = upgradeSpent
    BY <1>5 DEF StartRejected, StartSelects, Stop, GetStatus, AnnounceFix, Serving, Resolve, Settle, deviceVars
  <2>2. QED BY <1>3, <2>1 DEF MayBeSpent
<1>6. CASE RequestPermission(i)
  <2>1. /\ HasTurn(i) /\ calls' = RemoveAt(calls, i) /\ calls[i].op = "requestPermission"
        /\ upgradeSpent' = upgradeSpent
           \/ upgradeSpent' = (upgradeSpent \/ (calls[i].arg = "background" /\ platform = "ios"))
    BY <1>6 DEF RequestPermission, Serving, Resolve
  <2>2. calls[i].arg = "background" => AskedAlways
    BY <2>1 DEF AskedAlways
  <2>3. upgradeSpent' => upgradeSpent \/ AskedAlways
    BY <2>1, <2>2
  <2>4. QED BY <1>3, <2>1, <2>3 DEF MayBeSpent
<1>7. CASE StartChecksStore(i)
  <2>1. /\ HasTurn(i) /\ calls[i].op = "start" /\ Proceed(i, "checking")
        /\ upgradeSpent' = upgradeSpent
    BY <1>7 DEF StartChecksStore, Serving, deviceVars
  <2>2. [calls[i] EXCEPT !.at = "checking"] \in Calls
    BY <1>2, <2>1 DEF Calls, StatusCalls, OtherCalls
  <2>3. QED BY <1>4, <2>1, <2>2 DEF MayBeSpent
<1>8. CASE JudgeFix(i) \/ WriteFix(i)
  <2>1. /\ HasTurn(i) /\ calls[i].op = "deliverFix" /\ upgradeSpent' = upgradeSpent
        /\ \/ Settle(i) \/ Proceed(i, "checking") \/ Proceed(i, "written")
    BY <1>8 DEF JudgeFix, WriteFix, Serving, deviceVars
  <2>2. \A step \in {"checking", "written"} : [calls[i] EXCEPT !.at = step] \in Calls
    BY <1>2, <2>1 DEF Calls, StatusCalls, OtherCalls
  <2>3. QED BY <1>3, <1>4, <2>1, <2>2 DEF MayBeSpent, Settle
<1>9. QED BY <1>1, <1>5, <1>6, <1>7, <1>8

LEMMA AskSpends ==
  ASSUME TypeOK, NEW call, Ask(call), ~SpendsPrompt(call), upgradeSpent' = upgradeSpent
  PROVE  MayBeSpent' => MayBeSpent
<1> DEFINE All == Calls \cup {call}
<1>1. calls \in Seq(All) /\ call \in All
  BY SeqMonotonic DEF TypeOK, QueueTypeOK
<1> HIDE DEF All
<1>2. /\ calls' \in Seq(All) /\ Len(calls') = Len(calls) + 1 /\ calls'[Len(calls) + 1] = call
      /\ \A i \in DOMAIN calls : calls'[i] = calls[i]
  BY <1>1, Appended DEF Ask
<1>3. \A i \in DOMAIN calls' : i \in DOMAIN calls \/ i = Len(calls) + 1
  BY <1>1, <1>2
<1>4. QED BY <1>2, <1>3 DEF MayBeSpent, AskedAlways, SpendsPrompt

\* A step that leaves the flag, its record and the queue of the store alone.
LEMMA PromptSame ==
  ASSUME TypeOK, PromptInv, UNCHANGED <<platform, storeQueue, recorded, forgotten>>,
         flow'.instance = flow.instance, flow'.promptUsed = flow.promptUsed,
         flow'.readFailed = flow.readFailed, budget'.opens \in Nat, budget'.opens <= budget.opens,
         MayBeSpent' => MayBeSpent
  PROVE  PromptInv'
<1>1. budget.opens \in Nat /\ flow.instance \in Nat
  BY DEF TypeOK, ScreenTypeOK, Events, Flows
<1>2. storeQueue \in Seq(StoreCalls)
  BY DEF TypeOK, ScreenTypeOK
<1>3. \A i \in DOMAIN storeQueue : storeQueue[i].instance \in Nat
  <2>1. \A i \in DOMAIN storeQueue : storeQueue[i] \in StoreCalls
    BY <1>2, ElementOfSeq
  <2>2. \A c \in StoreCalls : c.instance \in Nat
    BY DEF StoreCalls
  <2>3. QED BY <2>1, <2>2
<1>4. RecordInv'
  BY DEF PromptInv, RecordInv, Pending
<1>5. InstanceInv'
  BY <1>1, <1>3 DEF PromptInv, InstanceInv
<1>6. (\A i : ReadsFlow(i)' <=> ReadsFlow(i)) /\ (\A i : Marks(i)' <=> Marks(i))
  BY DEF ReadsFlow, Marks
<1>7. ReadInv'
  BY <1>6 DEF PromptInv, ReadInv
<1>8. QED BY <1>4, <1>5, <1>7 DEF PromptInv

\* What the bounds of the events say of the openings.
LEMMA OpensSpent ==
  ASSUME TypeOK, NEW event \in Events, Spend(event)
  PROVE  budget'.opens \in Nat /\ budget'.opens <= budget.opens /\ budget.opens \in Nat
<1>1. budget \in [Events -> Nat] /\ "opens" \in Events
  BY DEF TypeOK, ScreenTypeOK, Events
<1>2. budget' \in [Events -> Nat] /\ \A e \in Events : budget'[e] <= budget[e]
  BY <1>1, SpendTyped
<1>3. QED BY <1>1, <1>2

LEMMA QueueTyped ==
  ASSUME TypeOK
  PROVE  /\ storeQueue \in Seq(StoreCalls) /\ Len(storeQueue) \in Nat
         /\ DOMAIN storeQueue = 1..Len(storeQueue)
         /\ \A i \in DOMAIN storeQueue : storeQueue[i].instance \in Nat
         /\ budget.opens \in Nat /\ flow.instance \in Nat
<1>1. storeQueue \in Seq(StoreCalls)
  BY DEF TypeOK, ScreenTypeOK
<1>2. \A i \in DOMAIN storeQueue : storeQueue[i] \in StoreCalls
  BY <1>1, ElementOfSeq
<1>3. \A c \in StoreCalls : c.instance \in Nat
  BY DEF StoreCalls
<1>4. budget.opens \in Nat /\ flow.instance \in Nat
  BY DEF TypeOK, ScreenTypeOK, Events, Flows
<1>5. QED BY <1>1, <1>2, <1>3, <1>4

\* A call put at the end of the queue of the store.
LEMMA StoreAppended ==
  ASSUME TypeOK, NEW c \in StoreCalls, storeQueue' = Append(storeQueue, c)
  PROVE  /\ \A i \in DOMAIN storeQueue : i \in DOMAIN storeQueue' /\ storeQueue'[i] = storeQueue[i]
         /\ Len(storeQueue) + 1 \in DOMAIN storeQueue'
         /\ storeQueue'[Len(storeQueue) + 1] = c
         /\ \A i \in DOMAIN storeQueue' :
              (i \in DOMAIN storeQueue /\ i < Len(storeQueue) + 1) \/ i = Len(storeQueue) + 1
<1>1. storeQueue \in Seq(StoreCalls) /\ Len(storeQueue) \in Nat
      /\ DOMAIN storeQueue = 1..Len(storeQueue)
  BY QueueTyped
<1>2. /\ storeQueue' \in Seq(StoreCalls) /\ Len(storeQueue') = Len(storeQueue) + 1
      /\ \A i \in DOMAIN storeQueue : storeQueue'[i] = storeQueue[i]
      /\ storeQueue'[Len(storeQueue) + 1] = c
  BY <1>1, Appended
<1>3. DOMAIN storeQueue' = 1..(Len(storeQueue) + 1)
  BY <1>1, <1>2
<1>4. QED BY <1>1, <1>2, <1>3

\* The flow is opened: its instance is new, so its read is the only one of its own.
LEMMA OpenKeepsPrompt ==
  ASSUME TypeOK, PromptInv, OpenFlow
  PROVE  PromptInv'
<1> DEFINE new == budget.opens
           read == [op |-> "read", instance |-> new]
<1>1. /\ new \in Nat /\ new > 0 /\ budget'.opens = new - 1
  BY QueueTyped DEF OpenFlow, Spend, TypeOK, ScreenTypeOK, Events
<1>2. /\ flow'.instance = new
      /\ flow'.promptUsed = IF platform = "ios" THEN "unread" ELSE "no"
  BY DEF OpenFlow, Closed
<1>3. /\ UNCHANGED <<platform, recorded, forgotten, upgradeSpent>>
      /\ storeQueue' = IF platform = "ios" THEN Append(storeQueue, read) ELSE storeQueue
  BY DEF OpenFlow, deviceVars
<1>4. MayBeSpent' => MayBeSpent
  <2>1. PICK call : /\ Ask(call) /\ call.op = "getStatus"
    BY DEF OpenFlow, Call
  <2>2. QED BY <1>3, <2>1, AskSpends DEF SpendsPrompt
<1>5. read \in StoreCalls /\ read.op = "read" /\ read.instance = new
  BY <1>1 DEF StoreCalls
<1>6. InstanceInv /\ RecordInv
  BY DEF PromptInv
<1> HIDE DEF new, read
<1>7. CASE platform # "ios"
  <2>1. storeQueue' = storeQueue /\ platform' # "ios"
    BY <1>3, <1>7
  <2>2. \A i \in DOMAIN storeQueue : storeQueue[i].op = "read" => storeQueue[i].instance > new
    BY <1>6 DEF InstanceInv, new
  <2>3. InstanceInv'
    BY <1>1, <1>2, <2>1, <2>2, QueueTyped DEF InstanceInv
  <2>4. QED BY <2>1, <2>3 DEF PromptInv, RecordInv, ReadInv
<1>8. CASE platform = "ios"
  <2>1. storeQueue' = Append(storeQueue, read)
    BY <1>3, <1>8
  <2>2. /\ \A i \in DOMAIN storeQueue : i \in DOMAIN storeQueue' /\ storeQueue'[i] = storeQueue[i]
        /\ storeQueue'[Len(storeQueue) + 1] = read
        /\ \A i \in DOMAIN storeQueue' :
             (i \in DOMAIN storeQueue /\ i < Len(storeQueue) + 1) \/ i = Len(storeQueue) + 1
    BY <1>5, <2>1, StoreAppended
  <2>3. \A i \in DOMAIN storeQueue : storeQueue[i].op = "read" => storeQueue[i].instance > new
    BY <1>6 DEF InstanceInv, new
  <2>4. \A i \in DOMAIN storeQueue : storeQueue[i].instance \in Nat
    BY QueueTyped
  <2>5. InstanceInv'
    BY <1>1, <1>2, <1>5, <2>2, <2>3, <2>4 DEF InstanceInv
  <2>6. RecordInv'
    BY <1>3, <1>4, <1>6, <2>2 DEF RecordInv, Pending
  <2>7. \A i \in DOMAIN storeQueue' : ReadsFlow(i)' => i = Len(storeQueue) + 1
    BY <1>1, <1>2, <2>2, <2>3, <2>4 DEF ReadsFlow
  <2>8. \A i \in DOMAIN storeQueue' : Marks(i)' => i < Len(storeQueue) + 1
    BY <1>5, <2>2 DEF Marks
  <2>9. ReadInv'
    BY <1>2, <1>8, <1>3, <2>7, <2>8 DEF ReadInv
  <2>10. QED BY <2>5, <2>6, <2>9 DEF PromptInv
<1>9. QED BY <1>7, <1>8

LEMMA CloseKeepsPrompt ==
  ASSUME TypeOK, PromptInv, CloseFlow
  PROVE  PromptInv'
<1>1. /\ UNCHANGED <<platform, upgradeSpent, calls, storeQueue, recorded, forgotten, budget>>
      /\ flow'.instance = 0
  BY DEF CloseFlow, captureVars, deviceVars, queueVars, Closed
<1>2. RecordInv'
  BY <1>1 DEF PromptInv, RecordInv, MayBeSpent, AskedAlways, Pending
<1>3. InstanceInv'
  BY <1>1 DEF PromptInv, InstanceInv
<1>4. QED BY <1>1, <1>2, <1>3 DEF PromptInv, ReadInv

\* The button is pressed: on iOS the mark is written behind every read, and the
\* flow no longer offers the button.
LEMMA PressKeepsPrompt ==
  ASSUME TypeOK, PromptInv, PressAllow
  PROVE  PromptInv'
<1> DEFINE mark == [op |-> "mark", instance |-> flow.instance]
           spends == StepOffered = "background" /\ platform = "ios"
<1>1. /\ budget'.opens \in Nat /\ budget'.opens <= budget.opens /\ budget.opens \in Nat
  BY OpensSpent DEF PressAllow, Events
<1>2. /\ UNCHANGED <<platform, upgradeSpent, recorded, forgotten>>
      /\ flow \in Flows
  BY DEF PressAllow, deviceVars, TypeOK, ScreenTypeOK
<1>3. /\ flow'.instance = flow.instance /\ flow'.readFailed = flow.readFailed
      /\ flow'.promptUsed = IF spends THEN "yes" ELSE flow.promptUsed
  BY <1>2 DEF PressAllow, Flows
<1>4. storeQueue' = IF spends THEN Append(storeQueue, mark) ELSE storeQueue
  BY DEF PressAllow
<1>5. ~spends /\ platform = "ios" => (MayBeSpent' => MayBeSpent)
  <2>1. PICK call : Ask(call) /\ call.op = "requestPermission" /\ call.arg = StepOffered
    BY DEF PressAllow, Call
  <2>2. ~spends /\ platform = "ios" => ~SpendsPrompt(call)
    BY <2>1 DEF SpendsPrompt
  <2>3. QED BY <1>2, <2>1, <2>2, AskSpends
<1>6. mark \in StoreCalls /\ mark.op = "mark"
  BY QueueTyped DEF StoreCalls
<1> HIDE DEF mark, spends
<1>7. CASE ~spends /\ platform = "ios"
  <2>1. storeQueue' = storeQueue /\ flow'.promptUsed = flow.promptUsed
    BY <1>3, <1>4, <1>7
  <2>2. QED BY <1>1, <1>2, <1>3, <1>5, <1>7, <2>1, PromptSame
<1>8. CASE platform # "ios"
  <2>1. storeQueue' = storeQueue /\ platform' # "ios"
    BY <1>2, <1>4, <1>8 DEF spends
  <2>2. InstanceInv'
    BY <1>1, <1>3, <2>1, QueueTyped DEF PromptInv, InstanceInv
  <2>3. QED BY <2>1, <2>2 DEF PromptInv, RecordInv, ReadInv
<1>9. CASE spends
  <2>1. storeQueue' = Append(storeQueue, mark) /\ flow'.promptUsed = "yes" /\ platform = "ios"
    BY <1>3, <1>4, <1>9 DEF spends
  <2>2. /\ \A i \in DOMAIN storeQueue : i \in DOMAIN storeQueue' /\ storeQueue'[i] = storeQueue[i]
        /\ Len(storeQueue) + 1 \in DOMAIN storeQueue'
        /\ storeQueue'[Len(storeQueue) + 1] = mark
        /\ \A i \in DOMAIN storeQueue' :
             (i \in DOMAIN storeQueue /\ i < Len(storeQueue) + 1) \/ i = Len(storeQueue) + 1
    BY <1>6, <2>1, StoreAppended
  <2>3. RecordInv'
    BY <1>6, <2>2 DEF RecordInv, Pending
  <2>4. InstanceInv'
    BY <1>1, <1>3, <1>6, <2>2, QueueTyped DEF PromptInv, InstanceInv
  <2>5. flow.promptUsed = "no" /\ (platform = "ios" /\ flow.instance # 0 =>
          \A i \in DOMAIN storeQueue : ~ReadsFlow(i))
    BY <1>9 DEF spends, StepOffered, PromptInv, ReadInv
  <2>6. flow.instance # 0 => \A i \in DOMAIN storeQueue' : ~ReadsFlow(i)'
    BY <1>3, <1>6, <2>1, <2>2, <2>5 DEF ReadsFlow
  <2>7. ReadInv'
    BY <1>3, <2>1, <2>6 DEF ReadInv
  <2>8. QED BY <2>3, <2>4, <2>7 DEF PromptInv
<1>10. QED BY <1>7, <1>8, <1>9 DEF spends

\* A delete waits at the end of the queue.
LEMMA SettingsKeepPrompt ==
  ASSUME TypeOK, PromptInv, SettingsAnswered
  PROVE  PromptInv'
<1> DEFINE wipe == [op |-> "delete", instance |-> 0]
<1>1. UNCHANGED <<platform, upgradeSpent, flow, recorded, forgotten, budget>>
  BY DEF SettingsAnswered, deviceVars
<1>2. MayBeSpent' => MayBeSpent
  <2>1. calls' = calls \/ \E call : Ask(call) /\ call.op = "getStatus"
    BY DEF SettingsAnswered, SettingsDone, StatusCall, Call
  <2>2. calls' = calls => (MayBeSpent' => MayBeSpent)
    BY <1>1 DEF MayBeSpent, AskedAlways
  <2>3. QED BY <1>1, <2>1, <2>2, AskSpends DEF SpendsPrompt
<1>3. wipe \in StoreCalls /\ wipe.op = "delete"
  BY DEF StoreCalls
<1>4. storeQueue' = storeQueue \/ storeQueue' = Append(storeQueue, wipe)
  BY DEF SettingsAnswered
<1> HIDE DEF wipe
<1>5. CASE storeQueue' = storeQueue
  BY <1>1, <1>2, <1>5, QueueTyped, PromptSame
<1>6. CASE storeQueue' = Append(storeQueue, wipe)
  <2>1. /\ \A i \in DOMAIN storeQueue : i \in DOMAIN storeQueue' /\ storeQueue'[i] = storeQueue[i]
        /\ storeQueue'[Len(storeQueue) + 1] = wipe
        /\ \A i \in DOMAIN storeQueue' :
             (i \in DOMAIN storeQueue /\ i < Len(storeQueue) + 1) \/ i = Len(storeQueue) + 1
    BY <1>3, <1>6, StoreAppended
  <2>2. \A i \in DOMAIN storeQueue' : storeQueue'[i].op \in {"read", "mark"} =>
          i \in DOMAIN storeQueue /\ storeQueue'[i] = storeQueue[i]
    BY <1>3, <2>1
  <2>3. InstanceInv'
    BY <1>1, <2>2 DEF PromptInv, InstanceInv
  <2>4. RecordInv'
    BY <1>1, <1>2, <2>1 DEF PromptInv, RecordInv, Pending
  <2>5. \A i \in DOMAIN storeQueue' : /\ ReadsFlow(i)' => i \in DOMAIN storeQueue /\ ReadsFlow(i)
                                      /\ Marks(i)' => i \in DOMAIN storeQueue /\ Marks(i)
    BY <1>1, <2>2 DEF ReadsFlow, Marks
  <2>6. ReadInv'
    BY <1>1, <1>2, <2>5 DEF PromptInv, ReadInv
  <2>7. QED BY <2>3, <2>4, <2>6 DEF PromptInv
<1>7. QED BY <1>4, <1>5, <1>6

\* The first call of the queue of the store is done.
LEMMA StoreShifted ==
  ASSUME TypeOK, NEW op, StoreTurn(op)
  PROVE  /\ 1 \in DOMAIN storeQueue /\ storeQueue[1].op = op
         /\ \A i \in DOMAIN storeQueue' :
              /\ i \in Nat /\ i + 1 \in DOMAIN storeQueue /\ i + 1 # 1
              /\ storeQueue'[i] = storeQueue[i + 1]
         /\ \A j \in DOMAIN storeQueue :
              j # 1 => j - 1 \in DOMAIN storeQueue' /\ storeQueue'[j - 1] = storeQueue[j]
         /\ Pending("mark") => Pending("mark")' \/ op = "mark"
<1>1. /\ storeQueue # <<>> /\ storeQueue[1].op = op
      /\ storeQueue' \in Seq(StoreCalls) /\ Len(storeQueue') = Len(storeQueue) - 1
      /\ \A i \in DOMAIN storeQueue' :
           i + 1 \in DOMAIN storeQueue /\ storeQueue'[i] = storeQueue[i + 1]
  BY StoreTurnTyped DEF TypeOK
<1>2. Len(storeQueue) \in Nat /\ DOMAIN storeQueue = 1..Len(storeQueue)
  BY QueueTyped
<1>3. Len(storeQueue) # 0
  BY <1>1, EmptySeq DEF TypeOK, ScreenTypeOK
<1>4. Len(storeQueue') \in Nat /\ DOMAIN storeQueue' = 1..Len(storeQueue')
  BY <1>1
<1>5. \A j \in DOMAIN storeQueue :
        j # 1 => j - 1 \in DOMAIN storeQueue' /\ storeQueue'[j - 1] = storeQueue[j]
  <2>1. \A j \in DOMAIN storeQueue : j # 1 => j - 1 \in DOMAIN storeQueue' /\ (j - 1) + 1 = j
    BY <1>1, <1>2, <1>4
  <2>2. QED BY <1>1, <2>1
<1>6. \A i \in DOMAIN storeQueue' : i \in Nat /\ i + 1 # 1
  BY <1>4
<1>7. Pending("mark") => Pending("mark")' \/ op = "mark"
  BY <1>1, <1>5 DEF Pending
<1>8. QED BY <1>1, <1>2, <1>3, <1>5, <1>6, <1>7

\* The read of the open flow comes back: no mark was behind it, and none before
\* it is left, so what it read is what was recorded.
LEMMA ReadKeepsPrompt ==
  ASSUME TypeOK, PromptInv, ReadPromptUsed
  PROVE  PromptInv'
<1> DEFINE own == storeQueue[1].instance = flow.instance
           now == IF flow.promptUsed = "yes" \/ (~storeFails /\ recorded) THEN "yes" ELSE "no"
<1>1. /\ UNCHANGED <<platform, upgradeSpent, calls, storeFails, recorded, forgotten, budget>>
      /\ MayBeSpent' <=> MayBeSpent
  BY DEF ReadPromptUsed, captureVars, deviceVars, queueVars, MayBeSpent, AskedAlways
<1>2. /\ 1 \in DOMAIN storeQueue /\ storeQueue[1].op = "read"
      /\ \A i \in DOMAIN storeQueue' :
           /\ i \in Nat /\ i + 1 \in DOMAIN storeQueue /\ i + 1 # 1
           /\ storeQueue'[i] = storeQueue[i + 1]
      /\ Pending("mark") => Pending("mark")'
  BY StoreShifted DEF ReadPromptUsed
<1>3. flow \in Flows
  BY DEF TypeOK, ScreenTypeOK
<1>4. /\ flow'.instance = flow.instance
      /\ ~own => flow' = flow
      /\ own => flow'.promptUsed = now /\ flow'.readFailed = storeFails
  BY <1>3 DEF ReadPromptUsed, Flows
<1>5. own => flow.instance # 0
  <2>1. storeQueue[1].instance > budget.opens
    BY <1>2 DEF PromptInv, InstanceInv
  <2>2. QED BY <1>2, <2>1, QueueTyped
<1> HIDE DEF own
<1>6. RecordInv'
  BY <1>1, <1>2 DEF PromptInv, RecordInv
<1>7. InstanceInv'
  BY <1>1, <1>2, <1>4 DEF PromptInv, InstanceInv
<1>8. \A i \in DOMAIN storeQueue' : /\ ReadsFlow(i)' <=> ReadsFlow(i + 1)
                                    /\ Marks(i)' <=> Marks(i + 1)
  BY <1>2, <1>4 DEF ReadsFlow, Marks
<1>9. ReadInv'
  <2>1. CASE ~own
    <3>1. \A i, j \in DOMAIN storeQueue' : j + 1 < i + 1 => j < i
      BY <1>2
    <3>2. \A i, j \in DOMAIN storeQueue' : i + 1 = j + 1 => i = j
      BY <1>2
    <3>3. flow' = flow
      BY <1>4, <2>1
    <3>4. QED BY <1>1, <1>2, <1>8, <3>1, <3>2, <3>3 DEF PromptInv, ReadInv
  <2>2. CASE own /\ platform = "ios"
    <3>1. ReadsFlow(1) /\ flow.instance # 0
      BY <1>2, <1>5, <2>2 DEF ReadsFlow, own
    <3>2. flow.promptUsed = "unread"
      BY <1>2, <2>2, <3>1 DEF PromptInv, ReadInv
    <3>3. \A i \in DOMAIN storeQueue' : ~ReadsFlow(i)'
      BY <1>2, <1>8, <2>2, <3>1, <3>2 DEF PromptInv, ReadInv
    <3>4. \A j \in DOMAIN storeQueue : Marks(j) => j < 1
      BY <1>2, <2>2, <3>1, <3>2 DEF PromptInv, ReadInv
    <3>5. \A j \in DOMAIN storeQueue : ~Marks(j)
      BY <3>4, QueueTyped
    <3>6. \A i \in DOMAIN storeQueue' : ~Marks(i)'
      BY <1>2, <1>8, <3>5
    <3>7. ~Pending("mark")
      BY <3>5 DEF Pending, Marks
    <3>8. MayBeSpent => recorded \/ forgotten
      BY <2>2, <3>7 DEF PromptInv, RecordInv
    <3>9. flow'.promptUsed \in {"yes", "no"}
          /\ (flow'.promptUsed = "no" => storeFails \/ ~recorded)
          /\ flow'.readFailed = storeFails
      BY <1>4, <2>2, <3>2
    <3>10. QED BY <1>1, <3>3, <3>6, <3>8, <3>9 DEF ReadInv
  <2>3. QED BY <1>1, <2>1, <2>2 DEF ReadInv
<1>10. QED BY <1>6, <1>7, <1>9 DEF PromptInv

\* A call of the queue of the store that the flow does not wait for is done.
LEMMA OtherTurnKeepsReads ==
  ASSUME TypeOK, PromptInv, NEW op \in {"mark", "delete"}, StoreTurn(op),
         UNCHANGED <<platform, flow, budget>>, MayBeSpent' => MayBeSpent,
         op = "delete" => (forgotten => forgotten')
  PROVE  InstanceInv' /\ ReadInv'
<1>1. /\ 1 \in DOMAIN storeQueue /\ storeQueue[1].op = op
      /\ \A i \in DOMAIN storeQueue' :
           /\ i \in Nat /\ i + 1 \in DOMAIN storeQueue /\ i + 1 # 1
           /\ storeQueue'[i] = storeQueue[i + 1]
  BY StoreShifted
<1>2. InstanceInv'
  BY <1>1 DEF PromptInv, InstanceInv
<1>3. \A i \in DOMAIN storeQueue' : /\ ReadsFlow(i)' <=> ReadsFlow(i + 1)
                                    /\ Marks(i)' <=> Marks(i + 1)
  BY <1>1 DEF ReadsFlow, Marks
<1>4. \A i, j \in DOMAIN storeQueue' : (j + 1 < i + 1 => j < i) /\ (i + 1 = j + 1 => i = j)
  BY <1>1
<1>5. CASE op = "mark"
  <2>1. Marks(1)
    BY <1>1, <1>5 DEF Marks
  <2>2. platform = "ios" /\ flow.instance # 0 => flow.promptUsed # "no"
    BY <1>1, <2>1 DEF PromptInv, ReadInv
  <2>3. ReadInv'
    BY <1>1, <1>3, <1>4, <2>2 DEF PromptInv, ReadInv
  <2>4. QED BY <1>2, <2>3
<1>6. CASE op = "delete"
  <2>1. ReadInv'
    BY <1>1, <1>3, <1>4, <1>6 DEF PromptInv, ReadInv
  <2>2. QED BY <1>2, <2>1
<1>7. QED BY <1>5, <1>6

LEMMA StoreKeepsPrompt ==
  ASSUME TypeOK, PromptInv, MarkPromptUsed \/ DeleteStore
  PROVE  PromptInv'
<1>1. CASE MarkPromptUsed
  <2>1. /\ UNCHANGED <<platform, flow, budget>> /\ (MayBeSpent' => MayBeSpent)
    BY <1>1 DEF MarkPromptUsed, captureVars, deviceVars, queueVars, MayBeSpent, AskedAlways
  <2>2. InstanceInv' /\ ReadInv'
    BY <1>1, <2>1, OtherTurnKeepsReads DEF MarkPromptUsed
  <2>3. recorded' \/ forgotten'
    BY <1>1, Zenon DEF MarkPromptUsed
  <2>4. QED BY <2>2, <2>3 DEF PromptInv, RecordInv
<1>2. CASE DeleteStore
  <2>1. UNCHANGED <<platform, flow, budget, upgradeSpent>>
    BY <1>2 DEF DeleteStore, deviceVars
  <2>2. MayBeSpent' => MayBeSpent
    <3>1. PICK call : Ask(call) /\ call.op = "getStatus"
      BY <1>2 DEF DeleteStore, SettingsDone, StatusCall, Call
    <3>2. QED BY <2>1, <3>1, AskSpends DEF SpendsPrompt
  <2>3. forgotten' = (forgotten \/ recorded) /\ recorded' = FALSE
    BY <1>2 DEF DeleteStore
  <2>4. InstanceInv' /\ ReadInv'
    BY <1>2, <2>1, <2>2, <2>3, OtherTurnKeepsReads, Zenon DEF DeleteStore
  <2>5. Pending("mark") => Pending("mark")'
    BY <1>2, StoreShifted DEF DeleteStore
  <2>6. RecordInv'
    BY <2>1, <2>2, <2>3, <2>5, Zenon DEF PromptInv, RecordInv
  <2>7. QED BY <2>4, <2>6 DEF PromptInv
<1>3. QED BY <1>1, <1>2

LEMMA DeathKeepsPrompt ==
  ASSUME TypeOK, PromptInv, AppDies
  PROVE  PromptInv'
<1>1. /\ UNCHANGED <<platform, upgradeSpent>> /\ calls' = MountCalls
      /\ flow'.instance = 0 /\ storeQueue' = <<>>
  BY DEF AppDies, deviceVars, Closed
<1>2. MayBeSpent' => MayBeSpent
  BY <1>1, MountTyped DEF MayBeSpent, AskedAlways
<1>3. recorded \/ forgotten \/ Pending("mark") => recorded' \/ forgotten'
  BY Zenon DEF AppDies
<1>4. RecordInv'
  BY <1>1, <1>2, <1>3 DEF PromptInv, RecordInv
<1>5. QED BY <1>1, <1>4 DEF PromptInv, InstanceInv, ReadInv

LEMMA PromptKept ==
  ASSUME CaptureAssumption, TypeOK, PromptInv, [Next]_vars
  PROVE  PromptInv'
<1>1. CASE ModuleServes
  <2>1. UNCHANGED <<storeQueue, recorded, forgotten, flow, budget>> /\ Serve
    BY <1>1 DEF ModuleServes
  <2>2. platform' = platform
    BY <2>1 DEF Serve, StartRejected, StartChecksStore, StartSelects, Stop, GetStatus,
      RequestPermission, JudgeFix, WriteFix, AnnounceFix, deviceVars
  <2>3. QED BY <2>1, <2>2, ServeSpends, QueueTyped, PromptSame
<1>2. CASE OpenFlow
  BY <1>2, OpenKeepsPrompt
<1>3. CASE CloseFlow
  BY <1>3, CloseKeepsPrompt
<1>4. CASE PressAllow
  BY <1>4, PressKeepsPrompt
<1>5. CASE SettingsAnswered
  BY <1>5, SettingsKeepPrompt
<1>6. CASE StoreServes
  BY <1>6, ReadKeepsPrompt, StoreKeepsPrompt DEF StoreServes
<1>7. CASE AppDies
  BY <1>7, DeathKeepsPrompt
<1>8. CASE ~ModuleServes /\ ~OpenFlow /\ ~CloseFlow /\ ~PressAllow /\ ~SettingsAnswered
           /\ ~StoreServes /\ ~AppDies
  <2>1. UNCHANGED <<platform, upgradeSpent, storeQueue, recorded, forgotten>>
    BY <1>8 DEF Next, vars, captureVars, deviceVars, screenVars, DeviceChanges, SetPermission,
      SetCondition, RefuseNextStart, SetStoreFailure, KillMechanism, Restarted, RestartMechanism,
      FixArrives, DeliverFix, Poll, AppReturns, Refreshes, Decline, Reconsider, Leaves, Pause,
      Resume, DeleteAll, Press, Continue, ShowStatus, RequestAnswered
  <2>2. calls' = calls \/ \E call : Ask(call) /\ ~SpendsPrompt(call)
    <3>1. calls' = calls \/ \E op \in {"getStatus", "start", "stop", "deliverFix"} : \E by, arg :
                              Ask(Call(op, by, arg))
      BY <1>8 DEF Next, vars, captureVars, queueVars, DeviceChanges, SetPermission,
        SetCondition, RefuseNextStart, SetStoreFailure, KillMechanism, Restarted, RestartMechanism,
        FixArrives, DeliverFix, Poll, AppReturns, Refreshes, Decline, Reconsider, Leaves, Pause,
        Resume, DeleteAll, Press, Continue, ShowStatus, RequestAnswered, SettingsCall, StatusCall
    <3>2. \A op \in {"getStatus", "start", "stop", "deliverFix"} : \A by, arg :
            ~SpendsPrompt(Call(op, by, arg))
      BY DEF Call, SpendsPrompt
    <3>3. QED BY <3>1, <3>2
  <2>3. MayBeSpent' => MayBeSpent
    <3>1. calls' = calls => (MayBeSpent' => MayBeSpent)
      BY <2>1 DEF MayBeSpent, AskedAlways
    <3>2. QED BY <2>1, <2>2, <3>1, AskSpends
  <2>4. /\ flow'.instance = flow.instance /\ flow'.promptUsed = flow.promptUsed
        /\ flow'.readFailed = flow.readFailed
    <3>1. flow \in Flows
      BY DEF TypeOK, ScreenTypeOK
    <3>2. \/ flow' = flow
          \/ flow' = [flow EXCEPT !.skipped = TRUE] \/ flow' = [flow EXCEPT !.skipped = FALSE]
          \/ flow' = [flow EXCEPT !.declined = TRUE] \/ flow' = [flow EXCEPT !.declined = FALSE]
          \/ flow' = [flow EXCEPT !.busy = FALSE]
      BY <1>8 DEF Next, vars, captureVars, screenVars, DeviceChanges, Restarted, FixArrives, Poll,
        AppReturns, Refreshes, Decline, Reconsider, Leaves, Pause, Resume, DeleteAll, Press,
        Continue, ShowStatus, RequestAnswered
    <3>3. QED BY <3>1, <3>2 DEF Flows
  <2>5. budget'.opens \in Nat /\ budget'.opens <= budget.opens
    <3>1. budget' = budget \/ \E event \in Events : Spend(event)
      BY <1>8 DEF Next, vars, DeviceChanges, Restarted, FixArrives, Poll,
        AppReturns, Decline, Reconsider, Leaves, Pause, Resume, DeleteAll, Press,
        Continue, ShowStatus, RequestAnswered, Events
    <3>2. QED BY <3>1, QueueTyped, OpensSpent
  <2>6. QED BY <2>1, <2>3, <2>4, <2>5, PromptSame
<1>9. QED BY <1>1, <1>2, <1>3, <1>4, <1>5, <1>6, <1>7, <1>8

(* The button that asks iOS for its one prompt is offered after the prompt   *)
(* was used only if the record of it was lost or could not be read, however  *)
(* the flow is opened and closed while reads and marks wait in the queue of  *)
(* the store.                                                                *)
THEOREM DeadButtonAlwaysExplained == Spec => []DeadButtonExplained
<1>1. Init => PromptInv
  <2> SUFFICES ASSUME Init PROVE PromptInv
    OBVIOUS
  <2>1. upgradeSpent = FALSE /\ calls = MountCalls /\ storeQueue = <<>> /\ flow.instance = 0
    BY DEF Init, CaptureInit, Closed
  <2>2. ~MayBeSpent
    BY <2>1, MountTyped DEF MayBeSpent, AskedAlways
  <2>3. QED BY <2>1, <2>2 DEF PromptInv, RecordInv, InstanceInv, ReadInv
<1>2. TypeOK /\ PromptInv /\ [Next]_vars => PromptInv'
  BY PromptKept, CaptureAssumption
<1>3. TypeOK /\ PromptInv => DeadButtonExplained
  <2> SUFFICES ASSUME TypeOK, PromptInv, platform = "ios", upgradeSpent, StepOffered = "background"
               PROVE  forgotten \/ flow.readFailed
    BY DEF DeadButtonExplained
  <2>1. StageShown = "upgrade" /\ flow.promptUsed = "no"
    BY DEF StepOffered
  <2>2. shown["flow"] # Nothing
    BY <2>1 DEF StageShown, Stage, Asking
  <2>3. flow.instance # 0
    BY <2>2 DEF TypeOK, ScreenTypeOK
  <2>4. QED BY <2>1, <2>3 DEF PromptInv, ReadInv, MayBeSpent
<1>4. QED
  BY <1>1, <1>2, <1>3, TypeCorrect, PTL DEF Spec
=============================================================================
