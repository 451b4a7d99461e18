------------------------ MODULE MCReportSubmission ------------------------
(* Up to two confirmed reports: two passes that may overlap, one pass with   *)
(* keys that age, a refused report and a delete, a submit screen with its    *)
(* pass and one of a wake, and a delete alone.  Forms are small: texts of up *)
(* to three characters, five days of a retention of three, minutes for       *)
(* seconds.                                                                  *)
EXTENDS SubmitScreen, ReportForm

CONSTANTS p1, p2

MCPasses == {p1, p2}

Budget(abandoned, storeErrors, kills, serverErrors, serverDeaths, deletes) ==
  [abandoned |-> abandoned, storeErrors |-> storeErrors, kills |-> kills,
   serverErrors |-> serverErrors, serverDeaths |-> serverDeaths, deletes |-> deletes]

Overlapping == [passes |-> MCPasses, screens |-> {}, refused |-> {}, keysAge |-> FALSE, startsWithId |-> TRUE,
                budget |-> Budget(2, 0, 1, 0, 1, 0)]
Aging == [passes |-> {p1}, screens |-> {}, refused |-> {2}, keysAge |-> TRUE, startsWithId |-> FALSE,
          budget |-> Budget(1, 0, 1, 1, 1, 1)]
Watched == [passes |-> MCPasses, screens |-> {p1}, refused |-> {2}, keysAge |-> FALSE, startsWithId |-> TRUE,
            budget |-> Budget(1, 1, 0, 0, 1, 0)]
DeleteOnly == [passes |-> {p1}, screens |-> {}, refused |-> {}, keysAge |-> FALSE, startsWithId |-> TRUE,
               budget |-> Budget(0, 0, 0, 0, 0, 1)]

MCScenarios == {Overlapping, Aging, Watched}
MCDeleteOnly == {DeleteOnly}

MCLeapDay == 0
NoSuchDay == 6
MCDates == {MCLeapDay, NoSuchDay} \cup 1 .. 5
MCLocalMoment(date, hour, minute) ==
  IF date = NoSuchDay THEN None ELSE 1440 * date + 60 * hour + minute

Typed(hour, minute, half) == [hour |-> hour, minute |-> minute, half |-> half]
SmallForms ==
  [name : {0, 1, 3}, phone : {"e164", None}, date : MCDates \cup {None},
   time : {None, Typed(0, 0, "none"), Typed(23, 59, "none"), Typed(24, 0, "none"), Typed(9, 60, "none"),
           Typed(0, 30, "am"), Typed(12, 0, "am"), Typed(12, 30, "pm")},
   description : {[typed |-> 2, trimmed |-> 0], [typed |-> 3, trimmed |-> 2]},
   location : {None, [lat |-> 90, lon |-> -180], [lat |-> 91, lon |-> 0]},
   photos : {<<>>} \cup {[i \in 1 .. n |-> [w |-> 4, h |-> 1, size |-> 2]] : n \in 1 .. 3}]

\* A form lets through what the server takes, on every small form.
ASSUME FormsMakeRequests ==
  \A values \in SmallForms, clock \in {4320, 7200, 7230} : MakesItsRequest(values, clock)

\* Every photo that becomes a thumbnail is one the schema takes.
ASSUME ThumbnailsFit ==
  \A w, h \in 0 .. 12, sizes \in [1 .. 2 -> 1 .. 3] :
    MakeThumbnail(w, h, sizes) \in PersonPhotos \cup {Thrown}

\* Every hour of the day is written once with AM or PM.
ASSUME HoursReadOnce ==
  \A hour \in 0 .. 23 :
    Cardinality({t \in [hour : 0 .. 13, minute : {0}, half : {"am", "pm"}] :
                   IsTime(t) /\ HourOf(t) = hour}) = 1
=============================================================================
