----------------------------- MODULE ReportForm -----------------------------
(* What the form of a report accepts and what is sent for it                 *)
(* (app/src/report: form, coordinates, image and the screen's submit),       *)
(* beside the schema the server reads the request with                       *)
(* (shared/src/api/reports).  They are two sets of rules, in two packages,   *)
(* for one request.                                                          *)
(*                                                                           *)
(* A text is its length, as typed and trimmed; a phone number is "e164" when *)
(* it is one without its punctuation.  What a time zone makes of a day and a *)
(* time is a constant.  Wording is left out: the errors of a form are the    *)
(* fields they stand at, and a field left blank is one that does not read.   *)
EXTENDS Integers, Sequences

CONSTANTS Dates,             \* what reads as year, month and day, 31 February among it
          LeapDay,           \* 2000-01-01, the day a time is tried on
          LocalMoment(_, _, _),  \* date, hour, minute: the second they name, or None
          None,              \* what is not there, or does not read
          Thrown,
          RetentionSec, WindowBefore, WindowAfter,
          DefaultRadius, MaxRadius,
          MaxName, MaxDescription, MaxPhotos, MaxEdge, MaxEncoded

ASSUME FormAssumption ==
  /\ LeapDay \in Dates /\ None \notin Int
  /\ \A date \in Dates, hour \in 0 .. 23, minute \in 0 .. 59 :
       LocalMoment(date, hour, minute) \in Int \cup {None}
  /\ {RetentionSec, WindowBefore, WindowAfter, DefaultRadius, MaxRadius} \subseteq Nat
  /\ {MaxName, MaxDescription, MaxPhotos, MaxEdge, MaxEncoded} \subseteq Nat \ {0}
  /\ WindowBefore <= WindowAfter /\ WindowBefore + WindowAfter <= RetentionSec

Points == [lat : Int, lon : Int]
TypedTimes == [hour : 0 .. 99, minute : 0 .. 99, half : {"none", "am", "pm"}]
PersonPhotos == [w : 1 .. MaxEdge, h : 1 .. MaxEdge, size : 1 .. MaxEncoded]

ReportFormValues ==
  [name : Nat, phone : {"e164", None}, date : Dates \cup {None}, time : TypedTimes \cup {None},
   description : {d \in [typed : Nat, trimmed : Nat] : d.trimmed <= d.typed},
   location : Points \cup {None}, photos : Seq(PersonPhotos)]

EmptyForm == [name |-> 0, phone |-> None, date |-> None, time |-> None,
              description |-> [typed |-> 0, trimmed |-> 0], location |-> None, photos |-> <<>>]

Lesser(a, b) == IF a <= b THEN a ELSE b
Greater(a, b) == IF a >= b THEN a ELSE b

----------------------------------------------------------------------------
(* Photos: shrunk on the phone, and no more of them than a report carries.   *)

\* Math.round of a / b.
Rounded(a, b) == (2 * a + b) \div (2 * b)

FitWithin(w, h, edge) ==
  LET longest == Greater(w, h)
      Scaled(side) == IF longest <= edge THEN side ELSE Greater(1, Rounded(side * edge, longest))
  IN [w |-> Scaled(w), h |-> Scaled(h)]

\* sizes: what encoding it comes to at each quality, best first.
MakeThumbnail(w, h, sizes) ==
  LET small == {q \in DOMAIN sizes : sizes[q] <= MaxEncoded}
      best == CHOOSE q \in small : \A other \in small : q <= other
      side == FitWithin(w, h, MaxEdge)
  IN IF w <= 0 \/ h <= 0 \/ small = {} THEN Thrown
     ELSE [w |-> side.w, h |-> side.h, size |-> sizes[best]]

CanAddPhoto(photos) == Len(photos) < MaxPhotos

\* Asked before the library opens, and again of the form there is when it answers.
AddPhoto(photos, photo) == IF CanAddPhoto(photos) THEN Append(photos, photo) ELSE photos

RemovePhoto(photos, index) ==
  SubSeq(photos, 1, index - 1) \o SubSeq(photos, index + 1, Len(photos))

----------------------------------------------------------------------------
(* The form.                                                                 *)

\* 12 AM is hour 0 and 12 PM is hour 12.
HourOf(time) == IF time.half = "none" THEN time.hour
                ELSE (time.hour % 12) + (IF time.half = "pm" THEN 12 ELSE 0)

IsTime(time) ==
  /\ time \in TypedTimes
  /\ time.hour \in (IF time.half = "none" THEN 0 .. 23 ELSE 1 .. 12)
  /\ time.minute <= 59

ParseLocalDateTime(date, time) ==
  IF date \in Dates /\ IsTime(time) THEN LocalMoment(date, HourOf(time), time.minute)
  ELSE None

Midnight == [hour |-> 0, minute |-> 0, half |-> "none"]

OnTheMap(point) == point.lat \in -90 .. 90 /\ point.lon \in -180 .. 180

\* Coordinates that were pasted: a point, when two numbers were read and they are on the map.
ParseCoordinates(typed) == IF typed # None /\ OnTheMap(typed) THEN typed ELSE None

When(values) == ParseLocalDateTime(values.date, values.time)
InTheFuture(values, now) == When(values) # None /\ When(values) > now
TooLongAgo(values, now) ==
  When(values) # None /\ When(values) <= now /\ now - When(values) > RetentionSec - WindowAfter

ValidateForm(values, now) ==
  LET wrong == [
        name |-> values.name = 0 \/ values.name > MaxName,
        phone |-> values.phone # "e164",
        location |-> values.location = None \/ ~OnTheMap(values.location),
        date |-> ParseLocalDateTime(values.date, Midnight) = None \/ TooLongAgo(values, now),
        time |-> ParseLocalDateTime(LeapDay, values.time) = None \/ InTheFuture(values, now),
        description |-> values.description.typed > MaxDescription,
        photos |-> Len(values.photos) > MaxPhotos]
  IN {field \in DOMAIN wrong : wrong[field]}

Request(values, now) ==
  [center |-> values.location, radius |-> Lesser(DefaultRadius, MaxRadius),
   from |-> When(values) - WindowBefore, to |-> Lesser(When(values) + WindowAfter, now),
   name |-> values.name, description |-> values.description.trimmed,
   photos |-> IF values.photos = <<>> THEN None ELSE values.photos,
   phone |-> values.phone]

----------------------------------------------------------------------------
(* ReportSubmitRequestSchema.  Numbers larger than a double holds are left out. *)

TimeWindowFits(from, to) == from \in Nat /\ to \in Nat /\ from <= to /\ to - from <= RetentionSec

PersonFits(request) ==
  /\ request.name \in 1 .. MaxName
  /\ request.description \in 0 .. MaxDescription
  /\ \/ request.photos = None
     \/ Len(request.photos) \in 1 .. MaxPhotos /\ \A i \in DOMAIN request.photos :
                                                    request.photos[i] \in PersonPhotos

RequestFits(request) ==
  /\ OnTheMap(request.center)
  /\ request.radius \in 0 .. MaxRadius
  /\ TimeWindowFits(request.from, request.to)
  /\ PersonFits(request)
  /\ request.phone = "e164"

\* Checked again when it is built, at a clock read again; a bad request is never queued.
BuildRequest(values, now) ==
  IF /\ ValidateForm(values, now) = {} /\ When(values) # None
     /\ RequestFits(Request(values, now))
  THEN Request(values, now)
  ELSE Thrown

\* The form that is submitted: without a map the pasted coordinates are its location.
Submitted(values, hasMap, typed) ==
  IF hasMap THEN values ELSE [values EXCEPT !.location = ParseCoordinates(typed)]

----------------------------------------------------------------------------
\* The form lets through what the server takes, and asks phones about nothing they no longer
\* keep: a form with nothing to correct makes a request the schema accepts, whose window ends by
\* now and begins within the retention (form.ts: "a bad request is never queued").  A time the
\* zone skips over midnight is the exception: it passes and makes no request.
MakesItsRequest(values, now) ==
  ValidateForm(values, now) = {} /\ When(values) # None =>
    /\ BuildRequest(values, now) = Request(values, now)
    /\ Request(values, now).from >= now - RetentionSec
    /\ Request(values, now).to <= now
=============================================================================
