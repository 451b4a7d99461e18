-------------------------- MODULE TipJourneyProofs --------------------------
(* Proofs about what TipJourney puts together: the match rule, for every     *)
(* history, report and metric; edits, for every metric, tolerance and number *)
(* of edits; the responses to a report, for every set of devices, keys and   *)
(* fetches and every page size; and the sender's and the operator's view of  *)
(* them, for any number of attempts and tabs.                                *)
EXTENDS TipJourney, FiniteSetTheorems, WellFoundedInduction, TLAPS

-----------------------------------------------------------------------------
(* The larger of numbers. *)

\* A nonempty finite set of naturals has a largest element: of the sets of elements above
\* one, finite all, one is minimal by inclusion.
LEMMA HasLargest ==
  ASSUME NEW S \in SUBSET Nat, S # {}, IsFiniteSet(S)
  PROVE  \E x \in S : \A y \in S : x >= y
<1> DEFINE Above(x) == {y \in S : y > x}
           T == {Above(x) : x \in S}
<1>1. T \subseteq FiniteSubsetsOf(S) /\ T # {}
  <2>1. \A x \in S : Above(x) \subseteq S /\ IsFiniteSet(Above(x))
    BY FS_Subset
  <2>2. QED BY <2>1 DEF FiniteSubsetsOf
<1>2. IsWellFoundedOn(StrictSubsetOrdering(S), FiniteSubsetsOf(S))
  BY FS_StrictSubsetOrderingWellFounded
<1>3. PICK U \in T : \A V \in T : <<V, U>> \notin StrictSubsetOrdering(S)
  <2> HIDE DEF T
  <2>1. QED BY <1>1, <1>2, WFMin
<1>4. PICK x \in S : U = Above(x)
  OBVIOUS
<1>5. ASSUME NEW y \in S, y > x PROVE FALSE
  <2>1. /\ \A z \in S : z > y => z > x
        /\ ~ (y > y)
    BY <1>5
  <2>2. PICK V \in T : V = Above(y)
    OBVIOUS
  <2>3. y \in U /\ y \notin V
    BY <1>4, <1>5, <2>1, <2>2, Zenon
  <2>4. V \subseteq U /\ U \subseteq S
    BY <1>4, <2>1, <2>2, Zenon
  <2>5. <<V, U>> \in StrictSubsetOrdering(S)
    BY <2>3, <2>4 DEF StrictSubsetOrdering
  <2>6. QED BY <1>3, <2>5
<1>6. QED BY <1>5

\* What Max returns.
LEMMA MaxOfNaturals ==
  ASSUME NEW S \in SUBSET Nat, S # {}, IsFiniteSet(S)
  PROVE  Max(S) \in S /\ \A y \in S : y <= Max(S)
<1>1. \E x \in S : \A y \in S : x >= y
  BY HasLargest
<1>2. Max(S) \in S /\ \A y \in S : Max(S) >= y
  BY <1>1 DEF Max
<1>3. QED
  BY <1>2

----------------------------------------------------------------------------
(* The grid *)

\* A multiple of the step, at most one step below the value.
LEMMA RoundDownType ==
  ASSUME NEW v \in Int, NEW k \in Nat \ {0}
  PROVE  /\ v \div k \in Int /\ RoundDown(v, k) \in Int /\ RoundDown(v, k) = k * (v \div k)
         /\ RoundDown(v, k) <= v /\ v < RoundDown(v, k) + k
BY Z3 DEF RoundDown

LEMMA RoundUpType ==
  ASSUME NEW v \in Int, NEW k \in Nat \ {0}
  PROVE  /\ RoundUp(v, k) \in Int
         /\ v <= RoundUp(v, k) /\ RoundUp(v, k) < v + k
         /\ RoundUp(v, k) = - RoundDown(- v, k)
BY Z3 DEF RoundUp, RoundDown

LEMMA RoundDownMonotone ==
  ASSUME NEW a \in Int, NEW b \in Int, NEW k \in Nat \ {0}, a <= b
  PROVE  RoundDown(a, k) <= RoundDown(b, k)
<1> DEFINE p == a \div k
           q == b \div k
<1> HIDE DEF p, q
<1>1. /\ p \in Int /\ q \in Int
      /\ RoundDown(a, k) = k * p /\ RoundDown(b, k) = k * q
      /\ k * p <= a /\ b < k * q + k
  <2>1. p \in Int /\ RoundDown(a, k) = k * p /\ RoundDown(a, k) <= a
    BY RoundDownType DEF p
  <2>2. q \in Int /\ RoundDown(b, k) = k * q /\ b < RoundDown(b, k) + k
    BY RoundDownType DEF q
  <2> QED BY <2>1, <2>2
<1>2. CASE p <= q
  <2>1. k * (q - p) >= 0 /\ k * (q - p) = k * q - k * p
    BY <1>1, <1>2, Z3
  <2> QED BY <1>1, <2>1, Z3
<1>3. CASE q < p
  <2>1. k * (p - (q + 1)) >= 0 /\ k * (p - (q + 1)) = k * p - k * q - k
    BY <1>1, <1>3, Z3
  <2> QED BY <1>1, <2>1, Z3
<1> QED BY <1>1, <1>2, <1>3, Z3

LEMMA RoundUpMonotone ==
  ASSUME NEW a \in Int, NEW b \in Int, NEW k \in Nat \ {0}, a <= b
  PROVE  RoundUp(a, k) <= RoundUp(b, k)
<1>1. RoundDown(- b, k) <= RoundDown(- a, k)
  BY RoundDownMonotone
<1>2. RoundDown(- b, k) \in Int /\ RoundDown(- a, k) \in Int
  BY RoundDownType
<1> QED BY <1>1, <1>2, RoundUpType

----------------------------------------------------------------------------
(* Rows, reports and parameters *)

StayRow == [id : Nat, start : Int, end : Int, place : Places]
SampleRow == [id : Nat, ts : Int, place : Places]
Query == [center : Places, radius : Nat, from : Int, to : Int, expires : Int]
Params == [now : Int, radius : Nat, window : Nat, radiusStep : Nat \ {0}, windowStep : Nat \ {0},
           retention : Nat]

LEMMA BoundsType ==
  ASSUME NEW q \in Query, NEW p \in Params
  PROVE  LET b == MatchBounds(CoarsenCriteria(q, p), p)
         IN /\ b.center = q.center /\ b.center \in Places
            /\ b.reach \in Nat /\ b.reach >= p.radius
            /\ b.from \in Int /\ b.to \in Int /\ b.cutoff \in Int /\ b.cutoff <= b.from
            /\ b.window.from \in Int /\ b.window.to \in Int
<1>1. /\ RoundUp(q.radius, p.radiusStep) \in Int /\ q.radius <= RoundUp(q.radius, p.radiusStep)
      /\ RoundDown(q.from, p.windowStep) \in Int /\ RoundUp(q.to, p.windowStep) \in Int
  <2>1. /\ q.radius \in Int /\ q.from \in Int /\ q.to \in Int
        /\ p.radiusStep \in Nat \ {0} /\ p.windowStep \in Nat \ {0}
    BY DEF Query, Params
  <2>2. RoundUp(q.radius, p.radiusStep) \in Int /\ q.radius <= RoundUp(q.radius, p.radiusStep)
    BY <2>1, RoundUpType
  <2>3. RoundUp(q.to, p.windowStep) \in Int
    BY <2>1, RoundUpType
  <2> QED BY <2>1, <2>2, <2>3, RoundDownType
<1> QED BY <1>1 DEF MatchBounds, CoarsenCriteria, Cutoff, Later, Query, Params

----------------------------------------------------------------------------
(* The purge *)

\* What the retention purge leaves of the rows (deleteStaysEndedBefore, trimStaysStartedBefore,
\* deleteSamplesBefore).
PurgedStays(stays, cutoff) ==
  {[s EXCEPT !.start = Later(@, cutoff)] : s \in {x \in stays : x.end >= cutoff}}
PurgedSamples(samples, cutoff) == {s \in samples : s.ts >= cutoff}

\* A stay that can be evidence, as matching reads it.
StayFacts(b, s) == Evidence("stay", s, Metric[b.center][s.place], Gap(b, FromCutoff(s, b), s.end))
StayCounts(b, s) == s.start <= s.end /\ s.start <= b.to /\ s.end >= b.from /\ Near(b, s.place)

LEMMA TrimmedIsTheSame ==
  ASSUME NEW b, b.from \in Int, b.to \in Int, b.cutoff \in Int, b.cutoff <= b.from, b.from <= b.to,
         NEW s \in StayRow, s.end >= b.cutoff
  PROVE  LET t == [s EXCEPT !.start = Later(@, b.cutoff)]
         IN StayFacts(b, t) = StayFacts(b, s) /\ (StayCounts(b, t) <=> StayCounts(b, s))
<1> DEFINE t == [s EXCEPT !.start = Later(@, b.cutoff)]
<1>1. /\ t.id = s.id /\ t.end = s.end /\ t.place = s.place /\ t.start = Later(s.start, b.cutoff)
      /\ s.start \in Int /\ s.end \in Int
  BY DEF StayRow
<1>2. FromCutoff(t, b) = FromCutoff(s, b)
  BY <1>1 DEF FromCutoff, Later
<1>3. StayFacts(b, t) = StayFacts(b, s)
  BY <1>1, <1>2 DEF StayFacts, Evidence
<1>4. t.start <= t.end <=> s.start <= s.end
  BY <1>1 DEF Later
<1>5. t.start <= b.to <=> s.start <= b.to
  BY <1>1 DEF Later
<1> HIDE DEF t
<1>6. StayCounts(b, t) <=> StayCounts(b, s)
  BY <1>1, <1>4, <1>5 DEF StayCounts
<1> QED BY <1>3, <1>6 DEF t

LEMMA StayEvidenceAfterPurge ==
  ASSUME NEW b, b.from \in Int, b.to \in Int, b.cutoff \in Int, b.cutoff <= b.from, b.from <= b.to,
         NEW S \in SUBSET StayRow
  PROVE  StayEvidence(b, PurgedStays(S, b.cutoff)) = StayEvidence(b, S)
<1> DEFINE T(s) == [s EXCEPT !.start = Later(@, b.cutoff)]
<1>1. \A V : StayEvidence(b, V) = {StayFacts(b, s) : s \in {x \in V : StayCounts(b, x)}}
  BY DEF StayEvidence, StayFacts, StayCounts
<1>2. \A s \in S : s.end >= b.cutoff => StayFacts(b, T(s)) = StayFacts(b, s) /\ (StayCounts(b, T(s)) <=> StayCounts(b, s))
  BY TrimmedIsTheSame
<1>3. \A s \in S : StayCounts(b, s) => s.end >= b.cutoff
  BY DEF StayCounts, StayRow
<1>4. PurgedStays(S, b.cutoff) = {T(s) : s \in {x \in S : x.end >= b.cutoff}}
  BY DEF PurgedStays
<1> HIDE DEF T
<1>5. ASSUME NEW e \in StayEvidence(b, S)
      PROVE  e \in StayEvidence(b, PurgedStays(S, b.cutoff))
  <2>1. PICK s \in S : StayCounts(b, s) /\ e = StayFacts(b, s)
    BY <1>1, <1>5
  <2>2. T(s) \in PurgedStays(S, b.cutoff) /\ StayCounts(b, T(s)) /\ e = StayFacts(b, T(s))
    BY <1>2, <1>3, <1>4, <2>1
  <2> QED BY <1>1, <2>2
<1>6. ASSUME NEW e \in StayEvidence(b, PurgedStays(S, b.cutoff))
      PROVE  e \in StayEvidence(b, S)
  <2>1. PICK t \in PurgedStays(S, b.cutoff) : StayCounts(b, t) /\ e = StayFacts(b, t)
    BY <1>1, <1>6
  <2>2. PICK s \in S : s.end >= b.cutoff /\ t = T(s)
    BY <1>4, <2>1
  <2>3. StayCounts(b, s) /\ e = StayFacts(b, s)
    BY <1>2, <2>1, <2>2
  <2> QED BY <1>1, <2>3
<1> QED BY <1>5, <1>6

\* "A phone on which the purge is late matches the same as one on which it is not"
\* (matchReport.ts): for every history, report, time, retention and grid, evidence is the same
\* before and after the purge of that time.
THEOREM LatePurgeChangesNothing ==
  ASSUME NEW q \in Query, NEW p \in Params,
         NEW S \in SUBSET StayRow, NEW F \in SUBSET SampleRow
  PROVE  MatchReport(q, PurgedStays(S, Cutoff(p)), PurgedSamples(F, Cutoff(p)), p)
           = MatchReport(q, S, F, p)
<1> DEFINE b == MatchBounds(CoarsenCriteria(q, p), p)
<1>1. /\ b.from \in Int /\ b.to \in Int /\ b.cutoff \in Int /\ b.cutoff <= b.from
      /\ b.cutoff = Cutoff(p)
  BY BoundsType DEF MatchBounds
<1>2. \A V, W : MatchReport(q, V, W, p) = MatchWithin(q, b, p, V, W)
  BY DEF MatchReport, BoundsOf
<1> HIDE DEF b
<1>3. CASE ~ CanMatch(q, b, p)
  BY <1>2, <1>3 DEF MatchWithin
<1>4. CASE CanMatch(q, b, p)
  <2>1. b.from <= b.to
    BY <1>4 DEF CanMatch
  <2>2. StayEvidence(b, PurgedStays(S, Cutoff(p))) = StayEvidence(b, S)
    BY <1>1, <2>1, StayEvidenceAfterPurge
  <2>3. \A s \in F : b.from <= s.ts => s.ts >= Cutoff(p)
    BY <1>1 DEF SampleRow
  <2>4. SampleEvidence(b, PurgedSamples(F, Cutoff(p))) = SampleEvidence(b, F)
    BY <2>3 DEF SampleEvidence, PurgedSamples
  <2> QED BY <1>2, <2>2, <2>4 DEF MatchWithin
<1> QED BY <1>3, <1>4

----------------------------------------------------------------------------
(* The cover *)

\* A cover never leaves out a cell with a point within reach: by the triangle inequality.
LEMMA CoverHoldsThePoint ==
  ASSUME NEW centre \in Places, NEW place \in Places, NEW reach \in Nat, Metric[centre][place] <= reach
  PROVE  CellOf[place] \in CoverOf(centre, reach)
<1> DEFINE c == CellOf[place]
           m == CentreOf[c]
<1>1. c \in Cells /\ m \in Places /\ Circumradius[c] \in Nat
  BY CellsAssumption
<1>2. Metric[m][place] <= Circumradius[c]
  BY CellsAssumption
<1>3. /\ Metric[centre][m] \in Nat /\ Metric[centre][place] \in Nat /\ Metric[place][m] \in Nat
      /\ Metric[centre][m] <= Metric[centre][place] + Metric[place][m]
      /\ Metric[place][m] = Metric[m][place]
  BY <1>1, MetricAssumption
<1>4. Metric[centre][m] <= reach + Circumradius[c]
  BY <1>1, <1>2, <1>3
<1> QED BY <1>1, <1>4 DEF CoverOf

\* Reading only the fixes in the cells of the cover, as the match runner does, loses none that
\* is evidence: "a safe pre-filter for the matcher: the exact haversine test still decides"
\* (h3.ts), on the grid too.
LEMMA TheFilterLosesNothing ==
  ASSUME NEW q \in Query, NEW p \in Params, NEW F \in SUBSET SampleRow
  PROVE  LET b == BoundsOf(q, p)
             cells == SearchAreaCells(b.center, b.reach - p.radius, p.radius)
         IN SampleEvidence(b, ListSamplesInCells(F, cells, b.from, b.to)) = SampleEvidence(b, F)
<1> DEFINE b == BoundsOf(q, p)
           cells == SearchAreaCells(b.center, b.reach - p.radius, p.radius)
<1>1. b.center \in Places /\ b.reach \in Nat /\ p.radius \in Nat
  BY BoundsType DEF Params, BoundsOf
<1> HIDE DEF b
<1>2. cells = CoverOf(b.center, b.reach)
  <2>1. (b.reach - p.radius) + p.radius = b.reach
    BY <1>1
  <2> QED BY <2>1 DEF SearchAreaCells
<1>3. \A s \in F : Near(b, s.place) => CellOf[s.place] \in cells
  BY <1>1, <1>2, CoverHoldsThePoint DEF Near, SampleRow
<1> HIDE DEF cells
<1>4. SampleEvidence(b, ListSamplesInCells(F, cells, b.from, b.to)) = SampleEvidence(b, F)
  BY <1>3 DEF SampleEvidence, ListSamplesInCells
<1> QED BY <1>4 DEF b, cells

\* A first pass finds exactly the evidence the rule names, although it asks of the stays alone
\* first and then reads no fix outside the cover, and no stay again: "stays first, as the rule
\* has it" (match/runner.ts).
THEOREM RetrospectiveIsTheRule ==
  ASSUME NEW q \in Query, NEW p \in Params, NEW S \in SUBSET StayRow, NEW F \in SUBSET SampleRow
  PROVE  Retrospective(q, S, F, p) = MatchReport(q, S, F, p)
<1> DEFINE b == BoundsOf(q, p)
           cells == SearchAreaCells(b.center, b.reach - p.radius, p.radius)
           read == ListSamplesInCells(F, cells, b.from, b.to)
<1>1. SampleEvidence(b, read) = SampleEvidence(b, F)
  BY TheFilterLosesNothing
<1>2. StayEvidence(b, {}) = {} /\ SampleEvidence(b, {}) = {}
  BY DEF StayEvidence, SampleEvidence
<1>3. Retrospective(q, S, F, p) =
        IF MatchReport(q, S, {}, p) # {} THEN MatchReport(q, S, {}, p) ELSE MatchReport(q, {}, read, p)
  BY DEF Retrospective
<1> HIDE DEF b, read
<1>4. \A stays, samples : MatchReport(q, stays, samples, p) =
        IF CanMatch(q, b, p) THEN StaysFirst(StayEvidence(b, stays), SampleEvidence(b, samples)) ELSE {}
  BY DEF MatchReport, MatchWithin, b
<1> QED BY <1>1, <1>2, <1>3, <1>4 DEF StaysFirst

-----------------------------------------------------------------------------
(* Edits *)

\* The report's tips are as in Responses, whatever is edited: what is proved there holds here.
THEOREM EditsImplementResponses == EditsSpec => Spec
<1>1. EditsInit => Init
  BY DEF EditsInit
<1>2. [EditsNext]_reportEditVars => [Next]_vars
  BY DEF EditsNext, reportEditVars, TipStep, EditStep, ConfirmEdit, PatchReport, LearnsOfEdit,
         Refreshes, Next
<1> QED BY <1>1, <1>2, PTL DEF EditsSpec, Spec

----------------------------------------------------------------------------
\* Types; every edit expects a revision there was, and every answer is to an edit there was.
EditsTypeOK ==
  /\ revisions \in Seq(Criteria) /\ revisions # <<>>
  /\ \A edit \in edits : edit.patch \in Patches
  /\ phone.revision \in Nat
  /\ \A x \in answered : x.revision \in Nat

LEMMA ApplyType ==
  ASSUME NEW c \in Criteria, NEW patch \in Patches
  PROVE  ApplyReportPatch(c, patch) \in Criteria
BY EditsAssumption DEF ApplyReportPatch, Criteria

LEMMA EditsTypeInit == EditsInit => EditsTypeOK
BY EditsAssumption DEF EditsInit, EditsTypeOK

\* Only PatchReport touches the revisions, and then it appends at most one.
LEMMA RevisionsGrow ==
  ASSUME EditsTypeOK, [EditsNext]_reportEditVars
  PROVE  \/ revisions' = revisions
         \/ \E edit \in edits :
              /\ edit.expected = Len(revisions)
              /\ IsWideningEdit(Current, ApplyReportPatch(Current, edit.patch))
              /\ revisions' = Append(revisions, ApplyReportPatch(Current, edit.patch))
<1>1. CASE UNCHANGED revisions
  BY <1>1
<1>2. ASSUME NEW edit \in edits, PatchReport(edit)
      PROVE  \/ revisions' = revisions
             \/ /\ edit.expected = Len(revisions)
                /\ IsWideningEdit(Current, ApplyReportPatch(Current, edit.patch))
                /\ revisions' = Append(revisions, ApplyReportPatch(Current, edit.patch))
  BY <1>2, Zenon DEF PatchReport, Verdict
<1> QED
  BY <1>1, <1>2 DEF EditsNext, EditStep, reportEditVars, editVars, ConfirmEdit, LearnsOfEdit, Refreshes

LEMMA CurrentType == EditsTypeOK => Len(revisions) \in Nat \ {0} /\ Current \in Criteria
BY DEF EditsTypeOK, Current

LEMMA EditsTypeStep ==
  ASSUME EditsTypeOK, [EditsNext]_reportEditVars
  PROVE  EditsTypeOK'
<1>1. (\A edit \in edits : edit.patch \in Patches)'
  BY DEF EditsTypeOK, EditsNext, EditStep, reportEditVars, editVars, ConfirmEdit, PatchReport,
         LearnsOfEdit, Refreshes
<1>2. revisions' \in Seq(Criteria) /\ revisions' # <<>>
  <2>1. CASE revisions' = revisions
    BY <2>1 DEF EditsTypeOK
  <2>2. ASSUME NEW edit \in edits,
               revisions' = Append(revisions, ApplyReportPatch(Current, edit.patch))
        PROVE  revisions' \in Seq(Criteria) /\ revisions' # <<>>
    <3>1. ApplyReportPatch(Current, edit.patch) \in Criteria
      BY ApplyType, CurrentType DEF EditsTypeOK
    <3> QED BY <2>2, <3>1 DEF EditsTypeOK
  <2> QED BY <2>1, <2>2, RevisionsGrow
<1>3. (phone.revision \in Nat /\ \A x \in answered : x.revision \in Nat)'
  <2>1. Len(revisions) \in Nat /\ Len(revisions') \in Nat
    BY <1>2, CurrentType
  <2>2. CASE UNCHANGED <<phone, answered>>
    BY <2>2 DEF EditsTypeOK
  <2>3. ASSUME NEW edit \in edits, PatchReport(edit)
        PROVE  (phone.revision \in Nat /\ \A x \in answered : x.revision \in Nat)'
    BY <2>1, <2>3 DEF PatchReport, EditsTypeOK
  <2>4. ASSUME NEW x \in answered, LearnsOfEdit(x)
        PROVE  (phone.revision \in Nat /\ \A y \in answered : y.revision \in Nat)'
    BY <2>4 DEF LearnsOfEdit, ApplyServerReport, EditsTypeOK
  <2>5. CASE Refreshes
    BY <2>1, <2>5 DEF Refreshes, ApplyServerReport, EditsTypeOK
  <2> QED
    BY <2>2, <2>3, <2>4, <2>5 DEF EditsNext, EditStep, reportEditVars, editVars, ConfirmEdit
<1> QED BY <1>1, <1>2, <1>3 DEF EditsTypeOK

\* The report, the edits and the phone keep their types.
THEOREM EditsTypeCorrect == EditsSpec => []EditsTypeOK
BY EditsTypeInit, EditsTypeStep, PTL DEF EditsSpec

----------------------------------------------------------------------------
\* The strengthening: a later disc covers an earlier one, centre, radius and window, by the
\* triangle inequality and not only from one revision to the next.
Covers(b, a, slack) ==
  /\ b.from <= a.from /\ b.to >= a.to
  /\ Metric[a.center][b.center] + a.radius <= b.radius + slack

LaterCovers ==
  \A i, j \in 1 .. Len(revisions) :
    i < j => Covers(revisions[j], revisions[i], (j - i) * Tolerance)

LEMMA CoversChain ==
  ASSUME NEW a \in Criteria, NEW b \in Criteria, NEW c \in Criteria, NEW s \in Nat,
         Covers(b, a, s), Covers(c, b, Tolerance)
  PROVE  Covers(c, a, s + Tolerance)
<1>1. /\ a.center \in Places /\ b.center \in Places /\ c.center \in Places
      /\ a.radius \in Nat /\ b.radius \in Nat /\ c.radius \in Nat
      /\ {a.from, a.to, b.from, b.to, c.from, c.to} \subseteq Nat
  BY EditsAssumption DEF Criteria
<1>2. /\ Metric[a.center][c.center] \in Nat /\ Metric[a.center][b.center] \in Nat
      /\ Metric[b.center][c.center] \in Nat /\ Tolerance \in Nat
      /\ Metric[a.center][c.center] <= Metric[a.center][b.center] + Metric[b.center][c.center]
  BY <1>1, EditsAssumption, MetricAssumption
<1> QED BY <1>1, <1>2 DEF Covers

LEMMA LaterCoversStep ==
  ASSUME EditsTypeOK, LaterCovers, [EditsNext]_reportEditVars
  PROVE  LaterCovers'
<1>1. CASE revisions' = revisions
  BY <1>1 DEF LaterCovers, Covers
<1>2. ASSUME NEW edit \in edits,
             IsWideningEdit(Current, ApplyReportPatch(Current, edit.patch)),
             revisions' = Append(revisions, ApplyReportPatch(Current, edit.patch))
      PROVE  LaterCovers'
  <2> DEFINE n == Len(revisions)
             new == ApplyReportPatch(Current, edit.patch)
  <2>1. n \in Nat \ {0} /\ Current \in Criteria /\ new \in Criteria
    BY ApplyType, CurrentType DEF EditsTypeOK
  <2>2. Covers(new, Current, Tolerance)
    BY <1>2 DEF IsWideningEdit, Covers
  <2>3. /\ Len(revisions') = n + 1
        /\ revisions'[n + 1] = new
        /\ \A i \in 1 .. n : revisions'[i] = revisions[i] /\ revisions[i] \in Criteria
    BY <1>2, <2>1 DEF EditsTypeOK
  <2>4. ASSUME NEW i \in 1 .. n
        PROVE  Covers(new, revisions[i], ((n + 1) - i) * Tolerance)
    <3>1. (n - i) * Tolerance \in Nat /\ ((n + 1) - i) * Tolerance = (n - i) * Tolerance + Tolerance
      BY <2>1, EditsAssumption
    <3>2. CASE i = n
      BY <2>1, <2>2, <3>1, <3>2, EditsAssumption DEF Current
    <3>3. CASE i < n
      <4>1. Covers(Current, revisions[i], (n - i) * Tolerance)
        BY <2>1, <3>3 DEF LaterCovers, Current
      <4> QED BY <2>1, <2>2, <2>3, <3>1, <4>1, CoversChain
    <3> QED BY <2>1, <3>2, <3>3
  <2>5. SUFFICES ASSUME NEW i \in 1 .. n + 1, NEW j \in 1 .. n + 1, i < j
                 PROVE  Covers(revisions'[j], revisions'[i], (j - i) * Tolerance)
    BY <2>1, <2>3 DEF LaterCovers, Covers
  <2>6. CASE j = n + 1
    BY <2>1, <2>3, <2>4, <2>5, <2>6
  <2>7. CASE j # n + 1
    <3>1. i \in 1 .. n /\ j \in 1 .. n
      BY <2>1, <2>5, <2>7
    <3>2. Covers(revisions[j], revisions[i], (j - i) * Tolerance)
      BY <2>5, <3>1 DEF LaterCovers
    <3> QED BY <2>3, <3>1, <3>2
  <2> QED BY <2>6, <2>7
<1> QED BY <1>1, <1>2, RevisionsGrow

LEMMA CoversReaches ==
  ASSUME NEW a \in Criteria, NEW b \in Criteria, NEW s \in Nat, Covers(b, a, s),
         NEW place \in Places, NEW time \in Times, Reaches(a, place, time, 0)
  PROVE  Reaches(b, place, time, s)
<1>1. /\ a.center \in Places /\ b.center \in Places /\ a.radius \in Nat /\ b.radius \in Nat
      /\ {a.from, a.to, b.from, b.to, time} \subseteq Nat
  BY EditsAssumption DEF Criteria
<1>2. /\ Metric[b.center][place] \in Nat /\ Metric[b.center][a.center] \in Nat
      /\ Metric[a.center][place] \in Nat
      /\ Metric[b.center][place] <= Metric[b.center][a.center] + Metric[a.center][place]
      /\ Metric[b.center][a.center] = Metric[a.center][b.center]
  BY <1>1, MetricAssumption
<1> QED BY <1>1, <1>2 DEF Covers, Reaches

\* "No sequence of edits narrows anything": for every metric, every tolerance and any number of
\* edits, what a revision matches every later one matches, within the tolerance of each edit.
THEOREM NoSequenceOfEditsNarrows == EditsSpec => []EditsOnlyWiden
<1>1. EditsInit => LaterCovers
  BY DEF EditsInit, LaterCovers
<1>2. EditsTypeOK /\ LaterCovers => EditsOnlyWiden
  <2>1. SUFFICES ASSUME EditsTypeOK, LaterCovers, NEW i \in DOMAIN revisions,
                        NEW j \in DOMAIN revisions, i <= j, NEW place \in Places, NEW time \in Times,
                        Reaches(revisions[i], place, time, 0)
                 PROVE  Reaches(revisions[j], place, time, (j - i) * Tolerance)
    BY DEF EditsOnlyWiden
  <2>2. /\ i \in 1 .. Len(revisions) /\ j \in 1 .. Len(revisions) /\ Len(revisions) \in Nat
        /\ revisions[i] \in Criteria /\ revisions[j] \in Criteria
    BY <2>1 DEF EditsTypeOK
  <2>3. CASE i = j
    <3>1. (j - i) * Tolerance = 0
      BY <2>2, <2>3, EditsAssumption
    <3> QED BY <2>1, <2>3, <3>1
  <2>4. CASE i < j
    <3>1. (j - i) * Tolerance \in Nat
      BY <2>2, <2>4, EditsAssumption
    <3>2. Covers(revisions[j], revisions[i], (j - i) * Tolerance)
      BY <2>1, <2>2, <2>4 DEF LaterCovers
    <3> QED BY <2>1, <2>2, <3>1, <3>2, CoversReaches
  <2> QED BY <2>1, <2>2, <2>3, <2>4
<1> QED BY <1>1, <1>2, LaterCoversStep, EditsTypeInit, EditsTypeStep, PTL DEF EditsSpec

\* The radius the app takes for a moved pin is the one the server asks for, no less and no more:
\* minRadiusForCenterMove and isWideningEdit agree, for every metric and tolerance.
THEOREM MoveTakesTheLeastRadius ==
  ASSUME NEW previous \in Criteria, NEW next \in Criteria,
         next.from <= previous.from, next.to >= previous.to
  PROVE  IsWideningEdit(previous, next) <=>
           next.radius >= MinRadiusForCenterMove(previous, next.center)
<1>1. previous.center \in Places /\ next.center \in Places
      /\ previous.radius \in Nat /\ next.radius \in Nat
  BY DEF Criteria
<1>2. Metric[previous.center][next.center] \in Nat /\ Tolerance \in Nat
  BY <1>1, MetricAssumption, EditsAssumption
<1> QED BY <1>1, <1>2 DEF IsWideningEdit, MinRadiusForCenterMove

----------------------------------------------------------------------------
(* Edits and the grid *)

LEMMA GridType == MatchRadius \in Nat \ {0} /\ MatchWindow \in Nat \ {0}
BY EditsAssumption

LEMMA TimesAreInts == Times \subseteq Nat /\ \A t \in Times : t \in Int
BY EditsAssumption

LEMMA AcceptedType ==
  ASSUME NEW c \in Criteria
  PROVE  LET g == Accepted(c)
         IN /\ g.center = c.center
            /\ g.radius \in Int /\ g.radius >= c.radius + MatchRadius /\ g.radius < c.radius + 2 * MatchRadius
            /\ g.from = RoundDown(c.from, MatchWindow) - MatchWindow /\ g.from \in Int
            /\ g.to = RoundUp(c.to, MatchWindow) + MatchWindow /\ g.to \in Int
<1>1. /\ c.radius \in Int /\ c.from \in Int /\ c.to \in Int
      /\ MatchRadius \in Nat \ {0} /\ MatchWindow \in Nat \ {0}
  <2>1. c.radius \in Nat /\ c.from \in Times /\ c.to \in Times
    BY DEF Criteria
  <2>2. c.radius \in Int
    BY <2>1
  <2> QED BY <2>1, <2>2, GridType, TimesAreInts
<1>2. /\ RoundUp(c.radius, MatchRadius) \in Int
      /\ c.radius <= RoundUp(c.radius, MatchRadius) /\ RoundUp(c.radius, MatchRadius) < c.radius + MatchRadius
  BY <1>1, RoundUpType
<1>3. RoundDown(c.from, MatchWindow) \in Int /\ RoundUp(c.to, MatchWindow) \in Int
  <2>1. RoundDown(c.from, MatchWindow) \in Int
    BY <1>1, RoundDownType
  <2>2. RoundUp(c.to, MatchWindow) \in Int
    BY <1>1, RoundUpType
  <2> QED BY <2>1, <2>2
<1>4. /\ Accepted(c).center = c.center
      /\ Accepted(c).radius = RoundUp(c.radius, MatchRadius) + MatchRadius
      /\ Accepted(c).from = RoundDown(c.from, MatchWindow) - MatchWindow
      /\ Accepted(c).to = RoundUp(c.to, MatchWindow) + MatchWindow
  BY DEF Accepted, CoarsenCriteria
<1> QED BY <1>1, <1>2, <1>3, <1>4

\* The centre is not rounded and a radius by less than a step: what the disc as written covers,
\* the disc on the grid covers up to a step.
LEMMA CoversAccepted ==
  ASSUME NEW a \in Criteria, NEW b \in Criteria, NEW s \in Nat, Covers(b, a, s)
  PROVE  StillAccepts(Accepted(a), Accepted(b), (MatchRadius - 1) + s)
<1> DEFINE g == Accepted(a)
           h == Accepted(b)
<1>1. /\ a.center \in Places /\ b.center \in Places /\ a.radius \in Nat /\ b.radius \in Nat
      /\ {a.from, a.to, b.from, b.to} \subseteq Int
      /\ MatchRadius \in Nat \ {0} /\ MatchWindow \in Nat \ {0} /\ Times \subseteq Nat
  <2>1. /\ a.center \in Places /\ b.center \in Places /\ a.radius \in Nat /\ b.radius \in Nat
        /\ {a.from, a.to, b.from, b.to} \subseteq Times
    BY DEF Criteria
  <2> QED BY <2>1, GridType, TimesAreInts
<1>2. /\ g.center = a.center /\ h.center = b.center
      /\ g.radius \in Int /\ g.radius < a.radius + 2 * MatchRadius
      /\ h.radius \in Int /\ h.radius >= b.radius + MatchRadius
  <2>1. g.center = a.center /\ g.radius \in Int /\ g.radius < a.radius + 2 * MatchRadius
    BY AcceptedType
  <2>2. h.center = b.center /\ h.radius \in Int /\ h.radius >= b.radius + MatchRadius
    BY AcceptedType
  <2> QED BY <2>1, <2>2
<1>3. h.from <= g.from /\ g.from \in Int /\ h.from \in Int
  <2>1. b.from <= a.from
    BY DEF Covers
  <2>2. RoundDown(b.from, MatchWindow) <= RoundDown(a.from, MatchWindow)
    BY <1>1, <2>1, RoundDownMonotone
  <2>3. RoundDown(b.from, MatchWindow) \in Int /\ RoundDown(a.from, MatchWindow) \in Int
    BY <1>1, RoundDownType
  <2> HIDE DEF g, h
  <2>4. /\ g.from = RoundDown(a.from, MatchWindow) - MatchWindow
        /\ h.from = RoundDown(b.from, MatchWindow) - MatchWindow
    BY AcceptedType DEF g, h
  <2> QED BY <1>1, <2>2, <2>3, <2>4
<1>4. g.to <= h.to /\ g.to \in Int /\ h.to \in Int
  <2>1. a.to <= b.to
    BY <1>1 DEF Covers
  <2>2. RoundUp(a.to, MatchWindow) <= RoundUp(b.to, MatchWindow)
    BY <1>1, <2>1, RoundUpMonotone
  <2>3. RoundUp(b.to, MatchWindow) \in Int /\ RoundUp(a.to, MatchWindow) \in Int
    BY <1>1, RoundUpType
  <2> HIDE DEF g, h
  <2>4. /\ g.to = RoundUp(a.to, MatchWindow) + MatchWindow
        /\ h.to = RoundUp(b.to, MatchWindow) + MatchWindow
    BY AcceptedType DEF g, h
  <2> QED BY <1>1, <2>2, <2>3, <2>4
<1> HIDE DEF g, h
<1>5. SUFFICES ASSUME NEW place \in Places, NEW time \in Times, Reaches(g, place, time, 0)
               PROVE  Reaches(h, place, time, (MatchRadius - 1) + s)
  BY DEF StillAccepts, g, h
<1>6. /\ Metric[b.center][place] \in Nat /\ Metric[b.center][a.center] \in Nat
      /\ Metric[a.center][place] \in Nat
      /\ Metric[b.center][place] <= Metric[b.center][a.center] + Metric[a.center][place]
      /\ Metric[b.center][a.center] = Metric[a.center][b.center]
  BY <1>1, MetricAssumption
<1>7. Metric[a.center][b.center] + a.radius <= b.radius + s
  BY DEF Covers
<1>8. Metric[a.center][place] <= g.radius
  BY <1>2, <1>5 DEF Reaches
<1>9. Metric[b.center][place] <= h.radius + ((MatchRadius - 1) + s)
  BY <1>1, <1>2, <1>6, <1>7, <1>8
<1>10. h.from <= time /\ time <= h.to
  BY <1>1, <1>3, <1>4, <1>5 DEF Reaches
<1> QED BY <1>2, <1>9, <1>10 DEF Reaches

LEMMA LaterCoversKeepEvidence == EditsTypeOK /\ LaterCovers => EvidenceSurvivesEdits
<1>1. SUFFICES ASSUME EditsTypeOK, LaterCovers, NEW j \in DOMAIN revisions, NEW i \in 1 .. j - 1
               PROVE  StillAccepts(Accepted(revisions[i]), Accepted(revisions[j]),
                                   (MatchRadius - 1) + (j - i) * Tolerance)
  BY DEF EvidenceSurvivesEdits
<1>2. /\ i \in 1 .. Len(revisions) /\ j \in 1 .. Len(revisions) /\ i < j /\ Len(revisions) \in Nat
      /\ revisions[i] \in Criteria /\ revisions[j] \in Criteria
  BY <1>1 DEF EditsTypeOK
<1>3. (j - i) * Tolerance \in Nat
  BY <1>2, EditsAssumption
<1>4. Covers(revisions[j], revisions[i], (j - i) * Tolerance)
  BY <1>1, <1>2 DEF LaterCovers
<1> QED BY <1>2, <1>3, <1>4, CoversAccepted

\* For every metric, grid, tolerance and number of edits: what a revision accepts as evidence
\* every later one accepts, at the same time and, the tolerances aside, less than one step of
\* the grid further away. The step is spent once and not on every edit.
THEOREM EvidenceOutlivesEdits == EditsSpec => []EvidenceSurvivesEdits
<1>1. EditsInit => LaterCovers
  BY DEF EditsInit, LaterCovers
<1> QED BY <1>1, LaterCoversKeepEvidence, LaterCoversStep, EditsTypeInit, EditsTypeStep, PTL DEF EditsSpec

----------------------------------------------------------------------------
\* Whatever order the answers come in.
THEOREM PhoneKeepsTheNewest == EditsSpec => PhoneNeverGoesBack
<1>1. EditsTypeOK /\ [EditsNext]_reportEditVars => [phone'.revision >= phone.revision]_phone
  <2> SUFFICES ASSUME EditsTypeOK, [EditsNext]_reportEditVars, phone' # phone
               PROVE  phone'.revision >= phone.revision
    OBVIOUS
  <2>1. \/ \E x \in answered : LearnsOfEdit(x)
        \/ Refreshes
    BY DEF EditsNext, EditStep, reportEditVars, editVars, ConfirmEdit, PatchReport
  <2> QED BY <2>1, CurrentType DEF LearnsOfEdit, Refreshes, ApplyServerReport, EditsTypeOK
<1> QED BY <1>1, EditsTypeInit, EditsTypeStep, PTL DEF EditsSpec, PhoneNeverGoesBack

----------------------------------------------------------------------------
(* Responses *)

USE ResponsesAssumption

-----------------------------------------------------------------------------
(* Types *)

\* Where a fetch is, with the numbers given so far.
FetchState == {Idle} \cup [at : {"save", "cursor"}, tips : SUBSET Devices, cursor : 0..(nextSeq - 1)]

\* The part of the state TypeOK leaves open, and the finiteness of the table.
TypeInv ==
  /\ TypeOK
  /\ nextSeq \in Nat \ {0}
  /\ IsFiniteSet(rows)
  /\ fetching \in [Fetches -> FetchState]

Row == [seq : 1..(nextSeq - 1), device : Devices, moderation : {"delivered", "held"}]

(* The cursor a page ends with is the one it began with, or the number of a  *)
(* row of the page, and none of the page is beyond it.                       *)
LEMMA NextCursorIsLast ==
  ASSUME TypeInv, NEW after \in 0..(nextSeq - 1)
  PROVE  /\ NextCursor(after) \in 0..(nextSeq - 1)
         /\ NextCursor(after) >= after
         /\ NextCursor(after) = after \/ \E x \in Page(after) : NextCursor(after) = x.seq
<1> DEFINE S == {after} \cup {x.seq : x \in Page(after)}
<1>1. Page(after) \subseteq rows
  BY DEF Page, ListDelivered
<1>2. \A x \in rows : x.seq \in 0..(nextSeq - 1)
  BY DEF TypeInv, TypeOK
<1>3. S \subseteq 0..(nextSeq - 1)
  BY <1>1, <1>2
<1>4. IsFiniteSet(0..(nextSeq - 1))
  BY FS_Interval DEF TypeInv
<1>5. IsFiniteSet(S)
  BY <1>3, <1>4, FS_Subset
<1>6. S \in SUBSET Nat /\ S # {}
  BY <1>3
<1>7. NextCursor(after) = Max(S)
  BY DEF NextCursor
<1> HIDE DEF S
<1>8. Max(S) \in S /\ \A y \in S : y <= Max(S)
  BY <1>5, <1>6, MaxOfNaturals
<1> USE DEF S
<1>9. QED
  BY <1>3, <1>7, <1>8

LEMMA InitTypeInv == Init => TypeInv
<1>1. Init => TypeOK /\ nextSeq \in Nat \ {0} /\ fetching \in [Fetches -> FetchState]
  BY DEF Init, TypeOK, FetchState
<1>2. QED
  BY <1>1, FS_EmptySet DEF Init, TypeInv

(* Numbers are given to rows in the order of their insertion.                *)
LEMMA AddRow ==
  ASSUME TypeInv, NEW old \in SUBSET rows, NEW d \in Devices, NEW moderation \in {"delivered", "held"},
         rows' = old \cup {[seq |-> nextSeq, device |-> d, moderation |-> moderation]},
         nextSeq' = nextSeq + 1
  PROVE  /\ rows' \subseteq Row'
         /\ \A x, y \in rows' : x.seq = y.seq => x = y
         /\ IsFiniteSet(rows')
         /\ nextSeq' \in Nat \ {0}
         /\ FetchState \subseteq FetchState'
         /\ 0..(nextSeq - 1) \subseteq 0..(nextSeq' - 1)
<1> DEFINE new == [seq |-> nextSeq, device |-> d, moderation |-> moderation]
<1>1. nextSeq \in Nat \ {0} /\ rows \subseteq Row /\ \A x, y \in rows : x.seq = y.seq => x = y
  BY DEF TypeInv, TypeOK, Row
<1>2. old \subseteq Row' /\ new \in Row'
  BY <1>1 DEF Row
<1>3. \A x \in old : x.seq # new.seq
  BY <1>1 DEF Row
<1>4. IsFiniteSet(old)
  BY FS_Subset DEF TypeInv
<1>5. IsFiniteSet(rows')
  BY <1>4, FS_AddElement
<1>6. FetchState \subseteq FetchState' /\ 0..(nextSeq - 1) \subseteq 0..(nextSeq' - 1)
  BY <1>1 DEF FetchState
<1>7. QED
  BY <1>1, <1>2, <1>3, <1>5, <1>6

LEMMA PostTypeInv ==
  ASSUME TypeInv, NEW d \in Devices, NEW key \in Keys, Post(d, key)
  PROVE  TypeInv'
<1>0. MayInsert(d) \in BOOLEAN
  BY Zenon DEF MayInsert
<1>1. remembered' \subseteq [device : Devices, key : Keys, accepted : BOOLEAN]
  BY <1>0 DEF TypeInv, TypeOK, Post
<1>2. CASE UNCHANGED <<rows, nextSeq>>
  BY <1>1, <1>2 DEF TypeInv, TypeOK, FetchState, Post, reportVars, phoneVars
<1>3. ASSUME NEW moderation \in {"delivered", "held"}, Insert(d, moderation)
      PROVE  TypeInv'
  <2>1. /\ rows' \subseteq Row' /\ IsFiniteSet(rows') /\ nextSeq' \in Nat \ {0}
        /\ \A x, y \in rows' : x.seq = y.seq => x = y
        /\ FetchState \subseteq FetchState' /\ 0..(nextSeq - 1) \subseteq 0..(nextSeq' - 1)
    BY <1>3, AddRow DEF Insert
  <2>2. TypeOK'
    BY <1>1, <2>1 DEF TypeInv, TypeOK, Post, Row, reportVars, phoneVars
  <2>3. QED
    BY <2>1, <2>2 DEF TypeInv, Post, phoneVars
<1>4. QED
  BY <1>2, <1>3 DEF Post

LEMMA DecisionTypeInv ==
  ASSUME TypeInv, NEW d \in Devices, ReleaseHeldResponse(d) \/ RejectHeldResponse(d)
  PROVE  TypeInv'
<1>1. CASE ReleaseHeldResponse(d)
  <2>1. PICK row \in Undecided(d) : rows' = (rows \ {row}) \cup {Delivered(row)}
    BY <1>1 DEF ReleaseHeldResponse
  <2>2. row \in rows /\ row.device = d
    BY <2>1 DEF Undecided, RowOf
  <2>3. Delivered(row) = [seq |-> nextSeq, device |-> d, moderation |-> "delivered"]
    BY <2>2 DEF Delivered
  <2>4. rows' = (rows \ {row}) \cup {[seq |-> nextSeq, device |-> d, moderation |-> "delivered"]}
    BY <2>1, <2>3
  <2>5. nextSeq' = nextSeq + 1
    BY <1>1 DEF ReleaseHeldResponse
  <2>6. /\ rows' \subseteq Row' /\ IsFiniteSet(rows') /\ nextSeq' \in Nat \ {0}
        /\ \A x, y \in rows' : x.seq = y.seq => x = y
        /\ FetchState \subseteq FetchState' /\ 0..(nextSeq - 1) \subseteq 0..(nextSeq' - 1)
    BY <2>4, <2>5, AddRow
  <2>7. TypeOK'
    BY <1>1, <2>6 DEF TypeInv, TypeOK, ReleaseHeldResponse, Row, reportVars, phoneVars
  <2>8. QED
    BY <1>1, <2>6, <2>7 DEF TypeInv, ReleaseHeldResponse, phoneVars
<1>2. CASE RejectHeldResponse(d)
  BY <1>2 DEF TypeInv, TypeOK, FetchState, RejectHeldResponse, reportVars, phoneVars
<1>3. QED
  BY <1>1, <1>2

LEMMA FetchTypeInv ==
  ASSUME TypeInv, NEW f \in Fetches, FetchStep(f) \/ FetchStops(f)
  PROVE  TypeInv'
<1>1. /\ TypeOK /\ nextSeq \in Nat \ {0} /\ IsFiniteSet(rows) /\ fetching[f] \in FetchState
      /\ fetching \in [Fetches -> FetchState]
  BY DEF TypeInv
<1>2. CASE ListResponses(f)
  <2>1. NextCursor(cursor) \in 0..(nextSeq - 1)
    BY NextCursorIsLast DEF TypeInv, TypeOK
  <2>2. {x.device : x \in Page(cursor)} \subseteq Devices
    BY <1>1 DEF Page, ListDelivered, TypeOK
  <2>3. [at |-> "save", tips |-> {x.device : x \in Page(cursor)}, cursor |-> NextCursor(cursor)] \in FetchState
    BY <2>1, <2>2 DEF FetchState
  <2>4. fetching' \in [Fetches -> FetchState]
    BY <1>1, <1>2, <2>3 DEF ListResponses
  <2>5. QED
    BY <1>1, <1>2, <2>4 DEF ListResponses, TypeInv, TypeOK, FetchState, serverVars, reportVars
<1>3. CASE SaveReceivedResponses(f)
  <2>1. fetching[f] \in [at : {"save", "cursor"}, tips : SUBSET Devices, cursor : 0..(nextSeq - 1)]
    BY <1>1, <1>3 DEF SaveReceivedResponses, FetchState, Idle
  <2>2. [fetching[f] EXCEPT !.at = "cursor"] \in FetchState
    BY <2>1 DEF FetchState
  <2>3. fetching' \in [Fetches -> FetchState]
    BY <1>1, <1>3, <2>2 DEF SaveReceivedResponses
  <2>4. received' \subseteq Devices
    BY <1>1, <1>3, <2>1 DEF SaveReceivedResponses, TypeOK
  <2>5. QED
    BY <1>1, <1>3, <2>3, <2>4 DEF SaveReceivedResponses, TypeInv, TypeOK, FetchState, serverVars, reportVars
<1>4. CASE SetResponsesCursor(f)
  <2>1. fetching[f].cursor \in 0..(nextSeq - 1)
    BY <1>1, <1>4 DEF SetResponsesCursor, FetchState, Idle
  <2>2. fetching' \in [Fetches -> FetchState]
    BY <1>1, <1>4 DEF SetResponsesCursor, FetchState
  <2>3. QED
    BY <1>1, <1>4, <2>1, <2>2 DEF SetResponsesCursor, TypeInv, TypeOK, FetchState, serverVars, reportVars
<1>5. CASE FetchStops(f)
  <2>1. fetching' \in [Fetches -> FetchState]
    BY <1>1, <1>5 DEF FetchStops, FetchState
  <2>2. QED
    BY <1>1, <1>5, <2>1 DEF FetchStops, TypeInv, TypeOK, FetchState, serverVars, reportVars
<1>6. QED
  BY <1>2, <1>3, <1>4, <1>5 DEF FetchStep

LEMMA StepTypeInv == TypeInv /\ [Next]_vars => TypeInv'
<1> SUFFICES ASSUME TypeInv, [Next]_vars PROVE TypeInv'
  OBVIOUS
<1>1. ASSUME NEW verdict \in {"released", "rejected"}, Decide(verdict) PROVE TypeInv'
  BY <1>1 DEF Decide, TypeInv, TypeOK, FetchState, phoneVars
<1>2. ASSUME NEW how \in {"ended", "expired"}, Closes(how) PROVE TypeInv'
  BY <1>2 DEF Closes, TypeInv, TypeOK, FetchState, phoneVars
<1>3. CASE UNCHANGED vars
  BY <1>3 DEF vars, TypeInv, TypeOK, FetchState, serverVars, reportVars, phoneVars
<1>4. QED
  BY <1>1, <1>2, <1>3, PostTypeInv, DecisionTypeInv, FetchTypeInv DEF Next

LEMMA AlwaysTypeInv == Spec => []TypeInv
BY InitTypeInv, StepTypeInv, PTL DEF Spec

(* Every variable keeps its type, and no number is given to two responses    *)
(* (TypeOK): a cursor on it cuts the list in one place.                      *)
THEOREM TypeCorrect == Spec => []TypeOK
<1>1. TypeInv => TypeOK
  BY DEF TypeInv
<1>2. QED
  BY <1>1, AlwaysTypeInv, PTL

-----------------------------------------------------------------------------
(* One response per device *)

\* The rows of one device are one row, and the accepted requests are the rows.
TipInv ==
  /\ \A x, y \in rows : x.device = y.device => x = y
  /\ \A d \in Devices : RowOf(d) # {} <=> \E x \in remembered : x.device = d /\ x.accepted

LEMMA PostTipInv ==
  ASSUME TypeInv, TipInv, NEW d \in Devices, NEW key \in Keys, Post(d, key)
  PROVE  TipInv'
<1> DEFINE request == [device |-> d, key |-> key, accepted |-> MayInsert(d)]
<1>1. remembered' = remembered \cup {request} /\ request.device = d
  BY DEF Post
<1>0. request.accepted <=> MayInsert(d)
  BY Zenon
<1> HIDE DEF request
<1>2. CASE ~MayInsert(d) /\ UNCHANGED rows
  <2>1. \A e \in Devices : (\E x \in remembered' : x.device = e /\ x.accepted)
                             <=> (\E x \in remembered : x.device = e /\ x.accepted)
    BY <1>0, <1>1, <1>2, Zenon
  <2>2. QED
    BY <1>2, <2>1 DEF TipInv, RowOf
<1>3. ASSUME NEW moderation \in {"delivered", "held"}, MayInsert(d), Insert(d, moderation)
      PROVE  TipInv'
  <2> DEFINE new == [seq |-> nextSeq, device |-> d, moderation |-> moderation]
  <2>1. rows' = rows \cup {new} /\ new.device = d
    BY <1>3 DEF Insert
  <2>2. \A x \in rows : x.device # d
    BY <1>3 DEF MayInsert, RowOf
  <2>3. \A x, y \in rows' : x.device = y.device => x = y
    BY <2>1, <2>2 DEF TipInv
  <2>4. \A e \in Devices \ {d} : (\E x \in remembered' : x.device = e /\ x.accepted)
                                   <=> (\E x \in remembered : x.device = e /\ x.accepted)
    BY <1>1, Zenon
  <2>5. \E x \in remembered' : x.device = d /\ x.accepted
    BY <1>0, <1>1, <1>3, Zenon
  <2>6. \A e \in Devices : RowOf(e)' # {} <=> e = d \/ RowOf(e) # {}
    BY <2>1 DEF RowOf
  <2>7. \A e \in Devices : RowOf(e)' # {} <=> \E x \in remembered' : x.device = e /\ x.accepted
    BY <2>4, <2>5, <2>6, Zenon DEF TipInv
  <2>8. QED
    BY <2>3, <2>7 DEF TipInv
<1>4. QED
  BY <1>2, <1>3 DEF Post

LEMMA StepTipInv == TypeInv /\ TipInv /\ [Next]_vars => TipInv'
<1> SUFFICES ASSUME TypeInv, TipInv, [Next]_vars PROVE TipInv'
  OBVIOUS
<1>1. CASE UNCHANGED <<rows, remembered>>
  BY <1>1 DEF TipInv, RowOf
<1>2. ASSUME NEW d \in Devices, ReleaseHeldResponse(d) PROVE TipInv'
  <2>1. PICK row \in Undecided(d) : rows' = (rows \ {row}) \cup {Delivered(row)}
    BY <1>2 DEF ReleaseHeldResponse
  <2>2. row \in rows /\ Delivered(row).device = row.device
    BY <2>1 DEF Undecided, RowOf, Delivered
  <2>3. \A x, y \in rows' : x.device = y.device => x = y
    BY <2>1, <2>2 DEF TipInv
  <2>4. \A e \in Devices : RowOf(e)' # {} <=> RowOf(e) # {}
    BY <2>1, <2>2 DEF RowOf
  <2>5. UNCHANGED remembered
    BY <1>2 DEF ReleaseHeldResponse
  <2>6. QED
    BY <2>3, <2>4, <2>5 DEF TipInv
<1>3. ASSUME NEW f \in Fetches, FetchStep(f) \/ FetchStops(f) PROVE UNCHANGED <<rows, remembered>>
  BY <1>3 DEF FetchStep, FetchStops, ListResponses, SaveReceivedResponses, SetResponsesCursor, serverVars
<1>4. QED
  BY <1>1, <1>2, <1>3, PostTipInv
  DEF Next, vars, serverVars, Decide, Closes, RejectHeldResponse

LEMMA AlwaysTipInv == Spec => []TipInv
<1>1. Init => TipInv
  BY DEF Init, TipInv, RowOf
<1>2. QED
  BY <1>1, StepTipInv, AlwaysTypeInv, PTL DEF Spec

(* A device has at most one response to the report, and has one exactly when  *)
(* a request of it was accepted (OneTipEach): MayInsert looks at the held     *)
(* rows too, in the request that inserts.                                     *)
THEOREM OneResponsePerDevice == Spec => []OneTipEach
<1>1. TypeInv /\ TipInv => OneTipEach
  <2> SUFFICES ASSUME TypeInv, TipInv, NEW d \in Devices PROVE Cardinality(RowOf(d)) <= 1
    BY DEF TipInv, OneTipEach
  <2>1. CASE RowOf(d) = {}
    BY <2>1, FS_EmptySet
  <2>2. CASE RowOf(d) # {}
    <3>1. PICK x \in RowOf(d) : TRUE
      BY <2>2
    <3>2. RowOf(d) = {x}
      BY <3>1 DEF RowOf, TipInv
    <3>3. Cardinality({x}) = 1
      BY FS_Singleton, Zenon
    <3>4. QED
      BY <3>2, <3>3
  <2>3. QED
    BY <2>1, <2>2
<1>2. QED
  BY <1>1, AlwaysTypeInv, AlwaysTipInv, PTL

-----------------------------------------------------------------------------
(* What the reporter gets *)

IsDelivered(x) == x.moderation = "delivered"

(* A delivered row stays, and one that becomes delivered takes the next      *)
(* number, which no cursor has reached.                                      *)
LEMMA DeliveredRowsGrow ==
  ASSUME TypeInv, [Next]_vars
  PROVE  /\ \A x \in rows : IsDelivered(x) => x \in rows'
         /\ \A x \in rows' : IsDelivered(x) => x \in rows \/ x.seq = nextSeq
<1>1. CASE UNCHANGED rows
  BY <1>1
<1>2. ASSUME NEW d \in Devices, NEW key \in Keys, Post(d, key) PROVE rows' = rows \/
        \E moderation \in {"delivered", "held"} :
           rows' = rows \cup {[seq |-> nextSeq, device |-> d, moderation |-> moderation]}
  BY <1>2 DEF Post, Insert
<1>3. ASSUME NEW d \in Devices, NEW moderation \in {"delivered", "held"},
             rows' = rows \cup {[seq |-> nextSeq, device |-> d, moderation |-> moderation]}
      PROVE  /\ \A x \in rows : IsDelivered(x) => x \in rows'
             /\ \A x \in rows' : IsDelivered(x) => x \in rows \/ x.seq = nextSeq
  BY <1>3
<1>4. ASSUME NEW d \in Devices, ReleaseHeldResponse(d)
      PROVE  /\ \A x \in rows : IsDelivered(x) => x \in rows'
             /\ \A x \in rows' : IsDelivered(x) => x \in rows \/ x.seq = nextSeq
  <2>1. PICK row \in Undecided(d) : rows' = (rows \ {row}) \cup {Delivered(row)}
    BY <1>4 DEF ReleaseHeldResponse
  <2>2. ~IsDelivered(row) /\ Delivered(row).seq = nextSeq
    BY <2>1 DEF Undecided, Delivered, IsDelivered
  <2>3. QED
    BY <2>1, <2>2
<1>5. ASSUME NEW f \in Fetches, FetchStep(f) \/ FetchStops(f) PROVE UNCHANGED rows
  BY <1>5 DEF FetchStep, FetchStops, ListResponses, SaveReceivedResponses, SetResponsesCursor, serverVars
<1>6. QED
  BY <1>1, <1>2, <1>3, <1>4, <1>5 DEF Next, vars, serverVars, Decide, Closes, RejectHeldResponse

(* A step is the phone's or the server's.                                    *)
LEMMA PhoneOrServer ==
  ASSUME [Next]_vars
  PROVE  \/ UNCHANGED phoneVars
         \/ UNCHANGED serverVars /\ \E f \in Fetches : FetchStep(f) \/ FetchStops(f)
BY DEF Next, vars, Decide, Closes, Post, ReleaseHeldResponse, RejectHeldResponse,
       FetchStep, FetchStops, ListResponses, SaveReceivedResponses, SetResponsesCursor

\* Everything with a number up to n is in tips.
ReadUpTo(n, tips) == \A x \in rows : IsDelivered(x) /\ x.seq <= n => x.device \in tips

\* The cursor of the phone, and those its fetches carry, are behind nothing unread.
ReadInv ==
  /\ ReadUpTo(cursor, received)
  /\ \A f \in Fetches :
       /\ fetching[f].at = "save" => ReadUpTo(fetching[f].cursor, received \cup fetching[f].tips)
       /\ fetching[f].at = "cursor" => ReadUpTo(fetching[f].cursor, received)

LEMMA ReadUpToStays ==
  ASSUME TypeInv, [Next]_vars, NEW n \in 0..(nextSeq - 1), NEW tips, ReadUpTo(n, tips)
  PROVE  ReadUpTo(n, tips)'
<1>1. \A x \in rows' : IsDelivered(x) => x \in rows \/ x.seq = nextSeq
  BY DeliveredRowsGrow
<1>2. nextSeq \in Nat
  BY DEF TypeInv
<1>3. QED
  BY <1>1, <1>2 DEF ReadUpTo

(* A page is what the cursor it ends with makes of the list: every row       *)
(* between the two cursors is on it.                                         *)
LEMMA PageReachesItsCursor ==
  ASSUME TypeInv, NEW after \in 0..(nextSeq - 1), NEW x \in rows,
         IsDelivered(x), x.seq > after, x.seq <= NextCursor(after)
  PROVE  x \in Page(after)
<1> DEFINE Before(z) == {y \in ListDelivered(after) : y.seq < z.seq}
<1>1. x.seq \in Nat /\ x \in ListDelivered(after) /\ ListDelivered(after) \subseteq rows
  BY DEF TypeInv, TypeOK, ListDelivered, IsDelivered
<1>2. NextCursor(after) \in Nat /\ \E y \in Page(after) : NextCursor(after) = y.seq
  BY <1>1, NextCursorIsLast
<1>3. PICK y \in Page(after) : NextCursor(after) = y.seq
  BY <1>2
<1>4. y \in ListDelivered(after) /\ Cardinality(Before(y)) < PageSize
  BY <1>3 DEF Page
<1>5. Before(x) \in SUBSET Before(y)
  <2>1. \A z \in rows : z.seq \in Nat
    BY DEF TypeInv, TypeOK
  <2>2. QED
    BY <1>1, <1>3, <1>4, <2>1
<1>6. IsFiniteSet(Before(y))
  <2>1. Before(y) \in SUBSET rows
    BY <1>1
  <2>2. QED
    BY <2>1, FS_Subset DEF TypeInv
<1>7. Cardinality(Before(x)) <= Cardinality(Before(y))
  BY <1>5, <1>6, FS_Subset
<1>8. Cardinality(Before(x)) \in Nat /\ Cardinality(Before(y)) \in Nat
  BY <1>5, <1>6, FS_Subset, FS_CardinalityType
<1>9. Cardinality(Before(x)) < PageSize
  BY <1>4, <1>7, <1>8
<1>10. QED
  BY <1>1, <1>9 DEF Page

LEMMA FetchReadInv ==
  ASSUME TypeInv, ReadInv, NEW f \in Fetches, FetchStep(f) \/ FetchStops(f)
  PROVE  ReadInv'
<1>1. UNCHANGED rows
  BY DEF FetchStep, FetchStops, ListResponses, SaveReceivedResponses, SetResponsesCursor, serverVars
<1>2. fetching \in [Fetches -> FetchState]
  BY DEF TypeInv
<1>3. CASE ListResponses(f)
  <2> DEFINE page == {x.device : x \in Page(cursor)}
  <2>1. ReadUpTo(NextCursor(cursor), received \cup page)
    <3>1. cursor \in 0..(nextSeq - 1)
      BY DEF TypeInv, TypeOK
    <3>2. \A x \in rows : IsDelivered(x) /\ x.seq <= NextCursor(cursor) => x.seq <= cursor \/ x \in Page(cursor)
      <4>1. \A x \in rows : x.seq \in Nat
        BY DEF TypeInv, TypeOK
      <4>2. QED
        BY <3>1, <4>1, PageReachesItsCursor
    <3>3. QED
      BY <3>2 DEF ReadInv, ReadUpTo
  <2>2. fetching' = [fetching EXCEPT ![f] = [at |-> "save", tips |-> page, cursor |-> NextCursor(cursor)]]
    BY <1>3 DEF ListResponses
  <2>3. fetching'[f].at = "save" /\ fetching'[f].tips = page /\ fetching'[f].cursor = NextCursor(cursor)
    BY <1>2, <2>2
  <2>4. \A g \in Fetches \ {f} : fetching'[g] = fetching[g]
    BY <1>2, <2>2
  <2>5. UNCHANGED <<received, cursor>>
    BY <1>3 DEF ListResponses
  <2> HIDE DEF page
  <2>6. QED
    BY <1>1, <2>1, <2>3, <2>4, <2>5 DEF ReadInv, ReadUpTo
<1>4. CASE SaveReceivedResponses(f)
  <2>1. /\ fetching[f].at = "save" /\ received' = received \cup fetching[f].tips
        /\ UNCHANGED cursor
    BY <1>4 DEF SaveReceivedResponses
  <2>2. fetching'[f].at = "cursor" /\ fetching'[f].cursor = fetching[f].cursor
    BY <1>2, <1>4 DEF SaveReceivedResponses, FetchState, Idle
  <2>3. \A g \in Fetches \ {f} : fetching'[g] = fetching[g]
    BY <1>2, <1>4 DEF SaveReceivedResponses
  <2>4. QED
    BY <1>1, <2>1, <2>2, <2>3 DEF ReadInv, ReadUpTo
<1>5. CASE SetResponsesCursor(f)
  <2>1. fetching[f].at = "cursor" /\ cursor' = fetching[f].cursor /\ UNCHANGED received
    BY <1>5 DEF SetResponsesCursor
  <2>2. fetching'[f].at = "idle" /\ \A g \in Fetches \ {f} : fetching'[g] = fetching[g]
    BY <1>2, <1>5 DEF SetResponsesCursor, Idle
  <2>3. QED
    BY <1>1, <2>1, <2>2 DEF ReadInv, ReadUpTo
<1>6. CASE FetchStops(f)
  <2>1. UNCHANGED <<received, cursor>>
    BY <1>6 DEF FetchStops
  <2>2. fetching'[f].at = "idle" /\ \A g \in Fetches \ {f} : fetching'[g] = fetching[g]
    BY <1>2, <1>6 DEF FetchStops, Idle
  <2>3. QED
    BY <1>1, <2>1, <2>2 DEF ReadInv, ReadUpTo
<1>7. QED
  BY <1>3, <1>4, <1>5, <1>6 DEF FetchStep

LEMMA StepReadInv == TypeInv /\ ReadInv /\ [Next]_vars => ReadInv'
<1> SUFFICES ASSUME TypeInv, ReadInv, [Next]_vars PROVE ReadInv'
  OBVIOUS
<1>1. CASE UNCHANGED phoneVars
  <2>1. cursor \in 0..(nextSeq - 1)
    BY DEF TypeInv, TypeOK
  <2>2. \A f \in Fetches : fetching[f].at \in {"save", "cursor"} => fetching[f].cursor \in 0..(nextSeq - 1)
    BY DEF TypeInv, FetchState, Idle
  <2>3. \A n \in 0..(nextSeq - 1) : \A tips : ReadUpTo(n, tips) => \A x \in rows' : IsDelivered(x) /\ x.seq <= n => x.device \in tips
    BY ReadUpToStays DEF ReadUpTo
  <2>4. UNCHANGED <<received, cursor, fetching>>
    BY <1>1 DEF phoneVars
  <2>5. QED
    BY <2>1, <2>2, <2>3, <2>4 DEF ReadInv, ReadUpTo
<1>2. QED
  BY <1>1, PhoneOrServer, FetchReadInv

LEMMA AlwaysReadInv == Spec => []ReadInv
<1>1. Init => ReadInv
  BY DEF Init, ReadInv, ReadUpTo, Idle
<1>2. QED
  BY <1>1, StepReadInv, AlwaysTypeInv, PTL DEF Spec

(* A delivered response is never behind the cursor of a reporter who has not *)
(* got it (NothingSkipped), for every page size and any number of fetches.   *)
THEOREM NothingIsSkipped == Spec => []NothingSkipped
<1>1. ReadInv => NothingSkipped
  BY DEF ReadInv, ReadUpTo, IsDelivered, NothingSkipped
<1>2. QED
  BY <1>1, AlwaysReadInv, PTL

\* Decisions are on responses there are, and what was rejected is not delivered.
DecisionInv ==
  /\ \A d \in Devices : reviews[d] # "none" => RowOf(d) # {}
  /\ \A x \in rows : IsDelivered(x) => reviews[x.device] # "rejected"

LEMMA StepDecisionInv == TypeInv /\ TipInv /\ DecisionInv /\ [Next]_vars => DecisionInv'
<1> SUFFICES ASSUME TypeInv, TipInv, DecisionInv, [Next]_vars PROVE DecisionInv'
  OBVIOUS
<1>1. reviews \in [Devices -> {"none", "released", "rejected"}] /\ \A x \in rows : x.device \in Devices
  BY DEF TypeInv, TypeOK
<1>2. CASE UNCHANGED <<rows, reviews>>
  BY <1>2 DEF DecisionInv, RowOf
<1>3. ASSUME NEW d \in Devices, NEW moderation \in {"delivered", "held"},
             MayInsert(d), Insert(d, moderation), UNCHANGED reviews
      PROVE  DecisionInv'
  <2>1. RowOf(d) = {} /\ reviews[d] = "none"
    BY <1>1, <1>3 DEF MayInsert, DecisionInv
  <2>2. QED
    BY <1>1, <1>3, <2>1 DEF DecisionInv, Insert, RowOf, IsDelivered
<1>4. ASSUME NEW d \in Devices, ReleaseHeldResponse(d) PROVE DecisionInv'
  <2>1. PICK row \in Undecided(d) : rows' = (rows \ {row}) \cup {Delivered(row)}
    BY <1>4 DEF ReleaseHeldResponse
  <2>2. row \in rows /\ row.device = d /\ Delivered(row).device = d
    BY <2>1 DEF Undecided, RowOf, Delivered
  <2>3. reviews' = [reviews EXCEPT ![d] = "released"]
    BY <1>4 DEF ReleaseHeldResponse
  <2>4. \A e \in Devices : RowOf(e)' # {} <=> RowOf(e) # {}
    BY <2>1, <2>2 DEF RowOf
  <2>5. RowOf(d) # {}
    BY <2>2 DEF RowOf
  <2>6. \A x \in rows' : IsDelivered(x) => reviews'[x.device] # "rejected"
    BY <1>1, <2>1, <2>2, <2>3 DEF DecisionInv
  <2>7. QED
    BY <1>1, <2>3, <2>4, <2>5, <2>6 DEF DecisionInv
<1>5. ASSUME NEW d \in Devices, RejectHeldResponse(d) PROVE DecisionInv'
  <2>1. PICK row \in Undecided(d) : TRUE
    BY <1>5 DEF RejectHeldResponse
  <2>2. row \in RowOf(d) /\ ~IsDelivered(row)
    BY <2>1 DEF Undecided, IsDelivered
  <2>3. \A x \in rows : x.device = d => ~IsDelivered(x)
    BY <2>2 DEF TipInv, RowOf
  <2>4. UNCHANGED rows /\ reviews' = [reviews EXCEPT ![d] = "rejected"]
    BY <1>5 DEF RejectHeldResponse
  <2>5. QED
    BY <1>1, <2>2, <2>3, <2>4 DEF DecisionInv, RowOf
<1>6. ASSUME NEW f \in Fetches, FetchStep(f) \/ FetchStops(f) PROVE UNCHANGED <<rows, reviews>>
  BY <1>6 DEF FetchStep, FetchStops, ListResponses, SaveReceivedResponses, SetResponsesCursor, serverVars
<1>7. QED
  BY <1>2, <1>3, <1>4, <1>5, <1>6 DEF Next, vars, serverVars, Decide, Closes, Post

\* What is on the phone, or on its way there, is delivered.
PhoneInv ==
  \A d \in received \cup UNION {fetching[f].tips : f \in {g \in Fetches : fetching[g].at # "idle"}} :
    \E x \in rows : x.device = d /\ IsDelivered(x)

LEMMA StepPhoneInv == TypeInv /\ PhoneInv /\ [Next]_vars => PhoneInv'
<1> SUFFICES ASSUME TypeInv, PhoneInv, [Next]_vars PROVE PhoneInv'
  OBVIOUS
<1>1. CASE UNCHANGED phoneVars
  <2>1. \A x \in rows : IsDelivered(x) => x \in rows'
    BY DeliveredRowsGrow
  <2>2. UNCHANGED <<received, fetching>>
    BY <1>1 DEF phoneVars
  <2>3. QED
    BY <2>1, <2>2 DEF PhoneInv
<1>2. ASSUME UNCHANGED rows, NEW f \in Fetches, FetchStep(f) \/ FetchStops(f) PROVE PhoneInv'
  <2>1. fetching \in [Fetches -> FetchState]
    BY DEF TypeInv
  <2>2. CASE ListResponses(f)
    <3> DEFINE page == {x.device : x \in Page(cursor)}
    <3>1. fetching'[f].tips = page /\ \A g \in Fetches \ {f} : fetching'[g] = fetching[g]
      BY <2>1, <2>2 DEF ListResponses
    <3>2. \A d \in page : \E x \in rows : x.device = d /\ IsDelivered(x)
      BY DEF Page, ListDelivered, IsDelivered
    <3>3. UNCHANGED received
      BY <2>2 DEF ListResponses
    <3> HIDE DEF page
    <3>4. QED
      BY <1>2, <3>1, <3>2, <3>3 DEF PhoneInv
  <2>3. CASE SaveReceivedResponses(f)
    <3>1. fetching[f].at # "idle" /\ received' = received \cup fetching[f].tips
      BY <2>3 DEF SaveReceivedResponses
    <3>2. fetching'[f].tips = fetching[f].tips /\ \A g \in Fetches \ {f} : fetching'[g] = fetching[g]
      BY <2>1, <2>3 DEF SaveReceivedResponses, FetchState, Idle
    <3>3. QED
      BY <1>2, <3>1, <3>2 DEF PhoneInv
  <2>4. CASE SetResponsesCursor(f) \/ FetchStops(f)
    <3>1. UNCHANGED received
      BY <2>4 DEF SetResponsesCursor, FetchStops
    <3>2. fetching'[f].at = "idle" /\ \A g \in Fetches \ {f} : fetching'[g] = fetching[g]
      BY <2>1, <2>4 DEF SetResponsesCursor, FetchStops, Idle
    <3>3. QED
      BY <1>2, <3>1, <3>2 DEF PhoneInv
  <2>5. QED
    BY <1>2, <2>2, <2>3, <2>4 DEF FetchStep
<1>3. QED
  BY <1>1, <1>2, PhoneOrServer DEF serverVars

(* What is held, and what the operator rejected, never reaches the reporter  *)
(* (HeldIsNeverRead): a page lists delivered rows, a delivered row stays one, *)
(* and only an undecided held response can be rejected.                      *)
THEOREM HeldNeverReachesTheReporter == Spec => []HeldIsNeverRead
<1>1. Init => DecisionInv /\ PhoneInv
  BY DEF Init, DecisionInv, PhoneInv, Idle
<1>2. TypeInv /\ TipInv /\ DecisionInv /\ PhoneInv => HeldIsNeverRead
  <2> SUFFICES ASSUME TypeInv, TipInv, DecisionInv, PhoneInv,
                      NEW d \in received, NEW x \in RowOf(d)
               PROVE  x.moderation = "delivered" /\ reviews[d] # "rejected"
    BY DEF HeldIsNeverRead
  <2>1. PICK y \in rows : y.device = d /\ IsDelivered(y)
    BY DEF PhoneInv
  <2>2. x = y
    BY <2>1 DEF TipInv, RowOf
  <2>3. QED
    BY <2>1, <2>2 DEF DecisionInv, IsDelivered
<1>3. QED
  BY <1>1, <1>2, StepDecisionInv, StepPhoneInv, AlwaysTypeInv, AlwaysTipInv, PTL DEF Spec

(* The operator's decision on a response is final (DecisionIsFinal): both    *)
(* decisions are taken on a held response without one.                       *)
THEOREM DecisionsAreFinal == Spec => DecisionIsFinal
<1>1. TypeInv /\ [Next]_vars =>
        [\A d \in Devices : reviews[d] # "none" => reviews'[d] = reviews[d]]_reviews
  <2> SUFFICES ASSUME TypeInv, [Next]_vars, NEW d \in Devices, reviews[d] # "none"
               PROVE  reviews'[d] = reviews[d]
    OBVIOUS
  <2>1. reviews \in [Devices -> {"none", "released", "rejected"}]
    BY DEF TypeInv, TypeOK
  <2>2. ASSUME NEW e \in Devices, ReleaseHeldResponse(e) \/ RejectHeldResponse(e)
        PROVE  reviews'[d] = reviews[d]
    <3>1. reviews[e] = "none"
      BY <2>2 DEF ReleaseHeldResponse, RejectHeldResponse, Undecided
    <3>2. QED
      BY <2>1, <2>2, <3>1 DEF ReleaseHeldResponse, RejectHeldResponse
  <2>3. ASSUME NEW f \in Fetches, FetchStep(f) \/ FetchStops(f) PROVE UNCHANGED reviews
    BY <2>3 DEF FetchStep, FetchStops, ListResponses, SaveReceivedResponses, SetResponsesCursor, serverVars
  <2>4. QED
    BY <2>2, <2>3 DEF Next, vars, serverVars, Decide, Closes, Post
<1>2. QED
  BY <1>1, AlwaysTypeInv, PTL DEF Spec, DecisionIsFinal

----------------------------------------------------------------------------
(* The journey: what holds of the responses and of the edits holds on it     *)

USE JourneyAssumption

LEMMA PageStepIsOne == PageStep => [Next]_vars
<1> SUFFICES ASSUME PageStep PROVE [Next]_vars
  OBVIOUS
<1>1. CASE SessionRunsOut
  BY <1>1 DEF SessionRunsOut
<1>2. ASSUME NEW t \in Tabs,
             SignIn(t) \/ SignOut(t) \/ TurnedAway(t) \/ LoadsDashboard(t) \/ Reloads(t)
      PROVE  UNCHANGED vars
  BY <1>2 DEF SignIn, SignOut, TurnedAway, LoadsDashboard, Reloads
<1>3. ASSUME NEW t \in Tabs, NEW verdict \in {"released", "rejected"}, PressesReport(t, verdict)
      PROVE  [Next]_vars
  BY <1>3 DEF PressesReport, Next
<1>4. ASSUME NEW t \in Tabs, NEW verdict \in {"released", "rejected"}, NEW d \in Devices,
             PressesResponse(t, d, verdict)
      PROVE  [Next]_vars
  BY <1>4 DEF PressesResponse, DecideHeldResponse, Next
<1> QED BY <1>1, <1>2, <1>3, <1>4 DEF PageStep

LEMMA SendStepIsOne ==
  ASSUME NEW d \in Devices, SendStep(d)
  PROVE  [Next]_vars
<1>1. CASE \E key \in Keys : RequestArrives(d, key)
  BY <1>1 DEF RequestArrives, Next
<1>2. CASE UNCHANGED vars
  BY <1>2
<1> QED BY <1>1, <1>2 DEF SendStep, EnqueueResponse, MarkResponseSending, MarkResponseRetry,
           NextAttemptComes, MarkResponseSent, MarkResponseFailed, SenderDies,
           RequeueInterruptedResponses, Ages, DeleteFinishedResponses

LEMMA AroundIsOne == Around => [Next]_vars
BY DEF Around, Next

LEMMA OneKeyIsOne ==
  ASSUME NEW d \in Devices, Post(d, OneKey)
  PROVE  Next
<1>1. OneKey \in Keys
  BY DEF OneKey
<1> QED BY <1>1 DEF Next

LEMMA JourneyStepIsOne == [JourneyNext]_journeyVars => [Next]_vars
<1> SUFFICES ASSUME [JourneyNext]_journeyVars PROVE [Next]_vars
  OBVIOUS
<1>1. CASE EditsNext
  <2>1. CASE mode = "edits" /\ EditStep
    BY <2>1 DEF EditStep, ConfirmEdit, PatchReport, LearnsOfEdit, Refreshes
  <2>2. CASE TipStep
    BY <2>2 DEF TipStep, Next
  <2>3. ASSUME NEW verdict \in {"released", "rejected"}, Decide(verdict) PROVE Next
    BY <2>3 DEF Next
  <2>4. ASSUME NEW how \in {"ended", "expired"}, Closes(how) PROVE Next
    BY <2>4 DEF Next
  <2> QED BY <1>1, <2>1, <2>2, <2>3, <2>4 DEF EditsNext
<1>2. CASE Sends
  BY <1>2, SendStepIsOne, AroundIsOne DEF Sends
<1>3. CASE Pages
  <2>1. ASSUME NEW d \in Senders, Post(d, OneKey) PROVE Next
    BY <2>1, OneKeyIsOne
  <2> QED BY <1>3, <2>1, PageStepIsOne, AroundIsOne DEF Pages
<1>4. CASE UNCHANGED journeyVars
  BY <1>4 DEF journeyVars, reportEditVars
<1> QED BY <1>1, <1>2, <1>3, <1>4 DEF JourneyNext

(* With edits, a queue that sends the tips and a page that decides them, the *)
(* responses are still those of module Responses: every step is one of its   *)
(* steps, or none.                                                           *)
THEOREM JourneyImplementsResponses == JourneySpec => Spec
<1>1. JourneyInit => Init
  BY DEF JourneyInit, EditsInit
<1> QED BY <1>1, JourneyStepIsOne, PTL DEF JourneySpec, Spec

(* So one tip a device, none skipped and none read that is held, whoever     *)
(* sends and whichever tab decides.                                          *)
THEOREM JourneyKeepsTheTips == JourneySpec => [](OneTipEach /\ NothingSkipped /\ HeldIsNeverRead)
BY JourneyImplementsResponses, OneResponsePerDevice, NothingIsSkipped, HeldNeverReachesTheReporter, PTL

(* And nothing outside the edits touches the criteria.                       *)
LEMMA JourneyEditsOrNot ==
  ASSUME [JourneyNext]_journeyVars
  PROVE  [EditsNext]_reportEditVars \/ UNCHANGED editVars
BY DEF JourneyNext, Sends, Pages, journeyVars

THEOREM JourneyKeepsTheEvidence == JourneySpec => []EvidenceSurvivesEdits
<1>1. JourneyInit => EditsTypeOK /\ LaterCovers
  BY EditsTypeInit DEF JourneyInit, EditsInit, LaterCovers
<1>2. EditsTypeOK /\ LaterCovers /\ [JourneyNext]_journeyVars => (EditsTypeOK /\ LaterCovers)'
  <2> SUFFICES ASSUME EditsTypeOK, LaterCovers, [JourneyNext]_journeyVars
               PROVE  (EditsTypeOK /\ LaterCovers)'
    OBVIOUS
  <2>1. CASE [EditsNext]_reportEditVars
    BY <2>1, EditsTypeStep, LaterCoversStep
  <2>2. CASE UNCHANGED editVars
    BY <2>2 DEF editVars, EditsTypeOK, LaterCovers, Covers
  <2> QED BY <2>1, <2>2, JourneyEditsOrNot
<1> QED BY <1>1, <1>2, LaterCoversKeepEvidence, PTL DEF JourneySpec

----------------------------------------------------------------------------
(* What the sender says of its tip                                           *)

Tip == [state : States, key : Keys, due : BOOLEAN, createdAged : BOOLEAN, sentAged : BOOLEAN]

\* The request under the tip's key was answered, and so.
AnsweredAs(tip, d, accepted) ==
  \E x \in remembered : x.device = d /\ x.key = tip.key /\ x.accepted = accepted

TipTrue(tip, d) ==
  /\ tip.state = "sent" => AnsweredAs(tip, d, TRUE)
  /\ tip.state = "failed" => AnsweredAs(tip, d, FALSE)

\* A key is answered once; a tip that is settled was answered so.
SenderInv ==
  /\ \A x, y \in remembered : x.device = y.device /\ x.key = y.key => x = y
  /\ outbound \in [Devices -> {NoTip} \cup Tip]
  /\ \A d \in Devices : TipTrue(outbound[d], d)

LEMMA AnswersStay ==
  ASSUME [Next]_vars, \A x, y \in remembered : x.device = y.device /\ x.key = y.key => x = y
  PROVE  /\ remembered \subseteq remembered'
         /\ \A x, y \in remembered' : x.device = y.device /\ x.key = y.key => x = y
<1>1. ASSUME NEW d \in Devices, NEW key \in Keys, Post(d, key)
      PROVE  /\ remembered \subseteq remembered'
             /\ \A x, y \in remembered' : x.device = y.device /\ x.key = y.key => x = y
  <2> DEFINE new == [device |-> d, key |-> key, accepted |-> MayInsert(d)]
  <2>1. /\ remembered' = remembered \cup {new} /\ new.device = d /\ new.key = key
        /\ \A x \in remembered : ~(x.device = d /\ x.key = key)
    BY <1>1 DEF Post
  <2> HIDE DEF new
  <2> QED BY <2>1
<1>2. CASE UNCHANGED remembered
  BY <1>2
<1>3. ASSUME NEW f \in Fetches, FetchStep(f) \/ FetchStops(f) PROVE UNCHANGED remembered
  BY <1>3 DEF FetchStep, FetchStops, ListResponses, SaveReceivedResponses, SetResponsesCursor, serverVars
<1> QED BY <1>1, <1>2, <1>3 DEF Next, vars, serverVars, Decide, Closes, ReleaseHeldResponse, RejectHeldResponse

LEMMA TipStaysTrue ==
  ASSUME NEW tip, NEW d, TipTrue(tip, d), remembered \subseteq remembered'
  PROVE  TipTrue(tip, d)'
BY DEF TipTrue, AnsweredAs

(* What a step of the sender makes of its tip.                               *)
LEMMA SenderStep ==
  ASSUME SenderInv, NEW d \in Devices, SendStep(d)
  PROVE  \E tip \in {NoTip} \cup Tip : TipTrue(tip, d) /\ outbound' = [outbound EXCEPT ![d] = tip]
<1> DEFINE Goal == \E tip \in {NoTip} \cup Tip : TipTrue(tip, d) /\ outbound' = [outbound EXCEPT ![d] = tip]
<1>0. /\ outbound[d] \in {NoTip} \cup Tip /\ TipTrue(outbound[d], d)
      /\ outbound = [outbound EXCEPT ![d] = outbound[d]]
  BY DEF SenderInv
<1>1. CASE UNCHANGED outbound
  BY <1>0, <1>1
<1>2. CASE EnqueueResponse(d)
  <2>1. PICK key \in Keys : outbound' = [outbound EXCEPT ![d] =
            [state |-> "queued", key |-> key, due |-> TRUE, createdAged |-> FALSE, sentAged |-> FALSE]]
    BY <1>2 DEF EnqueueResponse
  <2>2. PICK tip : tip = [state |-> "queued", key |-> key, due |-> TRUE, createdAged |-> FALSE, sentAged |-> FALSE]
    OBVIOUS
  <2>3. tip \in Tip /\ TipTrue(tip, d)
    BY <2>2 DEF Tip, States, TipTrue
  <2> QED BY <2>1, <2>2, <2>3
<1>3. CASE MarkResponseSending(d)
  <2>1. outbound[d] \in Tip
    BY <1>0, <1>3 DEF MarkResponseSending, IsDue, NoTip
  <2>2. PICK tip : tip = [outbound[d] EXCEPT !.state = "sending"]
    OBVIOUS
  <2>3. tip \in Tip /\ TipTrue(tip, d)
    BY <2>1, <2>2 DEF Tip, States, TipTrue
  <2> QED BY <1>3, <2>2, <2>3 DEF MarkResponseSending, SetState
<1>4. ASSUME NEW due \in BOOLEAN, outbound[d].state = "sending",
             outbound' = [outbound EXCEPT ![d].state = "queued", ![d].due = due]
      PROVE  Goal
  <2>1. outbound[d] \in Tip
    BY <1>0, <1>4 DEF NoTip
  <2>2. PICK tip : tip = [outbound[d] EXCEPT !.state = "queued", !.due = due]
    OBVIOUS
  <2>3. tip \in Tip /\ TipTrue(tip, d)
    BY <2>1, <2>2 DEF Tip, States, TipTrue
  <2> QED BY <1>4, <2>2, <2>3
<1>5. CASE MarkResponseRetry(d)
  BY <1>4, <1>5 DEF MarkResponseRetry
<1>6. CASE RequeueInterruptedResponses(d)
  BY <1>4, <1>6 DEF RequeueInterruptedResponses
<1>7. CASE NextAttemptComes(d)
  <2>1. outbound[d] \in Tip
    BY <1>0, <1>7 DEF NextAttemptComes, NoTip
  <2>2. PICK tip : tip = [outbound[d] EXCEPT !.due = TRUE]
    OBVIOUS
  <2>3. tip \in Tip /\ tip.state = outbound[d].state /\ tip.key = outbound[d].key
    BY <2>1, <2>2 DEF Tip
  <2>4. TipTrue(tip, d)
    BY <1>7, <2>3 DEF NextAttemptComes, TipTrue
  <2> QED BY <1>7, <2>2, <2>3, <2>4 DEF NextAttemptComes
<1>8. ASSUME NEW accepted \in BOOLEAN, Learns(d, accepted), outbound[d].state = "sending",
             SetState(d, IF accepted THEN "sent" ELSE "failed")
      PROVE  Goal
  <2>1. outbound[d] \in Tip
    BY <1>0, <1>8 DEF NoTip
  <2>2. PICK tip : tip = [outbound[d] EXCEPT !.state = IF accepted THEN "sent" ELSE "failed"]
    OBVIOUS
  <2>3. /\ tip \in Tip /\ tip.key = outbound[d].key
        /\ tip.state = IF accepted THEN "sent" ELSE "failed"
    BY <2>1, <2>2 DEF Tip, States
  <2>4. AnsweredAs(tip, d, accepted)
    BY <1>8, <2>3 DEF Learns, Answer, AnsweredAs
  <2>5. TipTrue(tip, d)
    BY <2>3, <2>4 DEF TipTrue
  <2> QED BY <1>8, <2>2, <2>3, <2>5 DEF SetState
<1>9. CASE MarkResponseSent(d)
  BY <1>8, <1>9 DEF MarkResponseSent
<1>10. CASE MarkResponseFailed(d)
  BY <1>8, <1>10 DEF MarkResponseFailed
<1>11. CASE Ages(d)
  <2>1. outbound[d] \in Tip
    BY <1>0, <1>11 DEF Ages, NoTip, States
  <2>2. PICK older : older = [outbound[d] EXCEPT !.createdAged = TRUE]
    OBVIOUS
  <2>3. PICK oldest : oldest = [outbound[d] EXCEPT !.sentAged = TRUE]
    OBVIOUS
  <2>4. /\ older \in Tip /\ older.state = outbound[d].state /\ older.key = outbound[d].key
        /\ oldest \in Tip /\ oldest.state = outbound[d].state /\ oldest.key = outbound[d].key
    BY <2>1, <2>2, <2>3 DEF Tip
  <2>5. TipTrue(older, d) /\ TipTrue(oldest, d)
    BY <1>0, <2>4 DEF TipTrue, AnsweredAs
  <2> QED BY <1>11, <2>2, <2>3, <2>4, <2>5 DEF Ages
<1>12. CASE DeleteFinishedResponses(d)
  <2>1. TipTrue(NoTip, d)
    BY DEF TipTrue, NoTip
  <2> QED BY <1>12, <2>1 DEF DeleteFinishedResponses
<1> QED BY <1>1, <1>2, <1>3, <1>5, <1>6, <1>7, <1>9, <1>10, <1>11, <1>12
        DEF SendStep, SenderDies, RequestArrives, outboundVars

LEMMA SenderInvStep ==
  ASSUME SenderInv, [JourneyNext]_journeyVars
  PROVE  SenderInv'
<1>1. [Next]_vars
  BY JourneyStepIsOne
<1>2. /\ remembered \subseteq remembered'
      /\ \A x, y \in remembered' : x.device = y.device /\ x.key = y.key => x = y
  BY <1>1, AnswersStay DEF SenderInv
<1>3. CASE UNCHANGED outbound
  BY <1>2, <1>3, TipStaysTrue DEF SenderInv, TipTrue, AnsweredAs
<1>4. ASSUME NEW d \in Devices, SendStep(d) PROVE SenderInv'
  <2>1. PICK tip \in {NoTip} \cup Tip : TipTrue(tip, d) /\ outbound' = [outbound EXCEPT ![d] = tip]
    BY <1>4, SenderStep
  <2>2. outbound' \in [Devices -> {NoTip} \cup Tip]
    BY <2>1 DEF SenderInv
  <2>3. ASSUME NEW e \in Devices PROVE TipTrue(outbound[e], e)'
    <3>1. PICK other : other = outbound'[e]
      OBVIOUS
    <3>2. TipTrue(other, e)
      BY <2>1, <3>1 DEF SenderInv
    <3>3. TipTrue(other, e)'
      BY <1>2, <3>2, TipStaysTrue
    <3> QED BY <3>1, <3>3 DEF TipTrue, AnsweredAs
  <2> QED BY <1>2, <2>2, <2>3 DEF SenderInv
<1> QED BY <1>3, <1>4 DEF JourneyNext, Sends, Pages, outboundVars, journeyVars

LEMMA SenderInvAlways == JourneySpec => []SenderInv
<1>1. JourneyInit => SenderInv
  <2> SUFFICES ASSUME JourneyInit PROVE SenderInv
    OBVIOUS
  <2>1. remembered = {} /\ outbound = [d \in Devices |-> NoTip]
    BY DEF JourneyInit, EditsInit, Init, OutboundInit
  <2>2. NoTip.state = "none"
    BY DEF NoTip
  <2> QED BY <2>1, <2>2 DEF SenderInv, TipTrue
<1> QED BY <1>1, SenderInvStep, PTL DEF JourneySpec

(* What the sender says of its tip is what the server did with it.           *)
LEMMA SenderIsTruthful == SenderInv => SentAndFailedAreTrue
<1> SUFFICES ASSUME SenderInv, NEW d \in Devices
             PROVE  /\ outbound[d].state = "sent" => AcceptedUnder(d, outbound[d].key)
                    /\ outbound[d].state = "failed" => ~AcceptedUnder(d, outbound[d].key)
  BY DEF SentAndFailedAreTrue
<1>1. ASSUME outbound[d].state = "sent" PROVE AcceptedUnder(d, outbound[d].key)
  BY <1>1 DEF SenderInv, TipTrue, AnsweredAs, AcceptedUnder
<1>2. ASSUME outbound[d].state = "failed" PROVE ~AcceptedUnder(d, outbound[d].key)
  <2>1. PICK x \in remembered : x.device = d /\ x.key = outbound[d].key /\ x.accepted = FALSE
    BY <1>2 DEF SenderInv, TipTrue, AnsweredAs
  <2>2. \A y \in remembered : y.device = d /\ y.key = outbound[d].key => y = x
    BY <2>1 DEF SenderInv
  <2> QED BY <2>1, <2>2, Zenon DEF AcceptedUnder
<1> QED BY <1>1, <1>2

----------------------------------------------------------------------------
(* What the operator's page says was decided                                 *)

Verdicts == {"released", "rejected"}
Notices == [about : {"nothing", "report"} \cup Devices, action : {"none"} \cup Verdicts]

Shown ==
  {SignedOut} \cup [at : {"redirect"}, notice : Notices]
    \cup [at : {"page"}, notice : Notices,
          report : {"none", "active", "ended", "expired"}, held : SUBSET Devices]

\* What a notice is about was decided so.
NoticeTrue(notice) ==
  /\ notice.about = "report" => notice.action \in Verdicts /\ review = notice.action
  /\ notice.about \in Devices => notice.action \in Verdicts /\ reviews[notice.about] = notice.action

NoticeInv ==
  /\ tabs \in [Tabs -> Shown]
  /\ \A t \in Tabs : tabs[t].at \in {"redirect", "page"} => NoticeTrue(tabs[t].notice)

\* A response that was released is delivered.
ReleasedInv == \A x \in rows : reviews[x.device] = "released" => IsDelivered(x)

LEMMA ReleasedInvStep ==
  ASSUME TypeInv, TipInv, DecisionInv, ReleasedInv, [Next]_vars
  PROVE  ReleasedInv'
<1>1. reviews \in [Devices -> {"none", "released", "rejected"}] /\ \A x \in rows : x.device \in Devices
  BY DEF TypeInv, TypeOK
<1>2. CASE UNCHANGED <<rows, reviews>>
  BY <1>2 DEF ReleasedInv, IsDelivered
<1>3. ASSUME NEW d \in Devices, NEW moderation \in {"delivered", "held"},
             MayInsert(d), Insert(d, moderation), UNCHANGED reviews
      PROVE  ReleasedInv'
  <2>1. reviews[d] = "none"
    BY <1>1, <1>3 DEF MayInsert, DecisionInv
  <2> QED BY <1>3, <2>1 DEF ReleasedInv, Insert, IsDelivered
<1>4. ASSUME NEW d \in Devices, ReleaseHeldResponse(d) PROVE ReleasedInv'
  <2>1. PICK row \in Undecided(d) : rows' = (rows \ {row}) \cup {Delivered(row)}
    BY <1>4 DEF ReleaseHeldResponse
  <2>2. /\ row \in rows /\ row.device = d /\ Delivered(row).device = d
        /\ IsDelivered(Delivered(row))
    BY <2>1 DEF Undecided, RowOf, Delivered, IsDelivered
  <2>3. reviews' = [reviews EXCEPT ![d] = "released"]
    BY <1>4 DEF ReleaseHeldResponse
  <2>4. \A x \in rows \ {row} : x.device # d
    BY <2>2 DEF TipInv
  <2> QED BY <1>1, <2>1, <2>2, <2>3, <2>4 DEF ReleasedInv, IsDelivered
<1>5. ASSUME NEW d \in Devices, RejectHeldResponse(d) PROVE ReleasedInv'
  BY <1>1, <1>5 DEF RejectHeldResponse, ReleasedInv, IsDelivered
<1>6. ASSUME NEW f \in Fetches, FetchStep(f) \/ FetchStops(f) PROVE UNCHANGED <<rows, reviews>>
  BY <1>6 DEF FetchStep, FetchStops, ListResponses, SaveReceivedResponses, SetResponsesCursor, serverVars
<1> QED BY <1>2, <1>3, <1>4, <1>5, <1>6 DEF Next, vars, serverVars, Decide, Closes, Post

(* Decisions are final, on the report and on a response.                     *)
LEMMA DecisionsStay ==
  ASSUME TypeInv, [Next]_vars
  PROVE  /\ review \in Verdicts => review' = review
         /\ \A d \in Devices : reviews[d] \in Verdicts => reviews'[d] = reviews[d]
<1>1. reviews \in [Devices -> {"none", "released", "rejected"}]
  BY DEF TypeInv, TypeOK
<1>2. review \in Verdicts => review' = review
  <2>1. ASSUME NEW verdict \in {"released", "rejected"}, Decide(verdict) PROVE review = "pending"
    BY <2>1 DEF Decide, MayDecide
  <2>2. ASSUME NEW f \in Fetches, FetchStep(f) \/ FetchStops(f) PROVE UNCHANGED review
    BY <2>2 DEF FetchStep, FetchStops, ListResponses, SaveReceivedResponses, SetResponsesCursor, serverVars, reportVars
  <2> QED BY <2>1, <2>2
          DEF Next, vars, serverVars, reportVars, Closes, Post, ReleaseHeldResponse, RejectHeldResponse, Verdicts
<1>3. ASSUME NEW d \in Devices, reviews[d] \in Verdicts PROVE reviews'[d] = reviews[d]
  <2>1. ASSUME NEW e \in Devices, ReleaseHeldResponse(e) \/ RejectHeldResponse(e)
        PROVE  reviews'[d] = reviews[d]
    <3>1. reviews[e] = "none"
      BY <2>1 DEF ReleaseHeldResponse, RejectHeldResponse, Undecided
    <3> QED BY <1>1, <1>3, <2>1, <3>1 DEF ReleaseHeldResponse, RejectHeldResponse, Verdicts
  <2>2. ASSUME NEW f \in Fetches, FetchStep(f) \/ FetchStops(f) PROVE UNCHANGED reviews
    BY <2>2 DEF FetchStep, FetchStops, ListResponses, SaveReceivedResponses, SetResponsesCursor, serverVars
  <2> QED BY <2>1, <2>2 DEF Next, vars, serverVars, Decide, Closes, Post
<1> QED BY <1>2, <1>3

LEMMA NoticeStaysTrue ==
  ASSUME TypeInv, [Next]_vars, NEW notice, NoticeTrue(notice)
  PROVE  NoticeTrue(notice)'
BY DecisionsStay DEF NoticeTrue

(* What a step of the page shows.                                            *)
LEMMA DashboardShown ==
  ASSUME TypeInv, NEW notice \in Notices
  PROVE  /\ Dashboard(notice) \in Shown /\ Dashboard(notice).at = "page"
         /\ Dashboard(notice).notice = notice
         /\ Redirected(notice) \in Shown /\ Redirected(notice).at = "redirect"
         /\ Redirected(notice).notice = notice
<1>1. PICK report : report = IF review = "pending" THEN status ELSE "none"
  OBVIOUS
<1>2. PICK held : held = {d \in Devices : Undecided(d) # {}}
  OBVIOUS
<1>3. report \in {"none", "active", "ended", "expired"} /\ held \in SUBSET Devices
  BY <1>1, <1>2 DEF TypeInv, TypeOK
<1>4. Dashboard(notice) = [at |-> "page", notice |-> notice, report |-> report, held |-> held]
  BY <1>1, <1>2 DEF Dashboard
<1> QED BY <1>3, <1>4 DEF Shown, Redirected

LEMMA NoNoticeTrue == NoNotice \in Notices /\ NoticeTrue(NoNotice)
BY PageAssumption DEF NoNotice, Decided, Notices, NoticeTrue

\* A tab shows a page whose notice, if it has one, is true after the step.
Shows(t, page) ==
  /\ page \in Shown /\ Show(t, page)
  /\ page.at \in {"redirect", "page"} => NoticeTrue(page.notice)'

LEMMA PageStepShows ==
  ASSUME TypeInv, NoticeInv, PageStep, UNCHANGED tabs => FALSE
  PROVE  \E t \in Tabs : \E page \in Shown : Shows(t, page)
<1>1. [Next]_vars
  BY PageStepIsOne
<1>2. ASSUME NEW t \in Tabs PROVE /\ tabs[t] \in Shown
                                  /\ tabs[t].at \in {"redirect", "page"} =>
                                       tabs[t].notice \in Notices /\ NoticeTrue(tabs[t].notice)
  BY <1>2 DEF NoticeInv, Shown, SignedOut
<1>3. SignedOut \in Shown /\ SignedOut.at = "login"
  BY DEF Shown, SignedOut
<1>4. ASSUME NEW t \in Tabs, SignOut(t) \/ TurnedAway(t) PROVE Shows(t, SignedOut)
  BY <1>3, <1>4 DEF SignOut, TurnedAway, Shows
<1>5. NoticeTrue(NoNotice)'
  BY <1>1, NoNoticeTrue, NoticeStaysTrue
<1>6. ASSUME NEW t \in Tabs, SignIn(t) PROVE Shows(t, Redirected(NoNotice))
  <2>1. Redirected(NoNotice).notice = NoNotice /\ Redirected(NoNotice) \in Shown
    BY NoNoticeTrue, DashboardShown
  <2> QED BY <1>5, <1>6, <2>1 DEF SignIn, Shows, NoticeTrue
<1>7. ASSUME NEW t \in Tabs, LoadsDashboard(t) \/ Reloads(t)
      PROVE  \E page \in Shown : Shows(t, page)
  <2>1. CASE LoadsDashboard(t)
    <3>1. PICK notice \in Notices : notice = tabs[t].notice /\ NoticeTrue(notice)
      BY <1>2, <2>1 DEF LoadsDashboard
    <3>2. NoticeTrue(notice)'
      BY <1>1, <3>1, NoticeStaysTrue
    <3>3. PICK page \in Shown : page = Dashboard(notice) /\ page.notice = notice
      BY <3>1, DashboardShown
    <3> QED BY <2>1, <3>1, <3>2, <3>3 DEF LoadsDashboard, Shows, NoticeTrue
  <2>2. CASE Reloads(t)
    <3>1. PICK notice \in Notices :
            /\ notice = IF tabs[t].at = "page" THEN tabs[t].notice ELSE NoNotice
            /\ NoticeTrue(notice)
      BY <1>2, <2>2, NoNoticeTrue DEF Reloads
    <3>2. NoticeTrue(notice)'
      BY <1>1, <3>1, NoticeStaysTrue
    <3>3. PICK page \in Shown : page = Redirected(notice) /\ page.notice = notice
      BY <3>1, DashboardShown
    <3> QED BY <2>2, <3>1, <3>2, <3>3 DEF Reloads, Shows, NoticeTrue
  <2> QED BY <1>7, <2>1, <2>2
<1>8. ASSUME NEW t \in Tabs, Show(t, Dashboard(NoNotice)), UNCHANGED vars
      PROVE  \E page \in Shown : Shows(t, page)
  <2>1. PICK page \in Shown : page = Dashboard(NoNotice) /\ page.notice = NoNotice
    BY NoNoticeTrue, DashboardShown
  <2> QED BY <1>5, <1>8, <2>1 DEF Shows, NoticeTrue
<1>9. ASSUME NEW t \in Tabs, NEW notice \in Notices, NoticeTrue(notice)', Show(t, Redirected(notice))
      PROVE  \E page \in Shown : Shows(t, page)
  <2>1. PICK page \in Shown : page = Redirected(notice) /\ page.notice = notice
    BY DashboardShown
  <2> QED BY <1>9, <2>1 DEF Shows, NoticeTrue
<1>10. ASSUME NEW t \in Tabs, NEW verdict \in {"released", "rejected"}, PressesReport(t, verdict)
       PROVE  \E page \in Shown : Shows(t, page)
  <2>1. CASE Decide(verdict) /\ Show(t, Redirected(Decided("report", verdict)))
    <3>1. PICK notice : notice = Decided("report", verdict)
      OBVIOUS
    <3>2. notice \in Notices /\ notice.about = "report" /\ notice.action = verdict
      BY <3>1 DEF Decided, Notices, Verdicts
    <3>3. "report" \notin Devices /\ review' = verdict
      BY <2>1, PageAssumption DEF Decide
    <3>4. NoticeTrue(notice)'
      BY <3>2, <3>3 DEF NoticeTrue, Verdicts
    <3> QED BY <1>9, <2>1, <3>1, <3>2, <3>4
  <2> QED BY <1>8, <1>10, <2>1 DEF PressesReport
<1>11. ASSUME NEW t \in Tabs, NEW d \in Devices, NEW verdict \in {"released", "rejected"},
              PressesResponse(t, d, verdict)
       PROVE  \E page \in Shown : Shows(t, page)
  <2>1. CASE DecideHeldResponse(d, verdict) /\ Show(t, Redirected(Decided(d, verdict)))
    <3>1. PICK notice : notice = Decided(d, verdict)
      OBVIOUS
    <3>2. notice \in Notices /\ notice.about = d /\ notice.action = verdict
      BY <3>1 DEF Decided, Notices, Verdicts
    <3>3. d # "report" /\ reviews \in [Devices -> {"none", "released", "rejected"}]
      BY PageAssumption DEF TypeInv, TypeOK
    <3>4. reviews'[d] = verdict
      BY <2>1, <3>3 DEF DecideHeldResponse, ReleaseHeldResponse, RejectHeldResponse
    <3>5. NoticeTrue(notice)'
      BY <3>2, <3>3, <3>4 DEF NoticeTrue, Verdicts
    <3> QED BY <1>9, <2>1, <3>1, <3>2, <3>5
  <2> QED BY <1>8, <1>11, <2>1 DEF PressesResponse
<1>12. CASE SessionRunsOut
  BY <1>12 DEF SessionRunsOut
<1>13. ASSUME NEW t \in Tabs,
              \/ SignIn(t) \/ SignOut(t) \/ TurnedAway(t) \/ LoadsDashboard(t) \/ Reloads(t)
              \/ \E verdict \in {"released", "rejected"} :
                   PressesReport(t, verdict) \/ \E d \in Devices : PressesResponse(t, d, verdict)
       PROVE  \E page \in Shown : Shows(t, page)
  BY <1>3, <1>4, <1>6, <1>7, <1>10, <1>11, <1>13 DEF Shows
<1> QED BY <1>12, <1>13 DEF PageStep

LEMMA NoticeInvStep ==
  ASSUME TypeInv, NoticeInv, [JourneyNext]_journeyVars
  PROVE  NoticeInv'
<1>1. [Next]_vars
  BY JourneyStepIsOne
<1>2. ASSUME NEW t \in Tabs, tabs[t].at \in {"redirect", "page"} PROVE NoticeTrue(tabs[t].notice)'
        \/ tabs' # tabs
  <2>1. PICK notice : notice = tabs[t].notice
    OBVIOUS
  <2>2. NoticeTrue(notice)'
    BY <1>1, <1>2, <2>1, NoticeStaysTrue DEF NoticeInv
  <2> QED BY <2>1, <2>2 DEF NoticeTrue
<1>3. CASE UNCHANGED tabs
  BY <1>2, <1>3 DEF NoticeInv, NoticeTrue
<1>4. CASE PageStep /\ tabs' # tabs
  <2>1. PICK t \in Tabs : \E page \in Shown : Shows(t, page)
    BY <1>4, PageStepShows
  <2>2. PICK page \in Shown : Shows(t, page)
    BY <2>1
  <2>3. tabs \in [Tabs -> Shown] /\ tabs' = [tabs EXCEPT ![t] = page]
    BY <2>2 DEF NoticeInv, Shows, Show
  <2>4. ASSUME NEW u \in Tabs, tabs'[u].at \in {"redirect", "page"} PROVE NoticeTrue(tabs[u].notice)'
    <3>1. CASE u = t
      BY <2>2, <2>3, <2>4, <3>1 DEF Shows, NoticeTrue
    <3>2. CASE u # t
      <4>1. PICK notice : notice = tabs[u].notice
        OBVIOUS
      <4>2. tabs'[u] = tabs[u] /\ NoticeTrue(notice)
        BY <2>3, <2>4, <3>2, <4>1 DEF NoticeInv
      <4>3. NoticeTrue(notice)'
        BY <1>1, <4>2, NoticeStaysTrue
      <4> QED BY <4>1, <4>2, <4>3 DEF NoticeTrue
    <3> QED BY <3>1, <3>2
  <2> QED BY <2>3, <2>4 DEF NoticeInv
<1> QED BY <1>3, <1>4 DEF JourneyNext, Sends, Pages, pageVars, journeyVars

\* What ToldTheTruth rests on.
JourneyInv == TypeInv /\ TipInv /\ DecisionInv /\ ReleasedInv /\ SenderInv /\ NoticeInv

LEMMA JourneyInvAlways == JourneySpec => []JourneyInv
<1>1. JourneyInit => JourneyInv
  <2> SUFFICES ASSUME JourneyInit PROVE JourneyInv
    OBVIOUS
  <2>1. Init
    BY DEF JourneyInit, EditsInit
  <2>2. TypeInv
    BY <2>1, InitTypeInv
  <2>3. TipInv /\ DecisionInv /\ ReleasedInv
    BY <2>1 DEF Init, TipInv, RowOf, DecisionInv, ReleasedInv
  <2>4. NoticeInv
    <3>1. tabs = [t \in Tabs |-> SignedOut] /\ SignedOut \in Shown /\ SignedOut.at = "login"
      BY DEF JourneyInit, PageInit, Shown, SignedOut
    <3> QED BY <3>1 DEF NoticeInv
  <2>5. SenderInv
    <3>1. remembered = {} /\ outbound = [d \in Devices |-> NoTip] /\ NoTip.state = "none"
      BY <2>1 DEF JourneyInit, Init, OutboundInit, NoTip
    <3> QED BY <3>1 DEF SenderInv, TipTrue
  <2> QED BY <2>2, <2>3, <2>4, <2>5 DEF JourneyInv
<1>2. JourneyInv /\ [JourneyNext]_journeyVars => JourneyInv'
  BY JourneyStepIsOne, StepTypeInv, StepTipInv, StepDecisionInv, ReleasedInvStep, SenderInvStep, NoticeInvStep
  DEF JourneyInv
<1> QED BY <1>1, <1>2, PTL DEF JourneySpec

LEMMA PageIsTruthful == TypeInv /\ DecisionInv /\ ReleasedInv /\ NoticeInv => NoticesAreTrue
<1> SUFFICES ASSUME TypeInv, DecisionInv, ReleasedInv, NoticeInv,
                    NEW t \in Tabs, tabs[t].at \in {"redirect", "page"}
             PROVE  LET notice == tabs[t].notice
                    IN /\ notice.about = "report" => review = notice.action
                       /\ notice.about \in Devices =>
                            /\ reviews[notice.about] = notice.action
                            /\ \A row \in RowOf(notice.about) :
                                 row.moderation = IF notice.action = "released" THEN "delivered" ELSE "held"
  BY DEF NoticesAreTrue
<1>1. PICK notice : notice = tabs[t].notice /\ NoticeTrue(notice)
  BY DEF NoticeInv
<1>2. \A row \in rows : row.moderation \in {"delivered", "held"}
  BY DEF TypeInv, TypeOK
<1>3. ASSUME notice.about \in Devices, NEW row \in RowOf(notice.about)
      PROVE  row.moderation = IF notice.action = "released" THEN "delivered" ELSE "held"
  BY <1>1, <1>2, <1>3 DEF RowOf, NoticeTrue, Verdicts, DecisionInv, ReleasedInv, IsDelivered
<1> QED BY <1>1, <1>3 DEF NoticeTrue

(* What the sender of a tip and the operator are told is what happened, for  *)
(* any number of attempts, keys, tabs and sign-ins: a key is answered once   *)
(* and a decision is final, so what was true when it was told stays true.    *)
THEOREM ToldIsTrue == JourneySpec => []ToldTheTruth
<1>1. JourneyInv => ToldTheTruth
  BY SenderIsTruthful, PageIsTruthful DEF JourneyInv, ToldTheTruth
<1> QED BY <1>1, JourneyInvAlways, PTL
=============================================================================
