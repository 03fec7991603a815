-------------------------- MODULE TimeRangeProofs -------------------------
(***************************************************************************)
(* Lemmas that the proofs of the components cite, for every width of the   *)
(* timestamp type: about time ranges, and about the state of a scope over  *)
(* time, whatever the scopes and the evidence.                             *)
(***************************************************************************)
EXTENDS DataQuality, TLAPS, WellFoundedInduction

USE DEF Timestamp

\* A range has its two ends, in order, in the timestamp type.
LEMMA RangeEnds ==
  ASSUME NEW r \in TimeRange
  PROVE  /\ r = [start |-> r.start, end |-> r.end]
         /\ r.start \in Timestamp /\ r.end \in Timestamp
         /\ r.start \in Int /\ r.end \in Int
         /\ r.start < r.end
PROOF BY TimeBounds DEF TimeRange

\* Conversely the constructor accepts any two timestamps in order.
LEMMA MakeRange ==
  ASSUME NEW s \in Timestamp, NEW e \in Timestamp, s < e
  PROVE  [start |-> s, end |-> e] \in TimeRange
PROOF BY DEF TimeRange

\* intersection() returns the instants the two ranges share.
LEMMA IntersectionShares ==
  ASSUME NEW l \in TimeRange, NEW r \in TimeRange
  PROVE  /\ \A c \in Intersection(l, r) :
              /\ c \in TimeRange
              /\ l.start <= c.start /\ c.end <= l.end
              /\ r.start <= c.start /\ c.end <= r.end
         /\ \A t \in Int : Contains(l, t) /\ Contains(r, t) =>
              \E c \in Intersection(l, r) : Contains(c, t)
  <1> DEFINE s == IF l.start < r.start THEN r.start ELSE l.start
             e == IF r.end < l.end THEN r.end ELSE l.end
             c == [start |-> s, end |-> e]
  <1>1. /\ s \in Timestamp /\ e \in Timestamp
        /\ l.start <= s /\ r.start <= s /\ e <= l.end /\ e <= r.end
    BY RangeEnds, TimeBounds
  <1>2. Intersection(l, r) = IF e <= s THEN {} ELSE {c}
    BY DEF Intersection
  <1>3. ~(e <= s) => c \in TimeRange
    BY <1>1, MakeRange, TimeBounds
  <1>4. \A t \in Int : Contains(l, t) /\ Contains(r, t) => s <= t /\ t < e
    BY RangeEnds DEF Contains
  <1>5. \A t \in Int : s <= t /\ t < e => Contains(c, t) /\ ~(e <= s)
    BY <1>1, TimeBounds DEF Contains
  <1> QED BY <1>1, <1>2, <1>3, <1>4, <1>5

\* A gap lies in the request and touches no covered range.
LEMMA GapsAvoidCovered ==
  ASSUME NEW q \in TimeRange, NEW covered \in SUBSET TimeRange
  PROVE  /\ InstantsOf(Gaps(q, covered)) \subseteq Instants(q)
         /\ InstantsOf(Gaps(q, covered)) \intersect InstantsOf(covered) = {}
  <1> SUFFICES ASSUME NEW t \in InstantsOf(Gaps(q, covered))
               PROVE  t \in Instants(q) /\ t \notin InstantsOf(covered)
    OBVIOUS
  <1>1. PICK g \in Gaps(q, covered) : t \in Instants(g)
    BY DEF InstantsOf
  <1>2. g \in TimeRange /\ Uncovered(q, covered, t)
    BY <1>1 DEF Gaps
  <1>3. t \in Int
    BY <1>1, <1>2, RangeEnds DEF Instants
  <1>4. t \in Instants(q)
    BY <1>2, <1>3, RangeEnds DEF Uncovered, Contains, Instants
  <1>5. \A c \in covered : t \notin Instants(c)
    BY <1>2, <1>3, RangeEnds DEF Uncovered, Contains, Instants
  <1> QED BY <1>4, <1>5 DEF InstantsOf

-----------------------------------------------------------------------------
(* The least-number principle, from the well-foundedness of < on Nat.       *)

LEMMA LessIsARelation ==
  \A x \in Nat, y \in Nat : x < y => <<x, y>> \in OpToRel(<, Nat)
PROOF BY DEF OpToRel

LEMMA WellFoundedHasMinimum ==
  ASSUME NEW R, NEW U, IsWellFoundedOn(R, U), NEW S, S \subseteq U, S # {}
  PROVE  \E x \in S : \A y \in S : ~ (<<y, x>> \in R)
PROOF BY WFMin

LEMMA MinimumIsLeast ==
  ASSUME NEW R, NEW S \in SUBSET Nat,
         \A x \in Nat, y \in Nat : x < y => <<x, y>> \in R,
         \E x \in S : \A y \in S : ~ (<<y, x>> \in R)
  PROVE  \E x \in S : \A y \in S : x <= y
  <1>1. PICK x \in S : \A y \in S : ~ (<<y, x>> \in R)
    OBVIOUS
  <1>2. \A y \in S : ~(y < x)
    BY <1>1, Zenon
  <1>3. \A y \in S : x <= y
    BY <1>2
  <1> QED BY <1>3

\* Every non-empty set of naturals has a least element.
LEMMA LeastNatural ==
  ASSUME NEW S \in SUBSET Nat, S # {}
  PROVE  \E x \in S : \A y \in S : x <= y
  <1>1. \E x \in S : \A y \in S : ~ (<<y, x>> \in OpToRel(<, Nat))
    BY NatLessThanWellFounded, WellFoundedHasMinimum
  <1> QED BY <1>1, MinimumIsLeast, LessIsARelation

\* Induction up to N, as a fact about sets.
LEMMA UpTo ==
  ASSUME NEW N \in Nat, NEW G, 0 \in G, \A n \in 1..N : (n - 1) \in G => n \in G
  PROVE  0..N \subseteq G
  <1> DEFINE Bad == {n \in 0..N : n \notin G}
  <1> SUFFICES ASSUME Bad # {} PROVE FALSE
    OBVIOUS
  <1>1. Bad \in SUBSET Nat
    OBVIOUS
  <1>2. PICK m \in Bad : \A k \in Bad : m <= k
    <2> HIDE DEF Bad
    <2> QED BY <1>1, LeastNatural
  <1>3. m \in 1..N /\ m \notin G /\ (m - 1) \in 0..N /\ ~(m <= m - 1)
    OBVIOUS
  <1>4. (m - 1) \notin Bad
    BY <1>2, <1>3
  <1> QED BY <1>3, <1>4

-----------------------------------------------------------------------------
\* Every instant of a set of requested instants lies in a range that the set
\* holds and no wider one: walk from the instant, down and up, to the first
\* instant that is not in the set.
LEMMA MaximalRangeAround ==
  ASSUME NEW q \in TimeRange, NEW U \in SUBSET Instants(q), NEW t \in U
  PROVE  \E g \in TimeRange : /\ t \in Instants(g) /\ Instants(g) \subseteq U
                              /\ (g.start - 1) \notin U /\ g.end \notin U
  <1> DEFINE Below == {k \in Nat : (t - 1 - k) \notin U}
             Above == {k \in Nat : (t + 1 + k) \notin U}
  <1>1. q.start \in Int /\ q.end \in Int /\ q.start \in Timestamp /\ q.end \in Timestamp
    BY RangeEnds
  <1>2. \A i \in U : i \in Int /\ q.start <= i /\ i < q.end
    BY <1>1 DEF Instants
  <1>3. t \in Int /\ (t - q.start) \in Nat /\ (q.end - t) \in Nat
    BY <1>1, <1>2
  <1>4. (t - q.start) \in Below /\ (q.end - t) \in Above
    BY <1>1, <1>2, <1>3
  <1>5. PICK j \in Below : \A i \in Below : j <= i
    <2>1. Below \in SUBSET Nat /\ Below # {}
      BY <1>4
    <2> HIDE DEF Below
    <2> QED BY <2>1, LeastNatural
  <1>6. PICK k \in Above : \A i \in Above : k <= i
    <2>1. Above \in SUBSET Nat /\ Above # {}
      BY <1>4
    <2> HIDE DEF Above
    <2> QED BY <2>1, LeastNatural
  <1> DEFINE s == t - j
             e == t + 1 + k
             g == [start |-> s, end |-> e]
  <1>7. j \in Nat /\ k \in Nat /\ (s - 1) \notin U /\ e \notin U
    <2>1. j \in Nat /\ k \in Nat /\ (t - j) - 1 = t - 1 - j
      BY <1>3, <1>5, <1>6
    <2> QED BY <1>5, <1>6, <2>1
  <1>8. ASSUME NEW i \in s .. (e - 1) PROVE i \in U
    <2>1. i \in Int /\ s <= i /\ i <= t + k
      BY <1>3, <1>7
    <2>2. CASE i = t
      BY <2>2
    <2>3. CASE i < t
      <3>1. (t - 1 - i) \in Nat /\ (t - 1 - i) < j /\ t - 1 - (t - 1 - i) = i
        BY <2>1, <2>3, <1>3, <1>7
      <3> DEFINE n == t - 1 - i
      <3>2. ~(n \in Below)
        <4> HIDE DEF n, Below
        <4>1. n \in Nat /\ n < j
          BY <3>1 DEF n
        <4> QED BY <4>1, <1>5, <1>7
      <3> QED BY <3>1, <3>2
    <2>4. CASE i > t
      <3>1. (i - t - 1) \in Nat /\ (i - t - 1) < k /\ t + 1 + (i - t - 1) = i
        BY <2>1, <2>4, <1>3, <1>7
      <3>2. ~((i - t - 1) \in Above)
        BY <3>1, <1>6, <1>7
      <3> QED BY <3>1, <3>2
    <2> QED BY <1>3, <2>1, <2>2, <2>3, <2>4
  <1>9. s \in U /\ (e - 1) \in U /\ s \in Int /\ e \in Int /\ s < e
    BY <1>3, <1>7, <1>8
  <1>10. s \in Timestamp /\ e \in Timestamp
    BY <1>1, <1>2, <1>9, TimeBounds
  <1>11. g \in TimeRange
    BY <1>9, <1>10, MakeRange
  <1>12. t \in Instants(g) /\ Instants(g) \subseteq U
    BY <1>3, <1>7, <1>8 DEF Instants
  <1> QED BY <1>7, <1>11, <1>12

\* An uncovered instant lies in a gap.
LEMMA GapsHoldTheRest ==
  ASSUME NEW q \in TimeRange, NEW covered \in SUBSET TimeRange,
         NEW t \in Int, Uncovered(q, covered, t)
  PROVE  \E g \in Gaps(q, covered) : t \in Instants(g)
  <1> DEFINE U == {i \in Instants(q) : Uncovered(q, covered, i)}
  <1>1. q.start \in Int /\ q.end \in Int
    BY RangeEnds
  <1>2. \A i \in Int : Uncovered(q, covered, i) => i \in U
    BY <1>1 DEF Uncovered, Contains, Instants
  <1>3. U \in SUBSET Instants(q) /\ t \in U
    BY <1>2
  <1>4. PICK g \in TimeRange : /\ t \in Instants(g) /\ Instants(g) \subseteq U
                              /\ (g.start - 1) \notin U /\ g.end \notin U
    <2> HIDE DEF U
    <2> QED BY <1>3, MaximalRangeAround
  <1>5. g.start \in Int /\ g.end \in Int
    BY RangeEnds
  <1> QED BY <1>2, <1>4, <1>5 DEF Gaps

\* The gaps and the covered ranges together hold every instant of the request.
LEMMA GapsComplete ==
  ASSUME NEW q \in TimeRange, NEW covered \in SUBSET TimeRange
  PROVE  Instants(q) \subseteq InstantsOf(covered) \union InstantsOf(Gaps(q, covered))
  <1> SUFFICES ASSUME NEW t \in Instants(q), t \notin InstantsOf(covered)
               PROVE  t \in InstantsOf(Gaps(q, covered))
    OBVIOUS
  <1>1. t \in Int /\ Contains(q, t)
    BY RangeEnds DEF Instants, Contains
  <1>2. \A c \in covered : ~Contains(c, t)
    BY <1>1, RangeEnds DEF InstantsOf, Instants, Contains
  <1> QED BY <1>1, <1>2, GapsHoldTheRest DEF Uncovered, InstantsOf

-----------------------------------------------------------------------------
(* The reduction of evidence to state. *)


\* The observations of a scope at an instant.
EvidenceAt(time, scope, observations) ==
  {o \in observations : o.scope = scope /\ Contains(o.range, time)}

-----------------------------------------------------------------------------
\* Severity is a strict order of the states, with Unknown at the bottom.
LEMMA SeverityOrder ==
  \A s, t \in DataState : /\ Severity[s] \in 0..4 /\ Severity["Unknown"] <= Severity[s]
                          /\ Severity[s] = Severity[t] => s = t
                          /\ Severity[s] <= Severity[t] \/ Severity[t] <= Severity[s]
PROOF BY DEF DataState, Severity

\* A set of states has one of greatest severity.
LEMMA WorstExists ==
  ASSUME NEW S \in SUBSET DataState
  PROVE  \E s \in S \union {"Unknown"} : \A t \in S : Severity[t] <= Severity[s]
  <1> DEFINE Top(s) == \A t \in S : Severity[t] <= Severity[s]
  <1>1. /\ Severity["Unknown"] = 0 /\ Severity["Complete"] = 1 /\ Severity["Degraded"] = 2
        /\ Severity["Missing"] = 3 /\ Severity["Corrupt"] = 4
        /\ \A t \in S : t \in {"Unknown", "Complete", "Degraded", "Missing", "Corrupt"}
    BY DEF DataState, Severity
  <1>2. CASE "Corrupt" \in S
    <2>1. Top("Corrupt")
      BY <1>1
    <2> QED BY <1>2, <2>1
  <1>3. CASE "Missing" \in S /\ "Corrupt" \notin S
    <2>1. Top("Missing")
      BY <1>1, <1>3
    <2> QED BY <1>3, <2>1
  <1>4. CASE "Degraded" \in S /\ "Missing" \notin S /\ "Corrupt" \notin S
    <2>1. Top("Degraded")
      BY <1>1, <1>4
    <2> QED BY <1>4, <2>1
  <1>5. CASE "Complete" \in S /\ "Degraded" \notin S /\ "Missing" \notin S /\ "Corrupt" \notin S
    <2>1. Top("Complete")
      BY <1>1, <1>5
    <2> QED BY <1>5, <2>1
  <1>6. CASE {"Complete", "Degraded", "Missing", "Corrupt"} \intersect S = {}
    <2>1. Top("Unknown")
      BY <1>1, <1>6
    <2> QED BY <2>1
  <1> QED BY <1>2, <1>3, <1>4, <1>5, <1>6

\* Worst is the state of greatest severity among those given and Unknown.
LEMMA WorstFacts ==
  \A S \in SUBSET DataState :
    /\ Worst(S) \in S \union {"Unknown"} /\ Worst(S) \in DataState
    /\ \A t \in S : Severity[t] <= Severity[Worst(S)]
  <1> SUFFICES ASSUME NEW S \in SUBSET DataState
               PROVE  /\ Worst(S) \in S \union {"Unknown"} /\ Worst(S) \in DataState
                      /\ \A t \in S : Severity[t] <= Severity[Worst(S)]
    OBVIOUS
  <1>1. \E s \in S \union {"Unknown"} : \A t \in S : Severity[t] <= Severity[s]
    BY WorstExists
  <1>2. /\ Worst(S) \in S \union {"Unknown"}
        /\ \A t \in S : Severity[t] <= Severity[Worst(S)]
    BY <1>1 DEF Worst
  <1> QED BY <1>2 DEF DataState

\* The state of an observation is a data state.
LEMMA QualityStates ==
  \A kind \in QualityKind : StateForQuality(kind) \in DataState
PROOF BY DEF QualityKind, StateForQuality, DataState

\* The state at an instant: that of some evidence there, or Unknown, and no
\* evidence there is worse.
LEMMA StateAtFacts ==
  \A observations \in SUBSET QualityObservation : \A time, scope :
    LET state == StateAt(time, scope, observations)
    IN  /\ state \in DataState
        /\ state # "Unknown" => \E o \in EvidenceAt(time, scope, observations) :
                                   StateForQuality(o.kind) = state
        /\ \A o \in EvidenceAt(time, scope, observations) :
             Severity[StateForQuality(o.kind)] <= Severity[state]
  <1> SUFFICES ASSUME NEW observations \in SUBSET QualityObservation, NEW time, NEW scope
               PROVE  LET state == StateAt(time, scope, observations)
                      IN  /\ state \in DataState
                          /\ state # "Unknown" => \E o \in EvidenceAt(time, scope, observations) :
                                                     StateForQuality(o.kind) = state
                          /\ \A o \in EvidenceAt(time, scope, observations) :
                               Severity[StateForQuality(o.kind)] <= Severity[state]
    OBVIOUS
  <1> DEFINE states == {StateForQuality(o.kind) : o \in EvidenceAt(time, scope, observations)}
  <1>1. states \in SUBSET DataState
    BY QualityStates DEF EvidenceAt, QualityObservation
  <1>2. StateAt(time, scope, observations) = Worst(states)
    BY DEF StateAt, EvidenceAt
  <1>3. /\ Worst(states) \in states \union {"Unknown"} /\ Worst(states) \in DataState
        /\ \A t \in states : Severity[t] <= Severity[Worst(states)]
    BY <1>1, WorstFacts
  <1> QED BY <1>2, <1>3

\* A scope that is corrupt at an instant has that state there.
LEMMA CorruptWins ==
  \A observations \in SUBSET QualityObservation : \A time, scope :
    (\E o \in EvidenceAt(time, scope, observations) : o.kind = "Corrupt")
      => StateAt(time, scope, observations) = "Corrupt"
  <1> SUFFICES ASSUME NEW observations \in SUBSET QualityObservation, NEW time, NEW scope,
                      NEW o \in EvidenceAt(time, scope, observations), o.kind = "Corrupt"
               PROVE  StateAt(time, scope, observations) = "Corrupt"
    OBVIOUS
  <1>1. StateForQuality(o.kind) = "Corrupt"
    BY DEF StateForQuality
  <1>2. /\ StateAt(time, scope, observations) \in DataState
        /\ Severity["Corrupt"] <= Severity[StateAt(time, scope, observations)]
    BY <1>1, StateAtFacts
  <1> QED BY <1>2 DEF DataState, Severity

-----------------------------------------------------------------------------
\* The segments of a scope lie in the request, and have throughout the state
\* of their scope.
LEMMA SegmentFacts ==
  \A observations \in SUBSET QualityObservation, requested \in TimeRange : \A expected :
   \A g \in StateSegments(requested, observations, expected) :
    /\ g.scope \in ScopesOf(requested, observations, expected)
    /\ g = [range |-> g.range, state |-> g.state, scope |-> g.scope]
    /\ g.range \in TimeRange /\ g.state \in DataState
    /\ requested.start <= g.range.start /\ g.range.end <= requested.end
    /\ \A t \in Instants(g.range) : StateAt(t, g.scope, observations) = g.state
  <1> SUFFICES ASSUME NEW observations \in SUBSET QualityObservation, NEW requested \in TimeRange,
                      NEW expected, NEW g \in StateSegments(requested, observations, expected)
               PROVE  /\ g.scope \in ScopesOf(requested, observations, expected)
                      /\ g = [range |-> g.range, state |-> g.state, scope |-> g.scope]
                      /\ g.range \in TimeRange /\ g.state \in DataState
                      /\ requested.start <= g.range.start /\ g.range.end <= requested.end
                      /\ \A t \in Instants(g.range) : StateAt(t, g.scope, observations) = g.state
    OBVIOUS
  <1>1. PICK scope \in ScopesOf(requested, observations, expected) :
          g \in SegmentsOfScope(requested, scope, observations)
    BY DEF StateSegments
  <1> DEFINE state == [t \in Instants(requested) |-> StateAt(t, scope, observations)]
  <1>2. PICK r \in TimeRange :
          /\ r.start \in DOMAIN state /\ MaximalRun(r, state)
          /\ g = [range |-> r, state |-> state[r.start], scope |-> scope]
    BY <1>1 DEF SegmentsOfScope
  <1>3. \A t \in Instants(r) : t \in Instants(requested) /\ state[t] = state[r.start]
    BY <1>2 DEF MaximalRun
  <1>4. /\ r.start \in Int /\ r.end \in Int /\ r.start < r.end
        /\ requested.start \in Int /\ requested.end \in Int
    BY RangeEnds
  <1>5. r.start \in Instants(r) /\ (r.end - 1) \in Instants(r)
    BY <1>4 DEF Instants
  <1>6. requested.start <= r.start /\ r.end <= requested.end
    <2>1. r.start \in Instants(requested) /\ (r.end - 1) \in Instants(requested)
      BY <1>3, <1>5
    <2> HIDE DEF state
    <2> QED BY <1>4, <2>1 DEF Instants
  <1>7. state[r.start] \in DataState
    BY <1>3, <1>5, StateAtFacts
  <1>8. \A t \in Instants(r) : StateAt(t, scope, observations) = state[r.start]
    BY <1>3
  <1> HIDE DEF state
  <1> QED BY <1>1, <1>2, <1>6, <1>7, <1>8

\* Every requested instant of a scope lies in a segment of the scope.
LEMMA SegmentExists ==
  \A requested \in TimeRange : \A observations, expected :
   \A scope \in ScopesOf(requested, observations, expected), time \in Instants(requested) :
    \E g \in StateSegments(requested, observations, expected) :
      g.scope = scope /\ time \in Instants(g.range)
  <1> SUFFICES ASSUME NEW observations, NEW requested \in TimeRange, NEW expected,
                      NEW scope \in ScopesOf(requested, observations, expected),
                      NEW time \in Instants(requested)
               PROVE  \E g \in StateSegments(requested, observations, expected) :
                        g.scope = scope /\ time \in Instants(g.range)
    OBVIOUS
  <1> DEFINE state == [t \in Instants(requested) |-> StateAt(t, scope, observations)]
             U     == {t \in Instants(requested) : state[t] = state[time]}
  <1>1. U \in SUBSET Instants(requested) /\ time \in U
    OBVIOUS
  <1>2. PICK r \in TimeRange : /\ time \in Instants(r) /\ Instants(r) \subseteq U
                               /\ (r.start - 1) \notin U /\ r.end \notin U
    <2> HIDE DEF U
    <2> QED BY <1>1, MaximalRangeAround
  <1>3. r.start \in Instants(r)
    BY RangeEnds DEF Instants
  <1>4. r.start \in DOMAIN state /\ state[r.start] = state[time]
    BY <1>2, <1>3
  <1>5. MaximalRun(r, state)
    <2>1. \A t \in Instants(r) : t \in DOMAIN state /\ state[t] = state[r.start]
      BY <1>2, <1>4
    <2>2. \A t \in {r.start - 1, r.end} : t \in DOMAIN state => state[t] # state[r.start]
      BY <1>2, <1>4
    <2> HIDE DEF state
    <2> QED BY <2>1, <2>2 DEF MaximalRun
  <1> DEFINE g == [range |-> r, state |-> state[r.start], scope |-> scope]
  <1>6. g \in SegmentsOfScope(requested, scope, observations)
    BY <1>4, <1>5 DEF SegmentsOfScope
  <1>7. g \in StateSegments(requested, observations, expected)
    <2> HIDE DEF g
    <2> QED BY <1>6 DEF StateSegments
  <1>8. g.scope = scope /\ time \in Instants(g.range)
    BY <1>2
  <1> HIDE DEF g
  <1> QED BY <1>7, <1>8

-----------------------------------------------------------------------------
\* A summary is a data state, and it is Complete only when every segment is.
LEMMA SummaryFacts ==
  \A segments : (\A g \in segments : g.state \in DataState) =>
    /\ Summarize(segments) \in DataState
    /\ Summarize(segments) = "Complete" => \A g \in segments : g.state = "Complete"
  <1> SUFFICES ASSUME NEW segments, \A g \in segments : g.state \in DataState
               PROVE  /\ Summarize(segments) \in DataState
                      /\ Summarize(segments) = "Complete" => \A g \in segments : g.state = "Complete"
    OBVIOUS
  <1> DEFINE states == {s.state : s \in segments}
             Top(s) == \A g \in segments : SummarySeverity[g.state] <= SummarySeverity[s]
  <1>1. states \in SUBSET DataState
    OBVIOUS
  <1>2. segments # {} => \E s \in states : Top(s)
    <2> SUFFICES ASSUME segments # {} PROVE \E s \in states : Top(s)
      OBVIOUS
    <2>1. CASE "Corrupt" \in states
      BY <2>1 DEF DataState, SummarySeverity
    <2>2. CASE "Missing" \in states /\ "Corrupt" \notin states
      BY <2>2 DEF DataState, SummarySeverity
    <2>3. CASE "Degraded" \in states /\ {"Missing", "Corrupt"} \intersect states = {}
      BY <2>3 DEF DataState, SummarySeverity
    <2>4. CASE "Unknown" \in states /\ {"Degraded", "Missing", "Corrupt"} \intersect states = {}
      BY <2>4 DEF DataState, SummarySeverity
    <2>5. CASE {"Unknown", "Degraded", "Missing", "Corrupt"} \intersect states = {}
      <3>1. \A g \in segments : g.state = "Complete"
        BY <2>5 DEF DataState
      <3> QED BY <3>1 DEF SummarySeverity
    <2> QED BY <2>1, <2>2, <2>3, <2>4, <2>5
  <1>3. segments # {} => Summarize(segments) \in states /\ Top(Summarize(segments))
    <2> SUFFICES ASSUME segments # {} PROVE Summarize(segments) \in states /\ Top(Summarize(segments))
      OBVIOUS
    <2>1. Summarize(segments) = CHOOSE s \in states : Top(s)
      BY DEF Summarize
    <2> HIDE DEF states, Top
    <2> QED BY <1>2, <2>1
  <1>4. segments # {} /\ Summarize(segments) = "Complete" => \A g \in segments : g.state = "Complete"
    BY <1>3 DEF DataState, SummarySeverity
  <1> QED BY <1>1, <1>3, <1>4 DEF Summarize, DataState
=============================================================================
