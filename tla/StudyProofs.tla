---------------------------- MODULE StudyProofs ----------------------------
(***************************************************************************)
(* What is read of growing histories: the outcomes reported of decisions,  *)
(* the reactions to an event and their statistics, for any tables, row     *)
(* limits, horizons and order of arrival.                                  *)
(*                                                                         *)
(* Outcomes.  The one read of a batch, cut down to a decision's window, is *)
(* the read of that window: both are ordered alike, and the limit of the   *)
(* batch is checked on all of its rows (BatchReadsAlone).  The cohorts of  *)
(* a decision depend on the last row of each series alone, and a read that *)
(* was not cut short has it (ContextRowsSuffice, CohortsFollow).           *)
(*                                                                         *)
(* Reactions.  Rows are selected by time and number, so that a query needs *)
(* only enough rows around the event (EnoughRows, SelectionsAgree).  What  *)
(* an available reaction shows is the first row from its target on, under  *)
(* the conditions that ReactionsMean lists; a row stored later changes it  *)
(* only by coming before that row (LaterRow, ReactionsStay).               *)
(*                                                                         *)
(* Statistics.  The filter of overlapping events is a recursion over the   *)
(* events in their order.  That the rule has a solution is shown without   *)
(* induction: of the sets on which one exists, the largest is everything   *)
(* (ChainExists).  Any solution keeps what ChainKeeps says.                *)
(*                                                                         *)
(* Heuristics.  Once its horizons have passed, and rows can no longer come *)
(* so late, an evaluation is the one that the whole history gives          *)
(* (HeuristicInv): an outcome depends on the rows that it may still be     *)
(* taken from alone (SameOutcome), and what is stored later is not among   *)
(* them (HistoryStays).                                                    *)
(***************************************************************************)
EXTENDS EventStudy, HeuristicStudy, FiniteSetTheorems, WellFoundedInduction, TLAPS

-----------------------------------------------------------------------------
(* The typing of the tables.                                               *)

\* Rows are numbered and stamped, and there are finitely many of them.
Stamped(S) == IsFiniteSet(S) /\ \A r \in S : r.id \in Nat /\ r.ts \in Nat

OutcomesTyped ==
    /\ now \in Nat /\ Stamped(ticks) /\ Stamped(contextRows)
    /\ \A r \in contextRows : r.series \in Series /\ r.ts <= now
    /\ IsFiniteSet(decisions) /\ \A d \in decisions : d.ts \in Nat /\ d.ts <= now

-----------------------------------------------------------------------------
(* Finite orders.                                                          *)

\* A finite set has a first element of any strict order.
LEMMA FirstExists ==
  ASSUME NEW S, IsFiniteSet(S), S # {}, NEW R,
         \A x \in S : <<x, x>> \notin R,
         \A x, y, z \in S : <<x, y>> \in R /\ <<y, z>> \in R => <<x, z>> \in R
  PROVE  \E x \in S : \A y \in S : <<y, x>> \notin R
<1> DEFINE Below(x) == {y \in S : <<y, x>> \in R}
           C == {Below(x) : x \in S}
<1>1. C \subseteq FiniteSubsetsOf(S)
  <2> SUFFICES ASSUME NEW x \in S PROVE Below(x) \in FiniteSubsetsOf(S)
    OBVIOUS
  <2>1. Below(x) \in SUBSET S
    OBVIOUS
  <2>2. IsFiniteSet(Below(x))
    BY <2>1, FS_Subset
  <2> QED BY <2>1, <2>2 DEF FiniteSubsetsOf
<1>2. \E x \in S : Below(x) \in C
  OBVIOUS
<1>3. PICK c \in C : \A d \in C : ~(<<d, c>> \in StrictSubsetOrdering(S))
  <2> HIDE DEF C
  <2> QED BY <1>1, <1>2, FS_StrictSubsetOrderingWellFounded, WFMin
<1>4. PICK x \in S : c = Below(x)
  OBVIOUS
<1>5. ASSUME NEW y \in S, <<y, x>> \in R PROVE FALSE
  <2>1. Below(y) \in SUBSET S /\ Below(x) \in SUBSET S
    OBVIOUS
  <2>2. Below(y) \subseteq Below(x) /\ y \in Below(x) /\ y \notin Below(y)
    BY <1>5
  <2>3. <<Below(y), c>> \in StrictSubsetOrdering(S)
    BY <2>1, <2>2, <1>4 DEF StrictSubsetOrdering
  <2>4. Below(y) \in C
    OBVIOUS
  <2> QED BY <2>3, <2>4, <1>3
<1> QED BY <1>5

\* A finite set of times has an earliest and a latest.
LEMMA Extremes ==
  ASSUME NEW S \in SUBSET Int, IsFiniteSet(S), S # {}
  PROVE  /\ Min(S) \in S /\ \A x \in S : Min(S) <= x
         /\ Max(S) \in S /\ \A x \in S : x <= Max(S)
<1> DEFINE R == {p \in S \X S : p[1] < p[2]}
           Q == {p \in S \X S : p[1] > p[2]}
<1>0. \A x, y \in S : x \in Int /\ (<<x, y>> \in R <=> x < y) /\ (<<x, y>> \in Q <=> x > y)
  OBVIOUS
<1> HIDE DEF R, Q
<1>1. PICK x \in S : \A y \in S : <<y, x>> \notin R
  <2>1. /\ \A a \in S : <<a, a>> \notin R
        /\ \A a, b, c \in S : <<a, b>> \in R /\ <<b, c>> \in R => <<a, c>> \in R
    BY <1>0
  <2> QED BY <2>1, FirstExists
<1>2. PICK z \in S : \A y \in S : <<y, z>> \notin Q
  <2>1. /\ \A a \in S : <<a, a>> \notin Q
        /\ \A a, b, c \in S : <<a, b>> \in Q /\ <<b, c>> \in Q => <<a, c>> \in Q
    BY <1>0
  <2> QED BY <2>1, FirstExists
<1>3. Min(S) \in S /\ \A y \in S : Min(S) <= y
  <2>1. ASSUME NEW y \in S PROVE x <= y
    <3>1. x \in Int /\ y \in Int /\ ~(y < x)
      BY <1>0, <1>1
    <3> QED BY <3>1
  <2> QED BY <2>1 DEF Min
<1>4. Max(S) \in S /\ \A y \in S : y <= Max(S)
  <2>1. ASSUME NEW y \in S PROVE z >= y
    <3>1. z \in Int /\ y \in Int /\ ~(y > z)
      BY <1>0, <1>2
    <3> QED BY <3>1
  <2>2. Max(S) \in S /\ \A y \in S : Max(S) >= y
    BY <2>1 DEF Max
  <2> QED BY <2>2, <1>0
<1> QED BY <1>3, <1>4

\* Of finitely many rows, one is first of all and one last.
LEMMA EndsOfRows ==
  ASSUME NEW S, Stamped(S), S # {}
  PROVE  /\ \E r \in S : \A q \in S : ~Earlier(q, r)
         /\ \E r \in S : \A q \in S : ~Earlier(r, q)
<1> DEFINE R == {p \in S \X S : Earlier(p[1], p[2])}
           Q == {p \in S \X S : Earlier(p[2], p[1])}
<1>0. \A x, y \in S : (<<x, y>> \in R <=> Earlier(x, y)) /\ (<<x, y>> \in Q <=> Earlier(y, x))
  OBVIOUS
<1> HIDE DEF R, Q
<1>a. /\ \A x \in S : ~Earlier(x, x)
      /\ \A x, y, z \in S : Earlier(x, y) /\ Earlier(y, z) => Earlier(x, z)
  BY DEF Earlier, Stamped
<1>1. \E x \in S : \A y \in S : <<y, x>> \notin R
  <2>1. /\ \A a \in S : <<a, a>> \notin R
        /\ \A a, b, c \in S : <<a, b>> \in R /\ <<b, c>> \in R => <<a, c>> \in R
    BY <1>0, <1>a
  <2> QED BY <2>1, FirstExists DEF Stamped
<1>2. \E x \in S : \A y \in S : <<y, x>> \notin Q
  <2>1. /\ \A a \in S : <<a, a>> \notin Q
        /\ \A a, b, c \in S : <<a, b>> \in Q /\ <<b, c>> \in Q => <<a, c>> \in Q
    BY <1>0, <1>a
  <2> QED BY <2>1, FirstExists DEF Stamped
<1> QED BY <1>0, <1>1, <1>2

\* A part of such rows is again one.
LEMMA SubStamped == ASSUME NEW S, Stamped(S), NEW T \in SUBSET S PROVE Stamped(T)
BY FS_Subset DEF Stamped

\* A row that is not last has a last one after it.
LEMMA LastAfter ==
  ASSUME NEW S, Stamped(S), NEW r \in S, \E q \in S : Earlier(r, q)
  PROVE  \E m \in S : Earlier(r, m) /\ \A q \in S : ~Earlier(m, q)
<1> DEFINE T == {q \in S : Earlier(r, q)}
<1>1. T # {} /\ Stamped(T)
  BY SubStamped
<1>2. PICK m \in T : \A q \in T : ~Earlier(m, q)
  <2> HIDE DEF T
  <2> QED BY <1>1, EndsOfRows
<1>3. ASSUME NEW q \in S, Earlier(m, q) PROVE Earlier(r, q)
  BY <1>3 DEF Earlier, Stamped
<1> QED BY <1>2, <1>3

\* A row that is not first has a first one before it.
LEMMA FirstBefore ==
  ASSUME NEW S, Stamped(S), NEW r \in S, \E q \in S : Earlier(q, r)
  PROVE  \E m \in S : Earlier(m, r) /\ \A q \in S : ~Earlier(q, m)
<1> DEFINE T == {q \in S : Earlier(q, r)}
<1>1. T # {} /\ Stamped(T)
  BY SubStamped
<1>2. PICK m \in T : \A q \in T : ~Earlier(q, m)
  <2> HIDE DEF T
  <2> QED BY <1>1, EndsOfRows
<1>3. ASSUME NEW q \in S, Earlier(q, m) PROVE Earlier(q, r)
  BY <1>3 DEF Earlier, Stamped
<1> QED BY <1>2, <1>3

\* A read that returns fewer rows than its limit returns them all,
LEMMA ShortRead ==
  ASSUME NEW S, Stamped(S), NEW n \in Nat, Cardinality(FirstRows(S, n)) < n
  PROVE  FirstRows(S, n) = S
<1>1. SUFFICES ASSUME S \ FirstRows(S, n) # {} PROVE FALSE
  BY DEF FirstRows
<1>2. PICK r \in S \ FirstRows(S, n) : \A q \in S \ FirstRows(S, n) : ~Earlier(q, r)
  <2>1. Stamped(S \ FirstRows(S, n))
    BY SubStamped
  <2> QED BY <1>1, <2>1, EndsOfRows
<1> DEFINE B == {q \in S : Earlier(q, r)}
           F == FirstRows(S, n)
<1>3. B \subseteq F /\ F \subseteq S /\ ~(Cardinality(B) < n)
  BY <1>2 DEF FirstRows
<1>4. IsFiniteSet(F) /\ IsFiniteSet(B)
  BY <1>3, FS_Subset DEF Stamped
<1>5. Cardinality(B) \in Nat /\ Cardinality(F) \in Nat /\ Cardinality(B) <= Cardinality(F)
  <2> HIDE DEF B, F
  <2> QED BY <1>3, <1>4, FS_Subset, FS_CardinalityType
<1> QED BY <1>3, <1>5

\* and so does one of no more rows than its limit.
LEMMA FewRows ==
  ASSUME NEW S, Stamped(S), NEW n \in Nat, Cardinality(S) <= n
  PROVE  FirstRows(S, n) = S
<1> SUFFICES ASSUME NEW r \in S PROVE Cardinality({q \in S : Earlier(q, r)}) < n
  BY DEF FirstRows
<1> DEFINE B == {q \in S : Earlier(q, r)}
<1>1. B \in SUBSET S /\ r \notin B
  BY DEF Earlier, Stamped
<1>2. B # S
  BY <1>1
<1> HIDE DEF B
<1>3. Cardinality(B) <= Cardinality(S) /\ Cardinality(B) # Cardinality(S)
      /\ Cardinality(B) \in Nat /\ Cardinality(S) \in Nat
  BY <1>1, <1>2, FS_Subset, FS_CardinalityType DEF Stamped
<1> QED BY <1>3 DEF B

-----------------------------------------------------------------------------
(* The context read for a span of time.                                    *)

\* Without truncation, the last row of a series at a time of the span is read.
LEMMA ContextRowsSuffice ==
  ASSUME Stamped(contextRows), \A r \in contextRows : r.series \in Series,
         OutcomesAssumption,
         NEW start \in Int, NEW end \in Int, NEW ts \in Int, start <= ts, ts <= end,
         ~LoadContextHistory(start, end).truncated,
         NEW s \in Series
  PROVE  LatestBefore(Of(LoadContextHistory(start, end).rows, s), ts)
         = LatestBefore(Of({r \in contextRows : r.ts <= ts}, s), ts)
<1> DEFINE Inside(src) == {r \in contextRows : SourceOf(r.series) = src
                                               /\ start <= r.ts /\ r.ts <= end}
           read == LoadContextHistory(start, end).rows
           A == {r \in Of(read, s) : r.ts <= ts}
           B == {r \in contextRows : r.series = s /\ r.ts <= ts}
<1>1. ASSUME NEW src \in DOMAIN MaxAge PROVE FirstRows(Inside(src), ContextMaxRows) = Inside(src)
  <2>1. ~(Cardinality(Inside(src)) > ContextMaxRows)
    BY DEF LoadContextHistory
  <2>2. Stamped(Inside(src))
    BY SubStamped
  <2>3. Cardinality(Inside(src)) \in Nat
    BY <2>2, FS_CardinalityType DEF Stamped
  <2> HIDE DEF Inside
  <2> QED BY <2>1, <2>2, <2>3, FewRows DEF OutcomesAssumption
<1>2. read = Seeds(start) \cup UNION {Inside(src) : src \in DOMAIN MaxAge}
  <2>1. read = Seeds(start) \cup UNION {FirstRows(Inside(src), ContextMaxRows) : src \in DOMAIN MaxAge}
    BY DEF LoadContextHistory
  <2> HIDE DEF Inside, read
  <2> QED BY <2>1, <1>1
<1>3. SourceOf(s) \in DOMAIN MaxAge
  BY DEF SourceOf, Series, OutcomesAssumption
<1>4. \A r \in read : r \in contextRows
  <2> HIDE DEF read
  <2> QED BY <1>2 DEF Seeds
<1>5. ASSUME NEW r \in B, start <= r.ts PROVE r \in A
  <2>1. r \in Inside(SourceOf(s))
    BY <1>5 DEF Stamped
  <2>2. r \in read
    <3> HIDE DEF read, Inside
    <3> QED BY <2>1, <1>2, <1>3
  <2> QED BY <2>2 DEF Of
<1>6. A \subseteq B /\ Stamped(B)
  <2>1. A \subseteq B
    <3> HIDE DEF read
    <3> QED BY <1>4 DEF Of
  <2> QED BY <2>1, SubStamped
<1>7. ASSUME NEW r \in B, \A q \in B : ~Earlier(r, q) PROVE r \in A
  <2>1. CASE start <= r.ts
    BY <2>1, <1>5
  <2>2. CASE r.ts < start
    <3>1. ASSUME NEW q \in contextRows, q.series = r.series, q.ts < start PROVE ~Earlier(r, q)
      <4>1. q.ts <= ts
        BY <3>1 DEF Stamped
      <4> QED BY <4>1, <3>1, <1>7
    <3>2. r \in Seeds(start)
      BY <2>2, <3>1 DEF Seeds
    <3>3. r \in read
      <4> HIDE DEF read
      <4> QED BY <3>2, <1>2
    <3> QED BY <3>3 DEF Of
  <2>3. r.ts \in Int
    BY DEF Stamped
  <2> QED BY <2>1, <2>2, <2>3
<1>8. LatestBefore(Of(read, s), ts) = {r \in A : \A q \in A : ~Earlier(r, q)}
  BY DEF LatestBefore
<1>9. LatestBefore(Of({r \in contextRows : r.ts <= ts}, s), ts)
      = {r \in B : \A q \in B : ~Earlier(r, q)}
  BY DEF LatestBefore, Of
<1>10. ASSUME NEW r \in A, \A q \in A : ~Earlier(r, q), NEW q \in B, Earlier(r, q) PROVE FALSE
  <2>1. PICK m \in B : Earlier(r, m) /\ \A z \in B : ~Earlier(m, z)
    <3> HIDE DEF A, B
    <3> QED BY <1>6, <1>10, LastAfter
  <2>2. m \in A
    <3> HIDE DEF A, B
    <3> QED BY <2>1, <1>7
  <2> QED BY <2>1, <2>2, <1>10
<1>11. {r \in A : \A q \in A : ~Earlier(r, q)} = {r \in B : \A q \in B : ~Earlier(r, q)}
  <2> HIDE DEF A, B
  <2> QED BY <1>6, <1>7, <1>10
<1> QED BY <1>8, <1>9, <1>11

\* The cohorts of a decision depend on the last row of each series alone.
LEMMA CohortsFollow ==
  ASSUME NEW d, NEW rows, NEW others,
         \A s \in Series : LatestBefore(Of(rows, s), d.ts) = LatestBefore(Of(others, s), d.ts)
  PROVE  GovernedContext(d, rows) = GovernedContext(d, others)
<1>0. ASSUME NEW s \in Series PROVE SeriesLabel(rows, d, s) = SeriesLabel(others, d, s)
  <2>1. LatestBefore(Of(rows, s), d.ts) = LatestBefore(Of(others, s), d.ts)
    OBVIOUS
  <2> QED BY ONLY <2>1 DEF SeriesLabel
<1>1. SeriesLabel(rows, d, "regime") = SeriesLabel(others, d, "regime")
  BY <1>0 DEF Series
<1>2. SeriesLabel(rows, d, "index") = SeriesLabel(others, d, "index")
  BY <1>0 DEF Series
<1>3. LatestBefore(Of(rows, "index"), d.ts) = LatestBefore(Of(others, "index"), d.ts)
  BY DEF Series
<1>4. ShockLabel(rows, d) = ShockLabel(others, d)
  BY <1>1, <1>2, <1>3 DEF ShockLabel
<1>5. {LatestBefore(Of(rows, c), d.ts) : c \in Coins} = {LatestBefore(Of(others, c), d.ts) : c \in Coins}
  BY DEF Series
<1>6. StableLabel(rows, d) = StableLabel(others, d)
  BY <1>5 DEF StableLabel
<1>7. ASSUME NEW f \in Fields PROVE GovernedContext(d, rows)[f] = GovernedContext(d, others)[f]
  <2>1. CASE f = "vol_regime"
    BY ONLY <2>1, <1>1 DEF GovernedContext, Fields
  <2>2. CASE f = "shock_state"
    BY ONLY <2>2, <1>4 DEF GovernedContext, Fields
  <2>3. CASE f = "tariff_escalation"
    BY ONLY <2>3, <1>2 DEF GovernedContext, Fields
  <2>4. CASE f = "stablecoin_health"
    BY ONLY <2>4, <1>6 DEF GovernedContext, Fields
  <2>5. CASE f = "regime_signature"
    BY ONLY <2>5, <1>1, <1>4 DEF GovernedContext, Fields
  <2> QED BY <2>1, <2>2, <2>3, <2>4, <2>5 DEF Fields
<1> QED BY <1>7, ZenonT(60) DEF GovernedContext, Fields

-----------------------------------------------------------------------------
(* The prices of a batch.                                                  *)

\* A function on a finite set has finitely many values.
LEMMA ImageFinite ==
  ASSUME NEW S, IsFiniteSet(S), NEW f, DOMAIN f = S
  PROVE  IsFiniteSet({f[x] : x \in S})
<1> DEFINE T == {f[x] : x \in S}
           g == [x \in S |-> f[x]]
<1>1. g \in Surjection(S, T)
  BY DEF Surjection
<1> HIDE DEF g, T
<1>2. IsFiniteSet(T)
  BY <1>1, FS_Surjection
<1> QED BY <1>2 DEF T

\* The targets of a batch lie between the first and the last of them.
LEMMA TargetsBounded ==
  ASSUME OutcomesAssumption, OutcomesTyped, NEW R \in SUBSET decisions,
         NEW targets, targets = {Target(d, h) : d \in R, h \in Horizons}
  PROVE  \A d \in R, h \in Horizons :
             /\ Target(d, h) \in Nat
             /\ Min(targets) <= Target(d, h) /\ Target(d, h) <= Max(targets)
             /\ Min(targets) \in Int /\ Max(targets) \in Int
<1> DEFINE P == R \X Horizons
           f == [p \in P |-> Target(p[1], p[2])]
<1>1. IsFiniteSet(P)
  BY FS_Subset, FS_Product DEF OutcomesTyped, OutcomesAssumption, Horizons
<1>2. IsFiniteSet({f[x] : x \in P})
  <2>1. DOMAIN f = P
    OBVIOUS
  <2> HIDE DEF f, P
  <2> QED BY <1>1, <2>1, ImageFinite
<1>3. {f[x] : x \in P} = targets
  <2>1. ASSUME NEW d \in R, NEW h \in Horizons PROVE Target(d, h) \in {f[x] : x \in P}
    <3>1. <<d, h>> \in P /\ f[<<d, h>>] = Target(d, h)
      OBVIOUS
    <3> QED BY <3>1
  <2>2. \A t \in targets : t \in {f[x] : x \in P}
    BY <2>1
  <2>3. ASSUME NEW x \in P PROVE f[x] \in targets
    <3>1. x[1] \in R /\ x[2] \in Horizons /\ f[x] = Target(x[1], x[2])
      OBVIOUS
    <3> HIDE DEF P, f
    <3> QED BY <3>1
  <2>4. \A t \in {f[x] : x \in P} : t \in targets
    <3> HIDE DEF P, f
    <3> QED BY <2>3
  <2> HIDE DEF P, f
  <2> QED BY <2>2, <2>4, Zenon
<1>4. \A d \in R, h \in Horizons : Target(d, h) \in Nat
  BY DEF Target, OutcomesTyped, OutcomesAssumption, Horizons
<1>5. ASSUME NEW d \in R, NEW h \in Horizons
      PROVE  /\ Min(targets) <= Target(d, h) /\ Target(d, h) <= Max(targets)
             /\ Min(targets) \in Int /\ Max(targets) \in Int
  <2>1. targets \in SUBSET Int /\ Target(d, h) \in targets
    BY <1>4
  <2>2. IsFiniteSet(targets)
    <3> HIDE DEF f, P
    <3> QED BY <1>2, <1>3
  <2> QED BY <2>1, <2>2, Extremes
<1> QED BY <1>4, <1>5

\* The batch's one read, cut down to a window, is the read of that window.
LEMMA BatchReadsAlone ==
  ASSUME OutcomesAssumption, OutcomesTyped, NEW R \in SUBSET decisions
  PROVE  LoadBatch(R) = [d \in R |-> LoadHorizonPrices(d)]
<1> DEFINE targets == {Target(d, h) : d \in R, h \in Horizons}
           B == {t \in ticks : /\ t.symbol \in UNION {SymbolsOf(d) : d \in R}
                               /\ Min(targets) <= t.ts
                               /\ t.ts <= WindowEnd(Max(targets))}
           broad == BroadRows(R)
<1>1. CASE Cardinality(broad) > BatchMaxRows
  BY <1>1 DEF LoadBatch
<1>2. CASE ~(Cardinality(broad) > BatchMaxRows)
  <2>1. broad = FirstRows(B, BatchMaxRows + 1)
    BY DEF BroadRows
  <2>2. Stamped(B)
    <3>1. B \in SUBSET ticks
      OBVIOUS
    <3> HIDE DEF B
    <3> QED BY <3>1, SubStamped DEF OutcomesTyped
  <2>3. broad = B
    <3>1. broad \in SUBSET B
      BY <2>1 DEF FirstRows
    <3>2. Cardinality(broad) \in Nat
      <4> HIDE DEF broad, B
      <4> QED BY <3>1, <2>2, FS_Subset, FS_CardinalityType DEF Stamped
    <3>3. Cardinality(broad) < BatchMaxRows + 1 /\ BatchMaxRows + 1 \in Nat
      <4> HIDE DEF broad
      <4> QED BY <3>2, <1>2 DEF OutcomesAssumption
    <3> HIDE DEF broad, B
    <3> QED BY <3>3, <2>1, <2>2, ShortRead
  <2>4. ASSUME NEW d \in R, NEW h \in Horizons
        PROVE  {t \in broad : InWindow(t, d, h)} = {t \in ticks : InWindow(t, d, h)}
    <3>1. ASSUME NEW t \in ticks, InWindow(t, d, h) PROVE t \in B
      <4>1. t.symbol \in UNION {SymbolsOf(e) : e \in R}
        BY <3>1 DEF InWindow
      <4>2. /\ Target(d, h) \in Nat /\ Min(targets) \in Int /\ Max(targets) \in Int
            /\ Min(targets) <= Target(d, h) /\ Target(d, h) <= Max(targets)
        <5>1. targets = {Target(e, i) : e \in R, i \in Horizons}
          OBVIOUS
        <5> HIDE DEF targets
        <5> QED BY <5>1, TargetsBounded
      <4>3. t.ts \in Nat /\ Target(d, h) <= t.ts /\ t.ts <= Target(d, h) + Tolerance
        BY <3>1 DEF InWindow, WindowEnd, OutcomesTyped, Stamped
      <4>4. Min(targets) <= t.ts /\ t.ts <= WindowEnd(Max(targets))
        <5> HIDE DEF targets
        <5> QED BY <4>2, <4>3 DEF WindowEnd, OutcomesAssumption
      <4> QED BY <4>1, <4>4
    <3>2. B \subseteq ticks
      OBVIOUS
    <3> HIDE DEF B, broad
    <3> QED BY <3>1, <3>2, <2>3
  <2> HIDE DEF broad
  <2>5. LoadBatch(R) = [d \in R |-> [h \in Horizons |->
                FirstRows({t \in broad : InWindow(t, d, h)}, RowLimit)]]
    BY <1>2 DEF LoadBatch, broad
  <2> QED BY <2>4, <2>5 DEF LoadHorizonPrices
<1> QED BY <1>1, <1>2

-----------------------------------------------------------------------------
(* Typing.                                                                 *)

\* The tables start empty,
LEMMA OutcomesInitially == OutcomesInit => OutcomesTyped
BY FS_EmptySet DEF OutcomesInit, OutcomesTyped, Stamped

\* and every statement leaves finitely many rows, none stamped after its time.
LEMMA OutcomesTypedStep ==
  ASSUME OutcomesAssumption, OutcomesTyped, [OutcomesNext]_outcomeVars
  PROVE  OutcomesTyped'
<1>1. ASSUME NEW s, NEW v, NEW p, NEW t \in now - Delay .. now, t >= 0, SaveTick(s, v, p, t)
      PROVE  OutcomesTyped'
  <2> DEFINE r == [id |-> Cardinality(ticks) + 1, symbol |-> s, venue |-> v, price |-> p, ts |-> t]
  <2>1. Cardinality(ticks) \in Nat
    BY FS_CardinalityType DEF OutcomesTyped, Stamped
  <2>2. r.id \in Nat /\ r.ts \in Nat
    BY <1>1, <2>1 DEF OutcomesTyped, OutcomesAssumption
  <2>3. ticks' = ticks \cup {r}
    BY <1>1 DEF SaveTick
  <2>4. UNCHANGED <<now, contextRows, decisions>>
    BY <1>1 DEF SaveTick
  <2> HIDE DEF r
  <2>5. Stamped(ticks')
    BY <2>2, <2>3, FS_AddElement DEF OutcomesTyped, Stamped
  <2> QED BY <2>4, <2>5 DEF OutcomesTyped, Stamped
<1>2. ASSUME NEW s \in Series, NEW v, SaveContext(s, v)
      PROVE  OutcomesTyped'
  <2> DEFINE r == [id |-> Cardinality(contextRows) + 1, series |-> s, ts |-> now, value |-> v]
  <2>1. Cardinality(contextRows) \in Nat
    BY FS_CardinalityType DEF OutcomesTyped, Stamped
  <2>2. r.id \in Nat /\ r.ts \in Nat /\ r.series \in Series /\ r.ts <= now
    BY <1>2, <2>1 DEF OutcomesTyped, OutcomesAssumption
  <2>3. contextRows' = contextRows \cup {r}
    BY <1>2 DEF SaveContext
  <2>4. UNCHANGED <<now, ticks, decisions>>
    BY <1>2 DEF SaveContext
  <2> HIDE DEF r
  <2>5. Stamped(contextRows') /\ \A q \in contextRows' : q.series \in Series /\ q.ts <= now
    BY <2>2, <2>3, FS_AddElement DEF OutcomesTyped, Stamped
  <2> QED BY <2>4, <2>5 DEF OutcomesTyped, Stamped
<1>3. ASSUME NEW final \in Finals, RecordFinal(final)
      PROVE  OutcomesTyped'
  <2> DEFINE d == WithTime(final, now)
  <2>1. d.ts = now
    BY DEF WithTime
  <2>2. decisions' = decisions \cup {d} /\ UNCHANGED <<now, ticks, contextRows>>
    BY <1>3 DEF RecordFinal
  <2> HIDE DEF d
  <2> QED BY <2>1, <2>2, FS_AddElement DEF OutcomesTyped, Stamped
<1>4. CASE Wait
  BY <1>4 DEF Wait, OutcomesTyped, Stamped
<1>5. CASE UNCHANGED outcomeVars
  BY <1>5 DEF outcomeVars, OutcomesTyped, Stamped
<1> QED BY <1>1, <1>2, <1>3, <1>4, <1>5 DEF OutcomesNext

-----------------------------------------------------------------------------

\* Typed tables are read alike in a batch and alone.
LEMMA SameAsAlone ==
  ASSUME OutcomesAssumption, OutcomesTyped PROVE ReportedAsAlone
<1> SUFFICES ASSUME NEW w \in Windows
             PROVE  LET R == Listed(w[1], w[2])
                        history == Context(R)
                    IN /\ LoadBatch(R) = [d \in R |-> LoadHorizonPrices(d)]
                       /\ \A d \in R :
                              \/ history.truncated
                              \/ GovernedContext(d, history.rows)
                                    = GovernedContext(d, {r \in contextRows : r.ts <= d.ts})
  BY DEF ReportedAsAlone
<1> DEFINE R == Listed(w[1], w[2])
<1>1. R \in SUBSET decisions
  BY DEF Listed
<1> HIDE DEF R
<1>2. LoadBatch(R) = [d \in R |-> LoadHorizonPrices(d)]
  BY <1>1, BatchReadsAlone
<1>3. ASSUME NEW d \in R, ~Context(R).truncated
      PROVE  GovernedContext(d, Context(R).rows)
             = GovernedContext(d, {r \in contextRows : r.ts <= d.ts})
  <2> DEFINE T == {e.ts : e \in R}
             f == [e \in R |-> e.ts]
  <2>1. IsFiniteSet({f[e] : e \in R})
    <3>1. IsFiniteSet(R) /\ DOMAIN f = R
      BY <1>1, FS_Subset DEF OutcomesTyped
    <3> HIDE DEF f
    <3> QED BY <3>1, ImageFinite
  <2>2. T = {f[e] : e \in R} /\ T \in SUBSET Int /\ d.ts \in T
    BY <1>1 DEF OutcomesTyped
  <2>3. Min(T) \in Int /\ Max(T) \in Int /\ Min(T) <= d.ts /\ d.ts <= Max(T) /\ d.ts \in Int
    <3> HIDE DEF T, f
    <3> QED BY <2>1, <2>2, Extremes
  <2>4. Context(R) = LoadContextHistory(Min(T), Max(T))
    BY DEF Context
  <2> HIDE DEF T
  <2>5. \A s \in Series : LatestBefore(Of(Context(R).rows, s), d.ts)
                            = LatestBefore(Of({r \in contextRows : r.ts <= d.ts}, s), d.ts)
    BY <1>3, <2>3, <2>4, ContextRowsSuffice DEF OutcomesTyped
  <2> QED BY <2>5, CohortsFollow
<1> QED BY <1>2, <1>3 DEF R

\* What a report says of the prices and the context of a decision does not
\* depend on the decisions that are reported with it.
THEOREM BatchAndWindowChangeNothing == OutcomesSpec => []ReportedAsAlone
<1>1. OutcomesInit => OutcomesTyped
  BY OutcomesInitially
<1>2. OutcomesTyped /\ [OutcomesNext]_outcomeVars => OutcomesTyped'
  BY OutcomesAssumption, OutcomesTypedStep
<1>3. OutcomesTyped => ReportedAsAlone
  BY OutcomesAssumption, SameAsAlone
<1> QED BY <1>1, <1>2, <1>3, PTL DEF OutcomesSpec

-----------------------------------------------------------------------------
(* The reaction of one series.                                             *)

\* What an event needs of rows to have a reaction at a horizon: a reference no
\* older than allowed, and a row at the target that is not too late.
Referred(rows, e, maxAge) ==
    LastAt(rows, e.ts) # {} /\ \A r \in LastAt(rows, e.ts) : e.ts - r.ts <= maxAge
InTime(rows, e, h) ==
    FirstAt(rows, Due(e, h)) # {} /\ \A o \in FirstAt(rows, Due(e, h)) : o.ts - Due(e, h) <= MaxLag

\* The reaction of an event that has one.
Reaction(rows, e, h) ==
    Available(CHOOSE r \in LastAt(rows, e.ts) : TRUE, CHOOSE o \in FirstAt(rows, Due(e, h)) : TRUE)

\* Whatever coverage is named, a selection is available where the rows refer to
\* the event and hit its target.
LEMMA SelectionMeans ==
  ASSUME OutcomesAssumption, StudyAssumption,
         NEW rows, Stamped(rows), NEW e, e.ts \in Nat, NEW maxAge \in Int, NEW covered,
         covered # {} => {o.ts : o \in rows} \subseteq covered,
         covered \in SUBSET Nat, IsFiniteSet(covered), NEW h \in Horizons
  PROVE  LET x == SelectEventPoints(rows, e, covered, maxAge)[h]
         IN /\ x.status = "available" <=>
                   ~(Due(e, h) > now) /\ Referred(rows, e, maxAge) /\ InTime(rows, e, h)
            /\ x.status = "available" => x = Reaction(rows, e, h)
            /\ x.status = "not_matured" <=> Due(e, h) > now
<1> DEFINE known == IF covered = {} THEN {o.ts : o \in rows} ELSE covered
           missing == MissingReference(rows, e, covered, maxAge)
<1>1. known \in SUBSET Int /\ {o.ts : o \in rows} \subseteq known
  BY DEF Stamped
<1>2. IsFiniteSet(known)
  <2> DEFINE f == [o \in rows |-> o.ts]
  <2>1. IsFiniteSet({f[o] : o \in rows})
    <3>1. IsFiniteSet(rows) /\ DOMAIN f = rows
      BY DEF Stamped
    <3> HIDE DEF f
    <3> QED BY <3>1, ImageFinite
  <2> QED BY <2>1
<1>3. known # {} /\ e.ts < Min(known) => LastAt(rows, e.ts) = {}
  <2> SUFFICES ASSUME known # {}, e.ts < Min(known), NEW o \in rows, o.ts <= e.ts PROVE FALSE
    BY DEF LastAt
  <2>1. o.ts \in known /\ o.ts \in Int
    BY <1>1
  <2>2. Min(known) <= o.ts /\ Min(known) \in Int
    <3> HIDE DEF known
    <3> QED BY <1>1, <1>2, <2>1, Extremes
  <2> HIDE DEF known
  <2> QED BY <2>1, <2>2
<1>4. missing = "none" <=> Referred(rows, e, maxAge)
  <2>1. missing = IF known # {} /\ e.ts < Min(known) THEN "event_predates_dataset"
                  ELSE IF LastAt(rows, e.ts) = {} THEN "no_valid_pre_event_reference"
                  ELSE IF \E r \in LastAt(rows, e.ts) : e.ts - r.ts > maxAge THEN "reference_stale"
                  ELSE "none"
    BY DEF MissingReference
  <2>2. \A r \in LastAt(rows, e.ts) : e.ts - r.ts <= maxAge <=> ~(e.ts - r.ts > maxAge)
    BY DEF LastAt, Stamped
  <2> HIDE DEF known, missing
  <2> QED BY <1>3, <2>1, <2>2 DEF Referred
<1>5. SelectEventPoints(rows, e, covered, maxAge)[h] =
        IF Due(e, h) > now THEN Unseen("not_matured", "horizon_not_matured")
        ELSE IF missing # "none" THEN Unseen("unavailable", missing)
        ELSE IF FirstAt(rows, Due(e, h)) = {} THEN Unseen("unavaile", "history_not_yet_available")
        ELSE IF \E o \in FirstAt(rows, Due(e, h)) : o.ts - Due(e, h) > MaxLag
             THEN Unseen("unavailable", "no_observation_within_target_tolerance")
        ELSE Reaction(rows, e, h)
  BY DEF SelectEventPoints, Reaction
<1>6. \A o \in FirstAt(rows, Due(e, h)) : o.ts - Due(e, h) <= MaxLag <=> ~(o.ts - Due(e, h) > MaxLag)
  BY DEF FirstAt, Stamped, Due, OutcomesAssumption, StudyAssumption, Horizons
<1>7. InTime(rows, e, h) <=> /\ ~(FirstAt(rows, Due(e, h)) = {})
                          /\ ~(\E o \in FirstAt(rows, Due(e, h)) : o.ts - Due(e, h) > MaxLag)
  BY <1>6 DEF InTime
<1>8. Reaction(rows, e, h).status = "available"
  BY DEF Reaction, Available
<1> DEFINE none == FirstAt(rows, Due(e, h)) = {}
           late == \E o \in FirstAt(rows, Due(e, h)) : o.ts - Due(e, h) > MaxLag
           unripe == Due(e, h) > now
           hit == InTime(rows, e, h)
           x == SelectEventPoints(rows, e, covered, maxAge)[h]
           y == Reaction(rows, e, h)
<1>9. /\ hit <=> ~none /\ ~late
      /\ x = IF unripe THEN Unseen("not_matured", "horizon_not_matured")
             ELSE IF missing # "none" THEN Unseen("unavailable", missing)
             ELSE IF none THEN Unseen("unavaile", "history_not_yet_available")
             ELSE IF late
                  THEN Unseen("unavailable", "no_observation_within_target_tolerance")
             ELSE y
      /\ y.status = "available"
  BY <1>5, <1>7, <1>8
<1> HIDE DEF missing, none, late, unripe, hit, x, y
<1>10. /\ x.status = "available" <=> ~unripe /\ Referred(rows, e, maxAge) /\ hit
       /\ x.status = "available" => x = y
       /\ x.status = "not_matured" <=> unripe
  BY <1>4, <1>9 DEF Unseen
<1> QED BY <1>10 DEF unripe, hit, x, y

\* The last rows at a time: there are some if any row is that old, no row is
\* later, and a part of the rows that holds them has the same.
LEMMA LastRows ==
  ASSUME NEW S, Stamped(S), NEW T \in SUBSET S, NEW t \in Int
  PROVE  /\ \A r \in S : r.ts <= t => /\ LastAt(S, t) # {}
                                       /\ \A m \in LastAt(S, t) : r.ts <= m.ts
         /\ LastAt(S, t) \subseteq T => LastAt(T, t) = LastAt(S, t)
<1> DEFINE B == {o \in S : o.ts <= t}
           C == {o \in T : o.ts <= t}
<1>1. Stamped(B) /\ C \subseteq B
  BY SubStamped
<1>2. /\ LastAt(S, t) = {o \in B : \A p \in B : ~Earlier(o, p)}
      /\ LastAt(T, t) = {o \in C : \A p \in C : ~Earlier(o, p)}
      /\ \A o \in B : o \in T => o \in C
  BY DEF LastAt
<1>3. \A r \in S : r.ts <= t <=> r \in B
  OBVIOUS
<1> HIDE DEF B, C
<1>4. ASSUME NEW r \in B
      PROVE LastAt(S, t) # {} /\ \A m \in LastAt(S, t) : r.ts <= m.ts
  <2>1. LastAt(S, t) # {}
    BY <1>1, <1>2, EndsOfRows
  <2>2. ASSUME NEW m \in LastAt(S, t) PROVE r.ts <= m.ts
    BY <1>1, <1>2 DEF Earlier, Stamped
  <2> QED BY <2>1, <2>2
<1>5. ASSUME LastAt(S, t) \subseteq T PROVE LastAt(T, t) = LastAt(S, t)
  <2>1. LastAt(S, t) \subseteq LastAt(T, t)
    BY <1>1, <1>2, <1>5
  <2>2. ASSUME NEW m \in C, NEW q \in B, Earlier(m, q) PROVE m \notin LastAt(T, t)
    <3>1. PICK z \in B : Earlier(m, z) /\ \A y \in B : ~Earlier(z, y)
      BY <1>1, <2>2, LastAfter
    <3> QED BY <3>1, <1>2, <1>5
  <2> QED BY <2>1, <2>2, <1>1, <1>2
<1> QED BY <1>3, <1>4, <1>5

\* and the first rows from a time.
LEMMA RowsFrom ==
  ASSUME NEW S, Stamped(S), NEW T \in SUBSET S, NEW t \in Int
  PROVE  /\ \A r \in S : r.ts >= t => /\ FirstAt(S, t) # {}
                                       /\ \A m \in FirstAt(S, t) : m.ts <= r.ts
         /\ FirstAt(S, t) \subseteq T => FirstAt(T, t) = FirstAt(S, t)
<1> DEFINE B == {o \in S : o.ts >= t}
           C == {o \in T : o.ts >= t}
<1>1. Stamped(B) /\ C \subseteq B
  BY SubStamped
<1>2. /\ FirstAt(S, t) = {o \in B : \A p \in B : ~Earlier(p, o)}
      /\ FirstAt(T, t) = {o \in C : \A p \in C : ~Earlier(p, o)}
      /\ \A o \in B : o \in T => o \in C
  BY DEF FirstAt
<1>3. \A r \in S : r.ts >= t <=> r \in B
  OBVIOUS
<1> HIDE DEF B, C
<1>4. ASSUME NEW r \in B
      PROVE FirstAt(S, t) # {} /\ \A m \in FirstAt(S, t) : m.ts <= r.ts
  <2>1. FirstAt(S, t) # {}
    BY <1>1, <1>2, EndsOfRows
  <2>2. ASSUME NEW m \in FirstAt(S, t) PROVE m.ts <= r.ts
    BY <1>1, <1>2 DEF Earlier, Stamped
  <2> QED BY <2>1, <2>2
<1>5. ASSUME FirstAt(S, t) \subseteq T PROVE FirstAt(T, t) = FirstAt(S, t)
  <2>1. FirstAt(S, t) \subseteq FirstAt(T, t)
    BY <1>1, <1>2, <1>5
  <2>2. ASSUME NEW m \in C, NEW q \in B, Earlier(q, m) PROVE m \notin FirstAt(T, t)
    <3>1. PICK z \in B : Earlier(z, m) /\ \A y \in B : ~Earlier(y, z)
      BY <1>1, <2>2, FirstBefore
    <3> QED BY <3>1, <1>2, <1>5
  <2> QED BY <2>1, <2>2, <1>1, <1>2
<1> QED BY <1>3, <1>4, <1>5

\* A query that returns the reference of an event and its target row, where they
\* are young enough, returns all that the reaction needs.
LEMMA EnoughRows ==
  ASSUME OutcomesAssumption, StudyAssumption,
         NEW S, Stamped(S), NEW T \in SUBSET S, NEW e, e.ts \in Nat,
         NEW maxAge \in Int, NEW h \in Horizons,
         \A r \in LastAt(S, e.ts) : e.ts - r.ts <= maxAge => r \in T,
         \A o \in FirstAt(S, Due(e, h)) : o.ts - Due(e, h) <= MaxLag => o \in T
  PROVE  /\ Referred(T, e, maxAge) <=> Referred(S, e, maxAge)
         /\ Referred(S, e, maxAge) => LastAt(T, e.ts) = LastAt(S, e.ts)
         /\ InTime(T, e, h) <=> InTime(S, e, h)
         /\ InTime(S, e, h) => FirstAt(T, Due(e, h)) = FirstAt(S, Due(e, h))
         /\ Referred(S, e, maxAge) /\ InTime(S, e, h) => Reaction(T, e, h) = Reaction(S, e, h)
<1>0. Due(e, h) \in Int /\ MaxLag \in Int /\ e.ts \in Int
  BY DEF Due, OutcomesAssumption, StudyAssumption, Horizons
<1>1. Referred(S, e, maxAge) => LastAt(T, e.ts) = LastAt(S, e.ts)
  <2> SUFFICES ASSUME Referred(S, e, maxAge) PROVE LastAt(T, e.ts) = LastAt(S, e.ts)
    OBVIOUS
  <2>1. LastAt(S, e.ts) \subseteq T
    BY DEF Referred
  <2> QED BY <2>1, <1>0, LastRows
<1>2. Referred(T, e, maxAge) => Referred(S, e, maxAge)
  <2> SUFFICES ASSUME Referred(T, e, maxAge) PROVE Referred(S, e, maxAge)
    OBVIOUS
  <2>1. PICK r \in LastAt(T, e.ts) : e.ts - r.ts <= maxAge
    BY DEF Referred
  <2>2. r \in S /\ r.ts <= e.ts /\ r.ts \in Int
    BY DEF LastAt, Stamped
  <2>3. LastAt(S, e.ts) # {} /\ \A m \in LastAt(S, e.ts) : r.ts <= m.ts
    BY <2>2, <1>0, LastRows
  <2>4. ASSUME NEW m \in LastAt(S, e.ts) PROVE e.ts - m.ts <= maxAge
    <3>1. m.ts \in Int
      BY DEF LastAt, Stamped
    <3> QED BY <2>1, <2>2, <2>3, <3>1
  <2> QED BY <2>3, <2>4 DEF Referred
<1>3. InTime(S, e, h) => FirstAt(T, Due(e, h)) = FirstAt(S, Due(e, h))
  <2> SUFFICES ASSUME InTime(S, e, h) PROVE FirstAt(T, Due(e, h)) = FirstAt(S, Due(e, h))
    OBVIOUS
  <2>1. FirstAt(S, Due(e, h)) \subseteq T
    BY DEF InTime
  <2> QED BY <2>1, <1>0, RowsFrom
<1>4. InTime(T, e, h) => InTime(S, e, h)
  <2> SUFFICES ASSUME InTime(T, e, h) PROVE InTime(S, e, h)
    OBVIOUS
  <2>1. PICK o \in FirstAt(T, Due(e, h)) : o.ts - Due(e, h) <= MaxLag
    BY DEF InTime
  <2>2. o \in S /\ o.ts >= Due(e, h) /\ o.ts \in Int
    BY DEF FirstAt, Stamped
  <2>3. FirstAt(S, Due(e, h)) # {} /\ \A m \in FirstAt(S, Due(e, h)) : m.ts <= o.ts
    BY <2>2, <1>0, RowsFrom
  <2>4. ASSUME NEW m \in FirstAt(S, Due(e, h)) PROVE m.ts - Due(e, h) <= MaxLag
    <3>1. m.ts \in Int
      BY DEF FirstAt, Stamped
    <3> QED BY <2>1, <2>2, <2>3, <3>1, <1>0
  <2> QED BY <2>3, <2>4 DEF InTime
<1>5. (Referred(S, e, maxAge) => Referred(T, e, maxAge)) /\ (InTime(S, e, h) => InTime(T, e, h))
  BY <1>1, <1>3 DEF Referred, InTime
<1> QED BY <1>1, <1>2, <1>3, <1>4, <1>5 DEF Reaction

\* Two selections over rows that are enough of one history agree.
LEMMA SelectionsAgree ==
  ASSUME OutcomesAssumption, StudyAssumption,
         NEW S, Stamped(S), NEW T \in SUBSET S, NEW e, e.ts \in Nat,
         NEW maxAge \in Int, NEW all, NEW part,
         all = {} \/ all = {o.ts : o \in S}, part = {} \/ part = {o.ts : o \in S},
         \A r \in LastAt(S, e.ts) : e.ts - r.ts <= maxAge => r \in T,
         \A h \in Horizons : \A o \in FirstAt(S, Due(e, h)) : o.ts - Due(e, h) <= MaxLag => o \in T
  PROVE  SameReaction(SelectEventPoints(T, e, part, maxAge), SelectEventPoints(S, e, all, maxAge))
<1> SUFFICES ASSUME NEW h \in Horizons
             PROVE  LET x == SelectEventPoints(T, e, part, maxAge)[h]
                        y == SelectEventPoints(S, e, all, maxAge)[h]
                    IN IF "available" \in {x.status, y.status} THEN x = y
                       ELSE (x.status = "not_matured") = (y.status = "not_matured")
  BY DEF SameReaction
<1> DEFINE x == SelectEventPoints(T, e, part, maxAge)[h]
           y == SelectEventPoints(S, e, all, maxAge)[h]
           f == [o \in S |-> o.ts]
<1>1. {o.ts : o \in S} \in SUBSET Nat /\ IsFiniteSet({o.ts : o \in S}) /\ IsFiniteSet({})
  <2>1. IsFiniteSet({f[o] : o \in S})
    <3>1. IsFiniteSet(S) /\ DOMAIN f = S
      BY DEF Stamped
    <3> HIDE DEF f
    <3> QED BY <3>1, ImageFinite
  <2> QED BY <2>1, FS_EmptySet DEF Stamped
<1>2. Stamped(T) /\ {o.ts : o \in T} \subseteq {o.ts : o \in S}
  BY SubStamped
<1>3. /\ x.status = "available" <=>
            ~(Due(e, h) > now) /\ Referred(T, e, maxAge) /\ InTime(T, e, h)
      /\ x.status = "available" => x = Reaction(T, e, h)
      /\ x.status = "not_matured" <=> Due(e, h) > now
  <2>1. part \in SUBSET Nat /\ IsFiniteSet(part) /\ (part # {} => {o.ts : o \in T} \subseteq part)
    BY <1>1, <1>2
  <2> QED BY <1>2, <2>1, SelectionMeans
<1>4. /\ y.status = "available" <=>
            ~(Due(e, h) > now) /\ Referred(S, e, maxAge) /\ InTime(S, e, h)
      /\ y.status = "available" => y = Reaction(S, e, h)
      /\ y.status = "not_matured" <=> Due(e, h) > now
  <2>1. all \in SUBSET Nat /\ IsFiniteSet(all) /\ (all # {} => {o.ts : o \in S} \subseteq all)
    BY <1>1
  <2> QED BY <2>1, SelectionMeans
<1>5. /\ Referred(T, e, maxAge) <=> Referred(S, e, maxAge)
      /\ InTime(T, e, h) <=> InTime(S, e, h)
      /\ Referred(S, e, maxAge) /\ InTime(S, e, h) => Reaction(T, e, h) = Reaction(S, e, h)
  BY EnoughRows, SMTT(30)
<1> HIDE DEF x, y
<1>6. IF "available" \in {x.status, y.status} THEN x = y
      ELSE (x.status = "not_matured") = (y.status = "not_matured")
  BY ONLY <1>3, <1>4, <1>5
<1> QED BY <1>6 DEF x, y

\* The price analysis changes reasons, never a reaction.
LEMMA AnalysisAgrees ==
  ASSUME NEW rows, NEW e, NEW whole, NEW covered,
         SameReaction(SelectEventPoints(rows, e, {}, MaxReferenceAge), whole)
  PROVE  /\ SameReaction(AnalyzeSymbol(rows, e), whole)
         /\ SameReaction(PriceReasons(AnalyzeSymbol(rows, e), e, rows, covered), whole)
<1> SUFFICES ASSUME NEW h \in Horizons
             PROVE  LET a == AnalyzeSymbol(rows, e)[h]
                        p == PriceReasons(AnalyzeSymbol(rows, e), e, rows, covered)[h]
                        w == whole[h]
                    IN /\ IF "available" \in {a.status, w.status} THEN a = w
                          ELSE (a.status = "not_matured") = (w.status = "not_matured")
                       /\ IF "available" \in {p.status, w.status} THEN p = w
                          ELSE (p.status = "not_matured") = (w.status = "not_matured")
  BY DEF SameReaction
<1> DEFINE x == SelectEventPoints(rows, e, {}, MaxReferenceAge)[h]
           a == AnalyzeSymbol(rows, e)[h]
           p == PriceReasons(AnalyzeSymbol(rows, e), e, rows, covered)[h]
           w == whole[h]
<1>1. IF x.status \in {"available", "not_matured"} THEN a = x ELSE a.status = "unavailable"
  BY DEF AnalyzeSymbol, Unseen
<1>2. IF a.status # "unavailable" THEN p = a ELSE p.status = "unavailable"
  BY DEF PriceReasons, Unseen
<1>3. IF "available" \in {x.status, w.status} THEN x = w
      ELSE (x.status = "not_matured") = (w.status = "not_matured")
  BY DEF SameReaction
<1> HIDE DEF x, a, p, w
<1>4. IF "available" \in {a.status, w.status} THEN a = w
      ELSE (a.status = "not_matured") = (w.status = "not_matured")
  BY <1>1, <1>3
<1>5. IF "available" \in {p.status, w.status} THEN p = w
      ELSE (p.status = "not_matured") = (w.status = "not_matured")
  BY <1>2, <1>4
<1> QED BY <1>4, <1>5 DEF a, p, w

-----------------------------------------------------------------------------
(* Typing of the histories.                                                *)

StudyTyped ==
    /\ OutcomesTyped /\ Stamped(observations) /\ IsFiniteSet(events)
    /\ \A e \in events : e.ts \in Nat /\ e.ts <= now /\ e.key \in Int
    /\ \A e, f \in events : e.key = f.key => e = f

\* The histories start empty.
LEMMA StudyInitially == StudyInit => StudyTyped
<1> SUFFICES ASSUME StudyInit PROVE StudyTyped
  OBVIOUS
<1>1. OutcomesTyped
  BY OutcomesInitially DEF StudyInit
<1> QED BY <1>1, FS_EmptySet DEF StudyInit, StudyTyped, Stamped

\* What is stored, where anything is.
LEMMA StoresOne ==
  ASSUME StudyTyped, NEW series, NEW key, NEW ts \in Nat, NEW value,
         InsertOnce(series, key, ts, value)
  PROVE  Stamped(observations')
<1> DEFINE r == Row(series, key, ts, value)
           T == {o \in observations : o.series = series}
<1>1. T \in SUBSET observations
  OBVIOUS
<1>2. Cardinality(T) \in Nat
  <2> HIDE DEF T
  <2> QED BY <1>1, FS_Subset, FS_CardinalityType DEF StudyTyped, Stamped
<1>3. r.id \in Nat /\ r.ts \in Nat
  BY <1>2 DEF Row
<1> HIDE DEF r
<1>4. observations' = observations \/ observations' = observations \cup {r}
  BY DEF InsertOnce, r
<1> QED BY <1>3, <1>4, FS_AddElement DEF StudyTyped, Stamped

\* Every statement of the ingests and of the studied service keeps the
\* histories typed.
LEMMA StudyTypedStep ==
  ASSUME OutcomesAssumption, StudyAssumption, StudyTyped, [StudyNext]_<<outcomeVars, studyVars>>
  PROVE  StudyTyped'
<1>1. ASSUME NEW s \in Bars, NEW t \in 0..now, NEW p, InsertBar(s, t, p), UNCHANGED <<events, outcomeVars>>
      PROVE  StudyTyped'
  <2>1. Stamped(observations')
    BY <1>1, StoresOne DEF InsertBar, StudyTyped, OutcomesTyped
  <2> QED BY <1>1, <2>1 DEF StudyTyped, OutcomesTyped, outcomeVars, Stamped
<1>2. ASSUME NEW t \in 0..now, NEW r, InsertFunding(t, r), UNCHANGED <<events, outcomeVars>>
      PROVE  StudyTyped'
  <2>1. Stamped(observations')
    BY <1>2, StoresOne DEF InsertFunding, StudyTyped, OutcomesTyped
  <2> QED BY <1>2, <2>1 DEF StudyTyped, OutcomesTyped, outcomeVars, Stamped
<1>3. ASSUME NEW spot \in 0 .. now + FutureSkew, NEW perp \in 0 .. now + FutureSkew,
             Materialize(spot, perp, "low"), UNCHANGED <<events, outcomeVars>>
      PROVE  StudyTyped'
  <2>1. Newer(spot, perp) \in Nat
    BY DEF Newer, StudyTyped, OutcomesTyped, StudyAssumption
  <2>2. Stamped(observations')
    BY <1>3, <2>1, StoresOne DEF Materialize, InsertBasis
  <2> QED BY <1>3, <2>2 DEF StudyTyped, OutcomesTyped, outcomeVars, Stamped
<1>4. ASSUME NEW kind \in EventKinds, NEW t \in 0..now, InsertEvent(kind, t),
             UNCHANGED <<observations, outcomeVars>>
      PROVE  StudyTyped'
  <2> DEFINE e == WithTime(kind, t)
  <2>1. e.ts = t /\ e.key = kind.key /\ kind.key \in Int
    BY DEF WithTime, StudyAssumption
  <2>2. events' = events \cup {e} /\ \A f \in events : f.key # kind.key
    BY <1>4 DEF InsertEvent
  <2> HIDE DEF e
  <2>3. IsFiniteSet(events')
    BY <2>2, FS_AddElement DEF StudyTyped
  <2>4. t \in Nat /\ t <= now
    BY DEF StudyTyped, OutcomesTyped
  <2> QED BY <1>4, <2>1, <2>2, <2>3, <2>4 DEF StudyTyped, OutcomesTyped, outcomeVars, Stamped
<1>5. ASSUME [OutcomesNext]_outcomeVars, UNCHANGED studyVars PROVE StudyTyped'
  <2>1. OutcomesTyped'
    BY <1>5, OutcomesTypedStep DEF StudyTyped
  <2>2. now <= now' /\ now \in Nat /\ now' \in Nat
    BY <1>5, <2>1 DEF OutcomesNext, outcomeVars, SaveTick, SaveContext, RecordFinal, Wait,
                      StudyTyped, OutcomesTyped
  <2>3. observations' = observations /\ events' = events
    BY <1>5 DEF studyVars
  <2>4. \A e \in events : e.ts <= now'
    BY <2>2 DEF StudyTyped
  <2> QED BY <2>1, <2>3, <2>4 DEF StudyTyped, Stamped
<1>6. ASSUME NEW v \in Labels, SaveContext("regime", v) PROVE [OutcomesNext]_outcomeVars
  BY <1>6 DEF OutcomesNext, Series
<1>7. ASSUME NEW final \in Finals, RecordFinal(final) PROVE [OutcomesNext]_outcomeVars
  BY <1>7 DEF OutcomesNext
<1>8. Wait \/ UNCHANGED outcomeVars => [OutcomesNext]_outcomeVars
  BY DEF OutcomesNext
<1>9. UNCHANGED <<outcomeVars, studyVars>> => UNCHANGED outcomeVars /\ UNCHANGED studyVars
  OBVIOUS
<1> QED BY <1>1, <1>2, <1>3, <1>4, <1>5, <1>6, <1>7, <1>8, <1>9 DEF StudyNext

-----------------------------------------------------------------------------
(* Every query gives enough rows.                                          *)

\* There is a longest horizon.
LEMMA LongestHorizon ==
  ASSUME OutcomesAssumption
  PROVE  /\ Max({HorizonOf[h] : h \in Horizons}) \in Nat
         /\ \A h \in Horizons : HorizonOf[h] <= Max({HorizonOf[h2] : h2 \in Horizons})
<1> DEFINE T == {HorizonOf[h] : h \in Horizons}
<1>1. T \in SUBSET Nat /\ \A h \in Horizons : HorizonOf[h] \in T
  BY DEF OutcomesAssumption, Horizons
<1>2. IsFiniteSet(T)
  BY ImageFinite DEF OutcomesAssumption, Horizons
<1>3. T # {}
  BY DEF OutcomesAssumption, Horizons
<1> HIDE DEF T
<1>4. Max(T) \in T /\ \A x \in T : x <= Max(T)
  BY <1>1, <1>2, <1>3, Extremes
<1> QED BY <1>1, <1>4 DEF T

\* An event lies between the first and the last of a selection.
LEMMA BoundsOfEvents ==
  ASSUME NEW E, IsFiniteSet(E), \A e \in E : e.ts \in Nat, NEW e \in E
  PROVE  LET T == {f.ts : f \in E}
         IN /\ Min(T) \in Nat /\ Max(T) \in Nat
            /\ Min(T) <= e.ts /\ e.ts <= Max(T)
<1> DEFINE T == {f.ts : f \in E}
           g == [f \in E |-> f.ts]
<1>1. IsFiniteSet({g[f] : f \in E})
  <2>1. DOMAIN g = E
    OBVIOUS
  <2> HIDE DEF g
  <2> QED BY <2>1, ImageFinite
<1>2. T = {g[f] : f \in E} /\ T \in SUBSET Nat /\ e.ts \in T
  OBVIOUS
<1> HIDE DEF T, g
<1>3. Min(T) \in T /\ Max(T) \in T /\ Min(T) <= e.ts /\ e.ts <= Max(T)
  <2>1. IsFiniteSet(T) /\ T \in SUBSET Int
    BY <1>1, <1>2
  <2>2. e.ts \in T
    BY <1>2
  <2> QED BY ONLY <2>1, <2>2, Extremes
<1> QED BY <1>2, <1>3 DEF T

\* of the multi-event statistics,
LEMMA BatchAgrees ==
  ASSUME OutcomesAssumption, StudyAssumption, StudyTyped, NEW e \in events, NEW s \in History
  PROVE  SameReaction(LoadSeries(s, e),
                      SelectEventPoints(Stored(s), e, Coverage(s), MaxReferenceAge))
<1> DEFINE S == Stored(s)
           T == EventPoints(S, e)
           whole == SelectEventPoints(S, e, Coverage(s), MaxReferenceAge)
<1>1. Stamped(S) /\ e.ts \in Nat /\ MaxReferenceAge \in Int
  <2>1. S \in SUBSET observations
    BY DEF Stored
  <2> HIDE DEF S
  <2> QED BY <2>1, SubStamped DEF StudyTyped, StudyAssumption
<1>2. /\ T \in SUBSET S
      /\ \A r \in LastAt(S, e.ts) : r \in T
      /\ \A h \in Horizons : \A o \in FirstAt(S, Due(e, h)) : o \in T
  <2> HIDE DEF S
  <2> QED BY DEF EventPoints, LastAt, FirstAt
<1>3. Coverage(s) = {o.ts : o \in S}
  BY DEF Coverage
<1>4. \A o \in S : o.value # NoValue
  BY DEF Stored
<1>5. {o \in T : o.value # NoValue} = T
  <2> HIDE DEF S, T
  <2> QED BY <1>2, <1>4
<1> HIDE DEF S, T
<1>6. /\ SameReaction(SelectEventPoints(T, e, {}, MaxReferenceAge), whole)
      /\ SameReaction(SelectEventPoints(T, e, Coverage(s), MaxReferenceAge), whole)
  BY <1>1, <1>2, <1>3, SelectionsAgree
<1>7. CASE s \in Bars
  <2>1. s # "funding" /\ s # "basis"
    BY <1>7 DEF StudyAssumption
  <2>2. LoadSeries(s, e) = PriceReasons(AnalyzeSymbol(T, e), e, T, Coverage(s))
    BY <1>7, <2>1 DEF LoadSeries, BarPointsBatch, S, T
  <2> QED BY <1>6, <2>2, AnalysisAgrees DEF S
<1>8. CASE s = "funding"
  <2>1. s \notin Bars
    BY <1>8 DEF StudyAssumption
  <2>2. LoadSeries(s, e) = FundingReactions(T, e, Coverage(s))
    BY <1>8, <2>1 DEF LoadSeries, FundingPointsBatch, S, T
  <2> QED BY <1>5, <1>6, <2>2 DEF FundingReactions, S
<1>9. CASE s = "basis"
  <2>1. s \notin Bars
    BY <1>9 DEF StudyAssumption
  <2>2. LoadSeries(s, e) = BasisReactions(T, e, Coverage(s))
    BY <1>9, <2>1 DEF LoadSeries, BasisPointsBatch, S, T
  <2> QED BY <1>6, <2>2 DEF BasisReactions, S
<1> QED BY <1>7, <1>8, <1>9 DEF History

\* of the single-event lab,
LEMMA LabAgrees ==
  ASSUME OutcomesAssumption, StudyAssumption, StudyTyped, NEW e \in events, NEW s \in History
  PROVE  \/ s \in Bars /\ LocalHistory(s, e) = {}
         \/ SameReaction(LabReaction(s, e),
                         SelectEventPoints(Stored(s), e, Coverage(s), MaxReferenceAge))
<1> DEFINE S == Stored(s)
           W == HistoryWindow(s, e)
           T == BoundedPoints(S, e)
           whole == SelectEventPoints(S, e, Coverage(s), MaxReferenceAge)
<1>1. Stamped(S) /\ e.ts \in Nat /\ MaxReferenceAge \in Int
  <2>1. S \in SUBSET observations
    BY DEF Stored
  <2> HIDE DEF S
  <2> QED BY <2>1, SubStamped DEF StudyTyped, StudyAssumption
<1>2. /\ T \in SUBSET S
      /\ \A r \in LastAt(S, e.ts) : e.ts - r.ts <= MaxReferenceAge => r \in T
      /\ \A h \in Horizons : \A o \in FirstAt(S, Due(e, h)) : o.ts - Due(e, h) <= MaxLag => o \in T
  <2> HIDE DEF S
  <2> QED BY DEF BoundedPoints, LastAt, FirstAt
<1>3. /\ W \in SUBSET S
      /\ \A r \in LastAt(S, e.ts) : e.ts - r.ts <= MaxReferenceAge => r \in W
      /\ \A h \in Horizons : \A o \in FirstAt(S, Due(e, h)) : o.ts - Due(e, h) <= MaxLag => o \in W
  <2> DEFINE longest == Max({HorizonOf[h] : h \in Horizons})
  <2>0. longest \in Nat /\ \A h \in Horizons : HorizonOf[h] <= longest
    BY LongestHorizon
  <2>1. W = {o \in S : e.ts - MaxReferenceAge <= o.ts /\ o.ts <= e.ts + longest + MaxLag}
    BY DEF HistoryWindow
  <2> HIDE DEF S, W, longest
  <2>2. ASSUME NEW r \in LastAt(S, e.ts), e.ts - r.ts <= MaxReferenceAge PROVE r \in W
    <3>1. r \in S /\ r.ts <= e.ts /\ r.ts \in Int
      BY <1>1 DEF LastAt, Stamped
    <3> QED BY <1>1, <2>0, <2>1, <2>2, <3>1 DEF StudyAssumption
  <2>3. ASSUME NEW h \in Horizons, NEW o \in FirstAt(S, Due(e, h)), o.ts - Due(e, h) <= MaxLag
        PROVE  o \in W
    <3>1. o \in S /\ Due(e, h) <= o.ts /\ o.ts \in Int
      BY <1>1 DEF FirstAt, Stamped
    <3>2. Due(e, h) = e.ts + HorizonOf[h] /\ HorizonOf[h] \in Nat /\ HorizonOf[h] <= longest
      BY <2>0 DEF Due, OutcomesAssumption, Horizons
    <3> QED BY <1>1, <2>0, <2>1, <2>3, <3>1, <3>2 DEF StudyAssumption
  <2> QED BY <2>1, <2>2, <2>3
<1>4. Coverage(s) = {o.ts : o \in S}
  BY DEF Coverage
<1>5. \A o \in S : o.value # NoValue
  BY DEF Stored
<1>6. {o \in T : o.value # NoValue} = T
  <2> HIDE DEF S, T
  <2> QED BY <1>2, <1>5
<1> HIDE DEF S, T, W
<1>7. /\ SameReaction(SelectEventPoints(T, e, {}, MaxReferenceAge), whole)
      /\ SameReaction(SelectEventPoints(W, e, {}, MaxReferenceAge), whole)
  BY <1>1, <1>2, <1>3, <1>4, SelectionsAgree
<1>8. CASE s \in Bars
  <2>1. s # "funding" /\ s # "basis"
    BY <1>8 DEF StudyAssumption
  <2>2. LabReaction(s, e) = AnalyzeSymbol(LocalHistory(s, e), e)
    BY <1>8, <2>1 DEF LabReaction
  <2>3. LocalHistory(s, e) = {} \/ LocalHistory(s, e) = W
    BY DEF LocalHistory, W
  <2>4. SameReaction(AnalyzeSymbol(W, e), whole)
    BY <1>7, AnalysisAgrees
  <2> QED BY <1>8, <2>2, <2>3, <2>4 DEF S
<1>9. CASE s = "funding"
  <2>1. s \notin Bars
    BY <1>9 DEF StudyAssumption
  <2>2. LabReaction(s, e) = FundingReactions(T, e, {})
    BY <1>9, <2>1 DEF LabReaction, FundingPoints, S, T
  <2> QED BY <1>6, <1>7, <2>2 DEF FundingReactions, S
<1>10. CASE s = "basis"
  <2>1. s \notin Bars
    BY <1>10 DEF StudyAssumption
  <2>2. LabReaction(s, e) = BasisReactions(T, e, {})
    BY <1>10, <2>1 DEF LabReaction, BasisPoints, S, T
  <2> QED BY <1>7, <2>2 DEF BasisReactions, S
<1> QED BY <1>8, <1>9, <1>10 DEF History

\* and of the regimes, where the read was not cut short.
LEMMA RegimesAgree ==
  ASSUME OutcomesAssumption, StudyAssumption, StudyTyped, NEW e \in events,
         ~RegimeContext(events).truncated
  PROVE  SameReaction(RegimePath(RegimeContext(events).rows, e), RegimePath(contextRows, e))
<1> DEFINE longest == Max({HorizonOf[h] : h \in Horizons})
           first == Min({f.ts : f \in events})
           final == Max({f.ts : f \in events})
           start == first - RegimeReferenceAge
           last == final + longest + MaxLag
           end == IF last < now THEN last ELSE now
           Inside(src) == {r \in contextRows : SourceOf(r.series) = src
                                               /\ start <= r.ts /\ r.ts <= end}
           read == RegimeContext(events).rows
           S == RegimeRows(contextRows)
           T == RegimeRows(read)
<1>1. RegimeContext(events) = LoadContextHistory(start, end)
  BY DEF RegimeContext
<1>2. /\ longest \in Nat /\ \A h \in Horizons : HorizonOf[h] <= longest
      /\ first \in Nat /\ final \in Nat /\ first <= e.ts /\ e.ts <= final
      /\ e.ts \in Nat /\ e.ts <= now /\ now \in Nat
  <2>1. IsFiniteSet(events) /\ \A f \in events : f.ts \in Nat
    BY DEF StudyTyped
  <2> HIDE DEF longest, first, final
  <2>2. first \in Nat /\ final \in Nat /\ first <= e.ts /\ e.ts <= final
    BY <2>1, BoundsOfEvents DEF first, final
  <2>3. longest \in Nat /\ \A h \in Horizons : HorizonOf[h] <= longest
    BY LongestHorizon DEF longest
  <2> QED BY <2>2, <2>3 DEF StudyTyped, OutcomesTyped
<1> HIDE DEF longest, first, final
<1>3. read = Seeds(start) \cup UNION {Inside(src) : src \in DOMAIN MaxAge}
  <2>1. ASSUME NEW src \in DOMAIN MaxAge
        PROVE  FirstRows(Inside(src), ContextMaxRows) = Inside(src)
    <3>1. ~(Cardinality(Inside(src)) > ContextMaxRows)
      <4>1. ~LoadContextHistory(start, end).truncated
        BY <1>1
      <4> HIDE DEF start, end
      <4> QED BY <4>1 DEF LoadContextHistory
    <3>2. Inside(src) \in SUBSET contextRows
      OBVIOUS
    <3> HIDE DEF Inside, start, end
    <3>3. Stamped(Inside(src))
      BY <3>2, SubStamped DEF StudyTyped, OutcomesTyped
    <3>4. Cardinality(Inside(src)) \in Nat
      BY <3>3, FS_CardinalityType DEF Stamped
    <3> QED BY <3>1, <3>3, <3>4, FewRows DEF OutcomesAssumption
  <2>2. read = Seeds(start) \cup UNION {FirstRows(Inside(src), ContextMaxRows) : src \in DOMAIN MaxAge}
    BY <1>1 DEF LoadContextHistory
  <2> HIDE DEF Inside, read, start
  <2> QED BY <2>1, <2>2
<1>4. start \in Int /\ end \in Int /\ last \in Int
  BY <1>2 DEF StudyAssumption
<1>5. ASSUME NEW r \in S, start <= r.ts, r.ts <= end PROVE r \in T
  <2>1. r \in contextRows /\ r.series = "regime"
    BY DEF RegimeRows
  <2>2. SourceOf(r.series) = "regime" /\ "regime" \in DOMAIN MaxAge
    BY <2>1 DEF SourceOf, OutcomesAssumption
  <2>3. r \in Inside("regime")
    BY <2>1, <2>2, <1>5
  <2>4. r \in read
    <3> HIDE DEF read, Inside, start, end
    <3> QED BY <2>2, <2>3, <1>3
  <2> QED BY <2>1, <2>4 DEF RegimeRows
<1>6. T \in SUBSET S /\ Stamped(S)
  <2>1. \A r \in read : r \in contextRows
    <3> HIDE DEF read, start, end
    <3> QED BY <1>3 DEF Seeds, Inside
  <2>2. S \in SUBSET contextRows
    BY DEF RegimeRows
  <2>3. T \in SUBSET S
    BY <2>1 DEF RegimeRows
  <2> HIDE DEF S, T
  <2> QED BY <2>2, <2>3, SubStamped DEF StudyTyped, OutcomesTyped
<1>7. \A r \in S : r.ts \in Nat /\ r.ts <= now
  BY DEF RegimeRows, StudyTyped, OutcomesTyped, Stamped
<1> HIDE DEF S, T, read
<1>8. ASSUME NEW r \in LastAt(S, e.ts), e.ts - r.ts <= RegimeReferenceAge PROVE r \in T
  <2>1. r \in S /\ r.ts <= e.ts /\ r.ts \in Nat
    BY <1>7 DEF LastAt
  <2>2. start <= r.ts /\ r.ts <= end
    BY <1>2, <1>8, <2>1 DEF StudyAssumption
  <2> QED BY <1>5, <2>1, <2>2
<1>9. ASSUME NEW h \in Horizons, NEW o \in FirstAt(S, Due(e, h)), o.ts - Due(e, h) <= MaxLag
      PROVE  o \in T
  <2>1. o \in S /\ Due(e, h) <= o.ts /\ o.ts \in Nat /\ o.ts <= now
    BY <1>7 DEF FirstAt
  <2>2. Due(e, h) = e.ts + HorizonOf[h] /\ HorizonOf[h] \in Nat /\ HorizonOf[h] <= longest
    BY <1>2 DEF Due, OutcomesAssumption, Horizons
  <2>3. start <= o.ts /\ o.ts <= end
    BY <1>2, <1>9, <2>1, <2>2 DEF StudyAssumption
  <2> QED BY <1>5, <2>1, <2>3
<1>10. SameReaction(SelectEventPoints(T, e, {}, RegimeReferenceAge),
                    SelectEventPoints(S, e, {}, RegimeReferenceAge))
  BY <1>2, <1>6, <1>8, <1>9, SelectionsAgree DEF StudyAssumption
<1> QED BY <1>10 DEF RegimePath, S, T, read

\* Typed histories are read alike by every query.
LEMMA ReadsAgree ==
  ASSUME OutcomesAssumption, StudyAssumption, StudyTyped PROVE EveryReadAgrees
<1> SUFFICES ASSUME NEW e \in events
             PROVE  /\ \A s \in History :
                         LET whole == SelectEventPoints(Stored(s), e, Coverage(s), MaxReferenceAge)
                         IN /\ SameReaction(LoadSeries(s, e), whole)
                            /\ \/ s \in Bars /\ LocalHistory(s, e) = {}
                               \/ SameReaction(LabReaction(s, e), whole)
                    /\ RegimeContext(events).truncated
                       \/ SameReaction(RegimePath(RegimeContext(events).rows, e),
                                       RegimePath(contextRows, e))
  BY DEF EveryReadAgrees
<1>1. \A s \in History :
        LET whole == SelectEventPoints(Stored(s), e, Coverage(s), MaxReferenceAge)
        IN /\ SameReaction(LoadSeries(s, e), whole)
           /\ \/ s \in Bars /\ LocalHistory(s, e) = {}
              \/ SameReaction(LabReaction(s, e), whole)
  BY BatchAgrees, LabAgrees
<1> QED BY <1>1, RegimesAgree

\* The batch of the statistics, the lab of a single event and the regime
\* read give the reaction that the whole history gives, whenever they were
\* not cut short.
THEOREM EveryQueryGivesTheReaction == StudySpec => []EveryReadAgrees
<1>1. StudyInit => StudyTyped
  BY StudyInitially
<1>2. StudyTyped /\ [StudyNext]_<<outcomeVars, studyVars>> => StudyTyped'
  BY OutcomesAssumption, StudyAssumption, StudyTypedStep
<1>3. StudyTyped => EveryReadAgrees
  BY OutcomesAssumption, StudyAssumption, ReadsAgree
<1> QED BY <1>1, <1>2, <1>3, PTL DEF StudySpec

-----------------------------------------------------------------------------
(* A reaction once seen.                                                   *)

ReactionsMean ==
    \A e \in events, s \in History, h \in Horizons :
        LET x == LoadSeries(s, e)[h]
        IN /\ x.status = "available" <=> /\ ~(Due(e, h) > now)
                                         /\ Referred(Stored(s), e, MaxReferenceAge)
                                         /\ InTime(Stored(s), e, h)
           /\ x.status = "available" => x = Reaction(Stored(s), e, h)

\* Typed histories give reactions this meaning.
LEMMA WhatReactionsMean ==
  ASSUME OutcomesAssumption, StudyAssumption, StudyTyped PROVE ReactionsMean
<1> SUFFICES ASSUME NEW e \in events, NEW s \in History, NEW h \in Horizons
             PROVE  LET x == LoadSeries(s, e)[h]
                    IN /\ x.status = "available" <=> /\ ~(Due(e, h) > now)
                                                     /\ Referred(Stored(s), e, MaxReferenceAge)
                                                     /\ InTime(Stored(s), e, h)
                       /\ x.status = "available" => x = Reaction(Stored(s), e, h)
  BY DEF ReactionsMean
<1> DEFINE S == Stored(s)
           x == LoadSeries(s, e)[h]
           y == SelectEventPoints(S, e, Coverage(s), MaxReferenceAge)[h]
           f == [o \in S |-> o.ts]
<1>1. IF "available" \in {x.status, y.status} THEN x = y
      ELSE (x.status = "not_matured") = (y.status = "not_matured")
  BY BatchAgrees DEF SameReaction
<1>2. Stamped(S) /\ e.ts \in Nat /\ MaxReferenceAge \in Int
  <2>1. S \in SUBSET observations
    BY DEF Stored
  <2> HIDE DEF S
  <2> QED BY <2>1, SubStamped DEF StudyTyped, StudyAssumption
<1>3. Coverage(s) = {o.ts : o \in S}
  BY DEF Coverage
<1>4. Coverage(s) \in SUBSET Nat /\ IsFiniteSet(Coverage(s))
  <2>1. IsFiniteSet({f[o] : o \in S})
    <3>1. IsFiniteSet(S) /\ DOMAIN f = S
      BY <1>2 DEF Stamped
    <3> HIDE DEF f, S
    <3> QED BY <3>1, ImageFinite
  <2>2. Coverage(s) = {f[o] : o \in S}
    BY <1>3
  <2>3. Coverage(s) \in SUBSET Nat
    <3> HIDE DEF S
    <3> QED BY <1>2, <1>3 DEF Stamped
  <2> HIDE DEF f, S
  <2> QED BY <2>1, <2>2, <2>3
<1>5. /\ y.status = "available" <=>
            ~(Due(e, h) > now) /\ Referred(S, e, MaxReferenceAge) /\ InTime(S, e, h)
      /\ y.status = "available" => y = Reaction(S, e, h)
  <2> HIDE DEF S
  <2> QED BY <1>2, <1>3, <1>4, SelectionMeans
<1> HIDE DEF x, y
<1>6. /\ x.status = "available" <=>
            ~(Due(e, h) > now) /\ Referred(S, e, MaxReferenceAge) /\ InTime(S, e, h)
      /\ x.status = "available" => x = Reaction(S, e, h)
  BY ONLY <1>1, <1>5
<1> QED BY <1>6 DEF x

\* A row after the one selected changes nothing.
LEMMA LaterRow ==
  ASSUME OutcomesAssumption, StudyAssumption, NEW e, e.ts \in Nat, NEW h \in Horizons,
         NEW S, NEW r, Stamped(S \cup {r}), InTime(S, e, h),
         ~(r.ts <= Reaction(S, e, h).selected.ts)
  PROVE  /\ LastAt(S \cup {r}, e.ts) = LastAt(S, e.ts)
         /\ FirstAt(S \cup {r}, Due(e, h)) = FirstAt(S, Due(e, h))
<1> DEFINE B == S \cup {r}
           m == CHOOSE o \in FirstAt(S, Due(e, h)) : TRUE
<1>1. Due(e, h) \in Int /\ e.ts <= Due(e, h) /\ e.ts \in Int
  BY DEF Due, OutcomesAssumption, Horizons
<1>2. m \in FirstAt(S, Due(e, h))
  BY DEF InTime
<1>3. Reaction(S, e, h).selected = m
  BY DEF Reaction, Available
<1> HIDE DEF m
<1>4. m \in S /\ m.ts >= Due(e, h)
  BY <1>2 DEF FirstAt
<1>5. m.ts \in Int /\ r.ts \in Int /\ m.ts < r.ts
  BY <1>3, <1>4 DEF Stamped
<1>6. LastAt(B, e.ts) \subseteq S
  BY <1>1, <1>4, <1>5 DEF LastAt
<1>7. FirstAt(B, Due(e, h)) \subseteq S
  BY <1>4, <1>5 DEF FirstAt, Earlier
<1>8. Stamped(B) /\ S \in SUBSET B
  OBVIOUS
<1> HIDE DEF B
<1>9. LastAt(B, e.ts) = LastAt(S, e.ts)
  BY <1>1, <1>6, <1>8, LastRows
<1>10. FirstAt(B, Due(e, h)) = FirstAt(S, Due(e, h))
  BY <1>1, <1>7, <1>8, RowsFrom
<1> QED BY <1>9, <1>10 DEF B

\* A step stores at most one row, of a key not yet stored and, if of a basis,
\* of fresh legs.
StoresAtMostOne ==
    /\ events \subseteq events' /\ now <= now'
    /\ \/ observations' = observations
       \/ \E r : /\ observations' = observations \cup {r}
                 /\ \A p \in observations : p.series = r.series => p.key # r.key
                 /\ r.series = "basis" => now - r.ts <= MaxLegAge

\* A step stores at most one row, under a new key, and a basis row is young.
LEMMA OneRowAtMost ==
  ASSUME StudyTyped, [StudyNext]_<<outcomeVars, studyVars>> PROVE StoresAtMostOne
<1>0. now \in Nat
  BY DEF StudyTyped, OutcomesTyped
<1>1. ASSUME NEW series, NEW key, NEW ts, NEW value, InsertOnce(series, key, ts, value),
             UNCHANGED <<events, outcomeVars>>,
             series = "basis" => now - ts <= MaxLegAge
      PROVE  StoresAtMostOne
  <2> DEFINE r == Row(series, key, ts, value)
  <2>1. r.series = series /\ r.key = key /\ r.ts = ts
    BY DEF Row
  <2>2. events' = events /\ now' = now
    BY <1>1 DEF outcomeVars
  <2>3. observations' = observations
        \/ (observations' = observations \cup {r}
            /\ \A p \in observations : p.series = series => p.key # key)
    BY <1>1 DEF InsertOnce
  <2> HIDE DEF r
  <2> QED BY <1>0, <1>1, <2>1, <2>2, <2>3 DEF StoresAtMostOne
<1>2. ASSUME NEW s \in Bars, NEW t \in 0..now, NEW p, InsertBar(s, t, p), UNCHANGED <<events, outcomeVars>>
      PROVE  StoresAtMostOne
  <2>1. InsertOnce(s, <<t, t>>, t, p) /\ s # "basis"
    BY <1>2, StudyAssumption DEF InsertBar, StudyAssumption
  <2> QED BY <1>1, <1>2, <2>1
<1>3. ASSUME NEW t \in 0..now, NEW r, InsertFunding(t, r), UNCHANGED <<events, outcomeVars>>
      PROVE  StoresAtMostOne
  BY <1>1, <1>3 DEF InsertFunding
<1>4. ASSUME NEW spot \in 0 .. now + FutureSkew, NEW perp \in 0 .. now + FutureSkew,
             Materialize(spot, perp, "low"), UNCHANGED <<events, outcomeVars>>
      PROVE  StoresAtMostOne
  <2>1. /\ InsertOnce("basis", <<spot, perp>>, Newer(spot, perp), "low")
        /\ now - Newer(spot, perp) <= MaxLegAge
    BY <1>4 DEF Materialize, InsertBasis, LegsFresh, Newer
  <2> QED BY <1>1, <1>4, <2>1
<1>5. ASSUME NEW kind \in EventKinds, NEW t \in 0..now, InsertEvent(kind, t),
             UNCHANGED <<observations, outcomeVars>>
      PROVE  StoresAtMostOne
  BY <1>0, <1>5 DEF InsertEvent, outcomeVars, StoresAtMostOne
<1>6. ASSUME UNCHANGED studyVars, now' = now \/ now' = now + 1
      PROVE  StoresAtMostOne
  BY <1>0, <1>6 DEF studyVars, StoresAtMostOne
<1>7. ASSUME NEW v, SaveContext("regime", v) PROVE now' = now
  BY <1>7 DEF SaveContext
<1>8. ASSUME NEW final, RecordFinal(final) PROVE now' = now
  BY <1>8 DEF RecordFinal
<1>9. (Wait => now' = now + 1) /\ (UNCHANGED outcomeVars => now' = now)
  BY DEF Wait, outcomeVars
<1>10. UNCHANGED <<outcomeVars, studyVars>> => UNCHANGED outcomeVars /\ UNCHANGED studyVars
  OBVIOUS
<1> QED BY <1>2, <1>3, <1>4, <1>5, <1>6, <1>7, <1>8, <1>9, <1>10 DEF StudyNext

\* What a step may do to the reactions.
ReactionStep ==
    \A e \in events, s \in History, h \in Horizons :
        LET seen == LoadSeries(s, e)[h]
        IN seen.status = "available" =>
               \/ LoadSeries(s, e)[h]' = seen
               \/ \E o \in observations' \ observations :
                      /\ o.series = s /\ o.ts <= seen.selected.ts
                      /\ \A p \in observations : p.series = s => p.key # o.key
                      /\ s = "basis" => now - o.ts <= MaxLegAge

\* By the meaning of a reaction before and after a step, one that is seen
\* stays, unless the row stored comes before the one selected.
LEMMA ReactionsStay ==
  ASSUME OutcomesAssumption, StudyAssumption, StudyTyped, StudyTyped',
         ReactionsMean, ReactionsMean', StoresAtMostOne
  PROVE  ReactionStep
<1> SUFFICES ASSUME NEW e \in events, NEW s \in History, NEW h \in Horizons,
                    LoadSeries(s, e)[h].status = "available",
                    ~(\E o \in observations' \ observations :
                      /\ o.series = s /\ o.ts <= LoadSeries(s, e)[h].selected.ts
                      /\ \A p \in observations : p.series = s => p.key # o.key
                      /\ s = "basis" => now - o.ts <= MaxLegAge)
             PROVE  LoadSeries(s, e)[h]' = LoadSeries(s, e)[h]
  BY DEF ReactionStep
<1> DEFINE S == Stored(s)
           x == LoadSeries(s, e)[h]
<1>1. /\ ~(Due(e, h) > now) /\ Referred(S, e, MaxReferenceAge) /\ InTime(S, e, h)
      /\ x = Reaction(S, e, h)
  BY DEF ReactionsMean
<1>2. /\ now \in Nat /\ now' \in Nat /\ now <= now' /\ e \in events' /\ e.ts \in Nat
      /\ Due(e, h) \in Int
  BY DEF StudyTyped, OutcomesTyped, StoresAtMostOne, Due, OutcomesAssumption, Horizons
<1>3. Stamped(S) /\ Stamped(S')
  <2>1. S \in SUBSET observations /\ S' \in SUBSET observations'
    BY DEF Stored
  <2>2. Stamped(observations) /\ Stamped(observations')
    BY DEF StudyTyped, Stamped
  <2> HIDE DEF S
  <2> QED BY <2>1, <2>2, SubStamped
<1>4. S' = S \/ \E r \in observations' \ observations :
                  /\ S' = S \cup {r} /\ r.series = s
                  /\ \A p \in observations : p.series = s => p.key # r.key
                  /\ s = "basis" => now - r.ts <= MaxLegAge
  <2>1. CASE observations' = observations
    BY <2>1 DEF Stored
  <2>2. ASSUME NEW r, observations' = observations \cup {r}, r \notin observations,
               \A p \in observations : p.series = r.series => p.key # r.key,
               r.series = "basis" => now - r.ts <= MaxLegAge
        PROVE  S' = S \/ \E q \in observations' \ observations :
                  /\ S' = S \cup {q} /\ q.series = s
                  /\ \A p \in observations : p.series = s => p.key # q.key
                  /\ s = "basis" => now - q.ts <= MaxLegAge
    <3>1. CASE r.series = s /\ r.value # NoValue
      <4>1. S' = S \cup {r}
        BY <2>2, <3>1 DEF Stored
      <4> HIDE DEF S
      <4> QED BY <2>2, <3>1, <4>1
    <3>2. CASE ~(r.series = s /\ r.value # NoValue)
      <4>1. S' = S
        BY <2>2, <3>2 DEF Stored
      <4> QED BY <4>1
    <3> QED BY <3>1, <3>2
  <2> QED BY <2>1, <2>2 DEF StoresAtMostOne
<1>5. LastAt(S', e.ts) = LastAt(S, e.ts) /\ FirstAt(S', Due(e, h)) = FirstAt(S, Due(e, h))
  <2>1. CASE S' = S
    BY <2>1
  <2>2. ASSUME NEW r \in observations' \ observations, S' = S \cup {r}, r.series = s,
               \A p \in observations : p.series = s => p.key # r.key,
               s = "basis" => now - r.ts <= MaxLegAge
        PROVE  LastAt(S', e.ts) = LastAt(S, e.ts) /\ FirstAt(S', Due(e, h)) = FirstAt(S, Due(e, h))
    <3>1. ~(r.ts <= x.selected.ts)
      BY <2>2
    <3>2. ~(r.ts <= Reaction(S, e, h).selected.ts)
      BY <3>1, <1>1
    <3> HIDE DEF S
    <3> QED BY <1>1, <1>2, <1>3, <2>2, <3>2, LaterRow
  <2> HIDE DEF S, x
  <2> QED BY <2>1, <2>2, <1>4
<1>6. /\ Referred(S', e, MaxReferenceAge) /\ InTime(S', e, h) /\ ~(Due(e, h) > now')
      /\ Reaction(S', e, h) = Reaction(S, e, h)
  <2> HIDE DEF S, x
  <2> QED BY <1>1, <1>2, <1>5 DEF Referred, InTime, Reaction
<1>7. /\ x'.status = "available" <=> /\ ~(Due(e, h) > now')
                                     /\ Referred(S', e, MaxReferenceAge)
                                     /\ InTime(S', e, h)
      /\ x'.status = "available" => x' = Reaction(S', e, h)
  BY <1>2 DEF ReactionsMean
<1> QED BY <1>1, <1>6, <1>7

\* A reaction once shown is not changed by rows that arrive later, but for
\* a late row of its own window.
THEOREM SeenReactionsStay == StudySpec => ReactionStays
<1>1. StudyInit => StudyTyped
  BY StudyInitially
<1>2. StudyTyped /\ [StudyNext]_<<outcomeVars, studyVars>> => StudyTyped'
  BY OutcomesAssumption, StudyAssumption, StudyTypedStep
<1>3. StudyTyped => ReactionsMean
  BY OutcomesAssumption, StudyAssumption, WhatReactionsMean
<1>4. (/\ StudyTyped /\ StudyTyped' /\ ReactionsMean /\ ReactionsMean'
       /\ [StudyNext]_<<outcomeVars, studyVars>>) => ReactionStep
  BY OutcomesAssumption, StudyAssumption, OneRowAtMost, ReactionsStay
<1>5. [][ReactionStep]_<<outcomeVars, studyVars>> => ReactionStays
  BY PTL DEF ReactionStays, ReactionStep
<1> QED BY <1>1, <1>2, <1>3, <1>4, <1>5, PTL DEF StudySpec

-----------------------------------------------------------------------------
(* Overlapping windows.                                                    *)

\* Among subsets of a finite set there is one that no other contains.
LEMMA LargestExists ==
  ASSUME NEW S, IsFiniteSet(S), NEW C \in SUBSET (SUBSET S), C # {}
  PROVE  \E D \in C : \A X \in C : D \subseteq X => X = D
<1> DEFINE Rest == {S \ D : D \in C}
<1>1. Rest \subseteq FiniteSubsetsOf(S)
  <2>1. ASSUME NEW D \in C PROVE S \ D \in FiniteSubsetsOf(S)
    <3>1. S \ D \in SUBSET S
      OBVIOUS
    <3>2. IsFiniteSet(S \ D)
      BY <3>1, FS_Subset
    <3> QED BY <3>1, <3>2 DEF FiniteSubsetsOf
  <2> QED BY <2>1
<1>2. PICK D0 \in C : TRUE
  OBVIOUS
<1>3. S \ D0 \in Rest
  OBVIOUS
<1>4. PICK c \in Rest : \A d \in Rest : ~(<<d, c>> \in StrictSubsetOrdering(S))
  <2> HIDE DEF Rest
  <2> QED BY <1>1, <1>3, FS_StrictSubsetOrderingWellFounded, WFMin
<1>5. PICK D \in C : c = S \ D
  OBVIOUS
<1>6. ASSUME NEW X \in C, D \subseteq X, X # D PROVE FALSE
  <2>1. S \ X \in Rest
    OBVIOUS
  <2>2. S \ X \subseteq c /\ S \ X # c /\ S \ X \in SUBSET S /\ c \in SUBSET S
    BY <1>5, <1>6
  <2>3. <<S \ X, c>> \in StrictSubsetOrdering(S)
    BY <2>2 DEF StrictSubsetOrdering
  <2> QED BY <1>4, <2>1, <2>3
<1> QED BY <1>5, <1>6

\* Events in order.
Ordered(E) ==
    /\ IsFiniteSet(E)
    /\ \A e \in E : e.ts \in Nat /\ e.key \in Int
    /\ \A e, f \in E : e.key = f.key => e = f

\* The rule by which K is kept of D.
KeptOf(K, D, length) ==
    \A e \in D : e \in K <=> \A f \in D : Before(f, e) /\ f \in K => f.ts + length <= e.ts

\* The rule has a solution, found from the first event on.
LEMMA ChainExists ==
  ASSUME NEW E, Ordered(E), NEW length
  PROVE  \E K \in SUBSET E : KeptOf(K, E, length)
<1> DEFINE Solved(D) == /\ \A e \in D, f \in E : Before(f, e) => f \in D
                        /\ \E K \in SUBSET D : KeptOf(K, D, length)
           C == {D \in SUBSET E : Solved(D)}
<1>1. {} \in C
  BY DEF KeptOf
<1>2. PICK D \in C : \A X \in C : D \subseteq X => X = D
  <2>1. C \in SUBSET (SUBSET E) /\ C # {}
    BY <1>1
  <2> HIDE DEF C
  <2> QED BY <2>1, LargestExists DEF Ordered
<1>3. D \in SUBSET E /\ \A e \in D, f \in E : Before(f, e) => f \in D
  OBVIOUS
<1>4. PICK K \in SUBSET D : KeptOf(K, D, length)
  OBVIOUS
<1>5. ASSUME D # E PROVE FALSE
  <2> DEFINE rest == E \ D
             R == {p \in rest \X rest : Before(p[1], p[2])}
  <2>1. \A a, b \in rest : <<a, b>> \in R <=> Before(a, b)
    OBVIOUS
  <2>2. /\ \A a \in E : ~Before(a, a)
        /\ \A a, b, c \in E : Before(a, b) /\ Before(b, c) => Before(a, c)
        /\ \A a, b \in E : Before(a, b) => ~Before(b, a)
    BY DEF Before, Ordered
  <2>3. rest # {} /\ rest \in SUBSET E /\ IsFiniteSet(rest)
    <3>1. rest # {} /\ rest \in SUBSET E
      BY <1>3, <1>5
    <3> HIDE DEF rest
    <3> QED BY <3>1, FS_Subset DEF Ordered
  <2> HIDE DEF R
  <2>4. PICK e \in rest : \A f \in rest : ~Before(f, e)
    <3>1. /\ \A a \in rest : <<a, a>> \notin R
          /\ \A a, b, c \in rest : <<a, b>> \in R /\ <<b, c>> \in R => <<a, c>> \in R
      BY <2>1, <2>2, <2>3
    <3>2. \E x \in rest : \A y \in rest : <<y, x>> \notin R
      <4> HIDE DEF rest
      <4> QED BY <2>3, <3>1, FirstExists
    <3> QED BY <2>1, <3>2
  <2> DEFINE kept == \A f \in D : Before(f, e) /\ f \in K => f.ts + length <= e.ts
             X == D \cup {e}
             L == IF kept THEN K \cup {e} ELSE K
  <2>5. e \in E /\ e \notin D /\ e \notin K
    OBVIOUS
  <2>6. \A a \in X, f \in E : Before(f, a) => f \in D
    BY <1>3, <2>4, <2>5
  <2>7. \A f \in D : ~Before(e, f)
    BY <1>3, <2>5
  <2>8. KeptOf(L, X, length)
    <3>1. ASSUME NEW a \in D
          PROVE  a \in L <=> \A f \in X : Before(f, a) /\ f \in L => f.ts + length <= a.ts
      <4>1. a \in L <=> a \in K
        BY <2>5
      <4>2. \A f \in D : f \in L <=> f \in K
        BY <2>5
      <4>3. a \in K <=> \A f \in D : Before(f, a) /\ f \in K => f.ts + length <= a.ts
        BY <1>4 DEF KeptOf
      <4> HIDE DEF L
      <4> QED BY <4>1, <4>2, <4>3, <2>7
    <3>2. e \in L <=> \A f \in X : Before(f, e) /\ f \in L => f.ts + length <= e.ts
      <4>1. e \in L <=> kept
        BY <2>5
      <4>2. \A f \in D : f \in L <=> f \in K
        BY <2>5
      <4>3. ~Before(e, e)
        BY <2>2, <2>5
      <4> HIDE DEF L
      <4> QED BY <4>1, <4>2, <4>3
    <3> HIDE DEF L
    <3> QED BY <3>1, <3>2 DEF KeptOf
  <2>9. L \in SUBSET X
    OBVIOUS
  <2>10. X \in C
    <3>1. X \in SUBSET E
      BY <2>5, <1>3
    <3>2. \A a \in X, f \in E : Before(f, a) => f \in X
      BY <2>6
    <3> HIDE DEF X, L
    <3> QED BY <2>8, <2>9, <3>1, <3>2
  <2>11. X # D /\ D \subseteq X
    BY <2>5
  <2> HIDE DEF X, C
  <2> QED BY <1>2, <2>10, <2>11
<1> QED BY <1>4, <1>5

\* What Chain keeps.
LEMMA ChainKeeps ==
  ASSUME NEW E, Ordered(E), NEW length
  PROVE  Chain(E, length) \in SUBSET E /\ KeptOf(Chain(E, length), E, length)
<1>1. PICK K \in SUBSET E : KeptOf(K, E, length)
  BY ChainExists
<1> DEFINE g == [e \in E |-> e \in K]
           kept == CHOOSE k : k = [e \in E |-> \A f \in E : Before(f, e) /\ k[f] => f.ts + length <= e.ts]
<1>2. g = [e \in E |-> \A f \in E : Before(f, e) /\ g[f] => f.ts + length <= e.ts]
  <2>1. \A f \in E : g[f] <=> f \in K
    OBVIOUS
  <2>2. \A e \in E : g[e] = \A f \in E : Before(f, e) /\ g[f] => f.ts + length <= e.ts
    <3>1. \A e \in E : g[e] \in BOOLEAN
      OBVIOUS
    <3> HIDE DEF g
    <3> QED BY <1>1, <2>1, <3>1, Zenon DEF KeptOf
  <2>3. g = [e \in E |-> g[e]]
    OBVIOUS
  <2> HIDE DEF g
  <2> QED BY <2>2, <2>3, Zenon
<1>3. kept = [e \in E |-> \A f \in E : Before(f, e) /\ kept[f] => f.ts + length <= e.ts]
  <2> HIDE DEF g
  <2> QED BY <1>2, Zenon
<1>4. Chain(E, length) = {e \in E : kept[e]}
  BY DEF Chain
<1> HIDE DEF kept
<1>5. \A e \in E : kept[e] <=> \A f \in E : Before(f, e) /\ kept[f] => f.ts + length <= e.ts
  BY <1>3, Zenon
<1>6. \A e \in E : e \in Chain(E, length) <=> kept[e]
  BY <1>4, Zenon
<1>7. KeptOf(Chain(E, length), E, length)
  BY <1>5, <1>6, Zenon DEF KeptOf
<1> QED BY <1>4, <1>7

\* Of overlapping events the earlier one is kept: the windows of those kept
\* are disjoint, and one left out meets one that is kept.
LEMMA WindowsDisjoint ==
  ASSUME OutcomesAssumption, StudyTyped, NEW h \in Horizons
  PROVE  LET kept == FilterOverlaps(events, h)
             Meet(e, f) == e.ts < Due(f, h) /\ f.ts < Due(e, h)
         IN /\ \A e, f \in kept : e # f => ~Meet(e, f)
            /\ \A e \in events \ kept : \E f \in kept : Meet(e, f)
<1> DEFINE kept == FilterOverlaps(events, h)
           n == HorizonOf[h]
<1>1. Ordered(events)
  BY DEF Ordered, StudyTyped
<1>2. kept \in SUBSET events /\ KeptOf(kept, events, n)
  BY <1>1, ChainKeeps DEF FilterOverlaps
<1>3. n \in Nat
  BY DEF OutcomesAssumption, Horizons
<1>4. \A e \in events : Due(e, h) = e.ts + n
  BY DEF Due
<1> HIDE DEF kept, n
<1>5. ASSUME NEW e \in kept, NEW f \in kept, e # f, e.ts < Due(f, h), f.ts < Due(e, h)
      PROVE  FALSE
  <2>1. e \in events /\ f \in events
    BY <1>2
  <2>2. Before(e, f) \/ Before(f, e)
    BY <1>1, <1>5, <2>1 DEF Before, Ordered
  <2>3. (Before(e, f) => e.ts + n <= f.ts) /\ (Before(f, e) => f.ts + n <= e.ts)
    BY <1>2, <2>1 DEF KeptOf
  <2>4. e.ts \in Nat /\ f.ts \in Nat
    BY <1>1, <2>1 DEF Ordered
  <2> QED BY <1>3, <1>4, <1>5, <2>1, <2>2, <2>3, <2>4
<1>6. ASSUME NEW e \in events, e \notin kept
      PROVE  \E f \in kept : e.ts < Due(f, h) /\ f.ts < Due(e, h)
  <2>1. PICK f \in events : Before(f, e) /\ f \in kept /\ ~(f.ts + n <= e.ts)
    BY <1>2, <1>6 DEF KeptOf
  <2>2. e.ts \in Nat /\ f.ts \in Nat /\ f.ts <= e.ts
    BY <1>1, <2>1 DEF Ordered, Before
  <2>3. e.ts < Due(f, h) /\ f.ts < Due(e, h)
    BY <1>3, <1>4, <2>1, <2>2
  <2> QED BY <2>1, <2>3
<1> QED BY <1>5, <1>6 DEF kept

-----------------------------------------------------------------------------
(* The columns of a row.                                                   *)

\* Three disjoint parts count no more than the whole.
LEMMA DisjointCounts ==
  ASSUME NEW S, IsFiniteSet(S), NEW A \in SUBSET S, NEW B \in SUBSET S, NEW C \in SUBSET S,
         A \cap B = {}, A \cap C = {}, B \cap C = {}
  PROVE  /\ Cardinality(A) \in Nat /\ Cardinality(B) \in Nat /\ Cardinality(C) \in Nat
         /\ Cardinality(S) \in Nat
         /\ Cardinality(A) + Cardinality(B) + Cardinality(C) <= Cardinality(S)
<1>1. IsFiniteSet(A) /\ IsFiniteSet(B) /\ IsFiniteSet(C)
  BY FS_Subset
<1>2. /\ Cardinality(A) \in Nat /\ Cardinality(B) \in Nat /\ Cardinality(C) \in Nat
      /\ Cardinality(S) \in Nat /\ Cardinality({}) = 0
  BY <1>1, FS_CardinalityType, FS_EmptySet
<1>3. IsFiniteSet(A \cup B) /\ Cardinality(A \cup B) = Cardinality(A) + Cardinality(B)
  <2>1. /\ IsFiniteSet(A \cup B)
        /\ Cardinality(A \cup B) = Cardinality(A) + Cardinality(B) - Cardinality(A \cap B)
    BY <1>1, FS_Union
  <2>2. Cardinality(A \cap B) = 0
    BY <1>2, Zenon
  <2> QED BY <1>2, <2>1, <2>2
<1>4. Cardinality((A \cup B) \cup C) = Cardinality(A) + Cardinality(B) + Cardinality(C)
  <2>1. Cardinality((A \cup B) \cup C)
        = Cardinality(A \cup B) + Cardinality(C) - Cardinality((A \cup B) \cap C)
    BY <1>1, <1>3, FS_Union
  <2>2. (A \cup B) \cap C = {}
    OBVIOUS
  <2>3. Cardinality((A \cup B) \cap C) = 0
    BY <1>2, <2>2, Zenon
  <2> QED BY <1>2, <1>3, <2>1, <2>3
<1>5. Cardinality((A \cup B) \cup C) <= Cardinality(S)
  <2>1. (A \cup B) \cup C \in SUBSET S
    OBVIOUS
  <2> QED BY <2>1, FS_Subset
<1> QED BY <1>2, <1>4, <1>5

AddsUp(row) == row.candidate = row.observed + row.not_matured + row.overlap + row.missing

\* The columns made of the reasons add up,
LEMMA CoverageAddsUp ==
  ASSUME NEW reasons, IsFiniteSet(reasons) PROVE AddsUp(CoverageSummary(reasons))
<1> DEFINE A == {p \in reasons : p[2] = "horizon_not_matured"}
           B == {p \in reasons : p[2] = "overlap_excluded"}
           C == {p \in reasons : p[2] = "none"}
           a == Cardinality(A)
           b == Cardinality(B)
           c == Cardinality(C)
           n == Cardinality(reasons)
<1>1. a \in Nat /\ b \in Nat /\ c \in Nat /\ n \in Nat /\ a + b + c <= n
  <2>1. /\ A \in SUBSET reasons /\ B \in SUBSET reasons /\ C \in SUBSET reasons
        /\ A \cap B = {} /\ A \cap C = {} /\ B \cap C = {}
    OBVIOUS
  <2> HIDE DEF A, B, C
  <2> QED BY <2>1, DisjointCounts
<1>2. /\ Count(reasons, "horizon_not_matured") = a /\ Count(reasons, "overlap_excluded") = b
      /\ Count(reasons, "none") = c
  BY DEF Count
<1> HIDE DEF a, b, c, n
<1>3. CoverageSummary(reasons) =
        [candidate |-> n, observed |-> c, not_matured |-> a, overlap |-> b,
         missing |-> IF n - a - b > c THEN n - a - b - c ELSE 0]
  BY <1>2 DEF CoverageSummary, n
<1> QED BY <1>1, <1>3 DEF AddsUp

\* so those of a series do,
LEMMA AggregateAddsUp ==
  ASSUME NEW E, IsFiniteSet(E), NEW reaction, NEW h PROVE AddsUp(Aggregate(E, reaction, h))
<1> DEFINE allowed == FilterOverlaps(E, h)
           g == [e \in E |-> <<e, IF e \in allowed THEN reaction[e][h].reason
                                   ELSE "overlap_excluded">>]
           reasons == {<<e, IF e \in allowed THEN reaction[e][h].reason
                            ELSE "overlap_excluded">> : e \in E}
<1>1. IsFiniteSet({g[e] : e \in E})
  <2>1. DOMAIN g = E
    OBVIOUS
  <2> HIDE DEF g
  <2> QED BY <2>1, ImageFinite
<1>2. reasons = {g[e] : e \in E}
  OBVIOUS
<1>3. Aggregate(E, reaction, h) = CoverageSummary(reasons)
  BY DEF Aggregate
<1>4. IsFiniteSet(reasons)
  <2> HIDE DEF reasons, g
  <2> QED BY <1>1, <1>2
<1> HIDE DEF reasons
<1> QED BY <1>3, <1>4, CoverageAddsUp

\* and those of the regimes,
LEMMA RegimesAddUp ==
  ASSUME NEW E, Ordered(E), NEW paths, NEW h PROVE AddsUp(Regimes(E, paths, h))
<1> DEFINE kept == FilterOverlaps(E, h)
           g == [e \in kept |-> <<e, paths[e][h]>>]
           seen == {<<e, paths[e][h]>> : e \in kept}
           immature == {p \in seen : p[2].status = "not_matured"}
           pairs == {p \in seen : /\ p[2].status = "available"
                                  /\ p[2].reference.value # "unavailable"
                                  /\ p[2].selected.value # "unavailable"}
           n == Cardinality(E)
           s == Cardinality(seen)
           i == Cardinality(immature)
           m == Cardinality(pairs)
<1>1. IsFiniteSet(seen)
  <2>1. IsFiniteSet(kept)
    <3>1. kept \in SUBSET E
      BY ChainKeeps DEF FilterOverlaps
    <3> HIDE DEF kept
    <3> QED BY <3>1, FS_Subset DEF Ordered
  <2>2. DOMAIN g = kept /\ seen = {g[e] : e \in kept}
    OBVIOUS
  <2> HIDE DEF g, seen, kept
  <2> QED BY <2>1, <2>2, ImageFinite
<1>2. i \in Nat /\ m \in Nat /\ s \in Nat /\ n \in Nat /\ i + m <= s
  <2>1. immature \in SUBSET seen /\ pairs \in SUBSET seen /\ immature \cap pairs = {}
    OBVIOUS
  <2> HIDE DEF immature, pairs, seen
  <2>2. i \in Nat /\ m \in Nat /\ s \in Nat /\ i + m + Cardinality({}) <= s
    BY <1>1, <2>1, DisjointCounts
  <2>3. n \in Nat /\ Cardinality({}) = 0
    BY FS_CardinalityType, FS_EmptySet DEF Ordered
  <2> QED BY <2>2, <2>3
<1>3. Regimes(E, paths, h) =
        [candidate |-> n, observed |-> m, not_matured |-> i, overlap |-> n - s,
         missing |-> IF s - i > m THEN s - i - m ELSE 0]
  BY DEF Regimes
<1> HIDE DEF n, s, i, m
<1> QED BY <1>2, <1>3 DEF AddsUp

\* and so those of every row of a summary.
LEMMA RowsAddUp ==
  ASSUME StudyTyped, NEW h \in Horizons, NEW E \in Build(events),
         NEW series \in History \cup {"regime"}
  PROVE  AddsUp(Summary(E, h)[series])
<1>1. E \in SUBSET events
  <2>1. \A G \in Strata(events) : G \in SUBSET events
    BY DEF Strata
  <2>2. Stratify(events) \subseteq Strata(events)
    BY DEF Stratify
  <2>3. Headline(events) \subseteq {events}
    BY DEF Headline
  <2> QED BY <2>1, <2>2, <2>3 DEF Build
<1>2. Ordered(E)
  <2>1. IsFiniteSet(E)
    BY <1>1, FS_Subset DEF StudyTyped
  <2> QED BY <1>1, <2>1 DEF Ordered, StudyTyped
<1>3. CASE series = "regime"
  <2>1. Summary(E, h)[series] = Regimes(E, RegimePaths(E), h)
    BY <1>3 DEF Summary
  <2> QED BY <1>2, <2>1, RegimesAddUp
<1>4. CASE series # "regime"
  <2>1. Summary(E, h)[series] = Aggregate(E, [e \in E |-> LoadSeries(series, e)], h)
    BY <1>4 DEF Summary
  <2> QED BY <1>2, <2>1, AggregateAddsUp DEF Ordered
<1> QED BY <1>3, <1>4

-----------------------------------------------------------------------------
(* The decisions after the events.                                         *)

\* A decision that an event reaches is linked to one.
LEMMA ReachedIsLinked ==
  ASSUME StudyTyped, NEW d, NEW e \in events, e.ts <= d.ts, d.ts - e.ts <= StudyReach
  PROVE  AssignDecision(d, events) # {}
<1> DEFINE eligible == {f \in events : f.ts <= d.ts /\ d.ts - f.ts <= StudyReach}
           explicit == {f \in eligible : f.key = d.link}
           from == IF explicit # {} THEN explicit ELSE eligible
           R == {p \in from \X from : Before(p[2], p[1])}
<1>1. from \in SUBSET events /\ from # {}
  OBVIOUS
<1>2. AssignDecision(d, events) = {f \in from : \A g \in from : ~Before(f, g)}
  BY DEF AssignDecision
<1>3. \A a, b \in from : <<a, b>> \in R <=> Before(b, a)
  OBVIOUS
<1>4. /\ \A a \in events : ~Before(a, a)
      /\ \A a, b, c \in events : Before(a, b) /\ Before(b, c) => Before(a, c)
  BY DEF Before, StudyTyped
<1> HIDE DEF from, R
<1>5. IsFiniteSet(from)
  BY <1>1, FS_Subset DEF StudyTyped
<1>6. \E f \in from : \A g \in from : <<g, f>> \notin R
  <2>1. /\ \A a \in from : <<a, a>> \notin R
        /\ \A a, b, c \in from : <<a, b>> \in R /\ <<b, c>> \in R => <<a, c>> \in R
    BY <1>1, <1>3, <1>4
  <2> QED BY <1>1, <1>5, <2>1, FirstExists
<1> QED BY <1>2, <1>3, <1>6

\* The decisions of a study are those that its events reach, and their regimes
\* are read with all that counts.
LEMMA DecisionsCovered ==
  ASSUME OutcomesAssumption, StudyAssumption, StudyTyped, events # {},
         DecisionStatistics(events).available
  PROVE  LET records == DecisionStatistics(events).records
         IN /\ \A d \in decisions : (\E e \in events : d.ts \in e.ts .. e.ts + StudyReach)
                                     => \E r \in records : r.decision = d
            /\ \A r \in records :
                   \/ RegimeContext(events).truncated
                   \/ r.signature = GovernedContext(r.decision,
                          {c \in contextRows : c.ts <= r.decision.ts})["regime_signature"]
<1> DEFINE first == Min({f.ts : f \in events})
           final == Max({f.ts : f \in events})
           longest == Max({HorizonOf[h] : h \in Horizons})
           start == first - RegimeReferenceAge
           last == final + longest + MaxLag
           end == IF last < now THEN last ELSE now
           reach == IF final + StudyReach < now THEN final + StudyReach ELSE now
           D == Cohort(events)
           linked == {d \in D : AssignDecision(d, events) # {}}
           context == RegimeContext(events)
           records == DecisionStatistics(events).records
           Recorded(d) ==
             [decision |-> d, event |-> AssignDecision(d, events),
              outcome |-> [h \in Horizons |-> Outcome(d, LoadBatch(linked)[d][h])],
              signature |-> GovernedContext(d, context.rows)["regime_signature"]]
<1>1. records = {Recorded(d) : d \in linked}
  BY DEF DecisionStatistics, DecisionRecords
<1>2. D = {d \in decisions : first <= d.ts /\ d.ts <= reach}
  BY DEF Cohort
<1>3. context = LoadContextHistory(start, end)
  BY DEF RegimeContext
<1>4. /\ first \in Nat /\ final \in Nat /\ now \in Nat
      /\ \A e \in events : e.ts \in Nat /\ first <= e.ts /\ e.ts <= final
  <2>1. IsFiniteSet(events) /\ \A f \in events : f.ts \in Nat
    BY DEF StudyTyped
  <2>2. \A e \in events : /\ first \in Nat /\ final \in Nat /\ first <= e.ts /\ e.ts <= final
    BY <2>1, BoundsOfEvents
  <2> HIDE DEF first, final
  <2> QED BY <2>1, <2>2 DEF StudyTyped, OutcomesTyped
<1>5. longest \in Nat /\ StudyReach <= longest + MaxLag /\ MaxLag \in Nat /\ StudyReach \in Nat
  <2>1. PICK h \in Horizons : StudyReach <= HorizonOf[h] + MaxLag
    BY DEF StudyAssumption, Horizons
  <2>2. longest \in Nat /\ HorizonOf[h] <= longest /\ HorizonOf[h] \in Nat
    BY LongestHorizon DEF OutcomesAssumption, Horizons
  <2> HIDE DEF longest
  <2> QED BY <2>1, <2>2 DEF StudyAssumption
<1> HIDE DEF first, final, longest
<1>6. \A d \in decisions : d.ts \in Nat /\ d.ts <= now
  BY DEF StudyTyped, OutcomesTyped
<1>7. ASSUME NEW d \in decisions, NEW e \in events, d.ts \in e.ts .. e.ts + StudyReach
      PROVE  \E r \in records : r.decision = d
  <2>1. e.ts <= d.ts /\ d.ts - e.ts <= StudyReach
    BY <1>4, <1>5, <1>6, <1>7
  <2>2. first <= d.ts /\ d.ts <= reach
    BY <1>4, <1>5, <1>6, <2>1
  <2>3. d \in linked
    BY <1>2, <2>1, <2>2, ReachedIsLinked
  <2>4. Recorded(d) \in records /\ Recorded(d).decision = d
    <3> HIDE DEF linked, records
    <3> QED BY <1>1, <2>3
  <2> QED BY <2>4
<1>8. ASSUME NEW r \in records, ~context.truncated
      PROVE  r.signature = GovernedContext(r.decision,
                {c \in contextRows : c.ts <= r.decision.ts})["regime_signature"]
  <2>1. PICK d \in linked : r = Recorded(d)
    <3> HIDE DEF linked, records
    <3> QED BY <1>1, <1>8
  <2>2. r.decision = d /\ r.signature = GovernedContext(d, context.rows)["regime_signature"]
    BY <2>1
  <2>3. d \in D
    OBVIOUS
  <2>4. d \in decisions /\ first <= d.ts /\ d.ts <= reach
    <3> HIDE DEF D
    <3> QED BY <1>2, <2>3
  <2>5. /\ d.ts \in Int /\ start \in Int /\ end \in Int /\ start <= d.ts /\ d.ts <= end
    BY <1>4, <1>5, <1>6, <2>4 DEF StudyAssumption
  <2>6. ~LoadContextHistory(start, end).truncated
    BY <1>3, <1>8
  <2> HIDE DEF start, end, context
  <2>7. \A s \in Series : LatestBefore(Of(context.rows, s), d.ts)
                            = LatestBefore(Of({c \in contextRows : c.ts <= d.ts}, s), d.ts)
    BY <1>3, <2>5, <2>6, ContextRowsSuffice DEF StudyTyped, OutcomesTyped
  <2>8. GovernedContext(d, context.rows) = GovernedContext(d, {c \in contextRows : c.ts <= d.ts})
    BY <2>7, CohortsFollow
  <2> QED BY <2>2, <2>8
<1> QED BY <1>7, <1>8

\* Typed histories lose nothing on the way to the statistics.
LEMMA StatisticsComplete ==
  ASSUME OutcomesAssumption, StudyAssumption, StudyTyped PROVE NothingLeftOut
<1>1. ASSUME NEW h \in Horizons, NEW E \in Build(events), NEW series \in History \cup {"regime"}
      PROVE  LET row == Summary(E, h)[series]
             IN row.candidate = row.observed + row.not_matured + row.overlap + row.missing
  BY <1>1, RowsAddUp DEF AddsUp
<1>2. ASSUME NEW h \in Horizons
      PROVE  LET kept == FilterOverlaps(events, h)
                 Meet(e, f) == e.ts < Due(f, h) /\ f.ts < Due(e, h)
             IN /\ \A e, f \in kept : e # f => ~Meet(e, f)
                /\ \A e \in events \ kept : \E f \in kept : Meet(e, f)
  BY WindowsDisjoint
<1> DEFINE Reached ==
             LET records == DecisionStatistics(events).records
             IN /\ \A d \in decisions : (\E e \in events : d.ts \in e.ts .. e.ts + StudyReach)
                                         => \E r \in records : r.decision = d
                /\ \A r \in records :
                       \/ RegimeContext(events).truncated
                       \/ r.signature = GovernedContext(r.decision,
                              {c \in contextRows : c.ts <= r.decision.ts})["regime_signature"]
<1>3. events # {} /\ DecisionStatistics(events).available => Reached
  BY DecisionsCovered
<1>4. \A h \in Horizons :
         LET kept == FilterOverlaps(events, h)
             Meet(e, f) == e.ts < Due(f, h) /\ f.ts < Due(e, h)
         IN /\ \A e, f \in kept : e # f => ~Meet(e, f)
            /\ \A e \in events \ kept : \E f \in kept : Meet(e, f)
            /\ \A E \in Build(events) : E # {} =>
                   \A series \in History \cup {"regime"} :
                       LET row == Summary(E, h)[series]
                       IN row.candidate = row.observed + row.not_matured + row.overlap + row.missing
  BY <1>1, <1>2
<1> QED BY <1>3, <1>4 DEF NothingLeftOut

\* The statistics of many events account for every event and for every
\* decision that an event reached.
THEOREM StatisticsLeaveNothingOut == StudySpec => []NothingLeftOut
<1>1. StudyInit => StudyTyped
  BY StudyInitially
<1>2. StudyTyped /\ [StudyNext]_<<outcomeVars, studyVars>> => StudyTyped'
  BY OutcomesAssumption, StudyAssumption, StudyTypedStep
<1>3. StudyTyped => NothingLeftOut
  BY OutcomesAssumption, StudyAssumption, StatisticsComplete
<1> QED BY <1>1, <1>2, <1>3, PTL DEF StudySpec

-----------------------------------------------------------------------------
(* The heuristic performance lab.                                          *)

OneById(S) == \A r, q \in S : r.id = q.id => r = q

HeuristicTyped ==
    /\ hour \in Nat
    /\ Stamped(quotes) /\ OneById(quotes)
    /\ \A q \in quotes : q.ts <= hour /\ q.id <= Cardinality(quotes)
    /\ \A f \in facts : f.ts \in Nat /\ f.ts <= hour
    /\ \A key \in DOMAIN evaluations :
          /\ key.ts \in Nat /\ evaluations[key].at \in Nat /\ evaluations[key].at <= hour
          /\ evaluations[key].from \in Nat

\* A row first at its time.
Opens(q) == q \in quotes /\ \A r \in quotes : r.ts = q.ts => q.id <= r.id

\* What was known from a time on.
KnownFrom(start, ts) == {r \in facts : start <= r.ts /\ r.ts <= ts}

\* What an evaluation holds of its rule and its context.
Judged(key) ==
    LET e == evaluations[key]
    IN /\ e.evaluable = (Needs(key.rule) \subseteq DOMAIN e.context)
       /\ e.fired = IF e.evaluable THEN Condition(key.rule, e.context) ELSE FALSE

\* Once its outcomes are complete an evaluation is the one that the whole history gives.
AsHistory(key) ==
    LET e == evaluations[key]
    IN /\ \E q \in quotes : /\ Opens(q) /\ q.ts = key.ts
                            /\ e.outcomes = [h \in HorizonNames |-> OutcomeAt(q, h, quotes)]
       /\ e.context = ContextOf(KnownFrom(e.from, key.ts))

HeuristicInv ==
    /\ HeuristicTyped
    /\ \A key \in DOMAIN evaluations : Judged(key) /\ (Settled(key) => AsHistory(key))

LEMMA FarthestExists ==
  ASSUME NEW S, IsFiniteSet(S), S # {}, NEW f, \A x \in S : f[x] \in Nat
  PROVE  \E x \in S : \A y \in S : f[y] <= f[x]
<1> DEFINE R == {p \in S \X S : f[p[1]] > f[p[2]]}
<1>0. \A x, y \in S : <<x, y>> \in R <=> f[x] > f[y]
  OBVIOUS
<1> HIDE DEF R
<1>1. PICK x \in S : \A y \in S : <<y, x>> \notin R
  <2>1. /\ \A a \in S : <<a, a>> \notin R
        /\ \A a, b, c \in S : <<a, b>> \in R /\ <<b, c>> \in R => <<a, c>> \in R
    BY <1>0
  <2> QED BY <2>1, FirstExists
<1>2. ASSUME NEW y \in S PROVE f[y] <= f[x]
  <2>1. f[x] \in Nat /\ f[y] \in Nat /\ ~(f[y] > f[x])
    BY <1>0, <1>1
  <2> QED BY <2>1
<1> QED BY <1>2

LEMMA ReachesTyped ==
  /\ Longest \in Nat
  /\ \A h \in HorizonNames : ReachOf[h] \in Nat /\ ReachOf[h] <= Longest
<1>1. /\ HorizonNames # {} /\ IsFiniteSet(HorizonNames) /\ \A h \in HorizonNames : ReachOf[h] \in Nat
  BY HeuristicAssumption DEF HeuristicAssumption, HorizonNames
<1>3. \E h \in HorizonNames : \A k \in HorizonNames : ReachOf[k] <= ReachOf[h]
  BY <1>1, FarthestExists
<1> DEFINE far == CHOOSE h \in HorizonNames : \A k \in HorizonNames : ReachOf[k] <= ReachOf[h]
<1>4. far \in HorizonNames /\ \A k \in HorizonNames : ReachOf[k] <= ReachOf[far]
  BY <1>3, Zenon
<1>5. Longest = ReachOf[far]
  BY Zenon DEF Longest
<1> HIDE DEF far
<1> QED BY <1>1, <1>4, <1>5

\* The first row of some.
IsFirst(r, S) == r \in S /\ \A q \in S \ {r} : Precedes(r, q)

LEMMA FirstIs ==
  ASSUME NEW S, Stamped(S)
  PROVE  /\ \A r : IsFirst(r, S) => First(S) = r
         /\ S # {} /\ OneById(S) => IsFirst(First(S), S)
<1>0. \A r, q \in S : Precedes(r, q) => ~Precedes(q, r)
  BY DEF Precedes, Stamped
<1>1. ASSUME NEW r, IsFirst(r, S) PROVE First(S) = r
  <2>1. r \in S /\ \A q \in S \ {r} : Precedes(r, q)
    BY <1>1 DEF IsFirst
  <2>2. \A p \in S : (\A q \in S \ {p} : Precedes(p, q)) => p = r
    BY <1>0, <2>1
  <2> QED BY <2>1, <2>2 DEF First
<1>2. ASSUME S # {}, OneById(S) PROVE IsFirst(First(S), S)
  <2>1. PICK r \in S : \A q \in S : ~Earlier(q, r)
    BY <1>2, EndsOfRows
  <2>2. ASSUME NEW q \in S \ {r} PROVE Precedes(r, q)
    <3>1. r.ts \in Nat /\ q.ts \in Nat /\ r.id \in Nat /\ q.id \in Nat /\ r.id # q.id
      BY <1>2 DEF Stamped, OneById
    <3>2. ~Earlier(q, r)
      BY <2>1
    <3> QED BY <3>1, <3>2 DEF Earlier, Precedes
  <2>3. IsFirst(r, S)
    BY <2>2 DEF IsFirst
  <2> QED BY <1>1, <2>3
<1> QED BY <1>1, <1>2

\* Rows that agree from a target on for as long as an outcome may come late give
\* the same outcome.
LEMMA SameOutcome ==
  ASSUME NEW R, NEW Q, Stamped(R), Stamped(Q), OneById(R), OneById(Q),
         NEW q, q.ts \in Nat, NEW h \in HorizonNames,
         \A r \in R \cup Q : r.ts >= q.ts + ReachOf[h] /\ r.ts <= q.ts + ReachOf[h] + LagLimit
                             => (r \in R <=> r \in Q)
  PROVE  OutcomeAt(q, h, R) = OutcomeAt(q, h, Q)
<1> DEFINE target == q.ts + ReachOf[h]
           After(S) == {r \in S : r.ts >= target}
           Near(r) == r.ts <= target + LagLimit
<1>0. target \in Nat /\ LagLimit \in Nat /\ Stamped(After(R)) /\ Stamped(After(Q))
      /\ OneById(After(R)) /\ OneById(After(Q))
  BY ReachesTyped, HeuristicAssumption, SubStamped DEF HeuristicAssumption, OneById
<1>a. ASSUME NEW A, NEW B, Stamped(A), Stamped(B), OneById(A), OneById(B),
             \A r \in A \cup B : Near(r) => (r \in A <=> r \in B),
             NEW x \in A, Near(x)
      PROVE  A # {} /\ B # {} /\ First(A) = First(B) /\ Near(First(A))
  <2>1. PICK f \in A : f = First(A) /\ \A r \in A \ {f} : Precedes(f, r)
    <3>1. IsFirst(First(A), A)
      BY <1>a, FirstIs
    <3> QED BY <3>1 DEF IsFirst
  <2>2. f.ts \in Nat /\ x.ts \in Nat /\ f.ts <= x.ts
    BY <1>a, <2>1 DEF Precedes, Stamped
  <2>3. Near(f)
    BY <1>0, <1>a, <2>2
  <2>4. f \in B
    BY <1>a, <2>3
  <2>5. ASSUME NEW r \in B \ {f} PROVE Precedes(f, r)
    <3>1. CASE Near(r)
      BY <1>a, <2>1, <2>5, <3>1
    <3>2. CASE ~Near(r)
      <4>1. r.ts \in Nat /\ f.ts < r.ts
        BY <1>0, <1>a, <2>2, <2>3, <3>2 DEF Stamped
      <4> QED BY <4>1 DEF Precedes
    <3> QED BY <3>1, <3>2
  <2>6. IsFirst(f, B)
    BY <2>4, <2>5 DEF IsFirst
  <2>7. First(B) = f
    BY <1>a, <2>6, FirstIs
  <2> QED BY <2>1, <2>3, <2>4, <2>7
<1>b. \A r \in After(R) \cup After(Q) : Near(r) => (r \in After(R) <=> r \in After(Q))
  OBVIOUS
<1>c. ASSUME NEW A, Stamped(A), OneById(A), A # {}, \A r \in A : ~Near(r)
      PROVE  TooLate(First(A), target)
  <2>1. First(A) \in A
    BY <1>c, FirstIs DEF IsFirst
  <2>2. First(A).ts \in Nat /\ ~Near(First(A))
    BY <1>c, <2>1 DEF Stamped
  <2> QED BY <1>0, <2>2 DEF TooLate
<1>d. \A S : OutcomeAt(q, h, S) = IF After(S) = {} \/ TooLate(First(After(S)), target) THEN NoOutcome
             ELSE LET move == First(After(S)).price - q.price
                  IN IF move > 0 THEN "up" ELSE IF move < 0 THEN "down" ELSE "flat"
  BY DEF OutcomeAt
<1> DEFINE AR == After(R)
           AQ == After(Q)
<1>1. CASE \E r \in AR \cup AQ : Near(r)
  <2>1. AR # {} /\ AQ # {} /\ First(AR) = First(AQ)
    <3>1. CASE \E r \in AR : Near(r)
      <4> HIDE DEF After, Near
      <4> QED BY <1>0, <1>a, <1>b, <3>1
    <3>2. CASE \E r \in AQ : Near(r)
      <4> HIDE DEF After, Near
      <4> QED BY <1>0, <1>a, <1>b, <3>2
    <3> QED BY <1>1, <3>1, <3>2
  <2> HIDE DEF After, target
  <2> QED BY <1>d, <2>1
<1>2. CASE ~ \E r \in AR \cup AQ : Near(r)
  <2> HIDE DEF After, target, Near
  <2>1. OutcomeAt(q, h, R) = NoOutcome
    BY <1>0, <1>c, <1>d, <1>2
  <2>2. OutcomeAt(q, h, Q) = NoOutcome
    BY <1>0, <1>c, <1>d, <1>2
  <2> QED BY <2>1, <2>2
<1> QED BY <1>1, <1>2

LEMMA HeuristicStarts == HeuristicInit => HeuristicInv
<1> SUFFICES ASSUME HeuristicInit PROVE HeuristicInv
  OBVIOUS
<1>1. DOMAIN evaluations = {} /\ quotes = {} /\ facts = {} /\ hour = 0
  BY DEF HeuristicInit
<1>2. Stamped({}) /\ OneById({})
  BY FS_EmptySet DEF Stamped, OneById
<1>3. HeuristicTyped
  BY <1>1, <1>2 DEF HeuristicTyped
<1> QED BY <1>1, <1>3 DEF HeuristicInv

\* A row stored is the next one, and it is stored late by no more than its bound.
HistoryGrows ==
    /\ quotes \subseteq quotes' /\ facts \subseteq facts'
    /\ \A r \in (quotes' \ quotes) \cup (facts' \ facts) :
           r.ts \in Nat /\ hour - LateBy <= r.ts /\ r.ts <= hour

LEMMA RowsStored ==
  ASSUME HeuristicTyped,
         \/ \E ts \in hour - LateBy .. hour :
               ts >= 0 /\ \/ \E price \in QuotePrice : StoreQuote(price, ts)
                          \/ \E fact \in Facts : StoreFact(fact, ts)
         \/ NextHour
  PROVE  HeuristicTyped' /\ HistoryGrows /\ UNCHANGED evaluations /\ hour' \in Nat /\ hour <= hour'
<1>0. hour \in Nat /\ LateBy \in Nat
  BY HeuristicAssumption DEF HeuristicAssumption, HeuristicTyped
<1>1. ASSUME NEW ts \in hour - LateBy .. hour, ts >= 0, NEW price \in QuotePrice,
             StoreQuote(price, ts)
      PROVE  HeuristicTyped' /\ HistoryGrows /\ UNCHANGED evaluations /\ hour' \in Nat /\ hour <= hour'
  <2>1. PICK q : /\ q = [price |-> price, ts |-> ts, id |-> Cardinality(quotes) + 1]
                 /\ quotes' = quotes \cup {q}
    BY <1>1 DEF StoreQuote
  <2>2. q.ts = ts /\ q.id = Cardinality(quotes) + 1
    BY <2>1
  <2>3. IsFiniteSet(quotes) /\ Cardinality(quotes) \in Nat
    BY FS_CardinalityType DEF HeuristicTyped, Stamped
  <2>4. q \notin quotes
    BY <2>2, <2>3 DEF HeuristicTyped, Stamped
  <2>5. IsFiniteSet(quotes') /\ Cardinality(quotes') = Cardinality(quotes) + 1
    BY <2>1, <2>3, <2>4, FS_AddElement
  <2>6. ts \in Nat /\ ts <= hour /\ hour - LateBy <= ts
    BY <1>0, <1>1
  <2>7. Stamped(quotes')
    BY <2>1, <2>2, <2>3, <2>5, <2>6 DEF HeuristicTyped, Stamped
  <2>8. OneById(quotes')
    BY <2>1, <2>2, <2>3 DEF HeuristicTyped, Stamped, OneById
  <2>9. hour' = hour /\ facts' = facts /\ evaluations' = evaluations
    BY <1>1 DEF StoreQuote
  <2>10. \A r \in quotes' : r.ts <= hour /\ r.id <= Cardinality(quotes')
    BY <2>1, <2>2, <2>3, <2>5, <2>6 DEF HeuristicTyped, Stamped
  <2>11. HeuristicTyped'
    BY <2>7, <2>8, <2>9, <2>10 DEF HeuristicTyped
  <2>12. HistoryGrows
    BY <2>1, <2>2, <2>6, <2>9 DEF HistoryGrows
  <2> QED BY <1>0, <2>9, <2>11, <2>12
<1>2. ASSUME NEW ts \in hour - LateBy .. hour, ts >= 0, NEW fact \in Facts,
             StoreFact(fact, ts)
      PROVE  HeuristicTyped' /\ HistoryGrows /\ UNCHANGED evaluations /\ hour' \in Nat /\ hour <= hour'
  <2>1. PICK f : f.ts = ts /\ facts' = facts \cup {f}
    BY <1>2 DEF StoreFact
  <2>2. hour' = hour /\ quotes' = quotes /\ evaluations' = evaluations
    BY <1>2 DEF StoreFact
  <2>3. ts \in Nat /\ ts <= hour /\ hour - LateBy <= ts
    BY <1>0, <1>2
  <2>4. HeuristicTyped'
    BY <2>1, <2>2, <2>3 DEF HeuristicTyped
  <2>5. HistoryGrows
    BY <2>1, <2>2, <2>3 DEF HistoryGrows
  <2> QED BY <1>0, <2>2, <2>4, <2>5
<1>3. ASSUME NextHour
      PROVE  HeuristicTyped' /\ HistoryGrows /\ UNCHANGED evaluations /\ hour' \in Nat /\ hour <= hour'
  <2>1. hour' = hour + 1 /\ quotes' = quotes /\ facts' = facts /\ evaluations' = evaluations
    BY <1>3 DEF NextHour
  <2>2. HeuristicTyped'
    BY <1>0, <2>1 DEF HeuristicTyped, Stamped
  <2>3. HistoryGrows
    BY <2>1 DEF HistoryGrows
  <2> QED BY <1>0, <2>1, <2>2, <2>3
<1> QED BY <1>1, <1>2, <1>3

\* What is stored too late for a settled evaluation changes nothing that it was made from.
LEMMA HistoryStays ==
  ASSUME HeuristicInv, HeuristicTyped', HistoryGrows, UNCHANGED evaluations
  PROVE  HeuristicInv'
<1> SUFFICES ASSUME NEW key \in DOMAIN evaluations
             PROVE  Judged(key)' /\ (Settled(key)' => AsHistory(key)')
  BY DEF HeuristicInv
<1>1. Judged(key)'
  BY DEF HeuristicInv, Judged
<1>2. ASSUME Settled(key) PROVE AsHistory(key)'
  <2> DEFINE e == evaluations[key]
  <2>0. /\ key.ts \in Nat /\ e.at \in Nat /\ e.at <= hour /\ hour \in Nat /\ e.from \in Nat
        /\ LateBy \in Nat /\ LagLimit \in Nat /\ Longest \in Nat
        /\ Stamped(quotes) /\ OneById(quotes) /\ Stamped(quotes') /\ OneById(quotes')
    BY HeuristicAssumption, ReachesTyped DEF HeuristicAssumption, HeuristicInv, HeuristicTyped
  <2>1. \A r \in (quotes' \ quotes) \cup (facts' \ facts) :
            r.ts \in Nat /\ r.ts > key.ts + Longest + LagLimit
    <3>1. key.ts + Longest + LagLimit + LateBy < e.at
      BY <1>2 DEF Settled
    <3> QED BY <2>0, <3>1 DEF HistoryGrows
  <2>2. AsHistory(key)
    BY <1>2 DEF HeuristicInv
  <2>3. PICK q \in quotes : /\ Opens(q) /\ q.ts = key.ts
                            /\ e.outcomes = [h \in HorizonNames |-> OutcomeAt(q, h, quotes)]
    BY <2>2 DEF AsHistory
  <2>4. quotes \subseteq quotes' /\ facts \subseteq facts'
    BY DEF HistoryGrows
  <2>5. q \in quotes' /\ Opens(q)'
    <3>1. \A r \in quotes' : r.ts = q.ts => r \in quotes
      BY <2>0, <2>1, <2>3
    <3> QED BY <2>3, <2>4, <3>1 DEF Opens
  <2>6. ASSUME NEW h \in HorizonNames PROVE OutcomeAt(q, h, quotes) = OutcomeAt(q, h, quotes')
    <3>1. \A r \in quotes \cup quotes' :
             r.ts >= q.ts + ReachOf[h] /\ r.ts <= q.ts + ReachOf[h] + LagLimit
             => (r \in quotes <=> r \in quotes')
      BY <2>0, <2>1, <2>3, <2>4, ReachesTyped
    <3> QED BY <2>0, <2>3, <3>1, SameOutcome
  <2>7. e.outcomes = [h \in HorizonNames |-> OutcomeAt(q, h, quotes')]
    BY <2>3, <2>6, Zenon
  <2>8. KnownFrom(e.from, key.ts)' = KnownFrom(e.from, key.ts)
    <3>1. \A r \in facts' : r.ts <= key.ts => r \in facts
      BY <2>0, <2>1
    <3> QED BY <2>4, <3>1 DEF KnownFrom
  <2>9. e' = e /\ e.context = ContextOf(KnownFrom(e.from, key.ts)')
    BY <2>2, <2>8 DEF AsHistory
  <2> HIDE DEF e
  <2>10. /\ \E r \in quotes' : /\ Opens(r)' /\ r.ts = key.ts
                            /\ e.outcomes = [h \in HorizonNames |-> OutcomeAt(r, h, quotes')]
         /\ e.context = ContextOf(KnownFrom(e.from, key.ts)')
    BY <2>3, <2>5, <2>7, <2>9
  <2> QED BY <2>9, <2>10 DEF AsHistory, e
<1>3. Settled(key)' <=> Settled(key)
  BY DEF Settled
<1> QED BY <1>1, <1>2, <1>3

\* An evaluation is of the first price at its time, over what the history held of the window.
EvaluatedFrom(start, end, key, e) ==
    \E q \in quotes :
        /\ Opens(q) /\ q.ts = key.ts /\ start <= q.ts /\ q.ts <= end
        /\ e = EvaluationOf(key.rule, q, Bundle(start, end))

\* A step of an evaluation: what it makes anew, and what it leaves.
LEMMA Evaluates ==
  ASSUME NEW start, NEW end, Evaluate(start, end)
  PROVE  /\ UNCHANGED <<hour, quotes, facts>> /\ DOMAIN evaluations \subseteq DOMAIN evaluations'
         /\ \A key \in DOMAIN evaluations' :
               \/ EvaluatedFrom(start, end, key, evaluations'[key])
               \/ key \in DOMAIN evaluations /\ evaluations'[key] = evaluations[key]
<1> DEFINE bundle == Bundle(start, end)
           S == Sampled({q \in bundle.quotes : q.ts <= end})
           K == [rule : HeuristicIds, ts : {q.ts : q \in S}]
           Made(key) == EvaluationOf(key.rule, CHOOSE q \in S : q.ts = key.ts, bundle)
           found == [key \in K |-> Made(key)]
<1>1. /\ evaluations' = [key \in DOMAIN found \cup DOMAIN evaluations |->
                            IF key \in DOMAIN found THEN found[key] ELSE evaluations[key]]
      /\ UNCHANGED <<hour, quotes, facts>>
  BY DEF Evaluate
<1>2. ASSUME NEW q \in S PROVE q \in quotes /\ Opens(q) /\ start <= q.ts /\ q.ts <= end
  <2>1. bundle.quotes = {r \in quotes : start <= r.ts /\ r.ts <= end + Longest + LagLimit}
    BY DEF Bundle
  <2>2. /\ q \in {r \in bundle.quotes : r.ts <= end}
        /\ \A r \in {r \in bundle.quotes : r.ts <= end} : r.ts = q.ts => q.id <= r.id
    BY <1>2 DEF Sampled
  <2>3. \A r \in quotes : r.ts = q.ts => r \in {p \in bundle.quotes : p.ts <= end}
    BY <2>1, <2>2
  <2> QED BY <2>1, <2>2, <2>3 DEF Opens
<1>3. ASSUME NEW key \in K PROVE EvaluatedFrom(start, end, key, Made(key))
  <2>1. key.ts \in {q.ts : q \in S}
    OBVIOUS
  <2>2. \E q \in S : q.ts = key.ts
    BY <2>1
  <2>3. PICK q \in S : q = (CHOOSE r \in S : r.ts = key.ts) /\ q.ts = key.ts
    <3> HIDE DEF S
    <3> QED BY <2>2, Zenon
  <2>4. Made(key) = EvaluationOf(key.rule, q, bundle)
    BY <2>3
  <2> HIDE DEF Made, S
  <2> QED BY <1>2, <2>3, <2>4 DEF EvaluatedFrom
<1> DEFINE Keys == K \cup DOMAIN evaluations
<1>4. /\ DOMAIN evaluations' = Keys
      /\ \A key \in Keys : evaluations'[key] = IF key \in K THEN Made(key) ELSE evaluations[key]
  <2>1. DOMAIN found = K /\ \A key \in K : found[key] = Made(key)
    BY Zenon
  <2> HIDE DEF found, K, Made
  <2> QED BY <1>1, <2>1
<1> HIDE DEF K, Made
<1>5. ASSUME NEW key \in DOMAIN evaluations'
      PROVE  \/ EvaluatedFrom(start, end, key, evaluations'[key])
             \/ key \in DOMAIN evaluations /\ evaluations'[key] = evaluations[key]
  <2>1. CASE key \in K
    BY <1>3, <1>4, <2>1
  <2>2. CASE key \notin K
    BY <1>4, <2>2
  <2> QED BY <2>1, <2>2
<1> QED BY <1>1, <1>4, <1>5

\* What an evaluation makes at a time: what the whole history gives there.
MadeOfHistory(start, key, e) ==
    /\ key.ts \in Nat /\ e.at = hour /\ e.from = start
    /\ e.evaluable = (Needs(key.rule) \subseteq DOMAIN e.context)
    /\ e.fired = IF e.evaluable THEN Condition(key.rule, e.context) ELSE FALSE
    /\ \E q \in quotes : /\ Opens(q) /\ q.ts = key.ts
                         /\ e.outcomes = [h \in HorizonNames |-> OutcomeAt(q, h, quotes)]
    /\ e.context = ContextOf(KnownFrom(start, key.ts))

LEMMA EvaluatedAsHistory ==
  ASSUME HeuristicTyped, NEW start \in Nat, NEW end \in Nat, NEW key, NEW e,
         EvaluatedFrom(start, end, key, e)
  PROVE  MadeOfHistory(start, key, e)
<1> DEFINE bundle == Bundle(start, end)
           Ctx(q) == ReconstructContext(bundle.facts, q.ts)
           Out(q) == [h \in HorizonNames |-> OutcomeAt(q, h, bundle.quotes)]
<1>1. PICK q \in quotes : /\ Opens(q) /\ q.ts = key.ts /\ start <= q.ts /\ q.ts <= end
                          /\ e = EvaluationOf(key.rule, q, bundle)
  BY DEF EvaluatedFrom
<1>2. /\ bundle.quotes = {r \in quotes : start <= r.ts /\ r.ts <= end + Longest + LagLimit}
      /\ bundle.facts = {r \in facts : start <= r.ts /\ r.ts <= end + Longest + LagLimit}
      /\ bundle.from = start /\ bundle.at = hour
  BY DEF Bundle
<1>3. /\ q.ts \in Nat /\ Stamped(quotes) /\ OneById(quotes) /\ hour \in Nat
      /\ LagLimit \in Nat /\ Longest \in Nat /\ \A f \in facts : f.ts \in Nat
  BY HeuristicAssumption, ReachesTyped DEF HeuristicAssumption, HeuristicTyped, Stamped
<1>4. Ctx(q) = ContextOf(KnownFrom(start, key.ts))
  <2>1. {r \in bundle.facts : r.ts <= q.ts} = KnownFrom(start, key.ts)
    <3>1. \A r \in facts : r.ts <= q.ts => r.ts <= end + Longest + LagLimit
      BY <1>1, <1>3
    <3> QED BY <1>1, <1>2, <3>1 DEF KnownFrom
  <2> QED BY <2>1 DEF ReconstructContext
<1>5. Out(q) = [h \in HorizonNames |-> OutcomeAt(q, h, quotes)]
  <2>1. ASSUME NEW h \in HorizonNames PROVE OutcomeAt(q, h, bundle.quotes) = OutcomeAt(q, h, quotes)
    <3> DEFINE Q == bundle.quotes
    <3>1. \A r \in Q \cup quotes :
             r.ts >= q.ts + ReachOf[h] /\ r.ts <= q.ts + ReachOf[h] + LagLimit
             => (r \in Q <=> r \in quotes)
      <4>1. ReachOf[h] \in Nat /\ ReachOf[h] <= Longest
        BY ReachesTyped
      <4>2. ASSUME NEW r \in quotes, r.ts >= q.ts + ReachOf[h],
                   r.ts <= q.ts + ReachOf[h] + LagLimit
            PROVE  start <= r.ts /\ r.ts <= end + Longest + LagLimit
        <5>1. r.ts \in Nat
          BY <1>3 DEF Stamped
        <5> QED BY <1>1, <1>3, <4>1, <4>2, <5>1
      <4> QED BY <1>2, <4>2
    <3>2. Stamped(Q) /\ OneById(Q)
      <4>1. Q \in SUBSET quotes
        BY <1>2
      <4> HIDE DEF Q
      <4> QED BY <1>3, <4>1, SubStamped DEF OneById
    <3> HIDE DEF Q
    <3>3. OutcomeAt(q, h, Q) = OutcomeAt(q, h, quotes)
      BY <1>3, <3>1, <3>2, SameOutcome
    <3> QED BY <3>3 DEF Q
  <2> HIDE DEF bundle
  <2> QED BY <2>1, Zenon
<1>6. /\ e.context = Ctx(q) /\ e.outcomes = Out(q) /\ e.from = start /\ e.at = hour
      /\ e.evaluable = (Needs(key.rule) \subseteq DOMAIN Ctx(q))
      /\ e.fired = IF Needs(key.rule) \subseteq DOMAIN Ctx(q)
                   THEN Condition(key.rule, Ctx(q)) ELSE FALSE
  <2> HIDE DEF Ctx, Out, bundle
  <2>1. e = [context |-> Ctx(q), evaluable |-> Needs(key.rule) \subseteq DOMAIN Ctx(q),
             fired |-> IF Needs(key.rule) \subseteq DOMAIN Ctx(q)
                       THEN Condition(key.rule, Ctx(q)) ELSE FALSE,
             outcomes |-> Out(q), from |-> bundle.from, at |-> bundle.at]
    BY <1>1, Zenon DEF EvaluationOf, Ctx, Out, bundle
  <2> QED BY <1>2, <2>1
<1> HIDE DEF Ctx, Out
<1> QED BY <1>1, <1>3, <1>4, <1>5, <1>6 DEF MadeOfHistory

LEMMA EvaluationsFollow ==
  ASSUME HeuristicInv, NEW start \in 0 .. hour, NEW end \in 0 .. hour, Evaluate(start, end)
  PROVE  HeuristicInv'
<1>1. /\ hour \in Nat /\ start \in Nat /\ end \in Nat /\ HeuristicTyped
  BY DEF HeuristicInv, HeuristicTyped
<1>2. /\ hour' = hour /\ quotes' = quotes /\ facts' = facts
      /\ \A key \in DOMAIN evaluations' :
            \/ EvaluatedFrom(start, end, key, evaluations'[key])
            \/ key \in DOMAIN evaluations /\ evaluations'[key] = evaluations[key]
  BY Evaluates
<1>3. \A q : Opens(q)' <=> Opens(q)
  BY <1>2 DEF Opens
<1>4. \A from, ts : KnownFrom(from, ts)' = KnownFrom(from, ts)
  BY <1>2 DEF KnownFrom
<1>5. ASSUME NEW key \in DOMAIN evaluations'
      PROVE  /\ key.ts \in Nat /\ evaluations'[key].at \in Nat /\ evaluations'[key].at <= hour
             /\ evaluations'[key].from \in Nat
             /\ Judged(key)' /\ (Settled(key)' => AsHistory(key)')
  <2> DEFINE e == evaluations'[key]
  <2>1. CASE EvaluatedFrom(start, end, key, e)
    <3>1. MadeOfHistory(start, key, e)
      <4> HIDE DEF e
      <4> QED BY <1>1, <2>1, EvaluatedAsHistory
    <3>2. Judged(key)'
      BY <3>1 DEF Judged, MadeOfHistory
    <3>3. AsHistory(key)'
      BY <1>2, <1>3, <1>4, <3>1 DEF AsHistory, MadeOfHistory
    <3> QED BY <1>1, <3>1, <3>2, <3>3 DEF MadeOfHistory
  <2>2. CASE key \in DOMAIN evaluations /\ e = evaluations[key]
    <3>1. Judged(key) /\ (Settled(key) => AsHistory(key))
      BY <2>2 DEF HeuristicInv
    <3>2. /\ key.ts \in Nat /\ e.at \in Nat /\ e.at <= hour /\ e.from \in Nat
      BY <1>1, <2>2 DEF HeuristicTyped
    <3>3. Judged(key)'
      BY <2>2, <3>1 DEF Judged
    <3>4. Settled(key)' => Settled(key)
      BY <2>2 DEF Settled
    <3>5. AsHistory(key) => AsHistory(key)'
      BY <1>2, <1>3, <1>4, <2>2 DEF AsHistory
    <3> QED BY <3>1, <3>2, <3>3, <3>4, <3>5
  <2> QED BY <1>2, <2>1, <2>2
<1>6. HeuristicTyped'
  BY <1>1, <1>2, <1>5 DEF HeuristicTyped
<1> QED BY <1>5, <1>6 DEF HeuristicInv

\* What a step may do to settled evaluations.
EvaluationStep ==
    \A rule \in HeuristicIds, start, end \in {key.ts : key \in DOMAIN evaluations} :
       LET keys == KeysIn(rule, start, end)
       IN (\A key \in keys : Settled(key)) =>
            /\ \A key \in keys : evaluations'[key].outcomes = evaluations[key].outcomes
            /\ (KeysIn(rule, start, end)' = keys
                /\ \A key \in keys : evaluations'[key].from = evaluations[key].from)
               => Performance(rule, start, end)' = Performance(rule, start, end)

\* A settled evaluation is what the whole history gives before a step and after it.
EvaluationStays(key) ==
    /\ evaluations'[key].outcomes = evaluations[key].outcomes
    /\ evaluations'[key].from = evaluations[key].from => StoredRow(key)' = StoredRow(key)

LEMMA SettledStays ==
  ASSUME HeuristicInv, NEW start \in 0 .. hour, NEW end \in 0 .. hour, Evaluate(start, end),
         NEW key \in DOMAIN evaluations, Settled(key)
  PROVE  EvaluationStays(key)
<1>1. /\ start \in Nat /\ end \in Nat /\ HeuristicTyped /\ Stamped(quotes) /\ OneById(quotes)
  BY DEF HeuristicInv, HeuristicTyped
<1>2. /\ key \in DOMAIN evaluations'
      /\ \/ EvaluatedFrom(start, end, key, evaluations'[key])
         \/ evaluations'[key] = evaluations[key]
  BY Evaluates
<1>3. CASE evaluations'[key] = evaluations[key]
  BY <1>3 DEF EvaluationStays, StoredRow
<1>4. CASE EvaluatedFrom(start, end, key, evaluations'[key])
  <2>1. PICK e, n : e = evaluations[key] /\ n = evaluations'[key]
    OBVIOUS
  <2>2. MadeOfHistory(start, key, n)
    BY <1>1, <1>4, <2>1, EvaluatedAsHistory
  <2>3. AsHistory(key) /\ Judged(key)
    BY DEF HeuristicInv
  <2>4. n.outcomes = e.outcomes
    <3>1. PICK q \in quotes : /\ Opens(q) /\ q.ts = key.ts
                              /\ e.outcomes = [h \in HorizonNames |-> OutcomeAt(q, h, quotes)]
      BY <2>1, <2>3 DEF AsHistory
    <3>2. PICK p \in quotes : /\ Opens(p) /\ p.ts = key.ts
                              /\ n.outcomes = [h \in HorizonNames |-> OutcomeAt(p, h, quotes)]
      BY <2>2 DEF MadeOfHistory
    <3>3. q.id \in Nat /\ p.id \in Nat /\ q.id <= p.id /\ p.id <= q.id
      BY <1>1, <3>1, <3>2 DEF Opens, Stamped
    <3>4. p = q
      BY <1>1, <3>3 DEF OneById
    <3> QED BY <3>1, <3>2, <3>4
  <2>5. ASSUME n.from = e.from
        PROVE  n.context = e.context /\ n.evaluable = e.evaluable /\ n.fired = e.fired
    <3>1. n.context = e.context
      BY <2>1, <2>2, <2>3, <2>5 DEF MadeOfHistory, AsHistory
    <3>2. n.evaluable = e.evaluable
      BY <2>1, <2>2, <2>3, <3>1 DEF MadeOfHistory, Judged
    <3>3. n.fired = e.fired
      BY <2>1, <2>2, <2>3, <3>1, <3>2 DEF MadeOfHistory, Judged
    <3> QED BY <3>1, <3>2, <3>3
  <2> QED BY <2>1, <2>4, <2>5 DEF EvaluationStays, StoredRow
<1> QED BY <1>2, <1>3, <1>4

\* Of the same rows the same performance.
LEMMA PerformanceFollows ==
  ASSUME NEW rule, NEW start, NEW end, NEW keys, keys = KeysIn(rule, start, end),
         KeysIn(rule, start, end)' = keys, \A key \in keys : StoredRow(key)' = StoredRow(key)
  PROVE  Performance(rule, start, end)' = Performance(rule, start, end)
<1> DEFINE Top == {k \in keys : Cardinality({j \in keys : j.ts > k.ts}) < QueryRows}
<1>1. /\ PerformanceRows(rule, start, end) = {StoredRow(k) : k \in Top}
      /\ PerformanceRows(rule, start, end)' = {StoredRow(k)' : k \in Top}
  BY DEF PerformanceRows
<1>2. PerformanceRows(rule, start, end)' = PerformanceRows(rule, start, end)
  BY <1>1
<1> QED BY <1>2 DEF Performance

LEMMA EvaluationsStep ==
  ASSUME HeuristicInv, HeuristicNext
  PROVE  HeuristicInv' /\ EvaluationStep
<1>1. ASSUME NEW rule \in HeuristicIds, UNCHANGED evaluations, NEW start, NEW end
      PROVE  /\ \A key : evaluations'[key].outcomes = evaluations[key].outcomes
             /\ Performance(rule, start, end)' = Performance(rule, start, end)
  <2>1. KeysIn(rule, start, end)' = KeysIn(rule, start, end)
    BY <1>1 DEF KeysIn
  <2>2. \A key : StoredRow(key)' = StoredRow(key)
    BY <1>1 DEF StoredRow
  <2> QED BY <1>1, <2>1, <2>2, PerformanceFollows
<1>2. ASSUME UNCHANGED evaluations PROVE EvaluationStep
  BY <1>1, <1>2 DEF EvaluationStep
<1>3. ASSUME \/ \E ts \in hour - LateBy .. hour :
                   ts >= 0 /\ \/ \E price \in QuotePrice : StoreQuote(price, ts)
                              \/ \E fact \in Facts : StoreFact(fact, ts)
             \/ NextHour
      PROVE  HeuristicInv' /\ EvaluationStep
  <2>1. HeuristicTyped' /\ HistoryGrows /\ UNCHANGED evaluations
    BY <1>3, RowsStored DEF HeuristicInv
  <2> QED BY <1>2, <2>1, HistoryStays
<1>4. ASSUME NEW from \in 0 .. hour, NEW to \in 0 .. hour, Evaluate(from, to)
      PROVE  HeuristicInv' /\ EvaluationStep
  <2>1. HeuristicInv'
    BY <1>4, EvaluationsFollow
  <2>2. ASSUME NEW rule \in HeuristicIds,
               NEW start \in {key.ts : key \in DOMAIN evaluations},
               NEW end \in {key.ts : key \in DOMAIN evaluations},
               NEW keys, keys = KeysIn(rule, start, end), \A key \in keys : Settled(key)
        PROVE  /\ \A key \in keys : evaluations'[key].outcomes = evaluations[key].outcomes
               /\ (KeysIn(rule, start, end)' = keys
                   /\ \A key \in keys : evaluations'[key].from = evaluations[key].from)
                  => Performance(rule, start, end)' = Performance(rule, start, end)
    <3>1. \A key \in keys : key \in DOMAIN evaluations
      BY <2>2 DEF KeysIn
    <3>2. \A key \in keys : EvaluationStays(key)
      BY <1>4, <2>2, <3>1, SettledStays
    <3>3. \A key \in keys : evaluations'[key].outcomes = evaluations[key].outcomes
      BY <3>2 DEF EvaluationStays
    <3>4. ASSUME KeysIn(rule, start, end)' = keys,
                 \A key \in keys : evaluations'[key].from = evaluations[key].from
          PROVE  Performance(rule, start, end)' = Performance(rule, start, end)
      <4>1. \A key \in keys : StoredRow(key)' = StoredRow(key)
        BY <3>2, <3>4 DEF EvaluationStays
      <4> QED BY <2>2, <3>4, <4>1, PerformanceFollows
    <3> QED BY <3>3, <3>4
  <2>3. EvaluationStep
    BY <2>2 DEF EvaluationStep
  <2> QED BY <2>1, <2>3
<1> QED BY <1>3, <1>4 DEF HeuristicNext

\* "Historical heuristic evaluation never fabricates missing historical outcomes": the
\* outcomes evaluated after their horizons had passed are what every later evaluation
\* finds, and the performance read from them stays, over any rules, history and windows.
THEOREM SettledStay == HeuristicInit /\ [][HeuristicNext]_heuristicVars => SettledEvaluationsStay
<1>1. HeuristicInit => HeuristicInv
  BY HeuristicStarts
<1>2. HeuristicInv /\ UNCHANGED heuristicVars => HeuristicInv'
  <2> SUFFICES ASSUME HeuristicInv, UNCHANGED heuristicVars PROVE HeuristicInv'
    OBVIOUS
  <2>1. HeuristicTyped'
    BY DEF HeuristicInv, HeuristicTyped, heuristicVars, Stamped, OneById
  <2>2. HistoryGrows /\ UNCHANGED evaluations
    BY DEF HistoryGrows, heuristicVars
  <2> QED BY <2>1, <2>2, HistoryStays
<1>3. HeuristicInv /\ HeuristicNext => HeuristicInv' /\ EvaluationStep
  BY EvaluationsStep
<1>4. HeuristicInv /\ [HeuristicNext]_heuristicVars => HeuristicInv' /\ [EvaluationStep]_heuristicVars
  BY <1>2, <1>3
<1>5. [][EvaluationStep]_heuristicVars => SettledEvaluationsStay
  BY PTL DEF SettledEvaluationsStay, EvaluationStep
<1> QED BY <1>1, <1>4, <1>5, PTL
=============================================================================
