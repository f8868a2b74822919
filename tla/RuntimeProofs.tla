---------------------------- MODULE RuntimeProofs ----------------------------
(***************************************************************************)
(* What runs beside something else.                                        *)
(*                                                                         *)
(* The OpenMP kernels, for any schedules, calls and team sizes.  The       *)
(* shares of a level tile it and no thread is more than a barrier ahead of *)
(* another, so no two threads touch the same value while one of them       *)
(* writes it.  What a cell holds follows from where the thread that has    *)
(* its row stands, so every row is fed the values of lexicographic         *)
(* Gauss-Seidel: the kernels implement GaussSeidelDataflow.                *)
(*                                                                         *)
(* What is kept to be found again is current: the results the benchmark    *)
(* runner keeps on disk, for any number of runners, fingerprints and       *)
(* tasks, and the schedules the smoother plugin keeps in a mesh, for any   *)
(* meshes, matrices and controls.                                          *)
(***************************************************************************)
EXTENDS ThreadedSweep, BenchmarkRunner, SmootherPlugin, LduAddressingTheorems

-----------------------------------------------------------------------------
(* Arithmetic the division of a level rests on. *)

LEMMA TimesMonotone ==
  ASSUME NEW a \in Nat, NEW b \in Nat, NEW n \in Nat, a <= b
  PROVE  n * a \in Nat /\ n * a <= n * b /\ a * n <= b * n
<1>1. PICK d \in Nat : b = a + d
  <2>1. b - a \in Nat /\ b = a + (b - a)
    OBVIOUS
  <2> QED
    BY <2>1
<1>2. n * b = n * a + n * d /\ b * n = a * n + d * n
  BY <1>1
<1>3. n * d \in Nat /\ d * n \in Nat /\ n * a \in Nat /\ a * n \in Nat
  OBVIOUS
<1> QED
  BY <1>2, <1>3

LEMMA QuotientFacts ==
  ASSUME NEW x \in Nat, NEW d \in Nat \ {0}
  PROVE  /\ x \div d \in Nat
         /\ x % d \in 0 .. d - 1
         /\ x = d * (x \div d) + (x % d)
  OBVIOUS

LEMMA QuotientMonotone ==
  ASSUME NEW x \in Nat, NEW y \in Nat, NEW d \in Nat \ {0}, x <= y
  PROVE  x \div d <= y \div d
<1> DEFINE p == x \div d
           q == y \div d
<1>1. p \in Nat /\ q \in Nat /\ d * p <= x /\ y < d * q + d
  BY QuotientFacts
<1> HIDE DEF p, q
<1>2. SUFFICES ASSUME p > q PROVE FALSE
  BY <1>1 DEF p, q
<1>3. q + 1 \in Nat /\ q + 1 <= p
  BY <1>1, <1>2
<1>4. d * (q + 1) <= d * p
  BY <1>1, <1>3, TimesMonotone
<1>5. d * (q + 1) = d * q + d /\ d * q \in Nat /\ d * p \in Nat
  BY <1>1
<1> QED
  BY <1>1, <1>4, <1>5

LEMMA ExactQuotient ==
  ASSUME NEW n \in Nat, NEW d \in Nat \ {0}
  PROVE  (n * d) \div d = n
<1> DEFINE q == (n * d) \div d
<1>1. n * d \in Nat
  BY TimesMonotone
<1>2. q \in Nat /\ (n * d) % d \in 0 .. d - 1 /\ n * d = d * q + ((n * d) % d)
  BY <1>1, QuotientFacts
<1> HIDE DEF q
<1>3. CASE q <= n - 1
  <2>1. d * q <= d * (n - 1)
    BY <1>2, <1>3, TimesMonotone
  <2>2. d * (n - 1) = n * d - d
    OBVIOUS
  <2> QED
    BY <1>2, <2>1, <2>2
<1>4. CASE q >= n + 1
  <2>1. d * (n + 1) <= d * q
    BY <1>2, <1>4, TimesMonotone
  <2>2. d * (n + 1) = n * d + d
    OBVIOUS
  <2> QED
    BY <1>2, <2>1, <2>2
<1> QED
  BY <1>2, <1>3, <1>4 DEF q

-----------------------------------------------------------------------------
(* What a call is given, and never changes. *)

Given ==
  /\ \E s \in Schedules :
       mesh = s.mesh /\ newToOld = s.newToOld /\ levelStarts = s.levelStarts
  /\ kernel \in Kernels
  /\ team \in 1 .. MaxThreads

LEMMA KernelFields ==
  ASSUME NEW k \in Kernels
  PROVE  /\ k.share \in {"static", "adaptive", "threshold"}
         /\ k.regions \in {"one", "perLevel"}
         /\ k.nowait \in BOOLEAN
         /\ k.nowait => k.regions = "one"
         /\ k.block \in Nat \ {0}
         /\ k.configured \in 1 .. 255
         /\ k.nSweeps \in Nat
<1>1. PICK shape \in {Persistent, DirectCoefficient, BlockedRowDegree,
                      AdaptiveBlocked, ThresholdBlocked, Hybrid, PerLevel} :
        \A field \in DOMAIN shape : k[field] = shape[field]
  BY KernelsAssumption
<1>2. DOMAIN shape = {"share", "regions", "nowait", "edges"}
  BY DEF Persistent, DirectCoefficient, BlockedRowDegree,
         AdaptiveBlocked, ThresholdBlocked, Hybrid, PerLevel
<1>3. /\ k.share = shape.share /\ k.regions = shape.regions
      /\ k.nowait = shape.nowait
  BY <1>1, <1>2
<1>4. /\ shape.share \in {"static", "adaptive", "threshold"}
      /\ shape.regions \in {"one", "perLevel"}
  BY DEF Persistent, DirectCoefficient, BlockedRowDegree,
         AdaptiveBlocked, ThresholdBlocked, Hybrid, PerLevel
<1>5. \/ shape.nowait = FALSE
      \/ shape.nowait = TRUE /\ shape.regions = "one"
  <2>1. \/ shape \in {Persistent, DirectCoefficient, BlockedRowDegree, Hybrid, PerLevel}
        \/ shape \in {AdaptiveBlocked, ThresholdBlocked}
    OBVIOUS
  <2>2. CASE shape \in {Persistent, DirectCoefficient, BlockedRowDegree, Hybrid, PerLevel}
    BY <2>2 DEF Persistent, DirectCoefficient, BlockedRowDegree, Hybrid, PerLevel
  <2>3. CASE shape \in {AdaptiveBlocked, ThresholdBlocked}
    BY <2>3 DEF AdaptiveBlocked, ThresholdBlocked
  <2> QED
    BY <2>1, <2>2, <2>3
<1> QED
  BY <1>3, <1>4, <1>5, KernelsAssumption

LEMMA GivenFacts ==
  ASSUME Given
  PROVE  /\ IsAddressing(mesh)
         /\ newToOld \in Seq(Cells) /\ IsInjective(newToOld) /\ Range(newToOld) = Cells
         /\ SeparatesLevels(mesh, newToOld, levelStarts)
         /\ Len(newToOld) \in 0 .. NCells
         /\ nLevels \in Nat
         /\ DOMAIN levelStarts = 1 .. nLevels + 1
         /\ \A i \in 1 .. nLevels + 1 : levelStarts[i] \in 0 .. Len(newToOld)
         /\ \A i, j \in 1 .. nLevels + 1 : i < j => levelStarts[i] < levelStarts[j]
         /\ levelStarts[1] = 0 /\ levelStarts[nLevels + 1] = Len(newToOld)
         /\ nSweeps \in Nat
         /\ team \in Nat \ {0}
<1>1. PICK s \in Schedules :
        mesh = s.mesh /\ newToOld = s.newToOld /\ levelStarts = s.levelStarts
  BY DEF Given
<1>2. /\ IsAddressing(mesh)
      /\ newToOld \in Seq(Cells) /\ IsInjective(newToOld) /\ Range(newToOld) = Cells
      /\ levelStarts \in Seq(Nat)
      /\ BracketsRows(newToOld, levelStarts)
      /\ SeparatesLevels(mesh, newToOld, levelStarts)
  BY <1>1, SchedulesAssumption DEF IsSchedule
<1>3. Len(newToOld) \in 0 .. NCells
  BY <1>2, InjectiveIsShort, LenProperties, NCellsAssumption
<1>4. /\ Len(levelStarts) \in Nat \ {0}
      /\ DOMAIN levelStarts = 1 .. Len(levelStarts)
      /\ \A i \in 1 .. Len(levelStarts) : levelStarts[i] \in Nat
  BY <1>2, LenProperties, EmptySeq DEF BracketsRows
<1>5. nLevels \in Nat /\ Len(levelStarts) = nLevels + 1
  BY <1>4 DEF nLevels
<1>6. ASSUME NEW i \in 1 .. nLevels + 1 PROVE levelStarts[i] \in 0 .. Len(newToOld)
  <2>1. CASE i = nLevels + 1
    BY <1>2, <1>3, <1>5, <2>1 DEF BracketsRows
  <2>2. CASE i < nLevels + 1
    <3>1. /\ \A a, b \in DOMAIN levelStarts : a < b => levelStarts[a] < levelStarts[b]
          /\ levelStarts[nLevels + 1] = Len(newToOld)
      BY <1>2, <1>5 DEF BracketsRows
    <3> QED
      BY <1>3, <1>4, <1>5, <2>2, <3>1
  <2> QED
    BY <1>5, <2>1, <2>2
<1>7. nSweeps \in Nat /\ team \in Nat \ {0}
  BY KernelFields, MaxThreadsAssumption DEF Given, nSweeps
<1> QED
  BY <1>2, <1>3, <1>4, <1>5, <1>6, <1>7 DEF BracketsRows

-----------------------------------------------------------------------------
(* Phases and shares. *)

LEMMA PhasesFacts ==
  ASSUME Given
  PROVE  /\ Phases \in Nat
         /\ kernel.regions = "one" =>
              /\ Phases = 1 + nSweeps * nLevels
              /\ IsSingle(0)
              /\ \A p \in Nat : IsSingle(p) => p = 0
<1>1. nSweeps * nLevels \in Nat /\ nSweeps \in Nat /\ nLevels \in Nat
  BY GivenFacts
<1>2. 2 * nSweeps * nLevels \in Nat
  BY <1>1
<1> QED
  BY <1>1, <1>2 DEF Phases, IsSingle

\* A level phase walks a level of the schedule.
LEMMA LevelRange ==
  ASSUME Given, NEW p \in Nat, IsLevel(p)
  PROVE  /\ p < Phases
         /\ LevelOf(p) \in 1 .. nLevels
<1>1. nSweeps \in Nat /\ nLevels \in Nat /\ p < Phases
  BY GivenFacts DEF IsLevel
<1>2. nLevels # 0
  <2>1. SUFFICES ASSUME nLevels = 0 PROVE FALSE
    OBVIOUS
  <2>2. nSweeps * nLevels = 0 /\ 2 * nSweeps * nLevels = 0
    BY <1>1, <2>1
  <2> QED
    BY <1>1, <2>2 DEF Phases, IsLevel, IsSingle
<1>3. CASE kernel.regions = "one"
  <2>1. p - 1 \in Nat
    BY <1>1, <1>3 DEF IsLevel, IsSingle
  <2>2. (p - 1) % nLevels \in 0 .. nLevels - 1
    BY <1>1, <1>2, <2>1, QuotientFacts
  <2> QED
    BY <1>1, <1>3, <2>2 DEF LevelOf
<1>4. CASE kernel.regions # "one"
  <2>1. p \div 2 \in Nat
    BY QuotientFacts
  <2>2. (p \div 2) % nLevels \in 0 .. nLevels - 1
    BY <1>1, <1>2, <2>1, QuotientFacts
  <2> QED
    BY <1>1, <1>4, <2>2 DEF LevelOf
<1> QED
  BY <1>3, <1>4

LEMMA LevelFacts ==
  ASSUME Given, NEW l \in 1 .. nLevels
  PROVE  /\ LevelBegin(l) \in Nat /\ LevelEnd(l) \in Nat /\ LevelBegin(l) < LevelEnd(l) /\ LevelEnd(l) <= NCells
         /\ LevelEnd(l) <= Len(newToOld)
         /\ LevelWidth(l) \in Nat
         /\ Blocks(l) \in Nat
         /\ Scheduled(l) \in Nat \ {0}
<1>1. /\ LevelBegin(l) \in Nat /\ LevelEnd(l) \in Nat /\ LevelBegin(l) < LevelEnd(l) /\ LevelEnd(l) <= NCells
      /\ LevelEnd(l) <= Len(newToOld)
  <2>1. l \in 1 .. nLevels + 1 /\ l + 1 \in 1 .. nLevels + 1 /\ l < l + 1
    BY GivenFacts
  <2> QED
    BY <2>1, GivenFacts, NCellsAssumption DEF LevelBegin, LevelEnd
<1>2. LevelWidth(l) \in Nat
  BY <1>1 DEF LevelWidth
<1>3. kernel.block \in Nat \ {0} /\ kernel.configured \in 1 .. 255
  BY KernelFields DEF Given
<1>4. Blocks(l) \in Nat
  <2>1. LevelWidth(l) + kernel.block - 1 \in Nat
    BY <1>2, <1>3
  <2> QED
    BY <1>3, <2>1, QuotientFacts DEF Blocks
<1>5. Scheduled(l) \in Nat \ {0}
  BY <1>3 DEF Scheduled
<1> QED
  BY <1>1, <1>2, <1>4, <1>5

\* schedule(static): the shares follow one another without a gap
LEMMA StaticTiles ==
  ASSUME Given, NEW n \in Nat
  PROVE  /\ StaticStart(0, n) = 0
         /\ StaticStart(team, n) = n
         /\ \A t \in 0 .. team : StaticStart(t, n) \in Nat
         /\ \A t, u \in 0 .. team : t <= u => StaticStart(t, n) <= StaticStart(u, n)
<1> DEFINE q == n \div team
           r == n % team
<1>1. team \in Nat \ {0}
  BY GivenFacts
<1>2. q \in Nat /\ r \in 0 .. team - 1 /\ n = team * q + r
  BY <1>1, QuotientFacts
<1>3. \A t \in 0 .. team : StaticStart(t, n) = t * q + AtMost(t, r)
  BY <1>1 DEF StaticStart
<1> HIDE DEF q, r
<1>4. \A t \in 0 .. team : t * q \in Nat /\ AtMost(t, r) \in Nat
  BY <1>1, <1>2 DEF AtMost
<1>5. \A t, u \in 0 .. team :
        t <= u => t * q <= u * q /\ AtMost(t, r) <= AtMost(u, r)
  BY <1>1, <1>2, TimesMonotone DEF AtMost
<1>6. 0 * q + AtMost(0, r) = 0 /\ team * q + AtMost(team, r) = n
  BY <1>1, <1>2 DEF AtMost
<1>7. 0 \in 0 .. team /\ team \in 0 .. team
  BY <1>1
<1> QED
  BY <1>3, <1>4, <1>5, <1>6, <1>7

\* the shares begin at the first block, end after the last one and do not overlap
Tiles(l) ==
  /\ ShareStart(0, l) = 0
  /\ ShareStart(team, l) = Blocks(l)
  /\ \A t \in 0 .. team : ShareStart(t, l) \in Nat
  /\ \A t, u \in 0 .. team : t <= u => ShareStart(t, l) <= ShareStart(u, l)

\* So they are in every kernel, whatever the team and the plan.
LEMMA SharesTile ==
  ASSUME Given, NEW l \in 1 .. nLevels
  PROVE  Tiles(l)
<1> DEFINE n == Blocks(l)
           active == AtMost(team, Scheduled(l))
<1>1. /\ n \in Nat /\ team \in Nat \ {0}
      /\ active \in 1 .. team /\ active \in Nat \ {0}
      /\ kernel.share \in {"static", "adaptive", "threshold"}
  <2>1. Scheduled(l) \in Nat \ {0} /\ n \in Nat /\ team \in Nat \ {0}
    BY LevelFacts, GivenFacts
  <2>2. kernel.share \in {"static", "adaptive", "threshold"}
    BY KernelFields DEF Given
  <2>3. active \in 1 .. team /\ active \in Nat \ {0}
    BY <2>1 DEF AtMost
  <2> QED
    BY <2>1, <2>2, <2>3
<1>2. CASE kernel.share = "adaptive"
  <2>1. \A t \in 0 .. team : ShareStart(t, l) = (n * AtMost(t, active)) \div active
    BY <1>2 DEF ShareStart
  <2> HIDE DEF n, active
  <2>2. /\ AtMost(0, active) = 0 /\ AtMost(team, active) = active
        /\ \A t \in 0 .. team : AtMost(t, active) \in Nat
        /\ \A t, u \in 0 .. team : t <= u => AtMost(t, active) <= AtMost(u, active)
    BY <1>1 DEF AtMost
  <2>3. ASSUME NEW t \in 0 .. team
        PROVE  n * AtMost(t, active) \in Nat /\ ShareStart(t, l) \in Nat
    <3>1. n * AtMost(t, active) \in Nat
      BY <1>1, <2>2, TimesMonotone
    <3>2. (n * AtMost(t, active)) \div active \in Nat
      BY <1>1, <3>1, QuotientFacts
    <3> QED
      BY <2>1, <3>1, <3>2
  <2>4. ASSUME NEW t \in 0 .. team, NEW u \in 0 .. team, t <= u
        PROVE  ShareStart(t, l) <= ShareStart(u, l)
    <3>1. n * AtMost(t, active) <= n * AtMost(u, active)
      BY <1>1, <2>2, <2>4, TimesMonotone
    <3>2. n * AtMost(t, active) \in Nat /\ n * AtMost(u, active) \in Nat
      BY <2>3
    <3>3. (n * AtMost(t, active)) \div active <= (n * AtMost(u, active)) \div active
      BY <1>1, <3>1, <3>2, QuotientMonotone
    <3> QED
      BY <2>1, <3>3
  <2>5. (n * 0) \div active = 0 /\ (n * active) \div active = n
    <3>1. n * 0 = 0 * active /\ 0 \in Nat /\ active \in Nat \ {0}
      BY <1>1
    <3> QED
      BY <1>1, <3>1, ExactQuotient
  <2>6. ShareStart(0, l) = 0 /\ ShareStart(team, l) = n
    <3>1. 0 \in 0 .. team /\ team \in 0 .. team
      BY <1>1
    <3>2. /\ ShareStart(0, l) = (n * 0) \div active
          /\ ShareStart(team, l) = (n * active) \div active
      BY <2>1, <2>2, <3>1
    <3> QED
      BY <2>5, <3>2
  <2> QED
    BY <2>3, <2>4, <2>6 DEF n, Tiles
<1>3. CASE kernel.share = "threshold" /\ Scheduled(l) = 1 /\ team > 1
  <2>1. \A t \in 0 .. team : ShareStart(t, l) = IF t = 0 THEN 0 ELSE n
    BY <1>3 DEF ShareStart
  <2> HIDE DEF n
  <2> QED
    BY <1>1, <2>1 DEF n, Tiles
<1>4. CASE \/ kernel.share = "static"
           \/ kernel.share = "threshold" /\ ~(Scheduled(l) = 1 /\ team > 1)
  <2>1. \A t \in 0 .. team : ShareStart(t, l) = StaticStart(t, n)
    BY <1>4 DEF ShareStart
  <2>2. 0 \in 0 .. team /\ team \in 0 .. team
    BY <1>1
  <2> HIDE DEF n
  <2>3. /\ StaticStart(0, n) = 0
        /\ StaticStart(team, n) = n
        /\ \A t \in 0 .. team : StaticStart(t, n) \in Nat
        /\ \A t, u \in 0 .. team : t <= u => StaticStart(t, n) <= StaticStart(u, n)
    BY <1>1, StaticTiles
  <2> QED
    BY <2>1, <2>2, <2>3 DEF n, Tiles
<1>5. \/ kernel.share = "adaptive"
      \/ kernel.share = "threshold" /\ Scheduled(l) = 1 /\ team > 1
      \/ kernel.share = "static"
      \/ kernel.share = "threshold" /\ ~(Scheduled(l) = 1 /\ team > 1)
  BY <1>1
<1> HIDE DEF n, active
<1> QED
  BY <1>2, <1>3, <1>4, <1>5

LEMMA RowFacts ==
  ASSUME Given, NEW l \in 1 .. nLevels
  PROVE  /\ RowAt(l, 0) = LevelBegin(l)
         /\ RowAt(l, Blocks(l)) = LevelEnd(l)
         /\ \A b \in Nat : RowAt(l, b) \in LevelBegin(l) .. LevelEnd(l)
         /\ \A a, b \in Nat : a <= b => RowAt(l, a) <= RowAt(l, b)
<1> DEFINE k == kernel.block
           w == LevelWidth(l)
<1>1. /\ LevelBegin(l) \in Nat /\ LevelEnd(l) \in Nat /\ LevelBegin(l) < LevelEnd(l)
      /\ w = LevelEnd(l) - LevelBegin(l) /\ w \in Nat
      /\ k \in Nat \ {0}
  BY LevelFacts, KernelFields DEF Given, LevelWidth
<1>2. \A b \in Nat : RowAt(l, b) = AtMost(LevelBegin(l) + b * k, LevelEnd(l))
  BY DEF RowAt
<1>3. /\ Blocks(l) \in Nat
      /\ w <= Blocks(l) * k
  <2>1. Blocks(l) = (w + k - 1) \div k
    BY DEF Blocks
  <2> HIDE DEF k, w
  <2>2. w + k - 1 \in Nat
    BY <1>1
  <2>3. /\ Blocks(l) \in Nat /\ (w + k - 1) % k \in 0 .. k - 1
        /\ w + k - 1 = k * Blocks(l) + ((w + k - 1) % k)
    BY <1>1, <2>1, <2>2, QuotientFacts
  <2> DEFINE b == Blocks(l)
             r == (w + k - 1) % k
  <2> HIDE DEF b, r
  <2>4. b \in Nat /\ r \in 0 .. k - 1 /\ w + k - 1 = k * b + r
    BY <2>3 DEF b, r
  <2>5. w <= k * b /\ k * b = b * k
    BY <1>1, <2>4
  <2> QED
    BY <2>3, <2>5 DEF b
<1> HIDE DEF k, w
<1>4. RowAt(l, 0) = LevelBegin(l)
  <2>1. 0 * k = 0
    BY <1>1
  <2> QED
    BY <1>1, <1>2, <2>1 DEF AtMost
<1>5. RowAt(l, Blocks(l)) = LevelEnd(l)
  <2>1. Blocks(l) * k \in Nat
    BY <1>1, <1>3
  <2> QED
    BY <1>1, <1>2, <1>3, <2>1 DEF AtMost
<1>6. ASSUME NEW b \in Nat PROVE RowAt(l, b) \in LevelBegin(l) .. LevelEnd(l)
  <2>1. b * k \in Nat
    BY <1>1
  <2> QED
    BY <1>1, <1>2, <2>1 DEF AtMost
<1>7. ASSUME NEW a \in Nat, NEW b \in Nat, a <= b PROVE RowAt(l, a) <= RowAt(l, b)
  <2>1. a * k \in Nat /\ b * k \in Nat /\ a * k <= b * k
    BY <1>1, <1>7, TimesMonotone
  <2>2. /\ RowAt(l, a) = AtMost(LevelBegin(l) + a * k, LevelEnd(l))
        /\ RowAt(l, b) = AtMost(LevelBegin(l) + b * k, LevelEnd(l))
    BY <1>2
  <2>3. \A x, y \in Nat :
          x <= y => AtMost(LevelBegin(l) + x, LevelEnd(l)) <= AtMost(LevelBegin(l) + y, LevelEnd(l))
    BY <1>1 DEF AtMost
  <2> QED
    BY <2>1, <2>2, <2>3
<1> QED
  BY <1>4, <1>5, <1>6, <1>7

\* The rows of the threads in a level phase: within the level, one after the
\* other in the order of the threads.
LEMMA RowsTile ==
  ASSUME Given, NEW p \in Nat, IsLevel(p)
  PROVE  LET l == LevelOf(p)
         IN  /\ FirstRow(0, p) = LevelBegin(l)
             /\ EndRow(team - 1, p) = LevelEnd(l)
             /\ \A t \in Team : /\ FirstRow(t, p) \in LevelBegin(l) .. LevelEnd(l)
                                /\ EndRow(t, p) \in LevelBegin(l) .. LevelEnd(l)
                                /\ FirstRow(t, p) <= EndRow(t, p)
             /\ \A t, u \in Team : t < u => EndRow(t, p) <= FirstRow(u, p)
             /\ \A t \in Team : t + 1 \in Team => EndRow(t, p) = FirstRow(t + 1, p)
<1> DEFINE l == LevelOf(p)
<1>1. l \in 1 .. nLevels
  BY LevelRange
<1>2. \A t \in 0 .. team : /\ FirstRow(t, p) = RowAt(l, ShareStart(t, l))
                           /\ EndRow(t, p) = RowAt(l, ShareStart(t + 1, l))
  BY DEF FirstRow, EndRow
<1> HIDE DEF l
<1>3. team \in Nat \ {0} /\ LevelBegin(l) \in Nat /\ LevelEnd(l) \in Nat
  BY <1>1, GivenFacts, LevelFacts
<1>4. Tiles(l)
  BY <1>1, SharesTile
<1>5. \A t \in 0 .. team : RowAt(l, ShareStart(t, l)) \in LevelBegin(l) .. LevelEnd(l)
  BY <1>1, <1>4, RowFacts DEF Tiles
<1>6. \A t, u \in 0 .. team :
        t <= u => RowAt(l, ShareStart(t, l)) <= RowAt(l, ShareStart(u, l))
  BY <1>1, <1>4, RowFacts DEF Tiles
<1>7. \A t \in Team : t \in 0 .. team /\ t + 1 \in 0 .. team
  BY <1>3 DEF Team
<1>8. FirstRow(0, p) = LevelBegin(l) /\ EndRow(team - 1, p) = LevelEnd(l)
  <2>1. 0 \in 0 .. team /\ team - 1 \in 0 .. team /\ (team - 1) + 1 = team
    BY <1>3
  <2>2. FirstRow(0, p) = RowAt(l, 0) /\ EndRow(team - 1, p) = RowAt(l, Blocks(l))
    BY <1>2, <1>4, <2>1 DEF Tiles
  <2> QED
    BY <1>1, <2>2, RowFacts
<1>9. ASSUME NEW t \in Team
      PROVE  /\ FirstRow(t, p) \in LevelBegin(l) .. LevelEnd(l)
             /\ EndRow(t, p) \in LevelBegin(l) .. LevelEnd(l)
             /\ FirstRow(t, p) <= EndRow(t, p)
             /\ t + 1 \in Team => EndRow(t, p) = FirstRow(t + 1, p)
  <2>1. t \in 0 .. team /\ t + 1 \in 0 .. team /\ t <= t + 1
    BY <1>3, <1>7 DEF Team
  <2> QED
    BY <1>2, <1>5, <1>6, <2>1
<1>10. ASSUME NEW t \in Team, NEW u \in Team, t < u
       PROVE  EndRow(t, p) <= FirstRow(u, p)
  <2>1. t \in 0 .. team /\ t + 1 \in 0 .. team /\ u \in 0 .. team /\ t + 1 <= u
    BY <1>3, <1>7, <1>10 DEF Team
  <2> QED
    BY <1>2, <1>6, <2>1
<1> QED
  BY <1>8, <1>9, <1>10 DEF l

\* Two rows of one level neither are the same cell nor read each other.
LEMMA LevelIndependent ==
  ASSUME Given, NEW l \in 1 .. nLevels,
         NEW r \in LevelBegin(l) .. LevelEnd(l) - 1, NEW q \in LevelBegin(l) .. LevelEnd(l) - 1, r # q
  PROVE  /\ CellOf(r) \in Cells /\ CellOf(q) \in Cells
         /\ CellOf(r) # CellOf(q)
         /\ \A f \in Faces(mesh) : ~(mesh.lower[f] = CellOf(r) /\ mesh.upper[f] = CellOf(q))
         /\ CellOf(r) \notin Neighbours(CellOf(q))
<1> DEFINE i == r + 1
           j == q + 1
<1>1. /\ i \in 1 .. Len(newToOld) /\ j \in 1 .. Len(newToOld) /\ i # j
      /\ DOMAIN newToOld = 1 .. Len(newToOld)
  BY LevelFacts, GivenFacts, LenProperties
<1>2. CellOf(r) = newToOld[i] /\ CellOf(q) = newToOld[j]
  BY DEF CellOf
<1>3. newToOld[i] \in Cells /\ newToOld[j] \in Cells /\ newToOld[i] # newToOld[j]
  BY <1>1, GivenFacts, ElementOfSeq DEF IsInjective
<1>4. \A b \in DOMAIN levelStarts : levelStarts[b] <= LevelBegin(l) \/ levelStarts[b] >= LevelEnd(l)
  <2> SUFFICES ASSUME NEW b \in 1 .. nLevels + 1
               PROVE  levelStarts[b] <= LevelBegin(l) \/ levelStarts[b] >= LevelEnd(l)
    BY GivenFacts
  <2>1. /\ nLevels \in Nat /\ levelStarts[b] \in Nat
        /\ l \in 1 .. nLevels + 1 /\ l + 1 \in 1 .. nLevels + 1
        /\ levelStarts[l] \in Nat /\ levelStarts[l + 1] \in Nat
    BY GivenFacts
  <2>2. CASE b < l
    BY <2>1, <2>2, GivenFacts DEF LevelBegin
  <2>3. CASE b = l
    BY <2>1, <2>3 DEF LevelBegin
  <2>4. CASE b = l + 1
    BY <2>1, <2>4 DEF LevelEnd
  <2>5. CASE b > l + 1
    BY <2>1, <2>5, GivenFacts DEF LevelEnd
  <2> QED
    BY <2>1, <2>2, <2>3, <2>4, <2>5
<1>5. ASSUME NEW f \in Faces(mesh), NEW x \in LevelBegin(l) .. LevelEnd(l) - 1,
             NEW y \in LevelBegin(l) .. LevelEnd(l) - 1,
             mesh.lower[f] = newToOld[x + 1], mesh.upper[f] = newToOld[y + 1]
      PROVE  FALSE
  <2>1. /\ x + 1 \in DOMAIN newToOld /\ y + 1 \in DOMAIN newToOld
        /\ x \in Nat /\ y \in Nat /\ LevelBegin(l) \in Nat /\ LevelEnd(l) \in Nat
        /\ LevelBegin(l) <= x /\ x < LevelEnd(l) /\ LevelBegin(l) <= y /\ y < LevelEnd(l)
    <3>1. /\ LevelBegin(l) \in Nat /\ LevelEnd(l) \in Nat /\ LevelEnd(l) <= Len(newToOld)
          /\ Len(newToOld) \in Nat
      BY LevelFacts, GivenFacts
    <3> HIDE DEF i, j
    <3> QED
      BY <1>1, <3>1
  <2>2. PICK k \in 1 .. (y + 1) - 1, b \in DOMAIN levelStarts :
          newToOld[k] = mesh.lower[f] /\ k <= levelStarts[b] /\ levelStarts[b] < y + 1
    BY <1>5, <2>1, GivenFacts DEF SeparatesLevels
  <2>3. k \in DOMAIN newToOld
    BY <1>1, <2>1, <2>2
  <2>4. k = x + 1
    BY <1>5, <2>1, <2>2, <2>3, GivenFacts DEF IsInjective
  <2>5. levelStarts[b] \in Nat
    BY GivenFacts
  <2> QED
    BY <1>4, <2>1, <2>2, <2>4, <2>5
<1>6. \A f \in Faces(mesh) :
        /\ ~(mesh.lower[f] = CellOf(r) /\ mesh.upper[f] = CellOf(q))
        /\ ~(mesh.lower[f] = CellOf(q) /\ mesh.upper[f] = CellOf(r))
  BY <1>2, <1>5
<1>7. CellOf(r) \notin Neighbours(CellOf(q))
  BY <1>6 DEF Neighbours, IncomingFaces, OwnedFaces
<1> QED
  BY <1>2, <1>3, <1>6, <1>7

-----------------------------------------------------------------------------
(* The invariant of the threads' control. *)

MemoryOK ==
  /\ sweeps \in [Cells -> Nat]
  /\ edgeSweeps \in [Faces(mesh) -> Nat]
  /\ detectedThreads \in 0 .. MaxThreads
  /\ singles \in SUBSET (0 .. Phases)

ControlOK ==
  /\ phase \in [Threads -> 0 .. Phases]
  /\ at \in [Threads -> {"run", "row", "barrier"}]
  /\ next \in [Threads -> 0 .. NCells]
  /\ stop \in [Threads -> 0 .. NCells]

\* In a level, next walks through the thread's share; at the barrier it has
\* reached the end.
Positioned(t) ==
  /\ IsLevel(phase[t]) =>
       /\ stop[t] = EndRow(t, phase[t])
       /\ FirstRow(t, phase[t]) <= next[t]
       /\ next[t] <= stop[t]
  /\ at[t] = "row" => IsLevel(phase[t]) /\ next[t] < stop[t]
  /\ at[t] = "barrier" => phase[t] < Phases /\ (IsLevel(phase[t]) => next[t] = stop[t])

ControlInv == ControlOK /\ (\A t \in Team : Positioned(t)) /\ InStep

BarrierInv == Given /\ MemoryOK /\ ControlInv

LEMMA Frame ==
  ASSUME UNCHANGED schedule
  PROVE  /\ mesh' = mesh /\ newToOld' = newToOld /\ levelStarts' = levelStarts
         /\ kernel' = kernel /\ team' = team
         /\ Given' = Given
         /\ Phases' = Phases /\ Team' = Team
         /\ \A p \in Nat : IsLevel(p)' = IsLevel(p) /\ LevelOf(p)' = LevelOf(p)
         /\ \A p \in Nat : \A t \in Threads :
              FirstRow(t, p)' = FirstRow(t, p) /\ EndRow(t, p)' = EndRow(t, p)
<1>1. /\ mesh' = mesh /\ newToOld' = newToOld /\ levelStarts' = levelStarts
      /\ kernel' = kernel /\ team' = team
  BY DEF schedule
<1>2. Given' = Given
  BY <1>1 DEF Given
<1>3. Phases' = Phases /\ Team' = Team
  BY <1>1 DEF Phases, nSweeps, nLevels, Team
<1>4. ASSUME NEW p \in Nat PROVE IsLevel(p)' = IsLevel(p) /\ LevelOf(p)' = LevelOf(p)
  BY <1>1 DEF IsLevel, IsSingle, Phases, nSweeps, nLevels, LevelOf
<1>5. ASSUME NEW p \in Nat, NEW t \in Threads
      PROVE  FirstRow(t, p)' = FirstRow(t, p) /\ EndRow(t, p)' = EndRow(t, p)
  BY <1>1 DEF FirstRow, EndRow, IsLevel, IsSingle, Phases, nSweeps, nLevels, LevelOf,
              RowAt, ShareStart, StaticStart, Blocks, LevelWidth, LevelBegin, LevelEnd, Scheduled
<1> QED
  BY <1>1, <1>2, <1>3, <1>4, <1>5

LEMMA TeamFacts ==
  ASSUME Given
  PROVE  Team \subseteq Threads /\ 0 \in Team /\ Threads \subseteq Nat
  BY MaxThreadsAssumption DEF Given, Team, Threads

\* Where a thread stands when it enters a phase.
LEMMA EntryRows ==
  ASSUME Given, NEW p \in Nat, NEW t \in Team
  PROVE  /\ FirstRow(t, p) \in 0 .. NCells
         /\ EndRow(t, p) \in 0 .. NCells
         /\ FirstRow(t, p) <= EndRow(t, p)
<1>1. CASE IsLevel(p)
  <2>1. LevelOf(p) \in 1 .. nLevels
    BY <1>1, LevelRange
  <2>2. /\ LevelBegin(LevelOf(p)) \in Nat /\ LevelEnd(LevelOf(p)) \in Nat
        /\ LevelEnd(LevelOf(p)) <= NCells
    BY <2>1, LevelFacts
  <2> QED
    BY <1>1, <2>2, RowsTile, NCellsAssumption
<1>2. CASE ~IsLevel(p)
  BY <1>2, NCellsAssumption DEF FirstRow, EndRow
<1> QED
  BY <1>1, <1>2

LEMMA InitBarrier == Init => BarrierInv
<1> SUFFICES ASSUME Init PROVE BarrierInv
  OBVIOUS
<1>1. Given
  BY DEF Init, Given
<1>2. Phases \in Nat
  BY <1>1, PhasesFacts
<1>3. MemoryOK
  BY <1>2, MaxThreadsAssumption DEF Init, MemoryOK
<1>4. ControlOK
  BY <1>2, NCellsAssumption DEF Init, ControlOK
<1>5. ~IsLevel(0)
  BY <1>1, PhasesFacts, KernelFields DEF Given, IsLevel, IsSingle
<1>6. \A t \in Team : phase[t] = 0 /\ at[t] = "run"
  BY <1>1, TeamFacts DEF Init
<1>7. \A t \in Team : Positioned(t)
  BY <1>5, <1>6 DEF Positioned
<1>8. InStep
  BY <1>6 DEF InStep
<1> QED
  BY <1>1, <1>3, <1>4, <1>7, <1>8 DEF BarrierInv, ControlInv

\* Entering the next phase, when the others are at the barrier of this one,
\* or ahead of it, or this one is a single without a barrier.
LEMMA AdvanceKeeps ==
  ASSUME Given, ControlInv, UNCHANGED schedule,
         NEW t \in Team, Advance(t), phase[t] < Phases,
         \A u \in Team \ {t} :
           \/ phase[u] = phase[t] /\ at[u] = "barrier"
           \/ phase[u] = phase[t] + 1
           \/ phase[t] = 0 /\ phase[u] = 0 /\ kernel.nowait
  PROVE  ControlInv'
<1> DEFINE p == phase[t] + 1
<1>1. /\ Phases \in Nat /\ t \in Threads /\ phase[t] \in Nat /\ p \in 0 .. Phases /\ p \in Nat
      /\ \A u \in Team : u \in Threads /\ phase[u] \in Nat
  BY PhasesFacts, TeamFacts DEF ControlInv, ControlOK
<1>2. /\ phase' = [phase EXCEPT ![t] = p] /\ at' = [at EXCEPT ![t] = "run"]
      /\ next' = [next EXCEPT ![t] = FirstRow(t, p)]
      /\ stop' = [stop EXCEPT ![t] = EndRow(t, p)]
  BY DEF Advance
<1> HIDE DEF p
<1>3. ControlOK'
  <2>1. FirstRow(t, p) \in 0 .. NCells /\ EndRow(t, p) \in 0 .. NCells
    BY <1>1, EntryRows
  <2> QED
    BY <1>1, <1>2, <2>1, Frame DEF ControlInv, ControlOK
<1>4. /\ phase'[t] = p /\ at'[t] = "run"
      /\ next'[t] = FirstRow(t, p) /\ stop'[t] = EndRow(t, p)
      /\ \A u \in Team \ {t} : /\ phase'[u] = phase[u] /\ at'[u] = at[u]
                               /\ next'[u] = next[u] /\ stop'[u] = stop[u]
  BY <1>1, <1>2 DEF ControlInv, ControlOK
<1>5. ASSUME NEW u \in Team PROVE Positioned(u)'
  <2>1. CASE u = t
    BY <1>1, <1>4, <2>1, Frame, EntryRows DEF Positioned
  <2>2. CASE u # t
    BY <1>1, <1>4, <2>2, Frame DEF ControlInv, Positioned
  <2> QED
    BY <2>1, <2>2
<1>6. InStep'
  <2> SUFFICES ASSUME NEW u \in Team, NEW v \in Team, phase'[u] > phase'[v]
               PROVE  \/ phase'[u] = phase'[v] + 1 /\ at'[v] = "barrier"
                      \/ phase'[v] = 0 /\ kernel.nowait /\ phase'[u] = 1
    BY Frame DEF InStep
  <2>1. CASE u = t /\ v # t
    BY <1>1, <1>4, <2>1 DEF p
  <2>2. CASE u # t /\ v = t
    BY <1>1, <1>4, <2>2 DEF p
  <2>3. CASE u # t /\ v # t
    BY <1>4, <2>3 DEF ControlInv, InStep
  <2>4. CASE u = t /\ v = t
    BY <1>1, <1>4, <2>4
  <2> QED
    BY <2>1, <2>2, <2>3, <2>4
<1> QED
  BY <1>3, <1>5, <1>6, Frame DEF ControlInv

LEMMA WaitKeeps ==
  ASSUME Given, ControlInv, UNCHANGED schedule,
         NEW t \in Team, Wait(t), at[t] = "run", phase[t] < Phases,
         IsLevel(phase[t]) => next[t] >= stop[t]
  PROVE  ControlInv'
<1>1. /\ t \in Threads /\ phase[t] \in Nat /\ next[t] \in Nat /\ stop[t] \in Nat
      /\ \A u \in Team : u \in Threads /\ phase[u] \in Nat
  BY TeamFacts, PhasesFacts, NCellsAssumption DEF ControlInv, ControlOK
<1>2. phase' = phase /\ next' = next /\ stop' = stop /\ at' = [at EXCEPT ![t] = "barrier"]
  BY DEF Wait
<1>3. at'[t] = "barrier" /\ \A u \in Team \ {t} : at'[u] = at[u]
  BY <1>1, <1>2 DEF ControlInv, ControlOK
<1>4. ControlOK'
  BY <1>2, Frame DEF ControlInv, ControlOK
<1>5. ASSUME NEW u \in Team PROVE Positioned(u)'
  <2>1. CASE u = t
    BY <1>1, <1>2, <1>3, <2>1, Frame DEF ControlInv, Positioned
  <2>2. CASE u # t
    BY <1>1, <1>2, <1>3, <2>2, Frame DEF ControlInv, Positioned
  <2> QED
    BY <2>1, <2>2
<1>6. InStep'
  BY <1>2, <1>3, Frame DEF ControlInv, InStep
<1> QED
  BY <1>4, <1>5, <1>6, Frame DEF ControlInv

\* Between two barriers a thread that is not at one of them keeps its phase.
LEMMA RowKeeps ==
  ASSUME Given, ControlInv, UNCHANGED schedule, NEW t \in Team,
         UNCHANGED <<phase, stop>>, at[t] # "barrier",
         \/ StartRow(t)
         \/ FinishRow(t)
  PROVE  ControlInv'
<1>1. /\ t \in Threads /\ phase[t] \in Nat /\ next[t] \in Nat /\ stop[t] \in 0 .. NCells
      /\ \A u \in Team : u \in Threads /\ phase[u] \in Nat
  BY TeamFacts, PhasesFacts, NCellsAssumption DEF ControlInv, ControlOK
<1>2. phase' = phase /\ stop' = stop
  OBVIOUS
<1>3. /\ IsLevel(phase[t]) /\ next[t] < stop[t]
      /\ \/ at' = [at EXCEPT ![t] = "row"] /\ next' = next
         \/ at' = [at EXCEPT ![t] = "run"] /\ next' = [next EXCEPT ![t] = next[t] + 1]
  <2>1. CASE StartRow(t)
    BY <2>1 DEF StartRow
  <2>2. CASE FinishRow(t)
    BY <2>2 DEF FinishRow, ControlInv, Positioned
  <2> QED
    BY <2>1, <2>2
<1>4. /\ \A u \in Team \ {t} : at'[u] = at[u] /\ next'[u] = next[u]
      /\ \/ at'[t] = "row" /\ next'[t] = next[t]
         \/ at'[t] = "run" /\ next'[t] = next[t] + 1
  BY <1>1, <1>3 DEF ControlInv, ControlOK
<1>5. ControlOK'
  <2>1. next[t] + 1 \in 0 .. NCells
    BY <1>1, <1>3, NCellsAssumption
  <2> QED
    BY <1>1, <1>2, <1>3, <2>1, Frame DEF ControlInv, ControlOK
<1>6. ASSUME NEW u \in Team PROVE Positioned(u)'
  <2>1. CASE u = t
    <3>1. /\ stop[t] = EndRow(t, phase[t]) /\ FirstRow(t, phase[t]) <= next[t]
          /\ FirstRow(t, phase[t]) \in 0 .. NCells
      BY <1>1, <1>3, EntryRows DEF ControlInv, Positioned
    <3> QED
      BY <1>1, <1>2, <1>3, <1>4, <2>1, <3>1, Frame, NCellsAssumption DEF Positioned
  <2>2. CASE u # t
    BY <1>1, <1>2, <1>4, <2>2, Frame DEF ControlInv, Positioned
  <2> QED
    BY <2>1, <2>2
<1>7. InStep'
  BY <1>2, <1>4, Frame DEF ControlInv, InStep
<1> QED
  BY <1>5, <1>6, <1>7, Frame DEF ControlInv

LEMMA SingleKeeps ==
  ASSUME BarrierInv, NEW t \in Team, Single(t)
  PROVE  BarrierInv'
<1>1. Given /\ MemoryOK /\ ControlInv /\ UNCHANGED schedule
  BY DEF BarrierInv, Single
<1>2. /\ phase[t] \in Nat /\ phase[t] < Phases /\ Phases \in Nat /\ at[t] = "run"
      /\ IsSingle(phase[t]) /\ ~IsLevel(phase[t])
      /\ \A u \in Team : phase[u] \in Nat
  BY <1>1, PhasesFacts, TeamFacts DEF Single, IsSingle, IsLevel, ControlInv, ControlOK
<1>3. MemoryOK'
  <2>1. team \in 0 .. MaxThreads /\ phase[t] \in 0 .. Phases
    BY <1>1, <1>2 DEF Given
  <2> QED
    BY <1>1, <2>1, Frame DEF Single, MemoryOK
<1>4. CASE kernel.nowait
  <2>1. phase[t] = 0
    BY <1>1, <1>2, <1>4, KernelFields, PhasesFacts DEF Given
  <2>2. \A u \in Team \ {t} : phase[u] = 0 \/ phase[u] = 1
    BY <1>1, <1>2, <2>1 DEF ControlInv, InStep
  <2> QED
    BY <1>1, <1>2, <1>3, <1>4, <2>1, <2>2, AdvanceKeeps, Frame DEF Single, BarrierInv
<1>5. CASE ~kernel.nowait
  BY <1>1, <1>2, <1>3, <1>5, WaitKeeps, Frame DEF Single, BarrierInv
<1> QED
  BY <1>4, <1>5

LEMMA FinishRowMemory ==
  ASSUME BarrierInv, NEW t \in Team, FinishRow(t)
  PROVE  /\ CellOf(next[t]) \in Cells
         /\ MemoryOK'
<1>1. Given /\ MemoryOK /\ ControlInv /\ UNCHANGED schedule
  BY DEF BarrierInv, FinishRow
<1>2. IsLevel(phase[t]) /\ phase[t] \in Nat
  BY <1>1, PhasesFacts, TeamFacts DEF FinishRow, ControlInv, ControlOK, Positioned
<1>3. next[t] \in 0 .. Len(newToOld) - 1
  <2>1. LevelOf(phase[t]) \in 1 .. nLevels
    BY <1>1, <1>2, LevelRange
  <2>2. /\ FirstRow(t, phase[t]) <= next[t] /\ next[t] < EndRow(t, phase[t])
        /\ next[t] \in Nat
    BY <1>1, <1>2, TeamFacts, NCellsAssumption
    DEF FinishRow, ControlInv, ControlOK, Positioned
  <2>3. EndRow(t, phase[t]) \in LevelBegin(LevelOf(phase[t])) .. LevelEnd(LevelOf(phase[t]))
    BY <1>1, <1>2, RowsTile
  <2> QED
    BY <1>1, <2>1, <2>2, <2>3, LevelFacts, GivenFacts
<1>4. CellOf(next[t]) \in Cells
  <2>1. next[t] + 1 \in 1 .. Len(newToOld)
    BY <1>1, <1>3, GivenFacts
  <2> QED
    BY <1>1, <2>1, GivenFacts, ElementOfSeq DEF CellOf
<1>5. MemoryOK'
  <2>1. sweeps[CellOf(next[t])] + 1 \in Nat
    BY <1>1, <1>4 DEF MemoryOK
  <2> QED
    BY <1>1, <1>4, <2>1, Frame DEF FinishRow, MemoryOK
<1> QED
  BY <1>4, <1>5

LEMMA StepBarrier == BarrierInv /\ [Next]_vars => BarrierInv'
<1> SUFFICES ASSUME BarrierInv, [Next]_vars PROVE BarrierInv'
  OBVIOUS
<1>1. Given /\ MemoryOK /\ ControlInv
  BY DEF BarrierInv
<1>2. ASSUME NEW t \in Team, Single(t) PROVE BarrierInv'
  BY <1>2, SingleKeeps
<1>3. ASSUME NEW t \in Team, StartRow(t) PROVE BarrierInv'
  <2>1. UNCHANGED schedule /\ UNCHANGED memory /\ UNCHANGED <<phase, stop>> /\ at[t] # "barrier"
    BY <1>3 DEF StartRow
  <2>2. MemoryOK'
    BY <1>1, <2>1, Frame DEF MemoryOK, memory
  <2> QED
    BY <1>1, <1>3, <2>1, <2>2, RowKeeps, Frame DEF BarrierInv
<1>4. ASSUME NEW t \in Team, FinishRow(t) PROVE BarrierInv'
  <2>1. UNCHANGED schedule /\ UNCHANGED <<phase, stop>> /\ at[t] # "barrier"
    BY <1>4 DEF FinishRow
  <2> QED
    BY <1>1, <1>4, <2>1, FinishRowMemory, RowKeeps, Frame DEF BarrierInv
<1>5. ASSUME NEW t \in Team, Arrive(t) PROVE BarrierInv'
  <2>1. /\ UNCHANGED schedule /\ UNCHANGED memory /\ at[t] = "run"
        /\ IsLevel(phase[t]) /\ phase[t] < Phases /\ next[t] >= stop[t] /\ Wait(t)
    BY <1>5 DEF Arrive, IsLevel
  <2>2. MemoryOK'
    BY <1>1, <2>1, Frame DEF MemoryOK, memory
  <2> QED
    BY <1>1, <2>1, <2>2, WaitKeeps, Frame DEF BarrierInv
<1>6. ASSUME NEW t \in Team, Leave(t) PROVE BarrierInv'
  <2>1. UNCHANGED schedule /\ UNCHANGED memory /\ Advance(t) /\ at[t] = "barrier"
    BY <1>6 DEF Leave
  <2>2. MemoryOK'
    BY <1>1, <2>1, Frame DEF MemoryOK, memory
  <2>3. phase[t] < Phases /\ phase[t] \in Nat /\ \A u \in Team : phase[u] \in Nat
    BY <1>1, <2>1, PhasesFacts, TeamFacts DEF ControlInv, ControlOK, Positioned
  <2>4. \A u \in Team \ {t} : \/ phase[u] = phase[t] /\ at[u] = "barrier"
                              \/ phase[u] = phase[t] + 1
    BY <1>1, <1>6, <2>3 DEF Leave, ControlInv, InStep
  <2> QED
    BY <1>1, <2>1, <2>2, <2>3, <2>4, AdvanceKeeps, Frame DEF BarrierInv
<1>7. CASE UNCHANGED vars
  <2>1. UNCHANGED schedule /\ UNCHANGED memory /\ UNCHANGED control
    BY <1>7 DEF vars
  <2>2. MemoryOK' /\ Given'
    BY <1>1, <2>1, Frame DEF MemoryOK, memory
  <2>3. phase' = phase /\ at' = at /\ next' = next /\ stop' = stop
    BY <2>1 DEF control
  <2>4. ControlOK' /\ InStep'
    BY <1>1, <2>1, <2>3, Frame DEF ControlInv, ControlOK, InStep
  <2>5. ASSUME NEW u \in Team PROVE Positioned(u)'
    <3>1. phase[u] \in Nat /\ u \in Threads
      BY <1>1, PhasesFacts, TeamFacts DEF ControlInv, ControlOK
    <3> QED
      BY <1>1, <2>1, <2>3, <3>1, Frame DEF ControlInv, Positioned
  <2> QED
    BY <2>1, <2>2, <2>4, <2>5, Frame DEF BarrierInv, ControlInv
<1> QED
  BY <1>2, <1>3, <1>4, <1>5, <1>6, <1>7 DEF Next, Step

LEMMA BarrierAlways == Spec => []BarrierInv
<1> QED
  BY InitBarrier, StepBarrier, PTL DEF Spec

\* The threads of every kernel stay within their shares and within a barrier
\* of each other.
THEOREM ThreadsDisciplined == Spec => []Disciplined
<1>1. BarrierInv => Disciplined
  BY DEF BarrierInv, Given, MemoryOK, ControlInv, ControlOK, Disciplined, TypeOK
<1> QED
  BY <1>1, BarrierAlways, PTL

\* No two threads touch the same psi or edge value while one of them writes it.
THEOREM RaceFree == Spec => []NoDataRace
<1>1. ASSUME BarrierInv PROVE NoDataRace
  <2>1. Given /\ ControlInv
    BY <1>1 DEF BarrierInv
  <2> SUFFICES ASSUME NEW t \in InRow, NEW u \in InRow, t # u
               PROVE  /\ CellOf(next[t]) # CellOf(next[u])
                      /\ CellOf(next[t]) \notin Neighbours(CellOf(next[u]))
    BY DEF NoDataRace
  <2>2. /\ t \in Team /\ u \in Team /\ t \in Nat /\ u \in Nat
        /\ at[t] = "row" /\ at[u] = "row"
        /\ phase[t] \in Nat /\ phase[u] \in Nat
        /\ next[t] \in Nat /\ next[u] \in Nat
    BY <2>1, TeamFacts, PhasesFacts, NCellsAssumption DEF InRow, ControlInv, ControlOK
  <2>3. IsLevel(phase[t]) /\ IsLevel(phase[u])
    BY <2>1, <2>2 DEF ControlInv, Positioned
  <2>4. phase[t] = phase[u]
    <3>1. ASSUME NEW v \in Team, NEW w \in Team, phase[v] > phase[w],
                 at[w] = "row", IsLevel(phase[w])
          PROVE  FALSE
      <4>1. phase[w] = 0 /\ kernel.nowait
        BY <2>1, <3>1 DEF ControlInv, InStep
      <4>2. IsSingle(0)
        BY <2>1, <4>1, KernelFields, PhasesFacts DEF Given
      <4> QED
        BY <3>1, <4>1, <4>2 DEF IsLevel
    <3> QED
      BY <2>2, <2>3, <3>1
  <2> DEFINE p == phase[t]
             l == LevelOf(p)
  <2>5. /\ l \in 1 .. nLevels
        /\ LevelBegin(l) \in Nat /\ LevelEnd(l) \in Nat
    BY <2>1, <2>2, <2>3, LevelRange, LevelFacts
  <2>6. /\ FirstRow(t, p) <= next[t] /\ next[t] < EndRow(t, p)
        /\ FirstRow(u, p) <= next[u] /\ next[u] < EndRow(u, p)
    BY <2>1, <2>2, <2>3, <2>4 DEF ControlInv, Positioned
  <2>7. /\ FirstRow(t, p) \in LevelBegin(l) .. LevelEnd(l) /\ EndRow(t, p) \in LevelBegin(l) .. LevelEnd(l)
        /\ FirstRow(u, p) \in LevelBegin(l) .. LevelEnd(l) /\ EndRow(u, p) \in LevelBegin(l) .. LevelEnd(l)
        /\ t < u => EndRow(t, p) <= FirstRow(u, p)
        /\ u < t => EndRow(u, p) <= FirstRow(t, p)
    BY <2>1, <2>2, <2>3, RowsTile
  <2> HIDE DEF p, l
  <2>8. /\ next[t] # next[u]
        /\ next[t] \in LevelBegin(l) .. LevelEnd(l) - 1 /\ next[u] \in LevelBegin(l) .. LevelEnd(l) - 1
    BY <2>2, <2>5, <2>6, <2>7
  <2> QED
    BY <2>1, <2>5, <2>8, LevelIndependent
<1> QED
  BY <1>1, BarrierAlways, PTL

-----------------------------------------------------------------------------
(* What the cells hold, in terms of where the threads are. *)

\* level phases a thread in phase p has behind it
Walks(p) ==
  IF kernel.regions = "one" THEN (IF p = 0 THEN 0 ELSE p - 1) ELSE p \div 2

\* how many of the first k walks were walks of level l
Swept(l, k) == (k \div nLevels) + (IF l <= k % nLevels THEN 1 ELSE 0)

\* row r of level l is in the share of thread t
Owns(t, l, r) ==
  /\ RowAt(l, ShareStart(t, l)) <= r
  /\ r < RowAt(l, ShareStart(t + 1, l))

\* ... and t has done it in the level it is walking
Ahead(t, l, r) == IsLevel(phase[t]) /\ LevelOf(phase[t]) = l /\ r < next[t]

SweptBy(t, l, r) ==
  Swept(l, Walks(phase[t])) + (IF Ahead(t, l, r) THEN 1 ELSE 0)

ValuesInv ==
  \A l \in 1 .. nLevels : \A r \in LevelBegin(l) .. LevelEnd(l) - 1 : \A t \in Team :
    Owns(t, l, r) => sweeps[CellOf(r)] = SweptBy(t, l, r)

EdgesInv ==
  kernel.edges => \A f \in Faces(mesh) : edgeSweeps[f] = sweeps[mesh.lower[f]]

\* k walks are k \div nLevels sweeps and a part of the next one.
LEMMA SweptNext ==
  ASSUME Given, nLevels # 0, NEW k \in Nat, NEW l \in 1 .. nLevels
  PROVE  /\ Swept(l, k) \in Nat
         /\ Swept(l, k + 1) = Swept(l, k) + (IF l = 1 + (k % nLevels) THEN 1 ELSE 0)
<1> DEFINE n == nLevels
           s == k \div n
           j == k % n
           s1 == (k + 1) \div n
           j1 == (k + 1) % n
<1>1. n \in Nat \ {0} /\ k + 1 \in Nat
  BY GivenFacts
<1>2. /\ s \in Nat /\ j \in 0 .. n - 1 /\ k = n * s + j
      /\ s1 \in Nat /\ j1 \in 0 .. n - 1 /\ k + 1 = n * s1 + j1
  BY <1>1, QuotientFacts
<1> HIDE DEF s, j, s1, j1, n
<1>3. n * s \in Nat /\ n * s1 \in Nat
  BY <1>1, <1>2
<1>4. /\ s1 >= s + 1 => n * s1 >= n * s + n
      /\ s1 >= s + 2 => n * s1 >= n * s + n + n
      /\ s1 <= s - 1 => n * s1 <= n * s - n
  <2>1. ASSUME NEW a \in Nat, NEW b \in Nat, a <= b PROVE n * a <= n * b
    BY <1>1, <2>1, TimesMonotone
  <2>2. n * (s + 1) = n * s + n /\ n * (s + 2) = n * s + n + n /\ n * (s - 1) = n * s - n
    BY <1>1, <1>2
  <2> QED
    BY <1>2, <2>1, <2>2
<1>5. \/ j + 1 < n /\ s1 = s /\ j1 = j + 1
      \/ j + 1 = n /\ s1 = s + 1 /\ j1 = 0
  <2>1. s1 = s \/ s1 = s + 1
    BY <1>1, <1>2, <1>3, <1>4
  <2>2. CASE s1 = s
    BY <1>1, <1>2, <1>3, <2>2
  <2>3. CASE s1 = s + 1
    <3>1. n * s1 = n * s + n
      BY <1>1, <1>2, <2>3
    <3> QED
      BY <1>1, <1>2, <1>3, <2>3, <3>1
  <2> QED
    BY <2>1, <2>2, <2>3
<1>6. /\ Swept(l, k) = s + (IF l <= j THEN 1 ELSE 0)
      /\ Swept(l, k + 1) = s1 + (IF l <= j1 THEN 1 ELSE 0)
  BY DEF Swept, s, j, s1, j1, n
<1>7. l \in 1 .. n
  BY DEF n
<1>8. Swept(l, k) \in Nat
  BY <1>1, <1>2, <1>6, <1>7
<1>9. Swept(l, k + 1) = Swept(l, k) + (IF l = 1 + j THEN 1 ELSE 0)
  BY <1>1, <1>2, <1>5, <1>6, <1>7
<1> QED
  BY <1>8, <1>9 DEF j, n

LEMMA WalksNext ==
  ASSUME Given, NEW p \in Nat, p < Phases
  PROVE  /\ Walks(p) \in Nat
         /\ Walks(p + 1) = Walks(p) + (IF IsLevel(p) THEN 1 ELSE 0)
         /\ IsLevel(p) => LevelOf(p) = 1 + (Walks(p) % nLevels)
<1>1. CASE kernel.regions = "one"
  <2>1. p # 0 <=> IsLevel(p)
    BY <1>1 DEF IsLevel, IsSingle
  <2> QED
    BY <1>1, <2>1 DEF Walks, LevelOf
<1>2. CASE kernel.regions # "one"
  <2>1. p % 2 # 0 <=> IsLevel(p)
    BY <1>2 DEF IsLevel, IsSingle
  <2>2. /\ p \div 2 \in Nat
        /\ (p + 1) \div 2 = (p \div 2) + (IF p % 2 # 0 THEN 1 ELSE 0)
    OBVIOUS
  <2> QED
    BY <1>2, <2>1, <2>2 DEF Walks, LevelOf
<1> QED
  BY <1>1, <1>2

\* Before the first phase nothing is swept, after the last one everything is.
LEMMA WalksEnds ==
  ASSUME Given, nLevels # 0, NEW l \in 1 .. nLevels
  PROVE  /\ Swept(l, Walks(0)) = 0
         /\ Swept(l, Walks(Phases)) = nSweeps
         /\ \A p \in Nat : IsLevel(p) => Walks(p) \div nLevels < nSweeps
<1>1. nLevels \in Nat \ {0} /\ nSweeps \in Nat /\ nSweeps * nLevels \in Nat
  BY GivenFacts
<1>2. Walks(0) = 0 /\ Walks(Phases) = nSweeps * nLevels
  BY <1>1 DEF Walks, Phases
<1>3. ASSUME NEW m \in Nat PROVE Swept(l, m * nLevels) = m
  <2>1. (m * nLevels) \div nLevels = m
    BY <1>1, ExactQuotient
  <2>2. m * nLevels \in Nat /\ m * nLevels = nLevels * m
    BY <1>1
  <2>3. (m * nLevels) % nLevels = 0
    BY <1>1, <2>1, <2>2, QuotientFacts
  <2> QED
    BY <1>1, <2>1, <2>3 DEF Swept
<1>4. 0 * nLevels = 0
  BY <1>1
<1>5. ASSUME NEW p \in Nat, IsLevel(p) PROVE Walks(p) \div nLevels < nSweeps
  <2> DEFINE k == Walks(p)
             s == k \div nLevels
  <2>1. k \in Nat /\ k < nSweeps * nLevels
    <3>1. p < Phases
      BY <1>5 DEF IsLevel
    <3>2. CASE kernel.regions = "one"
      BY <1>1, <1>5, <3>1, <3>2 DEF Walks, Phases, IsLevel, IsSingle
    <3>3. CASE kernel.regions # "one"
      <4>1. p < 2 * (nSweeps * nLevels)
        BY <1>1, <3>1, <3>3 DEF Phases
      <4> QED
        BY <1>1, <3>3, <4>1 DEF Walks
    <3> QED
      BY <3>2, <3>3
  <2> HIDE DEF k
  <2>2. s \in Nat /\ nLevels * s <= k
    <3>1. k % nLevels \in 0 .. nLevels - 1 /\ s \in Nat /\ k = nLevels * s + (k % nLevels)
      BY <1>1, <2>1, QuotientFacts
    <3> HIDE DEF s
    <3>2. nLevels * s \in Nat
      BY <1>1, <3>1
    <3> QED
      BY <1>1, <2>1, <3>1, <3>2
  <2> HIDE DEF s
  <2>3. CASE s >= nSweeps
    BY <1>1, <2>1, <2>2, <2>3, TimesMonotone
  <2> QED
    BY <1>1, <2>2, <2>3 DEF s, k
<1> QED
  BY <1>1, <1>2, <1>3, <1>4, <1>5

\* Every cell has its row in some level, ...
LEMMA CellHasRow ==
  ASSUME Given, NEW c \in Cells
  PROVE  \E l \in 1 .. nLevels : \E r \in LevelBegin(l) .. LevelEnd(l) - 1 : CellOf(r) = c
<1>1. PICK i \in DOMAIN newToOld : newToOld[i] = c
  BY GivenFacts DEF Range
<1>2. /\ i \in 1 .. Len(newToOld) /\ i \in Nat /\ Len(newToOld) \in Nat
      /\ nLevels \in Nat /\ DOMAIN newToOld = 1 .. Len(newToOld)
  BY GivenFacts, LenProperties
<1> DEFINE later == {l \in 1 .. nLevels + 1 : levelStarts[l] >= i}
<1>3. nLevels + 1 \in later /\ later \in SUBSET Nat
  BY <1>2, GivenFacts
<1>4. PICK b \in later : \A a \in later : b <= a
  BY <1>3, LeastNatural
<1>5. b \in 1 .. nLevels + 1 /\ levelStarts[b] >= i /\ b # 1
  BY <1>2, <1>4, GivenFacts
<1> DEFINE l == b - 1
<1>6. l \in 1 .. nLevels /\ l + 1 = b /\ l \in 1 .. nLevels + 1
  BY <1>2, <1>5
<1>7. l \notin later
  BY <1>2, <1>4, <1>5, <1>6
<1>8. levelStarts[l] \in Nat /\ levelStarts[b] \in Nat
  BY <1>5, <1>6, GivenFacts
<1>9. levelStarts[l] < i
  BY <1>2, <1>6, <1>7, <1>8
<1>10. i - 1 \in LevelBegin(l) .. LevelEnd(l) - 1
  BY <1>2, <1>5, <1>6, <1>8, <1>9 DEF LevelBegin, LevelEnd
<1>11. CellOf(i - 1) = c
  BY <1>1, <1>2 DEF CellOf
<1> HIDE DEF l
<1> QED
  BY <1>6, <1>10, <1>11

\* ... every row of a level a thread whose share it is in ...
LEMMA RowHasOwner ==
  ASSUME Given, NEW l \in 1 .. nLevels, NEW r \in LevelBegin(l) .. LevelEnd(l) - 1
  PROVE  \E t \in Team : Owns(t, l, r)
<1> DEFINE row(t) == RowAt(l, ShareStart(t, l))
           ends == {t \in 0 .. team : row(t) > r}
<1>1. /\ team \in Nat \ {0} /\ LevelBegin(l) \in Nat /\ LevelEnd(l) \in Nat /\ r \in Nat
      /\ LevelBegin(l) <= r /\ r < LevelEnd(l)
  BY GivenFacts, LevelFacts
<1>2. row(0) = LevelBegin(l) /\ row(team) = LevelEnd(l)
  BY SharesTile, RowFacts DEF Tiles
<1>3. \A t \in 0 .. team : row(t) \in LevelBegin(l) .. LevelEnd(l)
  BY SharesTile, RowFacts DEF Tiles
<1>4. team \in ends /\ ends \in SUBSET Nat
  BY <1>1, <1>2
<1>5. PICK b \in ends : \A a \in ends : b <= a
  BY <1>4, LeastNatural
<1>6. b \in 0 .. team /\ row(b) > r /\ b # 0
  BY <1>1, <1>2, <1>5
<1> DEFINE t == b - 1
<1>7. t \in Team /\ t \in 0 .. team /\ t + 1 = b
  BY <1>1, <1>6 DEF Team
<1>8. t \notin ends
  BY <1>1, <1>5, <1>6, <1>7
<1>9. row(t) <= r
  BY <1>1, <1>3, <1>7, <1>8
<1>10. Owns(t, l, r)
  BY <1>6, <1>7, <1>9 DEF Owns
<1> HIDE DEF t
<1> QED
  BY <1>7, <1>10

\* ... and only one.
LEMMA OwnerUnique ==
  ASSUME Given, NEW l \in 1 .. nLevels, NEW r \in LevelBegin(l) .. LevelEnd(l) - 1,
         NEW t \in Team, NEW u \in Team, Owns(t, l, r), Owns(u, l, r)
  PROVE  t = u
<1> DEFINE row(v) == RowAt(l, ShareStart(v, l))
<1>1. /\ team \in Nat \ {0} /\ LevelBegin(l) \in Nat /\ LevelEnd(l) \in Nat /\ r \in Nat
      /\ t \in Nat /\ u \in Nat
  BY GivenFacts, LevelFacts DEF Team
<1>2. \A v \in 0 .. team : row(v) \in LevelBegin(l) .. LevelEnd(l)
  BY SharesTile, RowFacts DEF Tiles
<1>3. \A v, w \in 0 .. team : v <= w => row(v) <= row(w)
  BY SharesTile, RowFacts DEF Tiles
<1>4. /\ row(t) <= r /\ r < row(t + 1)
      /\ row(u) <= r /\ r < row(u + 1)
  BY DEF Owns
<1>5. /\ t \in 0 .. team /\ t + 1 \in 0 .. team
      /\ u \in 0 .. team /\ u + 1 \in 0 .. team
  BY <1>1 DEF Team
<1> HIDE DEF row
<1>6. CASE t < u
  <2>1. t + 1 <= u
    BY <1>1, <1>6
  <2>2. row(t + 1) <= row(u) /\ row(t + 1) \in Nat /\ row(u) \in Nat
    BY <1>1, <1>2, <1>3, <1>5, <2>1
  <2> QED
    BY <1>1, <1>4, <2>2
<1>7. CASE u < t
  <2>1. u + 1 <= t
    BY <1>1, <1>7
  <2>2. row(u + 1) <= row(t) /\ row(u + 1) \in Nat /\ row(t) \in Nat
    BY <1>1, <1>2, <1>3, <1>5, <2>1
  <2> QED
    BY <1>1, <1>4, <2>2
<1> QED
  BY <1>1, <1>6, <1>7

\* Rows of different levels are different rows, of different cells.
LEMMA LevelUnique ==
  ASSUME Given, NEW l \in 1 .. nLevels, NEW r \in LevelBegin(l) .. LevelEnd(l) - 1,
         NEW m \in 1 .. nLevels, NEW q \in LevelBegin(m) .. LevelEnd(m) - 1
  PROVE  /\ l < m => r < q
         /\ CellOf(r) = CellOf(q) => r = q /\ l = m
<1>1. /\ nLevels \in Nat
      /\ l \in 1 .. nLevels + 1 /\ l + 1 \in 1 .. nLevels + 1
      /\ m \in 1 .. nLevels + 1 /\ m + 1 \in 1 .. nLevels + 1
      /\ LevelBegin(l) \in Nat /\ LevelEnd(l) \in Nat /\ LevelBegin(m) \in Nat /\ LevelEnd(m) \in Nat
      /\ LevelEnd(l) <= Len(newToOld) /\ LevelEnd(m) <= Len(newToOld)
  <2>1. nLevels \in Nat
    BY GivenFacts
  <2>2. /\ l \in 1 .. nLevels + 1 /\ l + 1 \in 1 .. nLevels + 1
        /\ m \in 1 .. nLevels + 1 /\ m + 1 \in 1 .. nLevels + 1
    BY <2>1
  <2>3. /\ LevelBegin(l) \in Nat /\ LevelEnd(l) \in Nat /\ LevelBegin(m) \in Nat /\ LevelEnd(m) \in Nat
        /\ LevelEnd(l) <= Len(newToOld) /\ LevelEnd(m) <= Len(newToOld)
    BY LevelFacts
  <2> QED
    BY <2>1, <2>2, <2>3
<1>2. ASSUME NEW a \in 1 .. nLevels, NEW b \in 1 .. nLevels, a < b
      PROVE  LevelEnd(a) <= LevelBegin(b)
  <2>1. /\ nLevels \in Nat /\ a + 1 \in 1 .. nLevels + 1 /\ b \in 1 .. nLevels + 1
        /\ a + 1 = b \/ a + 1 < b
    BY <1>1, <1>2
  <2>2. levelStarts[a + 1] \in Nat /\ levelStarts[b] \in Nat
    BY <2>1, GivenFacts
  <2>3. a + 1 < b => levelStarts[a + 1] < levelStarts[b]
    BY <2>1, GivenFacts
  <2> QED
    BY <2>1, <2>2, <2>3 DEF LevelBegin, LevelEnd
<1>3. (l < m => LevelEnd(l) <= LevelBegin(m)) /\ (m < l => LevelEnd(m) <= LevelBegin(l))
  BY <1>2
<1>4. r = q => l = m
  BY <1>1, <1>3
<1>5. CellOf(r) = CellOf(q) => r = q
  <2>1. /\ r + 1 \in DOMAIN newToOld /\ q + 1 \in DOMAIN newToOld
        /\ r \in Nat /\ q \in Nat
    <3>1. DOMAIN newToOld = 1 .. Len(newToOld) /\ Len(newToOld) \in Nat
      BY GivenFacts, LenProperties
    <3> QED
      BY <1>1, <3>1
  <2> QED
    BY <2>1, GivenFacts DEF CellOf, IsInjective
<1> QED
  BY <1>1, <1>3, <1>4, <1>5

LEMMA FrameRows ==
  ASSUME UNCHANGED schedule
  PROVE  /\ nLevels' = nLevels /\ nSweeps' = nSweeps
         /\ \A l : LevelBegin(l)' = LevelBegin(l) /\ LevelEnd(l)' = LevelEnd(l)
         /\ \A l, k : Swept(l, k)' = Swept(l, k)
         /\ \A p : Walks(p)' = Walks(p)
         /\ \A r : CellOf(r)' = CellOf(r)
         /\ \A t, l, r : Owns(t, l, r)' = Owns(t, l, r)
<1>1. /\ levelStarts' = levelStarts /\ newToOld' = newToOld
      /\ kernel' = kernel /\ team' = team
  BY DEF schedule
<1> QED
  BY <1>1, SMTT(30)
          DEF nLevels, nSweeps, LevelBegin, LevelEnd, Swept, Walks, CellOf, Owns, RowAt,
              ShareStart, StaticStart, Blocks, LevelWidth, LevelBegin, LevelEnd, Scheduled

\* the value of a row changes neither with the step of another thread ...
LEMMA SweptByOthers ==
  ASSUME Given, ControlInv, UNCHANGED schedule, NEW u \in Team,
         phase'[u] = phase[u], next'[u] = next[u],
         NEW l \in 1 .. nLevels, NEW r
  PROVE  SweptBy(u, l, r)' = SweptBy(u, l, r)
<1>1. phase[u] \in Nat
  BY TeamFacts, PhasesFacts DEF ControlInv, ControlOK
<1> QED
  BY <1>1, Frame, FrameRows DEF SweptBy, Ahead

\* ... nor when its thread goes on to the next phase.
LEMMA SweptByAdvance ==
  ASSUME Given, ControlInv, UNCHANGED schedule, NEW t \in Team,
         Advance(t), phase[t] < Phases,
         IsLevel(phase[t]) => next[t] = stop[t],
         NEW l \in 1 .. nLevels, NEW r \in LevelBegin(l) .. LevelEnd(l) - 1, Owns(t, l, r)
  PROVE  SweptBy(t, l, r)' = SweptBy(t, l, r)
<1> DEFINE p == phase[t]
           k == Walks(p)
<1>1. /\ p \in Nat /\ p + 1 \in Nat /\ t \in Threads
      /\ nLevels \in Nat /\ nLevels # 0
  BY TeamFacts, PhasesFacts, GivenFacts DEF ControlInv, ControlOK
<1>2. phase'[t] = p + 1 /\ next'[t] = FirstRow(t, p + 1)
  BY <1>1 DEF Advance, ControlInv, ControlOK
<1>3. \A q \in Nat : IsLevel(q) /\ LevelOf(q) = l =>
        FirstRow(t, q) <= r /\ r < EndRow(t, q)
  BY DEF FirstRow, EndRow, Owns
<1>4. /\ LevelBegin(l) \in Nat /\ LevelEnd(l) \in Nat /\ r \in Nat
      /\ \A q \in Nat : FirstRow(t, q) \in Nat /\ EndRow(t, q) \in Nat
  <2>1. LevelBegin(l) \in Nat /\ LevelEnd(l) \in Nat
    BY LevelFacts
  <2>2. \A q \in Nat : FirstRow(t, q) \in 0 .. NCells /\ EndRow(t, q) \in 0 .. NCells
    BY EntryRows
  <2> QED
    BY <2>1, <2>2, NCellsAssumption
<1>5. SweptBy(t, l, r)' = Swept(l, Walks(p + 1))
  <2>1. ~(IsLevel(p + 1) /\ LevelOf(p + 1) = l /\ r < FirstRow(t, p + 1))
    BY <1>1, <1>3, <1>4
  <2>2. Ahead(t, l, r)' = FALSE
    BY <1>1, <1>2, <2>1, Frame DEF Ahead
  <2>3. Swept(l, Walks(p + 1)) \in Nat
    <3>1. Walks(p + 1) \in Nat
      BY <1>1, WalksNext DEF p
    <3> QED
      BY <1>1, <3>1, SweptNext
  <2>4. SweptBy(t, l, r)' = Swept(l, Walks(p + 1)) + 0
    BY <1>2, <2>2, FrameRows DEF SweptBy
  <2> QED
    BY <2>3, <2>4
<1>6. k \in Nat /\ Walks(p + 1) = k + (IF IsLevel(p) THEN 1 ELSE 0)
      /\ (IsLevel(p) => LevelOf(p) = 1 + (k % nLevels))
  BY <1>1, WalksNext
<1>7. Swept(l, k) \in Nat
      /\ Swept(l, k + 1) = Swept(l, k) + (IF l = 1 + (k % nLevels) THEN 1 ELSE 0)
  BY <1>1, <1>6, SweptNext
<1>8. SweptBy(t, l, r) = Swept(l, k) + (IF Ahead(t, l, r) THEN 1 ELSE 0)
  BY DEF SweptBy
<1>9. CASE IsLevel(p)
  <2>1. Ahead(t, l, r) <=> LevelOf(p) = l
    <3>1. next[t] = EndRow(t, p)
      BY <1>9 DEF ControlInv, Positioned
    <3> QED
      BY <1>1, <1>3, <1>9, <3>1 DEF Ahead
  <2> HIDE DEF p, k
  <2>2. Walks(p + 1) = k + 1
    BY <1>6, <1>9
  <2>3. Ahead(t, l, r) <=> l = 1 + (k % nLevels)
    BY <1>6, <1>9, <2>1
  <2> QED
    BY <1>5, <1>7, <1>8, <2>2, <2>3
<1>10. CASE ~IsLevel(p)
  <2>1. ~Ahead(t, l, r)
    BY <1>10 DEF Ahead
  <2> HIDE DEF p, k
  <2>2. Walks(p + 1) = k
    BY <1>6, <1>10
  <2> QED
    BY <1>5, <1>7, <1>8, <2>1, <2>2
<1> QED
  BY <1>9, <1>10

\* a step that writes no value
LEMMA ValuesUnwritten ==
  ASSUME Given, ValuesInv, UNCHANGED <<schedule, sweeps>>,
         \A l \in 1 .. nLevels : \A r \in LevelBegin(l) .. LevelEnd(l) - 1 : \A u \in Team :
           Owns(u, l, r) => SweptBy(u, l, r)' = SweptBy(u, l, r)
  PROVE  ValuesInv'
<1>1. UNCHANGED schedule /\ sweeps' = sweeps
  OBVIOUS
<1> SUFFICES ASSUME NEW l \in 1 .. nLevels, NEW r \in LevelBegin(l) .. LevelEnd(l) - 1,
                    NEW u \in Team, Owns(u, l, r)
             PROVE  sweeps'[CellOf(r)] = SweptBy(u, l, r)'
  BY <1>1, Frame, FrameRows DEF ValuesInv
<1>2. sweeps[CellOf(r)] = SweptBy(u, l, r)
  BY DEF ValuesInv
<1> QED
  BY <1>1, <1>2

LEMMA AdvanceValues ==
  ASSUME Given, ControlInv, ValuesInv, UNCHANGED <<schedule, sweeps>>, NEW t \in Team,
         Advance(t), phase[t] < Phases,
         IsLevel(phase[t]) => next[t] = stop[t]
  PROVE  ValuesInv'
<1>1. UNCHANGED schedule
  OBVIOUS
<1>2. \A u \in Team \ {t} : phase'[u] = phase[u] /\ next'[u] = next[u]
  BY TeamFacts DEF Advance, ControlInv, ControlOK
<1>3. ASSUME NEW l \in 1 .. nLevels, NEW r \in LevelBegin(l) .. LevelEnd(l) - 1, NEW u \in Team,
             Owns(u, l, r)
      PROVE  SweptBy(u, l, r)' = SweptBy(u, l, r)
  <2>1. CASE u = t
    BY <1>1, <1>3, <2>1, SweptByAdvance
  <2>2. CASE u # t
    BY <1>1, <1>2, <2>2, SweptByOthers
  <2> QED
    BY <2>1, <2>2
<1> QED
  BY <1>3, ValuesUnwritten

\* a step that neither writes a value nor goes on
LEMMA StandingValues ==
  ASSUME Given, ControlInv, ValuesInv, UNCHANGED <<schedule, sweeps, phase, next>>
  PROVE  ValuesInv'
<1>1. UNCHANGED schedule /\ phase' = phase /\ next' = next
  OBVIOUS
<1>2. ASSUME NEW l \in 1 .. nLevels, NEW r \in LevelBegin(l) .. LevelEnd(l) - 1, NEW u \in Team
      PROVE  SweptBy(u, l, r)' = SweptBy(u, l, r)
  BY <1>1, SweptByOthers
<1> QED
  BY <1>2, ValuesUnwritten

\* A thread in a row, and which row that is.
LEMMA InRowFacts ==
  ASSUME Given, ControlInv, NEW t \in Team, at[t] = "row"
  PROVE  LET l == LevelOf(phase[t])
             r == next[t]
         IN  /\ phase[t] \in Nat /\ IsLevel(phase[t]) /\ phase[t] < Phases
             /\ l \in 1 .. nLevels
             /\ r \in LevelBegin(l) .. LevelEnd(l) - 1 /\ r \in Nat
             /\ Owns(t, l, r)
             /\ CellOf(r) \in Cells
<1> DEFINE p == phase[t]
           l == LevelOf(p)
           r == next[t]
<1>1. p \in Nat /\ r \in Nat /\ t \in Threads
  BY TeamFacts, PhasesFacts, NCellsAssumption DEF ControlInv, ControlOK
<1>2. /\ IsLevel(p) /\ p < Phases
      /\ FirstRow(t, p) <= r /\ r < EndRow(t, p)
  BY DEF ControlInv, Positioned, IsLevel
<1>3. l \in 1 .. nLevels
  BY <1>1, <1>2, LevelRange
<1>4. Owns(t, l, r)
  BY <1>2 DEF Owns, FirstRow, EndRow
<1>5. /\ FirstRow(t, p) \in LevelBegin(l) .. LevelEnd(l) /\ EndRow(t, p) \in LevelBegin(l) .. LevelEnd(l)
  BY <1>1, <1>2, RowsTile
<1>6. LevelBegin(l) \in Nat /\ LevelEnd(l) \in Nat /\ LevelEnd(l) <= Len(newToOld)
  BY <1>3, LevelFacts
<1> HIDE DEF p, l, r
<1>7. r \in LevelBegin(l) .. LevelEnd(l) - 1
  BY <1>1, <1>2, <1>5, <1>6
<1>8. CellOf(r) \in Cells
  <2>1. r + 1 \in 1 .. Len(newToOld)
    BY <1>1, <1>6, <1>7, GivenFacts
  <2> QED
    BY <2>1, GivenFacts, ElementOfSeq DEF CellOf
<1> QED
  BY <1>1, <1>2, <1>3, <1>4, <1>7, <1>8 DEF p, l, r

LEMMA FinishRowValues ==
  ASSUME Given, MemoryOK, ControlInv, ValuesInv, NEW t \in Team, FinishRow(t)
  PROVE  ValuesInv'
<1> DEFINE row == next[t]
           level == LevelOf(phase[t])
           cell == CellOf(row)
<1>1. /\ UNCHANGED schedule /\ at[t] = "row" /\ phase' = phase
      /\ next' = [next EXCEPT ![t] = row + 1]
      /\ sweeps' = [sweeps EXCEPT ![cell] = sweeps[cell] + 1]
  BY DEF FinishRow
<1>2. /\ phase[t] \in Nat /\ IsLevel(phase[t]) /\ level \in 1 .. nLevels
      /\ row \in LevelBegin(level) .. LevelEnd(level) - 1 /\ row \in Nat
      /\ Owns(t, level, row) /\ cell \in Cells
  BY <1>1, InRowFacts
<1>3. next'[t] = row + 1 /\ \A u \in Team \ {t} : next'[u] = next[u]
  BY <1>1, TeamFacts DEF ControlInv, ControlOK
<1> HIDE DEF row, level, cell
<1> SUFFICES ASSUME NEW l \in 1 .. nLevels, NEW r \in LevelBegin(l) .. LevelEnd(l) - 1,
                    NEW u \in Team, Owns(u, l, r)
             PROVE  sweeps'[CellOf(r)] = SweptBy(u, l, r)'
  BY <1>1, Frame, FrameRows DEF ValuesInv
<1>4. sweeps[CellOf(r)] = SweptBy(u, l, r)
  BY DEF ValuesInv
<1>5. CASE r = row /\ l = level
  <2>1. u = t
    BY <1>2, <1>5, OwnerUnique
  <2>2. ~Ahead(t, l, r) /\ Ahead(t, l, r)'
    BY <1>1, <1>2, <1>3, <1>5, Frame DEF Ahead, row, level
  <2>3. Walks(phase[t]) \in Nat /\ nLevels # 0
    BY <1>2, WalksNext, GivenFacts DEF IsLevel
  <2>4. Swept(l, Walks(phase[t])) \in Nat
    BY <2>3, SweptNext
  <2>5. /\ SweptBy(t, l, r) = Swept(l, Walks(phase[t])) + 0
        /\ SweptBy(t, l, r)' = Swept(l, Walks(phase[t])) + 1
    BY <1>1, <2>2, FrameRows DEF SweptBy
  <2>6. sweeps'[CellOf(r)] = sweeps[CellOf(r)] + 1
    BY <1>1, <1>2, <1>5 DEF MemoryOK, cell
  <2> QED
    BY <1>4, <2>1, <2>4, <2>5, <2>6
<1>6. CASE ~(r = row /\ l = level)
  <2>1. CellOf(r) # cell
    BY <1>2, <1>6, LevelUnique DEF cell
  <2>2. sweeps'[CellOf(r)] = sweeps[CellOf(r)]
    BY <1>1, <2>1 DEF MemoryOK
  <2>3. SweptBy(u, l, r)' = SweptBy(u, l, r)
    <3>1. CASE u # t
      BY <1>1, <1>3, <3>1, SweptByOthers
    <3>2. CASE u = t
      <4>1. r \in Int
        BY LevelFacts
      <4>2. l = level => r # row
        BY <1>6
      <4>3. Ahead(t, l, r)' <=> Ahead(t, l, r)
        BY <1>1, <1>2, <1>3, <4>1, <4>2, Frame DEF Ahead, row, level
      <4> QED
        BY <1>1, <3>2, <4>3, FrameRows DEF SweptBy
    <3> QED
      BY <3>1, <3>2
  <2> QED
    BY <1>4, <2>2, <2>3
<1> QED
  BY <1>5, <1>6

LEMMA FinishRowEdges ==
  ASSUME Given, MemoryOK, ControlInv, EdgesInv, NEW t \in Team, FinishRow(t)
  PROVE  EdgesInv'
<1> DEFINE cell == CellOf(next[t])
<1>1. /\ UNCHANGED schedule /\ at[t] = "row"
      /\ sweeps' = [sweeps EXCEPT ![cell] = sweeps[cell] + 1]
      /\ edgeSweeps' = [f \in Faces(mesh) |->
                          IF kernel.edges /\ f \in OwnedFaces(mesh, {cell})
                            THEN sweeps[cell] + 1 ELSE edgeSweeps[f]]
  BY DEF FinishRow
<1>2. cell \in Cells
  BY <1>1, InRowFacts
<1> HIDE DEF cell
<1> SUFFICES ASSUME kernel.edges, NEW f \in Faces(mesh)
             PROVE  edgeSweeps'[f] = sweeps'[mesh.lower[f]]
  BY <1>1, Frame DEF EdgesInv
<1>3. edgeSweeps[f] = sweeps[mesh.lower[f]]
  BY DEF EdgesInv
<1>4. CASE mesh.lower[f] = cell
  BY <1>1, <1>2, <1>4 DEF OwnedFaces, MemoryOK
<1>5. CASE mesh.lower[f] # cell
  BY <1>1, <1>3, <1>5 DEF OwnedFaces, MemoryOK
<1> QED
  BY <1>4, <1>5

\* The team is reported by whichever thread takes the first single.
DetectedInv ==
  /\ detectedThreads = IF 0 \in singles THEN team ELSE 0
  /\ 0 \in singles => Phases > 0
  /\ \A t \in Team : phase[t] > 0 \/ at[t] = "barrier" => 0 \in singles

SweepInv == BarrierInv /\ ValuesInv /\ EdgesInv /\ DetectedInv

LEMMA InitSweep == Init => SweepInv
<1> SUFFICES ASSUME Init PROVE SweepInv
  OBVIOUS
<1>1. BarrierInv /\ Given
  BY InitBarrier DEF BarrierInv
<1>2. \A t \in Team : phase[t] = 0 /\ at[t] = "run" /\ t \in Threads
  BY <1>1, TeamFacts DEF Init
<1>3. ~IsLevel(0)
  BY <1>1, PhasesFacts, KernelFields DEF Given, IsLevel, IsSingle
<1>4. ValuesInv
  <2> SUFFICES ASSUME NEW l \in 1 .. nLevels, NEW r \in LevelBegin(l) .. LevelEnd(l) - 1,
                      NEW t \in Team
               PROVE  sweeps[CellOf(r)] = SweptBy(t, l, r)
    BY DEF ValuesInv
  <2>1. CellOf(r) \in Cells
    <3>1. LevelBegin(l) \in Nat /\ LevelEnd(l) \in Nat /\ LevelEnd(l) <= Len(newToOld)
      BY <1>1, LevelFacts
    <3>2. r + 1 \in 1 .. Len(newToOld)
      BY <1>1, <3>1, GivenFacts
    <3> QED
      BY <1>1, <3>2, GivenFacts, ElementOfSeq DEF CellOf
  <2>2. nLevels # 0
    BY <1>1, GivenFacts
  <2>3. SweptBy(t, l, r) = 0 + 0
    BY <1>1, <1>2, <1>3, <2>2, WalksEnds DEF SweptBy, Ahead
  <2> QED
    BY <2>1, <2>3 DEF Init
<1>5. EdgesInv
  <2> SUFFICES ASSUME NEW f \in Faces(mesh)
               PROVE  edgeSweeps[f] = sweeps[mesh.lower[f]]
    BY DEF EdgesInv
  <2>1. mesh.lower[f] \in Cells
    BY <1>1, GivenFacts, ElementOfSeq DEF IsAddressing, Faces
  <2> QED
    BY <2>1 DEF Init
<1>6. DetectedInv
  BY <1>2 DEF Init, DetectedInv
<1> QED
  BY <1>1, <1>4, <1>5, <1>6 DEF SweepInv

LEMMA StepDetected ==
  ASSUME BarrierInv, DetectedInv, NEW t \in Team, Step(t)
  PROVE  DetectedInv'
<1>1. Given /\ ControlInv /\ UNCHANGED schedule
  BY DEF BarrierInv, Step, Single, StartRow, FinishRow, Arrive, Leave
<1>2. t \in Threads /\ phase[t] \in Nat /\ \A u \in Team : u \in Threads /\ phase[u] \in Nat
  BY <1>1, TeamFacts, PhasesFacts DEF ControlInv, ControlOK
<1>3. ~IsLevel(0)
  BY <1>1, PhasesFacts, KernelFields DEF Given, IsLevel, IsSingle
<1>4. CASE Single(t)
  <2>1. /\ singles' = singles \cup {phase[t]}
        /\ detectedThreads' =
             IF phase[t] = 0 /\ phase[t] \notin singles THEN team ELSE detectedThreads
        /\ phase[t] < Phases
    BY <1>4 DEF Single, IsSingle
  <2>2. detectedThreads' = IF 0 \in singles' THEN team ELSE 0
    BY <2>1 DEF DetectedInv
  <2>3. 0 \in singles' => Phases > 0
    BY <1>1, <1>2, <2>1, PhasesFacts DEF DetectedInv
  <2>4. phase[t] = 0 => 0 \in singles'
    BY <2>1
  <2>5. 0 \in singles => 0 \in singles'
    BY <2>1
  <2>6. phase[t] # 0 => 0 \in singles
    BY <1>2 DEF DetectedInv
  <2>7. \A u \in Team \ {t} : phase'[u] = phase[u] /\ at'[u] = at[u]
    BY <1>1, <1>2, <1>4 DEF Single, Advance, Wait, ControlInv, ControlOK
  <2>8. \A u \in Team : phase'[u] > 0 \/ at'[u] = "barrier" => 0 \in singles'
    BY <2>4, <2>5, <2>6, <2>7 DEF DetectedInv
  <2> QED
    BY <1>1, <2>2, <2>3, <2>8, Frame DEF DetectedInv
<1>5. CASE StartRow(t) \/ FinishRow(t) \/ Arrive(t)
  <2>1. UNCHANGED <<singles, detectedThreads, phase>>
    BY <1>5 DEF StartRow, FinishRow, Arrive, Wait, memory
  <2>2. \A u \in Team : at'[u] = "barrier" => at[u] = "barrier" \/ IsLevel(phase[u])
    BY <1>1, <1>2, <1>5 DEF StartRow, FinishRow, Arrive, Wait, ControlInv, ControlOK
  <2>3. \A u \in Team : IsLevel(phase[u]) => phase[u] > 0
    BY <1>2, <1>3
  <2>4. \A u \in Team : phase[u] > 0 \/ at'[u] = "barrier" => 0 \in singles
    BY <2>2, <2>3 DEF DetectedInv
  <2> QED
    BY <1>1, <2>1, <2>4, Frame DEF DetectedInv
<1>6. CASE Leave(t)
  <2>1. UNCHANGED <<singles, detectedThreads>> /\ 0 \in singles
    BY <1>6 DEF Leave, memory, DetectedInv
  <2> QED
    BY <1>1, <2>1, Frame DEF DetectedInv
<1> QED
  BY <1>4, <1>5, <1>6 DEF Step

LEMMA StepSweep == SweepInv /\ [Next]_vars => SweepInv'
<1> SUFFICES ASSUME SweepInv, [Next]_vars PROVE SweepInv'
  OBVIOUS
<1>1. Given /\ MemoryOK /\ ControlInv /\ ValuesInv /\ EdgesInv /\ DetectedInv /\ BarrierInv
  BY DEF SweepInv, BarrierInv
<1>2. BarrierInv'
  BY <1>1, StepBarrier
<1>3. ASSUME NEW t \in Team, Step(t) PROVE ValuesInv' /\ EdgesInv'
  <2>1. CASE Single(t)
    <3>1. UNCHANGED <<schedule, sweeps, edgeSweeps>> /\ phase[t] < Phases
          /\ IsSingle(phase[t]) /\ (Advance(t) \/ Wait(t))
      BY <2>1 DEF Single, IsSingle
    <3>2. ValuesInv'
      <4>1. CASE Advance(t)
        BY <1>1, <3>1, <4>1, AdvanceValues DEF IsLevel
      <4>2. CASE Wait(t)
        BY <1>1, <3>1, <4>2, StandingValues DEF Wait
      <4> QED
        BY <3>1, <4>1, <4>2
    <3>3. EdgesInv'
      BY <1>1, <3>1, Frame DEF EdgesInv
    <3> QED
      BY <3>2, <3>3
  <2>2. CASE StartRow(t) \/ Arrive(t)
    <3>1. UNCHANGED <<schedule, sweeps, edgeSweeps, phase, next>>
      BY <2>2 DEF StartRow, Arrive, Wait, memory
    <3> QED
      BY <1>1, <3>1, StandingValues, Frame DEF EdgesInv
  <2>3. CASE FinishRow(t)
    BY <1>1, <2>3, FinishRowValues, FinishRowEdges
  <2>4. CASE Leave(t)
    <3>1. UNCHANGED <<schedule, sweeps, edgeSweeps>> /\ Advance(t)
          /\ phase[t] < Phases /\ (IsLevel(phase[t]) => next[t] = stop[t])
      BY <1>1, <2>4 DEF Leave, memory, ControlInv, Positioned
    <3> QED
      BY <1>1, <3>1, AdvanceValues, Frame DEF EdgesInv
  <2> QED
    BY <1>3, <2>1, <2>2, <2>3, <2>4 DEF Step
<1>4. ASSUME NEW t \in Team, Step(t) PROVE SweepInv'
  BY <1>1, <1>2, <1>3, <1>4, StepDetected DEF SweepInv
<1>5. CASE UNCHANGED vars
  <2>1. UNCHANGED <<schedule, sweeps, edgeSweeps, phase, next>>
    BY <1>5 DEF vars, memory, control
  <2>2. UNCHANGED schedule /\ UNCHANGED <<singles, detectedThreads, phase, at>>
    BY <1>5 DEF vars, memory, control
  <2>3. ValuesInv' /\ EdgesInv'
    BY <1>1, <2>1, StandingValues, Frame DEF EdgesInv
  <2>4. DetectedInv'
    BY <1>1, <2>2, Frame DEF DetectedInv
  <2> QED
    BY <1>2, <2>3, <2>4 DEF SweepInv
<1> QED
  BY <1>4, <1>5 DEF Next

LEMMA SweepAlways == Spec => []SweepInv
<1> QED
  BY InitSweep, StepSweep, PTL DEF Spec

\* While a thread is in a row, all other levels stand where it would find them
\* if it were alone.
LEMMA OthersSettled ==
  ASSUME SweepInv, NEW t \in Team, at[t] = "row",
         NEW m \in 1 .. nLevels, m # LevelOf(phase[t]),
         NEW q \in LevelBegin(m) .. LevelEnd(m) - 1
  PROVE  sweeps[CellOf(q)] = Swept(m, Walks(phase[t]))
<1> DEFINE p == phase[t]
           k == Walks(p)
<1>1. Given /\ ControlInv /\ ValuesInv
  BY DEF SweepInv, BarrierInv
<1>2. /\ p \in Nat /\ IsLevel(p) /\ p < Phases /\ t \in Nat
      /\ nLevels # 0
  BY <1>1, InRowFacts, TeamFacts, GivenFacts
<1>3. PICK u \in Team : Owns(u, m, q)
  BY <1>1, RowHasOwner
<1>4. sweeps[CellOf(q)] = SweptBy(u, m, q)
  BY <1>1, <1>3 DEF ValuesInv
<1>5. phase[u] \in Nat
  BY <1>1, TeamFacts, PhasesFacts DEF ControlInv, ControlOK
<1>6. k \in Nat /\ Swept(m, k) \in Nat
  BY <1>1, <1>2, WalksNext, SweptNext
<1>7. ~IsLevel(0)
  BY <1>1, PhasesFacts, KernelFields DEF Given, IsLevel, IsSingle
<1>8. \/ phase[u] = p
      \/ phase[u] + 1 = p /\ at[u] = "barrier"
      \/ phase[u] = 0 /\ p = 1
  <2>1. phase[u] <= p
    <3>1. SUFFICES ASSUME phase[u] > p PROVE FALSE
      BY <1>2, <1>5
    <3>2. p = 0
      BY <1>1, <1>3, <3>1 DEF ControlInv, InStep
    <3> QED
      BY <1>2, <1>7, <3>2
  <2>2. CASE phase[u] < p
    BY <1>1, <1>2, <1>5, <2>2 DEF ControlInv, InStep
  <2> QED
    BY <1>2, <1>5, <2>1, <2>2
<1> SUFFICES sweeps[CellOf(q)] = Swept(m, k)
  OBVIOUS
<1> HIDE DEF p, k
<1>9. CASE phase[u] = p
  <2>1. ~Ahead(u, m, q)
    BY <1>9 DEF Ahead, p
  <2>2. SweptBy(u, m, q) = Swept(m, k) + 0
    BY <1>9, <2>1 DEF SweptBy, k
  <2> QED
    BY <1>4, <1>6, <2>2
<1>10. CASE phase[u] + 1 = p /\ at[u] = "barrier" /\ IsLevel(phase[u])
  <2> DEFINE j == Walks(phase[u])
  <2>1. phase[u] < Phases
    BY <1>10 DEF IsLevel
  <2>2. j \in Nat /\ Walks(phase[u] + 1) = j + 1 /\ LevelOf(phase[u]) = 1 + (j % nLevels)
    BY <1>1, <1>5, <1>10, <2>1, WalksNext
  <2>3. k = j + 1
    BY <1>10, <2>2 DEF k
  <2>4. SweptBy(u, m, q) = Swept(m, j) + (IF Ahead(u, m, q) THEN 1 ELSE 0)
    BY DEF SweptBy
  <2> HIDE DEF j
  <2>5. Swept(m, j) \in Nat
        /\ Swept(m, j + 1) = Swept(m, j) + (IF m = 1 + (j % nLevels) THEN 1 ELSE 0)
    BY <1>1, <1>2, <2>2, SweptNext
  <2>6. Ahead(u, m, q) <=> LevelOf(phase[u]) = m
    <3>1. next[u] = EndRow(u, phase[u])
      BY <1>1, <1>10 DEF ControlInv, Positioned
    <3>2. LevelOf(phase[u]) = m => EndRow(u, phase[u]) = RowAt(m, ShareStart(u + 1, m))
      BY <1>10 DEF EndRow
    <3> QED
      BY <1>3, <1>10, <3>1, <3>2 DEF Ahead, Owns
  <2>7. SweptBy(u, m, q) = Swept(m, k)
    BY <2>2, <2>3, <2>4, <2>5, <2>6
  <2> QED
    BY <1>4, <2>7
<1>11. CASE phase[u] + 1 = p /\ ~IsLevel(phase[u])
  <2>1. phase[u] < Phases
    BY <1>2, <1>5, <1>11, PhasesFacts, <1>1
  <2>2. Walks(phase[u]) \in Nat /\ Walks(phase[u] + 1) = Walks(phase[u]) + 0
    BY <1>1, <1>5, <1>11, <2>1, WalksNext
  <2>3. Walks(phase[u]) = k
    BY <1>11, <2>2 DEF k
  <2>4. SweptBy(u, m, q) = Swept(m, k) + 0
    BY <1>11, <2>3 DEF SweptBy, Ahead
  <2> QED
    BY <1>4, <1>6, <2>4
<1>12. phase[u] = 0 /\ p = 1 => phase[u] + 1 = p /\ ~IsLevel(phase[u])
  BY <1>7
<1> QED
  BY <1>8, <1>9, <1>10, <1>11, <1>12

\* The owner of a face has its row in an earlier level.
LEMMA FaceLevels ==
  ASSUME Given, NEW f \in Faces(mesh),
         NEW l \in 1 .. nLevels, NEW r \in LevelBegin(l) .. LevelEnd(l) - 1,
         NEW m \in 1 .. nLevels, NEW q \in LevelBegin(m) .. LevelEnd(m) - 1,
         mesh.upper[f] = CellOf(r), mesh.lower[f] = CellOf(q)
  PROVE  m < l
<1>1. /\ r \in Nat /\ q \in Nat /\ l \in Nat /\ m \in Nat
      /\ r + 1 \in DOMAIN newToOld /\ q + 1 \in DOMAIN newToOld
  <2>1. /\ LevelBegin(l) \in Nat /\ LevelEnd(l) \in Nat /\ LevelEnd(l) <= Len(newToOld)
        /\ LevelBegin(m) \in Nat /\ LevelEnd(m) \in Nat /\ LevelEnd(m) <= Len(newToOld)
    BY LevelFacts
  <2>2. DOMAIN newToOld = 1 .. Len(newToOld) /\ Len(newToOld) \in Nat /\ nLevels \in Nat
    BY GivenFacts, LenProperties
  <2> QED
    BY <2>1, <2>2
<1>2. q < r
  <2>1. PICK i \in 1 .. (r + 1) - 1, b \in DOMAIN levelStarts :
          newToOld[i] = mesh.lower[f] /\ i <= levelStarts[b] /\ levelStarts[b] < r + 1
    BY <1>1, GivenFacts DEF SeparatesLevels, CellOf
  <2>2. i \in DOMAIN newToOld
    <3>1. DOMAIN newToOld = 1 .. Len(newToOld) /\ Len(newToOld) \in Nat
      BY GivenFacts, LenProperties
    <3> QED
      BY <1>1, <2>1, <3>1
  <2>3. i = q + 1
    BY <1>1, <2>1, <2>2, GivenFacts DEF CellOf, IsInjective
  <2> QED
    BY <1>1, <2>1, <2>3
<1>3. ~(l < m)
  BY <1>1, <1>2, LevelUnique
<1>4. l # m
  BY <1>1, <1>2, LevelIndependent
<1> QED
  BY <1>1, <1>3, <1>4

\* A row is fed the values of lexicographic Gauss-Seidel, as long as a thread
\* is in it.
LEMMA RowFed ==
  ASSUME SweepInv, NEW t \in Team, at[t] = "row"
  PROVE  LET c == CellOf(next[t])
         IN  /\ c \in Cells
             /\ sweeps[c] < nSweeps
             /\ \A f \in IncomingFaces(mesh, c) : sweeps[mesh.lower[f]] = sweeps[c] + 1
             /\ \A f \in OwnedFaces(mesh, {c}) : sweeps[mesh.upper[f]] = sweeps[c]
<1> DEFINE p == phase[t]
           l == LevelOf(p)
           r == next[t]
           c == CellOf(r)
           k == Walks(p)
           s == k \div nLevels
<1>1. Given /\ ControlInv /\ ValuesInv
  BY DEF SweepInv, BarrierInv
<1>2. /\ p \in Nat /\ IsLevel(p) /\ p < Phases /\ l \in 1 .. nLevels
      /\ r \in LevelBegin(l) .. LevelEnd(l) - 1 /\ Owns(t, l, r) /\ c \in Cells
      /\ nLevels \in Nat \ {0}
  BY <1>1, InRowFacts, GivenFacts
<1>3. /\ k \in Nat /\ l = 1 + (k % nLevels) /\ s < nSweeps
  BY <1>1, <1>2, WalksNext, WalksEnds
<1>4. s \in Nat /\ k % nLevels \in 0 .. nLevels - 1
  BY <1>2, <1>3, QuotientFacts
<1>5. \A m \in 1 .. nLevels : Swept(m, k) = s + (IF m < l THEN 1 ELSE 0)
  <2> SUFFICES ASSUME NEW m \in 1 .. nLevels
               PROVE  Swept(m, k) = s + (IF m < l THEN 1 ELSE 0)
    OBVIOUS
  <2>1. Swept(m, k) = s + (IF m <= k % nLevels THEN 1 ELSE 0)
    BY DEF Swept
  <2> HIDE DEF l, k, s
  <2> QED
    BY <1>2, <1>3, <1>4, <2>1
<1>6. \A m \in 1 .. nLevels : m # l =>
        \A q \in LevelBegin(m) .. LevelEnd(m) - 1 : sweeps[CellOf(q)] = s + (IF m < l THEN 1 ELSE 0)
  BY <1>5, OthersSettled
<1>7. sweeps[c] = s
  <2>1. sweeps[c] = SweptBy(t, l, r)
    BY <1>1, <1>2 DEF ValuesInv
  <2>2. ~Ahead(t, l, r)
    <3>1. r \in Nat
      BY <1>1, TeamFacts, NCellsAssumption DEF ControlInv, ControlOK
    <3> QED
      BY <3>1 DEF Ahead
  <2>3. SweptBy(t, l, r) = Swept(l, k) + 0
    BY <2>2 DEF SweptBy
  <2>4. Swept(l, k) = s + 0
    BY <1>2, <1>5
  <2> HIDE DEF c, l, r, k, s
  <2> QED
    BY <1>4, <2>1, <2>3, <2>4
<1> HIDE DEF p, l, r, k, s
<1>8. ASSUME NEW f \in IncomingFaces(mesh, c) PROVE sweeps[mesh.lower[f]] = s + 1
  <2>1. f \in Faces(mesh) /\ mesh.upper[f] = CellOf(r) /\ mesh.lower[f] \in Cells
    BY <1>1, GivenFacts, ElementOfSeq DEF IncomingFaces, Faces, IsAddressing
  <2>2. PICK m \in 1 .. nLevels : \E q \in LevelBegin(m) .. LevelEnd(m) - 1 : CellOf(q) = mesh.lower[f]
    BY <1>1, <2>1, CellHasRow
  <2>3. PICK q \in LevelBegin(m) .. LevelEnd(m) - 1 : CellOf(q) = mesh.lower[f]
    BY <2>2
  <2>4. m < l
    BY <1>1, <1>2, <2>1, <2>3, FaceLevels
  <2> QED
    BY <1>2, <1>6, <2>3, <2>4
<1>9. ASSUME NEW f \in OwnedFaces(mesh, {c}) PROVE sweeps[mesh.upper[f]] = s
  <2>1. f \in Faces(mesh) /\ mesh.lower[f] = CellOf(r) /\ mesh.upper[f] \in Cells
    BY <1>1, GivenFacts, ElementOfSeq DEF OwnedFaces, Faces, IsAddressing
  <2>2. PICK m \in 1 .. nLevels : \E q \in LevelBegin(m) .. LevelEnd(m) - 1 : CellOf(q) = mesh.upper[f]
    BY <1>1, <2>1, CellHasRow
  <2>3. PICK q \in LevelBegin(m) .. LevelEnd(m) - 1 : CellOf(q) = mesh.upper[f]
    BY <2>2
  <2>4. l < m
    BY <1>1, <1>2, <2>1, <2>3, FaceLevels
  <2>5. sweeps[mesh.upper[f]] = s + 0
    BY <1>2, <1>6, <2>3, <2>4
  <2> QED
    BY <1>4, <2>5
<1> QED
  BY <1>2, <1>3, <1>7, <1>8, <1>9 DEF r

\* When all threads have left the last phase, every cell has all its sweeps.
LEMMA FinishedComplete ==
  ASSUME SweepInv
  PROVE  ResultComplete
<1>1. Given /\ ControlInv /\ ValuesInv /\ DetectedInv
  BY DEF SweepInv, BarrierInv
<1> SUFFICES ASSUME Finished
             PROVE  /\ \A c \in Cells : sweeps[c] = nSweeps
                    /\ detectedThreads = IF Phases = 0 THEN 0 ELSE team
  BY DEF ResultComplete
<1>2. Phases \in Nat /\ ~IsLevel(Phases)
  BY <1>1, PhasesFacts DEF IsLevel
<1>3. ASSUME NEW c \in Cells PROVE sweeps[c] = nSweeps
  <2> PICK l \in 1 .. nLevels : \E r \in LevelBegin(l) .. LevelEnd(l) - 1 : CellOf(r) = c
    BY <1>1, CellHasRow
  <2>1. PICK r \in LevelBegin(l) .. LevelEnd(l) - 1 : CellOf(r) = c
    OBVIOUS
  <2>2. PICK t \in Team : Owns(t, l, r)
    BY <1>1, RowHasOwner
  <2>3. sweeps[c] = SweptBy(t, l, r)
    BY <1>1, <2>1, <2>2 DEF ValuesInv
  <2>4. phase[t] = Phases
    BY DEF Finished
  <2>5. SweptBy(t, l, r) = Swept(l, Walks(Phases)) + 0
    BY <1>2, <2>4 DEF SweptBy, Ahead
  <2>6. Swept(l, Walks(Phases)) = nSweeps /\ nSweeps \in Nat
    BY <1>1, WalksEnds, GivenFacts
  <2> QED
    BY <2>3, <2>5, <2>6
<1>4. detectedThreads = IF Phases = 0 THEN 0 ELSE team
  <2>1. 0 \in Team /\ phase[0] = Phases
    BY <1>1, TeamFacts DEF Finished
  <2> QED
    BY <1>1, <1>2, <2>1 DEF DetectedInv
<1> QED
  BY <1>3, <1>4

\* Whatever the team, the division of the levels and the interleaving, every
\* value a row reads and every value a call leaves is the one of lexicographic
\* Gauss-Seidel.
THEOREM KernelsSweepLikeGaussSeidel == Spec => []SweepsAreGaussSeidel
<1>1. ASSUME SweepInv PROVE ReadsAreGaussSeidel
  <2> SUFFICES ASSUME NEW t \in InRow
               PROVE  LET c == CellOf(next[t])
                      IN  /\ \A f \in IncomingFaces(mesh, c) :
                               (IF kernel.edges THEN edgeSweeps[f] ELSE sweeps[mesh.lower[f]])
                                 = sweeps[c] + 1
                          /\ \A f \in OwnedFaces(mesh, {c}) : sweeps[mesh.upper[f]] = sweeps[c]
    BY DEF ReadsAreGaussSeidel
  <2>1. t \in Team /\ at[t] = "row"
    BY DEF InRow
  <2>2. kernel.edges => \A f \in Faces(mesh) : edgeSweeps[f] = sweeps[mesh.lower[f]]
    BY <1>1 DEF SweepInv, EdgesInv
  <2> QED
    BY <1>1, <2>1, <2>2, RowFed DEF IncomingFaces
<1>2. SweepInv => SweepsAreGaussSeidel
  BY <1>1, FinishedComplete DEF SweepsAreGaussSeidel
<1> QED
  BY <1>2, SweepAlways, PTL

\* Every kernel implements the dataflow: each row it finishes is an update
\* GaussSeidelDataflow allows, and nothing else it does touches a value.
THEOREM KernelsImplementDataflow == Spec => Dataflow!SweepSpec
<1>1. Init => Dataflow!SweepInit
  <2> SUFFICES ASSUME Init PROVE Dataflow!SweepInit
    OBVIOUS
  <2>1. PICK s \in Schedules : mesh = s.mesh
    BY DEF Init
  <2>2. mesh \in {x.mesh : x \in Schedules}
    BY <2>1
  <2>3. nSweeps \in {k.nSweeps : k \in Kernels}
    BY DEF Init, nSweeps
  <2>4. sweeps = [c \in Cells |-> 0]
    BY DEF Init
  <2> QED
    BY <2>2, <2>3, <2>4 DEF Dataflow!SweepInit, Dataflow!Cells, Cells
<1>2. SweepInv /\ [Next]_vars => [Dataflow!SweepNext]_(Dataflow!sweepVars)
  <2> SUFFICES ASSUME SweepInv, [Next]_vars
               PROVE  [Dataflow!SweepNext]_(Dataflow!sweepVars)
    OBVIOUS
  <2>1. ASSUME NEW t \in Team, FinishRow(t) PROVE Dataflow!SweepNext
    <3> DEFINE c == CellOf(next[t])
    <3>1. /\ UNCHANGED schedule /\ at[t] = "row"
          /\ sweeps' = [sweeps EXCEPT ![c] = @ + 1]
      BY <2>1 DEF FinishRow
    <3>2. mesh' = mesh /\ nSweeps' = nSweeps
      BY <3>1, Frame, FrameRows
    <3>3. /\ c \in Cells
          /\ sweeps[c] < nSweeps
          /\ \A f \in IncomingFaces(mesh, c) : sweeps[mesh.lower[f]] = sweeps[c] + 1
          /\ \A f \in OwnedFaces(mesh, {c}) : sweeps[mesh.upper[f]] = sweeps[c]
      BY <3>1, RowFed
    <3> HIDE DEF c
    <3>4. Dataflow!Update(c)
      BY <3>1, <3>2, <3>3
      DEF Dataflow!Update, Dataflow!Fed, Dataflow!LowerFaces, Dataflow!UpperFaces,
          Dataflow!IncomingFaces, Dataflow!OwnedFaces, Dataflow!Faces,
          IncomingFaces, OwnedFaces, Faces
    <3> QED
      BY <3>3, <3>4 DEF Dataflow!SweepNext, Dataflow!Cells, Cells
  <2>2. ASSUME NEW t \in Team, Single(t) \/ StartRow(t) \/ Arrive(t) \/ Leave(t)
        PROVE  UNCHANGED Dataflow!sweepVars
    <3>1. UNCHANGED schedule /\ sweeps' = sweeps
      BY <2>2 DEF Single, StartRow, Arrive, Leave, memory
    <3> QED
      BY <3>1, Frame, FrameRows DEF Dataflow!sweepVars
  <2>3. CASE UNCHANGED vars
    <3>1. UNCHANGED schedule /\ sweeps' = sweeps
      BY <2>3 DEF vars, memory
    <3> QED
      BY <3>1, Frame, FrameRows DEF Dataflow!sweepVars
  <2> QED
    BY <2>1, <2>2, <2>3 DEF Next, Step
<1> QED
  BY <1>1, <1>2, SweepAlways, PTL DEF Spec, Dataflow!SweepSpec

-----------------------------------------------------------------------------
(* The benchmark runner. *)

\* Where run_task is under way.
Working == {"spawn", "wait", "publish", "digest", "attempt", "status"}
           \cup Terminating

\* Only the holder of the lock is inside, and it knows what it works on.
Located ==
    /\ \A r \in Runners : pc[r] \in Inside =>
          lock = r /\ fingerprint[r] \in Fingerprints
    /\ \A r \in Runners : pc[r] \in Working => key[r] \in Keys
    /\ \A r \in Runners :
          pc[r] \in {"publish", "digest", "attempt", "status"} => outcome[r] \in Ended
    /\ \A r \in Runners :
          pc[r] \in Terminating => outcome[r] \in {"timeout", "interrupted"}

LEMMA InitTyped == RunnerInit => RunnerTypeOK /\ Located
  BY NoneAssumption
  DEF RunnerInit, RunnerTypeOK, Located, Outside, Inside, Working, Terminating, Keys, Ended

\* The rows collect_rows returns are rows.
LEMMA CollectRowsTyped ==
    ASSUME RunnerTypeOK, NEW f \in Fingerprints
    PROVE  CollectRows(f) \subseteq Row
  <1>1. SUFFICES ASSUME NEW k \in {f} \X Tasks, Completed(k)
                 PROVE  [key |-> k, attempt |-> status[k].attempt,
                         measured |-> result[k]] \in Row
    BY DEF CollectRows
  <1>2. k \in Keys
    BY DEF Keys
  <1>3. status[k] \in Status /\ result[k] \in Runners
    BY <1>1, <1>2 DEF RunnerTypeOK, Completed
  <1> QED
    BY <1>2, <1>3 DEF Row, Status

LEMMA StepTyped == RunnerTypeOK /\ Located /\ [RunnerNext]_runnerVars => RunnerTypeOK' /\ Located'
  <1> SUFFICES ASSUME RunnerTypeOK, Located, [RunnerNext]_runnerVars
               PROVE  RunnerTypeOK' /\ Located'
    OBVIOUS
  <1> USE NoneAssumption DEF RunnerTypeOK, Located, Outside, Inside, Working, Terminating, Ended
  <1>1. ASSUME NEW r \in Runners, Skip(r)
        PROVE  RunnerTypeOK' /\ Located'
    BY <1>1 DEF Skip, ownMemory, processes, files
  <1>2. ASSUME NEW r \in Runners, Begin(r)
        PROVE  RunnerTypeOK' /\ Located'
    <2>1. PICK t \in todo[r] :
             /\ todo' = [todo EXCEPT ![r] = @ \ {t}]
             /\ key' = [key EXCEPT ![r] = <<fingerprint[r], t>>]
             /\ attempts' = [attempts EXCEPT ![r][<<fingerprint[r], t>>] = "running"]
      BY <1>2 DEF Begin
    <2>2. <<fingerprint[r], t>> \in Keys
      BY <1>2 DEF Begin, Keys
    <2>3. RunnerTypeOK'
      BY <1>2, <2>1, <2>2 DEF Begin, processes
    <2>4. Located'
      BY <1>2, <2>1, <2>2 DEF Begin, processes
    <2> QED
      BY <2>3, <2>4
  <1>3. ASSUME NEW r \in Runners, EndLoop(r)
        PROVE  RunnerTypeOK' /\ Located'
    BY <1>3 DEF EndLoop, ownMemory, processes, files
  <1>4. ASSUME NEW r \in Runners, Spawn(r)
        PROVE  RunnerTypeOK' /\ Located'
    BY <1>4 DEF Spawn, ownMemory, processes, files
  <1>5. ASSUME NEW r \in Runners, SpawnFails(r)
        PROVE  RunnerTypeOK' /\ Located'
    BY <1>5 DEF SpawnFails, ownMemory, processes, files
  <1>6. ASSUME NEW r \in Runners, Waited(r)
        PROVE  RunnerTypeOK' /\ Located'
    BY <1>6 DEF Waited, ownMemory, processes, files
  <1>7. ASSUME NEW r \in Runners, Timeout(r)
        PROVE  RunnerTypeOK' /\ Located'
    BY <1>7 DEF Timeout, ownMemory, processes, files
  <1>8. ASSUME NEW r \in Runners, AlreadyEnded(r)
        PROVE  RunnerTypeOK' /\ Located'
    BY <1>8 DEF AlreadyEnded, ownMemory, processes, files
  <1>9. ASSUME NEW r \in Runners, StillRunning(r)
        PROVE  RunnerTypeOK' /\ Located'
    BY <1>9 DEF StillRunning, ownMemory, processes, files
  <1>10. ASSUME NEW r \in Runners, SigTerm(r)
        PROVE  RunnerTypeOK' /\ Located'
    <2>1. PICK l \in {FALSE, leader[r]}, d \in {FALSE, descendant[r]} :
             /\ leader' = [leader EXCEPT ![r] = l]
             /\ descendant' = [descendant EXCEPT ![r] = d]
      BY <1>10 DEF SigTerm
    <2>2. l \in BOOLEAN /\ d \in BOOLEAN
      OBVIOUS
    <2>3. RunnerTypeOK'
      BY <1>10, <2>1, <2>2 DEF SigTerm, ownMemory, files
    <2>4. Located'
      BY <1>10 DEF SigTerm, ownMemory, files
    <2> QED
      BY <2>3, <2>4
  <1>11. ASSUME NEW r \in Runners, Grace(r)
        PROVE  RunnerTypeOK' /\ Located'
    BY <1>11 DEF Grace, ownMemory, processes, files
  <1>12. ASSUME NEW r \in Runners, SigKill(r)
        PROVE  RunnerTypeOK' /\ Located'
    BY <1>12 DEF SigKill, ownMemory, processes, files
  <1>13. ASSUME NEW r \in Runners, Reap(r)
        PROVE  RunnerTypeOK' /\ Located'
    BY <1>13 DEF Reap, ownMemory, processes, files
  <1>14. ASSUME NEW r \in Runners, Publish(r)
        PROVE  RunnerTypeOK' /\ Located'
    BY <1>14 DEF Publish, ownMemory, processes, files
  <1>15. ASSUME NEW r \in Runners, Digest(r)
        PROVE  RunnerTypeOK' /\ Located'
    BY <1>15 DEF Digest, ownMemory, processes, files
  <1>16. ASSUME NEW r \in Runners, RecordAttempt(r)
        PROVE  RunnerTypeOK' /\ Located'
    BY <1>16 DEF RecordAttempt, ownMemory, processes, files
  <1>17. ASSUME NEW r \in Runners, RecordStatus(r)
        PROVE  RunnerTypeOK' /\ Located'
    <2>1. [state |-> outcome[r], attempt |-> r, digest |-> digest[r]] \in Status
      BY <1>17 DEF RecordStatus, Status
    <2>2. clean'[r] \in BOOLEAN
      BY <1>17 DEF RecordStatus
    <2>3. clean' \in [Runners -> BOOLEAN]
      BY <1>17, <2>2 DEF RecordStatus
    <2>4. status' \in [Keys -> Status \cup {None}]
      BY <1>17, <2>1 DEF RecordStatus
    <2>5. RunnerTypeOK'
      BY <1>17, <2>3, <2>4 DEF RecordStatus, processes
    <2>6. Located'
      BY <1>17 DEF RecordStatus, processes
    <2> QED
      BY <2>5, <2>6
  <1>18. ASSUME NEW r \in Runners, Collect(r)
        PROVE  RunnerTypeOK' /\ Located'
    <2>1. CollectRows(fingerprint[r]) \subseteq Row
      BY <1>18, CollectRowsTyped DEF Collect
    <2> QED
      BY <1>18, <2>1 DEF Collect, processes, files
  <1>19. ASSUME NEW r \in Runners, WriteTable(r)
        PROVE  RunnerTypeOK' /\ Located'
    <2>1. tables' \in [Tables -> SUBSET Row]
      BY <1>19 DEF WriteTable
    <2>2. (IF written[r] = 3 THEN {} ELSE rows[r]) \in SUBSET Row
      OBVIOUS
    <2>3. rows' \in [Runners -> SUBSET Row]
      BY <1>19, <2>2 DEF WriteTable
    <2>8. written[r] \in 0..3
      OBVIOUS
    <2>4. (IF written[r] = 3 THEN 0 ELSE written[r] + 1) \in 0..3
      BY <2>8
    <2>5. written' \in [Runners -> 0..3]
      BY <1>19, <2>4 DEF WriteTable
    <2>6. RunnerTypeOK'
      BY <1>19, <2>1, <2>3, <2>5 DEF WriteTable, processes
    <2>7. Located'
      BY <1>19 DEF WriteTable, processes
    <2> QED
      BY <2>6, <2>7
  <1>20. ASSUME NEW r \in Runners, Unlock(r)
        PROVE  RunnerTypeOK' /\ Located'
    BY <1>20 DEF Unlock, ownMemory, processes, files, Forget
  <1>21. ASSUME NEW r \in Runners, Start(r)
        PROVE  RunnerTypeOK' /\ Located'
    BY <1>21 DEF Start, ownMemory, processes, files
  <1>22. ASSUME NEW r \in Runners, Refused(r)
        PROVE  RunnerTypeOK' /\ Located'
    BY <1>22 DEF Refused, ownMemory, processes, files
  <1>23. ASSUME NEW r \in Runners, Signal(r)
        PROVE  RunnerTypeOK' /\ Located'
    BY <1>23 DEF Signal, ownMemory, processes, files
  <1>24. ASSUME NEW r \in Runners, Abandon(r)
        PROVE  RunnerTypeOK' /\ Located'
    BY <1>24 DEF Abandon, ownMemory, processes, files
  <1>25. ASSUME NEW r \in Runners, Unwind(r)
        PROVE  RunnerTypeOK' /\ Located'
    BY <1>25 DEF Unwind, ownMemory, processes, files
  <1>26. ASSUME NEW r \in Runners, Kill(r)
        PROVE  RunnerTypeOK' /\ Located'
    BY <1>26 DEF Kill, ownMemory, processes, files, Forget
  <1>27. ASSUME NEW r \in Runners, LeaderExits(r)
        PROVE  RunnerTypeOK' /\ Located'
    BY <1>27 DEF LeaderExits, ownMemory, processes, files
  <1>28. ASSUME NEW r \in Runners, DescendantExits(r)
        PROVE  RunnerTypeOK' /\ Located'
    BY <1>28 DEF DescendantExits, ownMemory, processes, files
  <1>29. ASSUME NEW r \in Runners, ParentDeath(r)
        PROVE  RunnerTypeOK' /\ Located'
    BY <1>29 DEF ParentDeath, ownMemory, processes, files
  <1>30. CASE UNCHANGED runnerVars
    BY <1>30 DEF runnerVars, ownMemory, processes, files
  <1> QED
    BY <1>1, <1>2, <1>3, <1>4, <1>5, <1>6, <1>7, <1>8, <1>9, <1>10, <1>11,
       <1>12, <1>13, <1>14, <1>15, <1>16, <1>17, <1>18, <1>19, <1>20, <1>21,
       <1>22, <1>23, <1>24, <1>25, <1>26, <1>27, <1>28, <1>29, <1>30 DEF RunnerNext,
       RunnerStep, Environment

\* The values every variable ranges over, and where its holder keeps the lock.
THEOREM TypeCorrect == RunnerSpec => [](RunnerTypeOK /\ Located)
  <1>1. RunnerInit => RunnerTypeOK /\ Located
    BY InitTyped
  <1>2. RunnerTypeOK /\ Located /\ [RunnerNext]_runnerVars => RunnerTypeOK' /\ Located'
    BY StepTyped
  <1> QED
    BY <1>1, <1>2, PTL DEF RunnerSpec

-----------------------------------------------------------------------------
(* Rows join a log and the figures of one attempt.  Between publishing a   *)
(* result and recording it the status on disk may describe an earlier one: *)
(* the digest tells them apart, because it is taken under the lock from    *)
(* the file the same runner has just published.                            *)

\* The digest a runner records is that of its own result; a complete status
\* carries the digest of its own attempt; rows taken from them are coherent.
Traceable ==
    /\ \A r \in Runners : pc[r] = "digest" => result[key[r]] = r
    /\ \A r \in Runners :
          (pc[r] \in {"attempt", "status"} /\ outcome[r] = "complete") => digest[r] = r
    /\ \A k \in Keys :
          (status[k] # None /\ status[k].state = "complete") =>
              status[k].digest = status[k].attempt
    /\ \A r \in Runners : \A w \in rows[r] : w.attempt = w.measured

LEMMA CollectRowsCoherent ==
    ASSUME RunnerTypeOK, Traceable, NEW f \in Fingerprints
    PROVE  \A w \in CollectRows(f) : w.attempt = w.measured
  <1>1. SUFFICES ASSUME NEW k \in {f} \X Tasks, Completed(k)
                 PROVE  status[k].attempt = result[k]
    BY DEF CollectRows
  <1>2. k \in Keys
    BY DEF Keys
  <1> QED
    BY <1>1, <1>2 DEF Completed, Traceable

LEMMA StepCoherent ==
    RunnerTypeOK /\ Located /\ Traceable /\ RowsCoherent /\ [RunnerNext]_runnerVars
        => Traceable' /\ RowsCoherent'
  <1> SUFFICES ASSUME RunnerTypeOK, Located, Traceable, RowsCoherent, [RunnerNext]_runnerVars
               PROVE  Traceable' /\ RowsCoherent'
    OBVIOUS
  <1> USE NoneAssumption DEF RunnerTypeOK, Located, Traceable, RowsCoherent, Inside,
                             Working, Terminating
  <1>1. ASSUME NEW r \in Runners, Skip(r)
        PROVE  Traceable' /\ RowsCoherent'
    BY <1>1 DEF Skip, ownMemory, processes, files
  <1>2. ASSUME NEW r \in Runners, Begin(r)
        PROVE  Traceable' /\ RowsCoherent'
    BY <1>2 DEF Begin, ownMemory, processes, files
  <1>3. ASSUME NEW r \in Runners, EndLoop(r)
        PROVE  Traceable' /\ RowsCoherent'
    BY <1>3 DEF EndLoop, ownMemory, processes, files
  <1>4. ASSUME NEW r \in Runners, Spawn(r)
        PROVE  Traceable' /\ RowsCoherent'
    BY <1>4 DEF Spawn, ownMemory, processes, files
  <1>5. ASSUME NEW r \in Runners, SpawnFails(r)
        PROVE  Traceable' /\ RowsCoherent'
    BY <1>5 DEF SpawnFails, ownMemory, processes, files
  <1>6. ASSUME NEW r \in Runners, Waited(r)
        PROVE  Traceable' /\ RowsCoherent'
    BY <1>6 DEF Waited, ownMemory, processes, files
  <1>7. ASSUME NEW r \in Runners, Timeout(r)
        PROVE  Traceable' /\ RowsCoherent'
    BY <1>7 DEF Timeout, ownMemory, processes, files
  <1>8. ASSUME NEW r \in Runners, AlreadyEnded(r)
        PROVE  Traceable' /\ RowsCoherent'
    BY <1>8 DEF AlreadyEnded, ownMemory, processes, files
  <1>9. ASSUME NEW r \in Runners, StillRunning(r)
        PROVE  Traceable' /\ RowsCoherent'
    BY <1>9 DEF StillRunning, ownMemory, processes, files
  <1>10. ASSUME NEW r \in Runners, SigTerm(r)
        PROVE  Traceable' /\ RowsCoherent'
    BY <1>10 DEF SigTerm, ownMemory, processes, files
  <1>11. ASSUME NEW r \in Runners, Grace(r)
        PROVE  Traceable' /\ RowsCoherent'
    BY <1>11 DEF Grace, ownMemory, processes, files
  <1>12. ASSUME NEW r \in Runners, SigKill(r)
        PROVE  Traceable' /\ RowsCoherent'
    BY <1>12 DEF SigKill, ownMemory, processes, files
  <1>13. ASSUME NEW r \in Runners, Reap(r)
        PROVE  Traceable' /\ RowsCoherent'
    BY <1>13 DEF Reap, ownMemory, processes, files
  <1>14. ASSUME NEW r \in Runners, Publish(r)
        PROVE  Traceable' /\ RowsCoherent'
    BY <1>14 DEF Publish, ownMemory, processes, files
  <1>15. ASSUME NEW r \in Runners, Digest(r)
        PROVE  Traceable' /\ RowsCoherent'
    BY <1>15 DEF Digest, ownMemory, processes, files
  <1>16. ASSUME NEW r \in Runners, RecordAttempt(r)
        PROVE  Traceable' /\ RowsCoherent'
    BY <1>16 DEF RecordAttempt, ownMemory, processes, files
  <1>17. ASSUME NEW r \in Runners, RecordStatus(r)
        PROVE  Traceable' /\ RowsCoherent'
    BY <1>17 DEF RecordStatus, ownMemory, processes, files
  <1>18. ASSUME NEW r \in Runners, Collect(r)
        PROVE  Traceable' /\ RowsCoherent'
    <2>1. fingerprint[r] \in Fingerprints
      BY <1>18 DEF Collect
    <2>2. \A w \in CollectRows(fingerprint[r]) : w.attempt = w.measured
      BY <2>1, CollectRowsCoherent
    <2> QED
      BY <1>18, <2>2 DEF Collect, processes, files
  <1>19. ASSUME NEW r \in Runners, WriteTable(r)
        PROVE  Traceable' /\ RowsCoherent'
    BY <1>19 DEF WriteTable, ownMemory, processes, files
  <1>20. ASSUME NEW r \in Runners, Unlock(r)
        PROVE  Traceable' /\ RowsCoherent'
    BY <1>20 DEF Unlock, ownMemory, processes, files, Forget
  <1>21. ASSUME NEW r \in Runners, Start(r)
        PROVE  Traceable' /\ RowsCoherent'
    BY <1>21 DEF Start, ownMemory, processes, files
  <1>22. ASSUME NEW r \in Runners, Refused(r)
        PROVE  Traceable' /\ RowsCoherent'
    BY <1>22 DEF Refused, ownMemory, processes, files
  <1>23. ASSUME NEW r \in Runners, Signal(r)
        PROVE  Traceable' /\ RowsCoherent'
    BY <1>23 DEF Signal, ownMemory, processes, files
  <1>24. ASSUME NEW r \in Runners, Abandon(r)
        PROVE  Traceable' /\ RowsCoherent'
    BY <1>24 DEF Abandon, ownMemory, processes, files
  <1>25. ASSUME NEW r \in Runners, Unwind(r)
        PROVE  Traceable' /\ RowsCoherent'
    BY <1>25 DEF Unwind, ownMemory, processes, files
  <1>26. ASSUME NEW r \in Runners, Kill(r)
        PROVE  Traceable' /\ RowsCoherent'
    BY <1>26 DEF Kill, ownMemory, processes, files, Forget
  <1>27. ASSUME NEW r \in Runners, LeaderExits(r)
        PROVE  Traceable' /\ RowsCoherent'
    BY <1>27 DEF LeaderExits, ownMemory, processes, files
  <1>28. ASSUME NEW r \in Runners, DescendantExits(r)
        PROVE  Traceable' /\ RowsCoherent'
    BY <1>28 DEF DescendantExits, ownMemory, processes, files
  <1>29. ASSUME NEW r \in Runners, ParentDeath(r)
        PROVE  Traceable' /\ RowsCoherent'
    BY <1>29 DEF ParentDeath, ownMemory, processes, files
  <1>30. CASE UNCHANGED runnerVars
    BY <1>30 DEF runnerVars, ownMemory, processes, files
  <1> QED
    BY <1>1, <1>2, <1>3, <1>4, <1>5, <1>6, <1>7, <1>8, <1>9, <1>10, <1>11,
       <1>12, <1>13, <1>14, <1>15, <1>16, <1>17, <1>18, <1>19, <1>20, <1>21,
       <1>22, <1>23, <1>24, <1>25, <1>26, <1>27, <1>28, <1>29, <1>30 DEF RunnerNext,
       RunnerStep, Environment

\* No row of results.csv or summary.csv ever joins the log of one attempt to the
\* figures of another, with any number of runners killed at any moment.
THEOREM RowsStayCoherent == RunnerSpec => []RowsCoherent
  <1>1. RunnerInit => Traceable /\ RowsCoherent
    BY NoneAssumption DEF RunnerInit, Traceable, RowsCoherent
  <1>2. RunnerTypeOK /\ Located /\ Traceable /\ RowsCoherent /\ [RunnerNext]_runnerVars
            => Traceable' /\ RowsCoherent'
    BY StepCoherent
  <1> QED
    BY <1>1, <1>2, TypeCorrect, PTL DEF RunnerSpec

-----------------------------------------------------------------------------
(* A task is measured alone.                                               *)

\* Where the child of a runner can still be alive.
ChildKnown ==
    \A r \in Runners : leader[r] =>
        \/ pc[r] \in {"wait", "unlock", "gone"} \cup Terminating
        \/ pc[r] \in {"attempt", "status", "collect", "write"}
           /\ outcome[r] = "interrupted"

LEMMA StepAlone == RunnerTypeOK /\ ChildKnown /\ [RunnerNext]_runnerVars => ChildKnown'
  <1> SUFFICES ASSUME RunnerTypeOK, ChildKnown, [RunnerNext]_runnerVars
               PROVE  ChildKnown'
    OBVIOUS
  <1> USE DEF RunnerTypeOK, ChildKnown, Inside, Terminating
  <1>1. ASSUME NEW r \in Runners, Skip(r)
        PROVE  ChildKnown'
    BY <1>1 DEF Skip, ownMemory, processes, files
  <1>2. ASSUME NEW r \in Runners, Begin(r)
        PROVE  ChildKnown'
    BY <1>2 DEF Begin, ownMemory, processes, files
  <1>3. ASSUME NEW r \in Runners, EndLoop(r)
        PROVE  ChildKnown'
    BY <1>3 DEF EndLoop, ownMemory, processes, files
  <1>4. ASSUME NEW r \in Runners, Spawn(r)
        PROVE  ChildKnown'
    BY <1>4 DEF Spawn, ownMemory, processes, files
  <1>5. ASSUME NEW r \in Runners, SpawnFails(r)
        PROVE  ChildKnown'
    BY <1>5 DEF SpawnFails, ownMemory, processes, files
  <1>6. ASSUME NEW r \in Runners, Waited(r)
        PROVE  ChildKnown'
    BY <1>6 DEF Waited, ownMemory, processes, files
  <1>7. ASSUME NEW r \in Runners, Timeout(r)
        PROVE  ChildKnown'
    BY <1>7 DEF Timeout, ownMemory, processes, files
  <1>8. ASSUME NEW r \in Runners, AlreadyEnded(r)
        PROVE  ChildKnown'
    BY <1>8 DEF AlreadyEnded, ownMemory, processes, files
  <1>9. ASSUME NEW r \in Runners, StillRunning(r)
        PROVE  ChildKnown'
    BY <1>9 DEF StillRunning, ownMemory, processes, files
  <1>10. ASSUME NEW r \in Runners, SigTerm(r)
        PROVE  ChildKnown'
    BY <1>10 DEF SigTerm, ownMemory, processes, files
  <1>11. ASSUME NEW r \in Runners, Grace(r)
        PROVE  ChildKnown'
    BY <1>11 DEF Grace, ownMemory, processes, files
  <1>12. ASSUME NEW r \in Runners, SigKill(r)
        PROVE  ChildKnown'
    BY <1>12 DEF SigKill, ownMemory, processes, files
  <1>13. ASSUME NEW r \in Runners, Reap(r)
        PROVE  ChildKnown'
    BY <1>13 DEF Reap, ownMemory, processes, files
  <1>14. ASSUME NEW r \in Runners, Publish(r)
        PROVE  ChildKnown'
    BY <1>14 DEF Publish, ownMemory, processes, files
  <1>15. ASSUME NEW r \in Runners, Digest(r)
        PROVE  ChildKnown'
    BY <1>15 DEF Digest, ownMemory, processes, files
  <1>16. ASSUME NEW r \in Runners, RecordAttempt(r)
        PROVE  ChildKnown'
    BY <1>16 DEF RecordAttempt, ownMemory, processes, files
  <1>17. ASSUME NEW r \in Runners, RecordStatus(r)
        PROVE  ChildKnown'
    BY <1>17 DEF RecordStatus, ownMemory, processes, files
  <1>18. ASSUME NEW r \in Runners, Collect(r)
        PROVE  ChildKnown'
    BY <1>18 DEF Collect, ownMemory, processes, files
  <1>19. ASSUME NEW r \in Runners, WriteTable(r)
        PROVE  ChildKnown'
    BY <1>19 DEF WriteTable, ownMemory, processes, files
  <1>20. ASSUME NEW r \in Runners, Unlock(r)
        PROVE  ChildKnown'
    BY <1>20 DEF Unlock, ownMemory, processes, files, Forget
  <1>21. ASSUME NEW r \in Runners, Start(r)
        PROVE  ChildKnown'
    BY <1>21 DEF Start, ownMemory, processes, files
  <1>22. ASSUME NEW r \in Runners, Refused(r)
        PROVE  ChildKnown'
    BY <1>22 DEF Refused, ownMemory, processes, files
  <1>23. ASSUME NEW r \in Runners, Signal(r)
        PROVE  ChildKnown'
    BY <1>23 DEF Signal, ownMemory, processes, files
  <1>24. ASSUME NEW r \in Runners, Abandon(r)
        PROVE  ChildKnown'
    BY <1>24 DEF Abandon, ownMemory, processes, files
  <1>25. ASSUME NEW r \in Runners, Unwind(r)
        PROVE  ChildKnown'
    BY <1>25 DEF Unwind, ownMemory, processes, files
  <1>26. ASSUME NEW r \in Runners, Kill(r)
        PROVE  ChildKnown'
    BY <1>26 DEF Kill, ownMemory, processes, files, Forget
  <1>27. ASSUME NEW r \in Runners, LeaderExits(r)
        PROVE  ChildKnown'
    BY <1>27 DEF LeaderExits, ownMemory, processes, files
  <1>28. ASSUME NEW r \in Runners, DescendantExits(r)
        PROVE  ChildKnown'
    BY <1>28 DEF DescendantExits, ownMemory, processes, files
  <1>29. ASSUME NEW r \in Runners, ParentDeath(r)
        PROVE  ChildKnown'
    BY <1>29 DEF ParentDeath, ownMemory, processes, files
  <1>30. CASE UNCHANGED runnerVars
    BY <1>30 DEF runnerVars, ownMemory, processes, files
  <1> QED
    BY <1>1, <1>2, <1>3, <1>4, <1>5, <1>6, <1>7, <1>8, <1>9, <1>10, <1>11,
       <1>12, <1>13, <1>14, <1>15, <1>16, <1>17, <1>18, <1>19, <1>20, <1>21,
       <1>22, <1>23, <1>24, <1>25, <1>26, <1>27, <1>28, <1>29, <1>30 DEF RunnerNext,
       RunnerStep, Environment

\* A runner starts a child only when its child before that one is gone, even when
\* its termination was broken off by a signal.
THEOREM EachTaskAlone == RunnerSpec => []NextTaskAlone
  <1>1. RunnerInit => ChildKnown
    BY DEF RunnerInit, ChildKnown
  <1>2. RunnerTypeOK /\ ChildKnown /\ [RunnerNext]_runnerVars => ChildKnown'
    BY StepAlone
  <1>3. ChildKnown => NextTaskAlone
    BY SMTT(30) DEF ChildKnown, NextTaskAlone, Terminating
  <1> QED
    BY <1>1, <1>2, <1>3, TypeCorrect, PTL DEF RunnerSpec

-----------------------------------------------------------------------------
(* status.json and the history of the attempts.                            *)

\* A runner has no attempt at a task it has still to look at, and while it works
\* on one the status is still that of an earlier runner.
Historical ==
    /\ StatusHasAttempt
    /\ \A r \in Runners : pc[r] = "new" => \A k \in Keys : attempts[r][k] = "none"
    /\ \A r \in Runners : pc[r] \in Inside =>
          \A t \in todo[r] : attempts[r][<<fingerprint[r], t>>] = "none"
    /\ \A r \in Runners : pc[r] \in Working =>
          /\ key[r][1] = fingerprint[r] /\ key[r][2] \notin todo[r]
          /\ status[key[r]] # None => status[key[r]].attempt # r
    /\ \A r \in Runners : pc[r] = "status" => attempts[r][key[r]] = outcome[r]

LEMMA StepHistorical ==
    RunnerTypeOK /\ Located /\ Historical /\ [RunnerNext]_runnerVars => Historical'
  <1> SUFFICES ASSUME RunnerTypeOK, Located, Historical, [RunnerNext]_runnerVars
               PROVE  Historical'
    OBVIOUS
  <1> USE NoneAssumption DEF RunnerTypeOK, Located, Historical, StatusHasAttempt, Inside,
                             Working, Terminating, Keys, Status, Ended
  <1>1. ASSUME NEW r \in Runners, Skip(r)
        PROVE  Historical'
    BY <1>1 DEF Skip, ownMemory, processes, files
  <1>2. ASSUME NEW r \in Runners, Begin(r)
        PROVE  Historical'
    <2>1. PICK t \in todo[r] :
             /\ todo' = [todo EXCEPT ![r] = @ \ {t}]
             /\ key' = [key EXCEPT ![r] = <<fingerprint[r], t>>]
             /\ attempts' = [attempts EXCEPT ![r][<<fingerprint[r], t>>] = "running"]
      BY <1>2 DEF Begin
    <2> DEFINE k == <<fingerprint[r], t>>
    <2>2. k \in Keys /\ attempts[r][k] = "none"
      BY <1>2 DEF Begin
    <2>3. \A x \in Keys : status[x] # None /\ status[x].attempt = r => x # k
      <3> SUFFICES ASSUME status[k] # None, status[k].attempt = r
                   PROVE  FALSE
        OBVIOUS
      <3>1. attempts[r][k] = status[k].state
        BY <2>2
      <3>2. status[k] \in Status
        BY <2>2
      <3> QED
        BY <3>1, <3>2, <2>2
    <2>4. StatusHasAttempt'
      BY <1>2, <2>1, <2>2, <2>3 DEF Begin, processes
    <2>5. \A q \in Runners : pc'[q] = "new" => \A x \in Keys : attempts'[q][x] = "none"
      BY <1>2, <2>1, <2>2 DEF Begin, processes
    <2>6. \A q \in Runners : pc'[q] \in Inside =>
             \A x \in todo'[q] : attempts'[q][<<fingerprint'[q], x>>] = "none"
      BY <1>2, <2>1, <2>2 DEF Begin, processes
    <2>7. \A q \in Runners : pc'[q] \in Working =>
             /\ key'[q][1] = fingerprint'[q] /\ key'[q][2] \notin todo'[q]
             /\ status'[key'[q]] # None => status'[key'[q]].attempt # q
      BY <1>2, <2>1, <2>2, <2>3 DEF Begin, processes
    <2>8. \A q \in Runners : pc'[q] = "status" => attempts'[q][key'[q]] = outcome'[q]
      BY <1>2, <2>1 DEF Begin, processes
    <2> QED
      BY <2>4, <2>5, <2>6, <2>7, <2>8
  <1>3. ASSUME NEW r \in Runners, EndLoop(r)
        PROVE  Historical'
    BY <1>3 DEF EndLoop, ownMemory, processes, files
  <1>4. ASSUME NEW r \in Runners, Spawn(r)
        PROVE  Historical'
    BY <1>4 DEF Spawn, ownMemory, processes, files
  <1>5. ASSUME NEW r \in Runners, SpawnFails(r)
        PROVE  Historical'
    BY <1>5 DEF SpawnFails, ownMemory, processes, files
  <1>6. ASSUME NEW r \in Runners, Waited(r)
        PROVE  Historical'
    BY <1>6 DEF Waited, ownMemory, processes, files
  <1>7. ASSUME NEW r \in Runners, Timeout(r)
        PROVE  Historical'
    BY <1>7 DEF Timeout, ownMemory, processes, files
  <1>8. ASSUME NEW r \in Runners, AlreadyEnded(r)
        PROVE  Historical'
    BY <1>8 DEF AlreadyEnded, ownMemory, processes, files
  <1>9. ASSUME NEW r \in Runners, StillRunning(r)
        PROVE  Historical'
    BY <1>9 DEF StillRunning, ownMemory, processes, files
  <1>10. ASSUME NEW r \in Runners, SigTerm(r)
        PROVE  Historical'
    BY <1>10 DEF SigTerm, ownMemory, processes, files
  <1>11. ASSUME NEW r \in Runners, Grace(r)
        PROVE  Historical'
    BY <1>11 DEF Grace, ownMemory, processes, files
  <1>12. ASSUME NEW r \in Runners, SigKill(r)
        PROVE  Historical'
    BY <1>12 DEF SigKill, ownMemory, processes, files
  <1>13. ASSUME NEW r \in Runners, Reap(r)
        PROVE  Historical'
    BY <1>13 DEF Reap, ownMemory, processes, files
  <1>14. ASSUME NEW r \in Runners, Publish(r)
        PROVE  Historical'
    BY <1>14 DEF Publish, ownMemory, processes, files
  <1>15. ASSUME NEW r \in Runners, Digest(r)
        PROVE  Historical'
    BY <1>15 DEF Digest, ownMemory, processes, files
  <1>16. ASSUME NEW r \in Runners, RecordAttempt(r)
        PROVE  Historical'
    BY <1>16 DEF RecordAttempt, ownMemory, processes, files
  <1>17. ASSUME NEW r \in Runners, RecordStatus(r)
        PROVE  Historical'
    BY <1>17 DEF RecordStatus, ownMemory, processes, files
  <1>18. ASSUME NEW r \in Runners, Collect(r)
        PROVE  Historical'
    BY <1>18 DEF Collect, ownMemory, processes, files
  <1>19. ASSUME NEW r \in Runners, WriteTable(r)
        PROVE  Historical'
    BY <1>19 DEF WriteTable, ownMemory, processes, files
  <1>20. ASSUME NEW r \in Runners, Unlock(r)
        PROVE  Historical'
    BY <1>20 DEF Unlock, ownMemory, processes, files, Forget
  <1>21. ASSUME NEW r \in Runners, Start(r)
        PROVE  Historical'
    BY <1>21 DEF Start, ownMemory, processes, files
  <1>22. ASSUME NEW r \in Runners, Refused(r)
        PROVE  Historical'
    BY <1>22 DEF Refused, ownMemory, processes, files
  <1>23. ASSUME NEW r \in Runners, Signal(r)
        PROVE  Historical'
    BY <1>23 DEF Signal, ownMemory, processes, files
  <1>24. ASSUME NEW r \in Runners, Abandon(r)
        PROVE  Historical'
    BY <1>24 DEF Abandon, ownMemory, processes, files
  <1>25. ASSUME NEW r \in Runners, Unwind(r)
        PROVE  Historical'
    BY <1>25 DEF Unwind, ownMemory, processes, files
  <1>26. ASSUME NEW r \in Runners, Kill(r)
        PROVE  Historical'
    BY <1>26 DEF Kill, ownMemory, processes, files, Forget
  <1>27. ASSUME NEW r \in Runners, LeaderExits(r)
        PROVE  Historical'
    BY <1>27 DEF LeaderExits, ownMemory, processes, files
  <1>28. ASSUME NEW r \in Runners, DescendantExits(r)
        PROVE  Historical'
    BY <1>28 DEF DescendantExits, ownMemory, processes, files
  <1>29. ASSUME NEW r \in Runners, ParentDeath(r)
        PROVE  Historical'
    BY <1>29 DEF ParentDeath, ownMemory, processes, files
  <1>30. CASE UNCHANGED runnerVars
    BY <1>30 DEF runnerVars, ownMemory, processes, files
  <1> QED
    BY <1>1, <1>2, <1>3, <1>4, <1>5, <1>6, <1>7, <1>8, <1>9, <1>10, <1>11,
       <1>12, <1>13, <1>14, <1>15, <1>16, <1>17, <1>18, <1>19, <1>20, <1>21,
       <1>22, <1>23, <1>24, <1>25, <1>26, <1>27, <1>28, <1>29, <1>30 DEF RunnerNext,
       RunnerStep, Environment

\* The attempt a status names is recorded as ended the way the status says.
THEOREM HistoryExplains == RunnerSpec => []StatusHasAttempt
  <1>1. RunnerInit => Historical
    BY DEF RunnerInit, Historical, StatusHasAttempt, Inside, Working, Terminating
  <1>2. RunnerTypeOK /\ Located /\ Historical /\ [RunnerNext]_runnerVars => Historical'
    BY StepHistorical
  <1>3. Historical => StatusHasAttempt
    BY DEF Historical
  <1> QED
    BY <1>1, <1>2, <1>3, TypeCorrect, PTL DEF RunnerSpec

\* Every recorded value is typed, and the attempts explain it.
THEOREM AllExplained == RunnerSpec => []Explained
  BY TypeCorrect, HistoryExplains, PTL DEF Explained

-----------------------------------------------------------------------------
(* What a runner that resumes leaves alone.                                *)

\* A runner that resumes works on no complete task: not when it begins, and not
\* once it has published, since the status is still that of another.
NothingUndone ==
    \A r \in Runners : (pc[r] \in Working /\ resume[r]) => ~Completed(key[r])

LEMMA StepUndoesNothing ==
    RunnerTypeOK /\ Located /\ Traceable /\ Historical /\ NothingUndone /\ [RunnerNext]_runnerVars
        => NothingUndone'
  <1> SUFFICES ASSUME RunnerTypeOK, Located, Traceable, Historical, NothingUndone,
                      [RunnerNext]_runnerVars
               PROVE  NothingUndone'
    OBVIOUS
  <1> USE NoneAssumption DEF RunnerTypeOK, Located, NothingUndone, Inside, Working,
                             Terminating, Completed
  <1>1. ASSUME NEW r \in Runners, Skip(r)
        PROVE  NothingUndone'
    BY <1>1 DEF Skip, ownMemory, processes, files
  <1>2. ASSUME NEW r \in Runners, Begin(r)
        PROVE  NothingUndone'
    BY <1>2 DEF Begin, ownMemory, processes, files
  <1>3. ASSUME NEW r \in Runners, EndLoop(r)
        PROVE  NothingUndone'
    BY <1>3 DEF EndLoop, ownMemory, processes, files
  <1>4. ASSUME NEW r \in Runners, Spawn(r)
        PROVE  NothingUndone'
    BY <1>4 DEF Spawn, ownMemory, processes, files
  <1>5. ASSUME NEW r \in Runners, SpawnFails(r)
        PROVE  NothingUndone'
    BY <1>5 DEF SpawnFails, ownMemory, processes, files
  <1>6. ASSUME NEW r \in Runners, Waited(r)
        PROVE  NothingUndone'
    BY <1>6 DEF Waited, ownMemory, processes, files
  <1>7. ASSUME NEW r \in Runners, Timeout(r)
        PROVE  NothingUndone'
    BY <1>7 DEF Timeout, ownMemory, processes, files
  <1>8. ASSUME NEW r \in Runners, AlreadyEnded(r)
        PROVE  NothingUndone'
    BY <1>8 DEF AlreadyEnded, ownMemory, processes, files
  <1>9. ASSUME NEW r \in Runners, StillRunning(r)
        PROVE  NothingUndone'
    BY <1>9 DEF StillRunning, ownMemory, processes, files
  <1>10. ASSUME NEW r \in Runners, SigTerm(r)
        PROVE  NothingUndone'
    BY <1>10 DEF SigTerm, ownMemory, processes, files
  <1>11. ASSUME NEW r \in Runners, Grace(r)
        PROVE  NothingUndone'
    BY <1>11 DEF Grace, ownMemory, processes, files
  <1>12. ASSUME NEW r \in Runners, SigKill(r)
        PROVE  NothingUndone'
    BY <1>12 DEF SigKill, ownMemory, processes, files
  <1>13. ASSUME NEW r \in Runners, Reap(r)
        PROVE  NothingUndone'
    BY <1>13 DEF Reap, ownMemory, processes, files
  <1>14. ASSUME NEW r \in Runners, Publish(r)
        PROVE  NothingUndone'
    <2>1. status[key[r]] # None /\ status[key[r]].state = "complete" =>
             status[key[r]].digest # r
      BY <1>14 DEF Publish, Traceable, Historical
    <2> QED
      BY <1>14, <2>1 DEF Publish, ownMemory, processes
  <1>15. ASSUME NEW r \in Runners, Digest(r)
        PROVE  NothingUndone'
    BY <1>15 DEF Digest, ownMemory, processes, files
  <1>16. ASSUME NEW r \in Runners, RecordAttempt(r)
        PROVE  NothingUndone'
    BY <1>16 DEF RecordAttempt, ownMemory, processes, files
  <1>17. ASSUME NEW r \in Runners, RecordStatus(r)
        PROVE  NothingUndone'
    BY <1>17 DEF RecordStatus, ownMemory, processes, files
  <1>18. ASSUME NEW r \in Runners, Collect(r)
        PROVE  NothingUndone'
    BY <1>18 DEF Collect, ownMemory, processes, files
  <1>19. ASSUME NEW r \in Runners, WriteTable(r)
        PROVE  NothingUndone'
    BY <1>19 DEF WriteTable, ownMemory, processes, files
  <1>20. ASSUME NEW r \in Runners, Unlock(r)
        PROVE  NothingUndone'
    BY <1>20 DEF Unlock, ownMemory, processes, files, Forget
  <1>21. ASSUME NEW r \in Runners, Start(r)
        PROVE  NothingUndone'
    BY <1>21 DEF Start, ownMemory, processes, files
  <1>22. ASSUME NEW r \in Runners, Refused(r)
        PROVE  NothingUndone'
    BY <1>22 DEF Refused, ownMemory, processes, files
  <1>23. ASSUME NEW r \in Runners, Signal(r)
        PROVE  NothingUndone'
    BY <1>23 DEF Signal, ownMemory, processes, files
  <1>24. ASSUME NEW r \in Runners, Abandon(r)
        PROVE  NothingUndone'
    BY <1>24 DEF Abandon, ownMemory, processes, files
  <1>25. ASSUME NEW r \in Runners, Unwind(r)
        PROVE  NothingUndone'
    BY <1>25 DEF Unwind, ownMemory, processes, files
  <1>26. ASSUME NEW r \in Runners, Kill(r)
        PROVE  NothingUndone'
    BY <1>26 DEF Kill, ownMemory, processes, files, Forget
  <1>27. ASSUME NEW r \in Runners, LeaderExits(r)
        PROVE  NothingUndone'
    BY <1>27 DEF LeaderExits, ownMemory, processes, files
  <1>28. ASSUME NEW r \in Runners, DescendantExits(r)
        PROVE  NothingUndone'
    BY <1>28 DEF DescendantExits, ownMemory, processes, files
  <1>29. ASSUME NEW r \in Runners, ParentDeath(r)
        PROVE  NothingUndone'
    BY <1>29 DEF ParentDeath, ownMemory, processes, files
  <1>30. CASE UNCHANGED runnerVars
    BY <1>30 DEF runnerVars, ownMemory, processes, files
  <1> QED
    BY <1>1, <1>2, <1>3, <1>4, <1>5, <1>6, <1>7, <1>8, <1>9, <1>10, <1>11,
       <1>12, <1>13, <1>14, <1>15, <1>16, <1>17, <1>18, <1>19, <1>20, <1>21,
       <1>22, <1>23, <1>24, <1>25, <1>26, <1>27, <1>28, <1>29, <1>30 DEF RunnerNext,
       RunnerStep, Environment

LEMMA StepKeeps ==
    ASSUME RunnerTypeOK, Located, NothingUndone, [RunnerNext]_runnerVars,
           NEW k \in Keys, Completed(k), ~Completed(k)'
    PROVE  \E r \in Runners : lock = r /\ ~resume[r] /\ key[r] = k
  <1> DEFINE Goal == \E r \in Runners : lock = r /\ ~resume[r] /\ key[r] = k
  <1> SUFFICES Goal
    OBVIOUS
  <1> USE DEF RunnerTypeOK, Located, NothingUndone, Inside, Working, Terminating, Completed
  <1>1. ASSUME NEW r \in Runners, Skip(r)
        PROVE  Goal
    BY <1>1 DEF Skip, ownMemory, processes, files
  <1>2. ASSUME NEW r \in Runners, Begin(r)
        PROVE  Goal
    BY <1>2 DEF Begin, ownMemory, processes, files
  <1>3. ASSUME NEW r \in Runners, EndLoop(r)
        PROVE  Goal
    BY <1>3 DEF EndLoop, ownMemory, processes, files
  <1>4. ASSUME NEW r \in Runners, Spawn(r)
        PROVE  Goal
    BY <1>4 DEF Spawn, ownMemory, processes, files
  <1>5. ASSUME NEW r \in Runners, SpawnFails(r)
        PROVE  Goal
    BY <1>5 DEF SpawnFails, ownMemory, processes, files
  <1>6. ASSUME NEW r \in Runners, Waited(r)
        PROVE  Goal
    BY <1>6 DEF Waited, ownMemory, processes, files
  <1>7. ASSUME NEW r \in Runners, Timeout(r)
        PROVE  Goal
    BY <1>7 DEF Timeout, ownMemory, processes, files
  <1>8. ASSUME NEW r \in Runners, AlreadyEnded(r)
        PROVE  Goal
    BY <1>8 DEF AlreadyEnded, ownMemory, processes, files
  <1>9. ASSUME NEW r \in Runners, StillRunning(r)
        PROVE  Goal
    BY <1>9 DEF StillRunning, ownMemory, processes, files
  <1>10. ASSUME NEW r \in Runners, SigTerm(r)
        PROVE  Goal
    BY <1>10 DEF SigTerm, ownMemory, processes, files
  <1>11. ASSUME NEW r \in Runners, Grace(r)
        PROVE  Goal
    BY <1>11 DEF Grace, ownMemory, processes, files
  <1>12. ASSUME NEW r \in Runners, SigKill(r)
        PROVE  Goal
    BY <1>12 DEF SigKill, ownMemory, processes, files
  <1>13. ASSUME NEW r \in Runners, Reap(r)
        PROVE  Goal
    BY <1>13 DEF Reap, ownMemory, processes, files
  <1>14. ASSUME NEW r \in Runners, Publish(r)
        PROVE  Goal
    BY <1>14 DEF Publish, ownMemory, processes, files
  <1>15. ASSUME NEW r \in Runners, Digest(r)
        PROVE  Goal
    BY <1>15 DEF Digest, ownMemory, processes, files
  <1>16. ASSUME NEW r \in Runners, RecordAttempt(r)
        PROVE  Goal
    BY <1>16 DEF RecordAttempt, ownMemory, processes, files
  <1>17. ASSUME NEW r \in Runners, RecordStatus(r)
        PROVE  Goal
    BY <1>17 DEF RecordStatus, ownMemory, processes, files
  <1>18. ASSUME NEW r \in Runners, Collect(r)
        PROVE  Goal
    BY <1>18 DEF Collect, ownMemory, processes, files
  <1>19. ASSUME NEW r \in Runners, WriteTable(r)
        PROVE  Goal
    BY <1>19 DEF WriteTable, ownMemory, processes, files
  <1>20. ASSUME NEW r \in Runners, Unlock(r)
        PROVE  Goal
    BY <1>20 DEF Unlock, ownMemory, processes, files, Forget
  <1>21. ASSUME NEW r \in Runners, Start(r)
        PROVE  Goal
    BY <1>21 DEF Start, ownMemory, processes, files
  <1>22. ASSUME NEW r \in Runners, Refused(r)
        PROVE  Goal
    BY <1>22 DEF Refused, ownMemory, processes, files
  <1>23. ASSUME NEW r \in Runners, Signal(r)
        PROVE  Goal
    BY <1>23 DEF Signal, ownMemory, processes, files
  <1>24. ASSUME NEW r \in Runners, Abandon(r)
        PROVE  Goal
    BY <1>24 DEF Abandon, ownMemory, processes, files
  <1>25. ASSUME NEW r \in Runners, Unwind(r)
        PROVE  Goal
    BY <1>25 DEF Unwind, ownMemory, processes, files
  <1>26. ASSUME NEW r \in Runners, Kill(r)
        PROVE  Goal
    BY <1>26 DEF Kill, ownMemory, processes, files, Forget
  <1>27. ASSUME NEW r \in Runners, LeaderExits(r)
        PROVE  Goal
    BY <1>27 DEF LeaderExits, ownMemory, processes, files
  <1>28. ASSUME NEW r \in Runners, DescendantExits(r)
        PROVE  Goal
    BY <1>28 DEF DescendantExits, ownMemory, processes, files
  <1>29. ASSUME NEW r \in Runners, ParentDeath(r)
        PROVE  Goal
    BY <1>29 DEF ParentDeath, ownMemory, processes, files
  <1>30. CASE UNCHANGED runnerVars
    BY <1>30 DEF runnerVars, ownMemory, processes, files
  <1> QED
    BY <1>1, <1>2, <1>3, <1>4, <1>5, <1>6, <1>7, <1>8, <1>9, <1>10, <1>11,
       <1>12, <1>13, <1>14, <1>15, <1>16, <1>17, <1>18, <1>19, <1>20, <1>21,
       <1>22, <1>23, <1>24, <1>25, <1>26, <1>27, <1>28, <1>29, <1>30 DEF RunnerNext,
       RunnerStep, Environment

\* Only a runner told not to resume takes a complete task back.
THEOREM CompleteStays == RunnerSpec => CompleteIsKept
  <1>1. RunnerInit => NothingUndone /\ Traceable /\ RowsCoherent /\ Historical
    BY NoneAssumption DEF RunnerInit, NothingUndone, Traceable, RowsCoherent, Historical,
       StatusHasAttempt, Inside, Working, Terminating
  <1>2. RunnerTypeOK /\ Located /\ Traceable /\ RowsCoherent /\ [RunnerNext]_runnerVars
            => Traceable' /\ RowsCoherent'
    BY StepCoherent
  <1>3. RunnerTypeOK /\ Located /\ Historical /\ [RunnerNext]_runnerVars => Historical'
    BY StepHistorical
  <1>4. RunnerTypeOK /\ Located /\ Traceable /\ Historical /\ NothingUndone /\ [RunnerNext]_runnerVars
            => NothingUndone'
    BY StepUndoesNothing
  <1>5. RunnerTypeOK /\ Located /\ NothingUndone /\ [RunnerNext]_runnerVars =>
            [\A k \in Keys : (Completed(k) /\ ~Completed(k)') =>
                \E r \in Runners : lock = r /\ ~resume[r] /\ key[r] = k]_runnerVars
    BY StepKeeps
  <1> QED
    BY <1>1, <1>2, <1>3, <1>4, <1>5, TypeCorrect, PTL DEF RunnerSpec, CompleteIsKept

-----------------------------------------------------------------------------
(* What a runner leaves behind: the four tables and the exit code.  Both   *)
(* hold because nobody else changes a result, a status or a table while    *)
(* the runner holds the lock.                                              *)

\* Until its exit code is spoilt, a runner has seen every task it need not look
\* at any more complete, but the one it works on; nothing is left when it exits.
Accounted ==
    /\ \A r \in Runners :
          (pc[r] \in {"attempt", "status"} /\ outcome[r] = "complete") =>
              result[key[r]] = r
    /\ \A r \in Runners : (pc[r] \in Inside /\ clean[r]) =>
          \A t \in Tasks : \/ t \in todo[r]
                           \/ pc[r] \in Working /\ t = key[r][2]
                           \/ Completed(<<fingerprint[r], t>>)
    /\ \A r \in Runners :
          (pc[r] \in {"collect", "write"} /\ clean[r]) =>
              IF key[r] = None THEN todo[r] = {} ELSE outcome[r] = "complete"
    /\ \A r \in Runners : (pc[r] = "unlock" /\ clean[r]) => todo[r] = {}

\* The rows a runner writes are those of what is complete, in every table it has
\* written so far.
Tabled ==
    /\ \A r \in Runners : pc[r] = "write" =>
          /\ rows[r] = CollectRows(fingerprint[r])
          /\ \A i \in 1..written[r] : tables[Places(fingerprint[r])[i]] = rows[r]
    /\ TablesCurrent

LEMMA StepAccounted ==
    RunnerTypeOK /\ Located /\ Traceable /\ Historical /\ Accounted /\ [RunnerNext]_runnerVars
        => Accounted'
  <1> SUFFICES ASSUME RunnerTypeOK, Located, Traceable, Historical, Accounted, [RunnerNext]_runnerVars
               PROVE  Accounted'
    OBVIOUS
  <1> USE NoneAssumption DEF RunnerTypeOK, Located, Accounted, Inside, Working, Terminating,
                             Completed
  <1>1. ASSUME NEW r \in Runners, Skip(r)
        PROVE  Accounted'
    <2>1. PICK t \in todo[r] :
             /\ Completed(<<fingerprint[r], t>>)
             /\ todo' = [todo EXCEPT ![r] = @ \ {t}]
      BY <1>1 DEF Skip
    <2>2. /\ todo'[r] = todo[r] \ {t}
          /\ \A q \in Runners \ {r} : todo'[q] = todo[q]
      BY <2>1
    <2>3. \A q \in Runners, x \in Tasks :
             \/ x \in todo[q] => x \in todo'[q]
             \/ q = r /\ x = t /\ Completed(<<fingerprint[q], x>>)
      BY <2>1, <2>2
    <2> QED
      BY <1>1, <2>2, <2>3 DEF Skip, processes, files
  <1>2. ASSUME NEW r \in Runners, Begin(r)
        PROVE  Accounted'
    BY <1>2 DEF Begin, ownMemory, processes, files
  <1>3. ASSUME NEW r \in Runners, EndLoop(r)
        PROVE  Accounted'
    BY <1>3 DEF EndLoop, ownMemory, processes, files
  <1>4. ASSUME NEW r \in Runners, Spawn(r)
        PROVE  Accounted'
    BY <1>4 DEF Spawn, ownMemory, processes, files
  <1>5. ASSUME NEW r \in Runners, SpawnFails(r)
        PROVE  Accounted'
    BY <1>5 DEF SpawnFails, ownMemory, processes, files
  <1>6. ASSUME NEW r \in Runners, Waited(r)
        PROVE  Accounted'
    BY <1>6 DEF Waited, ownMemory, processes, files
  <1>7. ASSUME NEW r \in Runners, Timeout(r)
        PROVE  Accounted'
    BY <1>7 DEF Timeout, ownMemory, processes, files
  <1>8. ASSUME NEW r \in Runners, AlreadyEnded(r)
        PROVE  Accounted'
    BY <1>8 DEF AlreadyEnded, ownMemory, processes, files
  <1>9. ASSUME NEW r \in Runners, StillRunning(r)
        PROVE  Accounted'
    BY <1>9 DEF StillRunning, ownMemory, processes, files
  <1>10. ASSUME NEW r \in Runners, SigTerm(r)
        PROVE  Accounted'
    BY <1>10 DEF SigTerm, ownMemory, processes, files
  <1>11. ASSUME NEW r \in Runners, Grace(r)
        PROVE  Accounted'
    BY <1>11 DEF Grace, ownMemory, processes, files
  <1>12. ASSUME NEW r \in Runners, SigKill(r)
        PROVE  Accounted'
    BY <1>12 DEF SigKill, ownMemory, processes, files
  <1>13. ASSUME NEW r \in Runners, Reap(r)
        PROVE  Accounted'
    BY <1>13 DEF Reap, ownMemory, processes, files
  <1>14. ASSUME NEW r \in Runners, Publish(r)
        PROVE  Accounted'
    BY <1>14 DEF Publish, ownMemory, processes, files
  <1>15. ASSUME NEW r \in Runners, Digest(r)
        PROVE  Accounted'
    <2>1. result[key[r]] = r
      BY <1>15 DEF Digest, Traceable
    <2> QED
      BY <1>15, <2>1 DEF Digest, processes, files
  <1>16. ASSUME NEW r \in Runners, RecordAttempt(r)
        PROVE  Accounted'
    BY <1>16 DEF RecordAttempt, ownMemory, processes, files
  <1>17. ASSUME NEW r \in Runners, RecordStatus(r)
        PROVE  Accounted'
    <2>1. PICK f \in Fingerprints, t \in Tasks : key[r] = <<f, t>>
      BY <1>17 DEF RecordStatus, Keys
    <2>2. key[r] = <<fingerprint[r], t>> /\ key[r] \in Keys /\ key[r][2] = t
      <3>1. f = fingerprint[r]
        BY <1>17, <2>1 DEF RecordStatus, Historical
      <3>2. <<f, t>>[2] = t
        OBVIOUS
      <3> QED
        BY <1>17, <2>1, <3>1, <3>2 DEF RecordStatus
    <2>3. \A q \in Runners : q # r => pc[q] \notin Inside
      BY <1>17 DEF RecordStatus
    <2>4. clean'[r] = (clean[r] /\ outcome[r] = "complete")
      BY <1>17 DEF RecordStatus
    <2>5. ASSUME clean'[r], NEW x \in Tasks, x \notin todo[r]
          PROVE  Completed(<<fingerprint[r], x>>)'
      <3>1. digest[r] = r /\ result[key[r]] = r
        BY <1>17, <2>4, <2>5 DEF RecordStatus, Traceable
      <3>2. status'[key[r]] = [state |-> outcome[r], attempt |-> r, digest |-> digest[r]]
        BY <1>17 DEF RecordStatus
      <3>3. status'[key[r]] \in Status /\ status'[key[r]] # None
        BY <1>17, <3>1, <3>2 DEF RecordStatus, Status, Ended
      <3>4. /\ status'[key[r]].state = "complete" /\ status'[key[r]].digest = r
            /\ result'[key[r]] = r
        BY <1>17, <2>4, <2>5, <3>1, <3>2 DEF RecordStatus
      <3>5. CASE x = t
        BY <1>17, <2>2, <3>3, <3>4, <3>5 DEF RecordStatus
      <3>6. CASE x # t
        <4>1. Completed(<<fingerprint[r], x>>)
          BY <1>17, <2>2, <2>4, <2>5, <3>6 DEF RecordStatus
        <4>2. <<fingerprint[r], x>> # key[r]
          BY <2>2, <3>6
        <4> QED
          BY <1>17, <4>1, <4>2 DEF RecordStatus
      <3> QED
        BY <3>5, <3>6
    <2>6. \A q \in Runners : pc'[q] \in Inside => q = r /\ pc'[q] = "collect"
      BY <1>17, <2>3 DEF RecordStatus
    <2>7. UNCHANGED <<fingerprint, todo, key, outcome>>
      BY <1>17 DEF RecordStatus
    <2>8. clean'[r] => outcome'[r] = "complete" /\ key'[r] # None
      BY <2>2, <2>4, <2>7
    <2>9. clean'[r] => \A x \in Tasks : x \in todo'[r] \/ Completed(<<fingerprint[r], x>>)'
      BY <2>5, <2>7
    <2> QED
      BY <2>6, <2>7, <2>8, <2>9
  <1>18. ASSUME NEW r \in Runners, Collect(r)
        PROVE  Accounted'
    BY <1>18 DEF Collect, ownMemory, processes, files
  <1>19. ASSUME NEW r \in Runners, WriteTable(r)
        PROVE  Accounted'
    BY <1>19 DEF WriteTable, ownMemory, processes, files
  <1>20. ASSUME NEW r \in Runners, Unlock(r)
        PROVE  Accounted'
    BY <1>20 DEF Unlock, ownMemory, processes, files, Forget
  <1>21. ASSUME NEW r \in Runners, Start(r)
        PROVE  Accounted'
    BY <1>21 DEF Start, ownMemory, processes, files
  <1>22. ASSUME NEW r \in Runners, Refused(r)
        PROVE  Accounted'
    BY <1>22 DEF Refused, ownMemory, processes, files
  <1>23. ASSUME NEW r \in Runners, Signal(r)
        PROVE  Accounted'
    BY <1>23 DEF Signal, ownMemory, processes, files
  <1>24. ASSUME NEW r \in Runners, Abandon(r)
        PROVE  Accounted'
    BY <1>24 DEF Abandon, ownMemory, processes, files
  <1>25. ASSUME NEW r \in Runners, Unwind(r)
        PROVE  Accounted'
    BY <1>25 DEF Unwind, ownMemory, processes, files
  <1>26. ASSUME NEW r \in Runners, Kill(r)
        PROVE  Accounted'
    BY <1>26 DEF Kill, ownMemory, processes, files, Forget
  <1>27. ASSUME NEW r \in Runners, LeaderExits(r)
        PROVE  Accounted'
    BY <1>27 DEF LeaderExits, ownMemory, processes, files
  <1>28. ASSUME NEW r \in Runners, DescendantExits(r)
        PROVE  Accounted'
    BY <1>28 DEF DescendantExits, ownMemory, processes, files
  <1>29. ASSUME NEW r \in Runners, ParentDeath(r)
        PROVE  Accounted'
    BY <1>29 DEF ParentDeath, ownMemory, processes, files
  <1>30. CASE UNCHANGED runnerVars
    BY <1>30 DEF runnerVars, ownMemory, processes, files
  <1> HIDE DEF RunnerTypeOK, Located, Accounted, Completed
  <1> QED
    BY <1>1, <1>2, <1>3, <1>4, <1>5, <1>6, <1>7, <1>8, <1>9, <1>10, <1>11,
       <1>12, <1>13, <1>14, <1>15, <1>16, <1>17, <1>18, <1>19, <1>20, <1>21,
       <1>22, <1>23, <1>24, <1>25, <1>26, <1>27, <1>28, <1>29, <1>30 DEF RunnerNext,
       RunnerStep, Environment

LEMMA StepTabled ==
    RunnerTypeOK /\ Located /\ Tabled /\ [RunnerNext]_runnerVars => Tabled'
  <1> SUFFICES ASSUME RunnerTypeOK, Located, Tabled, [RunnerNext]_runnerVars
               PROVE  Tabled'
    OBVIOUS
  <1> USE NoneAssumption DEF RunnerTypeOK, Located, Tabled, TablesCurrent, Inside, Working,
                             Terminating, CollectRows, Completed
  <1>1. ASSUME NEW r \in Runners, Skip(r)
        PROVE  Tabled'
    BY <1>1 DEF Skip, ownMemory, processes, files
  <1>2. ASSUME NEW r \in Runners, Begin(r)
        PROVE  Tabled'
    BY <1>2 DEF Begin, ownMemory, processes, files
  <1>3. ASSUME NEW r \in Runners, EndLoop(r)
        PROVE  Tabled'
    BY <1>3 DEF EndLoop, ownMemory, processes, files
  <1>4. ASSUME NEW r \in Runners, Spawn(r)
        PROVE  Tabled'
    BY <1>4 DEF Spawn, ownMemory, processes, files
  <1>5. ASSUME NEW r \in Runners, SpawnFails(r)
        PROVE  Tabled'
    BY <1>5 DEF SpawnFails, ownMemory, processes, files
  <1>6. ASSUME NEW r \in Runners, Waited(r)
        PROVE  Tabled'
    BY <1>6 DEF Waited, ownMemory, processes, files
  <1>7. ASSUME NEW r \in Runners, Timeout(r)
        PROVE  Tabled'
    BY <1>7 DEF Timeout, ownMemory, processes, files
  <1>8. ASSUME NEW r \in Runners, AlreadyEnded(r)
        PROVE  Tabled'
    BY <1>8 DEF AlreadyEnded, ownMemory, processes, files
  <1>9. ASSUME NEW r \in Runners, StillRunning(r)
        PROVE  Tabled'
    BY <1>9 DEF StillRunning, ownMemory, processes, files
  <1>10. ASSUME NEW r \in Runners, SigTerm(r)
        PROVE  Tabled'
    BY <1>10 DEF SigTerm, ownMemory, processes, files
  <1>11. ASSUME NEW r \in Runners, Grace(r)
        PROVE  Tabled'
    BY <1>11 DEF Grace, ownMemory, processes, files
  <1>12. ASSUME NEW r \in Runners, SigKill(r)
        PROVE  Tabled'
    BY <1>12 DEF SigKill, ownMemory, processes, files
  <1>13. ASSUME NEW r \in Runners, Reap(r)
        PROVE  Tabled'
    BY <1>13 DEF Reap, ownMemory, processes, files
  <1>14. ASSUME NEW r \in Runners, Publish(r)
        PROVE  Tabled'
    BY <1>14 DEF Publish, ownMemory, processes, files
  <1>15. ASSUME NEW r \in Runners, Digest(r)
        PROVE  Tabled'
    BY <1>15 DEF Digest, ownMemory, processes, files
  <1>16. ASSUME NEW r \in Runners, RecordAttempt(r)
        PROVE  Tabled'
    BY <1>16 DEF RecordAttempt, ownMemory, processes, files
  <1>17. ASSUME NEW r \in Runners, RecordStatus(r)
        PROVE  Tabled'
    BY <1>17 DEF RecordStatus, ownMemory, processes, files
  <1>18. ASSUME NEW r \in Runners, Collect(r)
        PROVE  Tabled'
    BY <1>18 DEF Collect, ownMemory, processes, files
  <1>19. ASSUME NEW r \in Runners, WriteTable(r)
        PROVE  Tabled'
    <2> DEFINE place == Places(fingerprint[r])
               n == written[r] + 1
    <2>1. n \in 1..4 /\ written[r] \in 0..3
      OBVIOUS
    <2>2. \A i \in 1..4 : place[i] \in Tables
      BY <1>19 DEF WriteTable, Places, Tables
    <2>3. tables' = [tables EXCEPT ![place[n]] = rows[r]]
      BY <1>19 DEF WriteTable
    <2>4. \A i \in 1..written[r] : tables[place[i]] = rows[r] /\ place[i] \in Tables
      <3>1. \A i \in 1..written[r] : i \in 1..4
        BY <2>1
      <3>2. \A i \in 1..written[r] : tables[place[i]] = rows[r]
        BY <1>19 DEF WriteTable
      <3> HIDE DEF place
      <3> QED
        BY <2>2, <3>1, <3>2
    <2> HIDE DEF place
    <2>5. \A i \in 1..n : tables'[place[i]] = rows[r]
      <3>1. tables'[place[n]] = rows[r]
        BY <2>1, <2>2, <2>3
      <3>2. ASSUME NEW i \in 1..written[r]
            PROVE  tables'[place[i]] = rows[r]
        BY <2>3, <2>4
      <3>3. \A i \in 1..n : i = n \/ i \in 1..written[r]
        BY <2>1
      <3> HIDE DEF n
      <3> QED
        BY <3>1, <3>2, <3>3
    <2>6. UNCHANGED <<status, result, fingerprint>>
      BY <1>19 DEF WriteTable
    <2>7. rows[r] = CollectRows(fingerprint[r])
      BY <1>19 DEF WriteTable
    <2>8. CollectRows(fingerprint[r])' = CollectRows(fingerprint[r])
      BY <2>6
    <2>9. \A q \in Runners : pc'[q] \in Inside => q = r
      BY <1>19 DEF WriteTable
    <2>10. Places(fingerprint[r])' = place
      BY <2>6 DEF place, Places
    <2> HIDE DEF CollectRows
    <2>11. CASE written[r] = 3
      <3>1. pc'[r] # "write" /\ n = 4
        BY <1>19, <2>11 DEF WriteTable
      <3>2. \A i \in 1..4 : tables'[Places(fingerprint[r])'[i]] = CollectRows(fingerprint[r])'
        BY <2>5, <2>7, <2>8, <2>10, <3>1
      <3> QED
        BY <2>9, <3>1, <3>2
    <2>12. CASE written[r] # 3
      <3>1. pc'[r] = "write" /\ written'[r] = n /\ rows'[r] = rows[r]
        BY <1>19, <2>12 DEF WriteTable
      <3>2. \A i \in 1..written'[r] : tables'[Places(fingerprint[r])'[i]] = rows'[r]
        BY <2>5, <2>10, <3>1
      <3> QED
        BY <2>7, <2>8, <2>9, <3>1, <3>2
    <2> QED
      BY <2>11, <2>12
  <1>20. ASSUME NEW r \in Runners, Unlock(r)
        PROVE  Tabled'
    BY <1>20 DEF Unlock, ownMemory, processes, files, Forget
  <1>21. ASSUME NEW r \in Runners, Start(r)
        PROVE  Tabled'
    BY <1>21 DEF Start, ownMemory, processes, files
  <1>22. ASSUME NEW r \in Runners, Refused(r)
        PROVE  Tabled'
    BY <1>22 DEF Refused, ownMemory, processes, files
  <1>23. ASSUME NEW r \in Runners, Signal(r)
        PROVE  Tabled'
    BY <1>23 DEF Signal, ownMemory, processes, files
  <1>24. ASSUME NEW r \in Runners, Abandon(r)
        PROVE  Tabled'
    BY <1>24 DEF Abandon, ownMemory, processes, files
  <1>25. ASSUME NEW r \in Runners, Unwind(r)
        PROVE  Tabled'
    BY <1>25 DEF Unwind, ownMemory, processes, files
  <1>26. ASSUME NEW r \in Runners, Kill(r)
        PROVE  Tabled'
    BY <1>26 DEF Kill, ownMemory, processes, files, Forget
  <1>27. ASSUME NEW r \in Runners, LeaderExits(r)
        PROVE  Tabled'
    BY <1>27 DEF LeaderExits, ownMemory, processes, files
  <1>28. ASSUME NEW r \in Runners, DescendantExits(r)
        PROVE  Tabled'
    BY <1>28 DEF DescendantExits, ownMemory, processes, files
  <1>29. ASSUME NEW r \in Runners, ParentDeath(r)
        PROVE  Tabled'
    BY <1>29 DEF ParentDeath, ownMemory, processes, files
  <1>30. CASE UNCHANGED runnerVars
    BY <1>30 DEF runnerVars, ownMemory, processes, files
  <1> HIDE DEF RunnerTypeOK, Located, Tabled, TablesCurrent, CollectRows, Completed
  <1> QED
    BY <1>1, <1>2, <1>3, <1>4, <1>5, <1>6, <1>7, <1>8, <1>9, <1>10, <1>11,
       <1>12, <1>13, <1>14, <1>15, <1>16, <1>17, <1>18, <1>19, <1>20, <1>21,
       <1>22, <1>23, <1>24, <1>25, <1>26, <1>27, <1>28, <1>29, <1>30 DEF RunnerNext,
       RunnerStep, Environment

\* A runner that leaves by itself leaves four tables that list exactly what is
\* complete, and reports success only when every task of its plan is, with any
\* number of runners before it killed at any moment.
THEOREM ExitsStayCurrent == RunnerSpec => []ExitsCurrent
  <1>1. RunnerInit => Traceable /\ RowsCoherent /\ Historical /\ Accounted /\ Tabled
    BY NoneAssumption DEF RunnerInit, Traceable, RowsCoherent, Historical, StatusHasAttempt,
       Accounted, Tabled, TablesCurrent, Inside, Working, Terminating
  <1>2. RunnerTypeOK /\ Located /\ Traceable /\ RowsCoherent /\ [RunnerNext]_runnerVars
            => Traceable' /\ RowsCoherent'
    BY StepCoherent
  <1>3. RunnerTypeOK /\ Located /\ Historical /\ [RunnerNext]_runnerVars => Historical'
    BY StepHistorical
  <1>4. RunnerTypeOK /\ Located /\ Traceable /\ Historical /\ Accounted /\ [RunnerNext]_runnerVars
            => Accounted'
    BY StepAccounted
  <1>5. RunnerTypeOK /\ Located /\ Tabled /\ [RunnerNext]_runnerVars => Tabled'
    BY StepTabled
  <1>6. Accounted /\ Tabled => ExitsCurrent
    BY DEF Accounted, Tabled, ExitsCurrent, SuccessMeansComplete, Inside, Working,
       Terminating
  <1> QED
    BY <1>1, <1>2, <1>3, <1>4, <1>5, <1>6, TypeCorrect, PTL DEF RunnerSpec

-----------------------------------------------------------------------------
(* The smoother plugin. *)

\* meshes is a table of records
Shaped ==
  /\ meshes = [object \in MeshObjects |-> meshes[object]]
  /\ \A object \in MeshObjects :
       meshes[object] = [addr |-> meshes[object].addr, cached |-> meshes[object].cached,
                       schedules |-> meshes[object].schedules]

\* The inductive invariant is the property itself, with the shape of the
\* records, without which EXCEPT says nothing.
CacheInv == Shaped /\ SchedulesCurrent

\* what GetOrCreate returns, when it is given a mesh with a current cache
LEMMA GetOrCreateCurrent ==
  ASSUME NEW object, NEW width,
         \A w \in DOMAIN object.schedules :
           object.schedules[w] = IndexKahnSchedule(object.addr, w)
  PROVE  /\ GetOrCreate(object, width) =
              [addr |-> object.addr, cached |-> TRUE,
               schedules |-> GetOrCreate(object, width).schedules]
         /\ DOMAIN GetOrCreate(object, width).schedules = DOMAIN object.schedules \cup {width}
         /\ \A w \in DOMAIN GetOrCreate(object, width).schedules :
              GetOrCreate(object, width).schedules[w] = IndexKahnSchedule(object.addr, w)
  <1> DEFINE schedules == IF width \in DOMAIN object.schedules
                            THEN object.schedules
                            ELSE Extended(object.schedules, width,
                                          IndexKahnSchedule(object.addr, width))
  <1>1. /\ DOMAIN schedules = DOMAIN object.schedules \cup {width}
        /\ \A w \in DOMAIN schedules : schedules[w] = IndexKahnSchedule(object.addr, w)
    BY DEF Extended
  <1>2. GetOrCreate(object, width) = [addr |-> object.addr, cached |-> TRUE, schedules |-> schedules]
    BY DEF GetOrCreate
  <1> HIDE DEF schedules
  <1>3. GetOrCreate(object, width).schedules = schedules
    BY <1>2
  <1> QED
    BY <1>1, <1>2, <1>3

\* an empty cache is current
LEMMA NewMeshCurrent ==
  ASSUME NEW addr
  PROVE  /\ NewMesh(addr) = [addr |-> addr, cached |-> FALSE, schedules |-> NoEntries]
         /\ DOMAIN NoEntries = {}
  BY DEF NewMesh, NoEntries

\* Fresh meshes have no cache, so nothing in one is stale.
LEMMA InitCurrent == PluginInit => CacheInv
  <1> SUFFICES ASSUME PluginInit PROVE CacheInv
    OBVIOUS
  <1>1. PICK fine \in FineAddressings, coarse \in CoarseAddressings :
          meshes = [object \in MeshObjects |-> NewMesh(IF object = "fvMesh" THEN fine ELSE coarse)]
    BY DEF PluginInit
  <1>2. \A object \in MeshObjects :
          meshes[object] = [addr |-> IF object = "fvMesh" THEN fine ELSE coarse,
                          cached |-> FALSE, schedules |-> NoEntries]
    BY <1>1, NewMeshCurrent
  <1>3. smoothers = NoEntries /\ matrices = NoEntries /\ stage = "idle"
    BY DEF PluginInit
  <1> QED
    BY <1>1, <1>2, <1>3, NewMeshCurrent
    DEF CacheInv, Shaped, SchedulesCurrent, PluginTypeOK, CacheCurrent, PointersValid

\* Steps that touch neither meshes nor smoothers.
LEMMA FrameCurrent ==
  ASSUME CacheInv, UNCHANGED <<meshes, smoothers>>,
         stage' \in {"idle", "solving", "exited"},
         stage' = "idle" => matrices' = NoEntries /\ smoothers' = NoEntries
  PROVE  CacheInv'
  BY DEF CacheInv, Shaped, SchedulesCurrent, PluginTypeOK, CacheCurrent, PointersValid

\* A new smoother adds its width to one cache and takes no entry away.
LEMMA ConstructCurrent == CacheInv /\ ConstructSmoother => CacheInv'
  <1> SUFFICES ASSUME CacheInv, ConstructSmoother PROVE CacheInv'
    OBVIOUS
  <1>1. PICK object \in MeshObjects \ DOMAIN smoothers, c \in Controls :
          /\ meshes' = IF Uses(object, c)
                         THEN [meshes EXCEPT ![object] = GetOrCreate(meshes[object], c.width)]
                         ELSE meshes
          /\ \E coeffs :
               smoothers' = Extended(smoothers, object,
                              [kind |-> c.kind, width |-> c.width,
                               useIndexKahn |-> Uses(object, c), coeffs |-> coeffs])
    BY DEF ConstructSmoother
  <1>2. PICK coeffs :
          smoothers' = Extended(smoothers, object,
                         [kind |-> c.kind, width |-> c.width,
                          useIndexKahn |-> Uses(object, c), coeffs |-> coeffs])
    BY <1>1
  <1>3. stage = "solving" /\ stage' = "solving"
    BY DEF ConstructSmoother
  <1> DEFINE cache == GetOrCreate(meshes[object], c.width)
  <1>4. /\ cache = [addr |-> meshes[object].addr, cached |-> TRUE,
                    schedules |-> cache.schedules]
        /\ DOMAIN cache.schedules = DOMAIN meshes[object].schedules \cup {c.width}
        /\ \A w \in DOMAIN cache.schedules :
             cache.schedules[w] = IndexKahnSchedule(meshes[object].addr, w)
    <2>1. \A w \in DOMAIN meshes[object].schedules :
            meshes[object].schedules[w] = IndexKahnSchedule(meshes[object].addr, w)
      BY DEF CacheInv, SchedulesCurrent, CacheCurrent
    <2> QED
      BY <2>1, GetOrCreateCurrent
  <1> HIDE DEF cache
  <1>5. /\ DOMAIN smoothers' = DOMAIN smoothers \cup {object}
        /\ smoothers'[object].width = c.width
        /\ smoothers'[object].useIndexKahn = Uses(object, c)
        /\ \A other \in DOMAIN smoothers : smoothers'[other] = smoothers[other]
    BY <1>1, <1>2 DEF Extended
  <1>6. CASE Uses(object, c)
    <2>1. meshes' = [meshes EXCEPT ![object] = cache]
      BY <1>1, <1>6 DEF cache
    <2>2. /\ meshes'[object] = cache
          /\ \A other \in MeshObjects \ {object} : meshes'[other] = meshes[other]
          /\ meshes' = [m \in MeshObjects |-> meshes'[m]]
      BY <2>1 DEF CacheInv, Shaped
    <2>3. Shaped'
      BY <1>4, <2>2 DEF CacheInv, Shaped
    <2>4. PluginTypeOK'
      BY <1>3, <1>4, <1>5, <2>2 DEF CacheInv, SchedulesCurrent, PluginTypeOK
    <2>5. CacheCurrent'
      BY <1>4, <2>2 DEF CacheInv, SchedulesCurrent, CacheCurrent
    <2>6. PointersValid'
      BY <1>4, <1>5, <2>2 DEF CacheInv, SchedulesCurrent, PluginTypeOK, PointersValid
    <2> QED
      BY <2>3, <2>4, <2>5, <2>6 DEF CacheInv, SchedulesCurrent
  <1>7. CASE ~Uses(object, c)
    <2>1. meshes' = meshes
      BY <1>1, <1>7
    <2> QED
      BY <1>3, <1>5, <1>7, <2>1
      DEF CacheInv, Shaped, SchedulesCurrent, PluginTypeOK, CacheCurrent, PointersValid
  <1> QED
    BY <1>6, <1>7

\* The coarse mesh goes with its cache, when no smoother is left.
LEMMA ReagglomerateCurrent == CacheInv /\ Reagglomerate => CacheInv'
  <1> SUFFICES ASSUME CacheInv, Reagglomerate PROVE CacheInv'
    OBVIOUS
  <1>1. PICK coarse \in CoarseAddressings :
          meshes' = [meshes EXCEPT !["lduPrimitiveMesh"] = NewMesh(coarse)]
    BY DEF Reagglomerate
  <1>2. /\ meshes' = [object \in MeshObjects |-> meshes'[object]]
        /\ meshes'["lduPrimitiveMesh"] =
             [addr |-> coarse, cached |-> FALSE, schedules |-> NoEntries]
        /\ meshes'["fvMesh"] = meshes["fvMesh"]
    BY <1>1, NewMeshCurrent DEF CacheInv, Shaped, MeshObjects
  <1>3. /\ stage = "idle" /\ UNCHANGED <<matrices, smoothers, stage>>
        /\ smoothers = NoEntries /\ matrices = NoEntries
    BY DEF Reagglomerate, CacheInv, SchedulesCurrent, PluginTypeOK
  <1> QED
    BY <1>2, <1>3, NewMeshCurrent
    DEF CacheInv, Shaped, SchedulesCurrent, PluginTypeOK, CacheCurrent, PointersValid, MeshObjects

\* Both caches go, when no smoother is left.
LEMMA ChangeTopologyCurrent == CacheInv /\ ChangeTopology => CacheInv'
  <1> SUFFICES ASSUME CacheInv, ChangeTopology PROVE CacheInv'
    OBVIOUS
  <1>1. PICK fine \in FineAddressings, coarse \in CoarseAddressings :
          meshes' = [object \in MeshObjects |->
                       IF object = "fvMesh" THEN AfterTopologyChange(meshes[object], fine)
                                          ELSE NewMesh(coarse)]
    BY DEF ChangeTopology
  <1>2. /\ meshes' = [object \in MeshObjects |-> meshes'[object]]
        /\ \A object \in MeshObjects :
             meshes'[object] = NewMesh(IF object = "fvMesh" THEN fine ELSE coarse)
    BY <1>1 DEF AfterTopologyChange
  <1>3. \A object \in MeshObjects :
          /\ meshes'[object] = [addr |-> meshes'[object].addr, cached |-> FALSE,
                              schedules |-> NoEntries]
          /\ meshes'[object].addr \in FineAddressings \cup CoarseAddressings
          /\ meshes'[object].schedules = NoEntries
    BY <1>2, NewMeshCurrent
  <1>4. /\ stage = "idle" /\ UNCHANGED <<matrices, smoothers, stage>>
        /\ smoothers = NoEntries /\ matrices = NoEntries
    BY DEF ChangeTopology, CacheInv, SchedulesCurrent, PluginTypeOK
  <1>5. Shaped'
    BY <1>2, <1>3 DEF Shaped
  <1>6. PluginTypeOK'
    <2>1. /\ smoothers' = NoEntries /\ matrices' = NoEntries /\ stage' = "idle"
          /\ DOMAIN smoothers' = {}
      BY <1>4, NewMeshCurrent
    <2> QED
      BY <1>3, <2>1 DEF PluginTypeOK
  <1>7. CacheCurrent'
    BY <1>3, NewMeshCurrent DEF CacheCurrent
  <1>8. PointersValid'
    BY <1>4, NewMeshCurrent DEF PointersValid
  <1> QED
    BY <1>5, <1>6, <1>7, <1>8 DEF CacheInv, SchedulesCurrent

\* One case per action of PluginNext.
LEMMA StepCurrent == CacheInv /\ [PluginNext]_pluginVars => CacheInv'
  <1> SUFFICES ASSUME CacheInv, [PluginNext]_pluginVars PROVE CacheInv'
    OBVIOUS
  <1>1. CASE BeginSolve
    BY <1>1, FrameCurrent DEF BeginSolve
  <1>2. CASE ConstructSmoother
    BY <1>2, ConstructCurrent
  <1>3. CASE FatalError
    BY <1>3, FrameCurrent DEF FatalError
  <1>4. ASSUME NEW object \in MeshObjects, NEW n \in 0 .. MaxSweeps, Smooth(object, n)
       PROVE  CacheInv'
    BY <1>4, FrameCurrent DEF Smooth
  <1>5. CASE EndSolve
    <2>1. /\ UNCHANGED meshes /\ stage' = "idle"
          /\ smoothers' = NoEntries /\ matrices' = NoEntries
      BY <1>5 DEF EndSolve
    <2> QED
      BY <2>1, NewMeshCurrent
      DEF CacheInv, Shaped, SchedulesCurrent, PluginTypeOK, CacheCurrent, PointersValid
  <1>6. CASE Reagglomerate
    BY <1>6, ReagglomerateCurrent
  <1>7. CASE ChangeTopology
    BY <1>7, ChangeTopologyCurrent
  <1>8. CASE Exited \/ UNCHANGED pluginVars
    BY <1>8 DEF Exited, pluginVars, CacheInv, Shaped, SchedulesCurrent, PluginTypeOK,
                CacheCurrent, PointersValid
  <1> QED
    BY <1>1, <1>2, <1>3, <1>4, <1>5, <1>6, <1>7, <1>8 DEF PluginNext

\* Whatever happens to the meshes, a smoother finds in the cache the schedule
\* it would build itself (IndexKahnScheduleCache::New, getOrCreate).
THEOREM SchedulesStayCurrent == PluginSpec => []SchedulesCurrent
  <1>1. PluginInit => CacheInv
    BY InitCurrent
  <1>2. CacheInv /\ [PluginNext]_pluginVars => CacheInv'
    BY StepCurrent
  <1>3. CacheInv => SchedulesCurrent
    BY DEF CacheInv
  <1> QED
    BY <1>1, <1>2, <1>3, PTL DEF PluginSpec
================================================================================
