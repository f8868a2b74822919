--------------------------- MODULE IndexKahnVariants ---------------------------
(***************************************************************************)
(* The experimental Index-Kahn builders.  They share counters, ready set   *)
(* and release with the production builder and differ in how a step picks  *)
(* its cells, in what order it appends them and where it ends levels.      *)
(***************************************************************************)
EXTENDS KahnFrontier

CONSTANTS
  ReadyFloor,   \* 256 in the ready-fraction builder: smallest adaptive target
  ReadyCap      \* 8192 there: largest adaptive target

VARIABLES
  active,       \* std::deque of the sliding-window builder
  frontier,     \* frontierReady of the frontier-continuing builder
  anchor,       \* where the continuing builders resume in the ready set
  diagnostics   \* what the two instrumented builders report, chunk by chunk

vars == <<frontierVars, active, frontier, anchor, diagnostics>>

Builders ==
  {"releaseDiagnostic", "oriented", "slidingWindow", "adaptiveGap",
   "readyFraction", "unbounded", "sliced", "continuing", "frontierContinuing"}

\* A request: builder, width (targetWidth, activeWidth or readyDivisor), step
\* (advanceStep), least and most (minWidth, maxWidth), sized as in IndexKahn.
ASSUME VariantRequestsAssumption ==
  \A r \in Requests :
    /\ r.builder \in Builders
    /\ r.width \in Int /\ r.step \in Int /\ r.least \in Int /\ r.most \in Int
    /\ r.sized \in BOOLEAN

ASSUME ReadyLimitsAssumption ==
  ReadyFloor \in Nat \ {0} /\ ReadyCap \in Nat /\ ReadyFloor <= ReadyCap

Builder == request.builder
Width == request.width

ValidControls ==
  CASE Builder = "unbounded"     -> TRUE
    [] Builder = "slidingWindow" ->
         Width >= 1 /\ request.step >= 1 /\ request.step <= Width
    [] Builder = "adaptiveGap"   ->
         request.least >= 1 /\ request.least <= Width /\ Width <= request.most
    [] OTHER                     -> Width >= 1

-----------------------------------------------------------------------------
(* Start: the sliding window is filled before the first step. *)

\* Mutant: refilled at the head.
RefilledInFront(window, from) ==
  Take(Ascending(from), Width - Len(window)) \o window

Refilled(window, from) == window \o Take(Ascending(from), Width - Len(window))

FirstReady == {c \in Cells : IncomingFaces(mesh, c) = {}}

FirstWindow ==
  IF Builder = "slidingWindow" THEN Refilled(<<>>, FirstReady) ELSE <<>>

Init ==
  /\ FrontierInit
  /\ active = <<>>
  /\ frontier = {}
  /\ anchor = 0
  /\ diagnostics = <<>>

RejectArguments ==
  /\ Refuse(ValidControls)
  /\ UNCHANGED <<active, frontier, anchor, diagnostics>>

Start ==
  /\ Begin(ValidControls, Range(FirstWindow))
  /\ active' = FirstWindow
  /\ UNCHANGED <<frontier, anchor, diagnostics>>

-----------------------------------------------------------------------------
(* One iteration of each builder's loop. *)

\* take current out of the ready set, append it as order, release after it
EmitFromReady(current, order, cuts) ==
  /\ ready # {}
  /\ Emit(order, cuts, (ready \ Range(current)) \cup Released(current))
  /\ UNCHANGED <<active, frontier>>

LeastOf(S) == IF S = {} THEN -1 ELSE CHOOSE c \in S : \A d \in S : c <= d

\* the released cells that go in front of the head of the ready set
Overtaking(current, left) ==
  {c \in Released(current) : left # {} /\ c < LeastOf(left)}

\* the counters collected while the chunk's successors are released
ReleaseDiagnostic(current, left) ==
  LET released == Released(current)
      before == LeastOf(left)
      after == LeastOf(left \cup released)
      last == current[Len(current)]
      overtaking == Overtaking(current, left)
  IN  [chosenChunkSize    |-> Len(current),
       headBefore         |-> before,
       headAfter          |-> after,
       cut                |-> last,
       releasedCount      |-> Cardinality(released),
       releasedBelowCut   |-> Cardinality({c \in released : c < last}),
       releasedBeforeHead |-> Cardinality(overtaking),
       headBackstep       |->
         IF left # {} /\ after >= 0 /\ after < before THEN before - after ELSE 0,
       headChanged        |-> overtaking # {}]

ReleaseDiagnosticStep ==
  LET current == Take(Ascending(ready), Width)
  IN  /\ Builder = "releaseDiagnostic"
      /\ EmitFromReady(current, current, OneLevel(current))
      /\ diagnostics' = Append(diagnostics,
           ReleaseDiagnostic(current, ready \ Range(current)))
      /\ UNCHANGED anchor

Distance(a, b) == IF a > b THEN a - b ELSE b - a

Reversed(s) == [i \in 1 .. Len(s) |-> s[Len(s) + 1 - i]]

\* turn the chunk around when its far end is nearer to the last cell appended
Oriented(current) ==
  LET previous == newToOld[Len(newToOld)]
  IN  IF /\ newToOld # <<>>
         /\ Distance(previous, current[Len(current)])
              < Distance(previous, current[1])
        THEN Reversed(current) ELSE current

OrientedStep ==
  LET current == Take(Ascending(ready), Width)
  IN  /\ Builder = "oriented"
      /\ EmitFromReady(current, Oriented(current), OneLevel(current))
      /\ UNCHANGED <<anchor, diagnostics>>

\* Mutants: the refilled cells stay in ready; the refill precedes the release.
SlidingWindowStepKeepingReady ==
  LET current == Take(active, request.step)
      left == SubSeq(active, Len(current) + 1, Len(active))
      eligible == ready \cup Released(current)
  IN  /\ Builder = "slidingWindow"
      /\ active # <<>>
      /\ active' = Refilled(left, eligible)
      /\ Emit(current, OneLevel(current), eligible)
      /\ UNCHANGED <<frontier, anchor, diagnostics>>

SlidingWindowStepRefillFirst ==
  LET current == Take(active, request.step)
      left == SubSeq(active, Len(current) + 1, Len(active))
  IN  /\ Builder = "slidingWindow"
      /\ active # <<>>
      /\ active' = Refilled(left, ready)
      /\ Emit(current, OneLevel(current),
              (ready \ Range(active')) \cup Released(current))
      /\ UNCHANGED <<frontier, anchor, diagnostics>>

\* execute the oldest advanceStep cells of the window, release, refill
SlidingWindowStep ==
  LET current == Take(active, request.step)
      left == SubSeq(active, Len(current) + 1, Len(active))
      eligible == ready \cup Released(current)
  IN  /\ Builder = "slidingWindow"
      /\ active # <<>>
      /\ active' = Refilled(left, eligible)
      /\ Emit(current, OneLevel(current), eligible \ Range(active'))
      /\ UNCHANGED <<frontier, anchor, diagnostics>>

\* candidates[cut] - candidates[cut-1] in the ascending ready set
Gap(cut) == Ascending(ready)[cut + 1] - Ascending(ready)[cut]

\* the earliest of the cuts in lo..hi before which the gap is largest
LargestGapCut(lo, hi) ==
  CHOOSE cut \in lo .. hi :
    \A other \in lo .. hi :
      Gap(other) < Gap(cut) \/ (Gap(other) = Gap(cut) /\ cut <= other)

ReadySize == Cardinality(ready)

AdaptiveGapSize ==
  IF ReadySize > request.least
    THEN LargestGapCut(request.least, AtMost(request.most, ReadySize - 1))
    ELSE AtMost(ReadySize, request.most)

AdaptiveGapStep ==
  LET current == Take(Ascending(ready), AdaptiveGapSize)
  IN  /\ Builder = "adaptiveGap"
      /\ EmitFromReady(current, current, OneLevel(current))
      /\ UNCHANGED <<anchor, diagnostics>>

AtLeast(a, b) == IF a > b THEN a ELSE b

\* std::clamp(readySize/readyDivisor, 256, 8192), or a small ready set whole
ReadyTarget ==
  IF ReadySize < ReadyFloor
    THEN ReadySize
    ELSE AtMost(AtLeast(ReadySize \div Width, ReadyFloor), ReadyCap)

SearchMin == AtLeast(1, ReadyTarget \div 2)

SearchMax == AtMost(ReadySize, 2 * ReadyTarget)

CutsReadySet == ReadySize >= ReadyFloor /\ ReadySize > SearchMin

ReadyFractionSize ==
  IF CutsReadySet
    THEN LargestGapCut(SearchMin, AtMost(SearchMax, ReadySize - 1))
    ELSE ReadySize

ReadyFractionStep ==
  LET current == Take(Ascending(ready), ReadyFractionSize)
  IN  /\ Builder = "readyFraction"
      /\ EmitFromReady(current, current, OneLevel(current))
      /\ diagnostics' = Append(diagnostics,
           [readySize       |-> ReadySize,
            targetWidth     |-> ReadyTarget,
            searchMinWidth  |-> SearchMin,
            searchMaxWidth  |-> SearchMax,
            chosenChunkSize |-> ReadyFractionSize,
            largestGap      |-> IF CutsReadySet THEN Gap(ReadyFractionSize) ELSE 0])
      /\ UNCHANGED anchor

\* the complete ready set, in one level
UnboundedStep ==
  LET current == Ascending(ready)
  IN  /\ Builder = "unbounded"
      /\ EmitFromReady(current, current, OneLevel(current))
      /\ UNCHANGED <<anchor, diagnostics>>

\* Mutants: slices are aligned with the rows of the result; the last, shorter
\* slice is forgotten.
SlicesAligned(n) ==
  LET last == Len(newToOld) + n
  IN  Ascending({r \in Len(newToOld) + 1 .. last : r % Width = 0 \/ r = last})

SlicesFull(n) ==
  [k \in 1 .. n \div Width |-> Len(newToOld) + k * Width]

\* ends of slices of n rows cut every Width of them, the last one shorter
Slices(n) ==
  LET count == (n + Width - 1) \div Width
  IN  [k \in 1 .. count |-> Len(newToOld) + AtMost(k * Width, n)]

SlicedStep ==
  LET current == Ascending(ready)
  IN  /\ Builder = "sliced"
      /\ EmitFromReady(current, current, Slices(Len(current)))
      /\ UNCHANGED <<anchor, diagnostics>>

\* iteration from lower_bound(from), continued at the beginning of the set
CyclicFrom(S, from) ==
  Ascending({c \in S : c >= from}) \o Ascending({c \in S : c < from})

\* (cells stay below the largest label, so anchor + 1 never overflows)
ContinuingStep ==
  LET current == Take(CyclicFrom(ready, anchor), Width)
  IN  /\ Builder = "continuing"
      /\ EmitFromReady(current, current, OneLevel(current))
      /\ anchor' = current[Len(current)] + 1
      /\ UNCHANGED diagnostics

\* frontierReady.swap(ready) at the head of the outer loop
FreezeFrontier ==
  /\ Builder = "frontierContinuing"
  /\ status = "building"
  /\ frontier = {}
  /\ ready # {}
  /\ frontier' = ready
  /\ ready' = {}
  /\ anchor' = LeastOf(ready)
  /\ UNCHANGED <<mesh, request, predecessors, newToOld, levelStarts, oldToNew,
                 status, active, diagnostics>>

\* Mutant: only full chunks are taken from the frontier.
FrontierContinuingFullStep ==
  LET current == Take(CyclicFrom(frontier, anchor), Width)
  IN  /\ Builder = "frontierContinuing"
      /\ frontier # {}
      /\ Len(current) = Width
      /\ Emit(current, OneLevel(current), ready \cup Released(current))
      /\ frontier' = frontier \ Range(current)
      /\ anchor' = current[Len(current)] + 1
      /\ UNCHANGED <<active, diagnostics>>

\* one chunk of the frozen frontier; successors wait for the next frontier
FrontierContinuingStep ==
  LET current == Take(CyclicFrom(frontier, anchor), Width)
  IN  /\ Builder = "frontierContinuing"
      /\ frontier # {}
      /\ Emit(current, OneLevel(current), ready \cup Released(current))
      /\ frontier' = frontier \ Range(current)
      /\ anchor' = current[Len(current)] + 1
      /\ UNCHANGED <<active, diagnostics>>

-----------------------------------------------------------------------------
\* while (!ready.empty()), while (!active.empty()) or the nested loops are over
LoopsOver ==
  IF Builder = "slidingWindow" THEN active = <<>> ELSE ready = {} /\ frontier = {}

\* the sliding-window builder also asks that no cell is left in ready
Complete == AllAppended /\ (Builder = "slidingWindow" => ready = {})

Finish ==
  /\ Return(LoopsOver, Complete)
  /\ UNCHANGED <<active, frontier, anchor, diagnostics>>

Fail ==
  /\ NotCovered(LoopsOver, Complete)
  /\ UNCHANGED <<active, frontier, anchor, diagnostics>>

Next ==
  \/ RejectArguments
  \/ Start
  \/ ReleaseDiagnosticStep
  \/ OrientedStep
  \/ SlidingWindowStep
  \/ AdaptiveGapStep
  \/ ReadyFractionStep
  \/ UnboundedStep
  \/ SlicedStep
  \/ ContinuingStep
  \/ FreezeFrontier
  \/ FrontierContinuingStep
  \/ Finish
  \/ Fail

Spec == Init /\ [][Next]_vars

FairSpec == Spec /\ WF_vars(Next)
-----------------------------------------------------------------------------
(* Properties. *)

TypeOK ==
  /\ IsAddressing(mesh)
  /\ request \in Requests
  /\ predecessors \in [Cells -> Nat]
  /\ ready \in SUBSET Cells
  /\ newToOld \in Seq(Cells)
  /\ levelStarts \in Seq(0 .. NCells)
  /\ oldToNew \in [Cells -> 0 .. NCells]
  /\ status \in {"called", "building", "returned", "rejected", "uncovered"}
  /\ active \in Seq(Cells)
  /\ frontier \in SUBSET Cells
  /\ anchor \in 0 .. NCells

\* Every builder, whatever its policy, keeps the promises of an ordering.
Ordering == INSTANCE WavefrontOrdering

Implements == Ordering!Spec

\* The cells the builder still holds -- in its ready set, its window or its
\* frozen frontier -- are the available ones, each held in one place.
HoldsAvailable ==
  status = "building" =>
    /\ ready \cup Range(active) \cup frontier = Ordering!Available
    /\ ready \cap Range(active) = {} /\ ready \cap frontier = {}
    /\ IsInjective(active)

\* The head of the ready set moves back exactly when a released cell
\* overtakes it: headChanged, counted cell by cell, agrees with headBackstep,
\* computed from the heads, and every release below the cut overtakes.
HeadDiagnosticsAgree ==
  Builder = "releaseDiagnostic" =>
    \A d \in Range(diagnostics) :
      /\ d.headChanged <=> d.headBackstep > 0
      /\ d.headChanged <=> d.headBefore >= 0 /\ d.headAfter < d.headBefore
      /\ d.headBefore >= 0 => d.releasedBelowCut <= d.releasedBeforeHead
      /\ d.releasedBeforeHead <= d.releasedCount

\* The clamp never asks for more cells than are ready, the cut stays inside
\* the search range, and only a ready set at the floor or above is split.
SearchRangeSound ==
  Builder = "readyFraction" =>
    \A d \in Range(diagnostics) :
      /\ d.targetWidth <= d.readySize
      /\ d.searchMinWidth <= d.chosenChunkSize
      /\ d.chosenChunkSize <= d.searchMaxWidth
      /\ d.chosenChunkSize < d.readySize => d.readySize >= ReadyFloor

\* Whatever structure a builder adds, its books agree with its rows, and what
\* the instrumented builders report chunk by chunk agrees with what they did.
Bookkeeping ==
  /\ TypeOK /\ CountersExact /\ HoldsAvailable /\ OldToNewInverts
  /\ HeadDiagnosticsAgree /\ SearchRangeSound

\* The level width a builder's controls guarantee as long as cells are ready.
GuaranteedWidth ==
  CASE Builder = "slidingWindow" -> request.step
    [] Builder = "adaptiveGap"   -> request.least
    [] Builder \in {"unbounded", "readyFraction"} -> 1
    [] OTHER -> Width

\* The experimental policies do not cost parallelism: Graham's bound holds
\* for the width each of them guarantees.
GrahamBound ==
  status = "returned" => WorkSpread(Len(levelStarts) - 1, GuaranteedWidth)

\* The sliding window is a queue: what has been appended and what is in the
\* window, taken together, only ever grow at the end.
WindowIsFifo ==
  [][Builder = "slidingWindow" =>
       SubSeq(newToOld' \o active', 1, Len(newToOld) + Len(active))
         = newToOld \o active]_vars

\* rows before row i that hold a cell of the same depth as row i
SameDepthBefore(i) ==
  Cardinality({j \in 1 .. i - 1 : Depth[newToOld[j]] = Depth[newToOld[i]]})

\* The unbounded, sliced and frontier-continuing builders all produce the
\* cells ordered by depth, then index; levels start with a new depth or, when
\* sliced, after Width cells of one.  The last two orderings are the same one.
NaturalFrontiers ==
  Builder \in {"unbounded", "sliced", "frontierContinuing"} =>
    /\ \A i, j \in DOMAIN newToOld : i < j =>
         \/ Depth[newToOld[i]] < Depth[newToOld[j]]
         \/ /\ Depth[newToOld[i]] = Depth[newToOld[j]]
            /\ newToOld[i] < newToOld[j]
    /\ \A i \in DOMAIN newToOld :
         i - 1 \in Range(levelStarts) <=>
           IF Builder = "unbounded"
             THEN SameDepthBefore(i) = 0
             ELSE SameDepthBefore(i) % Width = 0

\* first row (0-based) at which the cell in row i could have been appended
AvailableFrom(i) ==
  LeastOf({s \in Range(levelStarts) :
             \A f \in IncomingFaces(mesh, newToOld[i]) :
               \E j \in 1 .. s : newToOld[j] = mesh.lower[f]})

\* The continuing builder sweeps through the indices: while a cell waits in
\* the ready set the sweep returns to lower indices at most once.
WaitsOneSweep ==
  Builder = "continuing" =>
    \A i \in DOMAIN newToOld :
      Cardinality({j \in 1 .. i - 1 : /\ j >= AvailableFrom(i)
                                      /\ newToOld[j] > newToOld[j + 1]}) <= 1

\* Chunks and releases reported for a finished call account for every cell.
DiagnosticsAddUp ==
  Builder = "releaseDiagnostic" /\ status = "returned" =>
    LET Total(Count(_)) ==
          FoldFunction(+, 0, [k \in DOMAIN diagnostics |-> Count(diagnostics[k])])
    IN  /\ Total(LAMBDA d : d.chosenChunkSize) = NCells
        /\ Total(LAMBDA d : d.releasedCount) + Cardinality(FirstReady) = NCells

\* Every builder keeps to the policy it is named for: the width it guarantees,
\* the frontiers it cuts, the order it continues in, the totals it reports.
KeepsItsPolicy == GrahamBound /\ NaturalFrontiers /\ WaitsOneSweep /\ DiagnosticsAddUp

-----------------------------------------------------------------------------
(* Builders that must make the production builder's chunks. *)

\* each level of newToOld in ascending order
SortedLevels ==
  LET LevelOf(i) == {j \in DOMAIN newToOld :
                       \A s \in Range(levelStarts) : (i <= s) <=> (j <= s)}
      Sorted(i) == LET level == LevelOf(i)
                   IN  Ascending({newToOld[j] : j \in level})[i + 1 - LeastOf(level)]
  IN  [i \in 1 .. Len(newToOld) |-> Sorted(i)]

Production ==
  INSTANCE IndexKahn WITH
    ready <- ready \cup Range(active),
    newToOld <- SortedLevels,
    oldToNew <-
      [c \in Cells |->
         IF status = "returned"
           THEN (CHOOSE i \in 1 .. NCells : SortedLevels[i] = c) - 1 ELSE 0]

KeepsProductionLevels ==
  \/ Builder \in {"releaseDiagnostic", "oriented"}
  \/ Builder = "slidingWindow" /\ request.step = Width

\* Instrumenting the builder, orienting its chunks, or sliding a window by its
\* full width leaves the production builder's levels as they are: such a call
\* behaves as Production!Spec.
SameLevelsAsProduction ==
  /\ KeepsProductionLevels => Production!Init
  /\ [][KeepsProductionLevels => Production!Next \/ UNCHANGED Production!frontierVars]_vars

\* Every call comes to an end.
Terminates == <>(status \in {"returned", "rejected", "uncovered"})
================================================================================
