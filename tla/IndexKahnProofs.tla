---------------------------- MODULE IndexKahnProofs ----------------------------
(***************************************************************************)
(* The production builder is correct for every number of cells, every      *)
(* addressing and every width, and implements WavefrontOrdering.           *)
(***************************************************************************)
EXTENDS IndexKahn, KahnFrontierProofs

\* The inductive invariant.  ready = Free makes the release of successors
\* work; the width is what Start has checked.
IInv ==
  /\ FrontierOK
  /\ ready \in SUBSET Cells
  /\ levelStarts \in Seq(0 .. NCells)
  /\ status = "building" => ready = Free /\ Width >= 1
  /\ status = "returned" =>
       /\ oldToNew = [c \in Cells |-> RowOf(c)]
       /\ Emitted = Cells
  /\ status = "uncovered" => Free = {} /\ Emitted # Cells

\* The chunk is a nonempty list of ready cells.
LEMMA CurrentProperties ==
  ASSUME IInv, status = "building", ready # {}
  PROVE  /\ Current \in Seq(ready)
         /\ Current \in Seq(Cells)
         /\ IsInjective(Current)
         /\ Range(Current) \subseteq ready
         /\ Len(Current) \in 1 .. Cardinality(ready)
<1>1. ready \in SUBSET Cells /\ Width \in Int /\ Width >= 1
  BY RequestsAssumption DEF IInv, FrontierOK, Width
<1>2. Cardinality(ready) \in Nat /\ Cardinality(ready) # 0
  BY <1>1, CellsFinite, FS_CardinalityType, FS_EmptySet
<1>3. /\ Ascending(ready) \in Seq(ready)
      /\ Len(Ascending(ready)) = Cardinality(ready)
      /\ IsInjective(Ascending(ready))
      /\ Range(Ascending(ready)) = ready
  BY <1>1, AscendingProperties
<1>4. Width \in Nat
  BY <1>1
<1>5. /\ Current \in Seq(ready)
      /\ Len(Current) = AtMost(Width, Cardinality(ready))
      /\ Range(Current) \subseteq ready
      /\ IsInjective(Current)
  BY <1>3, <1>4, TakeProperties DEF Current
<1>6. Len(Current) \in 1 .. Cardinality(ready)
  BY <1>1, <1>2, <1>5 DEF AtMost
<1> QED BY <1>1, <1>5, <1>6, SeqMonotonic

\* An iteration of the loop.
LEMMA EmitChunkIInv ==
  ASSUME IInv, EmitChunk
  PROVE  IInv'
<1>1. /\ status = "building" /\ status' = "building" /\ ready # {}
      /\ request' = request
      /\ newToOld' = newToOld \o Current
      /\ levelStarts' = levelStarts \o OneLevel(Current)
      /\ ready' = (ready \ Range(Current)) \cup Released(Current)
      /\ Emit(Current, OneLevel(Current),
              (ready \ Range(Current)) \cup Released(Current))
  BY DEF EmitChunk, Emit
<1>2. /\ Current \in Seq(Cells) /\ IsInjective(Current)
      /\ Range(Current) \subseteq ready
      /\ Len(Current) \in Nat
  BY <1>1, CurrentProperties, LenProperties
<1>3. ready = Free /\ Width >= 1 /\ FrontierOK
  BY <1>1 DEF IInv
<1>4. FrontierOK' /\ Free' = (Free \ Range(Current)) \cup Released(Current)
  BY <1>1, <1>2, <1>3, EmitFrontier
<1>5. ready' = Free' /\ ready' \in SUBSET Cells
  BY <1>1, <1>3, <1>4 DEF Free, Released
<1>6. levelStarts' \in Seq(0 .. NCells)
  <2>1. newToOld' \in Seq(Cells) /\ IsInjective(newToOld')
    BY <1>4 DEF FrontierOK
  <2>2. Len(newToOld') <= NCells /\ Len(newToOld') \in Nat
    BY <2>1, InjectiveIsShort, LenProperties
  <2>3. Len(newToOld') = Len(newToOld) + Len(Current)
    BY <1>1, <1>2, <1>3, ConcatProperties DEF FrontierOK
  <2>4. Len(newToOld) + Len(Current) \in 0 .. NCells
    BY <2>2, <2>3, NCellsAssumption
  <2>5. OneLevel(Current) \in Seq(0 .. NCells)
    BY <2>4 DEF OneLevel
  <2> QED BY <1>1, <2>5, ConcatProperties DEF IInv
<1>7. Width' >= 1
  BY <1>1, <1>3 DEF Width
<1> QED BY <1>1, <1>4, <1>5, <1>6, <1>7 DEF IInv

LEMMA NextIInv == IInv /\ [Next]_frontierVars => IInv'
<1> SUFFICES ASSUME IInv, [Next]_frontierVars PROVE IInv'
  OBVIOUS
<1>1. CASE RejectArguments
  <2>1. /\ status = "called" /\ status' = "rejected"
        /\ UNCHANGED <<mesh, request, predecessors, ready, newToOld, levelStarts,
                       oldToNew>>
    BY <1>1 DEF RejectArguments, Refuse
  <2>2. FrontierOK'
    BY <2>1 DEF IInv, FrontierOK, CountersExact, Settled, Emitted, Pending
  <2> QED BY <2>1, <2>2 DEF IInv
<1>2. CASE Start
  <2>1. /\ Begin(Width >= 1, {})
        /\ Width >= 1 /\ request' = request /\ status' = "building"
        /\ levelStarts' = <<0>>
        /\ ready' = {c \in Cells : IncomingFaces(mesh, c) = {}}
    BY <1>2 DEF Start, Begin
  <2>2. FrontierOK' /\ Free' = {c \in Cells : IncomingFaces(mesh, c) = {}}
    BY <2>1, BeginFrontier DEF IInv
  <2>3. levelStarts' \in Seq(0 .. NCells)
    BY <2>1, NCellsAssumption
  <2> QED BY <2>1, <2>2, <2>3 DEF IInv, Width
<1>3. CASE EmitChunk
  BY <1>3, EmitChunkIInv
<1>4. CASE Finish
  <2>1. /\ Return(ready = {}, AllAppended) /\ AllAppended
        /\ status' = "returned" /\ ready' = ready /\ levelStarts' = levelStarts
        /\ oldToNew' = [c \in Cells |-> RowOf(c)] /\ newToOld' = newToOld
    BY <1>4 DEF Finish, Return
  <2>2. FrontierOK' /\ Emitted' = Emitted
    BY <2>1, EndFrontier DEF IInv
  <2>3. Emitted' = Cells
    BY <2>1, <2>2, AllAppendedIsAll DEF IInv
  <2>4. [c \in Cells |-> RowOf(c)]' = [c \in Cells |-> RowOf(c)]
    BY <2>1 DEF RowOf, Emitted
  <2> QED BY <2>1, <2>2, <2>3, <2>4 DEF IInv
<1>5. CASE Fail
  <2>1. /\ NotCovered(ready = {}, AllAppended) /\ ~ AllAppended /\ ready = {}
        /\ status = "building"
        /\ status' = "uncovered" /\ ready' = ready /\ levelStarts' = levelStarts
    BY <1>5 DEF Fail, NotCovered
  <2>2. FrontierOK' /\ Emitted' = Emitted /\ Free' = Free
    BY <2>1, EndFrontier DEF IInv
  <2>3. Emitted' # Cells /\ Free' = {}
    BY <2>1, <2>2, AllAppendedIsAll DEF IInv
  <2> QED BY <2>1, <2>2, <2>3 DEF IInv
<1>6. CASE UNCHANGED frontierVars
  <2>1. /\ UNCHANGED <<mesh, request, predecessors, ready, newToOld>>
        /\ UNCHANGED <<levelStarts, oldToNew, status>>
    BY <1>6 DEF frontierVars
  <2>2. Emitted' = Emitted /\ \A c : Pending(c)' = Pending(c)
    BY <2>1 DEF Emitted, Pending
  <2>3. Free' = Free /\ CountersExact' /\ Settled'
    BY <2>1, <2>2 DEF Free, CountersExact, Settled, IInv, FrontierOK
  <2>4. [c \in Cells |-> RowOf(c)]' = [c \in Cells |-> RowOf(c)]
    BY <2>1 DEF RowOf, Emitted
  <2> QED BY <2>1, <2>2, <2>3, <2>4 DEF IInv, FrontierOK, Width
<1> QED BY <1>1, <1>2, <1>3, <1>4, <1>5, <1>6 DEF Next

LEMMA InitIInv == Init => IInv
<1> SUFFICES ASSUME Init PROVE IInv
  OBVIOUS
<1>1. /\ mesh \in Meshes /\ request \in Requests
      /\ predecessors = [c \in Cells |-> 0] /\ ready = {}
      /\ newToOld = <<>> /\ levelStarts = <<>>
      /\ oldToNew = [c \in Cells |-> 0] /\ status = "called"
  BY DEF Init, FrontierInit
<1>2. newToOld \in Seq(Cells) /\ levelStarts \in Seq(0 .. NCells)
  BY <1>1, EmptySeq
<1>3. IsInjective(newToOld) /\ Settled
  BY <1>1 DEF IsInjective, Settled, Emitted, Range
<1>4. predecessors \in [Cells -> Nat] /\ oldToNew \in [Cells -> 0 .. NCells]
  BY <1>1, NCellsAssumption
<1> QED BY <1>1, <1>2, <1>3, <1>4 DEF IInv, FrontierOK, CountersExact

\* The inductive invariant holds of every reachable state.
THEOREM BuilderInvariance == Spec => []IInv
BY InitIInv, NextIInv, PTL DEF Spec

-----------------------------------------------------------------------------
\* Types: in particular no predecessor counter ever becomes negative.
THEOREM BuilderTypes == Spec => []TypeOK
<1>1. IInv => TypeOK
  BY MeshesAssumption DEF IInv, FrontierOK, TypeOK
<1> QED BY <1>1, BuilderInvariance, PTL

\* The counters are exact.
THEOREM BuilderCounters == Spec => []CountersExact
<1>1. IInv => CountersExact
  BY DEF IInv, FrontierOK
<1> QED BY <1>1, BuilderInvariance, PTL

\* oldToNew is the inverse of newToOld.
THEOREM BuilderInverse == Spec => []OldToNewInverts
<1>1. IInv => OldToNewInverts
  <2> SUFFICES ASSUME IInv, status = "returned", NEW i \in DOMAIN newToOld
               PROVE  oldToNew[newToOld[i]] = i - 1
    BY DEF OldToNewInverts
  <2>1. newToOld[i] \in Cells
    BY LenProperties DEF IInv, FrontierOK
  <2> QED BY <2>1, RowOfInverts DEF IInv
<1> QED BY <1>1, BuilderInvariance, PTL

\* The abstract builder's addressing is this one.
LEMMA SameAddressing ==
  /\ Ordering!Cells = Cells
  /\ Ordering!Emitted = Emitted
  /\ \A c : Ordering!IncomingFaces(mesh, c) = IncomingFaces(mesh, c)
  /\ \A s : Ordering!IsInjective(s) <=> IsInjective(s)
<1>1. Ordering!Cells = Cells
  BY DEF Ordering!Cells, Cells
<1>2. Ordering!Emitted = Emitted
  BY DEF Ordering!Emitted, Emitted, Ordering!Range, Range
<1>3. \A c : Ordering!IncomingFaces(mesh, c) = IncomingFaces(mesh, c)
  BY DEF Ordering!IncomingFaces, IncomingFaces, Ordering!Faces, Faces
<1>4. \A s : Ordering!IsInjective(s) <=> IsInjective(s)
  BY DEF Ordering!IsInjective, IsInjective
<1> QED BY <1>1, <1>2, <1>3, <1>4

\* Free cells are the available ones of the abstract builder.
LEMMA FreeIsAvailable == Ordering!Available = Free
BY SameAddressing DEF Ordering!Available, Free, Pending

\* The ready set is exactly the set of cells that may be appended next.
THEOREM BuilderReady == Spec => []ReadyIsAvailable
<1>1. IInv => ReadyIsAvailable
  BY FreeIsAvailable DEF IInv, ReadyIsAvailable
<1> QED BY <1>1, BuilderInvariance, PTL

-----------------------------------------------------------------------------
(* Refinement. *)

\* Counters, ready set and inverse permutation agree with the rows appended,
\* for every addressing, cyclic or not, and every targetWidth.
THEOREM BuilderBooks == Spec => []Bookkeeping
BY BuilderTypes, BuilderCounters, BuilderReady, BuilderInverse, PTL DEF Bookkeeping

\* A chunk of the builder, closed as one level, is a step of the abstract one.
LEMMA ChunkRefines ==
  ASSUME IInv, EmitChunk
  PROVE  /\ Current \in Ordering!Chunks
         /\ OneLevel(Current) \in Ordering!Cuttings(Len(newToOld), Len(Current))
         /\ Ordering!EmitLevels(Current, OneLevel(Current))
<1>1. status = "building" /\ ready # {} /\ ready = Free
  BY DEF EmitChunk, Emit, IInv
<1>2. /\ Current \in Seq(ready) /\ IsInjective(Current)
      /\ Len(Current) \in 1 .. Cardinality(ready)
  BY <1>1, CurrentProperties
<1>3. Current \in [1 .. Len(Current) -> ready]
  BY <1>2, LenProperties
<1>4. Current \in Ordering!Chunks
  <2> DEFINE n == Len(Current)
             A == Ordering!Available
  <2>1. A = ready
    BY <1>1, FreeIsAvailable
  <2>2. Current \in [1 .. n -> A]
    BY <1>3, <2>1
  <2>3. n \in 1 .. NCells
    BY <1>2, CellsFinite DEF IInv
  <2>4. Ordering!IsInjective(Current)
    BY <1>2, SameAddressing
  <2> HIDE DEF n
  <2>5. Current \in UNION {[1 .. k -> A] : k \in 1 .. NCells}
    BY <2>2, <2>3
  <2> HIDE DEF A
  <2> QED BY <2>4, <2>5 DEF Ordering!Chunks, A
<1>5. OneLevel(Current) \in Ordering!Cuttings(Len(newToOld), Len(Current))
  <2> DEFINE n == Len(Current)
             first == Len(newToOld)
             cuts == OneLevel(Current)
  <2>1. first \in Nat /\ n \in Nat /\ n >= 1
    BY <1>2, CellsFinite, LenProperties DEF IInv, FrontierOK
  <2>2. cuts = <<first + n>>
    BY DEF OneLevel
  <2> HIDE DEF n, first, cuts
  <2>3. cuts \in [1 .. 1 -> first + 1 .. first + n] /\ 1 \in 1 .. n
    BY <2>1, <2>2
  <2>4. Ordering!IsCutting(cuts, first, n)
    BY <2>1, <2>2 DEF Ordering!IsCutting
  <2>5. cuts \in Ordering!Cuttings(first, n)
    BY <2>3, <2>4, Zenon DEF Ordering!Cuttings
  <2> QED BY <2>5 DEF n, first, cuts
<1>6. Ordering!EmitLevels(Current, OneLevel(Current))
  BY DEF EmitChunk, Emit, Ordering!EmitLevels
<1> QED BY <1>4, <1>5, <1>6

\* Every behaviour of the builder is one of an abstract wavefront ordering.
THEOREM BuilderImplements == Spec => Implements
<1>1. Init => Ordering!Init
  BY DEF Init, FrontierInit, Ordering!Init
<1>2. IInv /\ [Next]_frontierVars => [Ordering!Next]_(Ordering!vars)
  <2> SUFFICES ASSUME IInv, [Next]_frontierVars
               PROVE  [Ordering!Next]_(Ordering!vars)
    OBVIOUS
  <2>1. CASE RejectArguments
    BY <2>1 DEF RejectArguments, Refuse, Ordering!Next, Ordering!Reject
  <2>2. CASE Start
    BY <2>2 DEF Start, Begin, Ordering!Next, Ordering!Accept
  <2>3. CASE EmitChunk
    BY <2>3, ChunkRefines DEF Ordering!Next
  <2>4. CASE Finish
    <3>1. AllAppended /\ status = "building" /\ status' = "returned"
          /\ UNCHANGED <<mesh, newToOld, levelStarts>>
      BY <2>4 DEF Finish, Return
    <3>2. Ordering!Emitted = Cells
      BY <3>1, AllAppendedIsAll, SameAddressing DEF IInv
    <3> QED BY <3>1, <3>2, SameAddressing DEF Ordering!Next, Ordering!Return
  <2>5. CASE Fail
    <3>1. ~ AllAppended /\ ready = {} /\ status = "building"
          /\ status' = "uncovered" /\ UNCHANGED <<mesh, newToOld, levelStarts>>
      BY <2>5 DEF Fail, NotCovered
    <3>2. Ordering!Emitted # Cells /\ Ordering!Available = {}
      BY <3>1, AllAppendedIsAll, FreeIsAvailable, SameAddressing DEF IInv
    <3> QED BY <3>1, <3>2, SameAddressing DEF Ordering!Next, Ordering!Uncovered
  <2>6. CASE UNCHANGED frontierVars
    BY <2>6 DEF frontierVars, Ordering!vars
  <2> QED BY <2>1, <2>2, <2>3, <2>4, <2>5, <2>6 DEF Next
<1> QED BY <1>1, <1>2, BuilderInvariance, PTL DEF Spec, Implements, Ordering!Spec

-----------------------------------------------------------------------------
(* Graham's bound. *)

\* The potential counts the levels that are too narrow.  The rows appended
\* must have depths, which the builder finds as it goes along.
WidthInv ==
  status \in {"building", "returned"} =>
    Width >= 1 /\ DepthsFound /\ Potential(Width, ready, {})

\* A level is as wide as asked for, or it is the whole ready set.
LEMMA CurrentIsWide ==
  ASSUME IInv, status = "building", ready # {}
  PROVE  Len(Current) = Width \/ Range(Current) = ready
<1>1. /\ ready \in SUBSET Cells /\ Width \in Nat
      /\ Cardinality(ready) \in Nat /\ IsFiniteSet(ready)
  BY CellsFinite, FS_CardinalityType, RequestsAssumption DEF IInv, FrontierOK, Width
<1> DEFINE s == Ascending(ready)
<1>2. s \in Seq(ready) /\ Len(s) = Cardinality(ready) /\ Range(s) = ready
  BY <1>1, AscendingProperties
<1>3. Len(Current) = AtMost(Width, Len(s))
  BY <1>1, <1>2, TakeProperties DEF Current
<1>4. CASE Width < Len(s)
  BY <1>3, <1>4 DEF AtMost
<1>5. CASE Len(s) <= Width
  BY <1>1, <1>2, <1>5, TakeWhole DEF Current
<1> QED BY <1>1, <1>2, <1>4, <1>5

LEMMA EmitChunkWidth ==
  ASSUME IInv, WidthInv, EmitChunk
  PROVE  WidthInv'
<1>1. /\ status = "building" /\ ready # {}
      /\ Emit(Current, OneLevel(Current),
              (ready \ Range(Current)) \cup Released(Current))
      /\ ready' = (ready \ Range(Current)) \cup Released(Current)
      /\ status' = "building" /\ Width' = Width
  BY DEF EmitChunk, Emit, Width
<1>2. /\ FrontierOK /\ ready = Free /\ DepthsFound /\ Potential(Width, ready, {})
      /\ Width \in Nat \ {0} /\ levelStarts \in Seq(Nat)
  <2>1. 0 .. NCells \subseteq Nat
    BY NCellsAssumption
  <2>2. levelStarts \in Seq(Nat)
    BY <2>1, SeqMonotonic DEF IInv
  <2> QED BY <1>1, <2>2, RequestsAssumption DEF IInv, WidthInv, FrontierOK, Width
<1>3. /\ Current \in Seq(Cells) /\ IsInjective(Current)
      /\ Range(Current) \subseteq ready /\ Len(Current) \in Nat /\ Len(Current) >= 1
  BY <1>1, CurrentProperties, CellsFinite DEF IInv
<1>4. DepthsFound'
  BY <1>1, <1>2, <1>3, EmitDepths
<1>5. OneLevel(Current) \in Seq(Nat) /\ Len(OneLevel(Current)) = 1
  <2>1. Len(newToOld) \in Nat
    BY <1>2, LenProperties DEF FrontierOK
  <2> QED BY <1>3, <2>1 DEF OneLevel
<1>6. Potential(Width, ready, {})'
  <2>1. PICK w, now, released, after :
          /\ w = Width /\ now = ready /\ released = Released(Current)
          /\ after = (ready \ Range(Current)) \cup Released(Current)
    OBVIOUS
  <2>2. Potential(w, after, {})'
    <3>1. CASE Len(Current) = Width
      <4>1. PICK rest : rest = now \ Range(Current)
        OBVIOUS
      <4>2. /\ w \in Nat \ {0} /\ w <= Len(Current) /\ Potential(w, now, {})
            /\ Range(Current) \subseteq now /\ now \subseteq Free
        BY <1>2, <1>3, <2>1, <3>1
      <4>3. Potential(w, rest \cup ({} \cup released), {})'
        BY <1>1, <1>2, <1>3, <1>5, <2>1, <4>1, <4>2, WideLevel
      <4> QED BY <2>1, <4>1, <4>3
    <3>2. CASE Range(Current) = ready
      <4>1. Len(OneLevel(Current)) * Width <= Len(Current) + Width - 1
        BY <1>2, <1>3, <1>5
      <4>2. Potential(w, {} \cup released, {})'
        BY <1>1, <1>2, <1>3, <1>5, <2>1, <3>2, <4>1, LastLevels
      <4> QED BY <2>1, <3>2, <4>2
    <3> QED BY <1>1, <3>1, <3>2, CurrentIsWide
  <2> QED BY <1>1, <2>1, <2>2 DEF Potential, Deep
<1> QED BY <1>1, <1>2, <1>4, <1>6 DEF WidthInv

LEMMA NextWidth == IInv /\ WidthInv /\ [Next]_frontierVars => WidthInv'
<1> SUFFICES ASSUME IInv, WidthInv, [Next]_frontierVars PROVE WidthInv'
  OBVIOUS
<1>1. CASE RejectArguments
  BY <1>1 DEF RejectArguments, Refuse, WidthInv
<1>2. CASE Start
  <2>1. /\ Width >= 1 /\ Width' = Width /\ mesh' = mesh /\ newToOld' = <<>>
        /\ levelStarts' = <<0>> /\ status' = "building"
        /\ ready' = {c \in Cells : IncomingFaces(mesh, c) = {}}
    BY <1>2 DEF Start, Begin, Width, IInv, FrontierOK
  <2>2. DepthsFound'
    BY <2>1, NoDepthsYet
  <2>3. Potential(Width, ready, {})'
    <3>1. PICK w, S : w = Width /\ S = {c \in Cells : IncomingFaces(mesh, c) = {}}
      OBVIOUS
    <3>2. w \in Nat
      BY <2>1, <3>1, RequestsAssumption DEF IInv, FrontierOK, Width
    <3>3. Potential(w, S, {})'
      BY <2>1, <3>1, <3>2, PotentialBegins
    <3> QED BY <2>1, <3>1, <3>3 DEF Potential, Deep
  <2> QED BY <2>1, <2>2, <2>3 DEF WidthInv
<1>3. CASE EmitChunk
  BY <1>3, EmitChunkWidth
<1>4. CASE Finish \/ Fail \/ UNCHANGED frontierVars
  <2>1. /\ mesh' = mesh /\ request' = request /\ ready' = ready
        /\ newToOld' = newToOld /\ levelStarts' = levelStarts
        /\ status' = status \/ status = "building"
    BY <1>4 DEF Finish, Fail, Return, NotCovered, frontierVars
  <2>2. /\ Depth' = Depth
        /\ \A c, g : DepthFrom(g, c)' = DepthFrom(g, c)
        /\ Emitted' = Emitted /\ Width' = Width
    BY <2>1, SameDepths DEF Emitted, Width
  <2>3. DepthsFound => DepthsFound'
    BY <2>1, <2>2 DEF DepthsFound
  <2>4. Potential(Width, ready, {}) => Potential(Width, ready, {})'
    BY <2>1, <2>2 DEF Potential, Deep
  <2> QED BY <2>1, <2>2, <2>3, <2>4 DEF WidthInv
<1> QED BY <1>1, <1>2, <1>3, <1>4 DEF Next

\* A level is narrower than targetWidth only when nothing else was ready, so a
\* returned ordering has at most (NCells + (targetWidth - 1) * depth) / targetWidth
\* levels, for every addressing and every targetWidth.
THEOREM BuilderWidth == Spec => []GrahamBound
<1>1. Init => WidthInv
  BY DEF Init, FrontierInit, WidthInv
<1>2. IInv /\ WidthInv => GrahamBound
  <2> SUFFICES ASSUME IInv, WidthInv, status = "returned"
               PROVE  WorkSpread(Len(levelStarts) - 1, Width)
    BY DEF GrahamBound
  <2>1. FrontierOK /\ Emitted = Cells /\ DepthsFound /\ Potential(Width, ready, {})
    BY DEF IInv, WidthInv
  <2>2. 0 .. NCells \subseteq Nat
    BY NCellsAssumption
  <2>3. levelStarts \in Seq(Nat)
    BY <2>2, SeqMonotonic DEF IInv
  <2>4. Width \in Nat \ {0}
    BY <2>1, RequestsAssumption DEF WidthInv, FrontierOK, Width
  <2> QED BY <2>1, <2>3, <2>4, WorkIsSpread
<1>3. IInv /\ WidthInv /\ [Next]_frontierVars => WidthInv'
  BY NextWidth
<1> QED BY <1>1, <1>2, <1>3, BuilderInvariance, PTL DEF Spec
================================================================================
