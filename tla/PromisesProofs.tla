----------------------------- MODULE PromisesProofs -----------------------------
(***************************************************************************)
(* What is promised without threads, for every number of cells and every   *)
(* addressing.  The two abstract specifications: the ordering builder's    *)
(* lists are well formed and refused exactly on cycles, and the sweeps of  *)
(* the dataflow form a wavefront that on the addressing of a mesh is never *)
(* stuck.  The serial smoothers: whatever they pack, encode, group or      *)
(* reorder, they do the arithmetic of the reference smoother.              *)
(***************************************************************************)
EXTENDS WavefrontOrdering, GaussSeidelDataflow, SerialSweep, LduAddressingTheorems

-----------------------------------------------------------------------------
(* The ordering builder. *)

\* What holds of the growing lists, whatever the status.
ListsOK ==
  /\ mesh \in Meshes
  /\ status \in Statuses
  /\ newToOld \in Seq(Cells)
  /\ IsInjective(newToOld)
  /\ levelStarts \in Seq(Nat)

\* The inductive invariant: the lists are empty before the call is accepted,
\* bracketed and separated afterwards, and a final status keeps the reason
\* for which it was entered.
IInv ==
  /\ ListsOK
  /\ status \in {"called", "rejected"} => newToOld = <<>> /\ levelStarts = <<>>
  /\ LevelsBracketRows
  /\ LevelsSeparated
  /\ status = "returned" => Emitted = Cells
  /\ status = "uncovered" => Available = {} /\ Emitted # Cells

-----------------------------------------------------------------------------
(* Chunks and cuts. *)

\* A chunk is a list of available cells without repetitions.
LEMMA ChunkProperties ==
  ASSUME NEW chunk \in Chunks
  PROVE  /\ chunk \in Seq(Cells)
         /\ IsInjective(chunk)
         /\ Range(chunk) \subseteq Available
         /\ Len(chunk) \in Nat \ {0}
<1>1. PICK k \in 1 .. NCells : chunk \in [1 .. k -> Available]
  BY DEF Chunks
<1>2. IsInjective(chunk)
  BY DEF Chunks
<1>3. Available \subseteq Cells
  BY DEF Available
<1>4. k \in Nat \ {0}
  BY NCellsAssumption
<1>5. chunk \in Seq(Available) /\ Len(chunk) = k
  BY <1>1, <1>4
<1>6. chunk \in Seq(Cells)
  BY <1>3, <1>5, SeqMonotonic
<1> QED BY <1>1, <1>2, <1>4, <1>5, <1>6 DEF Range

\* The cuts of a step are a nonempty, increasing list of rows of the chunk.
LEMMA CutProperties ==
  ASSUME NEW first \in Nat, NEW n \in Nat, NEW cuts \in Cuttings(first, n)
  PROVE  cuts \in Seq(Nat) /\ IsCutting(cuts, first, n)
<1>1. PICK k \in 1 .. n : cuts \in [1 .. k -> first + 1 .. first + n]
  BY DEF Cuttings
<1>2. cuts \in [1 .. k -> Nat] /\ k \in Nat
  BY <1>1
<1>3. cuts \in Seq(Nat)
  BY <1>2
<1> QED BY <1>3 DEF Cuttings

\* Closing levels at the cuts brackets the longer ordering.
LEMMA CutsBracket ==
  ASSUME NEW order \in Seq(Cells), NEW starts \in Seq(Nat),
         NEW chunk \in Seq(Cells), NEW cuts \in Seq(Nat),
         BracketsRows(order, starts),
         IsCutting(cuts, Len(order), Len(chunk))
  PROVE  BracketsRows(order \o chunk, starts \o cuts)
<1> DEFINE L == Len(starts)
           M == Len(cuts)
           R == Len(order)
           C == Len(chunk)
           new == starts \o cuts
<1>1. /\ new \in Seq(Nat)
      /\ Len(new) = L + M
      /\ \A i \in 1 .. L + M : new[i] = IF i <= L THEN starts[i] ELSE cuts[i - L]
      /\ L \in Nat /\ M \in Nat
      /\ DOMAIN starts = 1 .. L /\ DOMAIN cuts = 1 .. M
      /\ DOMAIN new = 1 .. L + M
  BY ConcatProperties, LenProperties
<1>2. Len(order \o chunk) = R + C /\ R \in Nat /\ C \in Nat
  BY ConcatProperties, LenProperties
<1>3. /\ L >= 1 /\ starts[1] = 0 /\ starts[L] = R
      /\ \A a, b \in 1 .. L : a < b => starts[a] < starts[b]
  <2>1. /\ starts # <<>> /\ starts[1] = 0 /\ starts[L] = R
        /\ \A a, b \in DOMAIN starts : a < b => starts[a] < starts[b]
    BY Zenon DEF BracketsRows
  <2>2. L >= 1
    BY <2>1, EmptySeq
  <2> HIDE DEF L, R
  <2> QED BY <1>1, <2>1, <2>2
<1>4. /\ M >= 1 /\ cuts[M] = R + C
      /\ \A i \in 1 .. M : cuts[i] \in R + 1 .. R + C
      /\ \A a, b \in 1 .. M : a < b => cuts[a] < cuts[b]
  <2>1. /\ cuts # <<>> /\ cuts[M] = R + C
        /\ \A i \in DOMAIN cuts : cuts[i] \in R + 1 .. R + C
        /\ \A a, b \in DOMAIN cuts : a < b => cuts[a] < cuts[b]
    BY Zenon DEF IsCutting
  <2>2. M >= 1
    BY <2>1, EmptySeq
  <2> HIDE DEF M, R, C
  <2> QED BY <1>1, <2>1, <2>2
<1>5. \A i \in 1 .. L : starts[i] \in Nat
  BY <1>1, ElementOfSeq
<1> HIDE DEF new, L, M, R, C
<1>6. \A i \in 1 .. M : cuts[i] \in Nat /\ cuts[i] > R
  BY <1>2, <1>4
<1>7. ASSUME NEW i \in 1 .. L PROVE starts[i] \in Nat /\ starts[i] <= R
  <2>1. L \in 1 .. L
    BY <1>1, <1>3
  <2>2. i < L => starts[i] < starts[L]
    BY <1>3, <2>1
  <2> QED BY <1>1, <1>2, <1>3, <1>5, <2>2
<1>8. new # <<>> /\ new[1] = 0
  <2>1. 1 \in 1 .. L + M /\ 1 <= L
    BY <1>1, <1>3
  <2>2. new[1] = 0
    BY <1>1, <1>3, <2>1
  <2>3. new # <<>>
    BY <1>1, <1>3, EmptySeq
  <2> QED BY <2>2, <2>3
<1>9. new[L + M] = R + C
  <2>1. L + M \in 1 .. L + M /\ ~ (L + M <= L) /\ L + M - L = M
    BY <1>1, <1>3, <1>4
  <2> QED BY <1>1, <1>4, <2>1
<1>10. ASSUME NEW a \in 1 .. L + M, NEW b \in 1 .. L + M, a < b
       PROVE  new[a] < new[b]
  <2>1. CASE b <= L
    <3>1. a \in 1 .. L /\ b \in 1 .. L
      BY <1>1, <1>10, <2>1
    <3>2. new[a] = starts[a] /\ new[b] = starts[b]
      BY <1>1, <3>1
    <3> QED BY <1>3, <1>10, <3>1, <3>2
  <2>2. CASE a <= L /\ b > L
    <3>1. a \in 1 .. L /\ b - L \in 1 .. M
      <4>1. L \in Nat /\ M \in Nat
        BY <1>1
      <4> QED BY <2>2, <4>1
    <3>2. new[a] = starts[a] /\ new[b] = cuts[b - L]
      <4>1. a <= L /\ ~ (b <= L)
        BY <1>1, <2>2
      <4>2. \A i \in 1 .. L + M : new[i] = IF i <= L THEN starts[i] ELSE cuts[i - L]
        BY <1>1
      <4> QED BY <4>1, <4>2, Zenon
    <3>3. starts[a] \in Nat /\ starts[a] <= R /\ cuts[b - L] \in Nat /\ cuts[b - L] > R
      BY <1>6, <1>7, <3>1
    <3> QED BY <1>2, <3>2, <3>3
  <2>3. CASE a > L
    <3>1. a - L \in 1 .. M /\ b - L \in 1 .. M /\ a - L < b - L
      <4>1. L \in Nat /\ M \in Nat
        BY <1>1
      <4> QED BY <1>10, <2>3, <4>1
    <3>2. \A i \in 1 .. L + M : ~ (i <= L) => new[i] = cuts[i - L]
      <4>1. \A i \in 1 .. L + M : new[i] = IF i <= L THEN starts[i] ELSE cuts[i - L]
        BY <1>1
      <4> QED BY <4>1, Zenon
    <3>3. ~ (a <= L) /\ ~ (b <= L)
      BY <1>1, <1>10, <2>3
    <3>4. new[a] = cuts[a - L] /\ new[b] = cuts[b - L]
      BY <3>2, <3>3, Zenon
    <3> QED BY <1>4, <3>1, <3>4
  <2> QED BY <2>1, <2>2, <2>3, <1>1
<1>11. BracketsRows(order \o chunk, new)
  BY <1>1, <1>2, <1>8, <1>9, <1>10 DEF BracketsRows
<1> QED BY <1>11 DEF new

\* Appending cells whose owners all have rows keeps the levels separated:
\* the old end of the ordering lies between them and their owners.
LEMMA ChunkSeparates ==
  ASSUME NEW m, IsAddressing(m),
         NEW order \in Seq(Cells), NEW starts \in Seq(Nat),
         NEW chunk \in Seq(Cells), NEW cuts \in Seq(Nat),
         BracketsRows(order, starts),
         SeparatesLevels(m, order, starts),
         \A c \in Range(chunk) : \A f \in IncomingFaces(m, c) :
           m.lower[f] \in Range(order)
  PROVE  SeparatesLevels(m, order \o chunk, starts \o cuts)
<1> DEFINE R == Len(order)
           L == Len(starts)
           rows == order \o chunk
           new == starts \o cuts
<1>1. /\ rows \in Seq(Cells)
      /\ Len(rows) = R + Len(chunk)
      /\ \A i \in 1 .. R + Len(chunk) :
           rows[i] = IF i <= R THEN order[i] ELSE chunk[i - R]
      /\ R \in Nat /\ Len(chunk) \in Nat
      /\ DOMAIN order = 1 .. R /\ DOMAIN chunk = 1 .. Len(chunk)
      /\ DOMAIN rows = 1 .. R + Len(chunk)
  BY ConcatProperties, LenProperties
<1>2. /\ new \in Seq(Nat)
      /\ Len(new) = L + Len(cuts)
      /\ \A b \in 1 .. L : b \in DOMAIN new /\ new[b] = starts[b]
      /\ L \in Nat /\ Len(cuts) \in Nat
      /\ DOMAIN starts = 1 .. L
  BY ConcatProperties, LenProperties
<1>3. L \in 1 .. L /\ starts[L] = R
  BY <1>2, EmptySeq DEF BracketsRows
<1> HIDE DEF rows, new, R, L
<1>4. ASSUME NEW f \in Faces(m), NEW j \in 1 .. R + Len(chunk),
             rows[j] = m.upper[f]
      PROVE  \E i \in 1 .. j - 1 :
               /\ rows[i] = m.lower[f]
               /\ \E b \in DOMAIN new : i <= new[b] /\ new[b] < j
  <2>1. CASE j <= R
    <3>1. order[j] = m.upper[f] /\ j \in DOMAIN order
      BY <1>1, <1>4, <2>1
    <3>2. PICK i \in 1 .. j - 1 :
            /\ order[i] = m.lower[f]
            /\ \E b \in DOMAIN starts : i <= starts[b] /\ starts[b] < j
      BY <3>1 DEF SeparatesLevels
    <3>3. i \in 1 .. R + Len(chunk) /\ i <= R
      BY <1>1, <2>1, <3>2
    <3>4. rows[i] = m.lower[f]
      BY <1>1, <3>2, <3>3
    <3>5. PICK b \in 1 .. L : i <= starts[b] /\ starts[b] < j
      BY <1>2, <3>2
    <3>6. b \in DOMAIN new /\ new[b] = starts[b]
      BY <1>2, <3>5
    <3> QED BY <3>2, <3>4, <3>5, <3>6
  <2>2. CASE j > R
    <3>1. j - R \in DOMAIN chunk /\ chunk[j - R] = m.upper[f]
      BY <1>1, <1>4, <2>2
    <3>2. m.upper[f] \in Range(chunk) /\ f \in IncomingFaces(m, m.upper[f])
      BY <1>4, <3>1 DEF Range, IncomingFaces
    <3>3. m.lower[f] \in Range(order)
      BY <3>2
    <3>4. PICK i \in 1 .. R : order[i] = m.lower[f]
      BY <1>1, <3>3 DEF Range
    <3>5. i \in 1 .. j - 1 /\ i \in 1 .. R + Len(chunk) /\ i <= R
      BY <1>1, <2>2, <3>4
    <3>6. rows[i] = m.lower[f]
      BY <1>1, <3>4, <3>5
    <3>7. L \in DOMAIN new /\ new[L] = R
      BY <1>2, <1>3
    <3>8. i <= new[L] /\ new[L] < j
      BY <2>2, <3>4, <3>7
    <3> QED BY <3>5, <3>6, <3>7, <3>8
  <2> QED BY <2>1, <2>2, <1>1
<1>5. SeparatesLevels(m, rows, new)
  BY <1>1, <1>4 DEF SeparatesLevels
<1> QED BY <1>5 DEF rows, new

-----------------------------------------------------------------------------
(* The invariant is inductive. *)

LEMMA InitIInv == Init => IInv
<1> SUFFICES ASSUME Init PROVE IInv
  OBVIOUS
<1> USE DEF Init
<1>1. ListsOK
  BY EmptySeq DEF ListsOK, Statuses, IsInjective
<1>2. LevelsSeparated
  BY DEF LevelsSeparated, SeparatesLevels
<1> QED BY <1>1, <1>2 DEF IInv, LevelsBracketRows

\* a step that appends a chunk
LEMMA EmitLevelsIInv ==
  ASSUME IInv, NEW chunk \in Chunks,
         NEW cuts \in Cuttings(Len(newToOld), Len(chunk)),
         EmitLevels(chunk, cuts)
  PROVE  IInv'
<1>1. /\ status = "building" /\ status' = "building" /\ mesh' = mesh
      /\ newToOld' = newToOld \o chunk /\ levelStarts' = levelStarts \o cuts
  BY DEF EmitLevels
<1>2. /\ chunk \in Seq(Cells) /\ IsInjective(chunk)
      /\ Range(chunk) \subseteq Available
      /\ Len(chunk) \in Nat \ {0}
  BY ChunkProperties
<1>3. newToOld \in Seq(Cells) /\ levelStarts \in Seq(Nat) /\ IsInjective(newToOld)
  BY DEF IInv, ListsOK
<1>4. Len(newToOld) \in Nat
  BY <1>3, LenProperties
<1>5. cuts \in Seq(Nat) /\ IsCutting(cuts, Len(newToOld), Len(chunk))
  BY <1>2, <1>4, CutProperties
<1>6. IsAddressing(mesh)
  BY MeshesAssumption DEF IInv, ListsOK
<1>7. BracketsRows(newToOld, levelStarts)
  BY <1>1 DEF IInv, LevelsBracketRows
<1>8. ListsOK'
  <2>1. newToOld' \in Seq(Cells) /\ levelStarts' \in Seq(Nat)
    BY <1>1, <1>2, <1>3, <1>5, ConcatProperties
  <2>2. Range(newToOld) \cap Range(chunk) = {}
    BY <1>2 DEF Available, Emitted
  <2>3. IsInjective(newToOld')
    BY <1>1, <1>2, <1>3, <2>2, InjectiveConcat
  <2> QED BY <1>1, <2>1, <2>3 DEF IInv, ListsOK
<1>9. LevelsBracketRows'
  BY <1>1, <1>2, <1>3, <1>5, <1>7, CutsBracket DEF LevelsBracketRows
<1>10. LevelsSeparated'
  <2>1. \A c \in Range(chunk) : \A f \in IncomingFaces(mesh, c) :
          mesh.lower[f] \in Range(newToOld)
    BY <1>2 DEF Available, Emitted
  <2>2. SeparatesLevels(mesh, newToOld, levelStarts)
    BY DEF IInv, LevelsSeparated
  <2>3. SeparatesLevels(mesh, newToOld \o chunk, levelStarts \o cuts)
    BY <1>2, <1>3, <1>5, <1>6, <1>7, <2>1, <2>2, ChunkSeparates
  <2> QED BY <1>1, <2>3 DEF LevelsSeparated
<1> QED BY <1>1, <1>8, <1>9, <1>10 DEF IInv

LEMMA NextIInv == IInv /\ [Next]_vars => IInv'
<1> SUFFICES ASSUME IInv, [Next]_vars PROVE IInv'
  OBVIOUS
<1>1. CASE Reject
  BY <1>1 DEF Reject, IInv, ListsOK, Statuses, LevelsBracketRows, LevelsSeparated
<1>2. CASE Accept
  <2>1. newToOld' = <<>> /\ levelStarts' = <<0>> /\ status' = "building" /\ mesh' = mesh
    BY <1>2 DEF Accept, IInv
  <2>2. ListsOK'
    BY <2>1, EmptySeq DEF IInv, ListsOK, Statuses, IsInjective
  <2>3. LevelsBracketRows'
    BY <2>1 DEF LevelsBracketRows, BracketsRows
  <2>4. LevelsSeparated'
    BY <2>1 DEF LevelsSeparated, SeparatesLevels
  <2> QED BY <2>1, <2>2, <2>3, <2>4 DEF IInv
<1>3. CASE \E chunk \in Chunks :
             \E cuts \in Cuttings(Len(newToOld), Len(chunk)) : EmitLevels(chunk, cuts)
  BY <1>3, EmitLevelsIInv
<1>4. CASE Return
  BY <1>4 DEF Return, IInv, ListsOK, Statuses, LevelsBracketRows, LevelsSeparated,
              Emitted
<1>5. CASE Uncovered
  BY <1>5 DEF Uncovered, IInv, ListsOK, Statuses, LevelsBracketRows,
              LevelsSeparated, Emitted, Available
<1>6. CASE UNCHANGED vars
  BY <1>6 DEF vars, IInv, ListsOK, LevelsBracketRows, LevelsSeparated, Emitted,
              Available
<1> QED BY <1>1, <1>2, <1>3, <1>4, <1>5, <1>6 DEF Next

\* The inductive invariant holds of every reachable state.
THEOREM Invariance == Spec => []IInv
BY InitIInv, NextIInv, PTL DEF Spec

-----------------------------------------------------------------------------
(* The promises follow from it. *)

\* Every list of the builder stays in its type: in particular there are never
\* more rows than cells and no level starts beyond them.
THEOREM TypeCorrect == Spec => []TypeOK
<1>1. IInv => TypeOK
  <2> SUFFICES ASSUME IInv PROVE TypeOK
    OBVIOUS
  <2>1. /\ IsAddressing(mesh)
        /\ newToOld \in Seq(Cells)
        /\ levelStarts \in Seq(Nat)
        /\ status \in Statuses
    BY MeshesAssumption DEF IInv, ListsOK
  <2>2. Len(newToOld) \in Nat /\ Len(newToOld) <= NCells
    BY <2>1, InjectiveIsShort, LenProperties DEF IInv, ListsOK
  <2>3. ASSUME NEW i \in 1 .. Len(levelStarts)
        PROVE  levelStarts[i] \in 0 .. NCells
    <3>1. levelStarts # <<>> /\ Len(levelStarts) \in Nat /\ levelStarts[i] \in Nat
          /\ DOMAIN levelStarts = 1 .. Len(levelStarts)
      BY <2>1, <2>3, LenProperties, ElementOfSeq
    <3>2. BracketsRows(newToOld, levelStarts)
      BY <2>1, <3>1 DEF IInv, LevelsBracketRows, Statuses
    <3>3. levelStarts[Len(levelStarts)] = Len(newToOld)
      BY <3>2 DEF BracketsRows
    <3>4. i < Len(levelStarts) => levelStarts[i] < levelStarts[Len(levelStarts)]
      BY <3>1, <3>2 DEF BracketsRows
    <3> QED BY <2>2, <3>1, <3>3, <3>4, NCellsAssumption
  <2>4. levelStarts \in Seq(0 .. NCells)
    <3>1. levelStarts \in [1 .. Len(levelStarts) -> 0 .. NCells]
          /\ Len(levelStarts) \in Nat
      BY <2>1, <2>3, LenProperties
    <3> QED BY <3>1, FunctionIsSeq
  <2> QED BY <2>1, <2>4 DEF TypeOK
<1> QED BY <1>1, Invariance, PTL

\* Cells of one level never depend on each other.
THEOREM SeparationCorrect == Spec => []LevelsSeparated
<1>1. IInv => LevelsSeparated
  BY DEF IInv
<1> QED BY <1>1, Invariance, PTL

\* No cell has two rows, and a returned ordering is a permutation.
THEOREM PermutationCorrect == Spec => []EachCellOnce
<1>1. IInv => EachCellOnce
  BY DEF IInv, ListsOK, EachCellOnce
<1> QED BY <1>1, Invariance, PTL

\* Level starts bracket the rows at every moment of the construction.
THEOREM BracketsCorrect == Spec => []LevelsBracketRows
<1>1. IInv => LevelsBracketRows
  BY DEF IInv
<1> QED BY <1>1, Invariance, PTL

\* "did not cover all cells" is reported for cyclic addressings only: the
\* cells left over wait for each other.
THEOREM UncoveredCorrect == Spec => []UncoveredOnlyOnCycle
<1>1. IInv => UncoveredOnlyOnCycle
  <2> SUFFICES ASSUME IInv, status = "uncovered" PROVE HasCycle(mesh)
    BY DEF UncoveredOnlyOnCycle
  <2> DEFINE S == Cells \ Emitted
  <2>1. Available = {} /\ Emitted # Cells
    BY DEF IInv
  <2>2. Emitted \subseteq Cells
    <3>1. newToOld \in [1 .. Len(newToOld) -> Cells]
      BY LenProperties DEF IInv, ListsOK
    <3> QED BY <3>1 DEF Emitted, Range
  <2>3. S \in SUBSET Cells /\ S # {}
    BY <2>1, <2>2
  <2>4. ASSUME NEW c \in S
        PROVE  \E f \in IncomingFaces(mesh, c) : mesh.lower[f] \in S
    <3>1. PICK f \in IncomingFaces(mesh, c) : mesh.lower[f] \notin Emitted
      BY <2>1 DEF Available
    <3>2. mesh.lower \in Seq(Cells) /\ f \in 1 .. Len(mesh.lower)
      BY MeshesAssumption DEF IInv, ListsOK, IsAddressing, IncomingFaces, Faces
    <3>3. mesh.lower[f] \in Cells
      BY <3>2, ElementOfSeq
    <3> QED BY <3>1, <3>3
  <2> HIDE DEF S
  <2> QED BY <2>3, <2>4 DEF HasCycle
<1> QED BY <1>1, Invariance, PTL

\* An ordering is never returned for a cyclic addressing.
THEOREM CyclesRefused == Spec => []NoOrderOnCycle
<1>1. IInv => NoOrderOnCycle
  <2> SUFFICES ASSUME IInv, status = "returned" PROVE ~ HasCycle(mesh)
    BY DEF NoOrderOnCycle
  <2>1. IsAddressing(mesh) /\ newToOld \in Seq(Cells)
    BY MeshesAssumption DEF IInv, ListsOK
  <2>2. Range(newToOld) = Cells /\ SeparatesLevels(mesh, newToOld, levelStarts)
    BY DEF IInv, Emitted, LevelsSeparated
  <2> QED BY <2>1, <2>2, OrderedIsAcyclic
<1> QED BY <1>1, Invariance, PTL

\* On the addressing of a mesh every cell is covered.
THEOREM MeshesCovered == Spec => []MeshesAreCovered
<1>1. IInv /\ UncoveredOnlyOnCycle => MeshesAreCovered
  BY MeshesAssumption, UpperTriangularIsAcyclic
     DEF MeshesAreCovered, UncoveredOnlyOnCycle, IInv, ListsOK
<1> QED BY <1>1, Invariance, UncoveredCorrect, PTL

\* The three together: the lists of a builder are well formed at every moment.
THEOREM WellFormedness == Spec => []WellFormed
BY TypeCorrect, PermutationCorrect, BracketsCorrect, PTL DEF WellFormed

\* Refusal and dependency cycles go together.
THEOREM Refusals == Spec => []RefusesExactlyCycles
BY UncoveredCorrect, CyclesRefused, MeshesCovered, PTL DEF RefusesExactlyCycles

-----------------------------------------------------------------------------
(* The sweeps of the dataflow. *)

\* Staggered is inductive once the types are known.
SweepIInv ==
  /\ addressing \in Meshes
  /\ nSweeps \in SweepCounts
  /\ sweeps \in [Cells -> 0 .. nSweeps]
  /\ Staggered

\* a face joins cells
LEMMA FaceEnds ==
  ASSUME IsAddressing(addressing), NEW f \in Faces(addressing)
  PROVE  addressing.lower[f] \in Cells /\ addressing.upper[f] \in Cells
BY ElementOfSeq DEF IsAddressing, Faces

\* An update keeps the two ends of every face within one sweep.
LEMMA UpdateSweepIInv ==
  ASSUME SweepIInv, NEW c \in Cells, Update(c)
  PROVE  SweepIInv'
<1>1. IsAddressing(addressing) /\ nSweeps \in Nat
  BY MeshesAssumption, SweepCountsAssumption DEF SweepIInv
<1>2. /\ addressing' = addressing /\ nSweeps' = nSweeps
      /\ sweeps' = [sweeps EXCEPT ![c] = sweeps[c] + 1]
      /\ sweeps[c] < nSweeps
      /\ \A f \in Faces(addressing) : addressing.upper[f] = c => sweeps[addressing.lower[f]] = sweeps[c] + 1
      /\ \A f \in Faces(addressing) : addressing.lower[f] = c => sweeps[addressing.upper[f]] = sweeps[c]
  BY DEF Update, Fed, LowerFaces, UpperFaces, IncomingFaces, OwnedFaces
<1>3. sweeps \in [Cells -> 0 .. nSweeps]
  BY DEF SweepIInv
<1>4. sweeps' \in [Cells -> 0 .. nSweeps]
  BY <1>1, <1>2, <1>3
<1>5. ASSUME NEW f \in Faces(addressing)
      PROVE  /\ sweeps'[addressing.upper[f]] <= sweeps'[addressing.lower[f]]
             /\ sweeps'[addressing.lower[f]] <= sweeps'[addressing.upper[f]] + 1
  <2> DEFINE l == addressing.lower[f]
             u == addressing.upper[f]
  <2>1. l \in Cells /\ u \in Cells
    BY <1>1, FaceEnds
  <2>2. sweeps[u] <= sweeps[l] /\ sweeps[l] <= sweeps[u] + 1
    BY DEF SweepIInv, Staggered
  <2>3. u = c => sweeps[l] = sweeps[c] + 1
    BY <1>2
  <2>4. l = c => sweeps[u] = sweeps[c]
    BY <1>2
  <2>5. sweeps[l] \in Nat /\ sweeps[u] \in Nat /\ sweeps[c] \in Nat
    BY <1>1, <1>3, <2>1
  <2> HIDE DEF l, u
  <2>6. /\ sweeps'[l] = IF l = c THEN sweeps[c] + 1 ELSE sweeps[l]
        /\ sweeps'[u] = IF u = c THEN sweeps[c] + 1 ELSE sweeps[u]
    BY <1>2, <1>3, <2>1
  <2>7. sweeps'[u] <= sweeps'[l] /\ sweeps'[l] <= sweeps'[u] + 1
    BY <2>2, <2>3, <2>4, <2>5, <2>6
  <2> QED BY <2>7 DEF l, u
<1> QED BY <1>2, <1>4, <1>5 DEF SweepIInv, Staggered

\* Every reachable state satisfies the inductive invariant.
THEOREM DataflowInvariance == SweepSpec => []SweepIInv
<1>1. SweepInit => SweepIInv
  <2> SUFFICES ASSUME SweepInit PROVE SweepIInv
    OBVIOUS
  <2>1. IsAddressing(addressing) /\ nSweeps \in Nat
    BY MeshesAssumption, SweepCountsAssumption DEF SweepInit
  <2>2. sweeps \in [Cells -> 0 .. nSweeps]
    BY <2>1 DEF SweepInit
  <2>3. Staggered
    BY <2>1, FaceEnds DEF SweepInit, Staggered
  <2> QED BY <2>2, <2>3 DEF SweepInit, SweepIInv
<1>2. SweepIInv /\ [SweepNext]_sweepVars => SweepIInv'
  <2> SUFFICES ASSUME SweepIInv, [SweepNext]_sweepVars PROVE SweepIInv'
    OBVIOUS
  <2>1. CASE SweepNext
    BY <2>1, UpdateSweepIInv DEF SweepNext
  <2>2. CASE UNCHANGED sweepVars
    BY <2>2 DEF sweepVars, SweepIInv, Staggered
  <2> QED BY <2>1, <2>2
<1> QED BY <1>1, <1>2, PTL DEF SweepSpec

\* The two ends of a face are never more than one sweep apart.
THEOREM StaggeredCorrect == SweepSpec => []Staggered
<1>1. SweepIInv => Staggered
  BY DEF SweepIInv
<1> QED BY <1>1, DataflowInvariance, PTL

\* Sweeps overlap as a wavefront only, and none is done that was not asked for.
THEOREM OverlapCorrect == SweepSpec => []Overlap
<1>1. SweepIInv => SweepTypeOK
  BY MeshesAssumption DEF SweepIInv, SweepTypeOK
<1> QED BY <1>1, DataflowInvariance, StaggeredCorrect, PTL DEF Overlap

\* On an upper-triangular addressing, among the cells that have done the
\* fewest sweeps, the one of least index can be updated.
THEOREM NeverStuckCorrect == SweepSpec => []NeverStuck
<1>1. SweepIInv => NeverStuck
  <2> SUFFICES ASSUME SweepIInv, UpperTriangular(addressing), ~ AllSwept
               PROVE  \E c \in Cells : Fed(c)
    BY DEF NeverStuck
  <2>1. IsAddressing(addressing) /\ nSweeps \in Nat
    BY MeshesAssumption, SweepCountsAssumption DEF SweepIInv
  <2>2. sweeps \in [Cells -> 0 .. nSweeps]
    BY DEF SweepIInv
  <2>3. PICK b \in Cells : sweeps[b] # nSweeps
    BY DEF AllSwept
  <2> DEFINE counts == {sweeps[d] : d \in Cells}
  <2>4. counts \in SUBSET Nat /\ counts # {}
    BY <2>1, <2>2, <2>3
  <2>5. PICK s \in counts : \A k \in counts : s <= k
    BY <2>4, LeastNatural
  <2> DEFINE fewest == {d \in Cells : sweeps[d] = s}
  <2>6. fewest \in SUBSET Nat /\ fewest # {}
    BY NCellsAssumption DEF Cells
  <2>7. PICK c \in fewest : \A d \in fewest : c <= d
    BY <2>6, LeastNatural
  <2>8. c \in Cells /\ sweeps[c] = s /\ s \in Nat
    BY <2>4, <2>7
  <2>9. \A d \in Cells : sweeps[d] \in Nat /\ s <= sweeps[d]
    BY <2>1, <2>2, <2>5
  <2>10. \A d \in Cells : sweeps[d] = s => ~ (d < c)
    BY <2>6, <2>7 DEF Cells
  <2>11. s < nSweeps
    BY <2>1, <2>2, <2>3, <2>9
  <2> HIDE DEF counts, fewest
  <2>12. ASSUME NEW f \in LowerFaces(c)
         PROVE  sweeps[addressing.lower[f]] = s + 1
    <3>1. f \in Faces(addressing) /\ addressing.upper[f] = c
      BY DEF LowerFaces, IncomingFaces
    <3>2. addressing.lower[f] \in Cells /\ addressing.lower[f] < c
      BY <2>1, <3>1, FaceEnds DEF UpperTriangular
    <3>3. sweeps[addressing.lower[f]] <= s + 1
      BY <2>8, <3>1 DEF SweepIInv, Staggered
    <3>4. sweeps[addressing.lower[f]] # s
      BY <2>10, <3>2
    <3> QED BY <2>8, <2>9, <3>2, <3>3, <3>4
  <2>13. ASSUME NEW f \in UpperFaces(c)
         PROVE  sweeps[addressing.upper[f]] = s
    <3>1. f \in Faces(addressing) /\ addressing.lower[f] = c
      BY DEF UpperFaces, OwnedFaces
    <3>2. addressing.upper[f] \in Cells
      BY <2>1, <3>1, FaceEnds
    <3>3. sweeps[addressing.upper[f]] <= s
      BY <2>8, <3>1 DEF SweepIInv, Staggered
    <3> QED BY <2>8, <2>9, <3>2, <3>3
  <2> QED BY <2>8, <2>11, <2>12, <2>13 DEF Fed
<1> QED BY <1>1, DataflowInvariance, PTL

-----------------------------------------------------------------------------
(* Packed rows. *)

\* the recursions that RowStarts and Joined are defined by
StartStep(st, rows, r) == IF r = 0 THEN 0 ELSE st[r - 1] + Len(rows[r])
JoinStep(j, rows, r) == IF r = 0 THEN <<>> ELSE j[r - 1] \o rows[r]

\* Rows start at 0, and each where the one before it ends.
LEMMA RowStartsIs ==
  ASSUME NEW n \in Nat, NEW E, NEW rows \in [1 .. n -> Seq(E)], NEW s, s = RowStarts(rows)
  PROVE  /\ s \in [1 .. n + 1 -> Nat] /\ s[1] = 0
         /\ \A r \in 1 .. n : s[r + 1] = s[r] + Len(rows[r])
<1> DEFINE Solves(st) == st = [r \in 0 .. n |-> StartStep(st, rows, r)]
           length == [r \in 1 .. n |-> Len(rows[r])]
           count == [r \in 0 .. n |-> SlotCount(1 .. r, length)]
           it == CHOOSE st : Solves(st)
<1>1. Len(rows) = n /\ \A r \in 1 .. n : Len(rows[r]) \in Nat /\ length[r] = Len(rows[r])
  <2>1. Len(rows) = n
    BY FunctionIsSeq
  <2> QED BY <2>1, LenProperties
<1>2. s = [r \in 1 .. n + 1 |-> it[r - 1]]
  BY <1>1 DEF RowStarts, StartStep
<1>3. ASSUME NEW r \in 1 .. n
      PROVE  SlotCount(1 .. r, length) = SlotCount(1 .. (r - 1), length) + Len(rows[r])
  <2> DEFINE U == 1 .. (r - 1)
  <2>1. U \cup {r} = 1 .. r /\ r \notin U /\ r - 1 \in Nat
    OBVIOUS
  <2>2. IsFiniteSet(U)
    BY <2>1, OneTo
  <2>3. \A x \in U \cup {r} : length[x] \in Nat
    BY <1>1
  <2>4. \A x \in U : length[x] \in Nat
    BY <2>3
  <2> HIDE DEF U, length
  <2>5. IsFiniteSet(Slots(U, length))
    BY <2>2, <2>4, SlotsFinite
  <2>6. SlotCount(U \cup {r}, length) = SlotCount(U, length) + length[r]
    BY <2>1, <2>2, <2>3, <2>5, SlotsAdd, Zenon
  <2>7. SlotCount(1 .. r, length) = SlotCount(U, length) + length[r]
    BY <2>1, <2>6, Zenon
  <2> QED BY <1>1, <2>7 DEF U
<1>4. \A r \in 0 .. n : SlotCount(1 .. r, length) \in Nat
  <2> SUFFICES ASSUME NEW r \in 0 .. n PROVE SlotCount(1 .. r, length) \in Nat
    OBVIOUS
  <2>1. IsFiniteSet(1 .. r) /\ \A x \in 1 .. r : length[x] \in Nat
    BY <1>1, OneTo
  <2> HIDE DEF length
  <2> QED BY <2>1, SlotsFinite
<1>5. Solves(count)
  <2>1. ASSUME NEW r \in 0 .. n PROVE count[r] = StartStep(count, rows, r)
    <3>1. CASE r = 0
      <4>1. 1 .. 0 = {}
        OBVIOUS
      <4>2. SlotCount(1 .. 0, length) = 0
        <5> HIDE DEF length
        <5> QED BY <4>1, SlotsEmpty, Zenon
      <4> QED BY <3>1, <4>2 DEF StartStep
    <3>2. CASE r # 0
      <4>1. r \in 1 .. n /\ r - 1 \in 0 .. n
        BY <3>2
      <4> HIDE DEF length
      <4> QED BY <1>3, <3>2, <4>1 DEF StartStep
    <3> QED BY <3>1, <3>2
  <2>2. count = [r \in 0 .. n |-> count[r]]
    OBVIOUS
  <2> HIDE DEF count
  <2> QED BY <2>1, <2>2
<1>6. Solves(it)
  <2> HIDE DEF count
  <2> QED BY <1>5
<1> HIDE DEF it
<1>7. it[0] = 0 /\ \A r \in 1 .. n : it[r] = it[r - 1] + Len(rows[r])
  <2>1. \A r \in 0 .. n : it[r] = StartStep(it, rows, r)
    BY <1>6
  <2> QED BY <2>1 DEF StartStep
<1> DEFINE good == {k \in Nat : k <= n => it[k] \in Nat}
<1>8. \A k \in Nat : k \in good
  <2>1. 0 \in good
    BY <1>7
  <2>2. ASSUME NEW k \in Nat, k \in good PROVE k + 1 \in good
    <3> SUFFICES ASSUME k + 1 <= n PROVE it[k + 1] \in Nat
      OBVIOUS
    <3>1. k + 1 \in 1 .. n /\ k + 1 - 1 = k /\ it[k] \in Nat
      BY <2>2
    <3> QED BY <1>1, <1>7, <3>1
  <2> HIDE DEF good
  <2> QED BY <2>1, <2>2, NumberInduction
<1>9. \A r \in 1 .. n + 1 : s[r] = it[r - 1] /\ it[r - 1] \in Nat
  BY <1>2, <1>8
<1>10. \A r \in 1 .. n : s[r + 1] = s[r] + Len(rows[r])
  <2> SUFFICES ASSUME NEW r \in 1 .. n PROVE s[r + 1] = s[r] + Len(rows[r])
    OBVIOUS
  <2>1. s[r + 1] = it[r] /\ s[r] = it[r - 1]
    BY <1>2
  <2> QED BY <1>7, <2>1
<1> QED BY <1>2, <1>7, <1>9, <1>10

RowsStand(rows, joined, n, s) ==
  /\ Len(joined) = s[n + 1]
  /\ \A r \in 1 .. n : s[r] + Len(rows[r]) <= s[n + 1]
  /\ \A r \in 1 .. n : \A i \in 1 .. Len(rows[r]) : joined[s[r] + i] = rows[r][i]

\* An entry of a row stands in the joined list where its row starts.
LEMMA JoinedIs ==
  ASSUME NEW n \in Nat, NEW E, NEW rows \in [1 .. n -> Seq(E)], NEW s, s = RowStarts(rows)
  PROVE  RowsStand(rows, Joined(rows), n, s)
<1> DEFINE Solves(j, k) == j = [r \in 0 .. k |-> JoinStep(j, rows, r)]
           it == CHOOSE j : Solves(j, n)
<1>1. Len(rows) = n /\ \A r \in 1 .. n : rows[r] \in Seq(E) /\ Len(rows[r]) \in Nat
  <2>1. Len(rows) = n
    BY FunctionIsSeq
  <2> QED BY <2>1, LenProperties
<1>2. Joined(rows) = it[n]
  BY <1>1 DEF Joined, JoinStep
<1>3. \A k \in Nat : \E j : Solves(j, k)
  <2> DEFINE good == {k \in Nat : \E j : Solves(j, k)}
  <2>1. 0 \in good
    <3> DEFINE j == [r \in 0 .. 0 |-> <<>>]
    <3>1. Solves(j, 0)
      BY DEF JoinStep
    <3> HIDE DEF j
    <3> QED BY <3>1
  <2>2. ASSUME NEW k \in Nat, k \in good PROVE k + 1 \in good
    <3>1. PICK j : Solves(j, k)
      BY <2>2
    <3> DEFINE h == [r \in 0 .. k + 1 |-> JoinStep(j, rows, r)]
    <3>2. \A r \in 0 .. k : h[r] = j[r]
      <4>1. \A r \in 0 .. k : j[r] = JoinStep(j, rows, r) /\ r \in 0 .. k + 1
        BY <3>1
      <4> QED BY <4>1
    <3>3. ASSUME NEW r \in 0 .. k + 1 PROVE JoinStep(j, rows, r) = JoinStep(h, rows, r)
      <4>1. CASE r = 0
        BY <4>1 DEF JoinStep
      <4>2. CASE r # 0
        <5>1. r - 1 \in 0 .. k
          BY <4>2
        <5>2. h[r - 1] = j[r - 1]
          BY <3>2, <5>1
        <5> HIDE DEF h
        <5> QED BY <4>2, <5>2 DEF JoinStep
      <4> QED BY <4>1, <4>2
    <3>4. Solves(h, k + 1)
      BY <3>3
    <3> HIDE DEF h
    <3> QED BY <3>4
  <2>3. \A k \in Nat : k \in good
    <3> HIDE DEF good
    <3> QED BY <2>1, <2>2, NumberInduction
  <2> QED BY <2>3
<1>4. Solves(it, n)
  BY <1>3
<1> HIDE DEF it
<1>5. it[0] = <<>> /\ \A r \in 1 .. n : it[r] = it[r - 1] \o rows[r]
  <2>1. \A r \in 0 .. n : it[r] = JoinStep(it, rows, r)
    BY <1>4
  <2>2. it[0] = <<>>
    BY <2>1 DEF JoinStep
  <2>3. ASSUME NEW r \in 1 .. n PROVE it[r] = it[r - 1] \o rows[r]
    <3>1. r \in 0 .. n /\ r # 0
      OBVIOUS
    <3>2. it[r] = JoinStep(it, rows, r)
      BY <2>1, <3>1
    <3> QED BY <3>1, <3>2, Zenon DEF JoinStep
  <2> QED BY <2>2, <2>3
<1>6. /\ s \in [1 .. n + 1 -> Nat] /\ s[1] = 0
      /\ \A r \in 1 .. n : s[r + 1] = s[r] + Len(rows[r])
  BY RowStartsIs
<1> DEFINE Upto(k) == /\ it[k] \in Seq(E) /\ Len(it[k]) = s[k + 1]
                      /\ \A r \in 1 .. k : s[r] + Len(rows[r]) <= s[k + 1]
                      /\ \A r \in 1 .. k : \A i \in 1 .. Len(rows[r]) : it[k][s[r] + i] = rows[r][i]
           good == {k \in Nat : k <= n => Upto(k)}
<1>7. 0 \in good
  <2>1. it[0] \in Seq(E) /\ Len(it[0]) = 0
    BY <1>5
  <2> QED BY <1>6, <2>1
<1>8. ASSUME NEW k \in Nat, k \in good PROVE k + 1 \in good
  <2> SUFFICES ASSUME k + 1 <= n PROVE Upto(k + 1)
    <3> HIDE DEF Upto
    <3> QED OBVIOUS
  <2> DEFINE m == k + 1
  <2>1. Upto(k) /\ m = k + 1 /\ m \in 1 .. n /\ m \in 1 .. n + 1 /\ m + 1 \in 1 .. n + 1 /\ m - 1 = k
    <3>1. k <= n /\ (k <= n => Upto(k))
      BY <1>8
    <3> HIDE DEF Upto
    <3> QED BY <3>1
  <2>2. it[m] = it[k] \o rows[m] /\ rows[m] \in Seq(E) /\ Len(rows[m]) \in Nat
    BY <1>1, <1>5, <2>1
  <2>3. s[m + 1] = s[m] + Len(rows[m]) /\ s[m] \in Nat /\ s[m + 1] \in Nat
    BY <1>6, <2>1
  <2> DEFINE a == it[k]
             b == rows[m]
             c == it[m]
  <2>4. a \in Seq(E) /\ Len(a) = s[m] /\ b \in Seq(E) /\ c = a \o b
    BY <2>1, <2>2
  <2> HIDE DEF a, b, c, m, Upto, good
  <2>5. /\ c \in Seq(E) /\ Len(c) = Len(a) + Len(b)
        /\ \A i \in 1 .. Len(a) + Len(b) : c[i] = IF i <= Len(a) THEN a[i] ELSE b[i - Len(a)]
    BY <2>4, ConcatProperties
  <2>6. Len(c) = s[m + 1] /\ Len(b) = Len(rows[m])
    BY <2>3, <2>4, <2>5 DEF b
  <2>7. \A r \in 1 .. m : s[r] + Len(rows[r]) <= s[m + 1]
    <3> SUFFICES ASSUME NEW r \in 1 .. m PROVE s[r] + Len(rows[r]) <= s[m + 1]
      OBVIOUS
    <3>1. CASE r = m
      BY <2>3, <3>1
    <3>2. CASE r # m
      <4>1. r \in 1 .. k /\ r \in 1 .. n /\ r \in 1 .. n + 1
        BY <2>1, <3>2
      <4>2. s[r] + Len(rows[r]) <= s[m] /\ s[r] \in Nat /\ Len(rows[r]) \in Nat
        BY <1>1, <1>6, <2>1, <4>1 DEF Upto
      <4> QED BY <2>2, <2>3, <4>2
    <3> QED BY <3>1, <3>2
  <2>8. ASSUME NEW r \in 1 .. m, NEW i \in 1 .. Len(rows[r]) PROVE c[s[r] + i] = rows[r][i]
    <3>1. CASE r = m
      <4>1. PICK j \in Int : j = s[m] + i
        BY <2>3
      <4>2. i \in Int /\ 1 <= i /\ i <= Len(b) /\ Len(b) \in Nat /\ Len(a) = s[m]
        BY <2>2, <2>4, <2>6, <3>1
      <4>4. j \in 1 .. Len(a) + Len(b) /\ ~(j <= Len(a)) /\ j - Len(a) = i
        BY <2>3, <4>1, <4>2
      <4>3. c[j] = b[i]
        BY <2>5, <4>4
      <4> QED BY <3>1, <4>1, <4>3 DEF b
    <3>2. CASE r # m
      <4>1. r \in 1 .. k /\ r \in 1 .. n /\ r \in 1 .. n + 1
        BY <2>1, <3>2
      <4>2. s[r] + Len(rows[r]) <= s[m] /\ s[r] \in Nat /\ Len(rows[r]) \in Nat
        BY <1>1, <1>6, <2>1, <4>1 DEF Upto
      <4>3. PICK j \in Int : j = s[r] + i
        BY <4>2
      <4>4. j \in 1 .. Len(a) + Len(b) /\ j <= Len(a)
        <5>1. i \in Int /\ 1 <= i /\ i <= Len(rows[r]) /\ Len(b) \in Nat /\ Len(a) = s[m]
          BY <2>2, <2>4, <2>6, <4>2
        <5> QED BY <2>3, <4>2, <4>3, <5>1, SMTT(30)
      <4>5. c[j] = a[j]
        BY <2>5, <4>4
      <4>6. a[j] = rows[r][i]
        BY <2>1, <4>1, <4>3 DEF a, Upto
      <4> QED BY <4>3, <4>5, <4>6
    <3> QED BY <3>1, <3>2
  <2> QED BY <2>5, <2>6, <2>7, <2>8 DEF c, m, Upto
<1>9. \A k \in Nat : k \in good
  <2> HIDE DEF good
  <2> QED BY <1>7, <1>8, NumberInduction
<1>10. Upto(n)
  <2> HIDE DEF Upto
  <2> QED BY <1>9
<1> QED BY <1>2, <1>10 DEF RowsStand

Entry(m) == [face : Faces(m), side : {"lower", "upper"}, col : Cells]
NLower(m, c) == Cardinality(IncomingFaces(m, c))
NUpper(m, c) == Cardinality(OwnedFaces(m, {c}))

\* The faces of an addressing are finitely many numbers.
LEMMA FaceFacts ==
  ASSUME NEW m, IsAddressing(m)
  PROVE  /\ Len(m.lower) \in Nat
         /\ IsFiniteSet(Faces(m)) /\ Faces(m) \subseteq Int
         /\ \A f \in Faces(m) : m.lower[f] \in Cells /\ m.upper[f] \in Cells
         /\ \A S \in SUBSET Faces(m) : IsFiniteSet(S) /\ \A x \in S : x \in Int
<1>1. Len(m.lower) \in Nat /\ Len(m.upper) = Len(m.lower)
  BY LenProperties DEF IsAddressing
<1>2. IsFiniteSet(Faces(m)) /\ Faces(m) \subseteq Int
  BY <1>1, OneTo DEF Faces
<1>3. \A f \in Faces(m) : m.lower[f] \in Cells /\ m.upper[f] \in Cells
  BY <1>1, ElementOfSeq DEF IsAddressing, Faces
<1>4. \A S \in SUBSET Faces(m) : IsFiniteSet(S) /\ \A x \in S : x \in Int
  BY <1>2, FS_Subset
<1> QED BY <1>1, <1>2, <1>3, <1>4

\* The faces a cell owns, in ascending order.
LEMMA OutgoingIs ==
  ASSUME NEW m, IsAddressing(m), NEW c \in Cells, NEW o, o = Outgoing(m, c)
  PROVE  /\ NUpper(m, c) \in Nat
         /\ o \in Seq(Entry(m)) /\ Len(o) = NUpper(m, c)
         /\ \A i \in 1 .. NUpper(m, c) :
              /\ o[i] = FromNeighbour(m, o[i].face) /\ o[i].face \in Faces(m)
              /\ m.lower[o[i].face] = c /\ o[i].side = "upper" /\ o[i].col = m.upper[o[i].face]
<1> DEFINE F == OwnedFaces(m, {c})
           a == Ascending(F)
           n == NUpper(m, c)
<1>1. F \in SUBSET Faces(m) /\ \A f \in F : m.lower[f] = c
  BY DEF OwnedFaces
<1>2. IsFiniteSet(F) /\ \A x \in F : x \in Int
  BY <1>1, FaceFacts
<1>3. n \in Nat /\ DOMAIN a = 1 .. n /\ \A i \in 1 .. n : a[i] \in F
  <2> HIDE DEF F
  <2> QED BY <1>2, AscendingList DEF NUpper, F
<1>4. o = [i \in 1 .. n |-> FromNeighbour(m, a[i])]
  BY <1>3 DEF Outgoing
<1> HIDE DEF a, n, F
<1>5. ASSUME NEW i \in 1 .. n
      PROVE  /\ o[i] \in Entry(m) /\ o[i].face = a[i]
             /\ o[i] = FromNeighbour(m, o[i].face) /\ o[i].face \in Faces(m)
             /\ m.lower[o[i].face] = c /\ o[i].side = "upper" /\ o[i].col = m.upper[o[i].face]
  <2>1. a[i] \in Faces(m) /\ m.lower[a[i]] = c /\ m.upper[a[i]] \in Cells
    BY <1>1, <1>3, FaceFacts
  <2>2. o[i] = [face |-> a[i], side |-> "upper", col |-> m.upper[a[i]]]
    BY <1>4 DEF FromNeighbour
  <2>3. o[i].face = a[i] /\ o[i].side = "upper" /\ o[i].col = m.upper[a[i]]
    BY <2>2
  <2> QED BY <2>1, <2>2, <2>3 DEF Entry, FromNeighbour
<1>6. o \in [1 .. n -> Entry(m)]
  BY <1>4, <1>5
<1>7. o \in Seq(Entry(m)) /\ Len(o) = n
  BY <1>3, <1>6, FunctionIsSeq
<1> QED BY <1>3, <1>5, <1>7 DEF n

\* and before them those whose upper end it is.
LEMMA WavefrontRowIs ==
  ASSUME NEW m, IsAddressing(m), NEW c \in Cells, NEW w, w = WavefrontRow(m, c),
         NEW p, p = NLower(m, c), NEW a, a = Ascending(IncomingFaces(m, c))
  PROVE  /\ p \in Nat /\ NUpper(m, c) \in Nat /\ DOMAIN a = 1 .. p
         /\ w \in Seq(Entry(m)) /\ Len(w) = p + NUpper(m, c)
         /\ w = [i \in 1 .. p |-> FromOwner(m, a[i])] \o Outgoing(m, c)
         /\ \A i \in 1 .. p :
              /\ w[i] = FromOwner(m, a[i]) /\ a[i] \in Faces(m) /\ w[i].face = a[i]
              /\ m.upper[a[i]] = c /\ w[i].side = "lower" /\ w[i].col = m.lower[a[i]]
         /\ \A i \in p + 1 .. Len(w) : w[i] = Outgoing(m, c)[i - p]
<1> DEFINE F == IncomingFaces(m, c)
           o == Outgoing(m, c)
           q == NUpper(m, c)
           b == [i \in 1 .. p |-> FromOwner(m, a[i])]
<1>1. F \in SUBSET Faces(m) /\ \A f \in F : m.upper[f] = c
  BY DEF IncomingFaces
<1>2. IsFiniteSet(F) /\ \A x \in F : x \in Int
  BY <1>1, FaceFacts
<1>3. p \in Nat /\ DOMAIN a = 1 .. p /\ \A i \in 1 .. p : a[i] \in F
  <2> HIDE DEF F
  <2> QED BY <1>2, AscendingList DEF NLower, F
<1>4. w = b \o o
  BY <1>3 DEF WavefrontRow
<1>5. ASSUME NEW i \in 1 .. p
      PROVE  /\ b[i] \in Entry(m) /\ b[i].face = a[i] /\ b[i] = FromOwner(m, a[i])
             /\ a[i] \in Faces(m) /\ m.upper[a[i]] = c
             /\ b[i].side = "lower" /\ b[i].col = m.lower[a[i]]
  <2>1. a[i] \in Faces(m) /\ m.upper[a[i]] = c /\ m.lower[a[i]] \in Cells
    BY <1>1, <1>3, FaceFacts
  <2>2. b[i] = [face |-> a[i], side |-> "lower", col |-> m.lower[a[i]]]
    BY DEF FromOwner
  <2>3. b[i].face = a[i] /\ b[i].side = "lower" /\ b[i].col = m.lower[a[i]]
    BY <2>2
  <2> HIDE DEF b
  <2> QED BY <2>1, <2>2, <2>3 DEF Entry, FromOwner
<1>6. b \in Seq(Entry(m)) /\ Len(b) = p
  <2>1. b \in [1 .. p -> Entry(m)]
    BY <1>5
  <2> HIDE DEF b
  <2> QED BY <1>3, <2>1, FunctionIsSeq
<1>7. q \in Nat /\ o \in Seq(Entry(m)) /\ Len(o) = q
  BY OutgoingIs
<1>8. w = [i \in 1 .. p |-> FromOwner(m, a[i])] \o Outgoing(m, c)
  BY <1>4
<1> HIDE DEF b, o, q, F
<1>9. /\ w \in Seq(Entry(m)) /\ Len(w) = p + q
      /\ \A i \in 1 .. p + q : w[i] = IF i <= p THEN b[i] ELSE o[i - p]
  <2> DEFINE E == Entry(m)
  <2>1. b \in Seq(E) /\ o \in Seq(E)
    BY <1>6, <1>7
  <2> HIDE DEF E
  <2>2. /\ b \o o \in Seq(E) /\ Len(b \o o) = Len(b) + Len(o)
        /\ \A i \in 1 .. Len(b) + Len(o) : (b \o o)[i] = IF i <= Len(b) THEN b[i] ELSE o[i - Len(b)]
    BY <2>1, ConcatProperties
  <2> QED BY <1>4, <1>6, <1>7, <2>2 DEF E
<1>10. \A i \in 1 .. p : w[i] = b[i]
  BY <1>3, <1>7, <1>9
<1>11. \A i \in p + 1 .. Len(w) : w[i] = o[i - p]
  BY <1>3, <1>7, <1>9
<1> QED BY <1>3, <1>5, <1>7, <1>8, <1>9, <1>10, <1>11 DEF o, q

\* Lower entries come first; the ends of the faces are the cell and the column.
LEMMA RowFacts ==
  ASSUME NEW m, IsAddressing(m), NEW c \in Cells, NEW w, w = WavefrontRow(m, c)
  PROVE  /\ NLower(m, c) \in Nat /\ w \in Seq(Entry(m)) /\ Len(w) \in Nat
         /\ NLower(m, c) <= Len(w)
         /\ \A i \in 1 .. Len(w) :
              /\ w[i] \in Entry(m)
              /\ w[i].side = "lower" <=> i <= NLower(m, c)
              /\ w[i].side = "lower" => m.upper[w[i].face] = c /\ w[i].col = m.lower[w[i].face]
              /\ w[i].side = "upper" => m.lower[w[i].face] = c /\ w[i].col = m.upper[w[i].face]
<1> DEFINE p == NLower(m, c)
           q == NUpper(m, c)
           a == Ascending(IncomingFaces(m, c))
           o == Outgoing(m, c)
<1>1. /\ p \in Nat /\ q \in Nat
      /\ w \in Seq(Entry(m)) /\ Len(w) = p + q
      /\ \A i \in 1 .. p :
           /\ w[i].face = a[i]
           /\ m.upper[a[i]] = c /\ w[i].side = "lower" /\ w[i].col = m.lower[a[i]]
      /\ \A i \in p + 1 .. Len(w) : w[i] = o[i - p]
  BY WavefrontRowIs
<1>2. \A i \in 1 .. q : m.lower[o[i].face] = c /\ o[i].side = "upper" /\ o[i].col = m.upper[o[i].face]
  BY OutgoingIs
<1>3. \A i \in 1 .. Len(w) : w[i] \in Entry(m)
  BY <1>1, ElementOfSeq
<1> HIDE DEF p, q, a, o
<1>4. ASSUME NEW i \in 1 .. Len(w)
      PROVE  /\ w[i].side = "lower" <=> i <= p
             /\ w[i].side = "lower" => m.upper[w[i].face] = c /\ w[i].col = m.lower[w[i].face]
             /\ w[i].side = "upper" => m.lower[w[i].face] = c /\ w[i].col = m.upper[w[i].face]
  <2>1. CASE i <= p
    <3>1. i \in 1 .. p
      BY <1>1, <2>1
    <3> QED BY <1>1, <2>1, <3>1
  <2>2. CASE ~(i <= p)
    <3>1. i \in p + 1 .. Len(w) /\ i - p \in 1 .. q
      BY <1>1, <2>2
    <3> QED BY <1>1, <1>2, <2>2, <3>1
  <2> QED BY <2>1, <2>2
<1> QED BY <1>1, <1>3, <1>4 DEF p

\* Where owners are sorted, sorting by owner first changes nothing.
LEMMA LexicographicIs ==
  ASSUME NEW m, IsAddressing(m), GroupedByOwner(m), NEW c \in Cells
  PROVE  LexicographicRow(m, c) = WavefrontRow(m, c)
<1> DEFINE S == IncomingFaces(m, c)
           R == {e \in S \X S : \/ m.lower[e[1]] < m.lower[e[2]]
                                \/ m.lower[e[1]] = m.lower[e[2]] /\ e[1] < e[2]}
           before(x) == {y \in S : m.lower[y] < m.lower[x] \/ (m.lower[y] = m.lower[x] /\ y < x)}
           place(x) == Cardinality(before(x))
           faces == [i \in 1 .. Cardinality(S) |-> CHOOSE x \in S : place(x) = i - 1]
<1>1. S \in SUBSET Faces(m)
  BY DEF IncomingFaces
<1>2. IsFiniteSet(S) /\ \A x \in S : x \in Int /\ m.lower[x] \in Int
  BY <1>1, FaceFacts, CellsAreIntegers
<1>3. \A x \in S : place(x) = PlaceIn(S, R, x)
  <2>1. ASSUME NEW x \in S PROVE before(x) = {y \in S : <<y, x>> \in R}
    OBVIOUS
  <2> HIDE DEF before, R, S
  <2> QED BY <2>1, Zenon DEF PlaceIn
<1>4. faces = Arranged(S, R)
  <2> HIDE DEF S, R, place
  <2> QED BY <1>3 DEF Arranged
<1>5. \A x, y \in S : <<x, y>> \in R <=> <<x, y>> \in LessOn(S)
  <2> SUFFICES ASSUME NEW x \in S, NEW y \in S
               PROVE  (m.lower[x] < m.lower[y] \/ (m.lower[x] = m.lower[y] /\ x < y)) <=> x < y
    BY DEF LessOn
  <2>1. x < y => m.lower[x] <= m.lower[y]
    BY <1>1 DEF GroupedByOwner
  <2>2. y < x => m.lower[y] <= m.lower[x]
    BY <1>1 DEF GroupedByOwner
  <2> QED BY <1>2, <2>1, <2>2
<1>6. faces = Ascending(S)
  <2>1. Arranged(S, R) = Arranged(S, LessOn(S))
    <3> HIDE DEF S, R
    <3> QED BY <1>5, ArrangedSame
  <2>2. Ascending(S) = Arranged(S, LessOn(S))
    <3> HIDE DEF S
    <3> QED BY <1>2, AscendingIs
  <2> HIDE DEF faces
  <2> QED BY <1>4, <2>1, <2>2
<1>7. LexicographicRow(m, c) = [i \in DOMAIN faces |-> FromOwner(m, faces[i])] \o Outgoing(m, c)
  BY DEF LexicographicRow, Arrange
<1> HIDE DEF faces
<1> QED BY <1>6, <1>7 DEF WavefrontRow

\* A list in another order: as long, and with the same elements.
LEMMA ShuffledIs ==
  ASSUME NEW E, NEW t \in Seq(E), NEW R, Orders(R, DOMAIN t),
         NEW order, order = Arranged(DOMAIN t, R),
         NEW s, s = [i \in DOMAIN t |-> t[order[i]]]
  PROVE  s \in Seq(E) /\ Len(s) = Len(t) /\ Range(s) = Range(t)
<1> DEFINE n == Len(t)
           D == DOMAIN t
<1>1. n \in Nat /\ D = 1 .. n /\ \A i \in 1 .. n : t[i] \in E
  BY LenProperties, ElementOfSeq
<1>2. IsFiniteSet(D) /\ Cardinality(D) = n
  BY <1>1, OneTo
<1>0. Orders(R, D) /\ order = Arranged(D, R)
  OBVIOUS
<1>3. \A i \in 1 .. n : order[i] \in 1 .. n
  <2>1. \A i \in 1 .. Cardinality(D) : order[i] \in D
    <3> HIDE DEF D, n
    <3> QED BY <1>0, <1>2, ArrangedList
  <2> QED BY <1>1, <1>2, <2>1
<1>4. \A k \in 1 .. n : \E i \in 1 .. n : order[i] = k
  <2>1. \A x \in D : \E i \in 1 .. Cardinality(D) : i = PlaceIn(D, R, x) + 1 /\ order[i] = x
    <3> HIDE DEF D, n
    <3> QED BY <1>0, <1>2, ArrangedList, SMTT(30)
  <2> QED BY <1>1, <1>2, <2>1
<1>5. s \in [1 .. n -> E]
  BY <1>1, <1>3
<1>6. s \in Seq(E) /\ Len(s) = n
  <2> HIDE DEF n
  <2> QED BY <1>1, <1>5, FunctionIsSeq
<1>7. Range(s) = Range(t)
  <2>1. DOMAIN s = 1 .. n /\ DOMAIN t = 1 .. n /\ \A i \in 1 .. n : s[i] = t[order[i]]
    BY <1>1
  <2> HIDE DEF n
  <2>2. ASSUME NEW x \in Range(s) PROVE x \in Range(t)
    <3>1. PICK i \in 1 .. n : x = s[i]
      BY <2>1 DEF Range
    <3> QED BY <1>3, <2>1, <3>1 DEF Range
  <2>3. ASSUME NEW x \in Range(t) PROVE x \in Range(s)
    <3>1. PICK k \in 1 .. n : x = t[k]
      BY <2>1 DEF Range
    <3>2. PICK i \in 1 .. n : order[i] = k
      BY <1>4
    <3> QED BY <2>1, <3>1, <3>2 DEF Range
  <2> QED BY <2>2, <2>3
<1> QED BY <1>6, <1>7

\* The stable sort by column.
LEMMA SortedIs ==
  ASSUME NEW m, NEW w \in Seq(Entry(m)), NEW s, s = SortedByColumn(w)
  PROVE  s \in Seq(Entry(m)) /\ Len(s) = Len(w) /\ Range(s) = Range(w)
<1> DEFINE D == DOMAIN w
           R == {e \in D \X D : \/ w[e[1]].col < w[e[2]].col
                                \/ w[e[1]].col = w[e[2]].col /\ e[1] < e[2]}
           before(x) == {y \in D : w[y].col < w[x].col \/ (w[y].col = w[x].col /\ y < x)}
           place(x) == Cardinality(before(x))
           order == [i \in 1 .. Cardinality(D) |-> CHOOSE x \in D : place(x) = i - 1]
<1>1. \A i \in D : i \in Int /\ w[i].col \in Int
  <2>1. D = 1 .. Len(w) /\ Len(w) \in Nat /\ \A i \in D : w[i] \in Entry(m)
    BY LenProperties, ElementOfSeq
  <2> QED BY <2>1, CellsAreIntegers DEF Entry
<1>2. Orders(R, D)
  <2> HIDE DEF D
  <2> QED BY <1>1 DEF Orders
<1>3. order = Arranged(D, R)
  <2>1. ASSUME NEW x \in D PROVE before(x) = {y \in D : <<y, x>> \in R}
    <3> HIDE DEF D
    <3> QED OBVIOUS
  <2>2. \A x \in D : place(x) = PlaceIn(D, R, x)
    <3> HIDE DEF before, R, D
    <3> QED BY <2>1, Zenon DEF PlaceIn
  <2> HIDE DEF D, R, place
  <2> QED BY <2>2 DEF Arranged
<1>4. s = [i \in D |-> w[order[i]]]
  BY DEF SortedByColumn, Arrange
<1> HIDE DEF R, order
<1> QED BY <1>2, <1>3, <1>4, ShuffledIs

\* A member x of S stands in the ascending list behind the smaller ones.
LEMMA AscendingRank ==
  ASSUME NEW S, IsFiniteSet(S), \A x \in S : x \in Int, NEW x \in S
  PROVE  /\ RankIn(S, x) + 1 \in 1 .. Cardinality(S)
         /\ Ascending(S)[RankIn(S, x) + 1] = x
<1> DEFINE a == Ascending(S)
           R == LessOn(S)
<1>1. Orders(R, S) /\ a = Arranged(S, R)
  BY AscendingIs
<1>2. PlaceIn(S, R, x) = RankIn(S, x)
  <2>1. {d \in S : d < x} = {y \in S : <<y, x>> \in R}
    BY DEF LessOn
  <2> HIDE DEF R
  <2> QED BY <2>1, Zenon DEF PlaceIn, RankIn
<1> HIDE DEF R, a
<1>3. \A i \in 1 .. Cardinality(S) : a[i] \in S /\ PlaceIn(S, R, a[i]) = i - 1
  BY <1>1, ArrangedList
<1>4. PICK i \in 1 .. Cardinality(S) : a[i] = x
  BY AscendingList DEF a
<1>5. i = RankIn(S, x) + 1
  <2>1. i - 1 = RankIn(S, x)
    BY <1>2, <1>3, <1>4
  <2> QED BY <2>1
<1> QED BY <1>4, <1>5 DEF a

-----------------------------------------------------------------------------
(* Compressed columns come back as they were. *)

\* WholeRowInt16: decoding gives back the columns, whether they were held as
\* differences from the cell or as they are.
LEMMA Int16Back ==
  ASSUME NEW cols \in Seq(Cells), NEW w, NEW cell \in Cells, NEW i \in 1 .. Len(cols)
  PROVE  DecodeInt16(cell, EncodeInt16(w, cell, cols), Len(cols))[i] = cols[i]
<1>1. i \in DOMAIN cols /\ cols[i] \in Int /\ cell \in Int
  BY ElementOfSeq, LenProperties, CellsAreIntegers
<1>2. CASE Int16Fits(w, cell, cols)
  BY <1>1, <1>2 DEF DecodeInt16, EncodeInt16
<1>3. CASE ~ Int16Fits(w, cell, cols)
  BY <1>1, <1>3 DEF DecodeInt16, EncodeInt16
<1> QED BY <1>2, <1>3

\* the recursion that DecodeDelta is defined by
DeltaStep(seen, w, e, i) ==
  IF i = 1 THEN [col |-> e.firstCol, escapes |-> 0]
  ELSE IF e.deltas[i - 1] = w.int16Min
    THEN [col |-> e.escapeCols[seen[i - 1].escapes + 1],
          escapes |-> seen[i - 1].escapes + 1]
    ELSE [seen[i - 1] EXCEPT !.col = @ + e.deltas[i - 1]]

\* It holds the column itself, and how many escapes there were before.
LEMMA DeltaBack ==
  ASSUME NEW cols \in Seq(Cells), NEW w, w.int16Min \in Int, w.int16Max \in Int,
         NEW n, n = Len(cols), NEW k \in 1 .. n
  PROVE  DecodeDelta(w, EncodeDelta(w, cols), n)[k] = cols[k]
<1> DEFINE e == EncodeDelta(w, cols)
           Fits(i) == FitsDelta(w, cols[i] - cols[i - 1])
           X == {i \in 2 .. n : ~ Fits(i)}
           a == Ascending(X)
           Upto(i) == {j \in 2 .. i : ~ Fits(j)}
           count(i) == Cardinality(Upto(i))
           sol == [i \in 1 .. n |-> [col |-> cols[i], escapes |-> count(i)]]
           Solves(st) == st = [i \in 1 .. n |-> DeltaStep(st, w, e, i)]
           it == CHOOSE st : Solves(st)
<1>1. n \in Nat /\ DOMAIN cols = 1 .. n /\ \A i \in 1 .. n : cols[i] \in Int
  BY ElementOfSeq, LenProperties, CellsAreIntegers
<1>2. DecodeDelta(w, e, n)[k] = it[k].col
  <2> HIDE DEF e
  <2> QED BY DEF DecodeDelta, DeltaStep
<1>3. IsFiniteSet(X) /\ \A x \in X : x \in Int
  <2>1. IsFiniteSet(1 .. n) /\ X \subseteq 1 .. n
    BY <1>1, OneTo
  <2> QED BY <2>1, FS_Subset
<1>4. DOMAIN a = 1 .. Cardinality(X)
  <2> HIDE DEF X
  <2> QED BY <1>3, AscendingList
<1>5. /\ n > 0 => e.firstCol = cols[1]
      /\ \A i \in 2 .. n : e.deltas[i - 1] = IF Fits(i) THEN cols[i] - cols[i - 1] ELSE w.int16Min
      /\ \A j \in 1 .. Cardinality(X) : e.escapeCols[j] = cols[a[j]]
  <2> DEFINE F == IF cols = <<>> THEN 0 ELSE cols[1]
             D == [j \in 1 .. n - 1 |-> IF Fits(j + 1) THEN cols[j + 1] - cols[j] ELSE w.int16Min]
             C == [j \in DOMAIN a |-> cols[a[j]]]
  <2>1. e = [firstCol |-> F, deltas |-> D, escapeCols |-> C]
    BY DEF EncodeDelta
  <2>2. n > 0 => F = cols[1]
    BY <1>1
  <2>3. \A i \in 2 .. n : D[i - 1] = IF Fits(i) THEN cols[i] - cols[i - 1] ELSE w.int16Min
    <3> SUFFICES ASSUME NEW i \in 2 .. n
                 PROVE  D[i - 1] = IF Fits(i) THEN cols[i] - cols[i - 1] ELSE w.int16Min
      OBVIOUS
    <3>1. i - 1 \in 1 .. n - 1 /\ i - 1 + 1 = i
      BY <1>1
    <3> HIDE DEF Fits
    <3> QED BY <3>1
  <2>4. \A j \in 1 .. Cardinality(X) : C[j] = cols[a[j]]
    <3> HIDE DEF a, X
    <3> QED BY <1>4
  <2> HIDE DEF F, D, C, e, Fits, a, X
  <2>5. e.firstCol = F /\ e.deltas = D /\ e.escapeCols = C
    BY <2>1
  <2> QED BY <2>2, <2>3, <2>4, <2>5
<1>6. \A i \in 2 .. n : Fits(i) => cols[i] - cols[i - 1] # w.int16Min
  BY <1>1 DEF FitsDelta
<1>7. \A i \in 1 .. n : count(i) \in Nat /\ IsFiniteSet(Upto(i))
  <2> SUFFICES ASSUME NEW i \in 1 .. n PROVE count(i) \in Nat /\ IsFiniteSet(Upto(i))
    OBVIOUS
  <2>1. IsFiniteSet(1 .. i) /\ Upto(i) \subseteq 1 .. i
    BY <1>1, OneTo
  <2> HIDE DEF Upto
  <2> QED BY <2>1, FS_Subset, FS_CardinalityType
<1>8. ASSUME NEW i \in 2 .. n, Fits(i) PROVE count(i) = count(i - 1)
  <2>1. Upto(i) = Upto(i - 1)
    <3> SUFFICES ASSUME NEW j PROVE j \in Upto(i) <=> j \in Upto(i - 1)
      OBVIOUS
    <3> HIDE DEF Fits
    <3>1. j \in 2 .. i <=> j \in 2 .. i - 1 \/ j = i
      BY <1>1
    <3>2. i \notin 2 .. i - 1
      BY <1>1
    <3> QED BY <1>8, <3>1, <3>2
  <2> HIDE DEF Upto
  <2> QED BY <2>1, Zenon
<1>9. ASSUME NEW i \in 2 .. n, ~ Fits(i)
      PROVE  /\ count(i) = count(i - 1) + 1
             /\ count(i - 1) + 1 \in 1 .. Cardinality(X)
             /\ a[count(i - 1) + 1] = i
  <2>1. Upto(i) = Upto(i - 1) \cup {i} /\ i \notin Upto(i - 1)
    <3> HIDE DEF Fits
    <3>1. \A j : j \in 2 .. i <=> j \in 2 .. i - 1 \/ j = i
      BY <1>1
    <3>2. i \notin 2 .. i - 1
      BY <1>1
    <3>3. i \notin Upto(i - 1)
      BY <3>2
    <3>4. ASSUME NEW j PROVE j \in Upto(i) <=> j \in Upto(i - 1) \cup {i}
      BY <1>9, <3>1
    <3> QED BY <3>3, <3>4
  <2>2. count(i) = count(i - 1) + 1
    <3>1. i - 1 \in 1 .. n
      BY <1>1
    <3>2. IsFiniteSet(Upto(i - 1))
      BY <1>7, <3>1
    <3> HIDE DEF Upto
    <3> QED BY <2>1, <3>2, FS_AddElement
  <2>3. i \in X
    BY <1>9
  <2>4. RankIn(X, i) = count(i - 1)
    <3>1. {j \in X : j < i} = Upto(i - 1)
      <4> SUFFICES ASSUME NEW j PROVE j \in {x \in X : x < i} <=> j \in Upto(i - 1)
        OBVIOUS
      <4> HIDE DEF Fits
      <4>1. (j \in 2 .. n /\ j < i) <=> j \in 2 .. i - 1
        BY <1>1
      <4> QED BY <4>1
    <3> HIDE DEF X, Upto
    <3> QED BY <3>1, Zenon DEF RankIn
  <2> HIDE DEF X, a, count
  <2>5. RankIn(X, i) + 1 \in 1 .. Cardinality(X) /\ a[RankIn(X, i) + 1] = i
    BY <1>3, <2>3, AscendingRank DEF a
  <2> QED BY <2>2, <2>4, <2>5
<1>10. n > 0 => count(1) = 0
  <2>1. Upto(1) = {}
    OBVIOUS
  <2> HIDE DEF Upto
  <2> QED BY <2>1, FS_EmptySet, Zenon
<1> HIDE DEF e, Fits, X, a, Upto, count
<1>11. Solves(sol)
  <2>1. ASSUME NEW i \in 1 .. n PROVE sol[i] = DeltaStep(sol, w, e, i)
    <3>1. CASE i = 1
      BY <1>1, <1>5, <1>10, <3>1 DEF DeltaStep
    <3>2. CASE i # 1
      <4>1. i \in 2 .. n /\ i - 1 \in 1 .. n
        BY <1>1, <3>2
      <4>2. sol[i] = [col |-> cols[i], escapes |-> count(i)]
            /\ sol[i - 1] = [col |-> cols[i - 1], escapes |-> count(i - 1)]
        BY <4>1
      <4> HIDE DEF sol
      <4>3. CASE Fits(i)
        <5>1. e.deltas[i - 1] = cols[i] - cols[i - 1] /\ e.deltas[i - 1] # w.int16Min
          BY <1>5, <1>6, <4>1, <4>3
        <5>2. count(i) = count(i - 1)
          BY <1>8, <4>1, <4>3
        <5>3. cols[i - 1] + (cols[i] - cols[i - 1]) = cols[i]
          BY <1>1, <4>1
        <5>4. DeltaStep(sol, w, e, i) = [sol[i - 1] EXCEPT !.col = @ + e.deltas[i - 1]]
          BY <3>2, <5>1, Zenon DEF DeltaStep
        <5>5. [sol[i - 1] EXCEPT !.col = @ + e.deltas[i - 1]]
                = [col |-> cols[i - 1] + e.deltas[i - 1], escapes |-> count(i - 1)]
          BY <4>2
        <5> QED BY <4>2, <5>1, <5>2, <5>3, <5>4, <5>5
      <4>4. CASE ~ Fits(i)
        <5>1. e.deltas[i - 1] = w.int16Min
          BY <1>5, <4>1, <4>4
        <5>2. count(i) = count(i - 1) + 1 /\ e.escapeCols[count(i - 1) + 1] = cols[i]
          BY <1>5, <1>9, <4>1, <4>4
        <5>3. sol[i - 1].escapes = count(i - 1)
          BY <4>2
        <5>4. DeltaStep(sol, w, e, i) = [col |-> e.escapeCols[sol[i - 1].escapes + 1],
                                         escapes |-> sol[i - 1].escapes + 1]
          BY <3>2, <5>1, Zenon DEF DeltaStep
        <5> QED BY <4>2, <5>2, <5>3, <5>4
      <4> QED BY <4>3, <4>4
    <3> QED BY <3>1, <3>2
  <2>2. sol = [i \in 1 .. n |-> sol[i]]
    OBVIOUS
  <2> HIDE DEF sol
  <2> QED BY <2>1, <2>2
<1>12. \A i \in 1 .. n : it[i] = DeltaStep(it, w, e, i) /\ sol[i] = DeltaStep(sol, w, e, i)
  <2>1. Solves(it)
    <3> HIDE DEF sol
    <3> QED BY <1>11
  <2> HIDE DEF it, sol
  <2> QED BY <1>11, <2>1
<1> DEFINE good == {i \in Nat : i + 1 <= n => it[i + 1] = sol[i + 1]}
<1> HIDE DEF it
<1>13. \A i \in Nat : i \in good
  <2> HIDE DEF sol
  <2>1. 0 \in good
    <3> SUFFICES ASSUME 1 <= n PROVE it[1] = sol[1]
      OBVIOUS
    <3>1. 1 \in 1 .. n
      BY <1>1
    <3>2. DeltaStep(it, w, e, 1) = DeltaStep(sol, w, e, 1)
      BY DEF DeltaStep
    <3> QED BY <1>12, <3>1, <3>2
  <2>2. ASSUME NEW i \in Nat, i \in good PROVE i + 1 \in good
    <3> SUFFICES ASSUME i + 1 + 1 <= n PROVE it[i + 1 + 1] = sol[i + 1 + 1]
      OBVIOUS
    <3>1. i + 1 + 1 \in 1 .. n /\ i + 1 + 1 # 1 /\ i + 1 + 1 - 1 = i + 1
      BY <1>1
    <3>2. it[i + 1] = sol[i + 1]
      BY <1>1, <2>2
    <3>3. DeltaStep(it, w, e, i + 1 + 1) = DeltaStep(sol, w, e, i + 1 + 1)
      BY <3>1, <3>2 DEF DeltaStep
    <3> QED BY <1>12, <3>1, <3>3
  <2> HIDE DEF good
  <2> QED BY <2>1, <2>2, NumberInduction
<1>14. it[k] = sol[k]
  <2>1. k - 1 \in Nat /\ k - 1 + 1 = k /\ k <= n
    BY <1>1
  <2>2. k - 1 \in good
    BY <1>13, <2>1, Zenon
  <2> QED BY <2>1, <2>2
<1> QED BY <1>2, <1>14 DEF e

-----------------------------------------------------------------------------
(* Bytes. *)

\* Multiplying keeps the order.
LEMMA MultiplyMonotone ==
  ASSUME NEW a \in Int, NEW b \in Int, NEW c \in Nat, a <= b
  PROVE  c * a <= c * b
<1>1. b - a \in Nat /\ c * (b - a) >= 0
  OBVIOUS
<1> QED BY <1>1

\* Quotient and remainder.
LEMMA DivideFacts ==
  ASSUME NEW a \in Nat, NEW b \in Nat \ {0}
  PROVE  a \div b \in Nat /\ a % b \in 0 .. b - 1 /\ a = b * (a \div b) + (a % b)
<1>1. a % b \in 0 .. b - 1
  OBVIOUS
<1>2. a \div b \in Int /\ a = b * (a \div b) + (a % b)
  OBVIOUS
<1>3. a \div b >= 0
  <2> DEFINE q == a \div b
             r == a % b
  <2> HIDE DEF q, r
  <2>1. q \in Int /\ a = b * q + r /\ r \in 0 .. b - 1
    BY <1>1, <1>2 DEF q, r
  <2> SUFFICES ASSUME q + 1 <= 0 PROVE FALSE
    BY <2>1 DEF q
  <2>2. b * (q + 1) <= b * 0
    BY <2>1, MultiplyMonotone
  <2>3. b * (q + 1) = b * q + b /\ b * q \in Int
    BY <2>1
  <2> QED BY <2>1, <2>2, <2>3
<1> QED BY <1>1, <1>2, <1>3

\* A number between two multiples has the quotient of the lower one.
LEMMA QuotientIs ==
  ASSUME NEW b \in Nat \ {0}, NEW p \in Nat, NEW q \in Nat, NEW r \in 0 .. b - 1, NEW s \in 0 .. b - 1,
         b * p + r = b * q + s
  PROVE  p = q
<1>1. ASSUME p < q PROVE FALSE
  <2>1. b * (p + 1) <= b * q
    BY <1>1, MultiplyMonotone
  <2>2. b * (p + 1) = b * p + b
    OBVIOUS
  <2>3. b * p \in Int /\ b * q \in Int
    OBVIOUS
  <2> QED BY <2>1, <2>2, <2>3
<1>2. ASSUME q < p PROVE FALSE
  <2>1. b * (q + 1) <= b * p
    BY <1>2, MultiplyMonotone
  <2>2. b * (q + 1) = b * q + b
    OBVIOUS
  <2>3. b * p \in Int /\ b * q \in Int
    OBVIOUS
  <2> QED BY <2>1, <2>2, <2>3
<1> QED BY <1>1, <1>2

\* Three bytes hold a column below the cube of the number of their values.
LEMMA ThreeBytes ==
  ASSUME NEW b \in Nat \ {0}, NEW x \in Nat, x < b * b * b
  PROVE  (x % b) + b * ((x \div b) % b) + b * b * ((x \div (b * b)) % b) = x
<1> DEFINE q == x \div b
           r == x % b
           h == q \div b
           s == q % b
           g == x \div (b * b)
           t == x % (b * b)
           bb == b * b
<1>1. q \in Nat /\ r \in 0 .. b - 1 /\ x = b * q + r
  BY DivideFacts
<1>2. h \in Nat /\ s \in 0 .. b - 1 /\ q = b * h + s
  <2> HIDE DEF q
  <2> QED BY <1>1, DivideFacts
<1>3. bb \in Nat \ {0}
  <2>1. b * 1 <= b * b
    BY MultiplyMonotone
  <2> QED BY <2>1
<1>4. g \in Nat /\ t \in 0 .. bb - 1 /\ x = bb * g + t
  <2> HIDE DEF bb
  <2> QED BY <1>3, DivideFacts DEF bb
<1> HIDE DEF q, r, h, s, g, t
<1>5. x = bb * h + (b * s + r)
  <2>1. b * (b * h + s) = b * b * h + b * s
    BY <1>2
  <2> QED BY <1>1, <1>2, <2>1
<1>6. b * s + r \in 0 .. bb - 1
  <2>1. b * (s + 1) <= b * b
    BY <1>2, MultiplyMonotone
  <2>2. b * (s + 1) = b * s + b /\ b * s \in Nat
    BY <1>2
  <2> HIDE DEF bb
  <2> QED BY <1>1, <1>3, <2>1, <2>2 DEF bb
<1>7. g = h
  <2> DEFINE u == b * s + r
  <2> HIDE DEF u, bb
  <2>1. bb * g + t = bb * h + u
    BY <1>4, <1>5 DEF u
  <2> QED BY <1>2, <1>3, <1>4, <1>6, <2>1, QuotientIs DEF u
<1>8. h < b
  <2> SUFFICES ASSUME b <= h PROVE FALSE
    BY <1>2
  <2>1. bb * b <= bb * h
    BY <1>2, <1>3, MultiplyMonotone
  <2>2. bb * b = b * b * b /\ bb * h \in Int
    BY <1>2
  <2> HIDE DEF bb
  <2> QED BY <1>3, <1>5, <1>6, <2>1, <2>2
<1>9. h % b = h
  BY <1>2, <1>8
<1>10. b * b * (g % b) = bb * h
  BY <1>7, <1>9
<1>11. r + b * s + bb * h = x
  <2>1. b * s \in Int /\ bb * h \in Int
    BY <1>2
  <2> HIDE DEF bb
  <2> QED BY <1>1, <1>5, <2>1
<1> QED BY <1>10, <1>11 DEF q, r, h, s, g

\* PackedUint24: the three bytes of a column give the column back.
LEMMA Uint24Back ==
  ASSUME NEW cols \in Seq(Cells), NEW w, w.byteSize \in Nat \ {0}, NEW i \in 1 .. Len(cols),
         FitsUint24(w, cols[i])
  PROVE  DecodeUint24(w, EncodeUint24(w, cols))[i] = cols[i]
<1> DEFINE b == w.byteSize
           x == cols[i]
           e == EncodeUint24(w, cols)
<1>1. x \in Nat /\ DOMAIN cols = 1 .. Len(cols)
  BY ElementOfSeq, LenProperties, NCellsAssumption DEF Cells
<1>2. e[i] = <<x % b, (x \div b) % b, (x \div (b * b)) % b>> /\ DOMAIN e = DOMAIN cols
  BY <1>1 DEF EncodeUint24
<1>3. DecodeUint24(w, e)[i] = e[i][1] + b * e[i][2] + b * b * e[i][3]
  <2> HIDE DEF e
  <2> QED BY <1>1, <1>2 DEF DecodeUint24
<1>4. x < b * b * b
  BY DEF FitsUint24
<1>5. (x % b) + b * ((x \div b) % b) + b * b * ((x \div (b * b)) % b) = x
  <2> HIDE DEF x, b
  <2> QED BY <1>1, <1>4, ThreeBytes DEF b
<1>6. e[i][1] = x % b /\ e[i][2] = (x \div b) % b /\ e[i][3] = (x \div (b * b)) % b
  <2> HIDE DEF e, x
  <2> QED BY <1>2
<1> HIDE DEF e, x, b
<1>7. DecodeUint24(w, e)[i] = x
  BY <1>3, <1>5, <1>6
<1> QED BY <1>7 DEF e, x

-----------------------------------------------------------------------------
(* The keys that rows are ordered by are numbers. *)

\* The columns of a row are cells.
LEMMA ColumnsAre ==
  ASSUME NEW m, NEW w \in Seq(Entry(m))
  PROVE  Columns(w) \in Seq(Cells) /\ Len(Columns(w)) = Len(w)
         /\ \A i \in 1 .. Len(w) : Columns(w)[i] = w[i].col
<1> DEFINE n == Len(w)
<1>1. n \in Nat /\ DOMAIN w = 1 .. n /\ \A i \in 1 .. n : w[i].col \in Cells
  <2>1. n \in Nat /\ DOMAIN w = 1 .. n /\ \A i \in 1 .. n : w[i] \in Entry(m)
    BY LenProperties, ElementOfSeq
  <2> QED BY <2>1 DEF Entry
<1>2. Columns(w) = [i \in 1 .. n |-> w[i].col]
  BY <1>1 DEF Columns
<1>3. Columns(w) \in [1 .. n -> Cells]
  BY <1>1, <1>2
<1> HIDE DEF n
<1>4. Columns(w) \in Seq(Cells) /\ Len(Columns(w)) = n
  BY <1>1, <1>3, FunctionIsSeq
<1> QED BY <1>2, <1>4 DEF n

\* The median column of a row is a number, so rows can be sorted by it.
LEMMA MedianIsNumber ==
  ASSUME NEW m, IsAddressing(m), NEW c \in Cells
  PROVE  MedianKey(m)[c] \in Int
<1> DEFINE row0 == SortedByColumn(WavefrontRow(m, c))
           cols == Columns(row0)
           middle == Len(cols) \div 2
<1>1. WavefrontRow(m, c) \in Seq(Entry(m))
  BY RowFacts
<1>2. row0 \in Seq(Entry(m))
  BY <1>1, SortedIs
<1>3. cols \in Seq(Cells)
  <2> HIDE DEF row0
  <2> QED BY <1>2, ColumnsAre
<1>4. MedianKey(m)[c] = IF cols = <<>> THEN 2 * c
                        ELSE IF Len(cols) % 2 = 1 THEN 2 * cols[middle + 1]
                        ELSE cols[middle] + cols[middle + 1]
  BY DEF MedianKey
<1> HIDE DEF cols, row0
<1>5. Len(cols) \in Nat /\ \A i \in 1 .. Len(cols) : cols[i] \in Int
  BY <1>3, LenProperties, ElementOfSeq, CellsAreIntegers
<1>6. c \in Int
  BY CellsAreIntegers
<1>7. CASE cols = <<>>
  BY <1>4, <1>6, <1>7
<1>8. CASE cols # <<>> /\ Len(cols) % 2 = 1
  <2>1. middle + 1 \in 1 .. Len(cols)
    BY <1>5, <1>8
  <2> HIDE DEF middle
  <2> QED BY <1>4, <1>5, <1>8, <2>1
<1>9. CASE cols # <<>> /\ Len(cols) % 2 # 1
  <2>1. Len(cols) # 0
    BY <1>3, <1>9, EmptySeq
  <2>2. middle \in 1 .. Len(cols) /\ middle + 1 \in 1 .. Len(cols)
    BY <1>5, <1>9, <2>1
  <2> HIDE DEF middle
  <2> QED BY <1>4, <1>5, <1>9, <2>2
<1> QED BY <1>7, <1>8, <1>9

\* So is the mean column.
LEMMA MeanIsNumber ==
  ASSUME NEW m, IsAddressing(m), NEW c \in Cells
  PROVE  MeanKey(m)[c] \in Int
<1> DEFINE row0 == WavefrontRow(m, c)
           g == Columns(row0)
           S == DOMAIN row0
<1>1. row0 \in Seq(Entry(m))
  BY RowFacts
<1>2. Len(row0) \in Nat /\ S = 1 .. Len(row0)
  <2> HIDE DEF row0
  <2> QED BY <1>1, LenProperties
<1>3. g \in Seq(Cells) /\ Len(g) = Len(row0)
  <2> HIDE DEF row0
  <2> QED BY <1>1, ColumnsAre
<1>4. MeanKey(m)[c] = IF row0 = <<>> THEN c ELSE SumFunctionOnSet(g, S) \div Len(row0)
  BY DEF MeanKey
<1> HIDE DEF row0, g
<1>5. \A x \in S : g[x] \in Nat
  BY <1>2, <1>3, ElementOfSeq, NCellsAssumption DEF Cells
<1>6. IsFiniteSet(S)
  BY <1>2, OneTo
<1> HIDE DEF S
<1>7. SumFunctionOnSet(g, S) \in Nat
  BY <1>5, <1>6, SumIsSlots, SlotsFinite
<1>8. CASE row0 = <<>>
  BY <1>4, <1>8, CellsAreIntegers
<1>9. CASE row0 # <<>>
  <2>1. Len(row0) # 0
    BY <1>1, <1>9, EmptySeq
  <2> QED BY <1>2, <1>4, <1>7, <1>9, <2>1
<1> QED BY <1>8, <1>9

-----------------------------------------------------------------------------
(* The order of the rows. *)

\* RowOrder lists every cell once, level by level.
LEMMA RowOrderIs ==
  ASSUME NEW lv \in [Cells -> Nat], NEW key, \A c \in Cells : key[c] \in Int,
         NEW o, o = RowOrder(lv, key)
  PROVE  /\ o \in [1 .. NCells -> Cells]
         /\ \A c \in Cells : \E r \in 1 .. NCells : o[r] = c
         /\ \A i, j \in 1 .. NCells : o[i] = o[j] => i = j
         /\ \A i, j \in 1 .. NCells : i < j => lv[o[i]] <= lv[o[j]]
<1> DEFINE earlier(c, d) == \/ lv[c] < lv[d]
                            \/ lv[c] = lv[d] /\ key[c] < key[d]
                            \/ lv[c] = lv[d] /\ key[c] = key[d] /\ c < d
           R == {e \in Cells \X Cells : earlier(e[1], e[2])}
           before(x) == {y \in Cells : earlier(y, x)}
           place(x) == Cardinality(before(x))
<1>1. \A c \in Cells : c \in Int /\ lv[c] \in Nat /\ key[c] \in Int
  BY CellsAreIntegers
<1>2. Orders(R, Cells)
  <2>1. \A x, y \in Cells : <<x, y>> \in R <=> earlier(x, y)
    OBVIOUS
  <2> HIDE DEF R
  <2>2. \A x, y \in Cells : x # y => <<x, y>> \in R \/ <<y, x>> \in R
    BY <1>1, <2>1
  <2>3. \A x, y, z \in Cells : <<x, y>> \in R /\ <<y, z>> \in R => <<x, z>> \in R
    BY <1>1, <2>1
  <2>4. \A x \in Cells : <<x, x>> \notin R
    BY <1>1, <2>1
  <2> QED BY <2>2, <2>3, <2>4 DEF Orders
<1>3. \A x \in Cells : place(x) = PlaceIn(Cells, R, x)
  <2>1. ASSUME NEW x \in Cells PROVE before(x) = {y \in Cells : <<y, x>> \in R}
    <3> HIDE DEF earlier
    <3> QED OBVIOUS
  <2> HIDE DEF before, R
  <2> QED BY <2>1, Zenon DEF PlaceIn
<1>4. o = [i \in 1 .. Cardinality(Cells) |-> CHOOSE x \in Cells : place(x) = i - 1]
  BY DEF RowOrder, Arrange
<1> HIDE DEF place, R, earlier
<1>5. o = Arranged(Cells, R)
  BY <1>3, <1>4 DEF Arranged
<1>6. IsFiniteSet(Cells) /\ Cardinality(Cells) = NCells
  BY CellsFinite
<1>7. DOMAIN o = 1 .. NCells /\ Range(o) = Cells
  <2> DEFINE S == Cells
  <2> HIDE DEF S
  <2>1. IsFiniteSet(S) /\ Orders(R, S) /\ o = Arranged(S, R) /\ Cardinality(S) = NCells
    BY <1>2, <1>5, <1>6 DEF S
  <2>2. DOMAIN o = 1 .. NCells /\ Range(o) = S
    BY <2>1, ArrangedList
  <2> QED BY <2>2 DEF S
<1>8. /\ \A i, j \in 1 .. NCells : o[i] = o[j] => i = j
      /\ \A i, j \in 1 .. NCells : i < j => <<o[i], o[j]>> \in R
      /\ \A i \in 1 .. NCells : o[i] \in Cells
  <2> DEFINE S == Cells
  <2> HIDE DEF S
  <2>1. IsFiniteSet(S) /\ Orders(R, S) /\ o = Arranged(S, R) /\ Cardinality(S) = NCells
    BY <1>2, <1>5, <1>6 DEF S
  <2>2. /\ \A i, j \in 1 .. NCells : o[i] = o[j] => i = j
        /\ \A i, j \in 1 .. NCells : i < j => <<o[i], o[j]>> \in R
        /\ \A i \in 1 .. NCells : o[i] \in S
    BY <2>1, ArrangedList, SMTT(30)
  <2> QED BY <2>2 DEF S
<1>9. o \in [1 .. NCells -> Cells]
  BY <1>4, <1>6, <1>8
<1>10. \A c \in Cells : \E r \in 1 .. NCells : o[r] = c
  <2> SUFFICES ASSUME NEW c \in Cells PROVE \E r \in 1 .. NCells : o[r] = c
    OBVIOUS
  <2>1. c \in Range(o)
    BY <1>7
  <2> QED BY <1>7, <2>1 DEF Range
<1>11. \A i, j \in 1 .. NCells : i < j => lv[o[i]] <= lv[o[j]]
  <2> SUFFICES ASSUME NEW i \in 1 .. NCells, NEW j \in 1 .. NCells, i < j
               PROVE  lv[o[i]] <= lv[o[j]]
    OBVIOUS
  <2>1. o[i] \in Cells /\ o[j] \in Cells /\ <<o[i], o[j]>> \in R
    BY <1>8
  <2>2. earlier(o[i], o[j])
    BY <2>1 DEF R
  <2> QED BY <1>1, <2>1, <2>2 DEF earlier
<1> QED BY <1>8, <1>9, <1>10, <1>11

RowOf(o) == [c \in Cells |-> (CHOOSE r \in 1 .. NCells : o[r] = c) - 1]

IsOrder(o) ==
  /\ o \in [1 .. NCells -> Cells]
  /\ \A c \in Cells : \E r \in 1 .. NCells : o[r] = c
  /\ \A i, j \in 1 .. NCells : o[i] = o[j] => i = j

CellsAndRows(o, t) ==
  /\ t \in [Cells -> Cells]
  /\ \A c \in Cells : o[t[c] + 1] = c
  /\ \A r \in Cells : o[r + 1] \in Cells /\ t[o[r + 1]] = r

\* A cell has one row, and a row one cell.
LEMMA RowOfIs ==
  ASSUME NEW o, IsOrder(o), NEW t, t = RowOf(o)
  PROVE  CellsAndRows(o, t)
<1> DEFINE pick(c) == CHOOSE r \in 1 .. NCells : o[r] = c
<1>1. \A c \in Cells : pick(c) \in 1 .. NCells /\ o[pick(c)] = c
  BY DEF IsOrder
<1>2. t = [c \in Cells |-> pick(c) - 1]
  BY DEF RowOf
<1> HIDE DEF pick
<1>3. \A r : r \in Cells <=> r + 1 \in 1 .. NCells /\ r \in Int
  BY NCellsAssumption DEF Cells
<1>4. \A c \in Cells : t[c] \in Cells /\ t[c] + 1 = pick(c)
  <2> SUFFICES ASSUME NEW c \in Cells PROVE t[c] \in Cells /\ t[c] + 1 = pick(c)
    OBVIOUS
  <2>1. t[c] = pick(c) - 1 /\ pick(c) \in 1 .. NCells
    BY <1>1, <1>2
  <2>2. t[c] + 1 = pick(c) /\ t[c] \in Int
    BY <2>1, NCellsAssumption
  <2> QED BY <1>3, <2>1, <2>2
<1>5. t \in [Cells -> Cells]
  BY <1>2, <1>4
<1>6. \A c \in Cells : o[t[c] + 1] = c
  BY <1>1, <1>4
<1>7. \A r \in Cells : o[r + 1] \in Cells /\ t[o[r + 1]] = r
  <2> SUFFICES ASSUME NEW r \in Cells PROVE o[r + 1] \in Cells /\ t[o[r + 1]] = r
    OBVIOUS
  <2>1. r + 1 \in 1 .. NCells /\ r \in Int
    BY <1>3
  <2>2. o[r + 1] \in Cells
    BY <2>1 DEF IsOrder
  <2>3. pick(o[r + 1]) = r + 1
    BY <1>1, <2>1, <2>2 DEF IsOrder
  <2>4. t[o[r + 1]] = pick(o[r + 1]) - 1
    BY <1>2, <2>2
  <2> QED BY <2>1, <2>2, <2>3, <2>4
<1> QED BY <1>5, <1>6, <1>7 DEF CellsAndRows

RowsByLevel(lv, o, t) ==
  /\ o \in [1 .. NCells -> Cells] /\ t \in [Cells -> Cells]
  /\ \A c \in Cells : o[t[c] + 1] = c
  /\ \A r \in Cells : t[o[r + 1]] = r
  /\ \A i, j \in 1 .. NCells : i < j => lv[o[i]] <= lv[o[j]]

NextLevel(starts, r) ==
  LET ends == {l \in DOMAIN starts : starts[l] > r}
  IN  starts[CHOOSE l \in ends : \A k \in ends : l <= k]

\* Between a row and the next start of a level, no row waits for another one.
LEMMA LevelsApart ==
  ASSUME NEW lv \in [Cells -> Nat], Range(lv) = 0 .. Cardinality(Range(lv)) - 1,
         NEW starts, starts = LevelStarts(lv), NEW o, NEW t, RowsByLevel(lv, o, t),
         NEW r \in Cells, NEW e, e = NextLevel(starts, r)
  PROVE  /\ e \in r + 1 .. NCells
         /\ \A c, d \in Cells : lv[c] < lv[d] /\ r <= t[c] => e <= t[d]
<1> DEFINE K == Cardinality(Range(lv))
           ends == {l \in DOMAIN starts : starts[l] > r}
<1> USE DEF RowsByLevel
<1>0. NCells \in Nat /\ \A z \in 0 .. NCells - 1 : z \in Cells
  BY NCellsAssumption DEF Cells
<1>1. \A z \in Cells : z \in Nat /\ z < NCells /\ z + 1 \in 1 .. NCells
  BY NCellsAssumption DEF Cells
<1>2. \A c \in Cells : lv[c] \in 0 .. K - 1
  BY DEF Range
<1>3. K \in Nat
  <2>1. r \in Cells /\ lv[r] \in 0 .. K - 1
    BY <1>2
  <2>2. IsFiniteSet(Range(lv))
    <3>1. lv \in Surjection(Cells, Range(lv))
      BY DEF Surjection, Range
    <3> QED BY <3>1, CellsFinite, FS_Surjection
  <2> QED BY <2>2, FS_CardinalityType
<1>4. /\ starts = [l \in 1 .. K + 1 |-> Cardinality(CellsBelow(lv, l - 1))]
      /\ DOMAIN starts = 1 .. K + 1
  BY DEF LevelStarts
<1>5. ASSUME NEW l \in 0 .. K
      PROVE  /\ CellsBelow(lv, l) \in SUBSET Cells /\ IsFiniteSet(CellsBelow(lv, l))
             /\ starts[l + 1] = Cardinality(CellsBelow(lv, l)) /\ starts[l + 1] \in 0 .. NCells
  <2> DEFINE B == CellsBelow(lv, l)
  <2>1. B \in SUBSET Cells
    BY DEF CellsBelow
  <2>2. l + 1 \in 1 .. K + 1 /\ l + 1 - 1 = l
    BY <1>3
  <2>3. starts[l + 1] = Cardinality(B)
    BY <1>4, <2>2
  <2> HIDE DEF B
  <2>4. IsFiniteSet(B) /\ Cardinality(B) \in 0 .. NCells
    BY <2>1, CellsFinite
  <2> QED BY <2>1, <2>3, <2>4 DEF B
<1>6. ASSUME NEW k \in 0 .. K, NEW l \in 0 .. K, k <= l PROVE starts[k + 1] <= starts[l + 1]
  <2>1. CellsBelow(lv, k) \subseteq CellsBelow(lv, l)
    BY <1>2, <1>3, <1>6 DEF CellsBelow
  <2> QED BY <1>5, <2>1, FS_Subset
<1>7. starts[K + 1] = NCells
  <2>1. CellsBelow(lv, K) = Cells
    BY <1>2, <1>3 DEF CellsBelow
  <2> QED BY <1>3, <1>5, <2>1, CellsFinite
<1>8. ends = {l \in 1 .. K + 1 : starts[l] > r}
  BY <1>4 DEF ends
<1>9. K + 1 \in ends
  <2> HIDE DEF K
  <2>0. r \in Nat /\ r < NCells
    BY <1>1
  <2>1. K + 1 \in 1 .. K + 1 /\ starts[K + 1] > r
    BY <1>0, <1>3, <1>7, <2>0
  <2> QED BY <1>8, <2>1
<1> HIDE DEF K
<1>10. PICK first \in ends : \A k \in ends : first <= k
  <2>1. ends \in SUBSET Nat /\ ends # {}
    BY <1>3, <1>8, <1>9
  <2> QED BY <2>1, LeastNatural
<1>11. PICK last \in ends : e = starts[last] /\ \A k \in ends : last <= k
  BY <1>10 DEF NextLevel
<1> HIDE DEF ends
<1>12. last \in 1 .. K + 1 /\ e > r /\ last - 1 \in 0 .. K
  BY <1>3, <1>8, <1>11
<1>13. e \in r + 1 .. NCells
  <2>1. starts[last - 1 + 1] \in 0 .. NCells
    BY <1>5, <1>12
  <2>2. last - 1 + 1 = last
    BY <1>3, <1>12
  <2>3. e \in 0 .. NCells
    BY <1>11, <2>1, <2>2
  <2>4. r \in Nat /\ NCells \in Nat
    BY <1>0, <1>1
  <2> QED BY <1>12, <2>3, <2>4
<1>14. ASSUME NEW c \in Cells, NEW d \in Cells, lv[c] < lv[d], r <= t[c] PROVE e <= t[d]
  <2> DEFINE l == lv[d]
             B == CellsBelow(lv, l)
  <2>1. l \in 0 .. K /\ lv[c] \in Nat /\ t[c] \in Cells /\ t[d] \in Cells
    BY <1>2, <1>3
  <2>2. starts[l + 1] = Cardinality(B) /\ IsFiniteSet(B) /\ B \in SUBSET Cells
    BY <1>5, <2>1
  <2>3. \A x, y \in Cells : lv[x] < lv[y] => t[x] < t[y]
    <3> SUFFICES ASSUME NEW x \in Cells, NEW y \in Cells, lv[x] < lv[y], ~ (t[x] < t[y])
                 PROVE  FALSE
      BY <1>1
    <3>1. o[t[x] + 1] = x /\ o[t[y] + 1] = y /\ t[x] \in Cells /\ t[y] \in Cells
      OBVIOUS
    <3>2. t[x] \in Int /\ t[y] \in Int /\ t[x] + 1 \in 1 .. NCells /\ t[y] + 1 \in 1 .. NCells
      BY <1>1, <3>1
    <3>3. t[y] # t[x]
      BY <3>1
    <3>4. t[y] + 1 < t[x] + 1
      BY <3>2, <3>3
    <3>5. lv[y] <= lv[x]
      BY <3>1, <3>2, <3>4
    <3> QED BY <3>5
  <2>4. starts[l + 1] >= t[c] + 1
    <3> DEFINE f == [x \in 0 .. t[c] |-> o[x + 1]]
    <3>1. t[c] \in Nat
      BY <1>1, <2>1
    <3>2. \A x \in 0 .. t[c] : x \in Cells /\ x + 1 \in 1 .. NCells /\ o[x + 1] \in Cells /\ t[o[x + 1]] = x
      <4> SUFFICES ASSUME NEW x \in 0 .. t[c]
                   PROVE  x \in Cells /\ x + 1 \in 1 .. NCells /\ o[x + 1] \in Cells /\ t[o[x + 1]] = x
        OBVIOUS
      <4>1. t[c] < NCells
        BY <1>1, <2>1
      <4>2. x \in 0 .. NCells - 1
        BY <1>0, <3>1, <4>1
      <4> QED BY <1>0, <1>1, <4>2
    <3>3. \A x \in 0 .. t[c] : o[x + 1] \in B
      <4> SUFFICES ASSUME NEW x \in 0 .. t[c] PROVE lv[o[x + 1]] < l
        BY <3>2 DEF CellsBelow
      <4>1. lv[o[x + 1]] <= lv[c]
        <5>1. CASE x = t[c]
          BY <5>1
        <5>2. CASE x < t[c]
          <6>1. x + 1 \in 1 .. NCells /\ t[c] + 1 \in 1 .. NCells /\ x + 1 < t[c] + 1
            BY <1>1, <2>1, <3>1, <3>2, <5>2
          <6>2. lv[o[x + 1]] <= lv[o[t[c] + 1]] /\ o[t[c] + 1] = c
            BY <6>1
          <6> QED BY <6>2
        <5> QED BY <3>1, <5>1, <5>2
      <4>2. lv[o[x + 1]] \in Nat
        BY <3>2
      <4> QED BY <1>14, <2>1, <4>1, <4>2
    <3>4. f \in Injection(0 .. t[c], B)
      <4>1. f \in [0 .. t[c] -> B]
        BY <3>3
      <4>2. \A x, y \in 0 .. t[c] : f[x] = f[y] => x = y
        BY <3>2
      <4> HIDE DEF f, B
      <4> QED BY <4>1, <4>2 DEF Injection, IsInjective
    <3>5. Cardinality(0 .. t[c]) <= Cardinality(B)
      <4> HIDE DEF f, B
      <4> QED BY <2>2, <3>4, FS_Injection
    <3>6. Cardinality(0 .. t[c]) = t[c] + 1
      <4>1. Cardinality(0 .. t[c]) = IF 0 > t[c] THEN 0 ELSE t[c] - 0 + 1
        BY <3>1, FS_Interval
      <4> QED BY <3>1, <4>1
    <3> HIDE DEF B
    <3> QED BY <2>2, <3>5, <3>6
  <2>5. starts[l + 1] <= t[d]
    <3> DEFINE f == [x \in B |-> t[x]]
               U == 0 .. t[d] - 1
    <3>1. t[d] \in Nat
      BY <1>1, <2>1
    <3>2. \A x \in B : x \in Cells /\ t[x] \in U
      <4> SUFFICES ASSUME NEW x \in B PROVE x \in Cells /\ t[x] \in U
        OBVIOUS
      <4>1. x \in Cells /\ lv[x] < l
        BY DEF CellsBelow
      <4>2. t[x] < t[d]
        BY <2>3, <4>1
      <4>3. t[x] \in Nat /\ t[d] \in Nat
        BY <1>1, <2>1, <4>1
      <4> QED BY <4>1, <4>2, <4>3
    <3>3. f \in Injection(B, U)
      <4>1. f \in [B -> U]
        BY <3>2
      <4>2. \A x, y \in B : f[x] = f[y] => x = y
        <5> SUFFICES ASSUME NEW x \in B, NEW y \in B, t[x] = t[y] PROVE x = y
          OBVIOUS
        <5>1. o[t[x] + 1] = x /\ o[t[y] + 1] = y
          BY <3>2
        <5> QED BY <5>1
      <4> HIDE DEF f, B, U
      <4> QED BY <4>1, <4>2 DEF Injection, IsInjective
    <3>4. IsFiniteSet(U) /\ Cardinality(U) = t[d]
      <4> DEFINE z == t[d] - 1
      <4>1. z \in Int /\ z >= -1 /\ t[d] = z + 1
        BY <3>1
      <4> HIDE DEF z
      <4>2. IsFiniteSet(0 .. z) /\ Cardinality(0 .. z) = IF 0 > z THEN 0 ELSE z - 0 + 1
        <5>1. 0 \in Int
          OBVIOUS
        <5> QED BY <4>1, <5>1, FS_Interval, Zenon
      <4>3. Cardinality(0 .. z) = z + 1
        BY <4>1, <4>2
      <4> QED BY <4>1, <4>2, <4>3 DEF z
    <3>5. Cardinality(B) <= Cardinality(U)
      <4> HIDE DEF f, B, U
      <4> QED BY <3>3, <3>4, FS_Injection
    <3> HIDE DEF B, U
    <3> QED BY <2>2, <3>4, <3>5
  <2>6. l + 1 \in ends
    <3>1. l + 1 \in 1 .. K + 1 /\ starts[l + 1] \in Int
      BY <1>3, <1>5, <2>1
    <3>2. starts[l + 1] > r
      <4>1. t[c] \in Nat /\ r \in Nat
        BY <1>1, <2>1
      <4> HIDE DEF l, B
      <4> QED BY <1>14, <2>4, <3>1, <4>1
    <3> HIDE DEF l, B
    <3> QED BY <1>8, <3>1, <3>2
  <2>7. starts[last] <= starts[l + 1]
    <3>1. last <= l + 1
      BY <1>11, <2>6
    <3>2. last - 1 \in 0 .. K /\ last - 1 <= l /\ last - 1 + 1 = last
      BY <1>3, <1>12, <2>1, <3>1
    <3> HIDE DEF l, B
    <3>3. starts[last - 1 + 1] <= starts[l + 1]
      BY <1>6, <2>1, <3>2
    <3> QED BY <3>2, <3>3
  <2>8. e \in Int /\ starts[l + 1] \in Int /\ t[d] \in Int
    <3> HIDE DEF l, B
    <3>1. e \in Int
      BY <1>13
    <3>2. starts[l + 1] \in Int
      BY <1>5, <2>1
    <3> QED BY <1>1, <2>1, <3>1, <3>2
  <2> HIDE DEF l, B
  <2> QED BY <1>11, <2>5, <2>7, <2>8
<1> QED BY <1>13, <1>14

-----------------------------------------------------------------------------
(* The serial smoothers: the invariant. *)

\* the schedule that Build makes
RowsOf == [r \in 1 .. NCells |-> RowEntries(WaveCells(Key)[r])]
Schedule ==
  [waveCells |-> WaveCells(Key),
   levelStarts |-> LevelStarts(levels),
   rowStarts |-> RowStarts(RowsOf),
   entries |-> Joined(RowsOf),
   columns |-> [r \in 1 .. NCells |-> Encoded(WaveCells(Key)[r])],
   incomingCounts |-> [r \in 1 .. NCells |-> Cardinality(IncomingFaces(ldu, WaveCells(Key)[r]))],
   cellToRow |-> RowOf(WaveCells(Key))]

\* whether this half-sweep has been at cell c
Updated(c) == IF Backward THEN packed.cellToRow[c] > row ELSE packed.cellToRow[c] < row

\* what psi, reorderedPsi, edgeValues and bPrime hold
PsiHeld(c) ==
  IF ~kernel.reordered THEN IF Updated(c) THEN half + 1 ELSE half
  ELSE IF half = NHalves THEN half
  ELSE IF half = NHalves - 1 /\ Updated(c) THEN half + 1 ELSE 0

RowHeld(r) ==
  IF ~kernel.reordered THEN 0
  ELSE IF half >= NHalves - 1 THEN NHalves - 1
  ELSE IF r < row THEN half + 1 ELSE half

EdgeHeld(f) ==
  IF kernel.lower # "edges" THEN 0 ELSE IF Updated(ldu.lower[f]) THEN half + 1 ELSE half

LowerReadings(m, S, v) ==
  LET faces == Ascending(S) IN [i \in DOMAIN faces |-> Reading(FromOwner(m, faces[i]), v)]

ArgumentsOK ==
  /\ matrix \in Matrices /\ call \in Calls /\ width \in Widths
  /\ kernel \in Kernels
  /\ call.arrangement # "cells" => kernel = Gather

BeforeSweeps ==
  /\ half = 0 /\ row = 0 /\ cursor = 0
  /\ psi = [c \in Cells |-> 0] /\ reorderedPsi = [r \in Cells |-> 0]
  /\ edgeValues = [f \in Faces(ldu) |-> 0] /\ bPrime = [c \in Cells |-> <<>>]
  /\ computed = <<>>

ScheduleOK == Representable /\ packed = Schedule /\ (kernel.reordered => call.nSweeps > 1)

PlaceOK ==
  /\ half \in 0 .. NHalves
  /\ row \in IF Backward THEN -1 .. NCells - 1 ELSE 0 .. NCells
  /\ half = NHalves => row = 0
  /\ kernel.begin = "cursor" => cursor = packed.rowStarts[row + 1]

MemoryOK ==
  /\ psi = [c \in Cells |-> PsiHeld(c)]
  /\ reorderedPsi = [r \in Cells |-> RowHeld(r)]
  /\ edgeValues = [f \in Faces(ldu) |-> EdgeHeld(f)]

ScatterOK ==
  kernel.rows = "scatter" =>
    \A c \in Cells :
      /\ ~Backward => bPrime[c] =
           LowerReadings(ldu, {f \in IncomingFaces(ldu, c) : ldu.lower[f] < row}, half + 1)
      /\ Backward /\ c <= row => bPrime[c] = LowerReadings(ldu, IncomingFaces(ldu, c), half)

SerialIInv ==
  /\ ArgumentsOK /\ SameArithmetic
  /\ stage \in {"build", "rejected", "sweep", "done"}
  /\ stage \in {"build", "rejected"} => BeforeSweeps
  /\ stage \in {"sweep", "done"} => ScheduleOK /\ PlaceOK /\ MemoryOK /\ ScatterOK
  /\ stage = "done" => half = NHalves

-----------------------------------------------------------------------------
(* The kernels and the arguments of a call. *)

\* Which features go together in a kernel.
Plausible(k) ==
  /\ k.rows \in {"wavefront", "lexicographic", "scatter"}
  /\ k.columns \in {"plain", "int16", "delta", "uint24"}
  /\ k.begin \in {"rowStarts", "cursor"} /\ k.coeffs \in {"packed", "live"}
  /\ k.lower \in {"psi", "edges"} /\ k.group \in {"single", "full", "partial", "degree6"}
  /\ k.lanes \in Nat \ {0} /\ k.sums \in Nat \ {0}
  /\ k.symmetric \in BOOLEAN /\ k.reordered \in BOOLEAN /\ k.prefetch \in BOOLEAN
  /\ k.rows # "wavefront" =>
       /\ k.group = "single" /\ k.columns = "plain" /\ k.begin = "rowStarts"
       /\ k.coeffs = "packed" /\ k.lower = "psi" /\ k.sums = 1 /\ ~ k.reordered
  /\ k.symmetric =>
       /\ k.group = "single" /\ k.begin = "rowStarts" /\ k.lower = "psi"
       /\ ~ k.reordered /\ ~ k.prefetch
  /\ k.lower = "edges" => ~ k.reordered /\ k.group = "single"
  /\ k.reordered => ~ k.symmetric /\ k.group = "single"
  /\ k.columns # "plain" => k.begin = "rowStarts"

\* Every kernel combines features in a way that goes together.
LEMMA KernelFacts == \A k \in Kernels : Plausible(k)
<1>1. Plausible(Gather)
  BY DEF Plausible, Gather
<1>2. Plausible(GaussSeidel)
  BY DEF Plausible, GaussSeidel, Gather
<1>3. Plausible(SymGaussSeidel)
  BY DEF Plausible, SymGaussSeidel, GaussSeidel, Gather
<1>4. Plausible(LexicographicPacked)
  BY DEF Plausible, LexicographicPacked, Gather
<1>5. Plausible(SymmetricGather)
  BY DEF Plausible, SymmetricGather, Gather
<1>6. Plausible(GatherPrefetch)
  BY DEF Plausible, GatherPrefetch, Gather
<1>7. Plausible(GatherInterleavedRows)
  BY DEF Plausible, GatherInterleavedRows, Gather
<1>8. Plausible(GatherDegree6InterleavedRows)
  BY DEF Plausible, GatherDegree6InterleavedRows, Gather
<1>9. Plausible(WholeRowInt16)
  BY DEF Plausible, WholeRowInt16, Gather
<1>10. Plausible(DeltaEscapeInt16)
  BY DEF Plausible, DeltaEscapeInt16, Gather
<1>11. Plausible(PackedUint24)
  BY DEF Plausible, PackedUint24, Gather
<1>12. Plausible(RowDegree)
  BY DEF Plausible, RowDegree, Gather
<1>13. Plausible(RowDegreeUnrolled8)
  BY DEF Plausible, RowDegreeUnrolled8, RowDegree, Gather
<1>14. Plausible(DirectCoefficient)
  BY DEF Plausible, DirectCoefficient, RowDegree, Gather
<1>15. Plausible(SerialHybrid)
  BY DEF Plausible, SerialHybrid, Gather
<1>16. Plausible(ReorderedPsi)
  BY DEF Plausible, ReorderedPsi, Gather
<1>17. Plausible(GatherAvx2)
  BY DEF Plausible, GatherAvx2, Gather
<1>18. Plausible(GatherAvx2AcrossRows)
  BY DEF Plausible, GatherAvx2AcrossRows, Gather
<1>19. Plausible(GatherAvx512)
  BY DEF Plausible, GatherAvx512, Gather
<1>20. Plausible(GatherAvx512AcrossRows)
  BY DEF Plausible, GatherAvx512AcrossRows, Gather
<1>21. Plausible(RowDegreeAvx512Divide)
  BY DEF Plausible, RowDegreeAvx512Divide, RowDegreeUnrolled8, RowDegree, Gather
<1> QED BY <1>1, <1>2, <1>3, <1>4, <1>5, <1>6, <1>7, <1>8, <1>9, <1>10, <1>11, <1>12, <1>13, <1>14, <1>15, <1>16, <1>17, <1>18, <1>19, <1>20, <1>21 DEF Kernels

\* The plain gathering kernel.
LEMMA GatherFacts ==
  /\ Gather \in Kernels /\ Gather.rows = "wavefront" /\ Gather.columns = "plain"
  /\ Gather.begin = "rowStarts" /\ Gather.coeffs = "packed" /\ Gather.lower = "psi"
  /\ Gather.group = "single" /\ Gather.sums = 1 /\ ~ Gather.simd
  /\ ~ Gather.symmetric /\ ~ Gather.reordered
  BY DEF Gather, Kernels

\* What the arguments of a call are.
LEMMA ArgumentFacts ==
  ASSUME ArgumentsOK
  PROVE  /\ IsAddressing(ldu) /\ UpperTriangular(ldu) /\ GroupedByOwner(ldu)
         /\ levels \in [Cells -> Nat]
         /\ Range(levels) = 0 .. Cardinality(Range(levels)) - 1
         /\ \A f \in Faces(ldu) : levels[ldu.lower[f]] < levels[ldu.upper[f]]
         /\ matrix.x \in [Cells -> Int]
         /\ call.nSweeps \in Nat /\ call.rowDistance \in Nat
         /\ NHalves \in Nat
         /\ width.int16Min \in Int /\ width.int16Max \in Int
         /\ width.byteSize \in Nat \ {0} /\ width.maxDegree \in Nat
<1>1. matrix \in Matrices /\ call \in Calls /\ width \in Widths
  BY DEF ArgumentsOK
<1>2. /\ matrix.mesh \in Meshes /\ UpperTriangular(ldu) /\ GroupedByOwner(ldu)
      /\ levels \in [Cells -> Nat] /\ matrix.x \in [Cells -> Int]
      /\ Range(levels) = 0 .. Cardinality(Range(levels)) - 1
      /\ \A f \in Faces(ldu) : levels[ldu.lower[f]] < levels[ldu.upper[f]]
  BY <1>1, MatricesAssumption, Zenon DEF ldu, levels
<1>3. IsAddressing(ldu)
  BY <1>2, MeshesAssumption, Zenon DEF ldu
<1>4. call.nSweeps \in Nat /\ call.rowDistance \in Nat
  BY <1>1, CallsAssumption
<1>5. NHalves \in Nat
  BY <1>4 DEF NHalves
<1>6. /\ width.int16Min \in Int /\ width.int16Max \in Int
      /\ width.byteSize \in Nat \ {0} /\ width.maxDegree \in Nat
  BY <1>1, WidthsAssumption
<1> QED BY <1>2, <1>3, <1>4, <1>5, <1>6

\* What rows of a level are sorted by is a number.
LEMMA KeyIsNumber ==
  ASSUME ArgumentsOK, NEW c \in Cells PROVE Key[c] \in Int
<1>1. /\ matrix.x[c] \in Int
      /\ MedianKey(ldu)[c] \in Int /\ MeanKey(ldu)[c] \in Int
      /\ [d \in Cells |-> d][c] \in Int
  <2>1. IsAddressing(ldu) /\ matrix.x \in [Cells -> Int]
    BY ArgumentFacts
  <2> QED BY <2>1, MedianIsNumber, MeanIsNumber, CellsAreIntegers
<1>2. \/ Key = matrix.x \/ Key = MedianKey(ldu) \/ Key = MeanKey(ldu) \/ Key = [d \in Cells |-> d]
  BY DEF Key
<1> QED BY <1>1, <1>2, Zenon

\* The order of the rows is one of all the cells, and the lower end of a face
\* comes before the upper one.
LEMMA OrderFacts ==
  ASSUME ArgumentsOK, NEW o, o = WaveCells(Key),
         NEW t, t = RowOf(o)
  PROVE  /\ o \in [1 .. NCells -> Cells]
         /\ t \in [Cells -> Cells]
         /\ \A c \in Cells : o[t[c] + 1] = c
         /\ \A r \in Cells : o[r + 1] \in Cells /\ t[o[r + 1]] = r
         /\ kernel.rows = "wavefront" =>
              \A i, j \in 1 .. NCells : i < j => levels[o[i]] <= levels[o[j]]
         /\ kernel.rows # "wavefront" => \A c \in Cells : t[c] = c
         /\ \A f \in Faces(ldu) : t[ldu.lower[f]] < t[ldu.upper[f]]
<1>1. /\ IsAddressing(ldu) /\ UpperTriangular(ldu) /\ levels \in [Cells -> Nat]
      /\ \A f \in Faces(ldu) : levels[ldu.lower[f]] < levels[ldu.upper[f]]
  BY ArgumentFacts
<1>2. \A c \in Cells : Key[c] \in Int
  BY KeyIsNumber
<1>3. \A f \in Faces(ldu) : ldu.lower[f] \in Cells /\ ldu.upper[f] \in Cells
  BY <1>1, FaceFacts
<1>4. NCells \in Nat /\ \A z \in Cells : z \in Nat /\ z + 1 \in 1 .. NCells
  BY NCellsAssumption DEF Cells
<1>5. CASE kernel.rows = "wavefront"
  <2>1. o = RowOrder(levels, Key)
    BY <1>5 DEF WaveCells
  <2>2. /\ o \in [1 .. NCells -> Cells]
        /\ \A c \in Cells : \E r \in 1 .. NCells : o[r] = c
        /\ \A i, j \in 1 .. NCells : o[i] = o[j] => i = j
        /\ \A i, j \in 1 .. NCells : i < j => levels[o[i]] <= levels[o[j]]
    BY <1>1, <1>2, <2>1, RowOrderIs
  <2>3. /\ t \in [Cells -> Cells]
        /\ \A c \in Cells : o[t[c] + 1] = c
        /\ \A r \in Cells : o[r + 1] \in Cells /\ t[o[r + 1]] = r
    <3>1. IsOrder(o)
      BY <2>2 DEF IsOrder
    <3>2. CellsAndRows(o, t)
      BY <3>1, RowOfIs
    <3> QED BY <3>2 DEF CellsAndRows
  <2>4. ASSUME NEW f \in Faces(ldu) PROVE t[ldu.lower[f]] < t[ldu.upper[f]]
    <3> DEFINE c == ldu.lower[f]
               d == ldu.upper[f]
    <3>1. c \in Cells /\ d \in Cells /\ levels[c] < levels[d]
      BY <1>1, <1>3
    <3> HIDE DEF c, d
    <3>2. /\ t[c] \in Nat /\ t[d] \in Nat /\ t[c] + 1 \in 1 .. NCells /\ t[d] + 1 \in 1 .. NCells
          /\ o[t[c] + 1] = c /\ o[t[d] + 1] = d /\ levels[c] \in Nat /\ levels[d] \in Nat
      BY <1>1, <1>4, <2>3, <3>1
    <3>3. ~ (t[d] + 1 < t[c] + 1)
      <4> SUFFICES ASSUME t[d] + 1 < t[c] + 1 PROVE FALSE
        OBVIOUS
      <4>1. levels[o[t[d] + 1]] <= levels[o[t[c] + 1]]
        BY <2>2, <3>2
      <4> QED BY <3>1, <3>2, <4>1
    <3>4. t[d] # t[c]
      BY <3>1, <3>2
    <3>5. t[c] < t[d]
      BY <3>2, <3>3, <3>4
    <3> QED BY <3>5 DEF c, d
  <2> QED BY <1>5, <2>2, <2>3, <2>4
<1>6. CASE kernel.rows # "wavefront"
  <2>1. o = [r \in 1 .. NCells |-> r - 1]
    BY <1>6 DEF WaveCells
  <2>2. \A r \in 1 .. NCells : r - 1 \in Cells /\ o[r] = r - 1
    <3> SUFFICES ASSUME NEW r \in 1 .. NCells PROVE r - 1 \in Cells /\ o[r] = r - 1
      OBVIOUS
    <3>1. r - 1 \in 0 .. NCells - 1
      BY <1>4
    <3> QED BY <2>1, <3>1 DEF Cells
  <2>3. /\ o \in [1 .. NCells -> Cells]
        /\ \A c \in Cells : \E r \in 1 .. NCells : o[r] = c
        /\ \A i, j \in 1 .. NCells : o[i] = o[j] => i = j
    <3>1. o \in [1 .. NCells -> Cells]
      BY <2>1, <2>2
    <3>2. \A c \in Cells : c + 1 \in 1 .. NCells /\ o[c + 1] = c
      BY <1>4, <2>2
    <3>3. \A i, j \in 1 .. NCells : o[i] = o[j] => i = j
      BY <2>2
    <3> QED BY <3>1, <3>2, <3>3
  <2>4. /\ t \in [Cells -> Cells]
        /\ \A c \in Cells : o[t[c] + 1] = c
        /\ \A r \in Cells : o[r + 1] \in Cells /\ t[o[r + 1]] = r
    <3>1. IsOrder(o)
      BY <2>3 DEF IsOrder
    <3>2. CellsAndRows(o, t)
      BY <3>1, RowOfIs
    <3> QED BY <3>2 DEF CellsAndRows
  <2>5. \A c \in Cells : t[c] = c
    <3> SUFFICES ASSUME NEW c \in Cells PROVE t[c] = c
      OBVIOUS
    <3>1. c + 1 \in 1 .. NCells /\ c \in Nat /\ o[c + 1] = c + 1 - 1
      BY <1>4, <2>2
    <3>2. t[o[c + 1]] = c /\ o[c + 1] = c
      BY <2>4, <3>1
    <3> QED BY <3>2
  <2>6. \A f \in Faces(ldu) : t[ldu.lower[f]] < t[ldu.upper[f]]
    BY <1>1, <1>3, <2>5 DEF UpperTriangular
  <2> QED BY <1>6, <2>3, <2>4, <2>5, <2>6
<1> QED BY <1>5, <1>6

\* What a row holds.
LEMMA RowEntriesAre ==
  ASSUME ArgumentsOK, NEW c \in Cells, NEW e, e = RowEntries(c)
  PROVE  /\ e \in Seq(Entry(ldu)) /\ Len(e) \in Nat
         /\ kernel.rows = "scatter" => e = Outgoing(ldu, c) /\ call.arrangement # "locality"
         /\ kernel.rows # "scatter" /\ call.arrangement # "locality" => e = WavefrontRow(ldu, c)
         /\ call.arrangement = "locality" =>
              /\ kernel.rows # "scatter" /\ Len(e) = Len(WavefrontRow(ldu, c))
              /\ Range(e) = Range(WavefrontRow(ldu, c))
<1> DEFINE w == WavefrontRow(ldu, c)
<1>1. IsAddressing(ldu) /\ GroupedByOwner(ldu)
  BY ArgumentFacts
<1>2. w \in Seq(Entry(ldu)) /\ LexicographicRow(ldu, c) = w /\ Outgoing(ldu, c) \in Seq(Entry(ldu))
  BY <1>1, RowFacts, OutgoingIs, LexicographicIs
<1>3. /\ SortedByColumn(w) \in Seq(Entry(ldu)) /\ Len(SortedByColumn(w)) = Len(w)
      /\ Range(SortedByColumn(w)) = Range(w)
  <2> HIDE DEF w
  <2> QED BY <1>2, SortedIs
<1>4. call.arrangement = "locality" => kernel.rows = "wavefront"
  BY GatherFacts DEF ArgumentsOK
<1>5. /\ kernel.rows = "scatter" => e = Outgoing(ldu, c)
      /\ kernel.rows # "scatter" /\ call.arrangement # "locality" => e = w
      /\ call.arrangement = "locality" => e = SortedByColumn(w)
  <2>1. CASE kernel.rows = "lexicographic"
    BY <1>2, <1>4, <2>1 DEF RowEntries
  <2>2. CASE kernel.rows = "scatter"
    BY <1>4, <2>2 DEF RowEntries
  <2>3. CASE kernel.rows # "lexicographic" /\ kernel.rows # "scatter"
    BY <2>3 DEF RowEntries
  <2> QED BY <2>1, <2>2, <2>3
<1>6. kernel.rows = "scatter" \/ kernel.rows # "scatter"
  OBVIOUS
<1> HIDE DEF w
<1>7. e \in Seq(Entry(ldu))
  BY <1>2, <1>3, <1>5
<1>8. Len(e) \in Nat
  BY <1>7, LenProperties
<1> QED BY <1>3, <1>4, <1>5, <1>7, <1>8 DEF w

-----------------------------------------------------------------------------
(* The schedule. *)

\* The parts of the schedule.
LEMMA ScheduleFieldsOf ==
  ASSUME NEW p, p = Schedule
  PROVE  /\ p.waveCells = WaveCells(Key)
         /\ p.levelStarts = LevelStarts(levels)
         /\ p.rowStarts = RowStarts(RowsOf)
         /\ p.entries = Joined(RowsOf)
         /\ p.columns = [r \in 1 .. NCells |-> Encoded(WaveCells(Key)[r])]
         /\ p.incomingCounts =
              [r \in 1 .. NCells |-> Cardinality(IncomingFaces(ldu, WaveCells(Key)[r]))]
         /\ p.cellToRow = RowOf(WaveCells(Key))
<1> DEFINE o == WaveCells(Key)
           C == [r \in 1 .. NCells |-> Encoded(o[r])]
           I == [r \in 1 .. NCells |-> Cardinality(IncomingFaces(ldu, o[r]))]
           L == LevelStarts(levels)
           S == RowStarts(RowsOf)
           J == Joined(RowsOf)
           T == RowOf(o)
<1>1. p = [waveCells |-> o, levelStarts |-> L, rowStarts |-> S, entries |-> J,
                columns |-> C, incomingCounts |-> I, cellToRow |-> T]
  BY Zenon DEF Schedule
<1> HIDE DEF o, C, I, L, S, J, T
<1>2. /\ p.waveCells = o /\ p.levelStarts = L /\ p.rowStarts = S
      /\ p.entries = J /\ p.columns = C /\ p.incomingCounts = I
      /\ p.cellToRow = T
  BY <1>1
<1> QED BY <1>2, Zenon DEF o, C, I, L, S, J, T

\* The first row begins with the first entry.
LEMMA FirstRowStart ==
  ASSUME ArgumentsOK PROVE RowStarts(RowsOf)[1] = 0
<1> DEFINE o == WaveCells(Key)
           E == Entry(ldu)
<1>1. o \in [1 .. NCells -> Cells]
  BY OrderFacts
<1>2. RowsOf = [r \in 1 .. NCells |-> RowEntries(o[r])]
  BY DEF RowsOf
<1>3. \A c \in Cells : RowEntries(c) \in Seq(E)
  BY RowEntriesAre
<1> HIDE DEF o, E
<1>4. RowsOf \in [1 .. NCells -> Seq(E)]
  BY <1>1, <1>2, <1>3
<1> QED BY <1>4, RowStartsIs, NCellsAssumption

\* Where the cells are, and what their rows hold.
LEMMA ScheduleFacts ==
  ASSUME ArgumentsOK, ScheduleOK
  PROVE  /\ packed.waveCells \in [1 .. NCells -> Cells] /\ packed.cellToRow \in [Cells -> Cells]
         /\ \A c \in Cells : CellOf(packed.cellToRow[c]) = c
         /\ kernel.rows = "wavefront" => \A i, j \in 1 .. NCells :
              i < j => levels[packed.waveCells[i]] <= levels[packed.waveCells[j]]
         /\ kernel.rows # "wavefront" => \A c \in Cells : packed.cellToRow[c] = c
         /\ \A f \in Faces(ldu) : packed.cellToRow[ldu.lower[f]] < packed.cellToRow[ldu.upper[f]]
         /\ packed.levelStarts = LevelStarts(levels)
         /\ packed.rowStarts \in [1 .. NCells + 1 -> Nat] /\ packed.rowStarts[1] = 0
         /\ \A r \in Cells :
              /\ CellOf(r) \in Cells /\ packed.cellToRow[CellOf(r)] = r
              /\ Degree(r) \in Nat /\ Degree(r) = Len(RowEntries(CellOf(r)))
              /\ packed.rowStarts[r + 1] \in Nat
              /\ packed.rowStarts[r + 2] = packed.rowStarts[r + 1] + Degree(r)
              /\ packed.rowStarts[r + 1] + Degree(r) <= Len(packed.entries)
              /\ \A i \in 1 .. Degree(r) :
                   packed.entries[packed.rowStarts[r + 1] + i] = RowEntries(CellOf(r))[i]
              /\ packed.incomingCounts[r + 1] = NLower(ldu, CellOf(r))
              /\ packed.columns[r + 1] = Encoded(CellOf(r))
<1> DEFINE o == WaveCells(Key)
           t == RowOf(o)
           s == RowStarts(RowsOf)
           E == Entry(ldu)
<1>1. /\ packed.waveCells = o
      /\ packed.levelStarts = LevelStarts(levels)
      /\ packed.rowStarts = s /\ packed.entries = Joined(RowsOf)
      /\ packed.columns = [r \in 1 .. NCells |-> Encoded(o[r])]
      /\ packed.incomingCounts = [r \in 1 .. NCells |-> Cardinality(IncomingFaces(ldu, o[r]))]
      /\ packed.cellToRow = t
  BY ScheduleFieldsOf, Zenon DEF ScheduleOK
<1>2. /\ o \in [1 .. NCells -> Cells] /\ t \in [Cells -> Cells]
      /\ \A c \in Cells : o[t[c] + 1] = c
      /\ \A r \in Cells : o[r + 1] \in Cells /\ t[o[r + 1]] = r
      /\ kernel.rows = "wavefront" =>
           \A i, j \in 1 .. NCells : i < j => levels[o[i]] <= levels[o[j]]
      /\ kernel.rows # "wavefront" => \A c \in Cells : t[c] = c
      /\ \A f \in Faces(ldu) : t[ldu.lower[f]] < t[ldu.upper[f]]
  BY OrderFacts
<1>3. RowsOf = [r \in 1 .. NCells |-> RowEntries(o[r])]
  BY DEF RowsOf
<1> HIDE DEF o, t, s
<1>4. \A c \in Cells : RowEntries(c) \in Seq(Entry(ldu)) /\ Len(RowEntries(c)) \in Nat
  BY RowEntriesAre
<1>5. NCells \in Nat /\ \A z \in Cells : z \in Nat /\ z + 1 \in 1 .. NCells
  BY NCellsAssumption DEF Cells
<1>6. RowsOf \in [1 .. NCells -> Seq(E)]
  <2> HIDE DEF E
  <2> SUFFICES ASSUME NEW r \in 1 .. NCells PROVE RowEntries(o[r]) \in Seq(E)
    BY <1>3
  <2>1. o[r] \in Cells
    BY <1>2
  <2> QED BY <1>4, <2>1 DEF E
<1> HIDE DEF E
<1>7. /\ s \in [1 .. NCells + 1 -> Nat] /\ s[1] = 0
      /\ \A r \in 1 .. NCells : s[r + 1] = s[r] + Len(RowsOf[r])
  BY <1>5, <1>6, RowStartsIs DEF s
<1>8. RowsStand(RowsOf, Joined(RowsOf), NCells, s)
  BY <1>5, <1>6, JoinedIs DEF s
<1>9. ASSUME NEW r \in Cells
      PROVE   /\ CellOf(r) \in Cells /\ packed.cellToRow[CellOf(r)] = r
              /\ Degree(r) \in Nat /\ Degree(r) = Len(RowEntries(CellOf(r)))
              /\ packed.rowStarts[r + 1] \in Nat
              /\ packed.rowStarts[r + 2] = packed.rowStarts[r + 1] + Degree(r)
              /\ packed.rowStarts[r + 1] + Degree(r) <= Len(packed.entries)
              /\ \A i \in 1 .. Degree(r) :
                   packed.entries[packed.rowStarts[r + 1] + i] = RowEntries(CellOf(r))[i]
              /\ packed.incomingCounts[r + 1] = NLower(ldu, CellOf(r))
              /\ packed.columns[r + 1] = Encoded(CellOf(r))
  <2> DEFINE q == r + 1
  <2>1. q \in 1 .. NCells /\ q \in 1 .. NCells + 1 /\ q + 1 \in 1 .. NCells + 1 /\ r + 2 = q + 1
        /\ r + 1 = q
    BY <1>5
  <2>2. CellOf(r) = o[q] /\ o[q] \in Cells /\ t[o[q]] = r
    BY <1>1, <1>2 DEF CellOf
  <2>3. RowsOf[q] = RowEntries(CellOf(r)) /\ Len(RowsOf[q]) \in Nat
    <3> HIDE DEF q
    <3> QED BY <1>3, <1>4, <2>1, <2>2
  <2>4. Degree(r) = s[q + 1] - s[q]
    BY <1>1, <2>1 DEF Degree
  <2>5. s[q] \in Nat /\ s[q + 1] \in Nat /\ s[q + 1] = s[q] + Len(RowsOf[q])
    <3> HIDE DEF q
    <3> QED BY <1>7, <2>1
  <2>6. packed.incomingCounts[q] = NLower(ldu, o[q]) /\ packed.columns[q] = Encoded(o[q])
    <3> HIDE DEF q
    <3> QED BY <1>1, <2>1 DEF NLower
  <2>7. /\ s[q] + Len(RowsOf[q]) <= Len(Joined(RowsOf))
        /\ \A i \in 1 .. Len(RowsOf[q]) : Joined(RowsOf)[s[q] + i] = RowsOf[q][i]
    <3> HIDE DEF q
    <3> QED BY <1>8, <2>1 DEF RowsStand
  <2> HIDE DEF q
  <2>8. Degree(r) = Len(RowsOf[q])
    BY <2>3, <2>4, <2>5
  <2>9. /\ CellOf(r) \in Cells /\ packed.cellToRow[CellOf(r)] = r
        /\ Degree(r) \in Nat /\ Degree(r) = Len(RowEntries(CellOf(r)))
    BY <1>1, <2>2, <2>3, <2>8
  <2>10. /\ packed.rowStarts[r + 1] \in Nat
         /\ packed.rowStarts[r + 2] = packed.rowStarts[r + 1] + Degree(r)
         /\ packed.rowStarts[r + 1] + Degree(r) <= Len(packed.entries)
    BY <1>1, <2>1, <2>5, <2>7, <2>8
  <2>11. \A i \in 1 .. Degree(r) :
            packed.entries[packed.rowStarts[r + 1] + i] = RowEntries(CellOf(r))[i]
    BY <1>1, <2>1, <2>3, <2>7, <2>8
  <2>12. packed.incomingCounts[r + 1] = NLower(ldu, CellOf(r)) /\ packed.columns[r + 1] = Encoded(CellOf(r))
    BY <2>1, <2>2, <2>6
  <2> QED BY <2>9, <2>10, <2>11, <2>12
<1>10. \A c \in Cells : CellOf(packed.cellToRow[c]) = c
  BY <1>1, <1>2 DEF CellOf
<1> QED BY <1>1, <1>2, <1>7, <1>9, <1>10

\* Compressed columns come back as they were.
LEMMA ColumnsBack ==
  ASSUME ArgumentsOK, ScheduleOK, NEW r \in Cells, NEW i \in 1 .. Degree(r),
         Begin(r) = packed.rowStarts[r + 1]
  PROVE  DecodedColumns(r)[i] = RowEntries(CellOf(r))[i].col
<1> DEFINE c == CellOf(r)
           e == RowEntries(c)
           cols == Columns(e)
           n == Degree(r)
<1>1. /\ c \in Cells /\ n \in Nat /\ n = Len(e)
      /\ packed.entries[packed.rowStarts[r + 1] + i] = e[i]
      /\ packed.columns[r + 1] = Encoded(c)
  BY ScheduleFacts
<1>2. e \in Seq(Entry(ldu))
  BY <1>1, RowEntriesAre
<1>3. cols \in Seq(Cells) /\ Len(cols) = n /\ cols[i] = e[i].col
  <2> HIDE DEF e, n, c
  <2>1. cols \in Seq(Cells) /\ Len(cols) = Len(e) /\ \A k \in 1 .. Len(e) : cols[k] = e[k].col
    BY <1>2, ColumnsAre
  <2> QED BY <1>1, <2>1 DEF n
<1>4. /\ width.int16Min \in Int /\ width.int16Max \in Int /\ width.byteSize \in Nat \ {0}
      /\ kernel \in Kernels
  BY ArgumentFacts DEF ArgumentsOK
<1>5. CASE kernel.columns = "int16"
  <2>1. Encoded(c) = EncodeInt16(width, c, cols)
    BY <1>5 DEF Encoded
  <2>2. DecodedColumns(r) = DecodeInt16(c, EncodeInt16(width, c, cols), n)
    BY <1>1, <1>5, <2>1 DEF DecodedColumns
  <2>3. i \in 1 .. Len(cols)
    BY <1>3
  <2> HIDE DEF c, cols, n, e
  <2>4. DecodeInt16(c, EncodeInt16(width, c, cols), Len(cols))[i] = cols[i]
    BY <1>1, <1>3, <2>3, Int16Back
  <2>5. DecodedColumns(r)[i] = e[i].col
    BY <1>3, <2>2, <2>4
  <2> QED BY <2>5 DEF c, e
<1>6. CASE kernel.columns = "delta"
  <2>1. Encoded(c) = EncodeDelta(width, cols)
    BY <1>6 DEF Encoded
  <2>2. DecodedColumns(r) = DecodeDelta(width, EncodeDelta(width, cols), n)
    BY <1>1, <1>6, <2>1 DEF DecodedColumns
  <2> HIDE DEF c, cols, e
  <2>3. DecodeDelta(width, EncodeDelta(width, cols), n)[i] = cols[i]
    BY <1>3, <1>4, DeltaBack
  <2>4. DecodedColumns(r)[i] = e[i].col
    BY <1>3, <2>2, <2>3
  <2> QED BY <2>4 DEF c, e
<1>7. CASE kernel.columns = "uint24"
  <2>1. Encoded(c) = EncodeUint24(width, cols)
    BY <1>7 DEF Encoded
  <2>2. DecodedColumns(r) = DecodeUint24(width, EncodeUint24(width, cols))
    BY <1>1, <1>7, <2>1 DEF DecodedColumns
  <2>3. FitsUint24(width, cols[i])
    <3>1. i \in DOMAIN e
      <4> HIDE DEF e, c, n
      <4>1. DOMAIN e = 1 .. Len(e)
        BY <1>2, LenProperties
      <4> QED BY <1>1, <4>1 DEF n
    <3>2. FitsUint24(width, RowEntries(c)[i].col)
      BY <1>1, <1>7, <3>1 DEF ScheduleOK, Representable
    <3> QED BY <1>3, <3>2
  <2>4. i \in 1 .. Len(cols)
    BY <1>3
  <2> HIDE DEF c, cols, e, n
  <2>5. DecodeUint24(width, EncodeUint24(width, cols))[i] = cols[i]
    BY <1>3, <1>4, <2>3, <2>4, Uint24Back
  <2>6. DecodedColumns(r)[i] = e[i].col
    BY <1>3, <2>2, <2>5
  <2> QED BY <2>6 DEF c, e
<1>8. CASE kernel.columns = "plain"
  <2>1. DecodedColumns(r) = [k \in 1 .. n |-> packed.entries[Begin(r) + k].col]
    BY <1>8 DEF DecodedColumns
  <2> QED BY <1>1, <2>1
<1> QED BY <1>4, <1>5, <1>6, <1>7, <1>8, KernelFacts DEF Plausible

\* The rows of a group are rows of the matrix, and no face joins two of them.
LEMMA GroupFacts ==
  ASSUME ArgumentsOK, ScheduleOK, row \in Cells
  PROVE  /\ GroupSize \in 1 .. NCells - row
         /\ kernel.group = "single" => GroupSize = 1
         /\ \A f \in Faces(ldu) :
              row <= packed.cellToRow[ldu.lower[f]]
                => row + GroupSize <= packed.cellToRow[ldu.upper[f]]
<1> DEFINE t == packed.cellToRow
           e == LevelEnd(row)
<1>1. /\ kernel \in Kernels /\ Plausible(kernel)
      /\ IsAddressing(ldu) /\ levels \in [Cells -> Nat]
      /\ Range(levels) = 0 .. Cardinality(Range(levels)) - 1
      /\ \A f \in Faces(ldu) : levels[ldu.lower[f]] < levels[ldu.upper[f]]
  BY ArgumentFacts, KernelFacts DEF ArgumentsOK
<1>2. /\ t \in [Cells -> Cells]
      /\ \A f \in Faces(ldu) : t[ldu.lower[f]] < t[ldu.upper[f]]
  BY ScheduleFacts
<1>3. \A f \in Faces(ldu) : ldu.lower[f] \in Cells /\ ldu.upper[f] \in Cells
  BY <1>1, FaceFacts
<1>4. NCells \in Nat /\ row \in Nat /\ row < NCells /\ \A z \in Cells : z \in Nat
  BY NCellsAssumption DEF Cells
<1>5. CASE kernel.group = "single"
  <2>1. GroupSize = 1
    BY <1>5 DEF GroupSize
  <2>2. ASSUME NEW f \in Faces(ldu), row <= t[ldu.lower[f]] PROVE row + 1 <= t[ldu.upper[f]]
    <3>1. t[ldu.lower[f]] \in Nat /\ t[ldu.upper[f]] \in Nat /\ t[ldu.lower[f]] < t[ldu.upper[f]]
      BY <1>2, <1>3, <1>4
    <3> QED BY <1>4, <2>2, <3>1
  <2> QED BY <1>4, <2>1, <2>2
<1>6. CASE kernel.group # "single"
  <2>1. kernel.rows = "wavefront"
    BY <1>1, <1>6 DEF Plausible
  <2>2. /\ e \in row + 1 .. NCells
        /\ \A c, d \in Cells : levels[c] < levels[d] /\ row <= t[c] => e <= t[d]
    <3> DEFINE o == packed.waveCells
               starts == packed.levelStarts
    <3>1. starts = LevelStarts(levels) /\ RowsByLevel(levels, o, t)
      BY <2>1, ScheduleFacts DEF CellOf, RowsByLevel
    <3>2. e = NextLevel(starts, row)
      BY Zenon DEF LevelEnd, NextLevel
    <3> HIDE DEF o, starts, t, e
    <3> QED BY <1>1, <3>1, <3>2, LevelsApart
  <2> DEFINE left == e - row
  <2>3. left \in 1 .. NCells - row /\ left \in Nat
    BY <1>4, <2>2
  <2>4. kernel.lanes \in Nat \ {0}
    BY <1>1 DEF Plausible
  <2>5. GroupSize \in 1 .. left
    <3>1. GroupSize \in {1, kernel.lanes, AtMost(kernel.lanes, left)}
      BY DEF GroupSize
    <3>2. GroupSize = kernel.lanes => left >= kernel.lanes \/ GroupSize = 1 \/ GroupSize = AtMost(kernel.lanes, left)
      BY DEF GroupSize
    <3> HIDE DEF left
    <3>3. AtMost(kernel.lanes, left) \in 1 .. left /\ 1 \in 1 .. left
      BY <2>3, <2>4 DEF AtMost
    <3> QED BY <2>3, <2>4, <3>1, <3>2, <3>3
  <2>6. ASSUME NEW f \in Faces(ldu), row <= t[ldu.lower[f]]
        PROVE  row + GroupSize <= t[ldu.upper[f]]
    <3>1. e <= t[ldu.upper[f]] /\ t[ldu.upper[f]] \in Nat
      BY <1>1, <1>2, <1>3, <1>4, <2>2, <2>6
    <3>2. row + GroupSize <= e
      BY <1>4, <2>2, <2>5
    <3>3. GroupSize \in Nat
      BY <2>3, <2>5
    <3> QED BY <1>4, <2>2, <3>1, <3>2, <3>3
  <2>7. GroupSize \in 1 .. NCells - row
    BY <1>4, <2>3, <2>5
  <2> QED BY <1>6, <2>6, <2>7
<1> QED BY <1>5, <1>6

-----------------------------------------------------------------------------
(* What a row reads. *)

\* An entry of a row: whose side it is, and the cell it reads.
LEMMA EntryFacts ==
  ASSUME ArgumentsOK, NEW c \in Cells, NEW e, e = RowEntries(c), NEW i \in 1 .. Len(e)
  PROVE  /\ e[i] \in Entry(ldu) /\ e[i].side \in {"lower", "upper"}
         /\ e[i].side = "lower" => ldu.upper[e[i].face] = c /\ e[i].col = ldu.lower[e[i].face]
         /\ e[i].side = "upper" => ldu.lower[e[i].face] = c /\ e[i].col = ldu.upper[e[i].face]
         /\ kernel.rows # "scatter" /\ call.arrangement # "locality" =>
              (e[i].side = "lower" <=> i <= NLower(ldu, c))
         /\ kernel.rows = "scatter" => e[i].side = "upper"
<1> DEFINE w == WavefrontRow(ldu, c)
           o == Outgoing(ldu, c)
<1>1. /\ e \in Seq(Entry(ldu)) /\ Len(e) \in Nat
      /\ kernel.rows = "scatter" => e = o
      /\ kernel.rows # "scatter" /\ call.arrangement # "locality" => e = w
      /\ call.arrangement = "locality" => kernel.rows # "scatter" /\ Range(e) = Range(w)
  BY RowEntriesAre
<1>2. IsAddressing(ldu)
  BY ArgumentFacts
<1>3. /\ w \in Seq(Entry(ldu)) /\ Len(w) \in Nat
      /\ \A k \in 1 .. Len(w) :
           /\ w[k].side = "lower" <=> k <= NLower(ldu, c)
           /\ w[k].side = "lower" => ldu.upper[w[k].face] = c /\ w[k].col = ldu.lower[w[k].face]
           /\ w[k].side = "upper" => ldu.lower[w[k].face] = c /\ w[k].col = ldu.upper[w[k].face]
  BY <1>2, RowFacts
<1>4. /\ Len(o) = NUpper(ldu, c)
      /\ \A k \in 1 .. NUpper(ldu, c) :
           ldu.lower[o[k].face] = c /\ o[k].side = "upper" /\ o[k].col = ldu.upper[o[k].face]
  BY <1>2, OutgoingIs
<1>5. e[i] \in Entry(ldu) /\ e[i].side \in {"lower", "upper"}
  <2>1. e[i] \in Entry(ldu)
    BY <1>1, ElementOfSeq
  <2> QED BY <2>1 DEF Entry
<1> HIDE DEF w, o
<1>6. CASE kernel.rows = "scatter"
  BY <1>1, <1>4, <1>5, <1>6
<1>7. CASE kernel.rows # "scatter" /\ call.arrangement # "locality"
  BY <1>1, <1>3, <1>5, <1>7
<1>8. CASE call.arrangement = "locality"
  <2>1. kernel.rows # "scatter" /\ Range(e) = Range(w)
    BY <1>1, <1>8
  <2>2. DOMAIN e = 1 .. Len(e) /\ DOMAIN w = 1 .. Len(w)
    BY <1>1, <1>3, LenProperties
  <2>3. e[i] \in Range(w)
    BY <2>1, <2>2 DEF Range
  <2>4. PICK k \in 1 .. Len(w) : e[i] = w[k]
    BY <2>2, <2>3 DEF Range
  <2> QED BY <1>3, <1>5, <1>8, <2>1, <2>4
<1> QED BY <1>6, <1>7, <1>8

\* The rows of a group: they lie in the matrix, begin where the schedule says,
\* and this half-sweep has been at the neighbours on one side of them.
LEMMA RowsFacts ==
  ASSUME ArgumentsOK, ScheduleOK, PlaceOK, half < NHalves, ~ Done
  PROVE  /\ row \in Cells /\ half \in Nat /\ NHalves \in Nat
         /\ Rows \subseteq Cells
         /\ Backward => Rows = {row}
         /\ ~ Backward => Rows = row .. row + GroupSize - 1 /\ GroupSize \in 1 .. NCells - row
         /\ \A r \in Rows : Begin(r) = packed.rowStarts[r + 1]
         /\ \A f \in Faces(ldu) : \A r \in Rows :
              /\ ldu.upper[f] = CellOf(r) => (Updated(ldu.lower[f]) <=> ~ Backward)
              /\ ldu.lower[f] = CellOf(r) => (Updated(ldu.upper[f]) <=> Backward)
<1> DEFINE t == packed.cellToRow
<1>1. /\ kernel \in Kernels /\ Plausible(kernel) /\ IsAddressing(ldu) /\ NHalves \in Nat
  BY ArgumentFacts, KernelFacts DEF ArgumentsOK
<1>2. NCells \in Nat /\ \A z \in Cells : z \in Nat /\ z < NCells
  BY NCellsAssumption DEF Cells
<1>3. row \in Cells /\ half \in Nat
  <2>1. half \in Nat /\ row \in IF Backward THEN -1 .. NCells - 1 ELSE 0 .. NCells
    BY <1>1 DEF PlaceOK
  <2>2. CASE Backward
    <3>1. ~ (row < 0) /\ row \in -1 .. NCells - 1
      BY <2>1, <2>2 DEF Done
    <3> QED BY <1>2, <2>1, <3>1 DEF Cells
  <2>3. CASE ~ Backward
    <3>1. row # NCells /\ row \in 0 .. NCells
      BY <2>1, <2>3 DEF Done
    <3> QED BY <1>2, <2>1, <3>1 DEF Cells
  <2> QED BY <2>2, <2>3
<1>4. Backward => Rows = {row}
  BY <1>2, <1>3 DEF Rows
<1>5. ~ Backward => Rows = row .. row + GroupSize - 1
  BY DEF Rows
<1>6. /\ GroupSize \in 1 .. NCells - row
      /\ \A f \in Faces(ldu) : row <= t[ldu.lower[f]] => row + GroupSize <= t[ldu.upper[f]]
  BY <1>3, GroupFacts
<1>7. Rows \subseteq Cells
  <2>1. CASE Backward
    BY <1>3, <1>4, <2>1
  <2>2. CASE ~ Backward
    <3> SUFFICES ASSUME NEW r \in row .. row + GroupSize - 1 PROVE r \in Cells
      BY <1>5, <2>2
    <3>1. r \in 0 .. NCells - 1
      BY <1>2, <1>3, <1>6
    <3> QED BY <3>1 DEF Cells
  <2> QED BY <2>1, <2>2
<1>8. \A r \in Rows : r \in Nat /\ row <= r /\ (Backward => r = row) /\ (~ Backward => r < row + GroupSize)
  <2> SUFFICES ASSUME NEW r \in Rows
      PROVE r \in Nat /\ row <= r /\ (Backward => r = row) /\ (~ Backward => r < row + GroupSize)
    OBVIOUS
  <2>1. CASE Backward
    BY <1>2, <1>3, <1>4, <2>1
  <2>2. CASE ~ Backward
    <3>1. r \in row .. row + GroupSize - 1
      BY <1>5, <2>2
    <3> QED BY <1>2, <1>3, <1>6, <2>2, <3>1
  <2> QED BY <2>1, <2>2
<1>9. ASSUME NEW r \in Rows PROVE Begin(r) = packed.rowStarts[r + 1]
  <2>1. packed.rowStarts[row + 1] \in Nat /\ packed.rowStarts[r + 1] \in Nat
    BY <1>3, <1>7, ScheduleFacts
  <2>2. CASE kernel.begin = "cursor"
    <3>1. cursor = packed.rowStarts[row + 1]
      BY <2>2 DEF PlaceOK
    <3>2. Begin(r) = cursor + packed.rowStarts[r + 1] - packed.rowStarts[row + 1]
      BY <2>2 DEF Begin
    <3> QED BY <2>1, <3>1, <3>2
  <2>3. CASE kernel.begin # "cursor"
    BY <2>3 DEF Begin
  <2> QED BY <2>2, <2>3
<1>10. ASSUME NEW f \in Faces(ldu), NEW r \in Rows
       PROVE  /\ ldu.upper[f] = CellOf(r) => (Updated(ldu.lower[f]) <=> ~ Backward)
              /\ ldu.lower[f] = CellOf(r) => (Updated(ldu.upper[f]) <=> Backward)
  <2> DEFINE c == ldu.lower[f]
             d == ldu.upper[f]
  <2>1. c \in Cells /\ d \in Cells
    BY <1>1, FaceFacts
  <2>2. t[c] \in Nat /\ t[d] \in Nat /\ t[c] < t[d] /\ t[CellOf(r)] = r /\ r \in Cells
    BY <1>2, <1>7, <2>1, ScheduleFacts
  <2>3. row <= t[c] => row + GroupSize <= t[d]
    BY <1>6
  <2>4. row \in Nat /\ GroupSize \in Nat /\ r \in Nat /\ row <= r
        /\ (Backward => r = row) /\ (~ Backward => r < row + GroupSize)
    BY <1>2, <1>3, <1>6, <1>8
  <2>5. \A x \in Cells : Updated(x) <=> IF Backward THEN t[x] > row ELSE t[x] < row
    BY DEF Updated
  <2>6. /\ Updated(c) <=> IF Backward THEN t[c] > row ELSE t[c] < row
        /\ Updated(d) <=> IF Backward THEN t[d] > row ELSE t[d] < row
    BY <2>1, <2>5
  <2> HIDE DEF c, d, t
  <2>7. ASSUME d = CellOf(r) PROVE Updated(c) <=> ~ Backward
    <3>1. t[d] = r
      BY <2>2, <2>7
    <3> QED BY <2>2, <2>3, <2>4, <2>6, <3>1
  <2>8. ASSUME c = CellOf(r) PROVE Updated(d) <=> Backward
    <3>1. t[c] = r
      BY <2>2, <2>8
    <3> QED BY <2>2, <2>4, <2>6, <3>1
  <2> QED BY <2>7, <2>8 DEF c, d
<1> QED BY <1>1, <1>3, <1>4, <1>5, <1>6, <1>7, <1>9, <1>10

\* the value a contribution is read with by the reference smoother
ValueOf(side) == IF (side = "lower") = Backward THEN half ELSE half + 1

\* A forward half-sweep reads new values below and old ones above.
LEMMA ValueIs ==
  ASSUME NEW side \in {"lower", "upper"}
  PROVE  /\ ValueOf(side) = IF (side = "lower" /\ Backward) \/ (side = "upper" /\ ~ Backward)
                            THEN half ELSE half + 1
<1>1. Backward \in BOOLEAN
  BY DEF Backward
<1>2. CASE side = "lower"
  BY <1>1, <1>2 DEF ValueOf
<1>3. CASE side = "upper"
  <2>1. (side = "lower") = FALSE
    BY <1>3
  <2>2. ((side = "lower") = Backward) <=> ~ Backward
    BY <1>1, <2>1
  <2>3. CASE Backward
    BY <1>3, <2>2, <2>3 DEF ValueOf
  <2>4. CASE ~ Backward
    BY <1>3, <2>2, <2>4 DEF ValueOf
  <2> QED BY <2>3, <2>4
<1> QED BY <1>2, <1>3

\* Whatever array a contribution is read from, it holds that value.
LEMMA TermIs ==
  ASSUME ArgumentsOK, ScheduleOK, PlaceOK, MemoryOK, half < NHalves, ~ Done,
         NEW r \in Rows, NEW i \in 1 .. Degree(r), NEW e, e = RowEntries(CellOf(r))[i]
  PROVE  Term(r, i) = Reading(e, ValueOf(e.side))
<1> DEFINE c == CellOf(r)
           es == RowEntries(c)
           V == ValueOf(e.side)
           t == packed.cellToRow
<1>1. /\ row \in Cells /\ half \in Nat /\ NHalves \in Nat /\ r \in Cells
      /\ Begin(r) = packed.rowStarts[r + 1]
      /\ \A f \in Faces(ldu) :
              /\ ldu.upper[f] = c => (Updated(ldu.lower[f]) <=> ~ Backward)
              /\ ldu.lower[f] = c => (Updated(ldu.upper[f]) <=> Backward)
  BY RowsFacts
<1>2. /\ c \in Cells /\ Degree(r) = Len(es)
      /\ packed.entries[Begin(r) + i] = e
      /\ packed.incomingCounts[r + 1] = NLower(ldu, c)
      /\ t \in [Cells -> Cells]
  BY <1>1, ScheduleFacts
<1>3. DecodedColumns(r)[i] = e.col
  BY <1>1, ColumnsBack
<1>4. /\ e \in Entry(ldu) /\ e.side \in {"lower", "upper"}
      /\ e.side = "lower" => ldu.upper[e.face] = c /\ e.col = ldu.lower[e.face]
      /\ e.side = "upper" => ldu.lower[e.face] = c /\ e.col = ldu.upper[e.face]
      /\ kernel.rows # "scatter" /\ call.arrangement # "locality" =>
           (e.side = "lower" <=> i <= NLower(ldu, c))
  BY <1>2, EntryFacts
<1>5. e.face \in Faces(ldu) /\ e.col \in Cells
  BY <1>4 DEF Entry
<1>6. kernel \in Kernels /\ Plausible(kernel) /\ (call.arrangement = "locality" => kernel = Gather)
  BY KernelFacts DEF ArgumentsOK
<1> HIDE DEF c, es, V, t
<1>7. Updated(e.col) <=> V = half + 1
  <2>1. CASE e.side = "lower"
    <3>1. Updated(e.col) <=> ~ Backward
      BY <1>1, <1>4, <1>5, <2>1
    <3>2. V = IF Backward THEN half ELSE half + 1
      BY <2>1, ValueIs DEF V
    <3> QED BY <1>1, <3>1, <3>2
  <2>2. CASE e.side = "upper"
    <3>1. Updated(e.col) <=> Backward
      BY <1>1, <1>4, <1>5, <2>2
    <3>2. V = IF Backward THEN half + 1 ELSE half
      BY <2>2, ValueIs DEF V
    <3> QED BY <1>1, <3>1, <3>2
  <2> QED BY <1>4, <2>1, <2>2
<1>8. V \in {half, half + 1}
  BY DEF V, ValueOf
<1>13. i \in Nat /\ NLower(ldu, c) \in Nat
  <2>1. Degree(r) \in Nat /\ IsAddressing(ldu)
    BY <1>1, ScheduleFacts, ArgumentFacts
  <2> QED BY <1>2, <2>1, RowFacts
<1>9. kernel.coeffs = "live" \/ kernel.lower = "edges" \/ kernel.reordered
        => (e.side = "lower" <=> i <= NLower(ldu, c)) /\ kernel.rows = "wavefront"
  BY <1>4, <1>6, GatherFacts DEF Plausible
<1> DEFINE fromEdge == kernel.lower = "edges" /\ i <= packed.incomingCounts[r + 1]
           side == IF kernel.coeffs = "packed" THEN e.side
                   ELSE IF i <= packed.incomingCounts[r + 1] THEN "lower" ELSE "upper"
           value == IF fromEdge THEN edgeValues[e.face]
                    ELSE IF InRowOrder(i, r) THEN reorderedPsi[t[e.col]]
                    ELSE psi[e.col]
<1>10. Term(r, i) = [face |-> e.face, side |-> side, col |-> e.col, value |-> value]
  BY <1>2, <1>3 DEF Term, t
<1>11. side = e.side
  BY <1>2, <1>4, <1>6, <1>9 DEF Plausible
<1>12. value = V
  <2>1. CASE fromEdge
    <3>1. e.side = "lower" /\ e.col = ldu.lower[e.face]
      BY <1>2, <1>4, <1>9, <2>1
    <3>2. edgeValues[e.face] = EdgeHeld(e.face)
      BY <1>5 DEF MemoryOK
    <3>3. EdgeHeld(e.face) = IF Updated(e.col) THEN half + 1 ELSE half
      BY <2>1, <3>1 DEF EdgeHeld
    <3>4. value = edgeValues[e.face]
      BY <2>1
    <3> HIDE DEF value, fromEdge
    <3> QED BY <1>7, <1>8, <3>2, <3>3, <3>4
  <2>2. CASE ~ fromEdge /\ ~ kernel.reordered
    <3>1. value = psi[e.col]
      BY <2>2 DEF InRowOrder
    <3>2. psi[e.col] = PsiHeld(e.col)
      BY <1>5 DEF MemoryOK
    <3>3. PsiHeld(e.col) = IF Updated(e.col) THEN half + 1 ELSE half
      BY <2>2 DEF PsiHeld
    <3> HIDE DEF value, fromEdge
    <3> QED BY <1>7, <1>8, <3>1, <3>2, <3>3
  <2>3. CASE ~ fromEdge /\ kernel.reordered
    <3>1. ~ Backward /\ call.nSweeps > 1 /\ call.nSweeps \in Nat /\ NHalves = call.nSweeps
      BY <1>6, <2>3, ArgumentFacts DEF Plausible, Backward, ScheduleOK, NHalves
    <3>2. /\ e.side = "lower" <=> i <= NLower(ldu, c)
          /\ e.side = "lower" => V = half + 1
          /\ e.side = "upper" => V = half
          /\ Updated(e.col) <=> t[e.col] < row
      <4>1. e.side = "lower" <=> i <= NLower(ldu, c)
        BY <1>9, <2>3
      <4>2. (e.side = "lower" => V = half + 1) /\ (e.side = "upper" => V = half)
        BY <1>4, <3>1, ValueIs DEF V
      <4>3. Updated(e.col) <=> t[e.col] < row
        BY <3>1 DEF Updated, t
      <4> QED BY <4>1, <4>2, <4>3
    <3>3. psi[e.col] = PsiHeld(e.col)
      BY <1>5 DEF MemoryOK
    <3>4. reorderedPsi[t[e.col]] = RowHeld(t[e.col])
      BY <1>2, <1>5 DEF MemoryOK
    <3>5. InRowOrder(i, r) <=>
            /\ half = 0 => e.side = "lower"
            /\ half = NHalves - 1 => e.side = "upper"
      <4>1. InRowOrder(i, r) <=>
              /\ half = 0 => i <= NLower(ldu, c)
              /\ half = NHalves - 1 /\ half > 0 => i > NLower(ldu, c)
        BY <1>2, <2>3 DEF InRowOrder
      <4>2. i > NLower(ldu, c) <=> e.side = "upper"
        BY <1>4, <1>13, <3>2
      <4>3. half = NHalves - 1 => half > 0
        BY <1>1, <3>1
      <4> QED BY <3>2, <4>1, <4>2, <4>3
    <3>6. value = IF InRowOrder(i, r) THEN reorderedPsi[t[e.col]] ELSE psi[e.col]
      BY <2>3
    <3>7. PsiHeld(e.col) = IF half = NHalves - 1 /\ Updated(e.col) THEN half + 1 ELSE 0
      BY <1>1, <2>3 DEF PsiHeld
    <3>8. RowHeld(t[e.col]) = IF half = NHalves - 1 THEN half
                              ELSE IF Updated(e.col) THEN half + 1 ELSE half
      BY <1>1, <2>3, <3>2 DEF RowHeld
    <3> HIDE DEF value, fromEdge
    <3>9. CASE InRowOrder(i, r)
      <4>1. value = RowHeld(t[e.col])
        BY <3>4, <3>6, <3>9
      <4>2. half = NHalves - 1 => e.side = "upper"
        BY <3>5, <3>9
      <4> QED BY <1>1, <1>7, <1>8, <3>2, <3>8, <4>1, <4>2
    <3>10. CASE ~ InRowOrder(i, r)
      <4>1. value = PsiHeld(e.col)
        BY <3>3, <3>6, <3>10
      <4>2. (half = 0 /\ e.side = "upper") \/ (half = NHalves - 1 /\ e.side = "lower")
        BY <1>4, <3>5, <3>10
      <4> QED BY <1>1, <1>7, <3>1, <3>2, <3>7, <4>1, <4>2
    <3> QED BY <3>9, <3>10
  <2> QED BY <2>1, <2>2, <2>3
<1> HIDE DEF side, value
<1> QED BY <1>10, <1>11, <1>12 DEF Reading, V

-----------------------------------------------------------------------------
(* What a row subtracts. *)

\* a contribution with the value that the reference smoother reads
ReferenceReading(e) == Reading(e, ValueOf(e.side))

\* The reference smoother reads the wavefront row of a cell.
LEMMA ReferenceIs ==
  ASSUME half \in Nat, NEW c, NEW w, w = WavefrontRow(ldu, c)
  PROVE  ReferenceTerms(c, half + 1) = [i \in DOMAIN w |-> ReferenceReading(w[i])]
<1> DEFINE back == kernel.symmetric /\ (half + 1) % 2 = 0
           v == half + 1
<1>1. back = Backward
  <2>1. (half + 1) % 2 = 0 <=> half % 2 = 1
    OBVIOUS
  <2>2. back \in BOOLEAN /\ Backward \in BOOLEAN /\ (back <=> Backward)
    BY <2>1 DEF Backward
  <2> HIDE DEF back
  <2> QED BY <2>2
<1>2. v - 1 = half
  OBVIOUS
<1>3. ReferenceTerms(c, v) =
        [i \in DOMAIN w |-> Reading(w[i], IF (w[i].side = "lower") = back THEN v - 1 ELSE v)]
  BY DEF ReferenceTerms
<1> HIDE DEF back
<1> QED BY <1>1, <1>2, <1>3 DEF ReferenceReading, ValueOf

\* Adding up in lanes rearranges the terms.
LEMMA LanesIs ==
  ASSUME kernel.sums \in Nat \ {0}, NEW E, NEW terms \in Seq(E)
  PROVE  /\ kernel.sums = 1 => InLanes(terms) = terms
         /\ Len(InLanes(terms)) = Len(terms) /\ Range(InLanes(terms)) = Range(terms)
<1> DEFINE k == kernel.sums
           D == DOMAIN terms
           lane(i) == (i - 1) % k
           earlier(i, j) == lane(i) < lane(j) \/ (lane(i) = lane(j) /\ i < j)
           R == {e \in D \X D : earlier(e[1], e[2])}
           before(x) == {y \in D : earlier(y, x)}
           place(x) == Cardinality(before(x))
           order == [i \in 1 .. Cardinality(D) |-> CHOOSE x \in D : place(x) = i - 1]
           s == [i \in D |-> terms[order[i]]]
<1>1. D = 1 .. Len(terms) /\ Len(terms) \in Nat
  BY LenProperties
<1>2. \A i \in D : i \in Int /\ lane(i) \in Int
  BY <1>1
<1>3. InLanes(terms) = IF k = 1 THEN terms ELSE s
  BY DEF InLanes, Arrange
<1> HIDE DEF lane
<1>4. Orders(R, D)
  <2>1. \A x, y \in D : <<x, y>> \in R <=> earlier(x, y)
    OBVIOUS
  <2> HIDE DEF R, D
  <2>2. \A x, y \in D : x # y => <<x, y>> \in R \/ <<y, x>> \in R
    BY <1>2, <2>1
  <2>3. \A x, y, z \in D : <<x, y>> \in R /\ <<y, z>> \in R => <<x, z>> \in R
    BY <1>2, <2>1
  <2>4. \A x \in D : <<x, x>> \notin R
    BY <1>2, <2>1
  <2> QED BY <2>2, <2>3, <2>4 DEF Orders
<1>5. order = Arranged(D, R)
  <2>1. ASSUME NEW x \in D PROVE before(x) = {y \in D : <<y, x>> \in R}
    <3> HIDE DEF D, earlier
    <3> QED OBVIOUS
  <2>2. \A x \in D : place(x) = PlaceIn(D, R, x)
    <3> HIDE DEF before, R, D
    <3> QED BY <2>1, Zenon DEF PlaceIn
  <2> HIDE DEF D, R, place
  <2> QED BY <2>2 DEF Arranged
<1>6. s = [i \in DOMAIN terms |-> terms[order[i]]]
  OBVIOUS
<1> HIDE DEF R, order, s
<1>7. Len(s) = Len(terms) /\ Range(s) = Range(terms)
  BY <1>4, <1>5, <1>6, ShuffledIs
<1> HIDE DEF k, D
<1> QED BY <1>3, <1>7 DEF k

\* What the row of a cell subtracts is what the reference smoother subtracts.
SubtractsReference(c, s) ==
  LET reference == ReferenceTerms(c, half + 1)
  IN  IF kernel.sums = 1 /\ call.arrangement # "locality"
        THEN s = reference
        ELSE Len(s) = Len(reference) /\ Range(s) = Range(reference)

\* The terms of a row are its entries with the values of the reference smoother.
LEMMA TermsAre ==
  ASSUME ArgumentsOK, ScheduleOK, PlaceOK, MemoryOK, half < NHalves, ~ Done,
         NEW r \in Rows, NEW e, e = RowEntries(CellOf(r)),
         NEW terms, terms = [i \in 1 .. Degree(r) |-> Term(r, i)]
  PROVE  /\ e \in Seq(Entry(ldu)) /\ Degree(r) = Len(e) /\ Len(e) \in Nat
         /\ terms = [i \in 1 .. Len(e) |-> ReferenceReading(e[i])]
<1>1. r \in Cells
  BY RowsFacts
<1>2. Degree(r) = Len(e) /\ CellOf(r) \in Cells
  BY <1>1, ScheduleFacts
<1>3. e \in Seq(Entry(ldu)) /\ Len(e) \in Nat
  BY <1>2, RowEntriesAre
<1>4. \A i \in 1 .. Degree(r) : Term(r, i) = ReferenceReading(e[i])
  <2> SUFFICES ASSUME NEW i \in 1 .. Degree(r) PROVE Term(r, i) = ReferenceReading(e[i])
    OBVIOUS
  <2>1. Term(r, i) = Reading(e[i], ValueOf(e[i].side))
    BY TermIs
  <2> QED BY <2>1 DEF ReferenceReading
<1>5. terms = [i \in 1 .. Degree(r) |-> ReferenceReading(e[i])]
  BY <1>4
<1> QED BY <1>2, <1>3, <1>5

\* A smoother that gathers.
LEMMA GatheredIs ==
  ASSUME ArgumentsOK, ScheduleOK, PlaceOK, MemoryOK, half < NHalves, ~ Done,
         NEW r \in Rows, kernel.rows # "scatter"
  PROVE  SubtractsReference(CellOf(r), Subtracted(r))
<1> DEFINE c == CellOf(r)
           e == RowEntries(c)
           w == WavefrontRow(ldu, c)
           terms == [i \in 1 .. Degree(r) |-> Term(r, i)]
           ref == ReferenceTerms(c, half + 1)
<1>1. half \in Nat /\ r \in Cells
  BY RowsFacts
<1>2. c \in Cells
  BY <1>1, ScheduleFacts
<1>3. /\ e \in Seq(Entry(ldu)) /\ Len(e) \in Nat
      /\ terms = [i \in 1 .. Len(e) |-> ReferenceReading(e[i])]
  BY TermsAre
<1>4. /\ call.arrangement # "locality" => e = w
      /\ call.arrangement = "locality" => Len(e) = Len(w) /\ Range(e) = Range(w)
  BY <1>2, RowEntriesAre
<1>5. w \in Seq(Entry(ldu)) /\ Len(w) \in Nat
  BY <1>2, ArgumentFacts, RowFacts
<1>6. ref = [i \in DOMAIN w |-> ReferenceReading(w[i])]
  BY <1>1, ReferenceIs
<1>7. Subtracted(r) = InLanes(terms)
  BY DEF Subtracted
<1>8. kernel.sums \in Nat \ {0} /\ (call.arrangement = "locality" => kernel.sums = 1)
  BY KernelFacts, GatherFacts DEF ArgumentsOK, Plausible
<1> HIDE DEF c, e, w, ref, terms
<1>9. DOMAIN e = 1 .. Len(e) /\ DOMAIN w = 1 .. Len(w)
  BY <1>3, <1>5, LenProperties
<1> DEFINE E == {ReferenceReading(x) : x \in Entry(ldu)}
<1>10. terms \in Seq(E) /\ Len(terms) = Len(e)
  <2> DEFINE n == Len(e)
  <2>1. \A i \in 1 .. n : ReferenceReading(e[i]) \in E
    <3>1. \A i \in 1 .. n : e[i] \in Entry(ldu)
      BY <1>3, ElementOfSeq
    <3> QED BY <3>1
  <2> HIDE DEF E
  <2>2. terms \in [1 .. n -> E]
    BY <1>3, <2>1
  <2>3. n \in Nat
    BY <1>3
  <2> HIDE DEF n
  <2>4. terms \in Seq(E) /\ Len(terms) = n
    BY <2>2, <2>3, FunctionIsSeq
  <2> QED BY <2>4 DEF n
<1>11. ref \in Seq(E) /\ Len(ref) = Len(w)
  <2> DEFINE n == Len(w)
  <2>1. \A i \in 1 .. n : ReferenceReading(w[i]) \in E
    <3>1. \A i \in 1 .. n : w[i] \in Entry(ldu)
      BY <1>5, ElementOfSeq
    <3> QED BY <3>1
  <2> HIDE DEF E
  <2>2. ref \in [1 .. n -> E]
    BY <1>6, <1>9, <2>1
  <2>3. n \in Nat
    BY <1>5
  <2> HIDE DEF n
  <2>4. ref \in Seq(E) /\ Len(ref) = n
    BY <2>2, <2>3, FunctionIsSeq
  <2> QED BY <2>4 DEF n
<1> HIDE DEF E
<1>12. /\ kernel.sums = 1 => InLanes(terms) = terms
       /\ Len(InLanes(terms)) = Len(terms) /\ Range(InLanes(terms)) = Range(terms)
  BY <1>8, <1>10, LanesIs
<1>13. CASE call.arrangement # "locality"
  <2>1. terms = ref
    BY <1>3, <1>4, <1>6, <1>9, <1>13
  <2> QED BY <1>7, <1>12, <1>13, <2>1, SMTT(30) DEF SubtractsReference, ref, c
<1>14. CASE call.arrangement = "locality"
  <2>1. Len(e) = Len(w) /\ Range(e) = Range(w)
    BY <1>4, <1>14
  <2>2. Range(terms) = Range(ref)
    <3>1. ASSUME NEW x \in Range(terms) PROVE x \in Range(ref)
      <4>1. PICK i \in 1 .. Len(e) : x = ReferenceReading(e[i])
        BY <1>3 DEF Range
      <4>2. e[i] \in Range(w)
        BY <1>9, <2>1 DEF Range
      <4>3. PICK k \in DOMAIN w : w[k] = e[i]
        BY <4>2 DEF Range
      <4>4. k \in DOMAIN ref /\ ref[k] = x
        BY <1>6, <4>1, <4>3
      <4> QED BY <4>4 DEF Range
    <3>2. ASSUME NEW x \in Range(ref) PROVE x \in Range(terms)
      <4>1. PICK k \in DOMAIN w : x = ReferenceReading(w[k])
        BY <1>6 DEF Range
      <4>2. w[k] \in Range(e)
        BY <2>1 DEF Range
      <4>3. PICK i \in 1 .. Len(e) : e[i] = w[k]
        BY <1>9, <4>2 DEF Range
      <4>4. i \in DOMAIN terms /\ terms[i] = x
        BY <1>3, <4>1, <4>3
      <4> QED BY <4>4 DEF Range
    <3> QED BY <3>1, <3>2
  <2>3. Len(Subtracted(r)) = Len(ref) /\ Range(Subtracted(r)) = Range(ref)
    BY <1>7, <1>10, <1>11, <1>12, <2>1, <2>2
  <2> QED BY <1>14, <2>3 DEF SubtractsReference, ref, c
<1> QED BY <1>13, <1>14

\* The reference smoothers: the lower part of a row waits in bPrime.
LEMMA ScatteredIs ==
  ASSUME ArgumentsOK, ScheduleOK, PlaceOK, MemoryOK, ScatterOK, half < NHalves, ~ Done,
         NEW r \in Rows, kernel.rows = "scatter"
  PROVE  SubtractsReference(CellOf(r), Subtracted(r))
<1> DEFINE c == CellOf(r)
           o == Outgoing(ldu, c)
           w == WavefrontRow(ldu, c)
           F == IncomingFaces(ldu, c)
           a == Ascending(F)
           p == NLower(ldu, c)
           q == NUpper(ldu, c)
           terms == [i \in 1 .. Degree(r) |-> Term(r, i)]
           ref == ReferenceTerms(c, half + 1)
           b == bPrime[c]
           v == ValueOf("lower")
<1>1. /\ half \in Nat /\ r \in Cells /\ row \in Cells
      /\ Backward => Rows = {row}
      /\ ~ Backward => Rows = row .. row + GroupSize - 1
  BY RowsFacts
<1>2. c \in Cells /\ packed.cellToRow[c] = r /\ packed.cellToRow[c] = c
  BY <1>1, ScheduleFacts
<1>3. RowEntries(c) = o /\ call.arrangement # "locality"
  BY <1>2, RowEntriesAre
<1>4. /\ o \in Seq(Entry(ldu)) /\ Len(o) \in Nat
      /\ terms = [i \in 1 .. Len(o) |-> ReferenceReading(o[i])]
  BY <1>3, TermsAre
<1>5. /\ IsAddressing(ldu) /\ UpperTriangular(ldu)
      /\ kernel.sums = 1 /\ kernel.group = "single"
  BY KernelFacts, ArgumentFacts DEF ArgumentsOK, Plausible
<1>6. /\ p \in Nat /\ q \in Nat /\ DOMAIN a = 1 .. p
      /\ w \in Seq(Entry(ldu)) /\ Len(w) = p + q
      /\ \A i \in 1 .. p : w[i] = FromOwner(ldu, a[i]) /\ w[i].side = "lower"
      /\ \A i \in p + 1 .. Len(w) : w[i] = o[i - p]
  BY <1>2, <1>5, WavefrontRowIs
<1>7. Len(o) = q
  BY <1>2, <1>5, OutgoingIs
<1>8. ref = [i \in DOMAIN w |-> ReferenceReading(w[i])]
  BY <1>1, ReferenceIs
<1>9. Subtracted(r) = b \o terms
  BY <1>5 DEF Subtracted, InLanes
<1>10. r = row /\ c = row
  <2>1. r = row
    <3>1. CASE Backward
      BY <1>1, <3>1
    <3>2. CASE ~ Backward
      <4>1. GroupSize = 1
        BY <1>1, <1>5, GroupFacts
      <4>2. r \in row .. row
        BY <1>1, <3>2, <4>1, CellsAreIntegers
      <4> QED BY <1>1, <4>2, CellsAreIntegers
    <3> QED BY <3>1, <3>2
  <2> QED BY <1>2, <2>1
<1>11. b = LowerReadings(ldu, F, v)
  <2>1. CASE Backward
    <3>1. v = half
      BY <2>1, ValueIs
    <3>2. c <= row
      BY <1>1, <1>10, CellsAreIntegers
    <3> QED BY <1>2, <2>1, <3>1, <3>2 DEF ScatterOK
  <2>2. CASE ~ Backward
    <3>1. v = half + 1
      BY <2>2, ValueIs
    <3>2. {f \in IncomingFaces(ldu, c) : ldu.lower[f] < row} = F
      <4> SUFFICES ASSUME NEW f \in F PROVE ldu.lower[f] < row
        OBVIOUS
      <4>1. f \in Faces(ldu) /\ ldu.upper[f] = c
        BY DEF IncomingFaces
      <4> QED BY <1>5, <1>10, <4>1 DEF UpperTriangular
    <3>3. b = LowerReadings(ldu, {f \in IncomingFaces(ldu, c) : ldu.lower[f] < row}, half + 1)
      BY <1>2, <2>2 DEF ScatterOK
    <3> HIDE DEF F, b, v
    <3> QED BY <3>1, <3>2, <3>3
  <2> QED BY <2>1, <2>2
<1>12. b = [i \in 1 .. p |-> Reading(FromOwner(ldu, a[i]), v)]
  <2> HIDE DEF F, b, v, p
  <2> QED BY <1>6, <1>11 DEF LowerReadings
<1> HIDE DEF c, o, w, F, a, p, q, terms, ref, b, v
<1>13. DOMAIN w = 1 .. p + q
  BY <1>6, LenProperties
<1> DEFINE E == {ReferenceReading(x) : x \in Entry(ldu)}
<1>14. \A i \in 1 .. p + q : ref[i] = ReferenceReading(w[i]) /\ ref[i] \in E
  <2>1. \A i \in 1 .. p + q : w[i] \in Entry(ldu)
    BY <1>6, ElementOfSeq
  <2> QED BY <1>8, <1>13, <2>1
<1> HIDE DEF E
<1>15. \A i \in 1 .. p : b[i] = ref[i] /\ i \in 1 .. p + q
  <2> SUFFICES ASSUME NEW i \in 1 .. p PROVE b[i] = ref[i] /\ i \in 1 .. p + q
    OBVIOUS
  <2>1. i \in 1 .. p + q
    BY <1>6
  <2>2. b[i] = Reading(w[i], v)
    BY <1>6, <1>12
  <2>3. ref[i] = Reading(w[i], v)
    BY <1>6, <1>14, <2>1 DEF ReferenceReading, v
  <2> QED BY <2>1, <2>2, <2>3
<1>16. \A i \in 1 .. q : terms[i] = ref[p + i] /\ p + i \in 1 .. p + q
  <2> SUFFICES ASSUME NEW i \in 1 .. q PROVE terms[i] = ref[p + i] /\ p + i \in 1 .. p + q
    OBVIOUS
  <2>1. p + i \in 1 .. p + q /\ p + i \in p + 1 .. Len(w) /\ p + i - p = i
    BY <1>6
  <2>2. w[p + i] = o[i]
    BY <1>6, <2>1
  <2> QED BY <1>4, <1>7, <1>14, <2>1, <2>2
<1>17. b \in Seq(E) /\ Len(b) = p /\ terms \in Seq(E) /\ Len(terms) = q
  <2>1. b \in [1 .. p -> E]
    BY <1>12, <1>14, <1>15
  <2>2. terms \in [1 .. q -> E]
    BY <1>4, <1>7, <1>14, <1>16
  <2> QED BY <1>6, <2>1, <2>2, FunctionIsSeq
<1>18. /\ b \o terms \in Seq(E) /\ Len(b \o terms) = p + q
       /\ \A i \in 1 .. p + q : (b \o terms)[i] = IF i <= p THEN b[i] ELSE terms[i - p]
  BY <1>17, ConcatProperties
<1>19. \A i \in 1 .. p + q : (b \o terms)[i] = ref[i]
  <2> SUFFICES ASSUME NEW i \in 1 .. p + q PROVE (b \o terms)[i] = ref[i]
    OBVIOUS
  <2>1. CASE i <= p
    <3>1. i \in 1 .. p
      BY <1>6, <2>1
    <3> QED BY <1>15, <1>18, <2>1, <3>1
  <2>2. CASE ~ (i <= p)
    <3>1. i - p \in 1 .. q /\ p + (i - p) = i
      BY <1>6, <2>2
    <3>2. terms[i - p] = ref[p + (i - p)]
      BY <1>16, <3>1
    <3> QED BY <1>18, <2>2, <3>1, <3>2
  <2> QED BY <2>1, <2>2
<1>20. b \o terms = ref
  <2> DEFINE s == b \o terms
  <2> HIDE DEF s
  <2>1. DOMAIN s = 1 .. p + q /\ s = [i \in DOMAIN s |-> s[i]]
    BY <1>18, LenProperties DEF s
  <2>2. s = [i \in 1 .. p + q |-> ref[i]]
    BY <1>19, <2>1 DEF s
  <2>3. ref = [i \in 1 .. p + q |-> ref[i]]
    BY <1>8, <1>13
  <2>4. s = ref
    BY <2>2, <2>3
  <2> QED BY <2>4 DEF s
<1> QED BY <1>3, <1>5, <1>9, <1>20 DEF SubtractsReference, ref, c

-----------------------------------------------------------------------------
(* Before and between the sweeps. *)

\* The schedule depends on the arguments and the kernel only.
LEMMA ScheduleStays ==
  ASSUME matrix' = matrix, call' = call, kernel' = kernel, width' = width
  PROVE  Schedule' = Schedule /\ (Representable' <=> Representable)
<1>1. ldu' = ldu /\ levels' = levels
  BY DEF ldu, levels
<1>2. Key' = Key
  BY <1>1 DEF Key
<1>3. \A key : WaveCells(key)' = WaveCells(key)
  BY <1>1 DEF WaveCells
<1>4. \A c : RowEntries(c)' = RowEntries(c)
  BY <1>1 DEF RowEntries
<1>5. \A c : Encoded(c)' = Encoded(c)
  BY <1>4 DEF Encoded
<1>6. WaveCells(Key)' = WaveCells(Key)
  BY <1>2, <1>3
<1>7. RowsOf' = RowsOf
  BY <1>6, <1>4 DEF RowsOf
<1>8. Representable' <=> Representable
  BY <1>4 DEF Representable
<1>9. Schedule' = Schedule
  BY <1>1, <1>5, <1>6, <1>7 DEF Schedule
<1> QED BY <1>8, <1>9

\* What does not change keeps its properties.
LEMMA SweepStays ==
  ASSUME matrix' = matrix, call' = call, kernel' = kernel, width' = width, packed' = packed,
         half' = half, row' = row, cursor' = cursor,
         psi' = psi, reorderedPsi' = reorderedPsi, edgeValues' = edgeValues, bPrime' = bPrime,
         ScheduleOK, PlaceOK, MemoryOK, ScatterOK
  PROVE  ScheduleOK' /\ PlaceOK' /\ MemoryOK' /\ ScatterOK'
<1>1. ldu' = ldu
  BY DEF ldu
<1>2. NHalves' = NHalves /\ Backward' = Backward
  BY DEF NHalves, Backward
<1>3. \A c : Updated(c)' = Updated(c)
  BY <1>2 DEF Updated
<1>4. /\ \A c : PsiHeld(c)' = PsiHeld(c)
      /\ \A r : RowHeld(r)' = RowHeld(r)
      /\ \A f : EdgeHeld(f)' = EdgeHeld(f)
  <2>1. \A c : PsiHeld(c)' = PsiHeld(c)
    BY <1>2, <1>3 DEF PsiHeld
  <2>2. \A r : RowHeld(r)' = RowHeld(r)
    BY <1>2 DEF RowHeld
  <2>3. \A f : EdgeHeld(f)' = EdgeHeld(f)
    BY <1>1, <1>2, <1>3 DEF EdgeHeld
  <2> QED BY <2>1, <2>2, <2>3
<1>5. ScheduleOK'
  BY ScheduleStays DEF ScheduleOK
<1>6. PlaceOK'
  BY <1>2 DEF PlaceOK
<1>7. MemoryOK'
  BY <1>1, <1>4 DEF MemoryOK
<1>8. ScatterOK'
  BY <1>1, <1>2 DEF ScatterOK
<1> QED BY <1>5, <1>6, <1>7, <1>8

\* So does what is known of the arguments.
LEMMA ArgumentsStay ==
  ASSUME ArgumentsOK, matrix' = matrix, call' = call, kernel' = kernel, width' = width
  PROVE  ArgumentsOK'
  BY DEF ArgumentsOK

\* SameArithmetic looks at these variables only.
LEMMA ArithmeticStays ==
  ASSUME SameArithmetic, matrix' = matrix, call' = call, kernel' = kernel,
         half' = half, computed' = computed
  PROVE  SameArithmetic'
<1>1. ldu' = ldu
  BY DEF ldu
<1>2. \A c, v : ReferenceTerms(c, v)' = ReferenceTerms(c, v)
  BY <1>1 DEF ReferenceTerms
<1> QED BY <1>2 DEF SameArithmetic

\* With nothing computed there is nothing to compare.
LEMMA NothingComputed == ASSUME computed' = <<>> PROVE SameArithmetic'
<1>1. \A c : c \notin DOMAIN computed'
  OBVIOUS
<1> QED BY <1>1 DEF SameArithmetic

\* The invariant holds at the beginning of a call.
LEMMA SerialInitially == SerialInit => SerialIInv
<1> SUFFICES ASSUME SerialInit PROVE SerialIInv
  OBVIOUS
<1>1. matrix \in Matrices /\ call \in Calls /\ width \in Widths /\ kernel = call.kernel
  BY DEF SerialInit
<1>2. call.kernel \in Kernels /\ (call.arrangement # "cells" => call.kernel = Gather)
  BY <1>1, CallsAssumption
<1>3. ArgumentsOK
  BY <1>1, <1>2 DEF ArgumentsOK
<1>4. SameArithmetic
  <2>1. \A c : c \notin DOMAIN computed
    BY DEF SerialInit
  <2> QED BY <2>1 DEF SameArithmetic
<1>5. stage = "build" /\ BeforeSweeps
  BY DEF SerialInit, BeforeSweeps, ldu
<1> QED BY <1>3, <1>4, <1>5 DEF SerialIInv

\* A fallback leaves the sweeps still to be done.
LEMMA FallBackKeeps == ASSUME SerialIInv, FallBack PROVE SerialIInv'
<1>1. /\ matrix' = matrix /\ call' = call /\ width' = width /\ stage' = stage /\ packed' = packed
      /\ half' = half /\ row' = row /\ cursor' = cursor /\ psi' = psi
      /\ reorderedPsi' = reorderedPsi /\ edgeValues' = edgeValues /\ bPrime' = bPrime
      /\ computed' = computed /\ stage = "build"
  BY DEF FallBack, input, memory
<1>2. ArgumentsOK /\ BeforeSweeps
  BY <1>1 DEF SerialIInv
<1>3. kernel.simd \/ kernel.reordered
  BY DEF FallBack
<1>4. kernel' \in {Gather, RowDegree}
  BY DEF FallBack
<1>5. ArgumentsOK'
  <2>1. RowDegree \in Kernels
    BY DEF Kernels
  <2>2. call.arrangement = "cells"
    BY <1>2, <1>3, GatherFacts DEF ArgumentsOK
  <2> QED BY <1>1, <1>2, <1>4, <2>1, <2>2, GatherFacts DEF ArgumentsOK
<1>6. BeforeSweeps'
  BY <1>1, <1>2 DEF BeforeSweeps, ldu
<1>7. SameArithmetic'
  BY <1>1, <1>2, NothingComputed DEF BeforeSweeps
<1> QED BY <1>1, <1>5, <1>6, <1>7 DEF SerialIInv

\* No faces, no readings.
LEMMA NoReadings ==
  ASSUME NEW m, NEW S, S = {}, NEW v PROVE LowerReadings(m, S, v) = <<>>
<1>1. Cardinality(S) = 0
  BY FS_EmptySet
<1> DEFINE a == Ascending(S)
<1>2. DOMAIN a = {}
  BY <1>1 DEF Ascending
<1> HIDE DEF a
<1> QED BY <1>2 DEF LowerReadings, a

\* Before the first half-sweep everything holds its initial value.
LEMMA BuildKeeps == ASSUME SerialIInv, Build PROVE SerialIInv'
<1>1. /\ matrix' = matrix /\ call' = call /\ width' = width /\ kernel' = kernel
      /\ half' = half /\ row' = row /\ cursor' = cursor /\ psi' = psi
      /\ reorderedPsi' = reorderedPsi /\ edgeValues' = edgeValues /\ bPrime' = bPrime
      /\ computed' = computed /\ stage = "build"
  BY DEF Build, input, memory
<1>2. ArgumentsOK /\ BeforeSweeps
  BY <1>1 DEF SerialIInv
<1>3. ArgumentsOK' /\ SameArithmetic'
  BY <1>1, <1>2, ArgumentsStay, NothingComputed DEF BeforeSweeps
<1>4. CASE stage' = "rejected"
  <2>1. BeforeSweeps'
    BY <1>1, <1>2 DEF BeforeSweeps, ldu
  <2> QED BY <1>3, <1>4, <2>1 DEF SerialIInv
<1>5. CASE stage' # "rejected"
  <2>1. stage' = "sweep" /\ Representable /\ (kernel.reordered => call.nSweeps > 1)
    BY <1>5 DEF Build
  <2>2. packed' = Schedule
    BY <1>5 DEF Build, Schedule, RowsOf, RowOf
  <2>3. ScheduleOK'
    BY <1>1, <2>1, <2>2, ScheduleStays DEF ScheduleOK
  <2>4. /\ packed'.rowStarts[1] = 0 /\ packed'.cellToRow \in [Cells -> Cells]
    <3>1. packed'.rowStarts = RowStarts(RowsOf) /\ packed'.cellToRow = RowOf(WaveCells(Key))
      BY <2>2, ScheduleFieldsOf
    <3>2. RowOf(WaveCells(Key)) \in [Cells -> Cells]
      BY <1>2, OrderFacts
    <3>3. RowStarts(RowsOf)[1] = 0
      BY <1>2, FirstRowStart
    <3> QED BY <3>1, <3>2, <3>3
  <2>5. NCells \in Nat /\ \A z \in Cells : z \in Nat
    BY NCellsAssumption DEF Cells
  <2>6. NHalves \in Nat /\ NHalves' = NHalves /\ (kernel.reordered => NHalves > 1)
    <3>1. kernel.reordered => ~ kernel.symmetric
      BY <1>2, KernelFacts DEF ArgumentsOK, Plausible
    <3>2. NHalves \in Nat
      BY <1>2, ArgumentFacts
    <3> QED BY <1>1, <2>1, <3>1, <3>2 DEF NHalves
  <2>7. half' = 0 /\ row' = 0 /\ cursor' = 0 /\ ~ Backward'
    BY <1>1, <1>2 DEF BeforeSweeps, Backward
  <2>8. PlaceOK'
    BY <2>4, <2>5, <2>6, <2>7 DEF PlaceOK
  <2>9. \A c \in Cells : ~ Updated(c)'
    BY <2>4, <2>5, <2>7 DEF Updated
  <2>10. MemoryOK'
    <3>1. \A c \in Cells : PsiHeld(c)' = 0
      BY <2>6, <2>7, <2>9 DEF PsiHeld
    <3>2. \A r \in Cells : RowHeld(r)' = 0
      BY <1>1, <2>5, <2>6, <2>7 DEF RowHeld
    <3>3. \A f \in Faces(ldu) : EdgeHeld(f)' = 0
      <4> SUFFICES ASSUME NEW f \in Faces(ldu) PROVE EdgeHeld(f)' = 0
        OBVIOUS
      <4>1. ldu.lower[f] \in Cells /\ ldu' = ldu
        BY <1>1, <1>2, ArgumentFacts, FaceFacts DEF ldu
      <4> QED BY <2>7, <2>9, <4>1 DEF EdgeHeld
    <3>4. /\ psi' = [c \in Cells |-> 0] /\ reorderedPsi' = [r \in Cells |-> 0]
          /\ edgeValues' = [f \in Faces(ldu) |-> 0] /\ ldu' = ldu
      BY <1>1, <1>2 DEF BeforeSweeps, ldu
    <3> QED BY <3>1, <3>2, <3>3, <3>4 DEF MemoryOK
  <2>11. ScatterOK'
    <3>1. ldu' = ldu /\ bPrime' = [c \in Cells |-> <<>>]
      BY <1>1, <1>2 DEF BeforeSweeps, ldu
    <3>2. ASSUME NEW c \in Cells
          PROVE  LowerReadings(ldu, {f \in IncomingFaces(ldu, c) : ldu.lower[f] < 0}, 0 + 1) = <<>>
      <4>1. \A f \in IncomingFaces(ldu, c) : ldu.lower[f] \in Nat
        BY <1>2, <2>5, ArgumentFacts, FaceFacts DEF IncomingFaces
      <4>2. {f \in IncomingFaces(ldu, c) : ldu.lower[f] < 0} = {}
        BY <4>1
      <4> QED BY <4>2, NoReadings
    <3> QED BY <2>7, <3>1, <3>2 DEF ScatterOK
  <2> QED BY <1>3, <2>1, <2>3, <2>8, <2>10, <2>11 DEF SerialIInv
<1> QED BY <1>4, <1>5

-----------------------------------------------------------------------------
(* The update of a group of rows. *)

\* What an update starts from, and what it leaves alone.
LEMMA UpdateFrame ==
  ASSUME SerialIInv, UpdateRows
  PROVE  /\ ArgumentsOK /\ ScheduleOK /\ PlaceOK /\ MemoryOK /\ ScatterOK
         /\ half < NHalves /\ ~ Done /\ stage = "sweep"
         /\ matrix' = matrix /\ call' = call /\ width' = width /\ kernel' = kernel
         /\ stage' = stage /\ packed' = packed /\ half' = half
         /\ ldu' = ldu /\ NHalves' = NHalves /\ Backward' = Backward
<1>1. /\ stage = "sweep" /\ half < NHalves /\ ~ Done
      /\ matrix' = matrix /\ call' = call /\ width' = width /\ kernel' = kernel
      /\ stage' = stage /\ packed' = packed /\ half' = half
  BY DEF UpdateRows, input
<1>2. ldu' = ldu /\ NHalves' = NHalves /\ Backward' = Backward
  BY <1>1 DEF ldu, NHalves, Backward
<1> QED BY <1>1, <1>2 DEF SerialIInv

\* The cells of the rows of a group.
LEMMA GroupCells ==
  ASSUME ArgumentsOK, ScheduleOK, PlaceOK, half < NHalves, ~ Done,
         NEW done, done = {CellOf(r) : r \in Rows}
  PROVE  /\ done \subseteq Cells
         /\ \A c \in Cells : c \in done <=> packed.cellToRow[c] \in Rows
<1>1. Rows \subseteq Cells
  BY RowsFacts
<1>2. \A r \in Cells : CellOf(r) \in Cells /\ packed.cellToRow[CellOf(r)] = r
  BY ScheduleFacts
<1>3. \A c \in Cells : CellOf(packed.cellToRow[c]) = c
  BY ScheduleFacts
<1> QED BY <1>1, <1>2, <1>3

\* A group moves the place on by its rows, and its cells are then updated.
LEMMA UpdateMoves ==
  ASSUME SerialIInv, UpdateRows, NEW done, done = {CellOf(r) : r \in Rows}
  PROVE  /\ row' = IF Backward THEN row - 1 ELSE row + GroupSize
         /\ \A c \in Cells : Updated(c)' <=> Updated(c) \/ c \in done
         /\ \A c \in done : ~ Updated(c)
         /\ Cardinality(Rows) \in Nat
<1> DEFINE t == packed.cellToRow
<1>1. /\ ArgumentsOK /\ ScheduleOK /\ PlaceOK /\ half < NHalves /\ ~ Done
      /\ packed' = packed /\ Backward' = Backward
  BY UpdateFrame
<1>2. /\ row \in Cells /\ (Backward => Rows = {row})
      /\ ~ Backward => Rows = row .. row + GroupSize - 1 /\ GroupSize \in 1 .. NCells - row
  BY <1>1, RowsFacts
<1>3. NCells \in Nat /\ row \in Nat
  BY <1>2, NCellsAssumption, CellsAreIntegers DEF Cells
<1>4. done \subseteq Cells /\ \A c \in Cells : c \in done <=> t[c] \in Rows
  BY <1>1, GroupCells
<1>5. \A c \in Cells : t[c] \in Int
  <2>1. \A z \in Cells : z \in Int
    BY <1>3 DEF Cells
  <2> QED BY <1>1, <2>1, ScheduleFacts
<1>6. row' = IF Backward THEN row - 1 ELSE row + Cardinality(Rows)
  BY DEF UpdateRows
<1>7. CASE Backward
  <2>1. Cardinality(Rows) = 1
    BY <1>2, <1>7, FS_Singleton
  <2>2. \A c \in Cells : c \in done <=> t[c] = row
    BY <1>2, <1>4, <1>7
  <2>3. row' = row - 1
    BY <1>6, <1>7
  <2>4. \A c \in Cells : (Updated(c) <=> t[c] > row) /\ (Updated(c)' <=> t[c] > row')
    BY <1>1, <1>7 DEF Updated
  <2> HIDE DEF t
  <2>5. \A c \in Cells : Updated(c)' <=> Updated(c) \/ c \in done
    BY <1>3, <1>5, <2>2, <2>3, <2>4
  <2>6. \A c \in done : ~ Updated(c)
    BY <1>3, <1>4, <1>5, <2>2, <2>4
  <2> QED BY <1>7, <2>1, <2>3, <2>5, <2>6
<1>8. CASE ~ Backward
  <2> DEFINE n == GroupSize
  <2>1. n \in Nat /\ Rows = row .. row + n - 1
    BY <1>2, <1>3, <1>8
  <2> HIDE DEF n
  <2>2. Cardinality(Rows) = n
    <3>1. Cardinality(row .. row + n - 1) = IF row > row + n - 1 THEN 0 ELSE row + n - 1 - row + 1
      BY <1>3, <2>1, FS_Interval
    <3> QED BY <1>3, <2>1, <3>1
  <2>3. row' = row + n
    BY <1>6, <1>8, <2>2
  <2>4. \A c \in Cells : (Updated(c) <=> t[c] < row) /\ (Updated(c)' <=> t[c] < row')
    BY <1>1, <1>8 DEF Updated
  <2> HIDE DEF t
  <2>5. \A c \in Cells : c \in done <=> row <= t[c] /\ t[c] < row + n
    BY <1>3, <1>4, <1>5, <2>1
  <2>6. \A c \in Cells : Updated(c)' <=> Updated(c) \/ c \in done
    BY <1>3, <1>5, <2>1, <2>3, <2>4, <2>5
  <2>7. \A c \in done : ~ Updated(c)
    BY <1>3, <1>4, <1>5, <2>4, <2>5
  <2> QED BY <1>8, <2>1, <2>2, <2>3, <2>6, <2>7 DEF n
<1> QED BY <1>7, <1>8

\* The degrees of consecutive rows add up to the distance of their beginnings.
LEMMA DegreesAddUp ==
  ASSUME ArgumentsOK, ScheduleOK, NEW a \in Cells, NEW n \in 1 .. NCells - a
  PROVE  LET R == a .. a + n - 1
         IN  SumFunctionOnSet([r \in R |-> Degree(r)], R)
               = packed.rowStarts[a + n + 1] - packed.rowStarts[a + 1]
<1> DEFINE R == a .. a + n - 1
           g == [r \in R |-> Degree(r)]
           s == [r \in 0 .. NCells |-> packed.rowStarts[r + 1]]
<1>1. NCells \in Nat /\ a \in Nat /\ a < NCells /\ n \in Nat
  BY NCellsAssumption DEF Cells
<1>2. packed.rowStarts \in [1 .. NCells + 1 -> Nat] /\ \A r \in Cells : Degree(r) \in Nat
  BY ScheduleFacts
<1>3. \A r \in R : r \in Cells /\ r \in 0 .. NCells /\ r + 1 \in 0 .. NCells
  BY <1>1 DEF Cells
<1>4. \A r \in 0 .. NCells : r + 1 \in 1 .. NCells + 1 /\ s[r] = packed.rowStarts[r + 1]
  BY <1>1
<1>5. \A r \in 0 .. NCells : s[r] \in Nat
  BY <1>2, <1>4
<1>6. \A r \in R : g[r] \in Nat
  BY <1>2, <1>3
<1>7. \A r \in R : s[r + 1] = s[r] + g[r]
  <2> SUFFICES ASSUME NEW r \in R PROVE s[r + 1] = s[r] + g[r]
    OBVIOUS
  <2>1. r \in 0 .. NCells /\ r + 1 \in 0 .. NCells
    BY <1>3
  <2>5. r \in Int /\ r + 1 + 1 = r + 2
    BY <1>1, <2>1
  <2>6. s[r] \in Nat /\ s[r + 1] \in Nat
    <3> HIDE DEF s
    <3> QED BY <1>5, <2>1
  <2>2. s[r + 1] = packed.rowStarts[r + 2] /\ s[r] = packed.rowStarts[r + 1]
    BY <1>4, <2>1, <2>5
  <2>3. g[r] = packed.rowStarts[r + 2] - packed.rowStarts[r + 1]
    BY DEF Degree
  <2> HIDE DEF s, g
  <2> QED BY <2>2, <2>3, <2>6
<1>8. a \in 0 .. NCells /\ a + n \in 0 .. NCells
  BY <1>1
<1>9. s[a] \in Nat /\ s[a] = packed.rowStarts[a + 1] /\ s[a + n] = packed.rowStarts[a + n + 1]
  BY <1>4, <1>5, <1>8
<1> HIDE DEF g, s
<1>10. SumFunctionOnSet(g, a .. a + n - 1) = s[a + n] - s[a]
  <2>1. a \in Int /\ n \in Nat /\ s[a] \in Nat
    BY <1>1, <1>9
  <2>2. Telescopes(a, n, g, s)
    BY <1>6, <1>7 DEF Telescopes
  <2> QED BY <2>1, <2>2, SumTelescopes, Zenon
<1> QED BY <1>9, <1>10 DEF g

\* The next place is inside, and the cursor is where its row begins.
LEMMA UpdatePlace == ASSUME SerialIInv, UpdateRows PROVE PlaceOK'
<1>1. /\ ArgumentsOK /\ ScheduleOK /\ PlaceOK /\ half < NHalves /\ ~ Done
      /\ packed' = packed /\ Backward' = Backward /\ half' = half /\ NHalves' = NHalves
      /\ kernel' = kernel
  BY UpdateFrame
<1>2. /\ row \in Cells /\ half \in Nat /\ NHalves \in Nat
      /\ (Backward => Rows = {row})
      /\ ~ Backward => Rows = row .. row + GroupSize - 1 /\ GroupSize \in 1 .. NCells - row
  BY <1>1, RowsFacts
<1>3. row' = IF Backward THEN row - 1 ELSE row + GroupSize
  BY UpdateMoves
<1>4. NCells \in Nat /\ row \in Nat /\ row < NCells
  BY <1>2, NCellsAssumption DEF Cells
<1>5. row' \in IF Backward' THEN -1 .. NCells - 1 ELSE 0 .. NCells
  BY <1>1, <1>2, <1>3, <1>4
<1>6. half' \in 0 .. NHalves' /\ ~ (half' = NHalves')
  BY <1>1, <1>2
<1>7. ASSUME kernel.begin = "cursor" PROVE cursor' = packed.rowStarts[row' + 1]
  <2>1. ~ Backward
    BY <1>1, <1>7, KernelFacts DEF ArgumentsOK, Plausible, Backward
  <2>2. cursor = packed.rowStarts[row + 1]
    BY <1>1, <1>7 DEF PlaceOK
  <2>3. cursor' = cursor + SumFunctionOnSet([r \in Rows |-> Degree(r)], Rows)
    BY <1>7 DEF UpdateRows
  <2> DEFINE n == GroupSize
  <2>4. n \in 1 .. NCells - row /\ Rows = row .. row + n - 1 /\ row' = row + n
    BY <1>2, <1>3, <2>1
  <2> HIDE DEF n
  <2>5. SumFunctionOnSet([r \in Rows |-> Degree(r)], Rows)
          = packed.rowStarts[row + n + 1] - packed.rowStarts[row + 1]
    BY <1>1, <1>2, <2>4, DegreesAddUp
  <2>6. packed.rowStarts[row + n + 1] \in Nat /\ packed.rowStarts[row + 1] \in Nat
    <3>1. packed.rowStarts \in [1 .. NCells + 1 -> Nat]
      BY <1>1, ScheduleFacts
    <3>2. row + n + 1 \in 1 .. NCells + 1 /\ row + 1 \in 1 .. NCells + 1
      BY <1>4, <2>4
    <3> QED BY <3>1, <3>2
  <2> QED BY <2>2, <2>3, <2>4, <2>5, <2>6
<1> QED BY <1>1, <1>5, <1>6, <1>7 DEF PlaceOK

\* What the arrays hold follows the place.
LEMMA UpdateMemory == ASSUME SerialIInv, UpdateRows PROVE MemoryOK'
<1> DEFINE done == {CellOf(r) : r \in Rows}
<1>1. /\ ArgumentsOK /\ ScheduleOK /\ PlaceOK /\ MemoryOK /\ half < NHalves /\ ~ Done
      /\ packed' = packed /\ Backward' = Backward /\ half' = half /\ NHalves' = NHalves
      /\ kernel' = kernel /\ ldu' = ldu
  BY UpdateFrame
<1>2. /\ row \in Cells /\ half \in Nat /\ NHalves \in Nat /\ row \in Nat
      /\ ~ Backward => Rows = row .. row + GroupSize - 1 /\ GroupSize \in 1 .. NCells - row
  BY <1>1, RowsFacts, CellsAreIntegers DEF Cells
<1>3. /\ row' = IF Backward THEN row - 1 ELSE row + GroupSize
      /\ \A c \in Cells : Updated(c)' <=> Updated(c) \/ c \in done
      /\ \A c \in done : ~ Updated(c)
  BY UpdateMoves
<1>4. done \subseteq Cells /\ \A c \in Cells : c \in done <=> packed.cellToRow[c] \in Rows
  BY <1>1, GroupCells
<1>5. /\ psi' = [c \in Cells |-> IF c \in done /\ ~ToReordered THEN half + 1 ELSE psi[c]]
      /\ reorderedPsi' =
            [r \in Cells |-> IF r \in Rows /\ ToReordered THEN half + 1 ELSE reorderedPsi[r]]
      /\ edgeValues' = [f \in Faces(ldu) |->
            IF kernel.lower = "edges" /\ ldu.lower[f] \in done THEN half + 1 ELSE edgeValues[f]]
  BY DEF UpdateRows
<1>6. IsAddressing(ldu) /\ Plausible(kernel)
  BY <1>1, KernelFacts, ArgumentFacts DEF ArgumentsOK
<1> HIDE DEF done
<1>7. ToReordered <=> kernel.reordered /\ half < NHalves - 1
  BY DEF ToReordered
<1>8. ASSUME NEW c \in Cells PROVE psi'[c] = PsiHeld(c)'
  <2>1. psi'[c] = IF c \in done /\ ~ToReordered THEN half + 1 ELSE PsiHeld(c)
    BY <1>1, <1>5 DEF MemoryOK
  <2>2. Updated(c)' <=> Updated(c) \/ c \in done
    BY <1>3
  <2>3. PsiHeld(c) = IF ~kernel.reordered THEN IF Updated(c) THEN half + 1 ELSE half
                     ELSE IF half = NHalves THEN half
                     ELSE IF half = NHalves - 1 /\ Updated(c) THEN half + 1 ELSE 0
    BY DEF PsiHeld
  <2>4. PsiHeld(c)' = IF ~kernel.reordered THEN IF Updated(c)' THEN half + 1 ELSE half
                      ELSE IF half = NHalves THEN half
                      ELSE IF half = NHalves - 1 /\ Updated(c)' THEN half + 1 ELSE 0
    BY <1>1 DEF PsiHeld
  <2>5. CASE ~ kernel.reordered
    BY <1>7, <2>1, <2>2, <2>3, <2>4, <2>5
  <2>6. CASE kernel.reordered /\ half = NHalves - 1
    BY <1>1, <1>2, <1>7, <2>1, <2>2, <2>3, <2>4, <2>6
  <2>7. CASE kernel.reordered /\ half # NHalves - 1
    BY <1>1, <1>2, <1>7, <2>1, <2>2, <2>3, <2>4, <2>7
  <2> QED BY <2>5, <2>6, <2>7
<1>9. ASSUME NEW r \in Cells PROVE reorderedPsi'[r] = RowHeld(r)'
  <2>1. reorderedPsi'[r] = IF r \in Rows /\ ToReordered THEN half + 1 ELSE RowHeld(r)
    BY <1>1, <1>5 DEF MemoryOK
  <2>2. RowHeld(r) = IF ~kernel.reordered THEN 0
                     ELSE IF half >= NHalves - 1 THEN NHalves - 1
                     ELSE IF r < row THEN half + 1 ELSE half
    BY DEF RowHeld
  <2>3. RowHeld(r)' = IF ~kernel.reordered THEN 0
                      ELSE IF half >= NHalves - 1 THEN NHalves - 1
                      ELSE IF r < row' THEN half + 1 ELSE half
    BY <1>1 DEF RowHeld
  <2>4. CASE ~ kernel.reordered
    BY <1>7, <2>1, <2>2, <2>3, <2>4
  <2>5. CASE kernel.reordered /\ half >= NHalves - 1
    <3>1. ~ (half < NHalves - 1)
      BY <1>2, <2>5
    <3>3. ~ (r \in Rows /\ ToReordered)
      BY <1>7, <3>1, Zenon
    <3>2. reorderedPsi'[r] = RowHeld(r)
      BY <2>1, <3>3, Zenon
    <3> QED BY <2>2, <2>3, <2>5, <3>2
  <2>6. CASE kernel.reordered /\ ~ (half >= NHalves - 1)
    <3>1. ~ Backward
      BY <1>6, <2>6 DEF Plausible, Backward
    <3> DEFINE n == GroupSize
    <3>2. row' = row + n /\ n \in Nat /\ (r \in Rows <=> row <= r /\ r < row + n) /\ r \in Nat
      <4>1. r \in Nat /\ NCells \in Nat
        BY NCellsAssumption DEF Cells
      <4> QED BY <1>2, <1>3, <3>1, <4>1
    <3> HIDE DEF n
    <3>3. reorderedPsi'[r] = IF r \in Rows THEN half + 1 ELSE IF r < row THEN half + 1 ELSE half
      BY <1>2, <1>7, <2>1, <2>2, <2>6
    <3>4. RowHeld(r)' = IF r < row + n THEN half + 1 ELSE half
      BY <2>3, <2>6, <3>2
    <3> QED BY <1>2, <3>2, <3>3, <3>4
  <2> QED BY <2>4, <2>5, <2>6
<1>10. ASSUME NEW f \in Faces(ldu) PROVE edgeValues'[f] = EdgeHeld(f)'
  <2>1. edgeValues'[f] = IF kernel.lower = "edges" /\ ldu.lower[f] \in done
                         THEN half + 1 ELSE EdgeHeld(f)
    BY <1>1, <1>5 DEF MemoryOK
  <2>2. EdgeHeld(f) = IF kernel.lower # "edges" THEN 0
                      ELSE IF Updated(ldu.lower[f]) THEN half + 1 ELSE half
    BY DEF EdgeHeld
  <2>3. PICK c \in Cells : c = ldu.lower[f]
    BY <1>6, FaceFacts
  <2>4. Updated(c)' <=> Updated(c) \/ c \in done
    BY <1>3
  <2>5. EdgeHeld(f)' = IF kernel.lower # "edges" THEN 0 ELSE IF Updated(c)' THEN half + 1 ELSE half
    <3>1. ldu'.lower[f] = c
      BY <1>1, <2>3
    <3>2. EdgeHeld(f)' = IF kernel'.lower # "edges" THEN 0
                         ELSE IF Updated(ldu.lower[f])' THEN half' + 1 ELSE half'
      BY DEF EdgeHeld
    <3>3. Updated(ldu.lower[f])' <=> Updated(c)'
      BY <3>1 DEF Updated
    <3> QED BY <1>1, <3>2, <3>3
  <2> QED BY <2>1, <2>2, <2>3, <2>4, <2>5
<1>11. psi' = [c \in Cells |-> PsiHeld(c)']
  BY <1>5, <1>8
<1>12. reorderedPsi' = [r \in Cells |-> RowHeld(r)']
  BY <1>5, <1>9
<1>13. edgeValues' = [f \in Faces(ldu) |-> EdgeHeld(f)']
  BY <1>5, <1>10
<1> QED BY <1>1, <1>11, <1>12, <1>13 DEF MemoryOK

ReadingsIn(m, v, E) == \A f \in Faces(m) : Reading(FromOwner(m, f), v) \in E

\* The readings over faces in ascending order, as a sequence.
LEMMA ReadingsAre ==
  ASSUME NEW m, IsAddressing(m), NEW S, S \subseteq Faces(m), NEW v,
         NEW a, a = Ascending(S), NEW E, ReadingsIn(m, v, E)
  PROVE  /\ a \in Seq(S) /\ Len(a) \in Nat
         /\ LowerReadings(m, S, v) = [i \in 1 .. Len(a) |-> Reading(FromOwner(m, a[i]), v)]
         /\ LowerReadings(m, S, v) \in Seq(E) /\ Len(LowerReadings(m, S, v)) = Len(a)
<1>1. IsFiniteSet(S) /\ \A x \in S : x \in Int
  BY FaceFacts
<1>2. /\ a \in Seq(S) /\ Len(a) \in Nat /\ DOMAIN a = 1 .. Len(a)
      /\ \A i \in 1 .. Len(a) : a[i] \in S
  BY <1>1, AscendingList
<1>3. LowerReadings(m, S, v) = [i \in 1 .. Len(a) |-> Reading(FromOwner(m, a[i]), v)]
  BY <1>2 DEF LowerReadings
<1>4. \A i \in 1 .. Len(a) : Reading(FromOwner(m, a[i]), v) \in E
  BY <1>2 DEF ReadingsIn
<1> DEFINE s == LowerReadings(m, S, v)
           n == Len(a)
<1>5. s \in [1 .. n -> E] /\ n \in Nat
  BY <1>2, <1>3, <1>4
<1> HIDE DEF s, n
<1>6. s \in Seq(E) /\ Len(s) = n
  BY <1>5, FunctionIsSeq
<1> QED BY <1>2, <1>3, <1>6 DEF s, n

\* the faces S consist of the faces F and, after them, the faces G
FirstAndRest(m, S, F, G) ==
  /\ IsAddressing(m) /\ F \subseteq Faces(m) /\ G \subseteq Faces(m)
  /\ S = F \cup G /\ \A f \in F, g \in G : f < g

\* Readings over two sets of faces, one before the other.
LEMMA ReadingsJoin ==
  ASSUME NEW m, NEW S, NEW F, NEW G, NEW v, FirstAndRest(m, S, F, G)
  PROVE  LowerReadings(m, S, v) = LowerReadings(m, F, v) \o LowerReadings(m, G, v)
<1> DEFINE E == {Reading(FromOwner(m, f), v) : f \in Faces(m)}
           a == Ascending(F)
           b == Ascending(G)
           t == Ascending(S)
           x == LowerReadings(m, F, v)
           y == LowerReadings(m, G, v)
           z == LowerReadings(m, S, v)
           R(f) == Reading(FromOwner(m, f), v)
           p == Len(a)
           q == Len(b)
<1>1. /\ IsFiniteSet(F) /\ IsFiniteSet(G) /\ \A h \in F \cup G : h \in Int
      /\ S \subseteq Faces(m) /\ ReadingsIn(m, v, E)
      /\ IsAddressing(m) /\ F \subseteq Faces(m) /\ G \subseteq Faces(m)
  BY FaceFacts DEF ReadingsIn, FirstAndRest
<1>2. t = a \o b
  BY <1>1, AscendingUnion DEF FirstAndRest
<1> HIDE DEF E
<1>3. /\ a \in Seq(F) /\ p \in Nat /\ x \in Seq(E) /\ Len(x) = p
      /\ x = [i \in 1 .. p |-> R(a[i])]
  BY <1>1, ReadingsAre
<1>4. /\ b \in Seq(G) /\ q \in Nat /\ y \in Seq(E) /\ Len(y) = q
      /\ y = [i \in 1 .. q |-> R(b[i])]
  BY <1>1, ReadingsAre
<1>5. /\ z \in Seq(E) /\ Len(z) = Len(t) /\ z = [i \in 1 .. Len(t) |-> R(t[i])]
  BY <1>1, ReadingsAre
<1> HIDE DEF a, b, t, x, y, z, R, p, q
<1>6. /\ Len(t) = p + q
      /\ \A i \in 1 .. p + q : t[i] = IF i <= p THEN a[i] ELSE b[i - p]
  <2>1. a \in Seq(F \cup G) /\ b \in Seq(F \cup G)
    BY <1>3, <1>4, SeqDef
  <2> QED BY <1>2, <2>1, ConcatProperties DEF p, q
<1>7. /\ x \o y \in Seq(E) /\ Len(x \o y) = p + q
      /\ \A i \in 1 .. p + q : (x \o y)[i] = IF i <= p THEN x[i] ELSE y[i - p]
  BY <1>3, <1>4, ConcatProperties
<1>8. \A i \in 1 .. p + q : z[i] = (x \o y)[i]
  <2> SUFFICES ASSUME NEW i \in 1 .. p + q PROVE z[i] = (x \o y)[i]
    OBVIOUS
  <2>1. z[i] = R(t[i])
    BY <1>5, <1>6
  <2>2. CASE i <= p
    <3>1. i \in 1 .. p
      BY <1>3, <1>4, <2>2
    <3> QED BY <1>3, <1>6, <1>7, <2>1, <2>2, <3>1
  <2>3. CASE ~ (i <= p)
    <3>1. i - p \in 1 .. q
      BY <1>3, <1>4, <2>3
    <3> QED BY <1>4, <1>6, <1>7, <2>1, <2>3, <3>1
  <2> QED BY <2>2, <2>3
<1> DEFINE s == x \o y
<1> HIDE DEF s
<1>9. DOMAIN s = 1 .. p + q /\ s = [i \in DOMAIN s |-> s[i]]
  BY <1>7, LenProperties DEF s
<1>10. DOMAIN z = 1 .. p + q /\ z = [i \in DOMAIN z |-> z[i]]
  BY <1>5, <1>6, LenProperties
<1>11. z = s
  BY <1>8, <1>9, <1>10 DEF s
<1> QED BY <1>11 DEF s, x, y, z

\* Readings over no faces.
LEMMA ReadingsAndNone ==
  ASSUME NEW m, IsAddressing(m), NEW F, F \subseteq Faces(m), NEW v, NEW u
  PROVE  LowerReadings(m, F, u) \o LowerReadings(m, {}, v) = LowerReadings(m, F, u)
<1> DEFINE E == {Reading(FromOwner(m, f), u) : f \in Faces(m)}
<1>1. LowerReadings(m, {}, v) = <<>>
  BY NoReadings
<1>2. ReadingsIn(m, u, E)
  BY DEF ReadingsIn
<1> HIDE DEF E
<1>3. LowerReadings(m, F, u) \in Seq(E)
  BY <1>2, ReadingsAre
<1> QED BY <1>1, <1>3, ConcatEmptySeq

\* A scattering smoother adds the contribution of a cell to its neighbours.
LEMMA UpdateScatter == ASSUME SerialIInv, UpdateRows PROVE ScatterOK'
<1> SUFFICES ASSUME kernel.rows = "scatter", NEW c \in Cells
    PROVE  /\ ~ Backward => bPrime'[c] =
                LowerReadings(ldu, {f \in IncomingFaces(ldu, c) : ldu.lower[f] < row'}, half + 1)
           /\ Backward /\ c <= row' => bPrime'[c] = LowerReadings(ldu, IncomingFaces(ldu, c), half)
  BY UpdateFrame DEF ScatterOK
<1> DEFINE done == {CellOf(r) : r \in Rows}
           I == IncomingFaces(ldu, c)
           F == {f \in I : ldu.lower[f] < row}
           G == {f \in I : ldu.lower[f] \in done}
<1>1. /\ ArgumentsOK /\ ScheduleOK /\ PlaceOK /\ ScatterOK /\ half < NHalves /\ ~ Done
  BY UpdateFrame
<1>2. /\ row \in Cells /\ (Backward => Rows = {row})
      /\ ~ Backward => Rows = row .. row + GroupSize - 1 /\ GroupSize \in 1 .. NCells - row
  BY <1>1, RowsFacts
<1>3. row' = IF Backward THEN row - 1 ELSE row + GroupSize
  BY UpdateMoves
<1>4. /\ IsAddressing(ldu) /\ UpperTriangular(ldu) /\ GroupedByOwner(ldu)
      /\ kernel.group = "single"
  BY <1>1, KernelFacts, ArgumentFacts DEF ArgumentsOK, Plausible
<1>5. GroupSize = 1 /\ \A z \in Cells : z \in Int
  BY <1>1, <1>2, <1>4, GroupFacts, CellsAreIntegers
<1>6. Rows = {row}
  BY <1>2, <1>5
<1>7. done = {row}
  <2>1. CellOf(row) = row
    BY <1>1, <1>2, ScheduleFacts
  <2> QED BY <1>6, <2>1
<1>8. bPrime'[c] = bPrime[c] \o LowerReadings(ldu, G, half + 1)
  <2>1. bPrime' = [d \in Cells |-> Scattered(d, done)]
    BY DEF UpdateRows
  <2>2. Scattered(c, done) = bPrime[c] \o LowerReadings(ldu, G, half + 1)
    BY DEF Scattered, LowerReadings
  <2> QED BY <2>1, <2>2
<1>9. /\ I \subseteq Faces(ldu) /\ F \subseteq Faces(ldu) /\ G \subseteq Faces(ldu)
      /\ \A f \in I : ldu.lower[f] \in Cells /\ ldu.lower[f] < c
  BY <1>4, FaceFacts DEF IncomingFaces, UpperTriangular
<1>10. ASSUME ~ Backward
       PROVE  bPrime'[c] = LowerReadings(ldu, {f \in I : ldu.lower[f] < row'}, half + 1)
  <2>1. bPrime[c] = LowerReadings(ldu, F, half + 1)
    BY <1>1, <1>10 DEF ScatterOK
  <2>2. \A f \in F, g \in G : f < g
    <3> SUFFICES ASSUME NEW f \in F, NEW g \in G PROVE f < g
      OBVIOUS
    <3>1. f \in Int /\ g \in Int /\ f \in Faces(ldu) /\ g \in Faces(ldu)
      BY <1>4, <1>9, FaceFacts
    <3>2. ldu.lower[f] < ldu.lower[g] /\ ldu.lower[f] \in Int /\ ldu.lower[g] \in Int
      BY <1>5, <1>7, <1>9
    <3>3. g < f => ldu.lower[g] <= ldu.lower[f]
      BY <1>4, <3>1 DEF GroupedByOwner
    <3>4. f # g
      BY <3>2
    <3> QED BY <3>1, <3>2, <3>3, <3>4
  <2>3. {f \in I : ldu.lower[f] < row'} = F \cup G
    <3>1. \A f \in I : ldu.lower[f] < row' <=> ldu.lower[f] < row \/ ldu.lower[f] = row
      BY <1>2, <1>3, <1>5, <1>9, <1>10
    <3> QED BY <1>7, <3>1
  <2> HIDE DEF I, F, G, done
  <2>4. LowerReadings(ldu, F \cup G, half + 1)
          = LowerReadings(ldu, F, half + 1) \o LowerReadings(ldu, G, half + 1)
    <3> DEFINE v == half + 1
               S == F \cup G
    <3>1. FirstAndRest(ldu, S, F, G)
      BY <1>4, <1>9, <2>2 DEF FirstAndRest
    <3> HIDE DEF v, S
    <3>2. LowerReadings(ldu, S, v) = LowerReadings(ldu, F, v) \o LowerReadings(ldu, G, v)
      BY <3>1, ReadingsJoin
    <3> QED BY <3>2 DEF S, v
  <2> QED BY <1>8, <2>1, <2>3, <2>4
<1>11. ASSUME Backward, c <= row' PROVE bPrime'[c] = LowerReadings(ldu, I, half)
  <2>1. c < row /\ c <= row
    BY <1>2, <1>3, <1>5, <1>11
  <2>2. bPrime[c] = LowerReadings(ldu, I, half)
    BY <1>1, <1>11, <2>1 DEF ScatterOK
  <2>3. G = {}
    <3>1. \A f \in I : ldu.lower[f] # row
      BY <1>2, <1>5, <1>9, <2>1
    <3> QED BY <1>7, <3>1
  <2> HIDE DEF I, F, G, done
  <2>4. LowerReadings(ldu, I, half) \o LowerReadings(ldu, {}, half + 1) = LowerReadings(ldu, I, half)
    BY <1>4, <1>9, ReadingsAndNone
  <2> QED BY <1>8, <2>2, <2>3, <2>4
<1> QED BY <1>10, <1>11

\* Every row of the group subtracts what the reference smoother subtracts.
LEMMA UpdateArithmetic == ASSUME SerialIInv, UpdateRows PROVE SameArithmetic'
<1> DEFINE done == {CellOf(r) : r \in Rows}
<1>1. /\ ArgumentsOK /\ ScheduleOK /\ PlaceOK /\ MemoryOK /\ ScatterOK
      /\ half < NHalves /\ ~ Done
      /\ kernel' = kernel /\ half' = half /\ call' = call /\ ldu' = ldu
  BY UpdateFrame
<1>2. computed' = [c \in done |-> Subtracted(packed.cellToRow[c])]
  BY DEF UpdateRows
<1>3. ASSUME NEW c \in done PROVE SubtractsReference(c, computed'[c])
  <2>1. PICK r \in Rows : c = CellOf(r)
    OBVIOUS
  <2>2. packed.cellToRow[c] = r
    BY <1>1, <2>1, RowsFacts, ScheduleFacts
  <2>3. SubtractsReference(CellOf(r), Subtracted(r))
    <3>1. CASE kernel.rows = "scatter"
      BY <1>1, <3>1, ScatteredIs
    <3>2. CASE kernel.rows # "scatter"
      BY <1>1, <3>2, GatheredIs
    <3> QED BY <3>1, <3>2
  <2>4. computed'[c] = Subtracted(r)
    BY <1>2, <2>2
  <2> QED BY <2>1, <2>3, <2>4
<1> HIDE DEF done
<1>4. \A c, v : ReferenceTerms(c, v)' = ReferenceTerms(c, v)
  BY <1>1 DEF ReferenceTerms
<1>5. DOMAIN computed' = done
  BY <1>2
<1> QED BY <1>1, <1>3, <1>4, <1>5 DEF SameArithmetic, SubtractsReference

\* The update of a group of rows keeps the invariant.
LEMMA UpdateRowsKeeps == ASSUME SerialIInv, UpdateRows PROVE SerialIInv'
<1>1. /\ ArgumentsOK /\ ScheduleOK /\ stage = "sweep" /\ stage' = stage
      /\ matrix' = matrix /\ call' = call /\ width' = width /\ kernel' = kernel
      /\ packed' = packed
  BY UpdateFrame
<1>2. ArgumentsOK'
  BY <1>1, ArgumentsStay
<1>3. ScheduleOK'
  BY <1>1, ScheduleStays DEF ScheduleOK
<1>4. PlaceOK' /\ MemoryOK' /\ ScatterOK' /\ SameArithmetic'
  BY UpdatePlace, UpdateMemory, UpdateScatter, UpdateArithmetic
<1> QED BY <1>1, <1>2, <1>3, <1>4 DEF SerialIInv

-----------------------------------------------------------------------------
(* The end of a half-sweep. *)

\* The end of a half-sweep: it has been at every cell, the next one at none.
LEMMA EndMoves ==
  ASSUME SerialIInv, EndSweep
  PROVE  /\ ArgumentsOK /\ ScheduleOK /\ PlaceOK /\ MemoryOK /\ ScatterOK
         /\ half \in Nat /\ NHalves \in Nat /\ half < NHalves /\ Done /\ stage = "sweep"
         /\ matrix' = matrix /\ call' = call /\ width' = width /\ kernel' = kernel
         /\ stage' = stage /\ packed' = packed /\ half' = half + 1 /\ cursor' = 0
         /\ psi' = psi /\ reorderedPsi' = reorderedPsi /\ edgeValues' = edgeValues
         /\ computed' = <<>> /\ ldu' = ldu /\ NHalves' = NHalves
         /\ kernel.symmetric \in BOOLEAN
         /\ Backward' <=> kernel.symmetric /\ ~ Backward
         /\ row' = IF Backward' THEN NCells - 1 ELSE 0
         /\ row = IF Backward THEN -1 ELSE NCells
         /\ bPrime' = IF ~ Backward' THEN [c \in Cells |-> <<>>] ELSE bPrime
         /\ half + 1 = NHalves => ~ Backward'
         /\ \A c \in Cells : Updated(c) /\ ~ Updated(c)'
<1>1. /\ stage = "sweep" /\ half < NHalves /\ Done
      /\ matrix' = matrix /\ call' = call /\ width' = width /\ kernel' = kernel
      /\ stage' = stage /\ packed' = packed /\ half' = half + 1 /\ cursor' = 0
      /\ psi' = psi /\ reorderedPsi' = reorderedPsi /\ edgeValues' = edgeValues
      /\ computed' = <<>>
  BY DEF EndSweep, input
<1>2. ldu' = ldu /\ NHalves' = NHalves
  BY <1>1 DEF ldu, NHalves
<1>3. ArgumentsOK /\ ScheduleOK /\ PlaceOK /\ MemoryOK /\ ScatterOK
  BY <1>1 DEF SerialIInv
<1>4. half \in Nat /\ NHalves \in Nat /\ call.nSweeps \in Nat
  BY <1>3, ArgumentFacts DEF PlaceOK
<1>5. kernel.symmetric \in BOOLEAN
  BY <1>3, KernelFacts DEF ArgumentsOK, Plausible
<1>6. (half + 1) % 2 = 1 <=> ~ (half % 2 = 1)
  BY <1>4
<1>7. Backward' <=> kernel.symmetric /\ ~ Backward
  BY <1>1, <1>5, <1>6 DEF Backward
<1>8. Backward' <=> kernel.symmetric /\ (half + 1) % 2 = 1
  BY <1>1 DEF Backward
<1>9. row' = IF Backward' THEN NCells - 1 ELSE 0
  <2>1. row' = IF kernel.symmetric /\ half' % 2 = 1 THEN NCells - 1 ELSE 0
    BY DEF EndSweep
  <2> QED BY <1>1, <1>8, <2>1
<1>10. NCells \in Nat /\ \A z \in Cells : z \in Nat /\ z < NCells
  BY NCellsAssumption DEF Cells
<1>11. row = IF Backward THEN -1 ELSE NCells
  <2>1. row \in IF Backward THEN -1 .. NCells - 1 ELSE 0 .. NCells
    BY <1>3 DEF PlaceOK
  <2>2. IF Backward THEN row < 0 ELSE row = NCells
    BY <1>1 DEF Done
  <2>3. CASE Backward
    BY <1>10, <2>1, <2>2, <2>3
  <2>4. CASE ~ Backward
    BY <2>2, <2>4
  <2> QED BY <2>3, <2>4
<1>12. bPrime' = IF ~ Backward' THEN [c \in Cells |-> <<>>] ELSE bPrime
  <2>1. bPrime' = IF Backward \/ ~kernel.symmetric THEN [c \in Cells |-> <<>>] ELSE bPrime
    BY DEF EndSweep
  <2>2. Backward \/ ~ kernel.symmetric <=> ~ Backward'
    BY <1>7
  <2> QED BY <2>1, <2>2
<1>13. ASSUME half + 1 = NHalves PROVE ~ Backward'
  <2>1. kernel.symmetric => NHalves = 2 * call.nSweeps
    BY DEF NHalves
  <2>2. (2 * call.nSweeps) % 2 = 0
    BY <1>4
  <2> QED BY <1>8, <1>13, <2>1, <2>2
<1>14. ASSUME NEW c \in Cells PROVE Updated(c) /\ ~ Updated(c)'
  <2> DEFINE t == packed.cellToRow
  <2>1. t[c] \in Nat /\ t[c] < NCells
    BY <1>3, <1>10, ScheduleFacts
  <2>2. /\ Updated(c) <=> IF Backward THEN t[c] > row ELSE t[c] < row
        /\ Updated(c)' <=> IF Backward' THEN t[c] > row' ELSE t[c] < row'
    BY <1>1 DEF Updated
  <2> HIDE DEF t
  <2>3. Updated(c)
    BY <1>10, <1>11, <2>1, <2>2
  <2>4. ~ Updated(c)'
    <3>1. CASE Backward'
      BY <1>9, <1>10, <2>1, <2>2, <3>1
    <3>2. CASE ~ Backward'
      BY <1>9, <1>10, <2>1, <2>2, <3>2
    <3> QED BY <3>1, <3>2
  <2> QED BY <2>3, <2>4
<1> QED BY <1>1, <1>2, <1>3, <1>4, <1>5, <1>7, <1>9, <1>11, <1>12, <1>13, <1>14

\* The next half-sweep begins at its first row, with the cursor reset.
LEMMA EndPlace == ASSUME SerialIInv, EndSweep PROVE PlaceOK'
<1>1. /\ ArgumentsOK /\ ScheduleOK /\ kernel.symmetric \in BOOLEAN
      /\ half \in Nat /\ NHalves \in Nat /\ half < NHalves
      /\ packed' = packed /\ half' = half + 1 /\ cursor' = 0 /\ kernel' = kernel
      /\ NHalves' = NHalves
      /\ Backward' <=> kernel.symmetric /\ ~ Backward
      /\ row' = IF Backward' THEN NCells - 1 ELSE 0
      /\ half + 1 = NHalves => ~ Backward'
  BY EndMoves
<1>2. NCells \in Nat
  BY NCellsAssumption
<1>3. half' \in 0 .. NHalves'
  BY <1>1
<1>4. row' \in IF Backward' THEN -1 .. NCells - 1 ELSE 0 .. NCells
  <2>1. CASE Backward'
    BY <1>1, <1>2, <2>1
  <2>2. CASE ~ Backward'
    BY <1>1, <1>2, <2>2
  <2> QED BY <2>1, <2>2
<1>5. half' = NHalves' => row' = 0
  BY <1>1
<1>6. ASSUME kernel'.begin = "cursor" PROVE cursor' = packed'.rowStarts[row' + 1]
  <2>1. ~ kernel.symmetric
    BY <1>1, <1>6, KernelFacts DEF ArgumentsOK, Plausible
  <2>2. row' = 0
    BY <1>1, <2>1
  <2>3. packed.rowStarts[1] = 0
    BY <1>1, ScheduleFacts
  <2>4. row' + 1 = 1
    BY <2>2
  <2> QED BY <1>1, <2>3, <2>4
<1> QED BY <1>3, <1>4, <1>5, <1>6 DEF PlaceOK

\* What was new to one half-sweep is old to the next.
LEMMA EndMemory == ASSUME SerialIInv, EndSweep PROVE MemoryOK'
<1>1. /\ ArgumentsOK /\ MemoryOK
      /\ half \in Nat /\ NHalves \in Nat /\ half < NHalves
      /\ kernel' = kernel /\ half' = half + 1
      /\ psi' = psi /\ reorderedPsi' = reorderedPsi /\ edgeValues' = edgeValues
      /\ ldu' = ldu /\ NHalves' = NHalves
      /\ kernel.symmetric \in BOOLEAN
      /\ Backward' <=> kernel.symmetric /\ ~ Backward
      /\ row' = IF Backward' THEN NCells - 1 ELSE 0
      /\ row = IF Backward THEN -1 ELSE NCells
      /\ \A c \in Cells : Updated(c) /\ ~ Updated(c)'
  BY EndMoves
<1>2. IsAddressing(ldu) /\ Plausible(kernel)
  BY <1>1, KernelFacts, ArgumentFacts DEF ArgumentsOK
<1>3. ASSUME NEW c \in Cells PROVE PsiHeld(c)' = PsiHeld(c)
  <2>1. PsiHeld(c) = IF ~kernel.reordered THEN half + 1
                     ELSE IF half = NHalves - 1 THEN half + 1 ELSE 0
    BY <1>1 DEF PsiHeld
  <2>2. PsiHeld(c)' = IF ~kernel.reordered THEN half + 1
                      ELSE IF half + 1 = NHalves THEN half + 1 ELSE 0
    BY <1>1 DEF PsiHeld
  <2>3. half = NHalves - 1 <=> half + 1 = NHalves
    BY <1>1
  <2> QED BY <2>1, <2>2, <2>3
<1>4. ASSUME NEW r \in Cells PROVE RowHeld(r)' = RowHeld(r)
  <2>1. RowHeld(r) = IF ~kernel.reordered THEN 0
                     ELSE IF half >= NHalves - 1 THEN NHalves - 1
                     ELSE IF r < row THEN half + 1 ELSE half
    BY DEF RowHeld
  <2>2. RowHeld(r)' = IF ~kernel.reordered THEN 0
                      ELSE IF half + 1 >= NHalves - 1 THEN NHalves - 1
                      ELSE IF r < row' THEN half + 1 + 1 ELSE half + 1
    BY <1>1 DEF RowHeld
  <2>3. kernel.reordered => ~ Backward /\ ~ Backward'
    BY <1>1, <1>2 DEF Plausible, Backward
  <2>4. r \in Nat /\ r < NCells /\ NCells \in Nat
    BY NCellsAssumption DEF Cells
  <2>5. kernel.reordered => r < row /\ ~ (r < row')
    BY <1>1, <2>3, <2>4
  <2>6. CASE kernel.reordered
    <3>1. /\ RowHeld(r) = IF half >= NHalves - 1 THEN NHalves - 1 ELSE half + 1
          /\ RowHeld(r)' = IF half + 1 >= NHalves - 1 THEN NHalves - 1 ELSE half + 1
      BY <2>1, <2>2, <2>5, <2>6
    <3> QED BY <1>1, <3>1
  <2>7. CASE ~ kernel.reordered
    BY <2>1, <2>2, <2>7
  <2> QED BY <2>6, <2>7
<1>5. ASSUME NEW f \in Faces(ldu) PROVE EdgeHeld(f)' = EdgeHeld(f)
  <2>1. PICK c \in Cells : c = ldu.lower[f]
    BY <1>2, FaceFacts
  <2>2. ldu'.lower[f] = c
    BY <1>1, <2>1
  <2>3. Updated(ldu.lower[f])' <=> Updated(c)'
    BY <2>2 DEF Updated
  <2>4. EdgeHeld(f)' = IF kernel'.lower # "edges" THEN 0
                       ELSE IF Updated(ldu.lower[f])' THEN half' + 1 ELSE half'
    BY DEF EdgeHeld
  <2>5. EdgeHeld(f) = IF kernel.lower # "edges" THEN 0
                      ELSE IF Updated(c) THEN half + 1 ELSE half
    BY <2>1 DEF EdgeHeld
  <2> QED BY <1>1, <2>3, <2>4, <2>5
<1>6. psi' = [c \in Cells |-> PsiHeld(c)']
  BY <1>1, <1>3 DEF MemoryOK
<1>7. reorderedPsi' = [r \in Cells |-> RowHeld(r)']
  BY <1>1, <1>4 DEF MemoryOK
<1>8. edgeValues' = [f \in Faces(ldu) |-> EdgeHeld(f)']
  BY <1>1, <1>5 DEF MemoryOK
<1> QED BY <1>1, <1>6, <1>7, <1>8 DEF MemoryOK

\* bPrime starts again from the source, or, before a backward half, holds
\* all the lower parts.
LEMMA EndScatter == ASSUME SerialIInv, EndSweep PROVE ScatterOK'
<1>1. /\ ArgumentsOK /\ ScatterOK
      /\ kernel' = kernel /\ half' = half + 1 /\ ldu' = ldu
      /\ kernel.symmetric \in BOOLEAN
      /\ Backward' <=> kernel.symmetric /\ ~ Backward
      /\ row' = IF Backward' THEN NCells - 1 ELSE 0
      /\ row = IF Backward THEN -1 ELSE NCells
      /\ bPrime' = IF ~ Backward' THEN [c \in Cells |-> <<>>] ELSE bPrime
  BY EndMoves
<1> SUFFICES ASSUME kernel.rows = "scatter", NEW c \in Cells
    PROVE  /\ ~ Backward' => bPrime'[c] =
                LowerReadings(ldu, {f \in IncomingFaces(ldu, c) : ldu.lower[f] < row'}, half' + 1)
           /\ Backward' /\ c <= row' => bPrime'[c] = LowerReadings(ldu, IncomingFaces(ldu, c), half')
  BY <1>1 DEF ScatterOK
<1>2. \A f \in IncomingFaces(ldu, c) : ldu.lower[f] \in Nat /\ ldu.lower[f] < NCells
  <2>1. \A z \in Cells : z \in Nat /\ z < NCells
    BY NCellsAssumption DEF Cells
  <2> QED BY <1>1, <2>1, ArgumentFacts, FaceFacts DEF IncomingFaces
<1>3. ASSUME ~ Backward'
      PROVE  bPrime'[c] =
                LowerReadings(ldu, {f \in IncomingFaces(ldu, c) : ldu.lower[f] < row'}, half' + 1)
  <2>1. bPrime'[c] = <<>>
    BY <1>1, <1>3
  <2>2. row' = 0
    BY <1>1, <1>3
  <2>3. {f \in IncomingFaces(ldu, c) : ldu.lower[f] < 0} = {}
    BY <1>2
  <2>4. LowerReadings(ldu, {}, half' + 1) = <<>>
    BY NoReadings
  <2> QED BY <2>1, <2>2, <2>3, <2>4
<1>4. ASSUME Backward' PROVE bPrime'[c] = LowerReadings(ldu, IncomingFaces(ldu, c), half')
  <2>1. ~ Backward /\ row = NCells /\ bPrime'[c] = bPrime[c]
    BY <1>1, <1>4
  <2>2. bPrime[c] =
          LowerReadings(ldu, {f \in IncomingFaces(ldu, c) : ldu.lower[f] < NCells}, half + 1)
    BY <1>1, <2>1 DEF ScatterOK
  <2>3. {f \in IncomingFaces(ldu, c) : ldu.lower[f] < NCells} = IncomingFaces(ldu, c)
    BY <1>2
  <2> QED BY <1>1, <2>1, <2>2, <2>3
<1> QED BY <1>3, <1>4

\* The end of a half-sweep keeps the invariant.
LEMMA EndSweepKeeps == ASSUME SerialIInv, EndSweep PROVE SerialIInv'
<1>1. /\ ArgumentsOK /\ ScheduleOK /\ stage = "sweep" /\ stage' = stage
      /\ matrix' = matrix /\ call' = call /\ width' = width /\ kernel' = kernel
      /\ packed' = packed /\ computed' = <<>>
  BY EndMoves
<1>2. ArgumentsOK' /\ SameArithmetic'
  BY <1>1, ArgumentsStay, NothingComputed
<1>3. ScheduleOK'
  BY <1>1, ScheduleStays DEF ScheduleOK
<1>4. PlaceOK' /\ MemoryOK' /\ ScatterOK'
  BY EndPlace, EndMemory, EndScatter
<1> QED BY <1>1, <1>2, <1>3, <1>4 DEF SerialIInv

\* So does a step that at most returns.
LEMMA StayKeeps ==
  ASSUME SerialIInv, UNCHANGED <<input, kernel, packed, half, row, cursor, memory>>,
         stage' = stage \/ (stage = "sweep" /\ half = NHalves /\ stage' = "done")
  PROVE  SerialIInv'
<1>1. /\ matrix' = matrix /\ call' = call /\ width' = width /\ kernel' = kernel
      /\ packed' = packed /\ half' = half /\ row' = row /\ cursor' = cursor /\ psi' = psi
      /\ reorderedPsi' = reorderedPsi /\ edgeValues' = edgeValues /\ bPrime' = bPrime
      /\ computed' = computed
  BY DEF input, memory
<1>2. ArgumentsOK' /\ SameArithmetic'
  BY <1>1, ArgumentsStay, ArithmeticStays DEF SerialIInv
<1>3. NHalves' = NHalves /\ ldu' = ldu
  BY <1>1 DEF NHalves, ldu
<1>4. stage' \in {"build", "rejected"} => BeforeSweeps'
  BY <1>1, <1>3 DEF SerialIInv, BeforeSweeps
<1>5. stage' \in {"sweep", "done"} => ScheduleOK' /\ PlaceOK' /\ MemoryOK' /\ ScatterOK'
  <2> SUFFICES ASSUME stage' \in {"sweep", "done"}
      PROVE ScheduleOK' /\ PlaceOK' /\ MemoryOK' /\ ScatterOK'
    OBVIOUS
  <2>1. ScheduleOK /\ PlaceOK /\ MemoryOK /\ ScatterOK
    BY DEF SerialIInv
  <2> QED BY <1>1, <2>1, SweepStays
<1>6. stage' = "done" => half' = NHalves'
  BY <1>1, <1>3 DEF SerialIInv
<1>7. stage' \in {"build", "rejected", "sweep", "done"}
  BY DEF SerialIInv
<1> QED BY <1>2, <1>4, <1>5, <1>6, <1>7 DEF SerialIInv

\* SerialIInv is an invariant of the serial smoothers.
THEOREM SerialInvariant == SerialSpec => []SerialIInv
<1>1. SerialInit => SerialIInv
  BY SerialInitially
<1>2. SerialIInv /\ [SerialNext]_serialVars => SerialIInv'
  <2> SUFFICES ASSUME SerialIInv, [SerialNext]_serialVars PROVE SerialIInv'
    OBVIOUS
  <2>1. CASE FallBack
    BY <2>1, FallBackKeeps
  <2>2. CASE Build
    BY <2>2, BuildKeeps
  <2>3. CASE UpdateRows
    BY <2>3, UpdateRowsKeeps
  <2>4. CASE EndSweep
    BY <2>4, EndSweepKeeps
  <2>5. CASE ReturnPsi
    BY <2>5, StayKeeps DEF ReturnPsi
  <2>6. CASE UNCHANGED serialVars
    BY <2>6, StayKeeps DEF serialVars
  <2> QED BY <2>1, <2>2, <2>3, <2>4, <2>5, <2>6 DEF SerialNext
<1> QED BY <1>1, <1>2, PTL DEF SerialSpec

\* SameArithmetic: every update of every serial kernel, for any addressing,
\* arrangement of rows and encoding of columns, subtracts what the reference
\* smoother subtracts, with the values that smoother reads.
THEOREM SerialArithmetic == SerialSpec => []SameArithmetic
<1>1. SerialIInv => SameArithmetic
  BY DEF SerialIInv
<1> QED BY <1>1, SerialInvariant, PTL

\* ResultInPsi: when a call returns, psi holds the last sweep in every cell.
THEOREM SerialResult == SerialSpec => []ResultInPsi
<1>1. SerialIInv => ResultInPsi
  <2> SUFFICES ASSUME SerialIInv, stage = "done", NEW c \in Cells PROVE psi[c] = NHalves
    BY DEF ResultInPsi
  <2>1. ArgumentsOK /\ ScheduleOK /\ PlaceOK /\ MemoryOK /\ half = NHalves
    BY DEF SerialIInv
  <2>2. row = 0 /\ NHalves \in Nat /\ call.nSweeps \in Nat
    BY <2>1, ArgumentFacts DEF PlaceOK
  <2>3. ~ Backward
    BY <2>1, <2>2 DEF Backward, NHalves
  <2>4. packed.cellToRow[c] \in Nat
    <3>1. \A z \in Cells : z \in Nat
      BY NCellsAssumption DEF Cells
    <3> QED BY <2>1, <3>1, ScheduleFacts
  <2>5. ~ Updated(c)
    BY <2>2, <2>3, <2>4 DEF Updated
  <2>6. psi[c] = PsiHeld(c)
    BY <2>1 DEF MemoryOK
  <2> QED BY <2>1, <2>5, <2>6 DEF PsiHeld
<1> QED BY <1>1, SerialInvariant, PTL

\* Nothing is ahead of the last half-sweep.
LEMMA UpdatesLeft ==
  ASSUME ArgumentsOK, ScheduleOK, PlaceOK, half = NHalves, NEW c \in Cells
  PROVE  ~ Updated(c)
<1>1. row = 0 /\ NHalves \in Nat /\ call.nSweeps \in Nat
  BY ArgumentFacts DEF PlaceOK
<1>2. ~ Backward
  BY <1>1 DEF Backward, NHalves
<1>3. packed.cellToRow[c] \in Nat
  <2>1. \A z \in Cells : z \in Nat
    BY NCellsAssumption DEF Cells
  <2> QED BY <2>1, ScheduleFacts
<1> QED BY <1>1, <1>2, <1>3 DEF Updated

\* Every array holds numbers of half-sweeps.
LEMMA MemoryBounds ==
  ASSUME ArgumentsOK, ScheduleOK, PlaceOK, MemoryOK
  PROVE  /\ psi \in [Cells -> 0 .. NHalves] /\ reorderedPsi \in [Cells -> 0 .. NHalves]
         /\ edgeValues \in [Faces(ldu) -> 0 .. NHalves]
<1>1. IsAddressing(ldu) /\ Plausible(kernel) /\ NHalves \in Nat /\ half \in 0 .. NHalves
  BY KernelFacts, ArgumentFacts DEF ArgumentsOK, PlaceOK
<1>2. \A c \in Cells : half = NHalves => ~ Updated(c)
  BY UpdatesLeft
<1>3. ASSUME NEW c \in Cells
      PROVE  (IF Updated(c) THEN half + 1 ELSE half) \in 0 .. NHalves
  <2>1. CASE Updated(c)
    <3>1. half # NHalves
      BY <1>2, <2>1
    <3> QED BY <1>1, <2>1, <3>1
  <2>2. CASE ~ Updated(c)
    BY <1>1, <2>2
  <2> QED BY <2>1, <2>2
<1>4. ASSUME NEW c \in Cells PROVE PsiHeld(c) \in 0 .. NHalves
  <2>1. PsiHeld(c) \in {half, half + 1, 0}
    BY DEF PsiHeld
  <2>2. CASE ~ kernel.reordered
    BY <1>3, <2>2 DEF PsiHeld
  <2>3. CASE kernel.reordered /\ half = NHalves
    BY <1>1, <2>3 DEF PsiHeld
  <2>4. CASE kernel.reordered /\ half # NHalves
    <3>1. half + 1 \in 0 .. NHalves
      BY <1>1, <2>4
    <3> QED BY <1>1, <2>1, <3>1
  <2> QED BY <2>2, <2>3, <2>4
<1>5. ASSUME NEW r \in Cells PROVE RowHeld(r) \in 0 .. NHalves
  <2>1. CASE ~ kernel.reordered
    BY <1>1, <2>1 DEF RowHeld
  <2>2. CASE kernel.reordered
    <3>1. NHalves > 1
      BY <1>1, <2>2, ArgumentFacts DEF Plausible, NHalves, ScheduleOK
    <3>2. RowHeld(r) = IF half >= NHalves - 1 THEN NHalves - 1
                       ELSE IF r < row THEN half + 1 ELSE half
      BY <2>2 DEF RowHeld
    <3> QED BY <1>1, <3>1, <3>2
  <2> QED BY <2>1, <2>2
<1>6. ASSUME NEW f \in Faces(ldu) PROVE EdgeHeld(f) \in 0 .. NHalves
  <2>1. PICK c \in Cells : c = ldu.lower[f]
    BY <1>1, FaceFacts
  <2>2. EdgeHeld(f) = IF kernel.lower # "edges" THEN 0
                      ELSE IF Updated(c) THEN half + 1 ELSE half
    BY <2>1 DEF EdgeHeld
  <2>3. CASE kernel.lower # "edges"
    BY <1>1, <2>2, <2>3
  <2>4. CASE kernel.lower = "edges"
    BY <1>3, <2>2, <2>4
  <2> QED BY <2>3, <2>4
<1> QED BY <1>4, <1>5, <1>6 DEF MemoryOK

\* The rows read together, their entries and the row fetched ahead lie in
\* the arrays.
LEMMA NextRowInside ==
  ASSUME SerialIInv, Sweeping
  PROVE  /\ Rows \subseteq Cells
         /\ \A r \in Rows : Begin(r) + Degree(r) <= Len(packed.entries)
         /\ kernel.prefetch /\ row < PrefetchEnd => FutureRow \in Cells
<1>1. /\ ArgumentsOK /\ ScheduleOK /\ PlaceOK /\ half < NHalves /\ ~ Done
  BY DEF SerialIInv, Sweeping
<1>2. /\ row \in Cells /\ Rows \subseteq Cells
      /\ \A r \in Rows : Begin(r) = packed.rowStarts[r + 1]
  BY <1>1, RowsFacts
<1>3. \A r \in Rows : packed.rowStarts[r + 1] + Degree(r) <= Len(packed.entries)
  BY <1>1, <1>2, ScheduleFacts
<1>4. ASSUME kernel.prefetch, row < PrefetchEnd PROVE FutureRow \in Cells
  <2>1. call.rowDistance \in Nat /\ NCells \in Nat /\ row \in Nat
    BY <1>1, <1>2, ArgumentFacts, NCellsAssumption DEF Cells
  <2>2. PrefetchEnd = IF NCells > call.rowDistance THEN NCells - call.rowDistance ELSE 0
    BY DEF PrefetchEnd
  <2>3. row + call.rowDistance \in 0 .. NCells - 1
    BY <1>4, <2>1, <2>2
  <2> QED BY <2>3 DEF FutureRow, Cells
<1> QED BY <1>2, <1>3, <1>4

\* InBounds: the serial kernels stay inside their arrays.
THEOREM SerialInBounds == SerialSpec => []InBounds
<1>1. SerialIInv => InBounds
  <2> SUFFICES ASSUME SerialIInv PROVE InBounds
    OBVIOUS
  <2>1. /\ ArgumentsOK /\ stage \in {"build", "rejected", "sweep", "done"} /\ kernel \in Kernels
    BY DEF SerialIInv, ArgumentsOK
  <2>2. NHalves \in Nat /\ NCells \in Nat
    BY <2>1, ArgumentFacts, NCellsAssumption
  <2>3. CASE stage \in {"build", "rejected"}
    <3>1. BeforeSweeps /\ ~ Sweeping
      BY <2>3 DEF SerialIInv, Sweeping
    <3>2. half \in 0 .. NHalves /\ row \in -1 .. NCells /\ 0 \in 0 .. NHalves
      BY <2>2, <3>1 DEF BeforeSweeps
    <3>3. /\ psi \in [Cells -> 0 .. NHalves] /\ reorderedPsi \in [Cells -> 0 .. NHalves]
          /\ edgeValues \in [Faces(ldu) -> 0 .. NHalves]
      BY <3>1, <3>2 DEF BeforeSweeps
    <3> QED BY <2>1, <3>1, <3>2, <3>3 DEF InBounds
  <2>4. CASE stage \in {"sweep", "done"}
    <3>1. ScheduleOK /\ PlaceOK /\ MemoryOK
      BY <2>4 DEF SerialIInv
    <3>2. half \in 0 .. NHalves /\ row \in -1 .. NCells
      <4>1. row \in IF Backward THEN -1 .. NCells - 1 ELSE 0 .. NCells
        BY <3>1 DEF PlaceOK
      <4>2. CASE Backward
        BY <2>2, <3>1, <4>1, <4>2 DEF PlaceOK
      <4>3. CASE ~ Backward
        BY <2>2, <3>1, <4>1, <4>3 DEF PlaceOK
      <4> QED BY <4>2, <4>3
    <3>3. /\ psi \in [Cells -> 0 .. NHalves] /\ reorderedPsi \in [Cells -> 0 .. NHalves]
          /\ edgeValues \in [Faces(ldu) -> 0 .. NHalves]
      BY <2>1, <3>1, MemoryBounds
    <3> QED BY <2>1, <3>2, <3>3, NextRowInside DEF InBounds
  <2> QED BY <2>1, <2>3, <2>4
<1> QED BY <1>1, SerialInvariant, PTL
================================================================================
