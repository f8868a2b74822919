----------------------- MODULE IndexKahnVariantsProofs -----------------------
(***************************************************************************)
(* The experimental builders, for every number of cells, every addressing  *)
(* and every set of controls.                                              *)
(***************************************************************************)
EXTENDS IndexKahnVariants, KahnFrontierProofs

\* The inductive invariant: what a builder holds are the free cells, each in
\* one place; the window is short only when nothing else is ready.
IInv ==
  /\ FrontierOK
  /\ ready \in SUBSET Cells /\ frontier \in SUBSET Cells
  /\ active \in Seq(Cells) /\ IsInjective(active)
  /\ anchor \in 0 .. NCells
  /\ levelStarts \in Seq(0 .. NCells)
  /\ Builder # "slidingWindow" => active = <<>>
  /\ Builder # "frontierContinuing" => frontier = {}
  /\ status = "called" => ready = {} /\ frontier = {} /\ active = <<>>
  /\ status = "building" =>
       /\ ValidControls
       /\ ready \cup Range(active) \cup frontier = Free
       /\ ready \cap Range(active) = {} /\ ready \cap frontier = {}
       /\ Builder = "slidingWindow" =>
            Len(active) <= Width /\ (Len(active) = Width \/ ready = {})
  /\ status = "returned" =>
       /\ oldToNew = [c \in Cells |-> RowOf(c)]
       /\ Emitted = Cells
       /\ ValidControls
  /\ status = "uncovered" => Free = {} /\ Emitted # Cells

\* What the checks of the arguments let through.
LEMMA ControlFacts ==
  ASSUME request \in Requests, ValidControls
  PROVE  /\ Builder \in Builders /\ Width \in Int
         /\ Builder \notin {"unbounded"} => Width \in Nat \ {0}
         /\ Builder = "slidingWindow" => request.step \in Nat \ {0} /\ request.step <= Width
         /\ Builder = "adaptiveGap" =>
              /\ request.least \in Nat \ {0} /\ request.most \in Nat
              /\ request.least <= request.most
         /\ GuaranteedWidth \in Nat \ {0}
<1>1. /\ Builder \in Builders /\ Width \in Int /\ request.step \in Int
      /\ request.least \in Int /\ request.most \in Int
  BY VariantRequestsAssumption DEF Builder, Width
<1>2. CASE Builder = "slidingWindow"
  BY <1>1, <1>2 DEF ValidControls, GuaranteedWidth
<1>3. CASE Builder = "adaptiveGap"
  BY <1>1, <1>3 DEF ValidControls, GuaranteedWidth
<1>4. CASE Builder = "unbounded"
  BY <1>1, <1>4 DEF ValidControls, GuaranteedWidth
<1>5. CASE Builder \notin {"slidingWindow", "adaptiveGap", "unbounded"}
  <2>1. Width >= 1
    BY <1>5 DEF ValidControls
  <2> QED BY <1>1, <1>5, <2>1 DEF GuaranteedWidth
<1> QED BY <1>2, <1>3, <1>4, <1>5

-----------------------------------------------------------------------------
(* What the builders take. *)

\* The first n elements of a list of S are n of its elements, or all of them.
LEMMA TakeOfListing ==
  ASSUME NEW S \in SUBSET Cells, S # {}, NEW s \in Seq(S), IsInjective(s), Range(s) = S,
         NEW n \in Nat \ {0}
  PROVE  /\ Take(s, n) \in Seq(S) /\ Take(s, n) \in Seq(Cells)
         /\ IsInjective(Take(s, n)) /\ Range(Take(s, n)) \subseteq S
         /\ Len(Take(s, n)) \in Nat \ {0}
         /\ Len(Take(s, n)) = AtMost(n, Len(s))
         /\ Len(Take(s, n)) = n \/ Range(Take(s, n)) = S
<1>1. /\ Take(s, n) \in Seq(S) /\ Len(Take(s, n)) = AtMost(n, Len(s))
      /\ Range(Take(s, n)) \subseteq Range(s) /\ IsInjective(Take(s, n))
  BY TakeProperties
<1>2. Len(s) \in Nat /\ Len(s) # 0
  <2>1. Len(s) \in Nat /\ DOMAIN s = 1 .. Len(s)
    BY LenProperties
  <2>2. DOMAIN s # {}
    BY DEF Range
  <2> QED BY <2>1, <2>2
<1>3. Take(s, n) \in Seq(Cells)
  BY <1>1, SeqMonotonic
<1>4. CASE n < Len(s)
  BY <1>1, <1>2, <1>3, <1>4 DEF AtMost
<1>5. CASE Len(s) <= n
  BY <1>1, <1>2, <1>3, <1>5, TakeWhole DEF AtMost
<1> QED BY <1>2, <1>4, <1>5

\* Iteration continued at the beginning of the set lists the set.
LEMMA CyclicListing ==
  ASSUME NEW S \in SUBSET Cells, NEW from \in Int
  PROVE  /\ CyclicFrom(S, from) \in Seq(S)
         /\ IsInjective(CyclicFrom(S, from)) /\ Range(CyclicFrom(S, from)) = S
<1> DEFINE A == {c \in S : c >= from}
           B == {c \in S : c < from}
<1>1. A \in SUBSET Cells /\ B \in SUBSET Cells /\ A \subseteq S /\ B \subseteq S
  OBVIOUS
<1>2. A \cap B = {} /\ A \cup B = S
  BY CellsAreIntegers
<1> HIDE DEF A, B
<1>3. /\ Ascending(A) \in Seq(A) /\ IsInjective(Ascending(A)) /\ Range(Ascending(A)) = A
      /\ Ascending(B) \in Seq(B) /\ IsInjective(Ascending(B)) /\ Range(Ascending(B)) = B
  BY <1>1, AscendingProperties
<1>4. Ascending(A) \in Seq(S) /\ Ascending(B) \in Seq(S)
  BY <1>1, <1>3, SeqMonotonic
<1>5. /\ Ascending(A) \o Ascending(B) \in Seq(S)
      /\ IsInjective(Ascending(A) \o Ascending(B))
      /\ Range(Ascending(A) \o Ascending(B)) = A \cup B
  BY <1>2, <1>3, <1>4, ConcatProperties, InjectiveConcat, RangeOfConcat
<1> QED BY <1>2, <1>5 DEF CyclicFrom, A, B

\* Turning a list around does not change what it lists.
LEMMA ReversedListing ==
  ASSUME NEW S, NEW s \in Seq(S), IsInjective(s)
  PROVE  /\ Reversed(s) \in Seq(S) /\ Len(Reversed(s)) = Len(s)
         /\ IsInjective(Reversed(s)) /\ Range(Reversed(s)) = Range(s)
<1>1. Len(s) \in Nat /\ DOMAIN s = 1 .. Len(s) /\ \A i \in 1 .. Len(s) : s[i] \in S
  BY LenProperties, ElementOfSeq
<1> DEFINE n == Len(s)
<1>2. /\ Reversed(s) = [i \in 1 .. n |-> s[n + 1 - i]]
      /\ \A i \in 1 .. n : n + 1 - i \in 1 .. n /\ n + 1 - (n + 1 - i) = i
  BY <1>1 DEF Reversed
<1> HIDE DEF n
<1>3. Reversed(s) \in [1 .. n -> S]
  BY <1>1, <1>2 DEF n
<1>4. Reversed(s) \in Seq(S) /\ Len(Reversed(s)) = n
  BY <1>1, <1>3, FunctionIsSeq DEF n
<1>5. IsInjective(Reversed(s))
  <2> SUFFICES ASSUME NEW i \in 1 .. n, NEW j \in 1 .. n,
                      s[n + 1 - i] = s[n + 1 - j]
               PROVE  i = j
    BY <1>2 DEF IsInjective
  <2>1. n + 1 - i = n + 1 - j
    BY <1>1, <1>2 DEF IsInjective, n
  <2> QED BY <1>1, <2>1 DEF n
<1>6. Range(Reversed(s)) = Range(s)
  <2>1. \A x \in Range(s) : x \in Range(Reversed(s))
    <3> SUFFICES ASSUME NEW i \in 1 .. n
                 PROVE  s[i] \in Range(Reversed(s))
      BY <1>1 DEF Range, n
    <3>1. n + 1 - i \in 1 .. n /\ Reversed(s)[n + 1 - i] = s[i]
      BY <1>2
    <3> QED BY <1>2, <3>1 DEF Range
  <2>2. \A x \in Range(Reversed(s)) : x \in Range(s)
    BY <1>1, <1>2 DEF Range, n
  <2> QED BY <2>1, <2>2
<1> QED BY <1>4, <1>5, <1>6 DEF n

-----------------------------------------------------------------------------
(* The abstract builder's addressing is this one. *)
LEMMA SameAddressing ==
  /\ Ordering!Cells = Cells
  /\ Ordering!Emitted = Emitted
  /\ \A c : Ordering!IncomingFaces(mesh, c) = IncomingFaces(mesh, c)
  /\ \A s : Ordering!IsInjective(s) <=> IsInjective(s)
<1>1. Ordering!Cells = Cells
  BY DEF Ordering!Cells, Cells
<1>2. Ordering!Emitted = Emitted
  BY DEF Ordering!Emitted, Emitted, Ordering!Range, Range
<1>3. \A c : Ordering!IncomingFaces(mesh, c) = IncomingFaces(mesh, c)
  BY DEF Ordering!IncomingFaces, IncomingFaces, Ordering!Faces, Faces
<1>4. \A s : Ordering!IsInjective(s) <=> IsInjective(s)
  BY DEF Ordering!IsInjective, IsInjective
<1> QED BY <1>1, <1>2, <1>3, <1>4

\* Free cells are the available ones of the abstract builder.
LEMMA FreeIsAvailable == Ordering!Available = Free
BY SameAddressing DEF Ordering!Available, Free, Pending

-----------------------------------------------------------------------------
(* What every step that appends rows has in common. *)

\* some free cells in some order, and the levels they are cut into
IsChunk(chunk, cuts) ==
  /\ chunk \in Seq(Cells) /\ Len(chunk) \in Nat \ {0}
  /\ IsInjective(chunk) /\ Range(chunk) \subseteq Free
  /\ cuts \in Seq(Nat) /\ Len(cuts) \in 1 .. Len(chunk)
  /\ Ordering!IsCutting(cuts, Len(newToOld), Len(chunk))

\* the cells the current chunk is taken from, and those that wait for them
Now == IF frontier # {} THEN frontier ELSE ready \cup Range(active)

Later == IF frontier # {} THEN ready ELSE {}

\* one level of the guaranteed width, or everything in levels that are but one
IsWide(chunk, cuts) ==
  /\ Range(chunk) \subseteq Now
  /\ \/ Len(cuts) = 1 /\ GuaranteedWidth <= Len(chunk)
     \/ /\ Range(chunk) = Now
        /\ Len(cuts) * GuaranteedWidth <= Len(chunk) + GuaranteedWidth - 1

Appends(chunk, cuts) ==
  /\ IsChunk(chunk, cuts)
  /\ IsWide(chunk, cuts)
  /\ Emit(chunk, cuts, ready')
  /\ active' \in Seq(Cells) /\ IsInjective(active')
  /\ anchor' \in 0 .. NCells
  /\ ready' \cup Range(active') \cup frontier' = (Free \ Range(chunk)) \cup Released(chunk)
  /\ ready' \cap Range(active') = {} /\ ready' \cap frontier' = {}
  /\ Builder # "slidingWindow" => active' = <<>>
  /\ Builder # "frontierContinuing" => frontier' = {}
  /\ Builder = "slidingWindow" =>
       Len(active') <= Width /\ (Len(active') = Width \/ ready' = {})
  /\ frontier' = frontier \ Range(chunk)
  /\ frontier # {} => ready' = ready \cup Released(chunk)

LEMMA AppendsIInv ==
  ASSUME IInv, NEW chunk, NEW cuts, Appends(chunk, cuts)
  PROVE  IInv'
<1>1. /\ status = "building" /\ status' = "building" /\ request' = request
      /\ newToOld' = newToOld \o chunk /\ levelStarts' = levelStarts \o cuts
      /\ Emit(chunk, cuts, ready')
  BY DEF Appends, Emit
<1>2. /\ chunk \in Seq(Cells) /\ IsInjective(chunk) /\ Range(chunk) \subseteq Free
      /\ cuts \in Seq(Nat) /\ Len(chunk) \in Nat
      /\ Ordering!IsCutting(cuts, Len(newToOld), Len(chunk))
  BY DEF Appends, IsChunk
<1>3. FrontierOK /\ ValidControls
  BY <1>1 DEF IInv
<1>4. FrontierOK' /\ Free' = (Free \ Range(chunk)) \cup Released(chunk)
  BY <1>1, <1>2, <1>3, EmitFrontier
<1>5. levelStarts' \in Seq(0 .. NCells)
  <2>1. newToOld \in Seq(Cells) /\ newToOld' \in Seq(Cells) /\ IsInjective(newToOld')
    BY <1>3, <1>4 DEF FrontierOK
  <2>2. Len(newToOld') <= NCells /\ Len(newToOld') \in Nat /\ Len(newToOld) \in Nat
    BY <2>1, InjectiveIsShort, LenProperties
  <2>3. Len(newToOld') = Len(newToOld) + Len(chunk)
    BY <1>1, <1>2, <2>1, ConcatProperties
  <2>4. \A i \in DOMAIN cuts : cuts[i] \in 0 .. NCells
    BY <1>2, <2>2, <2>3, NCellsAssumption DEF Ordering!IsCutting
  <2>5. cuts \in [1 .. Len(cuts) -> 0 .. NCells] /\ Len(cuts) \in Nat
    BY <1>2, <2>4, LenProperties
  <2>6. cuts \in Seq(0 .. NCells)
    BY <2>5, FunctionIsSeq
  <2> QED BY <1>1, <2>6, ConcatProperties DEF IInv
<1>6. Builder' = Builder /\ Width' = Width /\ ValidControls' = ValidControls
  BY <1>1 DEF Builder, Width, ValidControls
<1>7. ready' \in SUBSET Cells /\ frontier' \in SUBSET Cells
  BY <1>4 DEF Appends, Free, Released
<1> QED BY <1>1, <1>3, <1>4, <1>5, <1>6, <1>7 DEF IInv, Appends

LEMMA AppendsRefines ==
  ASSUME IInv, NEW chunk, NEW cuts, Appends(chunk, cuts)
  PROVE  Ordering!Next
<1>1. /\ chunk \in Seq(Cells) /\ Len(chunk) \in Nat \ {0}
      /\ IsInjective(chunk) /\ Range(chunk) \subseteq Free
      /\ cuts \in Seq(Nat) /\ Len(cuts) \in 1 .. Len(chunk)
      /\ Ordering!IsCutting(cuts, Len(newToOld), Len(chunk))
      /\ Emit(chunk, cuts, ready')
  BY DEF Appends, IsChunk
<1> DEFINE n == Len(chunk)
           A == Ordering!Available
           first == Len(newToOld)
<1>2. chunk \in Ordering!Chunks
  <2>1. A = Free
    BY FreeIsAvailable
  <2>2. n \in 1 .. NCells
    BY <1>1, InjectiveIsShort, NCellsAssumption
  <2>3. chunk \in [1 .. n -> Cells] /\ \A i \in 1 .. n : chunk[i] \in A
    BY <1>1, <2>1, LenProperties DEF Range
  <2> HIDE DEF A
  <2>4. chunk \in [1 .. n -> A]
    BY <2>3
  <2> HIDE DEF n
  <2>5. chunk \in UNION {[1 .. k -> A] : k \in 1 .. NCells}
    BY <2>2, <2>4
  <2>6. Ordering!IsInjective(chunk)
    BY <1>1, SameAddressing
  <2> QED BY <2>5, <2>6 DEF Ordering!Chunks, A
<1>3. cuts \in Ordering!Cuttings(first, n)
  <2>1. /\ Len(cuts) \in 1 .. n /\ DOMAIN cuts = 1 .. Len(cuts)
        /\ Ordering!IsCutting(cuts, first, n)
    BY <1>1, LenProperties
  <2>2. cuts \in [1 .. Len(cuts) -> first + 1 .. first + n]
    <3>1. cuts \in [1 .. Len(cuts) -> Nat]
      BY <1>1, LenProperties
    <3> QED BY <2>1, <3>1 DEF Ordering!IsCutting
  <2> HIDE DEF n, first
  <2> QED BY <2>1, <2>2, Zenon DEF Ordering!Cuttings
<1>4. Ordering!EmitLevels(chunk, cuts)
  BY <1>1 DEF Emit, Ordering!EmitLevels
<1> QED BY <1>2, <1>3, <1>4 DEF Ordering!Next

\* The chunk closed as one level.
LEMMA OneLevelCuts ==
  ASSUME newToOld \in Seq(Cells), NEW chunk, Len(chunk) \in Nat \ {0}
  PROVE  /\ OneLevel(chunk) \in Seq(Nat) /\ Len(OneLevel(chunk)) = 1
         /\ Len(OneLevel(chunk)) \in 1 .. Len(chunk)
         /\ Ordering!IsCutting(OneLevel(chunk), Len(newToOld), Len(chunk))
<1> DEFINE n == Len(chunk)
           first == Len(newToOld)
           cuts == OneLevel(chunk)
<1>1. first \in Nat /\ n \in Nat /\ n >= 1
  BY LenProperties
<1>2. cuts = <<first + n>>
  BY DEF OneLevel
<1> HIDE DEF n, first, cuts
<1>3. cuts \in Seq(Nat) /\ Len(cuts) = 1 /\ 1 \in 1 .. n
  BY <1>1, <1>2
<1>4. Ordering!IsCutting(cuts, first, n)
  BY <1>1, <1>2 DEF Ordering!IsCutting
<1> QED BY <1>3, <1>4 DEF n, first, cuts

\* Most builders take a chunk out of the ready set.
LEMMA TakesFromReady ==
  ASSUME IInv, Builder \notin {"slidingWindow", "frontierContinuing"},
         NEW current, NEW order, NEW cuts, EmitFromReady(current, order, cuts),
         order \in Seq(Cells), IsInjective(order), Len(order) \in Nat \ {0},
         Range(order) = Range(current), Range(order) \subseteq ready,
         cuts \in Seq(Nat), Len(cuts) \in 1 .. Len(order),
         Ordering!IsCutting(cuts, Len(newToOld), Len(order)),
         anchor' \in 0 .. NCells,
         \/ Len(cuts) = 1 /\ GuaranteedWidth <= Len(order)
         \/ /\ Range(order) = ready
            /\ Len(cuts) * GuaranteedWidth <= Len(order) + GuaranteedWidth - 1
  PROVE  Appends(order, cuts)
<1>1. /\ status = "building" /\ active' = active /\ frontier' = frontier
      /\ Emit(order, cuts, (ready \ Range(current)) \cup Released(current))
      /\ ready' = (ready \ Range(current)) \cup Released(current)
  BY DEF EmitFromReady, Emit
<1>2. /\ active = <<>> /\ frontier = {} /\ Range(active) = {} /\ ready = Free
  <2>1. active = <<>> /\ frontier = {}
    BY DEF IInv
  <2>2. Range(<<>>) = {}
    BY DEF Range
  <2> QED BY <1>1, <2>1, <2>2 DEF IInv
<1>3. Now = ready
  BY <1>2 DEF Now
<1>4. Released(current) = Released(order)
  BY DEF Released, Decrements
<1>5. ready' \cup Range(active') \cup frontier' = (Free \ Range(order)) \cup Released(order)
  BY <1>1, <1>2, <1>4
<1>6. active' \in Seq(Cells) /\ IsInjective(active')
  BY <1>1 DEF IInv
<1>7. IsChunk(order, cuts) /\ IsWide(order, cuts)
  BY <1>2, <1>3 DEF IsChunk, IsWide
<1> QED BY <1>1, <1>2, <1>5, <1>6, <1>7 DEF Appends

\* the same when the chunk is the first n of the ready cells, in one level
LEMMA TakesFirst ==
  ASSUME IInv, status = "building", ready # {}, NEW s \in Seq(ready), IsInjective(s),
         Range(s) = ready, NEW n \in Nat \ {0}
  PROVE  /\ Take(s, n) \in Seq(Cells) /\ IsInjective(Take(s, n))
         /\ Len(Take(s, n)) \in Nat \ {0} /\ Range(Take(s, n)) \subseteq ready
         /\ Len(OneLevel(Take(s, n))) = 1
         /\ Len(OneLevel(Take(s, n))) * GuaranteedWidth
              <= Len(Take(s, n)) + GuaranteedWidth - 1
         /\ Len(Take(s, n)) = AtMost(n, Len(s))
         /\ Len(Take(s, n)) = n \/ Range(Take(s, n)) = ready
<1>1. ready \in SUBSET Cells /\ request \in Requests /\ ValidControls
  BY DEF IInv, FrontierOK
<1>2. PICK t : t = Take(s, n)
  OBVIOUS
<1>3. /\ t \in Seq(Cells) /\ IsInjective(t)
      /\ Len(t) \in Nat \ {0} /\ Range(t) \subseteq ready
      /\ Len(t) = AtMost(n, Len(s)) /\ (Len(t) = n \/ Range(t) = ready)
  BY <1>1, <1>2, TakeOfListing
<1>4. Len(OneLevel(t)) = 1
  BY DEF OneLevel
<1>5. Len(OneLevel(t)) * GuaranteedWidth <= Len(t) + GuaranteedWidth - 1
  BY <1>1, <1>3, <1>4, ControlFacts
<1> QED BY <1>2, <1>3, <1>4, <1>5

\* A builder that takes the first n of a listing of the ready set, in one level,
\* n being what it guarantees unless the ready set is smaller.
LEMMA TakesFirstOf ==
  ASSUME IInv, Builder \notin {"slidingWindow", "frontierContinuing"},
         NEW s \in Seq(ready), IsInjective(s), Range(s) = ready,
         NEW n \in Nat \ {0}, n >= GuaranteedWidth \/ Len(s) <= n,
         NEW current, current = Take(s, n),
         EmitFromReady(current, current, OneLevel(current)), anchor' \in 0 .. NCells
  PROVE  Appends(current, OneLevel(current))
<1>1. /\ status = "building" /\ ready # {} /\ newToOld \in Seq(Cells)
      /\ ready \in SUBSET Cells /\ request \in Requests /\ ValidControls
  BY DEF EmitFromReady, Emit, IInv, FrontierOK
<1>2. /\ current \in Seq(Cells) /\ IsInjective(current)
      /\ Len(current) \in Nat \ {0} /\ Range(current) \subseteq ready
      /\ Len(OneLevel(current)) * GuaranteedWidth
           <= Len(current) + GuaranteedWidth - 1
      /\ Len(current) = n \/ Range(current) = ready
  BY <1>1, TakesFirst
<1>3. /\ OneLevel(current) \in Seq(Nat) /\ Len(OneLevel(current)) = 1
      /\ Len(OneLevel(current)) \in 1 .. Len(current)
      /\ Ordering!IsCutting(OneLevel(current), Len(newToOld), Len(current))
  BY <1>1, <1>2, OneLevelCuts
<1>4. \/ Len(OneLevel(current)) = 1 /\ GuaranteedWidth <= Len(current)
      \/ /\ Range(current) = ready
         /\ Len(OneLevel(current)) * GuaranteedWidth
              <= Len(current) + GuaranteedWidth - 1
  <2>1. CASE Range(current) = ready
    BY <1>2, <2>1
  <2>2. CASE Len(current) = n /\ n >= GuaranteedWidth
    BY <1>3, <2>2
  <2>3. CASE Len(s) <= n
    <3>1. current = s
      BY <2>3, TakeWhole
    <3> QED BY <2>1, <3>1
  <2> QED BY <1>2, <2>1, <2>2, <2>3
<1> QED BY <1>2, <1>3, <1>4, TakesFromReady

LEMMA ReadyIsListed ==
  ASSUME IInv, ready # {}
  PROVE  /\ Ascending(ready) \in Seq(ready) /\ IsInjective(Ascending(ready))
         /\ Range(Ascending(ready)) = ready
         /\ Len(Ascending(ready)) = ReadySize /\ ReadySize \in Nat \ {0}
         /\ ReadySize <= NCells
<1>1. ready \in SUBSET Cells
  BY DEF IInv
<1>2. ReadySize \in Nat /\ ReadySize <= NCells /\ IsFiniteSet(ready)
  BY <1>1, CellsFinite, NCellsAssumption DEF ReadySize
<1>3. ReadySize # 0
  BY <1>2, FS_EmptySet DEF ReadySize
<1> QED BY <1>1, <1>2, <1>3, AscendingProperties DEF ReadySize

LEMMA ReleaseDiagnosticAppends ==
  ASSUME IInv, ReleaseDiagnosticStep
  PROVE  \E chunk, cuts : Appends(chunk, cuts)
<1>1. PICK current :
        /\ current = Take(Ascending(ready), Width)
        /\ Builder = "releaseDiagnostic"
        /\ EmitFromReady(current, current, OneLevel(current))
        /\ anchor' = anchor
  BY DEF ReleaseDiagnosticStep
<1>2. ready # {} /\ status = "building" /\ Width \in Nat \ {0} /\ GuaranteedWidth = Width
  BY <1>1, ControlFacts DEF EmitFromReady, Emit, IInv, FrontierOK, GuaranteedWidth
<1>3. anchor' \in 0 .. NCells
  BY <1>1 DEF IInv
<1> QED BY <1>1, <1>2, <1>3, ReadyIsListed, TakesFirstOf

LEMMA OrientedAppends ==
  ASSUME IInv, OrientedStep
  PROVE  \E chunk, cuts : Appends(chunk, cuts)
<1>1. PICK current :
        /\ current = Take(Ascending(ready), Width)
        /\ Builder = "oriented"
        /\ EmitFromReady(current, Oriented(current), OneLevel(current))
        /\ anchor' = anchor
  BY DEF OrientedStep
<1>2. /\ ready # {} /\ status = "building" /\ newToOld \in Seq(Cells)
      /\ Width \in Nat \ {0} /\ GuaranteedWidth = Width
  BY <1>1, ControlFacts DEF EmitFromReady, Emit, IInv, FrontierOK, GuaranteedWidth
<1>3. anchor' \in 0 .. NCells
  BY <1>1 DEF IInv
<1>4. /\ current \in Seq(Cells) /\ IsInjective(current)
      /\ Len(current) \in Nat \ {0} /\ Range(current) \subseteq ready
      /\ Len(OneLevel(current)) * GuaranteedWidth <= Len(current) + GuaranteedWidth - 1
      /\ Len(current) = Width \/ Range(current) = ready
  BY <1>1, <1>2, ReadyIsListed, TakesFirst
<1>5. /\ OneLevel(current) \in Seq(Nat) /\ Len(OneLevel(current)) = 1
      /\ Len(OneLevel(current)) \in 1 .. Len(current)
      /\ Ordering!IsCutting(OneLevel(current), Len(newToOld), Len(current))
  BY <1>2, <1>4, OneLevelCuts
<1>6. PICK order : order = Oriented(current)
  OBVIOUS
<1>7. /\ order \in Seq(Cells) /\ Len(order) = Len(current)
      /\ IsInjective(order) /\ Range(order) = Range(current)
  <2>1. order = Reversed(current) \/ order = current
    BY <1>6 DEF Oriented
  <2> QED BY <1>4, <2>1, ReversedListing
<1>8. \/ Len(OneLevel(current)) = 1 /\ GuaranteedWidth <= Len(order)
      \/ /\ Range(order) = ready
         /\ Len(OneLevel(current)) * GuaranteedWidth <= Len(order) + GuaranteedWidth - 1
  BY <1>2, <1>4, <1>5, <1>7
<1>9. Appends(order, OneLevel(current))
  BY <1>1, <1>3, <1>4, <1>5, <1>6, <1>7, <1>8, TakesFromReady
<1> QED BY <1>9

LEMMA UnboundedAppends ==
  ASSUME IInv, UnboundedStep
  PROVE  Appends(Ascending(ready), OneLevel(Ascending(ready)))
<1>1. PICK current :
        /\ current = Ascending(ready)
        /\ Builder = "unbounded"
        /\ EmitFromReady(current, current, OneLevel(current))
        /\ anchor' = anchor
  BY DEF UnboundedStep
<1>2. ready # {}
  BY <1>1 DEF EmitFromReady
<1>3. anchor' \in 0 .. NCells
  BY <1>1 DEF IInv
<1>4. Len(Ascending(ready)) <= ReadySize /\ ReadySize \in Nat \ {0}
  BY <1>2, ReadyIsListed
<1>5. current = Take(Ascending(ready), ReadySize)
  BY <1>1, <1>2, <1>4, ReadyIsListed, TakeWhole
<1> QED BY <1>1, <1>2, <1>3, <1>4, <1>5, ReadyIsListed, TakesFirstOf

\* There is an earliest cut with the largest gap, whatever the range.
LEMMA LargestGapCutExists ==
  ASSUME IInv, ready # {}, NEW lo \in Nat \ {0}, NEW hi \in Nat,
         lo <= hi, hi < ReadySize
  PROVE  LargestGapCut(lo, hi) \in lo .. hi
<1>1. \A i, j \in 1 .. ReadySize : i < j => Ascending(ready)[i] < Ascending(ready)[j]
  BY AscendingProperties DEF IInv, ReadySize
<1>2. ReadySize \in Nat /\ \A i \in 1 .. ReadySize : Ascending(ready)[i] \in Cells
  <2>1. Ascending(ready) \in Seq(ready) /\ Len(Ascending(ready)) = ReadySize
        /\ ReadySize \in Nat /\ ready \subseteq Cells
    BY ReadyIsListed DEF IInv
  <2> QED BY <2>1, ElementOfSeq
<1>3. ASSUME NEW cut \in lo .. hi
      PROVE  Gap(cut) \in 0 .. NCells
  <2>1. cut \in 1 .. ReadySize /\ cut + 1 \in 1 .. ReadySize /\ cut < cut + 1
    BY <1>2
  <2>2. /\ Ascending(ready)[cut] \in Cells /\ Ascending(ready)[cut + 1] \in Cells
        /\ Ascending(ready)[cut] < Ascending(ready)[cut + 1]
    BY <1>1, <1>2, <2>1
  <2> QED BY <2>2, NCellsAssumption DEF Gap, Cells
<1> DEFINE gaps == {Gap(cut) : cut \in lo .. hi}
<1>4. gaps # {} /\ gaps \subseteq 0 .. NCells
  BY <1>3
<1>5. PICK g \in gaps : \A e \in gaps : e <= g
  BY <1>4, GreatestNatural, NCellsAssumption
<1> DEFINE widest == {cut \in lo .. hi : Gap(cut) = g}
<1>6. widest # {} /\ widest \in SUBSET Nat
  BY <1>5
<1>7. PICK first \in widest : \A cut \in widest : first <= cut
  BY <1>6, LeastNatural
<1>8. \A other \in lo .. hi :
        Gap(other) < Gap(first) \/ (Gap(other) = Gap(first) /\ first <= other)
  <2> SUFFICES ASSUME NEW other \in lo .. hi
               PROVE  \/ Gap(other) < Gap(first)
                      \/ Gap(other) = Gap(first) /\ first <= other
    OBVIOUS
  <2>1. Gap(other) <= g /\ Gap(first) = g /\ Gap(other) \in Int /\ g \in Int
    BY <1>3, <1>5, <1>7
  <2>2. Gap(other) = g => first <= other
    BY <1>7
  <2> QED BY <2>1, <2>2
<1> HIDE DEF gaps
<1> QED BY <1>7, <1>8 DEF LargestGapCut

LEMMA AdaptiveGapAppends ==
  ASSUME IInv, AdaptiveGapStep
  PROVE  \E chunk, cuts : Appends(chunk, cuts)
<1>1. PICK current :
        /\ current = Take(Ascending(ready), AdaptiveGapSize)
        /\ Builder = "adaptiveGap"
        /\ EmitFromReady(current, current, OneLevel(current))
        /\ anchor' = anchor
  BY DEF AdaptiveGapStep
<1>2. /\ ready # {}
      /\ request.least \in Nat \ {0} /\ request.most \in Nat /\ request.least <= request.most
      /\ GuaranteedWidth = request.least
  BY <1>1, ControlFacts DEF EmitFromReady, Emit, IInv, FrontierOK, GuaranteedWidth
<1>3. anchor' \in 0 .. NCells
  BY <1>1 DEF IInv
<1>4. ReadySize \in Nat \ {0}
  BY <1>2, ReadyIsListed
<1>5. /\ AdaptiveGapSize \in Nat \ {0}
      /\ AdaptiveGapSize >= GuaranteedWidth \/ ReadySize <= AdaptiveGapSize
  <2>1. CASE ReadySize > request.least
    <3>1. PICK hi : hi = AtMost(request.most, ReadySize - 1)
      OBVIOUS
    <3>2. hi \in Nat /\ request.least <= hi /\ hi < ReadySize
      BY <1>2, <1>4, <2>1, <3>1 DEF AtMost
    <3>3. LargestGapCut(request.least, hi) \in request.least .. hi
      BY <1>2, <3>2, LargestGapCutExists
    <3> QED BY <1>2, <2>1, <3>1, <3>2, <3>3 DEF AdaptiveGapSize
  <2>2. CASE ~ (ReadySize > request.least)
    BY <1>2, <1>4, <2>2 DEF AdaptiveGapSize, AtMost
  <2> QED BY <2>1, <2>2
<1> QED BY <1>1, <1>2, <1>3, <1>5, ReadyIsListed, TakesFirstOf

\* How many cells the ready-fraction builder takes, and what it reports of that.
LEMMA SearchRange ==
  ASSUME IInv, status = "building", Builder = "readyFraction", ready # {}
  PROVE  /\ ReadyFractionSize \in Nat \ {0} /\ ReadyFractionSize <= ReadySize
         /\ ReadyTarget <= ReadySize
         /\ SearchMin <= ReadyFractionSize /\ ReadyFractionSize <= SearchMax
         /\ ReadyFractionSize < ReadySize => ReadySize >= ReadyFloor
<1>1. ReadySize \in Nat \ {0} /\ Width \in Nat \ {0}
  BY ReadyIsListed, ControlFacts DEF IInv, FrontierOK
<1>2. ReadySize \div Width \in Nat /\ ReadySize \div Width <= ReadySize
  <2>1. PICK q : q = ReadySize \div Width
    OBVIOUS
  <2>2. q \in Nat /\ q * Width <= ReadySize
    BY <1>1, <2>1
  <2>3. q <= q * Width
    <3>1. q * (Width - 1) >= 0
      BY <1>1, <2>2
    <3> QED BY <1>1, <2>2, <3>1
  <2> QED BY <1>1, <2>1, <2>2, <2>3
<1>3. ReadyTarget \in Nat \ {0} /\ ReadyTarget <= ReadySize
  BY <1>1, <1>2, ReadyLimitsAssumption DEF ReadyTarget, AtMost, AtLeast
<1>4. SearchMin \in Nat \ {0} /\ SearchMin <= ReadyTarget
  BY <1>3 DEF SearchMin, AtLeast
<1>5. SearchMax \in Nat /\ ReadyTarget <= SearchMax /\ SearchMax <= ReadySize
  BY <1>1, <1>3 DEF SearchMax, AtMost
<1>6. CASE CutsReadySet
  <2>1. PICK hi : hi = AtMost(SearchMax, ReadySize - 1)
    OBVIOUS
  <2>2. ReadySize >= ReadyFloor /\ ReadySize > SearchMin
    BY <1>6 DEF CutsReadySet
  <2>3. hi \in Nat /\ SearchMin <= hi /\ hi < ReadySize /\ hi <= SearchMax
    BY <1>1, <1>3, <1>4, <1>5, <2>1, <2>2 DEF AtMost
  <2>4. LargestGapCut(SearchMin, hi) \in SearchMin .. hi
    BY <1>4, <2>3, LargestGapCutExists
  <2>5. ReadyFractionSize \in SearchMin .. hi
    BY <1>6, <2>1, <2>4 DEF ReadyFractionSize
  <2> QED BY <1>1, <1>3, <1>4, <1>5, <2>2, <2>3, <2>5
<1>7. CASE ~ CutsReadySet
  <2>1. ReadyFractionSize = ReadySize
    BY <1>7 DEF ReadyFractionSize
  <2>2. ReadySize < ReadyFloor \/ ReadySize <= SearchMin
    BY <1>1, <1>4, <1>7, ReadyLimitsAssumption DEF CutsReadySet
  <2>3. ReadySize <= SearchMax
    <3>1. CASE ReadySize < ReadyFloor
      BY <1>1, <3>1 DEF SearchMax, ReadyTarget, AtMost
    <3>2. CASE ReadySize <= SearchMin
      BY <1>1, <1>3, <1>4, <1>5, <3>2
    <3> QED BY <2>2, <3>1, <3>2
  <2> QED BY <1>1, <1>3, <1>4, <2>1, <2>3
<1> QED BY <1>6, <1>7

LEMMA ReadyFractionAppends ==
  ASSUME IInv, ReadyFractionStep
  PROVE  \E chunk, cuts : Appends(chunk, cuts)
<1>1. PICK current :
        /\ current = Take(Ascending(ready), ReadyFractionSize)
        /\ Builder = "readyFraction"
        /\ EmitFromReady(current, current, OneLevel(current))
        /\ anchor' = anchor
  BY DEF ReadyFractionStep
<1>2. ready # {} /\ status = "building" /\ GuaranteedWidth = 1
  BY <1>1 DEF EmitFromReady, Emit, GuaranteedWidth
<1>3. anchor' \in 0 .. NCells
  BY <1>1 DEF IInv
<1>4. ReadyFractionSize \in Nat \ {0} /\ ReadyFractionSize >= GuaranteedWidth
  BY <1>1, <1>2, SearchRange
<1> QED BY <1>1, <1>2, <1>3, <1>4, ReadyIsListed, TakesFirstOf

\* Slices of Width rows and a shorter last one cut the chunk.
LEMMA SlicesCut ==
  ASSUME newToOld \in Seq(Cells), Width \in Nat \ {0}, NEW n \in Nat \ {0}
  PROVE  /\ Slices(n) \in Seq(Nat) /\ Len(Slices(n)) \in 1 .. n
         /\ Len(Slices(n)) * Width <= n + Width - 1
         /\ Ordering!IsCutting(Slices(n), Len(newToOld), n)
<1> DEFINE count == (n + Width - 1) \div Width
           first == Len(newToOld)
           cuts == Slices(n)
<1>1. /\ count \in Nat /\ count * Width <= n + Width - 1
      /\ n + Width - 1 < (count + 1) * Width
  BY Z3
<1>2. first \in Nat
  BY LenProperties
<1>3. cuts = [k \in 1 .. count |-> first + AtMost(k * Width, n)]
  BY DEF Slices
<1> HIDE DEF count, first, cuts
<1>4. count # 0 /\ n <= count * Width
  BY <1>1
<1>5. (count - 1) * Width < n
  BY <1>1
<1>6. count <= n
  <2>1. (count - 1) * (Width - 1) >= 0
    BY <1>1, <1>4
  <2>2. (count - 1) * Width = (count - 1) * (Width - 1) + (count - 1)
    BY <1>1
  <2> QED BY <1>1, <1>5, <2>1, <2>2
<1>7. ASSUME NEW k \in 1 .. count
      PROVE  /\ AtMost(k * Width, n) \in 1 .. n
             /\ k < count => AtMost(k * Width, n) = k * Width /\ k * Width < n
  <2>1. k * Width \in Nat /\ k * Width >= 1
    BY <1>1
  <2>2. k < count => k * Width < n
    <3>1. k < count => (count - 1 - k) * Width >= 0
      BY <1>1
    <3>2. (count - 1 - k) * Width = (count - 1) * Width - k * Width
      BY <1>1
    <3> QED BY <1>1, <1>5, <2>1, <3>1, <3>2
  <2> QED BY <2>1, <2>2 DEF AtMost
<1>8. /\ cuts \in [1 .. count -> Nat]
      /\ \A k \in 1 .. count : cuts[k] \in first + 1 .. first + n
  BY <1>2, <1>3, <1>7
<1>9. cuts \in Seq(Nat) /\ Len(cuts) = count /\ DOMAIN cuts = 1 .. count
  BY <1>1, <1>8, FunctionIsSeq
<1>10. cuts[count] = first + n
  BY <1>1, <1>3, <1>4, <1>7 DEF AtMost
<1>11. ASSUME NEW i \in 1 .. count, NEW j \in 1 .. count, i < j
       PROVE  cuts[i] < cuts[j]
  <2>1. cuts[i] = first + i * Width /\ i * Width < n
    BY <1>1, <1>3, <1>7, <1>11
  <2>2. (j - i) * Width > 0 /\ j * Width = i * Width + (j - i) * Width
    BY <1>1, <1>11
  <2>3. cuts[j] = first + j * Width \/ cuts[j] = first + n
    BY <1>3 DEF AtMost
  <2> QED BY <1>1, <1>2, <2>1, <2>2, <2>3
<1>12. Ordering!IsCutting(cuts, first, n)
  BY <1>4, <1>8, <1>9, <1>10, <1>11, <1>1 DEF Ordering!IsCutting
<1> QED BY <1>1, <1>4, <1>6, <1>9, <1>12 DEF cuts, first

LEMMA SlicedAppends ==
  ASSUME IInv, SlicedStep
  PROVE  Appends(Ascending(ready), Slices(Len(Ascending(ready))))
<1>1. PICK current :
        /\ current = Ascending(ready)
        /\ Builder = "sliced"
        /\ EmitFromReady(current, current, Slices(Len(current)))
        /\ anchor' = anchor
  BY DEF SlicedStep
<1>2. /\ ready # {} /\ newToOld \in Seq(Cells) /\ ready \in SUBSET Cells
      /\ Width \in Nat \ {0} /\ GuaranteedWidth = Width
  BY <1>1, ControlFacts DEF EmitFromReady, Emit, IInv, FrontierOK, GuaranteedWidth
<1>3. anchor' \in 0 .. NCells
  BY <1>1 DEF IInv
<1>4. /\ current \in Seq(Cells) /\ IsInjective(current)
      /\ Len(current) \in Nat \ {0} /\ Range(current) = ready
  <2>1. current \in Seq(ready)
    BY <1>1, <1>2, ReadyIsListed
  <2>2. current \in Seq(Cells)
    BY <1>2, <2>1, SeqMonotonic
  <2> QED BY <1>1, <1>2, <2>2, ReadyIsListed
<1>5. PICK cuts : cuts = Slices(Len(current))
  OBVIOUS
<1>6. /\ cuts \in Seq(Nat) /\ Len(cuts) \in 1 .. Len(current)
      /\ Len(cuts) * Width <= Len(current) + Width - 1
      /\ Ordering!IsCutting(cuts, Len(newToOld), Len(current))
  BY <1>2, <1>4, <1>5, SlicesCut
<1>7. Appends(current, cuts)
  BY <1>1, <1>2, <1>3, <1>4, <1>5, <1>6, TakesFromReady
<1> QED BY <1>1, <1>5, <1>7

\* The place to resume is a cell number or one past the last.
LEMMA ResumesInRange ==
  ASSUME NEW current \in Seq(Cells), Len(current) \in Nat \ {0}
  PROVE  current[Len(current)] + 1 \in 0 .. NCells
<1>1. current[Len(current)] \in Cells
  BY ElementOfSeq
<1> QED BY <1>1, NCellsAssumption DEF Cells

LEMMA ContinuingAppends ==
  ASSUME IInv, ContinuingStep
  PROVE  \E chunk, cuts : Appends(chunk, cuts)
<1>1. PICK current :
        /\ current = Take(CyclicFrom(ready, anchor), Width)
        /\ Builder = "continuing"
        /\ EmitFromReady(current, current, OneLevel(current))
        /\ anchor' = current[Len(current)] + 1
  BY DEF ContinuingStep
<1>2. /\ ready # {} /\ status = "building" /\ ready \in SUBSET Cells /\ anchor \in Int
      /\ Width \in Nat \ {0} /\ GuaranteedWidth = Width
  BY <1>1, ControlFacts DEF EmitFromReady, Emit, IInv, FrontierOK, GuaranteedWidth
<1>3. /\ CyclicFrom(ready, anchor) \in Seq(ready)
      /\ IsInjective(CyclicFrom(ready, anchor))
      /\ Range(CyclicFrom(ready, anchor)) = ready
  BY <1>2, CyclicListing
<1>4. current \in Seq(Cells) /\ Len(current) \in Nat \ {0}
  BY <1>1, <1>2, <1>3, TakesFirst
<1>5. anchor' \in 0 .. NCells
  BY <1>1, <1>4, ResumesInRange
<1> QED BY <1>1, <1>2, <1>3, <1>5, TakesFirstOf

\* Successors of a frozen frontier wait in the ready set.
LEMMA FrontierContinuingAppends ==
  ASSUME IInv, FrontierContinuingStep
  PROVE  \E chunk : /\ chunk = Take(CyclicFrom(frontier, anchor), Width)
                    /\ Appends(chunk, OneLevel(chunk))
<1>1. PICK current :
        /\ current = Take(CyclicFrom(frontier, anchor), Width)
        /\ Builder = "frontierContinuing"
        /\ frontier # {}
        /\ Emit(current, OneLevel(current), ready \cup Released(current))
        /\ frontier' = frontier \ Range(current)
        /\ anchor' = current[Len(current)] + 1
        /\ active' = active
  BY DEF FrontierContinuingStep
<1>2. /\ status = "building" /\ ready' = ready \cup Released(current)
      /\ frontier \in SUBSET Cells /\ anchor \in Int /\ newToOld \in Seq(Cells)
      /\ Width \in Nat \ {0} /\ GuaranteedWidth = Width /\ FrontierOK
  BY <1>1, ControlFacts DEF Emit, IInv, FrontierOK, GuaranteedWidth
<1>3. /\ active = <<>> /\ Range(active) = {} /\ ready \cup frontier = Free
      /\ ready \cap frontier = {}
  <2>1. active = <<>>
    BY <1>1 DEF IInv
  <2>2. Range(<<>>) = {}
    BY DEF Range
  <2> QED BY <1>2, <2>1, <2>2 DEF IInv
<1>4. PICK s : s = CyclicFrom(frontier, anchor)
  OBVIOUS
<1>5. s \in Seq(frontier) /\ IsInjective(s) /\ Range(s) = frontier
  BY <1>2, <1>4, CyclicListing
<1>6. /\ current \in Seq(Cells) /\ IsInjective(current)
      /\ Len(current) \in Nat \ {0} /\ Range(current) \subseteq frontier
      /\ Len(current) = Width \/ Range(current) = frontier
  BY <1>1, <1>2, <1>4, <1>5, TakeOfListing
<1>7. /\ OneLevel(current) \in Seq(Nat) /\ Len(OneLevel(current)) = 1
      /\ Len(OneLevel(current)) \in 1 .. Len(current)
      /\ Ordering!IsCutting(OneLevel(current), Len(newToOld), Len(current))
  BY <1>2, <1>6, OneLevelCuts
<1>8. IsChunk(current, OneLevel(current))
  BY <1>3, <1>6, <1>7 DEF IsChunk
<1>9. IsWide(current, OneLevel(current))
  <2>1. Len(OneLevel(current)) * GuaranteedWidth <= Len(current) + GuaranteedWidth - 1
    BY <1>2, <1>6, <1>7
  <2> QED BY <1>1, <1>2, <1>6, <1>7, <2>1 DEF IsWide, Now
<1>10. Released(current) \cap Free = {}
  BY <1>1, <1>2, <1>3, <1>6, EmitFrontier
<1>11. anchor' \in 0 .. NCells
  BY <1>1, <1>6, ResumesInRange
<1>12. /\ ready' \cup Range(active') \cup frontier'
            = (Free \ Range(current)) \cup Released(current)
       /\ ready' \cap frontier' = {} /\ ready' \cap Range(active') = {}
  BY <1>1, <1>2, <1>3, <1>6, <1>10
<1>13. active' \in Seq(Cells) /\ IsInjective(active') /\ active' = <<>>
  BY <1>1, <1>3 DEF IInv
<1>14. Appends(current, OneLevel(current))
  BY <1>1, <1>2, <1>8, <1>9, <1>11, <1>12, <1>13 DEF Appends
<1> QED BY <1>1, <1>14

-----------------------------------------------------------------------------
(* The window. *)

Rest(s, n) == SubSeq(s, Len(Take(s, n)) + 1, Len(s))

\* Taking the head of a list leaves the rest of it.
LEMMA HeadAndRest ==
  ASSUME NEW s \in Seq(Cells), IsInjective(s), NEW n \in Nat
  PROVE  /\ Rest(s, n) \in Seq(Cells) /\ IsInjective(Rest(s, n))
         /\ Take(s, n) \in Seq(Cells) /\ Take(s, n) \o Rest(s, n) = s
         /\ Range(Take(s, n)) \cup Range(Rest(s, n)) = Range(s)
         /\ Range(Take(s, n)) \cap Range(Rest(s, n)) = {}
         /\ Len(Rest(s, n)) <= Len(s) /\ Len(Rest(s, n)) \in Nat
<1>head. PICK head, rest : head = Take(s, n) /\ rest = Rest(s, n)
  OBVIOUS
<1>1. /\ Len(s) \in Nat /\ DOMAIN s = 1 .. Len(s) /\ \A i \in 1 .. Len(s) : s[i] \in Cells
  BY LenProperties, ElementOfSeq
<1>2. /\ head \in Seq(Cells) /\ Len(head) = AtMost(n, Len(s))
      /\ \A i \in 1 .. AtMost(n, Len(s)) : head[i] = s[i]
  BY <1>head, TakeProperties
<1>3. PICK h, l : h = Len(head) /\ l = Len(s)
  OBVIOUS
<1>4. h \in 0 .. l /\ l \in Nat /\ DOMAIN head = 1 .. h
  BY <1>1, <1>2, <1>3, LenProperties DEF AtMost
<1>5. /\ \A i \in 1 .. l - h : h + i \in 1 .. l
      /\ l - h \in Nat
  BY <1>4
<1>0. rest = [i \in 1 .. l - h |-> s[h + i]]
  <2>1. rest = SubSeq(s, h + 1, l)
    BY <1>head, <1>3 DEF Rest
  <2> QED BY <1>1, <1>3, <1>4, <2>1
<1>6. rest \in Seq(Cells) /\ Len(rest) = l - h
  <2>1. \A i \in 1 .. l - h : s[h + i] \in Cells
    BY <1>1, <1>3, <1>5
  <2>2. rest \in [1 .. l - h -> Cells]
    BY <1>0, <2>1
  <2> QED BY <1>5, <2>2, FunctionIsSeq
<1>7. /\ \A i \in 1 .. l - h : rest[i] = s[h + i]
      /\ DOMAIN rest = 1 .. l - h
  BY <1>0
<1>8. IsInjective(rest)
  <2> SUFFICES ASSUME NEW i \in 1 .. l - h, NEW j \in 1 .. l - h, rest[i] = rest[j]
               PROVE  i = j
    BY <1>7 DEF IsInjective
  <2>1. s[h + i] = s[h + j]
    BY <1>7
  <2>2. h + i = h + j
    BY <1>1, <1>3, <1>5, <2>1 DEF IsInjective
  <2> QED BY <1>4, <2>2
<1>9. head \o rest = s
  <2>1. Len(head \o rest) = l /\ head \o rest \in Seq(Cells)
    <3>1. Len(head \o rest) = Len(head) + Len(rest) /\ head \o rest \in Seq(Cells)
      BY <1>2, <1>6, ConcatProperties
    <3> QED BY <1>3, <1>4, <1>6, <3>1
  <2>2. \A i \in 1 .. l : (head \o rest)[i] = IF i <= h THEN head[i] ELSE rest[i - h]
    <3>1. \A i \in 1 .. Len(head) + Len(rest) :
            (head \o rest)[i] = IF i <= Len(head) THEN head[i] ELSE rest[i - Len(head)]
      BY <1>2, <1>6, ConcatProperties
    <3>2. Len(head) + Len(rest) = l
      BY <1>3, <1>4, <1>6
    <3> QED BY <1>3, <3>1, <3>2
  <2>3. ASSUME NEW i \in 1 .. l
        PROVE  (head \o rest)[i] = s[i]
    <3>1. CASE i <= h
      BY <1>2, <1>3, <1>4, <2>2, <3>1
    <3>2. CASE ~ (i <= h)
      <4>1. i - h \in 1 .. l - h /\ h + (i - h) = i
        BY <1>4, <3>2
      <4> QED BY <1>7, <2>2, <3>2, <4>1
    <3> QED BY <3>1, <3>2
  <2> QED BY <1>3, <2>1, <2>3, SeqEqual
<1>10. Range(head) \cap Range(rest) = {}
  <2> SUFFICES ASSUME NEW i \in DOMAIN head, NEW j \in DOMAIN rest, head[i] = rest[j]
               PROVE  FALSE
    BY DEF Range
  <2>1. i \in 1 .. h /\ j \in 1 .. l - h
    BY <1>4, <1>7
  <2>2. i \in 1 .. l /\ h + j \in 1 .. l /\ s[i] = s[h + j]
    <3>1. rest[j] = s[h + j] /\ h + j \in 1 .. l
      BY <1>5, <1>7, <2>1
    <3>2. head[i] = s[i]
      BY <1>2, <1>3, <2>1
    <3> QED BY <1>4, <2>1, <3>1, <3>2
  <2>3. \A a, b \in 1 .. l : s[a] = s[b] => a = b
    BY <1>1, <1>3 DEF IsInjective
  <2>4. i = h + j
    BY <2>2, <2>3
  <2> QED BY <1>4, <2>1, <2>4
<1>11. Range(head) \cup Range(rest) = Range(s)
  <2>1. head \in Seq(Cells) /\ rest \in Seq(Cells)
    BY <1>2, <1>6
  <2>2. Range(head \o rest) = Range(head) \cup Range(rest)
    BY <2>1, RangeOfConcat
  <2> QED BY <1>9, <2>2
<1>12. Len(rest) <= Len(s) /\ Len(rest) \in Nat
  BY <1>3, <1>4, <1>6
<1> QED BY <1>head, <1>2, <1>6, <1>8, <1>9, <1>10, <1>11, <1>12

\* Refilling appends eligible cells, until the window is full or none is left.
LEMMA RefillProperties ==
  ASSUME Width \in Nat, NEW window \in Seq(Cells), IsInjective(window),
         Len(window) <= Width, NEW from \in SUBSET Cells, Range(window) \cap from = {},
         NEW filled, filled = Refilled(window, from)
  PROVE  /\ filled \in Seq(Cells) /\ IsInjective(filled)
         /\ Range(window) \subseteq Range(filled)
         /\ Range(filled) \subseteq Range(window) \cup from
         /\ Len(filled) <= Width /\ (Len(filled) = Width \/ from \subseteq Range(filled))
         /\ \E more \in Seq(Cells) : filled = window \o more
<1>1. Len(window) \in Nat
  BY LenProperties
<1>2. PICK room : room = Width - Len(window)
  OBVIOUS
<1>3. room \in Nat
  BY <1>1, <1>2
<1>4. PICK more : more = Take(Ascending(from), room)
  OBVIOUS
<1>5. /\ Ascending(from) \in Seq(from) /\ IsInjective(Ascending(from))
      /\ Range(Ascending(from)) = from
  BY AscendingProperties
<1>6. /\ more \in Seq(from) /\ Len(more) = AtMost(room, Len(Ascending(from)))
      /\ Range(more) \subseteq from /\ IsInjective(more)
  BY <1>3, <1>4, <1>5, TakeProperties
<1>7. more \in Seq(Cells) /\ filled = window \o more
  BY <1>2, <1>4, <1>6, SeqMonotonic DEF Refilled
<1>8. /\ Range(filled) = Range(window) \cup Range(more) /\ filled \in Seq(Cells)
      /\ Len(filled) = Len(window) + Len(more)
  BY <1>7, RangeOfConcat, ConcatProperties
<1>9. IsInjective(filled)
  BY <1>6, <1>7, InjectiveConcat
<1>10. Len(Ascending(from)) \in Nat
  BY <1>5, LenProperties
<1>11. Len(filled) <= Width /\ (Len(filled) = Width \/ from \subseteq Range(filled))
  <2>1. CASE room < Len(Ascending(from))
    BY <1>1, <1>2, <1>3, <1>6, <1>8, <2>1 DEF AtMost
  <2>2. CASE Len(Ascending(from)) <= room
    <3>1. more = Ascending(from)
      BY <1>3, <1>4, <1>5, <2>2, TakeWhole
    <3> QED BY <1>1, <1>2, <1>3, <1>5, <1>8, <1>10, <2>2, <3>1
  <2> QED BY <1>3, <1>10, <2>1, <2>2
<1> QED BY <1>6, <1>7, <1>8, <1>9, <1>11

\* The builder executes the head of the window and refills it at its end.
LEMMA SlidingWindowAppends ==
  ASSUME IInv, SlidingWindowStep
  PROVE  \E chunk, cuts : Appends(chunk, cuts)
<1>1. PICK current, left, eligible :
        /\ current = Take(active, request.step)
        /\ left = SubSeq(active, Len(current) + 1, Len(active))
        /\ eligible = ready \cup Released(current)
        /\ Builder = "slidingWindow"
        /\ active # <<>>
        /\ active' = Refilled(left, eligible)
        /\ Emit(current, OneLevel(current), eligible \ Range(active'))
        /\ frontier' = frontier /\ anchor' = anchor
  BY DEF SlidingWindowStep
<1>2. /\ status = "building" /\ ready' = eligible \ Range(active')
      /\ ready \in SUBSET Cells /\ newToOld \in Seq(Cells)
      /\ active \in Seq(Cells) /\ IsInjective(active)
      /\ FrontierOK /\ anchor \in 0 .. NCells
  BY <1>1 DEF Emit, IInv, FrontierOK
<1>3. /\ Width \in Nat \ {0} /\ request.step \in Nat \ {0} /\ request.step <= Width
      /\ GuaranteedWidth = request.step
  BY <1>1, <1>2, ControlFacts DEF IInv, FrontierOK, GuaranteedWidth
<1>4. /\ frontier = {} /\ ready \cup Range(active) = Free /\ ready \cap Range(active) = {}
      /\ Len(active) <= Width /\ (Len(active) = Width \/ ready = {})
  BY <1>1, <1>2 DEF IInv
<1>5. Len(active) \in Nat \ {0} /\ Range(active) # {} /\ Range(active) \in SUBSET Cells
  <2>1. Len(active) \in Nat /\ DOMAIN active = 1 .. Len(active) /\ Len(active) # 0
    BY <1>1, <1>2, EmptySeq, LenProperties, SeqEqual
  <2>2. 1 \in DOMAIN active
    BY <2>1
  <2>3. active[1] \in Range(active)
    BY <2>2 DEF Range
  <2>4. \A c \in Range(active) : c \in Cells
    BY <1>2, <2>1, ElementOfSeq DEF Range
  <2> QED BY <2>1, <2>3, <2>4
<1>6. /\ current \in Seq(Cells) /\ IsInjective(current) /\ Len(current) \in Nat \ {0}
      /\ Range(current) \subseteq Range(active)
      /\ Len(current) = AtMost(request.step, Len(active))
  <2>1. PICK S : S = Range(active)
    OBVIOUS
  <2>2. active \in Seq(S)
    <3>1. active \in [1 .. Len(active) -> S] /\ Len(active) \in Nat
      BY <1>2, <2>1, LenProperties DEF Range
    <3> QED BY <3>1, FunctionIsSeq
  <2> QED BY <1>1, <1>2, <1>3, <1>5, <2>1, <2>2, TakeOfListing
<1>7. /\ left \in Seq(Cells) /\ IsInjective(left)
      /\ Range(current) \cup Range(left) = Range(active)
      /\ Range(current) \cap Range(left) = {}
      /\ Len(left) <= Len(active) /\ Len(left) \in Nat
  <2>1. request.step \in Nat
    BY <1>3
  <2>2. left = Rest(active, request.step) /\ current = Take(active, request.step)
    BY <1>1 DEF Rest
  <2>3. PICK s, n : s = active /\ n = request.step
    OBVIOUS
  <2>4. s \in Seq(Cells) /\ IsInjective(s) /\ n \in Nat
    BY <1>2, <2>1, <2>3
  <2>5. /\ Rest(s, n) \in Seq(Cells) /\ IsInjective(Rest(s, n))
        /\ Range(Take(s, n)) \cup Range(Rest(s, n)) = Range(s)
        /\ Range(Take(s, n)) \cap Range(Rest(s, n)) = {}
        /\ Len(Rest(s, n)) <= Len(s) /\ Len(Rest(s, n)) \in Nat
    BY <2>4, HeadAndRest
  <2> QED BY <2>2, <2>3, <2>5
<1>8. /\ OneLevel(current) \in Seq(Nat) /\ Len(OneLevel(current)) = 1
      /\ Len(OneLevel(current)) \in 1 .. Len(current)
      /\ Ordering!IsCutting(OneLevel(current), Len(newToOld), Len(current))
  BY <1>2, <1>6, OneLevelCuts
<1>9. Range(current) \subseteq Free
  BY <1>4, <1>6
<1>10. IsChunk(current, OneLevel(current))
  BY <1>6, <1>8, <1>9 DEF IsChunk
<1>11. Now = Free
  BY <1>4 DEF Now
<1>12. IsWide(current, OneLevel(current))
  <2>1. CASE Len(current) = request.step
    BY <1>3, <1>8, <1>9, <1>11, <2>1 DEF IsWide
  <2>2. CASE Len(current) # request.step
    <3>1. Len(active) < request.step
      BY <1>3, <1>5, <1>6, <2>2 DEF AtMost
    <3>2. ready = {} /\ Range(active) = Now
      <4>1. Len(active) # Width
        BY <1>3, <1>5, <3>1
      <4> QED BY <1>4, <1>11, <4>1
    <3>3. current = active
      BY <1>1, <1>2, <1>3, <1>5, <3>1, TakeWhole
    <3>4. Len(OneLevel(current)) * GuaranteedWidth <= Len(current) + GuaranteedWidth - 1
      BY <1>3, <1>6, <1>8
    <3> QED BY <1>9, <1>11, <3>2, <3>3, <3>4 DEF IsWide
  <2> QED BY <2>1, <2>2
<1>13. Released(current) \cap (Free \cup Emitted) = {} /\ Released(current) \subseteq Cells
  <2>1. Released(current) \cap (Free \cup Emitted) = {}
    BY <1>1, <1>2, <1>6, <1>9, EmitFrontier
  <2> QED BY <2>1 DEF Released
<1>14. /\ eligible \in SUBSET Cells /\ Range(left) \cap eligible = {}
       /\ Range(left) \cup eligible = (Free \ Range(current)) \cup Released(current)
  <2>1. Range(left) \cap ready = {} /\ Range(left) \subseteq Free
    BY <1>4, <1>7
  <2> QED BY <1>1, <1>2, <1>4, <1>6, <1>7, <1>13, <2>1
<1>15. PICK filled : filled = Refilled(left, eligible)
  OBVIOUS
<1>16. /\ filled \in Seq(Cells) /\ IsInjective(filled)
       /\ Range(left) \subseteq Range(filled)
       /\ Range(filled) \subseteq Range(left) \cup eligible
       /\ Len(filled) <= Width /\ (Len(filled) = Width \/ eligible \subseteq Range(filled))
  <2>1. Len(left) <= Width /\ Width \in Nat
    BY <1>3, <1>4, <1>5, <1>7
  <2> QED BY <1>7, <1>14, <1>15, <2>1, RefillProperties
<1>17. active' = filled /\ ready' = eligible \ Range(filled)
  BY <1>1, <1>2, <1>15
<1>18. /\ ready' \cup Range(active') \cup frontier'
            = (Free \ Range(current)) \cup Released(current)
       /\ ready' \cap Range(active') = {} /\ ready' \cap frontier' = {}
       /\ Len(active') <= Width /\ (Len(active') = Width \/ ready' = {})
       /\ frontier' = frontier \ Range(current)
  <2>1. ready' \cup Range(filled) = Range(left) \cup eligible
    BY <1>16, <1>17
  <2>2. ready' \cap Range(filled) = {} /\ (Len(filled) = Width \/ ready' = {})
    BY <1>16, <1>17
  <2> QED BY <1>1, <1>4, <1>14, <1>16, <1>17, <2>1, <2>2
<1>19. Appends(current, OneLevel(current))
  <2>1. Emit(current, OneLevel(current), ready')
    BY <1>1, <1>2
  <2> QED BY <1>1, <1>2, <1>4, <1>10, <1>12, <1>16, <1>17, <1>18, <2>1 DEF Appends
<1> QED BY <1>19

-----------------------------------------------------------------------------
(* The other steps. *)

\* What is appended next depends on neither ready set nor window nor frontier.
LEMMA SameRows ==
  ASSUME UNCHANGED <<mesh, request, predecessors, newToOld, oldToNew>>,
         UNCHANGED <<levelStarts, status>>
  PROVE  /\ FrontierOK => FrontierOK'
         /\ Free' = Free /\ Emitted' = Emitted
         /\ [c \in Cells |-> RowOf(c)]' = [c \in Cells |-> RowOf(c)]
         /\ Builder' = Builder /\ Width' = Width
         /\ ValidControls => ValidControls'
         /\ GuaranteedWidth' = GuaranteedWidth
<1>1. Emitted' = Emitted /\ \A c : Pending(c)' = Pending(c)
  BY DEF Emitted, Pending, IncomingFaces, Faces
<1>2. Free' = Free /\ (CountersExact => CountersExact') /\ (Settled => Settled')
  BY <1>1 DEF Free, CountersExact, Settled
<1>3. [c \in Cells |-> RowOf(c)]' = [c \in Cells |-> RowOf(c)]
  BY DEF RowOf, Emitted
<1>4. Builder' = Builder /\ Width' = Width
  BY DEF Builder, Width
<1>5. ValidControls => ValidControls'
  BY DEF ValidControls, Builder, Width
<1>6. GuaranteedWidth' = GuaranteedWidth
  BY DEF GuaranteedWidth, Builder, Width
<1> QED BY <1>1, <1>2, <1>3, <1>4, <1>5, <1>6 DEF FrontierOK

LEMMA FreezeIInv ==
  ASSUME IInv, FreezeFrontier
  PROVE  IInv'
<1>1. /\ Builder = "frontierContinuing" /\ status = "building" /\ status' = "building"
      /\ frontier = {} /\ ready # {} /\ frontier' = ready /\ ready' = {}
      /\ anchor' = LeastOf(ready) /\ active' = active
      /\ UNCHANGED <<mesh, request, predecessors, newToOld, oldToNew>>
      /\ UNCHANGED <<levelStarts, status>>
  BY DEF FreezeFrontier
<1>2. LeastOf(ready) \in 0 .. NCells
  <2>1. ready \in SUBSET Nat /\ ready \in SUBSET Cells
    BY NCellsAssumption DEF IInv, Cells
  <2>2. \E c \in ready : \A d \in ready : c <= d
    BY <1>1, <2>1, LeastNatural
  <2>3. LeastOf(ready) \in ready
    BY <1>1, <2>2 DEF LeastOf
  <2>4. \A c \in Cells : c \in 0 .. NCells
    BY NCellsAssumption DEF Cells
  <2> QED BY <2>1, <2>3, <2>4
<1>3. /\ FrontierOK' /\ Free' = Free /\ Builder' = Builder /\ Width' = Width
      /\ (ValidControls => ValidControls')
  BY <1>1, SameRows DEF IInv
<1>4. active = <<>> /\ Range(active) = {}
  <2>1. active = <<>>
    BY <1>1 DEF IInv
  <2>2. Range(<<>>) = {}
    BY DEF Range
  <2> QED BY <2>1, <2>2
<1>5. /\ ready' \cup Range(active') \cup frontier' = Free'
      /\ ready' \cap Range(active') = {} /\ ready' \cap frontier' = {}
  BY <1>1, <1>3, <1>4 DEF IInv
<1> QED BY <1>1, <1>2, <1>3, <1>5 DEF IInv

\* The sliding-window builder begins with a filled window.
LEMMA StartIInv ==
  ASSUME IInv, Start
  PROVE  /\ IInv'
         /\ Now' = FirstReady /\ Later' = {}
<1>1. /\ Begin(ValidControls, Range(FirstWindow)) /\ ValidControls
      /\ status = "called" /\ status' = "building" /\ request' = request
      /\ levelStarts' = <<0>> /\ ready' = FirstReady \ Range(FirstWindow)
      /\ active' = FirstWindow /\ frontier' = frontier /\ anchor' = anchor
  BY DEF Start, Begin, FirstReady
<1>2. FrontierOK' /\ Free' = FirstReady /\ FirstReady \in SUBSET Cells
  BY <1>1, BeginFrontier DEF IInv, FirstReady
<1>3. levelStarts' \in Seq(0 .. NCells)
  BY <1>1, NCellsAssumption
<1>4. frontier' = {} /\ request \in Requests
  BY <1>1 DEF IInv, FrontierOK
<1>5. Builder' = Builder /\ Width' = Width /\ ValidControls'
  BY <1>1 DEF Builder, Width, ValidControls
<1>6. Range(<<>>) = {} /\ <<>> \in Seq(Cells) /\ IsInjective(<<>>) /\ Len(<<>>) = 0
  BY EmptySeq DEF Range, IsInjective
<1>7. /\ active' \in Seq(Cells) /\ IsInjective(active')
      /\ Builder # "slidingWindow" => active' = <<>>
      /\ Range(active') \subseteq FirstReady
      /\ Builder = "slidingWindow" =>
           Len(active') <= Width /\ (Len(active') = Width \/ FirstReady \subseteq Range(active'))
  <2>1. CASE Builder = "slidingWindow"
    <3>1. Width \in Nat /\ Len(<<>>) <= Width
      BY <1>1, <1>4, <1>6, <2>1, ControlFacts
    <3>2. PICK filled, empty, from :
            filled = Refilled(empty, from) /\ empty = <<>> /\ from = FirstReady
      OBVIOUS
    <3>3. /\ empty \in Seq(Cells) /\ IsInjective(empty) /\ Len(empty) <= Width
          /\ from \in SUBSET Cells /\ Range(empty) \cap from = {} /\ Width \in Nat
      BY <1>2, <1>6, <3>1, <3>2
    <3>4. /\ filled \in Seq(Cells) /\ IsInjective(filled)
          /\ Range(filled) \subseteq Range(empty) \cup from
          /\ Len(filled) <= Width /\ (Len(filled) = Width \/ from \subseteq Range(filled))
      BY <3>2, <3>3, RefillProperties
    <3> QED BY <1>1, <1>6, <2>1, <3>2, <3>4 DEF FirstWindow
  <2>2. CASE Builder # "slidingWindow"
    BY <1>1, <1>6, <2>2 DEF FirstWindow
  <2> QED BY <2>1, <2>2
<1>8. /\ ready' \cup Range(active') \cup frontier' = Free'
      /\ ready' \cap Range(active') = {} /\ ready' \cap frontier' = {}
      /\ Builder = "slidingWindow" =>
           Len(active') <= Width /\ (Len(active') = Width \/ ready' = {})
      /\ ready' \in SUBSET Cells
  BY <1>1, <1>2, <1>4, <1>7
<1>9. IInv'
  BY <1>1, <1>2, <1>3, <1>4, <1>5, <1>7, <1>8 DEF IInv
<1>10. Now' = FirstReady /\ Later' = {}
  BY <1>2, <1>4, <1>8 DEF Now, Later
<1> QED BY <1>9, <1>10

\* When the loops are over nothing is held, so nothing is free.
LEMMA NothingHeld ==
  ASSUME IInv, status = "building", LoopsOver
  PROVE  Free = {} /\ (Complete <=> AllAppended)
<1>1. Range(<<>>) = {} /\ Len(<<>>) = 0
  BY DEF Range
<1>2. CASE Builder = "slidingWindow"
  <2>1. active = <<>> /\ frontier = {}
    BY <1>2 DEF LoopsOver, IInv
  <2>2. Width \in Nat \ {0}
    BY <1>2, ControlFacts DEF IInv, FrontierOK
  <2>3. ready = {}
    BY <1>1, <1>2, <2>1, <2>2 DEF IInv
  <2> QED BY <1>1, <2>1, <2>3 DEF IInv, Complete
<1>3. CASE Builder # "slidingWindow"
  <2>1. active = <<>> /\ frontier = {} /\ ready = {}
    BY <1>3 DEF LoopsOver, IInv
  <2> QED BY <1>1, <1>3, <2>1 DEF IInv, Complete
<1> QED BY <1>2, <1>3

\* Every step either appends some free cells or changes no rows.
Appending ==
  \/ ReleaseDiagnosticStep
  \/ OrientedStep
  \/ SlidingWindowStep
  \/ AdaptiveGapStep
  \/ ReadyFractionStep
  \/ UnboundedStep
  \/ SlicedStep
  \/ ContinuingStep
  \/ FrontierContinuingStep

LEMMA EveryStepAppends ==
  ASSUME IInv, Appending
  PROVE  \E chunk, cuts : Appends(chunk, cuts)
BY ReleaseDiagnosticAppends, OrientedAppends, SlidingWindowAppends, AdaptiveGapAppends,
   ReadyFractionAppends, UnboundedAppends, SlicedAppends, ContinuingAppends,
   FrontierContinuingAppends
   DEF Appending

LEMMA InitIInv == Init => IInv
<1> SUFFICES ASSUME Init PROVE IInv
  OBVIOUS
<1>1. /\ mesh \in Meshes /\ request \in Requests
      /\ predecessors = [c \in Cells |-> 0] /\ ready = {}
      /\ newToOld = <<>> /\ levelStarts = <<>>
      /\ oldToNew = [c \in Cells |-> 0] /\ status = "called"
      /\ active = <<>> /\ frontier = {} /\ anchor = 0
  BY DEF Init, FrontierInit
<1>2. newToOld \in Seq(Cells) /\ levelStarts \in Seq(0 .. NCells) /\ active \in Seq(Cells)
  BY <1>1, EmptySeq
<1>3. IsInjective(newToOld) /\ IsInjective(active) /\ Settled
  BY <1>1 DEF IsInjective, Settled, Emitted, Range
<1>4. predecessors \in [Cells -> Nat] /\ oldToNew \in [Cells -> 0 .. NCells]
      /\ anchor \in 0 .. NCells
  BY <1>1, NCellsAssumption
<1>5. FrontierOK
  BY <1>1, <1>2, <1>3, <1>4 DEF FrontierOK, CountersExact
<1> QED BY <1>1, <1>2, <1>3, <1>4, <1>5 DEF IInv

LEMMA NextIInv == IInv /\ [Next]_vars => IInv'
<1> SUFFICES ASSUME IInv, [Next]_vars PROVE IInv'
  OBVIOUS
<1>1. CASE RejectArguments
  <2>1. /\ status = "called" /\ status' = "rejected"
        /\ UNCHANGED <<mesh, request, predecessors, ready, newToOld, levelStarts,
                       oldToNew>>
        /\ UNCHANGED <<active, frontier, anchor>>
    BY <1>1 DEF RejectArguments, Refuse
  <2>2. FrontierOK'
    BY <2>1 DEF IInv, FrontierOK, CountersExact, Settled, Emitted, Pending
  <2>3. Builder' = Builder
    BY <2>1 DEF Builder
  <2> QED BY <2>1, <2>2, <2>3 DEF IInv
<1>2. CASE Start
  BY <1>2, StartIInv
<1>3. CASE Appending
  BY <1>3, EveryStepAppends, AppendsIInv
<1>4. CASE FreezeFrontier
  BY <1>4, FreezeIInv
<1>5. CASE Finish
  <2>1. /\ Return(LoopsOver, Complete) /\ LoopsOver /\ Complete /\ status = "building"
        /\ status' = "returned" /\ ready' = ready /\ levelStarts' = levelStarts
        /\ oldToNew' = [c \in Cells |-> RowOf(c)] /\ newToOld' = newToOld
        /\ request' = request
        /\ UNCHANGED <<active, frontier, anchor>>
    BY <1>5 DEF Finish, Return
  <2>2. FrontierOK' /\ Emitted' = Emitted
    BY <2>1, EndFrontier DEF IInv
  <2>3. Emitted' = Cells
    BY <2>1, <2>2, AllAppendedIsAll, NothingHeld DEF IInv
  <2>4. [c \in Cells |-> RowOf(c)]' = [c \in Cells |-> RowOf(c)]
    BY <2>1 DEF RowOf, Emitted
  <2>5. Builder' = Builder /\ Width' = Width
    BY <2>1 DEF Builder, Width
  <2>6. ValidControls'
    <3>1. ValidControls
      BY <2>1 DEF IInv
    <3> QED BY <2>1, <3>1 DEF ValidControls, Builder, Width
  <2> QED BY <2>1, <2>2, <2>3, <2>4, <2>5, <2>6 DEF IInv
<1>6. CASE Fail
  <2>1. /\ NotCovered(LoopsOver, Complete) /\ ~ Complete /\ LoopsOver
        /\ status = "building"
        /\ status' = "uncovered" /\ ready' = ready /\ levelStarts' = levelStarts
        /\ request' = request
        /\ UNCHANGED <<active, frontier, anchor>>
    BY <1>6 DEF Fail, NotCovered
  <2>2. FrontierOK' /\ Emitted' = Emitted /\ Free' = Free
    BY <2>1, EndFrontier DEF IInv
  <2>3. Emitted' # Cells /\ Free' = {}
    BY <2>1, <2>2, AllAppendedIsAll, NothingHeld DEF IInv
  <2>4. Builder' = Builder /\ Width' = Width
    BY <2>1 DEF Builder, Width
  <2> QED BY <2>1, <2>2, <2>3, <2>4 DEF IInv
<1>7. CASE UNCHANGED vars
  <2>1. /\ UNCHANGED <<mesh, request, predecessors, newToOld, oldToNew>>
        /\ UNCHANGED <<levelStarts, status>>
        /\ UNCHANGED <<ready, active, frontier, anchor>>
    BY <1>7 DEF vars, frontierVars
  <2>2. /\ FrontierOK' /\ Free' = Free /\ Emitted' = Emitted
        /\ [c \in Cells |-> RowOf(c)]' = [c \in Cells |-> RowOf(c)]
        /\ Builder' = Builder /\ Width' = Width
        /\ (ValidControls => ValidControls')
    BY <2>1, SameRows DEF IInv
  <2> QED BY <2>1, <2>2 DEF IInv
<1> QED BY <1>1, <1>2, <1>3, <1>4, <1>5, <1>6, <1>7 DEF Next, Appending

\* The inductive invariant holds of every reachable state of every builder.
THEOREM VariantInvariance == Spec => []IInv
BY InitIInv, NextIInv, PTL DEF Spec

-----------------------------------------------------------------------------
(* Bookkeeping and reports. *)

\* The head of a nonempty set of cells.
LEMMA LeastOfCells ==
  ASSUME NEW S \in SUBSET Cells, S # {}
  PROVE  LeastOf(S) \in S /\ \A c \in S : LeastOf(S) <= c
<1>1. S \in SUBSET Nat
  BY NCellsAssumption DEF Cells
<1>2. \E c \in S : \A d \in S : c <= d
  BY <1>1, LeastNatural
<1> QED BY <1>2 DEF LeastOf

\* The heads before and after a release tell which of the released cells, if
\* any, went in front: the chunk ends below everything left in the ready set.
LEMMA HeadMovesBack ==
  ASSUME IInv, status = "building", Width \in Nat \ {0}, ready # {},
         NEW current, current = Take(Ascending(ready), Width),
         NEW left, left = ready \ Range(current),
         NEW d, d = ReleaseDiagnostic(current, left)
  PROVE  /\ d.headChanged <=> d.headBackstep > 0
         /\ d.headChanged <=> d.headBefore >= 0 /\ d.headAfter < d.headBefore
         /\ d.headBefore >= 0 => d.releasedBelowCut <= d.releasedBeforeHead
         /\ d.releasedBeforeHead <= d.releasedCount
<1>1. PICK released, before, after, last, overtaking :
        /\ released = Released(current) /\ before = LeastOf(left)
        /\ after = LeastOf(left \cup released) /\ last = current[Len(current)]
        /\ overtaking = Overtaking(current, left)
  OBVIOUS
<1>2. PICK below : below = {c \in released : c < last}
  OBVIOUS
<1>3. /\ d.headChanged = (overtaking # {})
      /\ d.headBackstep = IF left # {} /\ after >= 0 /\ after < before
                            THEN before - after ELSE 0
      /\ d.headBefore = before /\ d.headAfter = after
      /\ d.releasedBelowCut = Cardinality(below)
      /\ d.releasedBeforeHead = Cardinality(overtaking)
      /\ d.releasedCount = Cardinality(released)
  BY <1>1, <1>2 DEF ReleaseDiagnostic
<1>4. /\ released \in SUBSET Cells /\ left \in SUBSET Cells
      /\ overtaking = {c \in released : left # {} /\ c < before}
  BY <1>1 DEF Released, Overtaking, IInv
<1>5. /\ Cardinality(overtaking) \in Nat /\ Cardinality(released) \in Nat
      /\ Cardinality(below) \in Nat
      /\ Cardinality(overtaking) <= Cardinality(released)
      /\ below \subseteq overtaking => Cardinality(below) <= Cardinality(overtaking)
  <2>1. overtaking \subseteq released /\ below \subseteq released
    BY <1>2, <1>4
  <2>2. /\ IsFiniteSet(released) /\ IsFiniteSet(overtaking) /\ IsFiniteSet(below)
    BY <1>4, <2>1, CellsFinite, FS_Subset
  <2> QED BY <2>1, <2>2, FS_Subset, FS_CardinalityType
<1>6. CASE left = {}
  <2>1. before = -1 /\ overtaking = {}
    BY <1>1, <1>4, <1>6 DEF LeastOf
  <2>2. d.headChanged = FALSE
    BY <1>3, <2>1, Zenon
  <2>3. /\ ~ (d.headBackstep > 0) /\ ~ (d.headBefore >= 0)
        /\ d.releasedBeforeHead <= d.releasedCount
    BY <1>3, <1>5, <1>6, <2>1
  <2> QED BY <2>2, <2>3, Zenon
<1>7. CASE left # {}
  <2>1. before \in left /\ \A c \in left : before <= c
    BY <1>1, <1>4, <1>7, LeastOfCells
  <2>2. after \in left \cup released /\ \A c \in left \cup released : after <= c
    BY <1>1, <1>4, <1>7, LeastOfCells
  <2>3. before \in Nat /\ after \in Nat /\ \A c \in released : c \in Nat
    BY <1>4, <2>1, <2>2, NCellsAssumption DEF Cells
  <2>4. overtaking # {} <=> after < before
    <3>1. ASSUME NEW c \in overtaking PROVE after < before
      BY <1>4, <2>2, <2>3
    <3>2. ASSUME after < before PROVE after \in overtaking
      BY <1>4, <1>7, <2>1, <2>2, <2>3, <3>2
    <3> QED BY <3>1, <3>2
  <2>5. last < before /\ last \in Nat
    <3> DEFINE s == Ascending(ready)
    <3>1. /\ s \in Seq(ready) /\ IsInjective(s) /\ Range(s) = ready
          /\ Len(s) = ReadySize /\ ReadySize \in Nat \ {0}
      BY ReadyIsListed
    <3>2. \A i, j \in 1 .. ReadySize : i < j => s[i] < s[j]
      BY AscendingProperties DEF IInv, ReadySize
    <3> HIDE DEF s
    <3>3. DOMAIN s = 1 .. ReadySize /\ \A i \in 1 .. ReadySize : s[i] \in ready
      BY <3>1, LenProperties, ElementOfSeq
    <3>4. /\ current \in Seq(ready) /\ Len(current) = AtMost(Width, ReadySize)
          /\ \A i \in 1 .. AtMost(Width, ReadySize) : current[i] = s[i]
      BY <3>1, TakeProperties DEF s
    <3>5. PICK n : n = Len(current)
      OBVIOUS
    <3>6. n \in 1 .. ReadySize /\ DOMAIN current = 1 .. n /\ last = s[n]
          /\ \A i \in 1 .. n : current[i] = s[i]
      BY <1>1, <3>1, <3>4, <3>5, LenProperties DEF AtMost
    <3>7. before \in ready /\ before \notin Range(current)
      BY <2>1
    <3>8. PICK j \in 1 .. ReadySize : s[j] = before
      BY <3>1, <3>3, <3>7 DEF Range
    <3>9. j \notin 1 .. n
      BY <3>6, <3>7, <3>8 DEF Range
    <3>10. n < j
      BY <3>1, <3>6, <3>9
    <3>11. last < before
      BY <3>2, <3>6, <3>8, <3>10
    <3>12. last \in ready /\ ready \subseteq Nat
      BY <3>3, <3>6, NCellsAssumption DEF IInv, Cells
    <3> QED BY <3>11, <3>12
  <2>6. below \subseteq overtaking
    BY <1>2, <1>4, <1>7, <2>3, <2>5
  <2>7. d.headChanged <=> after < before
    BY <1>3, <2>4, Zenon
  <2>8. /\ d.headBackstep > 0 <=> after < before
        /\ d.headBefore >= 0 /\ (d.headAfter < d.headBefore <=> after < before)
    BY <1>3, <1>7, <2>3
  <2>9. /\ d.releasedBelowCut <= d.releasedBeforeHead
        /\ d.releasedBeforeHead <= d.releasedCount
    BY <1>3, <1>5, <2>6
  <2> QED BY <2>7, <2>8, <2>9, Zenon
<1> QED BY <1>6, <1>7

\* What the instrumented builders have reported so far.
ReportsInv ==
  /\ diagnostics \in Seq(Range(diagnostics))
  /\ HeadDiagnosticsAgree
  /\ SearchRangeSound

\* one more report
LEMMA ReportsGrow ==
  ASSUME diagnostics \in Seq(Range(diagnostics)), NEW d,
         diagnostics' = Append(diagnostics, d)
  PROVE  /\ diagnostics' \in Seq(Range(diagnostics'))
         /\ Range(diagnostics') \subseteq Range(diagnostics) \cup {d}
<1> DEFINE n == Len(diagnostics)
<1>1. n \in Nat /\ DOMAIN diagnostics = 1 .. n
  BY LenProperties
<1>2. PICK S : S = Range(diagnostics) \cup {d}
  OBVIOUS
<1>3. diagnostics \in Seq(S) /\ d \in S
  <2>1. Range(diagnostics) \subseteq S /\ d \in S
    BY <1>2
  <2> QED BY <2>1, SeqMonotonic
<1>4. PICK new : new = Append(diagnostics, d)
  OBVIOUS
<1>5. new \in Seq(S)
  BY <1>3, <1>4, AppendProperties
<1>6. Range(new) \subseteq S
  BY <1>5, LenProperties, ElementOfSeq DEF Range
<1>7. new \in Seq(Range(new))
  <2>1. Len(new) \in Nat /\ new \in [1 .. Len(new) -> Range(new)]
    BY <1>5, LenProperties DEF Range
  <2> QED BY <2>1, FunctionIsSeq
<1> QED BY <1>2, <1>4, <1>6, <1>7

LEMMA NextReports == IInv /\ ReportsInv /\ [Next]_vars => ReportsInv'
<1> SUFFICES ASSUME IInv, ReportsInv, [Next]_vars PROVE ReportsInv'
  OBVIOUS
<1>1. CASE ReleaseDiagnosticStep
  <2>1. PICK current, left, d :
          /\ current = Take(Ascending(ready), Width) /\ left = ready \ Range(current)
          /\ d = ReleaseDiagnostic(current, left)
          /\ diagnostics' = Append(diagnostics, d)
          /\ Builder = "releaseDiagnostic"
          /\ EmitFromReady(current, current, OneLevel(current))
    BY <1>1 DEF ReleaseDiagnosticStep
  <2>2. /\ ready # {} /\ status = "building" /\ Builder' = Builder
        /\ Width \in Nat \ {0}
    BY <2>1, ControlFacts DEF EmitFromReady, Emit, IInv, FrontierOK, Builder
  <2>3. /\ d.headChanged <=> d.headBackstep > 0
        /\ d.headChanged <=> d.headBefore >= 0 /\ d.headAfter < d.headBefore
        /\ d.headBefore >= 0 => d.releasedBelowCut <= d.releasedBeforeHead
        /\ d.releasedBeforeHead <= d.releasedCount
    BY <2>1, <2>2, HeadMovesBack
  <2>4. /\ diagnostics' \in Seq(Range(diagnostics'))
        /\ Range(diagnostics') \subseteq Range(diagnostics) \cup {d}
    BY <2>1, ReportsGrow DEF ReportsInv
  <2>5. HeadDiagnosticsAgree'
    BY <2>1, <2>2, <2>3, <2>4 DEF ReportsInv, HeadDiagnosticsAgree
  <2>6. SearchRangeSound'
    BY <2>1, <2>2 DEF SearchRangeSound
  <2> QED BY <2>4, <2>5, <2>6 DEF ReportsInv
<1>2. CASE ReadyFractionStep
  <2>1. PICK d :
          /\ d = [readySize       |-> ReadySize,
                  targetWidth     |-> ReadyTarget,
                  searchMinWidth  |-> SearchMin,
                  searchMaxWidth  |-> SearchMax,
                  chosenChunkSize |-> ReadyFractionSize,
                  largestGap      |->
                    IF CutsReadySet THEN Gap(ReadyFractionSize) ELSE 0]
          /\ diagnostics' = Append(diagnostics, d)
          /\ Builder = "readyFraction" /\ ready # {} /\ status = "building"
          /\ request' = request
    BY <1>2 DEF ReadyFractionStep, EmitFromReady, Emit
  <2>2. Builder' = Builder
    BY <2>1 DEF Builder
  <2>3. /\ d.targetWidth <= d.readySize
        /\ d.searchMinWidth <= d.chosenChunkSize
        /\ d.chosenChunkSize <= d.searchMaxWidth
        /\ d.chosenChunkSize < d.readySize => d.readySize >= ReadyFloor
    BY <2>1, SearchRange
  <2>4. /\ diagnostics' \in Seq(Range(diagnostics'))
        /\ Range(diagnostics') \subseteq Range(diagnostics) \cup {d}
    BY <2>1, ReportsGrow DEF ReportsInv
  <2>5. SearchRangeSound'
    BY <2>1, <2>2, <2>3, <2>4 DEF ReportsInv, SearchRangeSound
  <2>6. HeadDiagnosticsAgree'
    BY <2>1, <2>2 DEF HeadDiagnosticsAgree
  <2> QED BY <2>4, <2>5, <2>6 DEF ReportsInv
<1>3. CASE ~ ReleaseDiagnosticStep /\ ~ ReadyFractionStep
  <2>1. diagnostics' = diagnostics /\ request' = request
    BY <1>3
    DEF Next, RejectArguments, Refuse, Start, Begin, OrientedStep, SlidingWindowStep,
        AdaptiveGapStep, UnboundedStep, SlicedStep, ContinuingStep, FreezeFrontier,
        FrontierContinuingStep, Finish, Return, Fail, NotCovered, EmitFromReady, Emit,
        vars, frontierVars
  <2> QED BY <2>1 DEF ReportsInv, HeadDiagnosticsAgree, SearchRangeSound, Builder
<1> QED BY <1>1, <1>2, <1>3

\* Whatever structure a builder adds -- a window, a frozen frontier, a place to
\* resume -- its counters, the cells it holds and the inverse permutation agree
\* with its rows, and each chunk's report agrees with the chunk.
THEOREM VariantBooks == Spec => []Bookkeeping
<1>1. IInv => TypeOK
  BY MeshesAssumption DEF IInv, FrontierOK, TypeOK
<1>2. IInv => CountersExact
  BY DEF IInv, FrontierOK
<1>3. IInv => HoldsAvailable
  BY FreeIsAvailable DEF IInv, HoldsAvailable
<1>4. IInv => OldToNewInverts
  <2> SUFFICES ASSUME IInv, status = "returned", NEW i \in DOMAIN newToOld
               PROVE  oldToNew[newToOld[i]] = i - 1
    BY DEF OldToNewInverts
  <2>1. newToOld[i] \in Cells
    BY LenProperties DEF IInv, FrontierOK
  <2> QED BY <2>1, RowOfInverts DEF IInv
<1>5. Init => ReportsInv
  <2> SUFFICES ASSUME Init PROVE ReportsInv
    OBVIOUS
  <2>1. diagnostics = <<>> /\ Range(<<>>) = {}
    BY DEF Init, Range
  <2> QED BY <2>1, EmptySeq DEF ReportsInv, HeadDiagnosticsAgree, SearchRangeSound
<1>6. ReportsInv => HeadDiagnosticsAgree /\ SearchRangeSound
  BY DEF ReportsInv
<1> QED BY <1>1, <1>2, <1>3, <1>4, <1>5, <1>6, NextReports, VariantInvariance, PTL
        DEF Spec, Bookkeeping

-----------------------------------------------------------------------------
(* Refinement. *)

\* Every experimental builder, for all its controls, appends available cells in
\* levels no face lies inside of, returns only complete orderings and refuses
\* only cyclic addressings: it implements WavefrontOrdering.
THEOREM VariantImplements == Spec => Implements
<1>1. Init => Ordering!Init
  BY DEF Init, FrontierInit, Ordering!Init
<1>2. IInv /\ [Next]_vars => [Ordering!Next]_(Ordering!vars)
  <2> SUFFICES ASSUME IInv, [Next]_vars
               PROVE  [Ordering!Next]_(Ordering!vars)
    OBVIOUS
  <2>1. CASE RejectArguments
    BY <2>1 DEF RejectArguments, Refuse, Ordering!Next, Ordering!Reject
  <2>2. CASE Start
    BY <2>2 DEF Start, Begin, Ordering!Next, Ordering!Accept
  <2>3. CASE Appending
    BY <2>3, EveryStepAppends, AppendsRefines
  <2>4. CASE FreezeFrontier
    BY <2>4 DEF FreezeFrontier, Ordering!vars
  <2>5. CASE Finish
    <3>1. LoopsOver /\ Complete /\ status = "building" /\ status' = "returned"
          /\ UNCHANGED <<mesh, newToOld, levelStarts>>
      BY <2>5 DEF Finish, Return
    <3>2. Ordering!Emitted = Cells
      BY <3>1, AllAppendedIsAll, NothingHeld, SameAddressing DEF IInv
    <3> QED BY <3>1, <3>2, SameAddressing DEF Ordering!Next, Ordering!Return
  <2>6. CASE Fail
    <3>1. LoopsOver /\ ~ Complete /\ status = "building"
          /\ status' = "uncovered" /\ UNCHANGED <<mesh, newToOld, levelStarts>>
      BY <2>6 DEF Fail, NotCovered
    <3>2. Ordering!Emitted # Cells /\ Ordering!Available = {}
      BY <3>1, AllAppendedIsAll, NothingHeld, FreeIsAvailable, SameAddressing DEF IInv
    <3> QED BY <3>1, <3>2, SameAddressing DEF Ordering!Next, Ordering!Uncovered
  <2>7. CASE UNCHANGED vars
    BY <2>7 DEF vars, frontierVars, Ordering!vars
  <2> QED BY <2>1, <2>2, <2>3, <2>4, <2>5, <2>6, <2>7 DEF Next, Appending
<1> QED BY <1>1, <1>2, VariantInvariance, PTL DEF Spec, Implements, Ordering!Spec

LEMMA ConcatFour ==
  ASSUME NEW a \in Seq(Cells), NEW b \in Seq(Cells), NEW c \in Seq(Cells),
         NEW d \in Seq(Cells)
  PROVE  (a \o b) \o (c \o d) = (a \o (b \o c)) \o d
<1> DEFINE S == Seq(Cells)
           Cat(x, y) == x \o y
<1>1. \A x, y \in S : Cat(x, y) \in S
  BY ConcatProperties
<1>2. ASSUME NEW x \in S, NEW y \in S, NEW z \in S
      PROVE  Cat(Cat(x, y), z) = Cat(x, Cat(y, z))
  BY ConcatAssociative, SMTT(60)
<1>3. a \in S /\ b \in S /\ c \in S /\ d \in S
  OBVIOUS
<1> HIDE DEF S, Cat
<1>4. Cat(Cat(a, b), Cat(c, d)) = Cat(Cat(a, Cat(b, c)), d)
  BY <1>1, <1>2, <1>3
<1> QED BY <1>4 DEF Cat

\* What is executed and what waits in the window only grows at the end.
THEOREM WindowGrowsAtEnd == Spec => WindowIsFifo
<1>1. IInv /\ [Next]_vars =>
        (Builder = "slidingWindow" =>
           SubSeq(newToOld' \o active', 1, Len(newToOld) + Len(active))
             = newToOld \o active)
  <2> SUFFICES ASSUME IInv, [Next]_vars, Builder = "slidingWindow"
               PROVE  SubSeq(newToOld' \o active', 1, Len(newToOld) + Len(active))
                        = newToOld \o active
    OBVIOUS
  <2>1. newToOld \in Seq(Cells) /\ active \in Seq(Cells)
    BY DEF IInv, FrontierOK
  <2>2. newToOld \o active \in Seq(Cells)
        /\ Len(newToOld \o active) = Len(newToOld) + Len(active)
    BY <2>1, ConcatProperties
  <2>3. ASSUME NEW more \in Seq(Cells), newToOld' \o active' = (newToOld \o active) \o more
        PROVE  SubSeq(newToOld' \o active', 1, Len(newToOld) + Len(active))
                 = newToOld \o active
    BY <2>2, <2>3, PrefixOfConcat
  <2>4. CASE newToOld' = newToOld /\ active' = active
    <3>1. (newToOld \o active) \o <<>> = newToOld \o active /\ <<>> \in Seq(Cells)
      BY <2>2, ConcatEmptySeq, EmptySeq
    <3> QED BY <2>3, <2>4, <3>1
  <2>5. CASE Start
    <3>1. newToOld' = newToOld /\ newToOld = <<>> /\ active = <<>>
      BY <2>5 DEF Start, Begin, IInv, FrontierOK
    <3>2. active' \in Seq(Cells)
      BY <2>5, StartIInv DEF IInv
    <3>3. <<>> \o <<>> = <<>> /\ <<>> \o active' = active'
      BY <2>1, <3>1, <3>2, ConcatEmptySeq
    <3> QED BY <2>3, <3>1, <3>2, <3>3
  <2>6. CASE SlidingWindowStep
    <3>1. PICK current, left, eligible :
            /\ current = Take(active, request.step)
            /\ left = SubSeq(active, Len(current) + 1, Len(active))
            /\ eligible = ready \cup Released(current)
            /\ active' = Refilled(left, eligible)
            /\ newToOld' = newToOld \o current
      BY <2>6 DEF SlidingWindowStep, Emit
    <3>2. request.step \in Nat /\ IsInjective(active)
      BY <2>6, ControlFacts DEF SlidingWindowStep, Emit, IInv, FrontierOK
    <3>3. left = Rest(active, request.step)
      BY <3>1 DEF Rest
    <3>4. /\ current \in Seq(Cells) /\ left \in Seq(Cells) /\ current \o left = active
          /\ Len(left) \in Nat /\ Len(left) <= Len(active)
      <4>1. PICK s, n : s = active /\ n = request.step
        OBVIOUS
      <4>2. s \in Seq(Cells) /\ IsInjective(s) /\ n \in Nat
        BY <2>1, <3>2, <4>1
      <4>3. /\ Take(s, n) \in Seq(Cells) /\ Rest(s, n) \in Seq(Cells)
            /\ Take(s, n) \o Rest(s, n) = s
            /\ Len(Rest(s, n)) \in Nat /\ Len(Rest(s, n)) <= Len(s)
        BY <4>2, HeadAndRest
      <4> QED BY <3>1, <3>3, <4>1, <4>3
    <3>5. PICK more \in Seq(Cells) : active' = left \o more
      <4>1. PICK room : room = Width - Len(left)
        OBVIOUS
      <4>2. room \in Nat
        <5>1. Width \in Nat /\ Len(active) <= Width /\ Len(active) \in Nat
          BY <2>1, <2>6, ControlFacts, LenProperties
          DEF SlidingWindowStep, Emit, IInv, FrontierOK
        <5> QED BY <3>4, <4>1, <5>1
      <4>3. eligible \in SUBSET Cells
        BY <3>1 DEF IInv, Released
      <4>4. Ascending(eligible) \in Seq(Cells)
        BY <4>3, AscendingProperties, SeqMonotonic
      <4>5. Take(Ascending(eligible), room) \in Seq(Cells)
        BY <4>2, <4>4, TakeProperties
      <4> QED BY <3>1, <4>1, <4>5 DEF Refilled
    <3>6. newToOld' \o active' = (newToOld \o active) \o more
      <4>1. newToOld' \o active' = (newToOld \o current) \o (left \o more)
        BY <3>1, <3>5
      <4>2. PICK rows : rows = newToOld
        OBVIOUS
      <4>3. (rows \o current) \o (left \o more) = (rows \o (current \o left)) \o more
        <5> DEFINE S == Seq(Cells)
                   Cat(x, y) == x \o y
        <5>1. rows \in S /\ current \in S /\ left \in S /\ more \in S
          BY <2>1, <3>4, <3>5, <4>2
        <5>2. \A a, b, c, d \in S : Cat(Cat(a, b), Cat(c, d)) = Cat(Cat(a, Cat(b, c)), d)
          BY ConcatFour
        <5> HIDE DEF S, Cat
        <5>3. Cat(Cat(rows, current), Cat(left, more)) = Cat(Cat(rows, Cat(current, left)), more)
          BY <5>1, <5>2
        <5> QED BY <5>3 DEF Cat
      <4> QED BY <3>4, <4>1, <4>2, <4>3
    <3> QED BY <2>3, <3>5, <3>6
  <2>7. CASE ~ Start /\ ~ SlidingWindowStep
    <3>1. newToOld' = newToOld /\ active' = active
      BY <2>7
      DEF Next, RejectArguments, Refuse, ReleaseDiagnosticStep, OrientedStep,
          AdaptiveGapStep, ReadyFractionStep, UnboundedStep, SlicedStep, ContinuingStep,
          FreezeFrontier, FrontierContinuingStep, Finish, Return, Fail, NotCovered,
          vars, frontierVars
    <3> QED BY <2>4, <3>1
  <2> QED BY <2>5, <2>6, <2>7
<1> QED BY <1>1, VariantInvariance, PTL DEF Spec, WindowIsFifo

-----------------------------------------------------------------------------
(* Graham's bound. *)

\* The levels narrower than what the controls guarantee are paid for by depth:
\* they are cut only where all the cells a chunk may be taken from are used up.
WidthInv ==
  status \in {"building", "returned"} =>
    DepthsFound /\ Potential(GuaranteedWidth, Now, Later)

LEMMA AppendsWidth ==
  ASSUME IInv, WidthInv, NEW chunk, NEW cuts, Appends(chunk, cuts)
  PROVE  WidthInv'
<1>1. /\ status = "building" /\ request' = request
      /\ Emit(chunk, cuts, ready')
  BY DEF Appends, Emit
<1>2. /\ chunk \in Seq(Cells) /\ Len(chunk) \in Nat \ {0} /\ IsInjective(chunk)
      /\ Range(chunk) \subseteq Free /\ cuts \in Seq(Nat) /\ Len(cuts) \in Nat
  BY DEF Appends, IsChunk
<1>3. FrontierOK /\ ValidControls /\ DepthsFound /\ Potential(GuaranteedWidth, Now, Later)
  BY <1>1 DEF IInv, WidthInv
<1>4. levelStarts \in Seq(Nat)
  <2>1. 0 .. NCells \subseteq Nat
    BY NCellsAssumption
  <2> QED BY <2>1, SeqMonotonic DEF IInv
<1>5. DepthsFound'
  BY <1>1, <1>2, <1>3, EmitDepths
<1>6. PICK w, now, later, released, rest :
        /\ w = GuaranteedWidth /\ now = Now /\ later = Later
        /\ released = Released(chunk) /\ rest = now \ Range(chunk)
  OBVIOUS
<1>7. w \in Nat \ {0} /\ GuaranteedWidth' = w
  <2>1. w \in Nat \ {0}
    BY <1>3, <1>6, ControlFacts DEF FrontierOK
  <2>2. GuaranteedWidth' = GuaranteedWidth
    BY <1>1 DEF GuaranteedWidth, Builder, Width
  <2> QED BY <1>6, <2>1, <2>2
<1>8. /\ Range(chunk) \subseteq now
      /\ \/ Len(cuts) = 1 /\ w <= Len(chunk)
         \/ Range(chunk) = now /\ Len(cuts) * w <= Len(chunk) + w - 1
  BY <1>6 DEF Appends, IsWide
<1>9. Range(chunk) # {}
  <2>1. DOMAIN chunk = 1 .. Len(chunk) /\ 1 \in 1 .. Len(chunk)
    BY <1>2, LenProperties
  <2> QED BY <2>1 DEF Range
<1>10. \/ /\ Now' = rest \cup (later \cup released) /\ Later' = {}
       \/ Now' = rest /\ rest # {} /\ Later' = later \cup released
  <2>1. /\ ready' \cup Range(active') \cup frontier'
             = (Free \ Range(chunk)) \cup released
        /\ frontier' = frontier \ Range(chunk)
    BY <1>6 DEF Appends
  <2>2. CASE frontier = {}
    <3>1. now = Free /\ later = {}
      BY <1>1, <1>6, <2>2 DEF Now, Later, IInv
    <3>2. Now' = ready' \cup Range(active') /\ frontier' = {} /\ Later' = {}
      BY <2>1, <2>2 DEF Now, Later
    <3> QED BY <1>6, <2>1, <3>1, <3>2
  <2>3. CASE frontier # {}
    <3>1. Builder = "frontierContinuing"
      BY <2>3 DEF IInv
    <3>2. now = frontier /\ later = ready /\ ready' = later \cup released
      BY <1>6, <2>3 DEF Now, Later, Appends
    <3>3. Range(active') = {}
      <4>1. active' = <<>>
        BY <3>1 DEF Appends
      <4> QED BY <4>1 DEF Range
    <3>4. CASE rest = {}
      <4>1. Now' = ready' \cup Range(active') /\ Later' = {}
        BY <1>6, <2>1, <3>2, <3>4 DEF Now, Later
      <4> QED BY <3>2, <3>3, <3>4, <4>1
    <3>5. CASE rest # {}
      <4>1. Now' = rest /\ Later' = ready'
        BY <1>6, <2>1, <3>2, <3>5 DEF Now, Later
      <4> QED BY <3>2, <3>5, <4>1
    <3> QED BY <3>4, <3>5
  <2> QED BY <2>2, <2>3
<1>11. CASE Len(cuts) = 1 /\ w <= Len(chunk)
  <2>1. /\ Potential(w, rest, later \cup released)'
        /\ Potential(w, rest \cup (later \cup released), {})'
    BY <1>1, <1>2, <1>3, <1>4, <1>6, <1>7, <1>8, <1>11, WideLevel
  <2>2. Potential(GuaranteedWidth, Now, Later)'
    BY <1>7, <1>10, <2>1 DEF Potential, Deep
  <2> QED BY <1>5, <2>2 DEF WidthInv
<1>12. CASE Range(chunk) = now /\ Len(cuts) * w <= Len(chunk) + w - 1
  <2>1. Potential(w, later \cup released, {})'
    BY <1>1, <1>2, <1>3, <1>4, <1>6, <1>7, <1>9, <1>12, LastLevels
  <2>2. Now' = later \cup released /\ Later' = {}
    BY <1>6, <1>10, <1>12
  <2>3. Potential(GuaranteedWidth, Now, Later)'
    BY <1>7, <2>1, <2>2 DEF Potential, Deep
  <2> QED BY <1>5, <2>3 DEF WidthInv
<1> QED BY <1>8, <1>11, <1>12

LEMMA NextWidth == IInv /\ WidthInv /\ [Next]_vars => WidthInv'
<1> SUFFICES ASSUME IInv, WidthInv, [Next]_vars PROVE WidthInv'
  OBVIOUS
<1>1. CASE RejectArguments
  BY <1>1 DEF RejectArguments, Refuse, WidthInv
<1>2. CASE Start
  <2>1. /\ ValidControls /\ request' = request /\ mesh' = mesh /\ newToOld' = <<>>
        /\ levelStarts' = <<0>> /\ status' = "building"
    BY <1>2 DEF Start, Begin, IInv, FrontierOK
  <2>2. DepthsFound'
    BY <2>1, NoDepthsYet
  <2>3. PICK w, S : w = GuaranteedWidth /\ S = FirstReady
    OBVIOUS
  <2>4. GuaranteedWidth' = w /\ Now' = S /\ Later' = {}
    <3>1. GuaranteedWidth' = GuaranteedWidth
      BY <2>1 DEF GuaranteedWidth, Builder, Width
    <3> QED BY <1>2, <2>3, <3>1, StartIInv
  <2>5. w \in Nat
    BY <2>1, <2>3, ControlFacts DEF IInv, FrontierOK
  <2>6. Potential(w, S, {})'
    BY <2>1, <2>3, <2>5, PotentialBegins DEF FirstReady
  <2>7. Potential(GuaranteedWidth, Now, Later)'
    BY <2>4, <2>6 DEF Potential, Deep
  <2> QED BY <2>2, <2>7 DEF WidthInv
<1>3. CASE Appending
  BY <1>3, EveryStepAppends, AppendsWidth
<1>4. CASE FreezeFrontier \/ Finish \/ Fail \/ UNCHANGED vars
  <2>1. /\ mesh' = mesh /\ request' = request
        /\ newToOld' = newToOld /\ levelStarts' = levelStarts
        /\ status' = status \/ status = "building"
    BY <1>4 DEF FreezeFrontier, Finish, Fail, Return, NotCovered, vars, frontierVars
  <2>2. Now' = Now /\ Later' = Later
    <3>1. CASE FreezeFrontier
      <4>1. /\ frontier = {} /\ ready # {} /\ frontier' = ready /\ ready' = {}
            /\ active = <<>>
        BY <3>1 DEF FreezeFrontier, IInv
      <4>2. Range(active) = {}
        BY <4>1 DEF Range
      <4> QED BY <4>1, <4>2 DEF Now, Later
    <3>2. CASE Finish \/ Fail \/ UNCHANGED vars
      BY <3>2
      DEF Finish, Fail, Return, NotCovered, vars, frontierVars, Now, Later
    <3> QED BY <1>4, <3>1, <3>2
  <2>3. /\ Depth' = Depth
        /\ \A c, g : DepthFrom(g, c)' = DepthFrom(g, c)
        /\ Emitted' = Emitted
    BY <2>1, SameDepths DEF Emitted
  <2>4. GuaranteedWidth' = GuaranteedWidth
    BY <2>1 DEF GuaranteedWidth, Builder, Width
  <2>5. DepthsFound => DepthsFound'
    BY <2>1, <2>3 DEF DepthsFound
  <2>6. Potential(GuaranteedWidth, Now, Later) => Potential(GuaranteedWidth, Now, Later)'
    BY <2>1, <2>2, <2>3, <2>4 DEF Potential, Deep
  <2> QED BY <2>1, <2>5, <2>6 DEF WidthInv
<1> QED BY <1>1, <1>2, <1>3, <1>4 DEF Next, Appending

\* The experimental policies cost no parallelism beyond the width their controls
\* guarantee: a returned ordering with w = GuaranteedWidth has at most
\* (NCells + (w - 1) * depth) / w levels, for every addressing.
THEOREM VariantWidth == Spec => []GrahamBound
<1>1. Init => WidthInv
  BY DEF Init, FrontierInit, WidthInv
<1>2. IInv /\ WidthInv => GrahamBound
  <2> SUFFICES ASSUME IInv, WidthInv, status = "returned"
               PROVE  WorkSpread(Len(levelStarts) - 1, GuaranteedWidth)
    BY DEF GrahamBound
  <2>1. /\ FrontierOK /\ Emitted = Cells /\ ValidControls
        /\ DepthsFound /\ Potential(GuaranteedWidth, Now, Later)
    BY DEF IInv, WidthInv
  <2>2. 0 .. NCells \subseteq Nat
    BY NCellsAssumption
  <2>3. levelStarts \in Seq(Nat)
    BY <2>2, SeqMonotonic DEF IInv
  <2>4. GuaranteedWidth \in Nat \ {0}
    BY <2>1, ControlFacts DEF FrontierOK
  <2> QED BY <2>1, <2>3, <2>4, WorkIsSpread
<1> QED BY <1>1, <1>2, NextWidth, VariantInvariance, PTL DEF Spec

-----------------------------------------------------------------------------
(* What the release diagnostics add up to. *)

\* A list without repetitions lists as many elements as it is long.
LEMMA ListSize ==
  ASSUME NEW S, NEW s \in Seq(S), IsInjective(s)
  PROVE  IsFiniteSet(Range(s)) /\ Cardinality(Range(s)) = Len(s) /\ Len(s) \in Nat
<1>1. /\ s \in [1 .. Len(s) -> S] /\ Len(s) \in Nat /\ DOMAIN s = 1 .. Len(s)
  BY LenProperties
<1>2. IsFiniteSet(1 .. Len(s)) /\ Cardinality(1 .. Len(s)) = Len(s)
  BY <1>1, OneTo
<1>3. s \in Surjection(1 .. Len(s), Range(s)) /\ s \in Injection(1 .. Len(s), Range(s))
  BY <1>1, Zenon DEF Surjection, Injection, Range, IsInjective
<1> QED BY <1>1, <1>2, <1>3, FS_Surjection

\* the two columns of the reports that are added up
ChunkSizes == [k \in DOMAIN diagnostics |-> diagnostics[k].chosenChunkSize]
ReleasedCounts == [k \in DOMAIN diagnostics |-> diagnostics[k].releasedCount]

\* The chunks reported so far are the rows, and the cells released, with those
\* that were ready at the start, are the rows and what is ready now.
TotalsInv ==
  Builder = "releaseDiagnostic" =>
    /\ \A k \in DOMAIN diagnostics :
         diagnostics[k].chosenChunkSize \in Nat /\ diagnostics[k].releasedCount \in Nat
    /\ status \in {"called", "rejected"} => diagnostics = <<>>
    /\ status = "returned" => ready = {}
    /\ status \in {"building", "returned", "uncovered"} =>
         /\ SlotCount(DOMAIN diagnostics, ChunkSizes) = Len(newToOld)
         /\ SlotCount(DOMAIN diagnostics, ReleasedCounts) + Cardinality(FirstReady)
              = Len(newToOld) + Cardinality(ready)

\* The sum of a list with one more number.
LEMMA SlotsAppend ==
  ASSUME NEW n \in Nat, NEW g, NEW h, \A k \in 1 .. n : g[k] \in Nat /\ h[k] = g[k],
         h[n + 1] \in Nat
  PROVE  /\ SlotCount(1 .. n, g) \in Nat
         /\ SlotCount(1 .. n + 1, h) = SlotCount(1 .. n, g) + h[n + 1]
<1>1. IsFiniteSet(1 .. n)
  BY OneTo
<1> DEFINE S == 1 .. n
           y == n + 1
<1>2. 1 .. n + 1 = S \cup {y} /\ y \notin S /\ \A x \in S \cup {y} : h[x] \in Nat
  OBVIOUS
<1>3. (\A x \in S : g[x] = h[x]) /\ \A x \in S : h[x] \in Nat
  OBVIOUS
<1> HIDE DEF S, y
<1>4. IsFiniteSet(S)
  BY <1>1 DEF S
<1>5. IsFiniteSet(Slots(S, h)) /\ SlotCount(S, h) \in Nat
  BY <1>3, <1>4, SlotsFinite
<1>6. SlotCount(S \cup {y}, h) = SlotCount(S, h) + h[y]
  BY <1>2, <1>4, <1>5, SlotsAdd
<1>7. SlotCount(S, g) = SlotCount(S, h)
  BY <1>3, SlotsSame
<1> QED BY <1>2, <1>5, <1>6, <1>7 DEF S, y

\* the reports after one more
LEMMA ReportsAppend ==
  ASSUME diagnostics \in Seq(Range(diagnostics)), NEW d,
         diagnostics' = Append(diagnostics, d), NEW n, n = Len(diagnostics)
  PROVE  /\ n \in Nat /\ DOMAIN diagnostics = 1 .. n /\ DOMAIN diagnostics' = 1 .. n + 1
         /\ \A k \in 1 .. n : diagnostics'[k] = diagnostics[k]
         /\ diagnostics'[n + 1] = d
<1>1. n \in Nat /\ DOMAIN diagnostics = 1 .. n
  BY LenProperties
<1>2. PICK S : S = Range(diagnostics) \cup {d}
  OBVIOUS
<1>3. diagnostics \in Seq(S) /\ d \in S
  <2>1. Range(diagnostics) \subseteq S /\ d \in S
    BY <1>2
  <2> QED BY <2>1, SeqMonotonic
<1>4. PICK old, new : old = diagnostics /\ new = Append(diagnostics, d)
  OBVIOUS
<1>5. /\ new \in Seq(S) /\ Len(new) = n + 1
      /\ \A k \in 1 .. n : new[k] = old[k]
      /\ new[n + 1] = d
  BY <1>3, <1>4, AppendProperties
<1>6. DOMAIN new = 1 .. n + 1
  BY <1>5, LenProperties
<1> QED BY <1>1, <1>4, <1>5, <1>6

\* One more chunk is added to the sums and reported as it is.
LEMMA StepTotals ==
  ASSUME IInv, ReportsInv, TotalsInv, ReleaseDiagnosticStep
  PROVE  TotalsInv'
<1>1. PICK current, left, d :
        /\ current = Take(Ascending(ready), Width) /\ left = ready \ Range(current)
        /\ d = ReleaseDiagnostic(current, left)
        /\ diagnostics' = Append(diagnostics, d)
        /\ Builder = "releaseDiagnostic"
        /\ EmitFromReady(current, current, OneLevel(current))
  BY DEF ReleaseDiagnosticStep
<1>2. /\ ready # {} /\ status = "building" /\ status' = "building" /\ Builder' = Builder
      /\ mesh' = mesh /\ newToOld' = newToOld \o current
      /\ ready' = (ready \ Range(current)) \cup Released(current)
      /\ Emit(current, OneLevel(current), ready')
  BY <1>1 DEF EmitFromReady, Emit, Builder
<1>3. Width \in Nat \ {0} /\ FrontierOK /\ newToOld \in Seq(Cells)
  BY <1>1, <1>2, ControlFacts DEF IInv, FrontierOK
<1>4. /\ current \in Seq(Cells) /\ IsInjective(current) /\ Len(current) \in Nat \ {0}
      /\ Range(current) \subseteq ready
  BY <1>1, <1>2, <1>3, ReadyIsListed, TakesFirst
<1>5. ready = Free
  <2>1. active = <<>> /\ frontier = {} /\ Range(<<>>) = {}
    BY <1>1 DEF IInv, Range
  <2> QED BY <1>2, <2>1 DEF IInv
<1>6. Released(current) \cap ready = {}
  BY <1>2, <1>3, <1>4, <1>5, EmitFrontier
<1>7. PICK released, m, l : released = Released(current) /\ m = Len(current) /\ l = Len(newToOld)
  OBVIOUS
<1>8. /\ d.chosenChunkSize = m /\ d.releasedCount = Cardinality(released)
  BY <1>1, <1>7 DEF ReleaseDiagnostic
<1>9. /\ m \in Nat /\ l \in Nat /\ Len(newToOld') = l + m
  <2>1. Len(newToOld \o current) = Len(newToOld) + Len(current) /\ Len(newToOld) \in Nat
    BY <1>3, <1>4, ConcatProperties, LenProperties
  <2> QED BY <1>2, <1>4, <1>7, <2>1
<1>10. /\ Cardinality(ready) \in Nat /\ Cardinality(released) \in Nat
       /\ Cardinality(ready') = Cardinality(ready) - m + Cardinality(released)
  <2>1. ready \in SUBSET Cells /\ released \in SUBSET Cells
    BY <1>7 DEF IInv, Released
  <2>2. PICK R, C : R = ready /\ C = Range(current)
    OBVIOUS
  <2>3. /\ IsFiniteSet(R) /\ Cardinality(R) \in Nat
        /\ IsFiniteSet(released) /\ Cardinality(released) \in Nat
    BY <2>1, <2>2, CellsFinite, FS_CardinalityType
  <2>4. IsFiniteSet(C) /\ Cardinality(C) = m /\ C \subseteq R
    BY <1>4, <1>7, <2>2, ListSize
  <2>5. R \cap C = C
    BY <2>4
  <2>6. IsFiniteSet(R \ C) /\ Cardinality(R \ C) = Cardinality(R) - m
    BY <2>3, <2>4, <2>5, FS_Difference
  <2>7. (R \ C) \cap released = {}
    BY <1>6, <1>7, <2>2
  <2>8. Cardinality((R \ C) \cup released) = Cardinality(R \ C) + Cardinality(released) - 0
    BY <2>3, <2>6, <2>7, FS_Union, FS_EmptySet
  <2>9. Cardinality((R \ C) \cup released) = Cardinality(R) - m + Cardinality(released)
    BY <1>9, <2>3, <2>6, <2>8
  <2>10. ready' = (R \ C) \cup released
    BY <1>2, <1>7, <2>2
  <2> QED BY <2>2, <2>3, <2>9, <2>10
<1>11. PICK n : n = Len(diagnostics)
  OBVIOUS
<1>12. /\ n \in Nat /\ DOMAIN diagnostics = 1 .. n /\ DOMAIN diagnostics' = 1 .. n + 1
       /\ \A k \in 1 .. n : diagnostics'[k] = diagnostics[k]
       /\ diagnostics'[n + 1] = d
  BY <1>1, <1>11, ReportsAppend DEF ReportsInv
<1>13. PICK sizes, counts, sizes1, counts1 :
         /\ sizes = ChunkSizes /\ counts = ReleasedCounts
         /\ sizes1 = ChunkSizes' /\ counts1 = ReleasedCounts'
  OBVIOUS
<1>14. /\ \A k \in 1 .. n : sizes[k] \in Nat /\ sizes1[k] = sizes[k]
       /\ \A k \in 1 .. n : counts[k] \in Nat /\ counts1[k] = counts[k]
       /\ sizes1[n + 1] = m /\ counts1[n + 1] = Cardinality(released)
  <2>1. n + 1 \in 1 .. n + 1 /\ 1 .. n \subseteq 1 .. n + 1
    BY <1>12
  <2>2. \A k \in 1 .. n :
          diagnostics[k].chosenChunkSize \in Nat /\ diagnostics[k].releasedCount \in Nat
    BY <1>1, <1>12 DEF TotalsInv
  <2> QED BY <1>8, <1>12, <1>13, <2>1, <2>2 DEF ChunkSizes, ReleasedCounts
<1>15. /\ SlotCount(1 .. n, sizes) \in Nat /\ SlotCount(1 .. n, counts) \in Nat
       /\ SlotCount(1 .. n + 1, sizes1) = SlotCount(1 .. n, sizes) + m
       /\ SlotCount(1 .. n + 1, counts1) = SlotCount(1 .. n, counts) + Cardinality(released)
  <2>1. n \in Nat /\ (\A k \in 1 .. n : sizes[k] \in Nat /\ sizes1[k] = sizes[k])
        /\ sizes1[n + 1] \in Nat
    BY <1>9, <1>12, <1>14
  <2>2. /\ SlotCount(1 .. n, sizes) \in Nat
        /\ SlotCount(1 .. n + 1, sizes1) = SlotCount(1 .. n, sizes) + sizes1[n + 1]
    BY <2>1, SlotsAppend
  <2>3. n \in Nat /\ (\A k \in 1 .. n : counts[k] \in Nat /\ counts1[k] = counts[k])
        /\ counts1[n + 1] \in Nat
    BY <1>10, <1>12, <1>14
  <2>4. /\ SlotCount(1 .. n, counts) \in Nat
        /\ SlotCount(1 .. n + 1, counts1) = SlotCount(1 .. n, counts) + counts1[n + 1]
    BY <2>3, SlotsAppend
  <2> QED BY <1>14, <2>2, <2>4
<1>16. PICK fr : fr = Cardinality(FirstReady)
  OBVIOUS
<1>17. fr \in Nat /\ Cardinality(FirstReady') = fr
  <2>1. FirstReady \in SUBSET Cells
    BY DEF FirstReady
  <2>2. FirstReady' = FirstReady
    BY <1>2 DEF FirstReady, IncomingFaces, Faces
  <2> QED BY <1>16, <2>1, <2>2, CellsFinite, FS_CardinalityType
<1>18. /\ SlotCount(1 .. n, sizes) = l
       /\ SlotCount(1 .. n, counts) + fr = l + Cardinality(ready)
  BY <1>1, <1>2, <1>7, <1>12, <1>13, <1>16 DEF TotalsInv
<1>19. /\ SlotCount(1 .. n + 1, sizes1) = l + m
       /\ SlotCount(1 .. n + 1, counts1) + fr = l + m + Cardinality(ready')
  BY <1>9, <1>10, <1>15, <1>17, <1>18
<1>20. \A k \in 1 .. n + 1 :
         diagnostics'[k].chosenChunkSize \in Nat /\ diagnostics'[k].releasedCount \in Nat
  <2>1. \A k \in 1 .. n :
          diagnostics[k].chosenChunkSize \in Nat /\ diagnostics[k].releasedCount \in Nat
    BY <1>1, <1>12 DEF TotalsInv
  <2>2. \A k \in 1 .. n + 1 : k \in 1 .. n \/ k = n + 1
    BY <1>12
  <2> QED BY <1>8, <1>9, <1>10, <1>12, <2>1, <2>2
<1> QED BY <1>2, <1>9, <1>12, <1>13, <1>17, <1>19, <1>20 DEF TotalsInv

\* No step loses a cell from the reports.
LEMMA NextTotals ==
  IInv /\ ReportsInv /\ TotalsInv /\ [Next]_vars => TotalsInv'
<1> SUFFICES ASSUME IInv, ReportsInv, TotalsInv, [Next]_vars PROVE TotalsInv'
  OBVIOUS
<1>1. CASE ReleaseDiagnosticStep
  BY <1>1, StepTotals
<1>2. CASE Start
  <2>1. /\ status = "called" /\ status' = "building" /\ Builder' = Builder /\ mesh' = mesh
        /\ newToOld' = newToOld /\ newToOld = <<>>
        /\ ready' = FirstReady \ Range(FirstWindow) /\ diagnostics' = diagnostics
    BY <1>2 DEF Start, Begin, FirstReady, IInv, FrontierOK, Builder
  <2> SUFFICES ASSUME Builder = "releaseDiagnostic" PROVE TotalsInv'
    BY <2>1 DEF TotalsInv
  <2>2. ready' = FirstReady /\ FirstReady' = FirstReady
    <3>1. Range(FirstWindow) = {}
      BY DEF FirstWindow, Range
    <3>2. FirstReady' = FirstReady
      BY <2>1 DEF FirstReady, IncomingFaces, Faces
    <3> QED BY <2>1, <3>1, <3>2
  <2>3. diagnostics = <<>> /\ DOMAIN diagnostics = {}
    <3>1. diagnostics = <<>>
      BY <2>1 DEF TotalsInv
    <3> QED BY <3>1
  <2>4. SlotCount({}, ChunkSizes') = 0 /\ SlotCount({}, ReleasedCounts') = 0
    BY SlotsEmpty
  <2>5. FirstReady \in SUBSET Cells
    BY DEF FirstReady
  <2>6. Cardinality(FirstReady) \in Nat /\ Len(<<>>) = 0
    BY <2>5, CellsFinite, FS_CardinalityType
  <2> QED BY <2>1, <2>2, <2>3, <2>4, <2>6 DEF TotalsInv
<1>3. CASE RejectArguments \/ Finish \/ Fail \/ UNCHANGED vars
  <2>1. /\ mesh' = mesh /\ Builder' = Builder /\ ready' = ready /\ newToOld' = newToOld
        /\ diagnostics' = diagnostics
        /\ \/ status = "called" /\ status' = "rejected"
           \/ status = "building" /\ status' = "returned" /\ LoopsOver
           \/ status = "building" /\ status' = "uncovered"
           \/ status' = status
    BY <1>3 DEF RejectArguments, Refuse, Finish, Return, Fail, NotCovered, vars, frontierVars,
                Builder
  <2>2. FirstReady' = FirstReady
    BY <2>1 DEF FirstReady, IncomingFaces, Faces
  <2>3. ChunkSizes' = ChunkSizes /\ ReleasedCounts' = ReleasedCounts
    BY <2>1 DEF ChunkSizes, ReleasedCounts
  <2> QED BY <2>1, <2>2, <2>3 DEF TotalsInv, LoopsOver
<1>4. CASE \/ OrientedStep \/ SlidingWindowStep \/ AdaptiveGapStep \/ ReadyFractionStep
           \/ UnboundedStep \/ SlicedStep \/ ContinuingStep \/ FreezeFrontier
           \/ FrontierContinuingStep
  <2>1. Builder # "releaseDiagnostic" /\ request' = request
    BY <1>4
    DEF OrientedStep, SlidingWindowStep, AdaptiveGapStep, ReadyFractionStep, UnboundedStep,
        SlicedStep, ContinuingStep, FreezeFrontier, FrontierContinuingStep, EmitFromReady, Emit
  <2> QED BY <2>1 DEF TotalsInv, Builder
<1> QED BY <1>1, <1>2, <1>3, <1>4 DEF Next

\* A finished call has reported every cell once as part of a chunk, and once as
\* ready at the start or released.
LEMMA TotalsAddUp ==
  ASSUME IInv, ReportsInv, TotalsInv
  PROVE  DiagnosticsAddUp
<1> SUFFICES ASSUME Builder = "releaseDiagnostic", status = "returned"
             PROVE  /\ FoldFunction(+, 0, ChunkSizes) = NCells
                    /\ FoldFunction(+, 0, ReleasedCounts) + Cardinality(FirstReady) = NCells
  BY DEF DiagnosticsAddUp, ChunkSizes, ReleasedCounts
<1>1. Len(newToOld) = NCells /\ ready = {}
  BY AllAppendedIsAll DEF AllAppended, IInv, TotalsInv
<1>2. IsFiniteSet(DOMAIN diagnostics)
  <2>1. DOMAIN diagnostics = 1 .. Len(diagnostics) /\ Len(diagnostics) \in Nat
    BY LenProperties DEF ReportsInv
  <2> QED BY <2>1, OneTo
<1>3. PICK S, sizes, counts :
        S = DOMAIN diagnostics /\ sizes = ChunkSizes /\ counts = ReleasedCounts
  OBVIOUS
<1>4. /\ \A k \in S : sizes[k] \in Nat /\ counts[k] \in Nat
      /\ DOMAIN sizes = S /\ DOMAIN counts = S
  BY <1>3 DEF TotalsInv, ChunkSizes, ReleasedCounts
<1>5. SumFunctionOnSet(sizes, S) = SlotCount(S, sizes)
      /\ SumFunctionOnSet(counts, S) = SlotCount(S, counts)
  BY <1>2, <1>3, <1>4, SumIsSlots
<1>6. FoldFunction(+, 0, sizes) = SumFunctionOnSet(sizes, S)
      /\ FoldFunction(+, 0, counts) = SumFunctionOnSet(counts, S)
  BY <1>4 DEF FoldFunction, SumFunctionOnSet
<1>7. /\ SlotCount(S, sizes) = NCells
      /\ SlotCount(S, counts) + Cardinality(FirstReady) = NCells + Cardinality({})
  BY <1>1, <1>3 DEF TotalsInv
<1>8. Cardinality({}) = 0
  BY FS_EmptySet
<1>9. PICK fr : fr = Cardinality(FirstReady)
  OBVIOUS
<1>10. SlotCount(S, counts) + fr = NCells
  BY <1>7, <1>8, <1>9, NCellsAssumption
<1>11. FoldFunction(+, 0, sizes) = NCells /\ FoldFunction(+, 0, counts) = SlotCount(S, counts)
  BY <1>5, <1>6, <1>7, Zenon
<1>12. FoldFunction(+, 0, ChunkSizes) = NCells
       /\ FoldFunction(+, 0, ReleasedCounts) = SlotCount(S, counts)
  BY <1>3, <1>11, Zenon
<1> QED BY <1>9, <1>10, <1>12, Zenon

\* Before the first chunk there is nothing to add up.
LEMMA TotalsBegin == Init => TotalsInv
<1> SUFFICES ASSUME Init PROVE TotalsInv
  OBVIOUS
<1>1. diagnostics = <<>> /\ status = "called"
  BY DEF Init, FrontierInit
<1>2. DOMAIN diagnostics = {}
  BY <1>1
<1> QED BY <1>1, <1>2 DEF TotalsInv

-----------------------------------------------------------------------------
(* The continuing builder waits one sweep. *)

\* newRows are the l rows and after them the n of chunk
Follows(newRows, rows, l, chunk, n) ==
  /\ l \in Nat /\ n \in Nat
  /\ \A j \in 1 .. l : newRows[j] = rows[j] /\ rows[j] \in Cells
  /\ \A k \in 1 .. n : newRows[l + k] = chunk[k] /\ chunk[k] \in Cells

\* Appending a list keeps the rows and continues with the list.
LEMMA RowsFollow ==
  ASSUME NEW rows \in Seq(Cells), NEW chunk \in Seq(Cells)
  PROVE  Follows(rows \o chunk, rows, Len(rows), chunk, Len(chunk))
<1>1. Len(rows) \in Nat /\ Len(chunk) \in Nat
      /\ (\A j \in 1 .. Len(rows) : rows[j] \in Cells)
      /\ \A k \in 1 .. Len(chunk) : chunk[k] \in Cells
  BY LenProperties, ElementOfSeq
<1>2. \A i \in 1 .. Len(rows) + Len(chunk) :
        (rows \o chunk)[i] = IF i <= Len(rows) THEN rows[i] ELSE chunk[i - Len(rows)]
  BY ConcatProperties
<1>3. PICK l, n, both : l = Len(rows) /\ n = Len(chunk) /\ both = rows \o chunk
  OBVIOUS
<1>4. \A j \in 1 .. l : both[j] = rows[j]
  BY <1>1, <1>2, <1>3
<1>5. \A k \in 1 .. n : both[l + k] = chunk[k]
  <2> SUFFICES ASSUME NEW k \in 1 .. n PROVE both[l + k] = chunk[k]
    OBVIOUS
  <2>1. l + k \in 1 .. l + n /\ ~ (l + k <= l) /\ (l + k) - l = k
    BY <1>1, <1>3
  <2> QED BY <1>2, <1>3, <2>1
<1> QED BY <1>1, <1>3, <1>4, <1>5 DEF Follows

\* x comes before y in a sweep that starts at a
Before(a, x, y) ==
  \/ x >= a /\ y < a
  \/ x >= a /\ y >= a /\ x < y
  \/ x < a /\ y < a /\ x < y

\* The continued iteration is a sweep, and its first n cells come before the rest.
LEMMA SweepOrder ==
  ASSUME NEW S \in SUBSET Cells, S # {}, NEW a \in Int, NEW w \in Nat \ {0},
         NEW chunk, chunk = Take(CyclicFrom(S, a), w), NEW n, n = Len(chunk)
  PROVE  /\ \A i, j \in 1 .. n : i < j => Before(a, chunk[i], chunk[j])
         /\ \A c \in S \ Range(chunk) : Before(a, chunk[n], c)
<1> DEFINE A == {c \in S : c >= a}
           B == {c \in S : c < a}
<1>1. /\ A \in SUBSET Cells /\ B \in SUBSET Cells
      /\ (\A c \in A : c \in Int /\ c >= a) /\ \A c \in B : c \in Int /\ c < a
  BY CellsAreIntegers
<1>2. CyclicFrom(S, a) = Ascending(A) \o Ascending(B)
  BY DEF CyclicFrom
<1> HIDE DEF A, B
<1>3. PICK s, t, p, q :
        s = Ascending(A) /\ t = Ascending(B) /\ p = Len(s) /\ q = Len(t)
  OBVIOUS
<1>4. /\ s \in Seq(Cells) /\ t \in Seq(Cells) /\ p \in Nat /\ q \in Nat
      /\ (\A i \in 1 .. p : s[i] \in A) /\ (\A i \in 1 .. q : t[i] \in B)
      /\ (\A i, j \in 1 .. p : i < j => s[i] < s[j])
      /\ \A i, j \in 1 .. q : i < j => t[i] < t[j]
  BY <1>1, <1>3, AscendingProperties, SeqMonotonic, LenProperties, ElementOfSeq
<1>5. PICK all : all = CyclicFrom(S, a)
  OBVIOUS
<1>6. Follows(all, s, p, t, q)
  BY <1>2, <1>3, <1>4, <1>5, RowsFollow
<1>7. ASSUME NEW i \in 1 .. p + q, NEW j \in 1 .. p + q, i < j
      PROVE  Before(a, all[i], all[j])
  <2>1. CASE j <= p
    <3>1. i \in 1 .. p /\ j \in 1 .. p
      BY <1>4, <1>7, <2>1
    <3>2. all[i] = s[i] /\ all[j] = s[j] /\ s[i] \in A /\ s[j] \in A /\ s[i] < s[j]
      BY <1>4, <1>6, <1>7, <3>1 DEF Follows
    <3> QED BY <1>1, <3>2 DEF Before
  <2>2. CASE i <= p /\ p < j
    <3>1. PICK k \in 1 .. q : j = p + k
      <4>1. j - p \in 1 .. q /\ j = p + (j - p)
        BY <1>4, <1>7, <2>2
      <4> QED BY <4>1
    <3>2. i \in 1 .. p
      BY <1>4, <1>7, <2>2
    <3>3. all[i] = s[i] /\ all[j] = t[k] /\ s[i] \in A /\ t[k] \in B
      BY <1>4, <1>6, <3>1, <3>2 DEF Follows
    <3> QED BY <1>1, <3>3 DEF Before
  <2>3. CASE p < i
    <3>1. PICK k \in 1 .. q : j = p + k
      <4>1. j - p \in 1 .. q /\ j = p + (j - p)
        BY <1>4, <1>7, <2>3
      <4> QED BY <4>1
    <3>2. PICK h \in 1 .. q : i = p + h
      <4>1. i - p \in 1 .. q /\ i = p + (i - p)
        BY <1>4, <1>7, <2>3
      <4> QED BY <4>1
    <3>3. h < k
      BY <1>4, <1>7, <3>1, <3>2
    <3>4. all[i] = t[h] /\ all[j] = t[k] /\ t[h] \in B /\ t[k] \in B /\ t[h] < t[k]
      BY <1>4, <1>6, <3>1, <3>2, <3>3 DEF Follows
    <3> QED BY <1>1, <3>4 DEF Before
  <2> QED BY <1>4, <1>7, <2>1, <2>2, <2>3
<1>8. /\ all \in Seq(S) /\ Range(all) = S /\ Len(all) = p + q /\ IsInjective(all)
  BY <1>2, <1>3, <1>4, <1>5, CyclicListing, ConcatProperties
<1>9. /\ n \in Nat \ {0} /\ n = AtMost(w, p + q)
      /\ \A i \in 1 .. n : chunk[i] = all[i]
  <2>1. chunk = Take(all, w) /\ w \in Nat /\ Len(all) = p + q /\ all \in Seq(S)
    BY <1>5, <1>8
  <2>2. Len(chunk) \in Nat \ {0}
    BY <1>8, <2>1, TakeOfListing
  <2>3. Len(chunk) = AtMost(w, p + q) /\ \A i \in 1 .. AtMost(w, p + q) : chunk[i] = all[i]
    BY <2>1, TakeProperties
  <2> QED BY <2>2, <2>3
<1>10. n <= p + q /\ 1 .. n \subseteq 1 .. p + q
  BY <1>4, <1>9 DEF AtMost
<1>11. ASSUME NEW c \in S \ Range(chunk)
       PROVE  Before(a, chunk[n], c)
  <2>1. DOMAIN all = 1 .. p + q
    BY <1>8, LenProperties
  <2>2. PICK j \in 1 .. p + q : all[j] = c
    BY <1>8, <2>1 DEF Range
  <2>3. DOMAIN chunk = 1 .. n
    BY <1>5, <1>8, <1>9, TakeOfListing, LenProperties
  <2>4. j \notin 1 .. n
    <3>1. \A i \in 1 .. n : chunk[i] \in Range(chunk)
      BY <2>3 DEF Range
    <3> QED BY <1>9, <2>2, <3>1
  <2>5. n \in 1 .. p + q /\ n < j /\ n \in 1 .. n
    BY <1>4, <1>9, <1>10, <2>4
  <2> QED BY <1>7, <1>9, <2>2, <2>5
<1>12. ASSUME NEW i \in 1 .. n, NEW j \in 1 .. n, i < j
       PROVE  Before(a, chunk[i], chunk[j])
  BY <1>7, <1>9, <1>10, <1>12
<1> QED BY <1>11, <1>12

\* the rows between from and to at which the index falls
Descents(rows, from, to) ==
  {j \in 1 .. to - 1 : j >= from /\ rows[j] > rows[j + 1]}

AtMostOne(D) == \E x : D \subseteq {x}

\* A sweep from where the rows ended: no fall before a cell on the far side of
\* the start, at most one before the others.
LEMMA SweepDescents ==
  ASSUME NEW newRows, NEW rows, NEW l, NEW chunk, NEW n, Follows(newRows, rows, l, chunk, n),
         NEW a \in Int, l # 0 => a = rows[l] + 1,
         \A i, j \in 1 .. n : i < j => Before(a, chunk[i], chunk[j])
  PROVE  /\ \A i \in 1 .. l : \A from : Descents(newRows, from, i) = Descents(rows, from, i)
         /\ \A k \in 1 .. n : \A from \in Nat :
              chunk[k] >= a => Descents(newRows, from, l + k) \subseteq Descents(rows, from, l)
         /\ \A k \in 1 .. n : \A from \in Nat :
              Descents(rows, from, l) = {} => AtMostOne(Descents(newRows, from, l + k))
<1>1. /\ l \in Nat /\ n \in Nat
      /\ \A j \in 1 .. l : newRows[j] = rows[j] /\ rows[j] \in Int
      /\ \A k \in 1 .. n : newRows[l + k] = chunk[k] /\ chunk[k] \in Int
  BY CellsAreIntegers DEF Follows
<1>2. ASSUME NEW i \in 1 .. l, NEW from
      PROVE  Descents(newRows, from, i) = Descents(rows, from, i)
  <2>1. \A j \in 1 .. i - 1 : j \in 1 .. l /\ j + 1 \in 1 .. l
    BY <1>1
  <2> QED BY <1>1, <2>1 DEF Descents
<1>3. ASSUME NEW k \in 1 .. n, NEW from \in Nat, NEW j \in Descents(newRows, from, l + k)
      PROVE  \/ j \in Descents(rows, from, l)
             \/ /\ j \in Nat /\ l <= j /\ j < l + k /\ j + 1 - l \in 1 .. k
                /\ chunk[j + 1 - l] < a
                /\ j # l => j - l \in 1 .. n /\ chunk[j - l] >= a
  <2>1. j \in 1 .. (l + k) - 1 /\ j >= from /\ newRows[j] > newRows[j + 1]
    BY DEF Descents
  <2>2. j \in Int /\ 1 <= j /\ j < l + k /\ k \in Int /\ k <= n
    BY <1>1, <2>1
  <2>3. CASE j < l
    <3>1. j \in 1 .. l - 1 /\ j \in 1 .. l /\ j + 1 \in 1 .. l
      BY <1>1, <2>2, <2>3
    <3> QED BY <1>1, <2>1, <3>1 DEF Descents
  <2>4. CASE j = l
    <3>1. l \in 1 .. l /\ l # 0 /\ 1 \in 1 .. n /\ j + 1 - l = 1 /\ 1 \in 1 .. k
      BY <1>1, <2>2, <2>4
    <3>2. newRows[l] = rows[l] /\ newRows[l + 1] = chunk[1] /\ rows[l] \in Int
          /\ chunk[1] \in Int
      BY <1>1, <3>1
    <3>3. a = rows[l] + 1 /\ rows[l] > chunk[1]
      BY <2>1, <2>4, <3>1, <3>2
    <3>4. chunk[1] < a
      <4>1. PICK x, y : x = rows[l] /\ y = chunk[1]
        OBVIOUS
      <4> QED BY <3>2, <3>3, <4>1
    <3> QED BY <1>1, <2>2, <2>4, <3>1, <3>4
  <2>5. CASE l < j
    <3>1. PICK h : h = j - l
      OBVIOUS
    <3>2. h \in 1 .. n /\ h + 1 \in 1 .. n /\ h + 1 \in 1 .. k /\ j = l + h
          /\ j + 1 = l + (h + 1) /\ j + 1 - l = h + 1 /\ h < h + 1
      BY <1>1, <2>2, <2>5, <3>1
    <3>3. chunk[h] > chunk[h + 1]
      BY <1>1, <2>1, <3>2
    <3>4. Before(a, chunk[h], chunk[h + 1]) /\ chunk[h] \in Int /\ chunk[h + 1] \in Int
      BY <1>1, <3>2
    <3>5. chunk[h] >= a /\ chunk[h + 1] < a
      <4>1. PICK x, y : x = chunk[h] /\ y = chunk[h + 1]
        OBVIOUS
      <4>2. x >= a /\ y < a
        BY <3>3, <3>4, <4>1 DEF Before
      <4> QED BY <4>1, <4>2
    <3> QED BY <1>1, <2>2, <2>5, <3>1, <3>2, <3>5
  <2> QED BY <1>1, <2>2, <2>3, <2>4, <2>5
<1>4. ASSUME NEW i \in 1 .. n, NEW j \in 1 .. n, i <= j, chunk[i] < a
      PROVE  ~ (chunk[j] >= a)
  <2>1. chunk[i] \in Int /\ chunk[j] \in Int
    BY <1>1
  <2>2. PICK x, y : x = chunk[i] /\ y = chunk[j]
    OBVIOUS
  <2>3. CASE i = j
    BY <1>4, <2>1, <2>2, <2>3
  <2>4. CASE i < j
    <3>1. Before(a, x, y) /\ x < a
      BY <1>4, <2>2, <2>4
    <3> QED BY <2>1, <2>2, <3>1 DEF Before
  <2> QED BY <1>4, <2>3, <2>4
<1>5. ASSUME NEW k \in 1 .. n, NEW from \in Nat, chunk[k] >= a
      PROVE  Descents(newRows, from, l + k) \subseteq Descents(rows, from, l)
  <2> SUFFICES ASSUME NEW j \in Descents(newRows, from, l + k),
                      j + 1 - l \in 1 .. k, chunk[j + 1 - l] < a
               PROVE  FALSE
    BY <1>3
  <2>1. j + 1 - l \in 1 .. n /\ j + 1 - l <= k
    BY <1>1
  <2> QED BY <1>4, <1>5, <2>1
<1>6. ASSUME NEW k \in 1 .. n, NEW from \in Nat, Descents(rows, from, l) = {}
      PROVE  AtMostOne(Descents(newRows, from, l + k))
  <2> DEFINE D == Descents(newRows, from, l + k)
  <2>1. ASSUME NEW i \in D, NEW j \in D, i < j
        PROVE  FALSE
    <3>1. /\ i \in Nat /\ l <= i /\ i + 1 - l \in 1 .. k /\ chunk[i + 1 - l] < a
          /\ j \in Nat /\ l <= j /\ (j # l => j - l \in 1 .. n /\ chunk[j - l] >= a)
      BY <1>3, <1>6
    <3>2. PICK x, y : x = i + 1 - l /\ y = j - l
      OBVIOUS
    <3>3. x \in 1 .. n /\ y \in 1 .. n /\ x <= y
      BY <1>1, <2>1, <3>1, <3>2
    <3>4. chunk[x] < a /\ chunk[y] >= a
      BY <1>1, <2>1, <3>1, <3>2
    <3> QED BY <1>4, <3>3, <3>4
  <2>2. \A i \in D : i \in Int
    BY <1>1 DEF Descents
  <2>3. ASSUME NEW i \in D, NEW j \in D PROVE i = j
    <3>1. ~ (i < j) /\ ~ (j < i)
      BY <2>1
    <3> QED BY <2>2, <3>1
  <2> HIDE DEF D
  <2>4. AtMostOne(D)
    <3>1. CASE D = {}
      BY <3>1 DEF AtMostOne
    <3>2. CASE D # {}
      BY <2>3, <3>2 DEF AtMostOne
    <3> QED BY <3>1, <3>2
  <2> QED BY <2>4 DEF D
<1> QED BY <1>2, <1>5, <1>6

\* the rows end at the start of a level, and no level starts after them
LevelsEnd(rows, starts) ==
  /\ Len(rows) \in Range(starts)
  /\ \A s \in Range(starts) : s \in 0 .. Len(rows)

LevelsInv ==
  status \in {"building", "returned", "uncovered"} => LevelsEnd(newToOld, levelStarts)

\* Levels cut out of the rows appended start after those before.
LEMMA CutsEndRows ==
  ASSUME NEW rows \in Seq(Cells), NEW chunk \in Seq(Cells), NEW starts \in Seq(Nat),
         NEW cuts \in Seq(Nat), Ordering!IsCutting(cuts, Len(rows), Len(chunk)),
         LevelsEnd(rows, starts)
  PROVE  /\ LevelsEnd(rows \o chunk, starts \o cuts)
         /\ Range(starts \o cuts) = Range(starts) \cup Range(cuts)
         /\ \A s \in Range(cuts) : s \in Len(rows) + 1 .. Len(rows) + Len(chunk)
<1>1. Range(starts \o cuts) = Range(starts) \cup Range(cuts)
  BY RangeOfConcat
<1>2. /\ Len(rows) \in Nat /\ Len(chunk) \in Nat
      /\ Len(rows \o chunk) = Len(rows) + Len(chunk)
      /\ DOMAIN cuts = 1 .. Len(cuts) /\ Len(cuts) \in Nat
  BY ConcatProperties, LenProperties
<1>3. PICK l, n : l = Len(rows) /\ n = Len(chunk)
  OBVIOUS
<1>4. /\ \A s \in Range(cuts) : s \in l + 1 .. l + n
      /\ l + n \in Range(cuts)
  <2>1. /\ \A i \in DOMAIN cuts : cuts[i] \in l + 1 .. l + n
        /\ cuts # <<>> /\ cuts[Len(cuts)] = l + n
    BY <1>3 DEF Ordering!IsCutting
  <2>2. Len(cuts) \in DOMAIN cuts
    BY <1>2, <2>1, EmptySeq
  <2> QED BY <2>1, <2>2 DEF Range
<1>5. \A s \in Range(starts) : s \in 0 .. l
  BY <1>3 DEF LevelsEnd
<1>6. l \in Nat /\ n \in Nat /\ Len(rows \o chunk) = l + n
  BY <1>2, <1>3
<1>7. \A s \in Range(starts \o cuts) : s \in 0 .. l + n
  BY <1>1, <1>4, <1>5, <1>6
<1> QED BY <1>1, <1>3, <1>4, <1>6, <1>7 DEF LevelsEnd

\* Every step keeps the level starts within the rows.
LEMMA NextLevels ==
  IInv /\ LevelsInv /\ [Next]_vars => LevelsInv'
<1> SUFFICES ASSUME IInv, LevelsInv, [Next]_vars PROVE LevelsInv'
  OBVIOUS
<1>1. CASE Appending
  <2>1. PICK chunk, cuts : Appends(chunk, cuts)
    BY <1>1, EveryStepAppends
  <2>2. /\ status = "building" /\ newToOld' = newToOld \o chunk
        /\ levelStarts' = levelStarts \o cuts
        /\ chunk \in Seq(Cells) /\ cuts \in Seq(Nat)
        /\ Ordering!IsCutting(cuts, Len(newToOld), Len(chunk))
    BY <2>1 DEF Appends, Emit, IsChunk
  <2>3. 0 .. NCells \subseteq Nat
    BY NCellsAssumption
  <2>4. newToOld \in Seq(Cells) /\ levelStarts \in Seq(Nat)
    BY <2>3, SeqMonotonic DEF IInv, FrontierOK
  <2>5. LevelsEnd(newToOld, levelStarts)
    BY <2>2 DEF LevelsInv
  <2>6. LevelsEnd(newToOld \o chunk, levelStarts \o cuts)
    BY <2>2, <2>4, <2>5, CutsEndRows
  <2> QED BY <2>2, <2>6 DEF LevelsInv, LevelsEnd
<1>2. CASE Start
  <2>1. newToOld' = <<>> /\ levelStarts' = <<0>>
    BY <1>2 DEF Start, Begin, IInv, FrontierOK
  <2>2. LevelsEnd(<<>>, <<0>>)
    <3>1. Range(<<0>>) = {0} /\ Len(<<>>) = 0
      BY DEF Range
    <3> QED BY <3>1 DEF LevelsEnd
  <2> QED BY <2>1, <2>2 DEF LevelsInv, LevelsEnd
<1>3. CASE RejectArguments \/ FreezeFrontier \/ Finish \/ Fail \/ UNCHANGED vars
  <2>1. /\ newToOld' = newToOld /\ levelStarts' = levelStarts
        /\ \/ status = "called" /\ status' = "rejected"
           \/ status = "building"
           \/ status' = status
    BY <1>3 DEF RejectArguments, Refuse, FreezeFrontier, Finish, Return, Fail, NotCovered,
                vars, frontierVars
  <2> QED BY <2>1 DEF LevelsInv, LevelsEnd
<1> QED BY <1>1, <1>2, <1>3 DEF Next, Appending

\* Nothing is asked of a call that has not begun.
LEMMA LevelsBegin == Init => LevelsInv
BY DEF Init, FrontierInit, LevelsInv

\* the first s rows hold every owner of c
HereBy(m, rows, c, s) ==
  \A f \in IncomingFaces(m, c) : \E j \in 1 .. s : rows[j] = m.lower[f]

\* the level start from which on all owners of c are in the rows
Since(m, rows, starts, c) == LeastOf({s \in Range(starts) : HereBy(m, rows, c, s)})

\* The least element of a set of naturals is the one below the others.
LEMMA LeastIs ==
  ASSUME NEW S \in SUBSET Nat, NEW a \in S, \A s \in S : a <= s
  PROVE  LeastOf(S) = a
<1>1. LeastOf(S) = CHOOSE c \in S : \A d \in S : c <= d
  BY DEF LeastOf
<1>2. LeastOf(S) \in S /\ \A d \in S : LeastOf(S) <= d
  BY <1>1
<1>3. PICK b : b = LeastOf(S)
  OBVIOUS
<1>4. b <= a /\ a <= b /\ a \in Int /\ b \in Int
  <2>1. b \in S /\ \A d \in S : b <= d
    BY <1>2, <1>3, Zenon
  <2>2. b <= a /\ a <= b
    BY <2>1, Zenon
  <2>3. \A s \in S : s \in Int
    OBVIOUS
  <2> QED BY <2>1, <2>2, <2>3
<1> QED BY <1>3, <1>4

\* A cell whose owners are all in the rows has them there since the same level,
\* however the rows go on.
LEMMA SinceKept ==
  ASSUME NEW newRows, NEW rows, NEW l, NEW chunk, NEW n, Follows(newRows, rows, l, chunk, n),
         NEW starts, NEW newStarts, l \in Range(starts),
         Range(starts) \subseteq Range(newStarts),
         \A s \in Range(starts) : s \in 0 .. l,
         \A s \in Range(newStarts) : s \in Nat /\ (s \in Range(starts) \/ s > l),
         NEW m, NEW c, HereBy(m, rows, c, l)
  PROVE  /\ Since(m, newRows, newStarts, c) = Since(m, rows, starts, c)
         /\ Since(m, rows, starts, c) \in 0 .. l
<1>1. l \in Nat /\ n \in Nat /\ \A j \in 1 .. l : newRows[j] = rows[j]
  BY DEF Follows
<1>2. PICK old, new :
        /\ old = {s \in Range(starts) : HereBy(m, rows, c, s)}
        /\ new = {s \in Range(newStarts) : HereBy(m, newRows, c, s)}
  OBVIOUS
<1>3. old \subseteq Nat /\ l \in old /\ new \subseteq Nat
  BY <1>1, <1>2
<1>4. PICK a \in old : \A s \in old : a <= s
  BY <1>3, LeastNatural
<1>5. \A s \in 0 .. l : HereBy(m, rows, c, s) <=> HereBy(m, newRows, c, s)
  <2> TAKE s \in 0 .. l
  <2>1. \A j \in 1 .. s : newRows[j] = rows[j]
    BY <1>1
  <2> QED BY <2>1 DEF HereBy
<1>6. a \in new /\ a \in 0 .. l
  BY <1>2, <1>5
<1>7. \A s \in new : a <= s
  <2> TAKE s \in new
  <2>1. CASE s \in Range(starts)
    BY <1>2, <1>4, <1>5, <2>1
  <2>2. CASE s > l
    BY <1>1, <1>3, <1>6, <2>2
  <2> QED BY <1>2, <2>1, <2>2
<1>8. LeastOf(old) = a /\ LeastOf(new) = a
  BY <1>3, <1>4, <1>6, <1>7, LeastIs
<1> QED BY <1>2, <1>6, <1>8 DEF Since

\* A cell with an owner in the last level has its owners there since its end.
LEMMA SinceNew ==
  ASSUME NEW newRows, NEW rows, NEW l, NEW chunk, NEW n, Follows(newRows, rows, l, chunk, n),
         NEW starts, NEW newStarts, l + n \in Range(newStarts),
         \A s \in Range(newStarts) : s \in 0 .. l \/ s = l + n,
         NEW m, NEW c, HereBy(m, newRows, c, l + n),
         NEW f \in IncomingFaces(m, c), \A j \in 1 .. l : rows[j] # m.lower[f]
  PROVE  Since(m, newRows, newStarts, c) = l + n
<1>1. l \in Nat /\ n \in Nat /\ \A j \in 1 .. l : newRows[j] = rows[j]
  BY DEF Follows
<1>2. PICK new : new = {s \in Range(newStarts) : HereBy(m, newRows, c, s)}
  OBVIOUS
<1>3. new \subseteq Nat /\ l + n \in new
  BY <1>1, <1>2
<1>4. \A s \in new : s = l + n
  <2> SUFFICES ASSUME NEW s \in 0 .. l, HereBy(m, newRows, c, s)
               PROVE  FALSE
    BY <1>2
  <2>1. PICK j \in 1 .. s : newRows[j] = m.lower[f]
    BY DEF HereBy
  <2>2. j \in 1 .. l
    BY <1>1
  <2> QED BY <1>1, <2>1, <2>2
<1>5. LeastOf(new) = l + n
  BY <1>1, <1>3, <1>4, LeastIs
<1> QED BY <1>2, <1>5 DEF Since

\* When no owner of a cell is missing from the rows, the rows hold them all.
LEMMA NothingMissing ==
  ASSUME NEW m, NEW rows \in Seq(Cells), NEW c,
         {f \in IncomingFaces(m, c) : m.lower[f] \notin Range(rows)} = {}
  PROVE  HereBy(m, rows, c, Len(rows))
<1>1. DOMAIN rows = 1 .. Len(rows)
  BY LenProperties
<1> QED BY <1>1 DEF HereBy, Range

\* From row f on there has been no fall in the indices, or one and the sweep, now
\* at a, has not come to cell c since.
Waits(rows, f, to, a, c) ==
  \/ Descents(rows, f, to) = {}
  \/ a <= c /\ AtMostOne(Descents(rows, f, to))

\* Before a cell c that waits there has been no fall in the indices since it
\* became ready, or one and the sweep has not come to c since.
SweepInv ==
  Builder = "continuing" =>
    /\ newToOld # <<>> => anchor = newToOld[Len(newToOld)] + 1
    /\ status = "building" =>
         \A c \in ready :
           Waits(newToOld, Since(mesh, newToOld, levelStarts, c), Len(newToOld), anchor, c)
    /\ \A i \in 1 .. Len(newToOld) :
         AtMostOne(Descents(newToOld, Since(mesh, newToOld, levelStarts, newToOld[i]), i))

\* The waiting cells and the rows after one more chunk of the sweep.
LEMMA SweepGoesOn ==
  ASSUME NEW newRows, NEW rows, NEW l, NEW chunk, NEW n \in Nat \ {0},
         Follows(newRows, rows, l, chunk, n),
         NEW a \in Int, l # 0 => a = rows[l] + 1,
         \A i, j \in 1 .. n : i < j => Before(a, chunk[i], chunk[j]),
         NEW S \in SUBSET Cells, \A k \in 1 .. n : chunk[k] \in S,
         NEW left \in SUBSET S, \A c \in left : Before(a, chunk[n], c),
         NEW from, \A c \in S : from[c] \in Nat,
         \A c \in S : Waits(rows, from[c], l, a, c)
  PROVE  /\ \A k \in 1 .. n : AtMostOne(Descents(newRows, from[chunk[k]], l + k))
         /\ \A c \in left : Waits(newRows, from[c], l + n, chunk[n] + 1, c)
<1> DEFINE Old(c) == Descents(rows, from[c], l)
           New(c, k) == Descents(newRows, from[c], l + k)
<1>1. /\ \A k \in 1 .. n : \A f \in Nat :
           chunk[k] >= a => Descents(newRows, f, l + k) \subseteq Descents(rows, f, l)
      /\ \A k \in 1 .. n : \A f \in Nat :
           Descents(rows, f, l) = {} => AtMostOne(Descents(newRows, f, l + k))
  BY SweepDescents
<1>2. ASSUME NEW c \in S, NEW k \in 1 .. n
      PROVE  /\ chunk[k] >= a => New(c, k) \subseteq Old(c)
             /\ Old(c) = {} => AtMostOne(New(c, k))
  BY <1>1
<1>3. \A c \in S : Old(c) = {} \/ (a <= c /\ AtMostOne(Old(c)))
  BY DEF Waits
<1> HIDE DEF Old, New
<1>4. \A D, E : D \subseteq E /\ AtMostOne(E) => AtMostOne(D)
  BY DEF AtMostOne
<1>5. \A c \in S : c \in Int
  BY CellsAreIntegers
<1>6. ASSUME NEW k \in 1 .. n
      PROVE  AtMostOne(New(chunk[k], k))
  <2>1. PICK c \in S : c = chunk[k]
    OBVIOUS
  <2>2. CASE Old(c) = {}
    BY <1>2, <2>1, <2>2
  <2>3. CASE a <= c /\ AtMostOne(Old(c))
    <3>1. chunk[k] >= a
      BY <1>5, <2>1, <2>3
    <3>2. New(c, k) \subseteq Old(c)
      BY <1>2, <3>1
    <3> QED BY <1>4, <2>1, <2>3, <3>2
  <2> QED BY <1>3, <2>2, <2>3
<1>7. ASSUME NEW c \in left
      PROVE  New(c, n) = {} \/ (chunk[n] + 1 <= c /\ AtMostOne(New(c, n)))
  <2>1. n \in 1 .. n /\ c \in S
    OBVIOUS
  <2>2. PICK y \in S : y = chunk[n]
    BY <2>1
  <2>3. Before(a, y, c) /\ y \in Int /\ c \in Int
    BY <1>5, <2>1, <2>2
  <2>4. CASE Old(c) = {}
    <3>1. CASE y >= a
      BY <1>2, <2>1, <2>2, <2>4, <3>1
    <3>2. CASE y < a
      <4>1. y + 1 <= c
        BY <2>3, <3>2 DEF Before
      <4>2. AtMostOne(New(c, n))
        BY <1>2, <2>1, <2>4
      <4> QED BY <2>2, <4>1, <4>2
    <3> QED BY <2>3, <3>1, <3>2
  <2>5. CASE a <= c /\ AtMostOne(Old(c))
    <3>1. y >= a /\ y + 1 <= c
      BY <2>3, <2>5 DEF Before
    <3>2. New(c, n) \subseteq Old(c)
      BY <1>2, <2>1, <2>2, <3>1
    <3> QED BY <1>4, <2>2, <2>5, <3>1, <3>2
  <2> QED BY <1>3, <2>1, <2>4, <2>5
<1> QED BY <1>6, <1>7 DEF New, Waits

\* A chunk of the continuing builder goes on with the sweep.
LEMMA ContinuingSweep ==
  ASSUME IInv, LevelsInv, SweepInv, ContinuingStep
  PROVE  SweepInv'
<1>1. PICK current :
        /\ current = Take(CyclicFrom(ready, anchor), Width)
        /\ Builder = "continuing"
        /\ EmitFromReady(current, current, OneLevel(current))
        /\ anchor' = current[Len(current)] + 1
  BY DEF ContinuingStep
<1>2. PICK rows, l, n, starts, m, a, S :
        /\ rows = newToOld /\ l = Len(newToOld) /\ n = Len(current)
        /\ starts = levelStarts /\ m = mesh /\ a = anchor /\ S = ready
  OBVIOUS
<1>3. PICK newRows, newStarts :
        newRows = newToOld \o current /\ newStarts = levelStarts \o OneLevel(current)
  OBVIOUS
<1>4. /\ S # {} /\ status = "building" /\ status' = "building"
      /\ newToOld' = newRows /\ levelStarts' = newStarts /\ mesh' = m
      /\ ready' = (S \ Range(current)) \cup Released(current)
      /\ Emit(current, OneLevel(current), ready')
  BY <1>1, <1>2, <1>3 DEF EmitFromReady, Emit
<1>5. /\ S \in SUBSET Cells /\ a \in Int /\ Width \in Nat \ {0}
      /\ FrontierOK /\ rows \in Seq(Cells) /\ starts \in Seq(Nat)
  <2>1. 0 .. NCells \subseteq Nat
    BY NCellsAssumption
  <2>2. starts \in Seq(Nat)
    BY <1>2, <2>1, SeqMonotonic DEF IInv
  <2> QED BY <1>1, <1>2, <1>4, <2>2, ControlFacts DEF IInv, FrontierOK
<1>6. /\ current \in Seq(Cells) /\ IsInjective(current) /\ n \in Nat \ {0}
      /\ Range(current) \subseteq S
      /\ DOMAIN current = 1 .. n
  <2>1. /\ CyclicFrom(S, a) \in Seq(S) /\ IsInjective(CyclicFrom(S, a))
        /\ Range(CyclicFrom(S, a)) = S
    BY <1>5, CyclicListing
  <2>2. current \in Seq(Cells) /\ IsInjective(current) /\ n \in Nat \ {0}
        /\ Range(current) \subseteq S
    BY <1>1, <1>2, <1>4, <1>5, <2>1, TakeOfListing
  <2> QED BY <1>2, <2>2, LenProperties
<1>7. Follows(newRows, rows, l, current, n) /\ l \in Nat /\ Len(newRows) = l + n
  BY <1>2, <1>3, <1>5, <1>6, RowsFollow, ConcatProperties DEF Follows
<1>8. /\ \A i, j \in 1 .. n : i < j => Before(a, current[i], current[j])
      /\ \A c \in S \ Range(current) : Before(a, current[n], c)
  BY <1>1, <1>2, <1>4, <1>5, SweepOrder
<1>9. /\ l \in Range(starts) /\ (\A s \in Range(starts) : s \in 0 .. l)
      /\ Range(starts) \subseteq Range(newStarts)
      /\ l + n \in Range(newStarts)
      /\ \A s \in Range(newStarts) : s \in Nat /\ (s \in Range(starts) \/ s = l + n)
  <2>1. LevelsEnd(rows, starts)
    BY <1>2, <1>4 DEF LevelsInv
  <2>2. PICK cuts : cuts = OneLevel(current)
    OBVIOUS
  <2>3. cuts = <<l + n>> /\ Range(cuts) = {l + n}
    <3>1. cuts = <<l + n>>
      BY <1>2, <2>2 DEF OneLevel
    <3> QED BY <3>1 DEF Range
  <2>4. cuts \in Seq(Nat)
    BY <1>6, <1>7, <2>3
  <2>5. Range(newStarts) = Range(starts) \cup {l + n}
    <3>1. Range(starts \o cuts) = Range(starts) \cup Range(cuts)
      BY <1>5, <2>4, RangeOfConcat
    <3> QED BY <1>2, <1>3, <2>2, <2>3, <3>1, Zenon
  <2>6. l \in Range(starts) /\ \A s \in Range(starts) : s \in 0 .. l
    BY <1>2, <2>1 DEF LevelsEnd
  <2> QED BY <1>6, <1>7, <2>5, <2>6
<1>10. S = Free
  <2>1. active = <<>> /\ frontier = {} /\ Range(<<>>) = {}
    BY <1>1 DEF IInv, Range
  <2> QED BY <1>2, <1>4, <2>1 DEF IInv
<1>11. \A c \in Emitted \cup S : HereBy(m, rows, c, l)
  <2>1. \A c \in Emitted \cup S :
          {f \in IncomingFaces(m, c) : m.lower[f] \notin Range(rows)} = {}
    BY <1>2, <1>5, <1>10 DEF FrontierOK, Settled, Free, Pending, Emitted
  <2> QED BY <1>2, <1>5, <2>1, NothingMissing
<1>12. \A c \in Emitted \cup S :
         /\ Since(m, newRows, newStarts, c) = Since(m, rows, starts, c)
         /\ Since(m, rows, starts, c) \in 0 .. l
  <2>1. \A s \in Range(newStarts) : s \in Nat /\ (s \in Range(starts) \/ s > l)
    BY <1>6, <1>7, <1>9
  <2> QED BY <1>7, <1>9, <1>11, <2>1, SinceKept
<1>13. \A c \in Released(current) : Since(m, newRows, newStarts, c) = l + n
  <2> TAKE c \in Released(current)
  <2>1. FrontierOK' /\ c \in Free'
    BY <1>4, <1>5, <1>6, <1>10, EmitFrontier
  <2>2. newRows \in Seq(Cells)
        /\ {f \in IncomingFaces(m, c) : m.lower[f] \notin Range(newRows)} = {}
    BY <1>4, <2>1 DEF FrontierOK, Free, Pending, Emitted
  <2>3. HereBy(m, newRows, c, l + n)
    BY <1>7, <2>2, NothingMissing
  <2>4. PICK f \in IncomingFaces(m, c) : m.lower[f] \in Range(current)
    BY <1>2 DEF Released, Decrements, OwnedFaces
  <2>5. \A j \in 1 .. l : rows[j] # m.lower[f]
    <3>1. m.lower[f] \notin Emitted
      BY <1>6, <1>10, <2>4 DEF Free
    <3>2. DOMAIN rows = 1 .. l
      BY <1>2, <1>5, LenProperties
    <3> QED BY <1>2, <3>1, <3>2 DEF Emitted, Range
  <2>6. \A s \in Range(newStarts) : s \in 0 .. l \/ s = l + n
    BY <1>9
  <2> QED BY <1>7, <1>9, <2>3, <2>4, <2>5, <2>6, SinceNew
<1>14. PICK from : from = [c \in Cells |-> Since(m, rows, starts, c)]
  OBVIOUS
<1>15. /\ l # 0 => a = rows[l] + 1
       /\ \A c \in S : Waits(rows, from[c], l, a, c)
       /\ \A i \in 1 .. l : AtMostOne(Descents(rows, from[rows[i]], i))
  <2>1. newToOld # <<>> => anchor = newToOld[Len(newToOld)] + 1
    BY <1>1 DEF SweepInv
  <2>2. l # 0 => newToOld # <<>>
    BY <1>2, <1>5, EmptySeq
  <2>3. \A c \in Cells : from[c] = Since(m, rows, starts, c)
    BY <1>14
  <2>4. \A i \in 1 .. l : rows[i] \in Cells
    BY <1>7 DEF Follows
  <2>5. \A c \in S : Waits(rows, Since(m, rows, starts, c), l, a, c)
    BY <1>1, <1>2, <1>4 DEF SweepInv
  <2>6. \A i \in 1 .. l : AtMostOne(Descents(rows, Since(m, rows, starts, rows[i]), i))
    BY <1>1, <1>2 DEF SweepInv
  <2> QED BY <1>2, <1>5, <2>1, <2>2, <2>3, <2>4, <2>5, <2>6
<1>16. /\ \A k \in 1 .. n : AtMostOne(Descents(newRows, from[current[k]], l + k))
       /\ \A c \in S \ Range(current) : Waits(newRows, from[c], l + n, current[n] + 1, c)
  <2>1. \A k \in 1 .. n : current[k] \in S
    BY <1>6 DEF Range
  <2>2. \A c \in S : from[c] \in Nat
    BY <1>5, <1>7, <1>12, <1>14
  <2>3. S \ Range(current) \in SUBSET S
    OBVIOUS
  <2>4. PICK left : left = S \ Range(current)
    OBVIOUS
  <2>5. /\ n \in Nat \ {0} /\ Follows(newRows, rows, l, current, n)
        /\ a \in Int /\ (l # 0 => a = rows[l] + 1)
        /\ (\A i, j \in 1 .. n : i < j => Before(a, current[i], current[j]))
        /\ S \in SUBSET Cells /\ left \in SUBSET S
        /\ \A c \in left : Before(a, current[n], c)
    BY <1>5, <1>6, <1>7, <1>8, <1>15, <2>4
  <2>6. \A c \in S : Waits(rows, from[c], l, a, c)
    BY <1>15
  <2>7. /\ \A k \in 1 .. n : AtMostOne(Descents(newRows, from[current[k]], l + k))
        /\ \A c \in left : Waits(newRows, from[c], l + n, current[n] + 1, c)
    BY <2>1, <2>2, <2>5, <2>6, SweepGoesOn
  <2> QED BY <2>4, <2>7
<1>17. \A i \in 1 .. l : \A f : Descents(newRows, f, i) = Descents(rows, f, i)
  BY <1>5, <1>7, <1>8, <1>15, SweepDescents
<1>18. ASSUME NEW c \in ready'
       PROVE  Waits(newRows, Since(m, newRows, newStarts, c), l + n, current[n] + 1, c)
  <2>1. CASE c \in S \ Range(current)
    <3>1. from[c] = Since(m, newRows, newStarts, c)
      BY <1>5, <1>12, <1>14, <2>1
    <3> QED BY <1>16, <2>1, <3>1
  <2>2. CASE c \in Released(current)
    <3>1. Descents(newRows, l + n, l + n) = {}
      BY <1>6, <1>7 DEF Descents
    <3> QED BY <1>13, <2>2, <3>1 DEF Waits
  <2> QED BY <1>4, <2>1, <2>2
<1>19. ASSUME NEW i \in 1 .. l + n
       PROVE  AtMostOne(Descents(newRows, Since(m, newRows, newStarts, newRows[i]), i))
  <2>1. CASE i \in 1 .. l
    <3>1. newRows[i] = rows[i] /\ rows[i] \in Cells
      BY <1>7, <2>1 DEF Follows
    <3>2. rows[i] \in Emitted
      <4>1. DOMAIN rows = 1 .. l
        BY <1>2, <1>5, LenProperties
      <4> QED BY <1>2, <2>1, <4>1 DEF Emitted, Range
    <3>3. Since(m, newRows, newStarts, newRows[i]) = from[rows[i]]
      BY <1>12, <1>14, <3>1, <3>2
    <3> QED BY <1>15, <1>17, <2>1, <3>3
  <2>2. CASE i \notin 1 .. l
    <3>1. PICK k \in 1 .. n : i = l + k
      <4>1. i - l \in 1 .. n /\ i = l + (i - l)
        BY <1>6, <1>7, <2>2
      <4> QED BY <4>1
    <3>2. newRows[i] = current[k] /\ current[k] \in S /\ current[k] \in Cells
      BY <1>5, <1>6, <1>7, <3>1 DEF Follows, Range
    <3>3. Since(m, newRows, newStarts, newRows[i]) = from[current[k]]
      BY <1>12, <1>14, <3>2
    <3> QED BY <1>16, <3>1, <3>3
  <2> QED BY <2>1, <2>2
<1>20. anchor' = newRows[l + n] + 1 /\ current[n] + 1 = anchor' /\ Len(newToOld') = l + n
  <2>1. n \in 1 .. n
    BY <1>6
  <2>2. newRows[l + n] = current[n]
    BY <1>7, <2>1 DEF Follows
  <2> QED BY <1>1, <1>2, <1>4, <1>7, <2>2
<1>21. \A c \in ready' :
         Waits(newToOld', Since(mesh', newToOld', levelStarts', c), Len(newToOld'), anchor', c)
  BY <1>4, <1>18, <1>20
<1>22. \A i \in 1 .. Len(newToOld') :
         AtMostOne(Descents(newToOld', Since(mesh', newToOld', levelStarts', newToOld'[i]), i))
  BY <1>4, <1>19, <1>20
<1>23. anchor' = newToOld'[Len(newToOld')] + 1
  BY <1>4, <1>20
<1> QED BY <1>21, <1>22, <1>23 DEF SweepInv, Since, Waits, Descents, HereBy, AtMostOne,
       LeastOf, IncomingFaces, Faces

\* The other steps change neither rows nor sweep.
LEMMA NextSweep ==
  IInv /\ LevelsInv /\ SweepInv /\ [Next]_vars => SweepInv'
<1> SUFFICES ASSUME IInv, LevelsInv, SweepInv, [Next]_vars PROVE SweepInv'
  OBVIOUS
<1>1. CASE ContinuingStep
  BY <1>1, ContinuingSweep
<1>2. CASE Start
  <2>1. newToOld' = <<>> /\ levelStarts' = <<0>>
    BY <1>2 DEF Start, Begin, IInv, FrontierOK
  <2>2. Len(<<>>) = 0 /\ 1 .. 0 = {} /\ 1 .. 0 - 1 = {}
    OBVIOUS
  <2>3. \A f : Descents(<<>>, f, 0) = {}
    BY <2>2 DEF Descents
  <2>4. newToOld' = <<>> /\ Len(newToOld') = 0 /\ 1 .. Len(newToOld') = {}
    BY <2>1, <2>2
  <2>5. \A c : Descents(newToOld', Since(mesh', newToOld', levelStarts', c), Len(newToOld')) = {}
    BY <2>1, <2>2, <2>3
  <2> QED BY <2>4, <2>5 DEF SweepInv, Waits
<1>3. CASE RejectArguments \/ Finish \/ Fail \/ UNCHANGED vars
  <2>1. /\ UNCHANGED <<newToOld, levelStarts, mesh, ready, anchor>> /\ Builder' = Builder
        /\ status' = "building" => status = "building"
    BY <1>3 DEF RejectArguments, Refuse, Finish, Return, Fail, NotCovered, vars, frontierVars,
                Builder
  <2> QED BY <2>1 DEF SweepInv
<1>4. CASE \/ ReleaseDiagnosticStep \/ OrientedStep \/ SlidingWindowStep \/ AdaptiveGapStep
           \/ ReadyFractionStep \/ UnboundedStep \/ SlicedStep \/ FreezeFrontier
           \/ FrontierContinuingStep
  <2>1. Builder # "continuing" /\ request' = request
    BY <1>4
    DEF ReleaseDiagnosticStep, OrientedStep, SlidingWindowStep, AdaptiveGapStep,
        ReadyFractionStep, UnboundedStep, SlicedStep, FreezeFrontier, FrontierContinuingStep,
        EmitFromReady, Emit
  <2> QED BY <2>1 DEF SweepInv, Builder
<1> QED BY <1>1, <1>2, <1>3, <1>4 DEF Next

\* Without rows there is no sweep yet.
LEMMA SweepBegins == Init => SweepInv
<1> SUFFICES ASSUME Init PROVE SweepInv
  OBVIOUS
<1>1. newToOld = <<>> /\ status = "called" /\ 1 .. Len(newToOld) = {}
  BY DEF Init, FrontierInit
<1> QED BY <1>1 DEF SweepInv

\* No cell of the continuing builder's rows has waited for more than one fall.
LEMMA SweepWaits ==
  ASSUME IInv, SweepInv
  PROVE  WaitsOneSweep
<1> SUFFICES ASSUME Builder = "continuing", NEW i \in DOMAIN newToOld
             PROVE  Cardinality({j \in 1 .. i - 1 : /\ j >= AvailableFrom(i)
                                   /\ newToOld[j] > newToOld[j + 1]}) <= 1
  BY DEF WaitsOneSweep
<1>1. DOMAIN newToOld = 1 .. Len(newToOld)
  BY LenProperties DEF IInv, FrontierOK
<1>2. AvailableFrom(i) = Since(mesh, newToOld, levelStarts, newToOld[i])
  BY DEF AvailableFrom, Since, HereBy
<1>3. PICK D : D = Descents(newToOld, AvailableFrom(i), i)
  OBVIOUS
<1>4. AtMostOne(D)
  BY <1>1, <1>2, <1>3 DEF SweepInv
<1>5. PICK x : D \subseteq {x}
  BY <1>4 DEF AtMostOne
<1>6. D = {} \/ D = {x}
  BY <1>5
<1>7. Cardinality({}) = 0 /\ Cardinality({x}) = 1
  BY FS_EmptySet, FS_Singleton
<1>8. Cardinality(D) <= 1
  BY <1>6, <1>7
<1> QED BY <1>3, <1>8 DEF Descents

-----------------------------------------------------------------------------
(* The builders that cut the natural frontiers. *)

\* where these builders start a level, after x rows of the same depth
Boundary(builder, w, x) == IF builder = "unbounded" THEN x = 0 ELSE x % w = 0

\* Adding to a multiple of w leaves the remainder of what was added.
LEMMA RemainderAdds ==
  ASSUME NEW w \in Nat \ {0}, NEW e \in Nat, e % w = 0, NEW x \in Nat
  PROVE  /\ x < w => (e + x) % w = x
         /\ x = w => (e + x) % w = 0
<1>1. PICK r \in Int, q \in Int, s \in Int : r = (e + x) % w /\ s = q * w /\ e + x = s + r
  <2>1. /\ (e + x) % w \in Int /\ (e + x) \div w \in Int
        /\ ((e + x) \div w) * w \in Int
        /\ e + x = ((e + x) \div w) * w + ((e + x) % w)
    OBVIOUS
  <2> QED BY <2>1
<1>2. r >= 0 /\ r < w
  BY <1>1
<1>3. PICK p \in Int, t \in Int : t = p * w /\ e = t
  <2>1. (e \div w) \in Int /\ (e \div w) * w \in Int /\ e = (e \div w) * w + (e % w)
    OBVIOUS
  <2> QED BY <2>1
<1>4. x - r = (q - p) * w
  <2>1. (q - p) * w = s - t
    BY <1>1, <1>3
  <2> QED BY <1>1, <1>3, <2>1
<1>5. ASSUME x < w PROVE r = x
  <2>1. PICK d \in Int : d = q - p
    OBVIOUS
  <2>2. d * w < w /\ d * w > 0 - w
    BY <1>2, <1>4, <1>5, <2>1
  <2>3. d = 0
    <3>1. d >= 1 => d * w >= w
      OBVIOUS
    <3>2. d <= 0 - 1 => d * w <= 0 - w
      OBVIOUS
    <3> QED BY <2>2, <3>1, <3>2
  <2> QED BY <1>4, <2>1, <2>3
<1>6. ASSUME x = w PROVE r = 0
  <2>1. PICK d \in Int : d = q - p
    OBVIOUS
  <2>2. d * w <= w /\ d * w > 0
    BY <1>2, <1>4, <1>6, <2>1
  <2>3. d = 1
    <3>1. d >= 2 => d * w >= w + w
      OBVIOUS
    <3>2. d <= 0 => d * w <= 0
      OBVIOUS
    <3> QED BY <2>2, <3>1, <3>2
  <2> QED BY <1>4, <1>6, <2>1, <2>3
<1> QED BY <1>1, <1>5, <1>6

\* how many of the first k rows hold a cell of depth d
CountDepth(rows, g, k, d) == Cardinality({j \in 1 .. k : g[rows[j]] = d})

\* Rows of depth d that follow are counted on.
LEMMA CountsOn ==
  ASSUME NEW newRows, NEW rows, NEW l, NEW chunk, NEW n, Follows(newRows, rows, l, chunk, n),
         NEW g, NEW d, \A k \in 1 .. n : g[chunk[k]] = d
  PROVE  /\ \A i \in 0 .. l : \A x :
              /\ CountDepth(newRows, g, i, x) = CountDepth(rows, g, i, x)
              /\ CountDepth(rows, g, i, x) \in Nat
         /\ \A k \in 0 .. n : CountDepth(newRows, g, l + k, d) = CountDepth(rows, g, l, d) + k
<1>1. /\ l \in Nat /\ n \in Nat /\ (\A j \in 1 .. l : newRows[j] = rows[j])
      /\ \A k \in 1 .. n : newRows[l + k] = chunk[k]
  BY DEF Follows
<1>2. ASSUME NEW i \in 0 .. l, NEW x
      PROVE  /\ CountDepth(newRows, g, i, x) = CountDepth(rows, g, i, x)
             /\ CountDepth(rows, g, i, x) \in Nat
  <2>1. {j \in 1 .. i : g[newRows[j]] = x} = {j \in 1 .. i : g[rows[j]] = x}
    <3>1. \A j \in 1 .. i : newRows[j] = rows[j]
      BY <1>1
    <3> QED BY <3>1
  <2>2. IsFiniteSet(1 .. i)
    BY <1>1, FS_Interval
  <2>3. {j \in 1 .. i : g[rows[j]] = x} \subseteq 1 .. i
    OBVIOUS
  <2> QED BY <2>1, <2>2, <2>3, FS_Subset, FS_CardinalityType DEF CountDepth
<1>3. ASSUME NEW k \in 0 .. n
      PROVE  CountDepth(newRows, g, l + k, d) = CountDepth(rows, g, l, d) + k
  <2>1. PICK A, B, C :
          /\ A = {j \in 1 .. l : g[rows[j]] = d} /\ B = l + 1 .. l + k
          /\ C = {j \in 1 .. l + k : g[newRows[j]] = d}
    OBVIOUS
  <2>2. \A j \in l + 1 .. l + k : g[newRows[j]] = d
    <3> TAKE j \in l + 1 .. l + k
    <3>1. j - l \in 1 .. n /\ j = l + (j - l)
      BY <1>1
    <3> QED BY <1>1, <3>1
  <2>3. C = A \cup B
    <3>1. \A j \in 1 .. l + k : j \in 1 .. l \/ j \in l + 1 .. l + k
      BY <1>1
    <3>2. (\A j \in 1 .. l : j \in 1 .. l + k) /\ \A j \in l + 1 .. l + k : j \in 1 .. l + k
      BY <1>1
    <3> QED BY <1>1, <2>1, <2>2, <3>1, <3>2
  <2>4. A \cap B = {}
    BY <1>1, <2>1
  <2>5. IsFiniteSet(A) /\ Cardinality(A) \in Nat
    <3>1. IsFiniteSet(1 .. l) /\ A \subseteq 1 .. l
      BY <1>1, <2>1, FS_Interval
    <3> QED BY <3>1, FS_Subset, FS_CardinalityType
  <2>6. IsFiniteSet(B) /\ Cardinality(B) = k
    <3>1. l + 1 \in Int /\ l + k \in Int
      BY <1>1
    <3>2. /\ IsFiniteSet(l + 1 .. l + k)
          /\ Cardinality(l + 1 .. l + k)
               = IF l + 1 > l + k THEN 0 ELSE (l + k) - (l + 1) + 1
      BY <3>1, FS_Interval
    <3>3. (IF l + 1 > l + k THEN 0 ELSE (l + k) - (l + 1) + 1) = k
      BY <1>1
    <3> QED BY <2>1, <3>2, <3>3
  <2>7. Cardinality(C) = Cardinality(A) + Cardinality(B) - Cardinality({})
    BY <2>3, <2>4, <2>5, <2>6, FS_Union
  <2>8. Cardinality(C) = Cardinality(A) + k
    BY <2>5, <2>6, <2>7, FS_EmptySet
  <2> QED BY <2>1, <2>8 DEF CountDepth
<1> QED BY <1>2, <1>3

\* cells of smaller depth first, those of the same depth by index
Sooner(g, x, y) == g[x] < g[y] \/ (g[x] = g[y] /\ x < y)

OrderedByDepth(rows, g, l) ==
  \A i, j \in 1 .. l : i < j => Sooner(g, rows[i], rows[j])

\* a level starts before row i if and only if the builder's rule says so
LevelsAt(rows, g, l, starts, builder, w) ==
  \A i \in 1 .. l :
    i - 1 \in Range(starts) <=> Boundary(builder, w, CountDepth(rows, g, i - 1, g[rows[i]]))

\* An ascending list of one depth, none less than that of the rows, goes on in
\* the order.
LEMMA OrderGoesOn ==
  ASSUME NEW newRows, NEW rows, NEW l, NEW chunk, NEW n, Follows(newRows, rows, l, chunk, n),
         NEW g, NEW d, \A k \in 1 .. n : g[chunk[k]] = d,
         \A i, j \in 1 .. n : i < j => chunk[i] < chunk[j],
         \A j \in 1 .. l : \A k \in 1 .. n : Sooner(g, rows[j], chunk[k]),
         OrderedByDepth(rows, g, l)
  PROVE  OrderedByDepth(newRows, g, l + n)
<1>1. /\ l \in Nat /\ n \in Nat /\ (\A j \in 1 .. l : newRows[j] = rows[j])
      /\ \A k \in 1 .. n : newRows[l + k] = chunk[k]
  BY DEF Follows
<1>2. \A i \in 1 .. l + n : i \in 1 .. l \/ \E k \in 1 .. n : i = l + k
  <2> TAKE i \in 1 .. l + n
  <2>1. CASE i <= l
    BY <1>1, <2>1
  <2>2. CASE i > l
    <3>1. i - l \in 1 .. n /\ i = l + (i - l)
      BY <1>1, <2>2
    <3> QED BY <3>1
  <2> QED BY <1>1, <2>1, <2>2
<1>3. SUFFICES ASSUME NEW i \in 1 .. l + n, NEW j \in 1 .. l + n, i < j
               PROVE  Sooner(g, newRows[i], newRows[j])
  BY DEF OrderedByDepth
<1>4. CASE i \in 1 .. l /\ j \in 1 .. l
  BY <1>1, <1>3, <1>4 DEF OrderedByDepth
<1>5. ASSUME NEW k \in 1 .. n, j = l + k, i \in 1 .. l
      PROVE  Sooner(g, newRows[i], newRows[j])
  BY <1>1, <1>5
<1>6. ASSUME NEW h \in 1 .. n, NEW k \in 1 .. n, i = l + h, j = l + k
      PROVE  Sooner(g, newRows[i], newRows[j])
  <2>1. h < k
    BY <1>1, <1>3, <1>6
  <2>2. Sooner(g, chunk[h], chunk[k])
    BY <2>1 DEF Sooner
  <2> QED BY <1>1, <1>6, <2>2
<1>7. i \in 1 .. l \/ j \notin 1 .. l
  BY <1>1, <1>3
<1> QED BY <1>2, <1>4, <1>5, <1>6, <1>7

\* Levels cut by the rule out of rows of one depth that follow the rows.
LEMMA LevelsGoOn ==
  ASSUME NEW newRows, NEW rows, NEW l, NEW chunk, NEW n, Follows(newRows, rows, l, chunk, n),
         NEW g, NEW d, \A k \in 1 .. n : g[chunk[k]] = d,
         NEW starts, NEW newStarts, NEW cuts,
         l \in Range(starts), \A s \in Range(starts) : s \in 0 .. l,
         Range(newStarts) = Range(starts) \cup cuts, \A s \in cuts : s \in l + 1 .. l + n,
         NEW builder, NEW w, Boundary(builder, w, CountDepth(rows, g, l, d)),
         \A k \in 1 .. n - 1 :
           l + k \in cuts <=> Boundary(builder, w, CountDepth(rows, g, l, d) + k),
         LevelsAt(rows, g, l, starts, builder, w)
  PROVE  LevelsAt(newRows, g, l + n, newStarts, builder, w)
<1>1. /\ l \in Nat /\ n \in Nat /\ (\A j \in 1 .. l : newRows[j] = rows[j])
      /\ \A k \in 1 .. n : newRows[l + k] = chunk[k]
  BY DEF Follows
<1>2. /\ \A i \in 0 .. l : \A x :
           CountDepth(newRows, g, i, x) = CountDepth(rows, g, i, x)
      /\ \A k \in 0 .. n : CountDepth(newRows, g, l + k, d) = CountDepth(rows, g, l, d) + k
      /\ CountDepth(rows, g, l, d) \in Nat
  <2>1. l \in 0 .. l
    BY <1>1
  <2> QED BY <2>1, CountsOn
<1>3. SUFFICES ASSUME NEW i \in 1 .. l + n
               PROVE  i - 1 \in Range(newStarts)
                        <=> Boundary(builder, w, CountDepth(newRows, g, i - 1, g[newRows[i]]))
  BY DEF LevelsAt
<1>4. CASE i \in 1 .. l
  <2>1. i - 1 \in 0 .. l /\ i - 1 \notin l + 1 .. l + n
    BY <1>1, <1>4
  <2>2. i - 1 \in Range(newStarts) <=> i - 1 \in Range(starts)
    BY <2>1
  <2>3. CountDepth(newRows, g, i - 1, g[newRows[i]]) = CountDepth(rows, g, i - 1, g[rows[i]])
    BY <1>1, <1>2, <1>4, <2>1
  <2> QED BY <1>4, <2>2, <2>3 DEF LevelsAt
<1>5. CASE i \notin 1 .. l
  <2>1. PICK k \in 0 .. n - 1 : i - 1 = l + k /\ i = l + (k + 1) /\ k + 1 \in 1 .. n
    <3>1. i - 1 - l \in 0 .. n - 1 /\ i - 1 = l + (i - 1 - l)
          /\ i = l + ((i - 1 - l) + 1) /\ (i - 1 - l) + 1 \in 1 .. n
      BY <1>1, <1>5
    <3> QED BY <3>1
  <2>2. g[newRows[i]] = d
    BY <1>1, <2>1
  <2>3. CountDepth(newRows, g, i - 1, g[newRows[i]]) = CountDepth(rows, g, l, d) + k
    <3>1. k \in 0 .. n
      BY <1>1, <2>1
    <3> QED BY <1>2, <2>1, <2>2, <3>1
  <2>4. CASE k = 0
    <3>1. i - 1 = l /\ CountDepth(newRows, g, i - 1, g[newRows[i]]) = CountDepth(rows, g, l, d)
      BY <1>1, <1>2, <2>1, <2>3, <2>4
    <3> QED BY <3>1
  <2>5. CASE k # 0
    <3>1. k \in 1 .. n - 1 /\ l + k \notin 0 .. l
      BY <1>1, <2>1, <2>5
    <3>2. i - 1 \in Range(newStarts) <=> l + k \in cuts
      BY <2>1, <3>1
    <3> QED BY <2>3, <3>1, <3>2
  <2> QED BY <2>4, <2>5
<1> QED BY <1>4, <1>5

\* A multiple of w leaves no remainder, and only multiples of w leave none.
LEMMA MultipleOf ==
  ASSUME NEW w \in Nat \ {0}, NEW x \in Nat
  PROVE  x % w = 0 <=> \E q \in Nat : x = q * w
<1>1. PICK r \in Int, q \in Int, s \in Int : r = x % w /\ s = q * w /\ x = s + r
  <2>1. /\ x % w \in Int /\ x \div w \in Int /\ (x \div w) * w \in Int
        /\ x = (x \div w) * w + (x % w)
    OBVIOUS
  <2> QED BY <2>1
<1>2. r >= 0 /\ r < w
  BY <1>1
<1>3. q >= 0
  <2>1. q <= 0 - 1 => q * w <= 0 - w
    OBVIOUS
  <2> QED BY <1>1, <1>2, <2>1
<1>4. ASSUME r = 0 PROVE \E p \in Nat : x = p * w
  <2>1. q \in Nat /\ x = q * w
    BY <1>1, <1>3, <1>4
  <2> QED BY <2>1
<1>5. ASSUME NEW p \in Nat, x = p * w PROVE r = 0
  <2>1. r = (p - q) * w
    <3>1. (p - q) * w = p * w - q * w
      OBVIOUS
    <3>2. PICK t \in Int : t = p * w
      OBVIOUS
    <3>3. r = t - s /\ (p - q) * w = t - s
      <4>1. x = t
        BY <1>5, <3>2, Zenon
      <4>2. r = t - s
        <5>1. x = s + r
          BY <1>1, Zenon
        <5> QED BY <4>1, <5>1
      <4>3. (p - q) * w = t - s
        BY <1>1, <3>1, <3>2, Zenon
      <4> QED BY <4>2, <4>3
    <3> QED BY <3>3, Zenon
  <2>2. PICK d \in Int : d = p - q
    OBVIOUS
  <2>3. d >= 1 => d * w >= w
    OBVIOUS
  <2>4. d <= 0 - 1 => d * w <= 0 - w
    OBVIOUS
  <2>5. d = 0
    BY <1>2, <2>1, <2>2, <2>3, <2>4
  <2> QED BY <2>1, <2>2, <2>5
<1> QED BY <1>1, <1>4, <1>5

\* The slices of n rows end inside them at the multiples of the width.
LEMMA SlicesAtMultiples ==
  ASSUME newToOld \in Seq(Cells), Width \in Nat \ {0}, NEW n \in Nat \ {0},
         NEW k \in 1 .. n - 1
  PROVE  Len(newToOld) + k \in Range(Slices(n)) <=> k % Width = 0
<1> DEFINE count == (n + Width - 1) \div Width
           first == Len(newToOld)
           w == Width
<1>1. count \in Nat /\ n + w - 1 < (count + 1) * w
  BY Z3
<1>2. first \in Nat /\ w \in Nat \ {0} /\ k \in Nat /\ k >= 1 /\ k < n
  BY LenProperties
<1>3. Slices(n) = [j \in 1 .. count |-> first + AtMost(j * w, n)]
  BY DEF Slices
<1> HIDE DEF count, first, w
<1>4. Range(Slices(n)) = {first + AtMost(j * w, n) : j \in 1 .. count}
  BY <1>3 DEF Range
<1>5. ASSUME NEW j \in 1 .. count, first + k = first + AtMost(j * w, n)
      PROVE  j \in Nat /\ k = j * w
  <2>1. j * w \in Int
    BY <1>1, <1>2
  <2> QED BY <1>1, <1>2, <1>5, <2>1 DEF AtMost
<1>6. ASSUME NEW q \in Nat, k = q * w
      PROVE  q \in 1 .. count /\ AtMost(q * w, n) = k
  <2>1. q # 0
    BY <1>2, <1>6
  <2>2. q <= count
    <3>1. n <= count * w
      BY <1>1, <1>2
    <3>2. q * w < count * w
      BY <1>1, <1>2, <1>6, <3>1
    <3>3. q >= count => (q - count) * w >= 0
      BY <1>1, <1>2
    <3>4. (q - count) * w = q * w - count * w
      BY <1>1, <1>2
    <3> QED BY <1>1, <1>2, <3>2, <3>3, <3>4
  <2> QED BY <1>1, <1>2, <1>6, <2>1, <2>2 DEF AtMost
<1>7. first + k \in Range(Slices(n)) <=> \E q \in Nat : k = q * w
  BY <1>4, <1>5, <1>6
<1> QED BY <1>2, <1>7, MultipleOf DEF first, w

\* the builders that take depth by depth
Waves == Builder \in {"unbounded", "sliced", "frontierContinuing"}

\* The cells a chunk is taken from have depth d, those that wait for them are one
\* deeper; the rows are less deep, but for what was already taken of a frozen
\* frontier, which lies before the rest of it and fills whole levels.
WaveAt(d) ==
  /\ d \in Nat
  /\ \A c \in Now : Depth[c] = d
  /\ \A c \in Later : Depth[c] = d + 1
  /\ \A c \in Emitted :
       Depth[c] < d \/ (frontier # {} /\ Depth[c] = d /\ \A x \in frontier : c < x)
  /\ frontier # {} =>
       /\ Boundary(Builder, Width, CountDepth(newToOld, Depth, Len(newToOld), d))
       /\ \A x \in frontier : anchor <= x

WaveInv ==
  Waves =>
    /\ OrderedByDepth(newToOld, Depth, Len(newToOld))
    /\ LevelsAt(newToOld, Depth, Len(newToOld), levelStarts, Builder, Width)
    /\ status = "building" => \E d : WaveAt(d)

\* What a wave must take for the next state to be a wave again.
WaveChunk(chunk, cuts, d) ==
  LET l == Len(newToOld)
      n == Len(chunk)
      e == CountDepth(newToOld, Depth, l, d)
  IN  /\ \A i, j \in 1 .. n : i < j => chunk[i] < chunk[j]
      /\ Boundary(Builder, Width, e)
      /\ \A k \in 1 .. n - 1 : l + k \in Range(cuts) <=> Boundary(Builder, Width, e + k)
      /\ frontier = {} => Range(chunk) = Now
      /\ frontier' # {} => Boundary(Builder, Width, e + n)
      /\ \A x \in frontier' : anchor' <= x /\ \A c \in Range(chunk) : c < x

\* A chunk that is a wave, or the next part of one, leaves waves.
LEMMA WaveAppends ==
  ASSUME IInv, LevelsInv, WidthInv, WaveInv, Waves,
         NEW chunk, NEW cuts, Appends(chunk, cuts), NEW d, WaveAt(d),
         WaveChunk(chunk, cuts, d)
  PROVE  WaveInv'
<1>1. /\ status = "building" /\ status' = "building" /\ mesh' = mesh /\ request' = request
      /\ newToOld' = newToOld \o chunk /\ levelStarts' = levelStarts \o cuts
      /\ Emit(chunk, cuts, ready')
  BY DEF Appends, Emit
<1>2. /\ chunk \in Seq(Cells) /\ IsInjective(chunk) /\ Range(chunk) \subseteq Free
      /\ cuts \in Seq(Nat) /\ Len(chunk) \in Nat \ {0}
      /\ Ordering!IsCutting(cuts, Len(newToOld), Len(chunk))
      /\ Range(chunk) \subseteq Now
  BY DEF Appends, IsChunk, IsWide
<1>3. FrontierOK /\ DepthsFound /\ newToOld \in Seq(Cells) /\ levelStarts \in Seq(Nat)
  <2>1. 0 .. NCells \subseteq Nat
    BY NCellsAssumption
  <2> QED BY <1>1, <2>1, SeqMonotonic DEF IInv, FrontierOK, WidthInv
<1>4. /\ Depth' = Depth /\ Builder' = Builder /\ Width' = Width
  BY <1>1, SameDepths DEF Builder, Width
<1>5. PICK rows, l, n, g, starts, e, builder, w :
        /\ rows = newToOld /\ l = Len(newToOld) /\ n = Len(chunk) /\ g = Depth
        /\ starts = levelStarts /\ e = CountDepth(newToOld, Depth, Len(newToOld), d)
        /\ builder = Builder /\ w = Width
  OBVIOUS
<1>6. PICK newRows, newStarts :
        newRows = newToOld \o chunk /\ newStarts = levelStarts \o cuts
  OBVIOUS
<1>7. /\ Follows(newRows, rows, l, chunk, n) /\ l \in Nat /\ n \in Nat \ {0}
      /\ Len(newRows) = l + n
      /\ DOMAIN rows = 1 .. l /\ DOMAIN chunk = 1 .. n
  BY <1>2, <1>3, <1>5, <1>6, RowsFollow, ConcatProperties, LenProperties
<1>8. /\ l \in Range(starts) /\ (\A s \in Range(starts) : s \in 0 .. l)
      /\ Range(newStarts) = Range(starts) \cup Range(cuts)
      /\ \A s \in Range(cuts) : s \in l + 1 .. l + n
  <2>1. LevelsEnd(newToOld, levelStarts)
    BY <1>1 DEF LevelsInv
  <2>2. /\ Range(levelStarts \o cuts) = Range(levelStarts) \cup Range(cuts)
        /\ \A s \in Range(cuts) : s \in Len(newToOld) + 1 .. Len(newToOld) + Len(chunk)
    BY <1>2, <1>3, <2>1, CutsEndRows
  <2>3. l \in Range(starts) /\ \A s \in Range(starts) : s \in 0 .. l
    BY <1>5, <2>1 DEF LevelsEnd
  <2> QED BY <1>5, <1>6, <2>2, <2>3
<1>9. /\ (\A i, j \in 1 .. n : i < j => chunk[i] < chunk[j])
      /\ Boundary(builder, w, e)
      /\ (\A k \in 1 .. n - 1 : l + k \in Range(cuts) <=> Boundary(builder, w, e + k))
      /\ frontier = {} => Range(chunk) = Now
      /\ frontier' # {} => Boundary(builder, w, e + n)
      /\ \A x \in frontier' : anchor' <= x /\ \A c \in Range(chunk) : c < x
  BY <1>5 DEF WaveChunk
<1>10. /\ d \in Nat
       /\ (\A c \in Now : g[c] = d) /\ (\A c \in Later : g[c] = d + 1)
       /\ \A c \in Emitted :
            g[c] < d \/ (frontier # {} /\ g[c] = d /\ \A x \in frontier : c < x)
  BY <1>5 DEF WaveAt
<1>11. \A k \in 1 .. n : chunk[k] \in Now /\ g[chunk[k]] = d
  BY <1>2, <1>7, <1>10 DEF Range
<1>12. \A j \in 1 .. l : rows[j] \in Emitted
  BY <1>5, <1>7 DEF Emitted, Range
<1>13. OrderedByDepth(newRows, g, l + n)
  <2>1. \A j \in 1 .. l : \A k \in 1 .. n : Sooner(g, rows[j], chunk[k])
    <3> TAKE j \in 1 .. l
    <3> TAKE k \in 1 .. n
    <3>1. g[rows[j]] < d \/ (g[rows[j]] = d /\ frontier # {} /\ \A x \in frontier : rows[j] < x)
      BY <1>10, <1>12
    <3>2. frontier # {} => chunk[k] \in frontier
      BY <1>11 DEF Now
    <3> QED BY <1>11, <3>1, <3>2 DEF Sooner
  <2>2. OrderedByDepth(rows, g, l)
    BY <1>5 DEF WaveInv
  <2> QED BY <1>7, <1>9, <1>11, <2>1, <2>2, OrderGoesOn
<1>14. LevelsAt(newRows, g, l + n, newStarts, builder, w)
  <2>1. LevelsAt(rows, g, l, starts, builder, w)
    BY <1>5 DEF WaveInv
  <2>2. e = CountDepth(rows, g, l, d)
    BY <1>5
  <2>3. PICK cutSet : cutSet = Range(cuts)
    OBVIOUS
  <2>4. /\ l \in Range(starts) /\ (\A s \in Range(starts) : s \in 0 .. l)
        /\ Range(newStarts) = Range(starts) \cup cutSet
        /\ \A s \in cutSet : s \in l + 1 .. l + n
    BY <1>8, <2>3
  <2>5. /\ Boundary(builder, w, CountDepth(rows, g, l, d))
        /\ \A k \in 1 .. n - 1 :
             l + k \in cutSet <=> Boundary(builder, w, CountDepth(rows, g, l, d) + k)
    BY <1>9, <2>2, <2>3
  <2> QED BY <1>7, <1>11, <2>1, <2>4, <2>5, LevelsGoOn
<1>15. CountDepth(newRows, g, l + n, d) = e + n
  <2>1. n \in 0 .. n
    BY <1>7
  <2>2. Follows(newRows, rows, l, chunk, n) /\ \A k \in 1 .. n : g[chunk[k]] = d
    BY <1>7, <1>11
  <2>3. CountDepth(newRows, g, l + n, d) = CountDepth(rows, g, l, d) + n
    BY <2>1, <2>2, CountsOn
  <2> QED BY <1>5, <2>3
<1>16. Emitted' = Emitted \cup Range(chunk)
  BY <1>1, <1>2, <1>3, RangeOfConcat DEF Emitted
<1>17. \A c \in Emitted : g[c] \in Int /\ g[c] <= d
  <2>1. \A c \in Emitted : g[c] \in Int
    BY <1>3, <1>5 DEF DepthsFound
  <2> QED BY <1>10, <2>1
<1>18. \A c \in Released(chunk) : g[c] = d + 1
  <2> TAKE c \in Released(chunk)
  <2>1. /\ Owners(c) \subseteq Emitted \cup Range(chunk)
        /\ \A o \in Owners(c) : g[o] \in Nat /\ g[o] + 1 <= g[c]
        /\ \E o \in Owners(c) : g[o] + 1 = g[c]
        /\ \E o \in Owners(c) : o \in Range(chunk)
        /\ g[c] \in Nat
    BY <1>1, <1>2, <1>3, <1>5, EmitDepths
  <2>2. \A o \in Range(chunk) : g[o] = d
    BY <1>7, <1>11 DEF Range
  <2>3. d + 1 <= g[c]
    BY <2>1, <2>2
  <2>4. PICK o \in Owners(c) : g[o] + 1 = g[c]
    BY <2>1
  <2>5. g[o] <= d /\ g[o] \in Nat
    BY <1>10, <1>17, <2>1, <2>2
  <2> QED BY <1>10, <2>1, <2>3, <2>4, <2>5
<1>19. /\ ready' \cup Range(active') \cup frontier' = (Free \ Range(chunk)) \cup Released(chunk)
       /\ frontier' = frontier \ Range(chunk)
       /\ frontier # {} => ready' = ready \cup Released(chunk)
       /\ Range(active') = {} /\ Range(active) = {}
  <2>1. Builder # "slidingWindow"
    BY DEF Waves
  <2>2. active' = <<>> /\ active = <<>>
    BY <2>1 DEF Appends, IInv
  <2>3. Range(<<>>) = {}
    BY DEF Range
  <2>4. Range(active') = {} /\ Range(active) = {}
    BY <2>2, <2>3
  <2> QED BY <2>4 DEF Appends
<1>20. CASE frontier' = {}
  <2>1. Now' = ready' /\ Later' = {}
    BY <1>19, <1>20 DEF Now, Later
  <2>2. \A c \in ready' : g[c] = d + 1
    <3>1. CASE frontier = {}
      <4>1. Free = Now
        BY <1>1, <1>19, <3>1 DEF IInv, Now
      <4>2. ready' \subseteq Released(chunk)
        BY <1>9, <1>19, <3>1, <4>1
      <4> QED BY <1>18, <4>2
    <3>2. CASE frontier # {}
      <4>1. Later = ready
        BY <3>2 DEF Later
      <4> QED BY <1>10, <1>18, <1>19, <3>2, <4>1
    <3> QED BY <3>1, <3>2
  <2>3. \A c \in Emitted' : g[c] < d + 1
    <3>1. \A c \in Range(chunk) : g[c] = d
      BY <1>7, <1>11 DEF Range
    <3> QED BY <1>10, <1>16, <1>17, <3>1
  <2>4. WaveAt(d + 1)'
    BY <1>4, <1>5, <1>10, <1>20, <2>1, <2>2, <2>3 DEF WaveAt
  <2>5. /\ OrderedByDepth(newToOld', Depth', Len(newToOld'))
        /\ LevelsAt(newToOld', Depth', Len(newToOld'), levelStarts', Builder', Width')
    BY <1>1, <1>4, <1>5, <1>6, <1>7, <1>13, <1>14
  <2> QED BY <2>4, <2>5 DEF WaveInv
<1>21. CASE frontier' # {}
  <2>1. frontier # {} /\ Now = frontier /\ Later = ready /\ frontier' \subseteq frontier
    BY <1>19, <1>21 DEF Now, Later
  <2>2. Now' = frontier' /\ Later' = ready'
    BY <1>21 DEF Now, Later
  <2>3. \A c \in Now' : g[c] = d
    BY <1>10, <2>1, <2>2
  <2>4. \A c \in Later' : g[c] = d + 1
    BY <1>10, <1>18, <1>19, <2>1, <2>2
  <2>5. \A c \in Emitted' :
          g[c] < d \/ (frontier' # {} /\ g[c] = d /\ \A x \in frontier' : c < x)
    <3>1. \A c \in Range(chunk) : g[c] = d
      BY <1>7, <1>11 DEF Range
    <3> QED BY <1>9, <1>10, <1>16, <1>21, <2>1, <3>1
  <2>6. Boundary(Builder', Width', CountDepth(newToOld', Depth', Len(newToOld'), d))
    BY <1>1, <1>4, <1>5, <1>6, <1>7, <1>9, <1>15, <1>21
  <2>7. \A x \in frontier' : anchor' <= x
    BY <1>9
  <2>8. WaveAt(d)'
    BY <1>4, <1>5, <1>10, <2>3, <2>4, <2>5, <2>6, <2>7 DEF WaveAt
  <2>9. /\ OrderedByDepth(newToOld', Depth', Len(newToOld'))
        /\ LevelsAt(newToOld', Depth', Len(newToOld'), levelStarts', Builder', Width')
    BY <1>1, <1>4, <1>5, <1>6, <1>7, <1>13, <1>14
  <2> QED BY <2>8, <2>9 DEF WaveInv
<1> QED BY <1>20, <1>21

\* The rows of a depth are counted by a natural number; before a wave is frozen
\* there are none of its depth.
LEMMA CountsBegin ==
  ASSUME IInv, NEW d, WaveAt(d)
  PROVE  /\ CountDepth(newToOld, Depth, Len(newToOld), d) \in Nat
         /\ frontier = {} => CountDepth(newToOld, Depth, Len(newToOld), d) = 0
<1>1. PICK l, D : l = Len(newToOld) /\ D = {j \in 1 .. l : Depth[newToOld[j]] = d}
  OBVIOUS
<1>2. l \in Nat /\ DOMAIN newToOld = 1 .. l
  BY <1>1, LenProperties DEF IInv, FrontierOK
<1>3. IsFiniteSet(D)
  <2>1. D \subseteq 1 .. l /\ IsFiniteSet(1 .. l)
    BY <1>1, <1>2, OneTo
  <2> QED BY <2>1, FS_Subset
<1>4. frontier = {} => D = {}
  <2> SUFFICES ASSUME frontier = {}, NEW j \in D PROVE FALSE
    OBVIOUS
  <2>1. newToOld[j] \in Emitted /\ Depth[newToOld[j]] = d
    BY <1>1, <1>2 DEF Emitted, Range
  <2>2. d \in Nat /\ Depth[newToOld[j]] < d
    BY <2>1 DEF WaveAt
  <2> QED BY <2>1, <2>2
<1> QED BY <1>1, <1>3, <1>4, FS_CardinalityType, FS_EmptySet DEF CountDepth

\* The whole ready set, in one level or in slices, is a wave.
LEMMA WholeWave ==
  ASSUME IInv, LevelsInv, WidthInv, WaveInv, UnboundedStep \/ SlicedStep
  PROVE  WaveInv'
<1>1. /\ status = "building" /\ ready # {} /\ Builder \in {"unbounded", "sliced"}
      /\ frontier' = frontier
  BY DEF UnboundedStep, SlicedStep, EmitFromReady, Emit
<1>2. /\ frontier = {} /\ active = <<>> /\ Range(<<>>) = {} /\ ready \in SUBSET Cells
      /\ newToOld \in Seq(Cells)
  BY <1>1 DEF IInv, FrontierOK, Range
<1>3. Now = ready
  BY <1>2 DEF Now
<1>4. Waves
  BY <1>1 DEF Waves
<1>5. PICK d : WaveAt(d)
  BY <1>1, <1>4 DEF WaveInv
<1>6. PICK chunk, n, l, e :
        /\ chunk = Ascending(ready) /\ n = Len(chunk) /\ l = Len(newToOld)
        /\ e = CountDepth(newToOld, Depth, Len(newToOld), d)
  OBVIOUS
<1>7. e = 0
  BY <1>2, <1>5, <1>6, CountsBegin
<1>8. /\ Range(chunk) = ready /\ n \in Nat \ {0}
      /\ \A i, j \in 1 .. n : i < j => chunk[i] < chunk[j]
      /\ l \in Nat
  <2>1. chunk \in Seq(ready) /\ n = Cardinality(ready) /\ Range(chunk) = ready
        /\ \A i, j \in 1 .. n : i < j => chunk[i] < chunk[j]
    BY <1>2, <1>6, AscendingProperties
  <2>2. n \in Nat /\ DOMAIN chunk = 1 .. n /\ l \in Nat
    BY <1>2, <1>6, <2>1, LenProperties
  <2>3. n # 0
    BY <1>1, <2>1, <2>2 DEF Range
  <2> QED BY <2>1, <2>2, <2>3
<1>9. CASE UnboundedStep
  <2>1. PICK cuts : cuts = OneLevel(chunk)
    OBVIOUS
  <2>2. Builder = "unbounded" /\ Appends(chunk, cuts)
    BY <1>6, <1>9, <2>1, UnboundedAppends DEF UnboundedStep
  <2>3. Range(cuts) = {l + n}
    <3>1. cuts = <<l + n>>
      BY <1>6, <2>1 DEF OneLevel
    <3> QED BY <3>1 DEF Range
  <2>4. \A k \in 1 .. n - 1 : l + k \notin Range(cuts) /\ e + k # 0
    BY <1>7, <1>8, <2>3
  <2>5. WaveChunk(chunk, cuts, d)
    BY <1>1, <1>2, <1>3, <1>6, <1>7, <1>8, <2>2, <2>4 DEF WaveChunk, Boundary
  <2> QED BY <1>4, <1>5, <2>2, <2>5, WaveAppends
<1>10. CASE SlicedStep
  <2>1. PICK cuts : cuts = Slices(n)
    OBVIOUS
  <2>2. Builder = "sliced" /\ Appends(chunk, cuts)
    BY <1>6, <1>10, <2>1, SlicedAppends DEF SlicedStep
  <2>3. Width \in Nat \ {0}
    BY <1>1, <2>2, ControlFacts DEF IInv, FrontierOK
  <2>4. \A k \in 1 .. n - 1 : l + k \in Range(cuts) <=> k % Width = 0
    BY <1>2, <1>6, <1>8, <2>1, <2>3, SlicesAtMultiples
  <2>5. e % Width = 0 /\ \A k \in 1 .. n - 1 : e + k = k
    <3>1. 0 % Width = 0
      BY <2>3, RemainderAdds, MultipleOf
    <3> QED BY <1>7, <1>8, <3>1
  <2>6. Boundary(Builder, Width, e)
        /\ \A k \in 1 .. n - 1 : l + k \in Range(cuts) <=> Boundary(Builder, Width, e + k)
    BY <2>2, <2>4, <2>5 DEF Boundary
  <2>7. WaveChunk(chunk, cuts, d)
    BY <1>1, <1>2, <1>3, <1>6, <1>8, <2>6 DEF WaveChunk
  <2> QED BY <1>4, <1>5, <2>2, <2>7, WaveAppends
<1> QED BY <1>9, <1>10

\* A chunk of the frozen frontier is the next part of a wave.
LEMMA FrontierWave ==
  ASSUME IInv, LevelsInv, WidthInv, WaveInv, FrontierContinuingStep
  PROVE  WaveInv'
<1>1. PICK chunk :
        /\ chunk = Take(CyclicFrom(frontier, anchor), Width)
        /\ Builder = "frontierContinuing" /\ frontier # {}
        /\ Emit(chunk, OneLevel(chunk), ready \cup Released(chunk))
        /\ frontier' = frontier \ Range(chunk)
        /\ anchor' = chunk[Len(chunk)] + 1
  BY DEF FrontierContinuingStep
<1>2. PICK cuts, n, l, S, a, w :
        /\ cuts = OneLevel(chunk) /\ n = Len(chunk) /\ l = Len(newToOld)
        /\ S = frontier /\ a = anchor /\ w = Width
  OBVIOUS
<1>3. Appends(chunk, cuts)
  BY <1>1, <1>2, FrontierContinuingAppends
<1>4. /\ status = "building" /\ S \in SUBSET Cells /\ S # {} /\ a \in Int
      /\ w \in Nat \ {0} /\ newToOld \in Seq(Cells) /\ l \in Nat
  BY <1>1, <1>2, ControlFacts, LenProperties DEF Emit, IInv, FrontierOK
<1>5. Waves
  BY <1>1 DEF Waves
<1>6. PICK d : WaveAt(d)
  BY <1>4, <1>5 DEF WaveInv
<1>7. PICK e : e = CountDepth(newToOld, Depth, Len(newToOld), d)
  OBVIOUS
<1>8. e \in Nat /\ e % w = 0 /\ \A x \in S : a <= x
  <2>1. Boundary(Builder, Width, CountDepth(newToOld, Depth, Len(newToOld), d))
        /\ \A x \in frontier : anchor <= x
    BY <1>1, <1>6 DEF WaveAt
  <2>2. e \in Nat
    BY <1>6, <1>7, CountsBegin
  <2> QED BY <1>1, <1>2, <1>7, <2>1, <2>2 DEF Boundary
<1>9. /\ \A i, j \in 1 .. n : i < j => Before(a, chunk[i], chunk[j])
      /\ \A c \in S \ Range(chunk) : Before(a, chunk[n], c)
  BY <1>1, <1>2, <1>4, SweepOrder
<1>10. /\ n \in Nat \ {0} /\ n <= w /\ Range(chunk) \subseteq S
       /\ (n = w \/ Range(chunk) = S)
       /\ DOMAIN chunk = 1 .. n
  <2>1. PICK s : s = CyclicFrom(S, a)
    OBVIOUS
  <2>2. s \in Seq(S) /\ IsInjective(s) /\ Range(s) = S
    BY <1>4, <2>1, CyclicListing
  <2>3. chunk = Take(s, w)
    BY <1>1, <1>2, <2>1
  <2>4. /\ chunk \in Seq(S) /\ n \in Nat \ {0} /\ n = AtMost(w, Len(s))
        /\ Range(chunk) \subseteq S /\ (n = w \/ Range(chunk) = S)
    BY <1>2, <1>4, <2>2, <2>3, TakeOfListing
  <2>5. n <= w
    BY <1>4, <2>2, <2>4, LenProperties DEF AtMost
  <2> QED BY <1>2, <2>4, <2>5, LenProperties
<1>11. \A c \in S : c \in Int /\ a <= c
  BY <1>4, <1>8, CellsAreIntegers
<1>12. \A k \in 1 .. n : chunk[k] \in S
  BY <1>10 DEF Range
<1>13. \A x \in S : \A y \in S : Before(a, x, y) => x < y
  BY <1>4, <1>11 DEF Before
<1>14. \A i, j \in 1 .. n : i < j => chunk[i] < chunk[j]
  BY <1>9, <1>12, <1>13
<1>15. \A x \in frontier' : anchor' <= x /\ \A c \in Range(chunk) : c < x
  <2> TAKE x \in frontier'
  <2>1. x \in S \ Range(chunk) /\ n \in 1 .. n
    BY <1>1, <1>2, <1>10
  <2>2. chunk[n] < x /\ chunk[n] \in Int /\ x \in Int
    BY <1>9, <1>11, <1>12, <1>13, <2>1
  <2>3. ASSUME NEW k \in 1 .. n PROVE chunk[k] < x
    <3>1. k = n \/ k < n
      BY <1>10
    <3>2. k = n \/ chunk[k] < chunk[n]
      BY <1>14, <2>1, <3>1
    <3>3. chunk[k] \in Int
      BY <1>11, <1>12
    <3> QED BY <2>2, <3>2, <3>3
  <2>4. anchor' <= x
    BY <1>1, <1>2, <2>2
  <2> QED BY <1>10, <2>3, <2>4 DEF Range
<1>16. Range(cuts) = {l + n}
  <2>1. cuts = <<l + n>>
    BY <1>2 DEF OneLevel
  <2> QED BY <2>1 DEF Range
<1>17. \A k \in 1 .. n - 1 : l + k \notin Range(cuts) /\ (e + k) % w # 0
  <2> TAKE k \in 1 .. n - 1
  <2>1. k \in Nat /\ k < w /\ k # 0 /\ l + k # l + n
    BY <1>4, <1>10
  <2>2. (e + k) % w = k
    BY <1>4, <1>8, <2>1, RemainderAdds
  <2> QED BY <1>16, <2>1, <2>2
<1>18. frontier' # {} => (e + n) % w = 0
  <2> SUFFICES ASSUME frontier' # {} PROVE (e + n) % w = 0
    OBVIOUS
  <2>1. n = w
    BY <1>1, <1>2, <1>10
  <2>2. n \in Nat
    BY <1>10
  <2> QED BY <1>4, <1>8, <2>1, <2>2, RemainderAdds
<1>19. WaveChunk(chunk, cuts, d)
  <2>1. \A x : Boundary(Builder, Width, x) <=> x % w = 0
    BY <1>1, <1>2 DEF Boundary
  <2> QED BY <1>1, <1>2, <1>7, <1>8, <1>14, <1>15, <1>17, <1>18, <2>1 DEF WaveChunk
<1> QED BY <1>3, <1>5, <1>6, <1>19, WaveAppends

\* Freezing the ready set begins a wave.
LEMMA FreezeWave ==
  ASSUME IInv, LevelsInv, WaveInv, FreezeFrontier
  PROVE  WaveInv'
<1>1. /\ Builder = "frontierContinuing" /\ status = "building" /\ status' = "building"
      /\ frontier = {} /\ ready # {} /\ frontier' = ready /\ ready' = {}
      /\ anchor' = LeastOf(ready) /\ active' = active
      /\ UNCHANGED <<mesh, request, newToOld, levelStarts>>
  BY DEF FreezeFrontier
<1>2. active = <<>> /\ Range(<<>>) = {} /\ ready \in SUBSET Cells
  BY <1>1 DEF IInv, Range
<1>3. /\ Depth' = Depth /\ Builder' = Builder /\ Width' = Width /\ Emitted' = Emitted
  BY <1>1, SameDepths DEF Builder, Width, Emitted
<1>4. Waves /\ Waves'
  BY <1>1, <1>3 DEF Waves
<1>5. PICK d : WaveAt(d)
  BY <1>1, <1>4 DEF WaveInv
<1>6. Now = ready /\ Now' = ready /\ Later' = {}
  BY <1>1, <1>2 DEF Now, Later
<1>7. Boundary(Builder, Width, CountDepth(newToOld, Depth, Len(newToOld), d))
  <2>1. CountDepth(newToOld, Depth, Len(newToOld), d) = 0
    BY <1>1, <1>5, CountsBegin
  <2>2. Width \in Nat \ {0}
    BY <1>1, ControlFacts DEF IInv, FrontierOK
  <2>3. 0 % Width = 0
    BY <2>2, MultipleOf
  <2> QED BY <1>1, <2>1, <2>3 DEF Boundary
<1>8. \A x \in frontier' : anchor' <= x
  BY <1>1, <1>2, LeastOfCells
<1>9. WaveAt(d)'
  BY <1>1, <1>3, <1>5, <1>6, <1>7, <1>8 DEF WaveAt
<1>10. /\ OrderedByDepth(newToOld', Depth', Len(newToOld'))
       /\ LevelsAt(newToOld', Depth', Len(newToOld'), levelStarts', Builder', Width')
  BY <1>1, <1>3, <1>4 DEF WaveInv
<1> QED BY <1>9, <1>10 DEF WaveInv

\* The first wave are the cells of depth one.
LEMMA StartWave ==
  ASSUME IInv, Start
  PROVE  WaveInv'
<1>1. /\ status = "called" /\ newToOld = <<>> /\ newToOld' = <<>> /\ mesh' = mesh
      /\ frontier' = frontier
      /\ frontier = {}
  BY DEF Start, Begin, IInv, FrontierOK
<1>2. Emitted = {} /\ Emitted' = {} /\ Len(newToOld) = 0 /\ Len(newToOld') = 0
  BY <1>1 DEF Emitted, Range
<1>3. \A c \in FirstReady : Depth[c] = 1
  <2>1. DepthsFound /\ FrontierOK
    BY <1>2 DEF DepthsFound, IInv
  <2>2. FirstReady \subseteq Free
    BY <1>2 DEF FirstReady, Free, Pending
  <2>3. \A c \in FirstReady : Depth[c] \in 1 .. 0 + 1
    BY <1>2, <2>1, <2>2, FreeDepths
  <2> QED BY <2>3
<1>4. Now' = FirstReady /\ Later' = {}
  BY StartIInv
<1>5. Depth' = Depth
  BY <1>1, SameDepths
<1>6. WaveAt(1)'
  BY <1>1, <1>2, <1>3, <1>4, <1>5 DEF WaveAt
<1>7. 1 .. Len(newToOld') = {}
  BY <1>2
<1> QED BY <1>6, <1>7 DEF WaveInv, OrderedByDepth, LevelsAt

\* Every step of the three builders leaves waves.
LEMMA NextWave ==
  IInv /\ LevelsInv /\ WidthInv /\ WaveInv /\ [Next]_vars => WaveInv'
<1> SUFFICES ASSUME IInv, LevelsInv, WidthInv, WaveInv, [Next]_vars PROVE WaveInv'
  OBVIOUS
<1>1. CASE UnboundedStep \/ SlicedStep
  BY <1>1, WholeWave
<1>2. CASE FrontierContinuingStep
  BY <1>2, FrontierWave
<1>3. CASE FreezeFrontier
  BY <1>3, FreezeWave
<1>4. CASE Start
  BY <1>4, StartWave
<1>5. CASE RejectArguments \/ Finish \/ Fail \/ UNCHANGED vars
  <2>1. /\ UNCHANGED <<newToOld, levelStarts, mesh, request, ready, anchor, active, frontier>>
        /\ status' = "building" => status = "building"
    BY <1>5 DEF RejectArguments, Refuse, Finish, Return, Fail, NotCovered, vars, frontierVars
  <2>2. Depth' = Depth /\ Emitted' = Emitted /\ Builder' = Builder /\ Width' = Width
    BY <2>1, SameDepths DEF Emitted, Builder, Width
  <2>3. Now' = Now /\ Later' = Later /\ (Waves' => Waves)
    BY <2>1, <2>2 DEF Now, Later, Waves
  <2>4. ASSUME NEW d PROVE WaveAt(d) => WaveAt(d)'
    BY <2>1, <2>2, <2>3 DEF WaveAt
  <2> QED BY <2>1, <2>2, <2>3, <2>4 DEF WaveInv
<1>6. CASE \/ ReleaseDiagnosticStep \/ OrientedStep \/ SlidingWindowStep
           \/ AdaptiveGapStep \/ ReadyFractionStep \/ ContinuingStep
  <2>1. ~ Waves /\ request' = request
    BY <1>6
    DEF ReleaseDiagnosticStep, OrientedStep, SlidingWindowStep, AdaptiveGapStep,
        ReadyFractionStep, ContinuingStep, EmitFromReady, Emit, Waves
  <2> QED BY <2>1 DEF WaveInv, Waves, Builder
<1> QED BY <1>1, <1>2, <1>3, <1>4, <1>5, <1>6 DEF Next

\* Without rows there is no wave yet.
LEMMA WaveBegins == Init => WaveInv
<1> SUFFICES ASSUME Init PROVE WaveInv
  OBVIOUS
<1>1. newToOld = <<>> /\ status = "called" /\ 1 .. Len(newToOld) = {}
  BY DEF Init, FrontierInit
<1> QED BY <1>1 DEF WaveInv, OrderedByDepth, LevelsAt

\* Rows ordered by depth and cut by the rule are the natural frontiers.
LEMMA WavesAreFrontiers ==
  ASSUME IInv, WaveInv
  PROVE  NaturalFrontiers
<1> SUFFICES ASSUME Waves
             PROVE  NaturalFrontiers
  BY DEF NaturalFrontiers, Waves
<1>1. DOMAIN newToOld = 1 .. Len(newToOld)
  BY LenProperties DEF IInv, FrontierOK
<1>2. \A i, j \in DOMAIN newToOld : i < j => Sooner(Depth, newToOld[i], newToOld[j])
  BY <1>1 DEF WaveInv, OrderedByDepth
<1>3. \A i : SameDepthBefore(i) = CountDepth(newToOld, Depth, i - 1, Depth[newToOld[i]])
  BY DEF SameDepthBefore, CountDepth
<1>4. \A i \in DOMAIN newToOld :
        i - 1 \in Range(levelStarts) <=> Boundary(Builder, Width, SameDepthBefore(i))
  BY <1>1, <1>3 DEF WaveInv, LevelsAt
<1> QED BY <1>2, <1>4 DEF NaturalFrontiers, Sooner, Boundary

\* Every experimental builder keeps to its policy, for all its controls and every
\* addressing: the width it guarantees keeps Graham's bound; the unbounded, sliced
\* and frontier-continuing builders cut the natural frontiers; no cell of the
\* continuing builder waits for more than one sweep; the instrumented builder
\* reports every cell once.
THEOREM VariantPolicies == Spec => []KeepsItsPolicy
<1>1. Init => LevelsInv /\ SweepInv /\ WaveInv /\ TotalsInv
  BY LevelsBegin, SweepBegins, WaveBegins, TotalsBegin
<1>2. Init => WidthInv /\ ReportsInv
  <2> SUFFICES ASSUME Init PROVE WidthInv /\ ReportsInv
    OBVIOUS
  <2>1. diagnostics = <<>> /\ Range(<<>>) = {} /\ status = "called"
    BY DEF Init, FrontierInit, Range
  <2> QED BY <2>1, EmptySeq DEF ReportsInv, HeadDiagnosticsAgree, SearchRangeSound, WidthInv
<1>3. IInv /\ ReportsInv /\ SweepInv /\ WaveInv /\ TotalsInv
        => NaturalFrontiers /\ WaitsOneSweep /\ DiagnosticsAddUp
  BY WavesAreFrontiers, SweepWaits, TotalsAddUp
<1>4. Spec => [](IInv /\ ReportsInv /\ LevelsInv /\ WidthInv /\ SweepInv /\ WaveInv /\ TotalsInv)
  BY <1>1, <1>2, NextReports, NextLevels, NextWidth, NextSweep, NextWave, NextTotals,
     VariantInvariance, PTL DEF Spec
<1> QED BY <1>3, <1>4, VariantWidth, PTL DEF KeepsItsPolicy
====
