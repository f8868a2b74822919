------------------------------- MODULE IndexKahn -------------------------------
(***************************************************************************)
(* makeIndexKahnOrdering, the production ordering builder: every level is  *)
(* the first targetWidth cells of the ready set, in ascending order, and   *)
(* successors are released only after the complete level.                  *)
(***************************************************************************)
EXTENDS KahnFrontier

\* A request is a record with the fields width (targetWidth) and sized (the
\* sizes of ownerStarts and upperAddr agree with nCells).
ASSUME RequestsAssumption ==
  \A r \in Requests : r.width \in Int /\ r.sized \in BOOLEAN

Width == request.width

RejectArguments == Refuse(Width >= 1)

Start == Begin(Width >= 1, {})

\* Mutant: a level stops one cell short of targetWidth.
CurrentShort == Take(Ascending(ready), IF Width > 1 THEN Width - 1 ELSE Width)

\* current: the first targetWidth cells of the ready set
Current == Take(Ascending(ready), Width)

\* Mutant: only full chunks are emitted.
EmitFullChunk ==
  /\ ready # {}
  /\ Len(Current) = Width
  /\ Emit(Current, OneLevel(Current),
          (ready \ Range(Current)) \cup Released(Current))

EmitChunk ==
  /\ ready # {}
  /\ Emit(Current, OneLevel(Current),
          (ready \ Range(Current)) \cup Released(Current))

Finish == Return(ready = {}, AllAppended)

Fail == NotCovered(ready = {}, AllAppended)

Next == RejectArguments \/ Start \/ EmitChunk \/ Finish \/ Fail

Init == FrontierInit

Spec == Init /\ [][Next]_frontierVars

FairSpec == Spec /\ WF_frontierVars(Next)
-----------------------------------------------------------------------------
TypeOK ==
  /\ IsAddressing(mesh)
  /\ request \in Requests
  /\ predecessors \in [Cells -> Nat]
  /\ ready \in SUBSET Cells
  /\ newToOld \in Seq(Cells)
  /\ levelStarts \in Seq(0 .. NCells)
  /\ oldToNew \in [Cells -> 0 .. NCells]
  /\ status \in {"called", "building", "returned", "rejected", "uncovered"}

\* The builder keeps the promises of every wavefront ordering.
Ordering == INSTANCE WavefrontOrdering

Implements == Ordering!Spec

\* The ready set is exactly the set of cells that may be appended next: no
\* cell is forgotten, none is inserted early or twice.
ReadyIsAvailable == status = "building" => ready = Ordering!Available

\* Counters, ready set and inverse permutation agree with the rows appended.
Bookkeeping == TypeOK /\ CountersExact /\ ReadyIsAvailable /\ OldToNewInverts

\* A level is narrower than targetWidth only when nothing else was ready,
\* so the number of levels keeps Graham's bound.
GrahamBound == status = "returned" => WorkSpread(Len(levelStarts) - 1, Width)

\* Every call ends, with an ordering or with an exception.
Terminates == <>(status \in {"returned", "rejected", "uncovered"})
================================================================================
