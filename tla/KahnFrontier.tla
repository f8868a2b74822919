----------------------------- MODULE KahnFrontier -----------------------------
(***************************************************************************)
(* The state and the loop body common to all Index-Kahn ordering builders: *)
(* predecessor counters, the ordered ready set, the growing permutation    *)
(* with its level starts, the release of successors after a chunk has been *)
(* appended, and the final coverage check.  A builder adds its own way of  *)
(* choosing the chunk (IndexKahn, IndexKahnVariants).                      *)
(***************************************************************************)
EXTENDS LduAddressing

CONSTANT
  Requests     \* the calls considered: records with a field "sized"

VARIABLES
  mesh,          \* ownerStarts and upperAddr of the call
  request,       \* which builder is called, with which controls
  predecessors,  \* per cell: incoming faces whose owner is not appended yet
  ready,         \* std::set of cells whose counter has reached zero
  newToOld,      \* result.newToOld
  levelStarts,   \* result.levelStarts
  oldToNew,      \* result.oldToNew, filled in last
  status

frontierVars ==
  <<mesh, request, predecessors, ready, newToOld, levelStarts, oldToNew, status>>

Emitted == Range(newToOld)

FrontierInit ==
  /\ mesh \in Meshes
  /\ request \in Requests
  /\ predecessors = [c \in Cells |-> 0]
  /\ ready = {}
  /\ newToOld = <<>>
  /\ levelStarts = <<>>
  /\ oldToNew = [c \in Cells |-> 0]
  /\ status = "called"

\* std::runtime_error for bad controls or mismatched addressing sizes
Refuse(valid) ==
  /\ status = "called"
  /\ ~(valid /\ request.sized)
  /\ status' = "rejected"
  /\ UNCHANGED <<mesh, request, predecessors, ready, newToOld, levelStarts, oldToNew>>

\* count the incoming faces, collect the cells without any; keptBack are the
\* cells the builder moves out of the ready set before its first chunk
Begin(valid, keptBack) ==
  /\ status = "called"
  /\ valid
  /\ request.sized
  /\ predecessors' = [c \in Cells |-> Cardinality(IncomingFaces(mesh, c))]
  /\ ready' = {c \in Cells : IncomingFaces(mesh, c) = {}} \ keptBack
  /\ levelStarts' = <<0>>
  /\ status' = "building"
  /\ UNCHANGED <<mesh, request, newToOld, oldToNew>>

-----------------------------------------------------------------------------
\* Mutant: the walk stops one face before ownerStarts[cell + 1].
DecrementsButLast(chunk, c) ==
  {f \in IncomingFaces(mesh, c) :
     /\ mesh.lower[f] \in Range(chunk)
     /\ \E g \in Faces(mesh) : g > f /\ mesh.lower[g] = mesh.lower[f]}

\* the faces owned by the chunk that decrement the counter of c
Decrements(chunk, c) == OwnedFaces(mesh, Range(chunk)) \cap IncomingFaces(mesh, c)

\* Mutant: "<= 1" for "== 0".
ReleasedEarly(chunk) ==
  {c \in Cells : /\ Decrements(chunk, c) # {}
                 /\ predecessors[c] <= Cardinality(Decrements(chunk, c)) + 1}

\* the cells for which "--predecessors[upperAddr[face]] == 0" comes true
Released(chunk) ==
  {c \in Cells : /\ Decrements(chunk, c) # {}
                 /\ predecessors[c] = Cardinality(Decrements(chunk, c))}

\* append the chunk, close levels at cuts, then walk the owned faces of the
\* chunk; readyAfter is what choice and release of the chunk make of ready
Emit(chunk, cuts, readyAfter) ==
  /\ status = "building"
  /\ newToOld' = newToOld \o chunk
  /\ levelStarts' = levelStarts \o cuts
  /\ predecessors' =
       [c \in Cells |-> predecessors[c] - Cardinality(Decrements(chunk, c))]
  /\ ready' = readyAfter
  /\ UNCHANGED <<mesh, request, oldToNew, status>>

\* result.levelStarts.push_back(result.newToOld.size()) after the chunk
OneLevel(chunk) == <<Len(newToOld) + Len(chunk)>>

\* for row: oldToNew[newToOld[row]] = row, a later row overwriting an earlier
RowOf(c) ==
  IF c \in Emitted
    THEN (CHOOSE i \in DOMAIN newToOld :
            /\ newToOld[i] = c
            /\ \A j \in DOMAIN newToOld : j > i => newToOld[j] # c) - 1
    ELSE 0

AllAppended == Len(newToOld) = NCells

\* the loop is over (idle) and the builder finds its work complete
Return(idle, complete) ==
  /\ status = "building"
  /\ idle
  /\ complete
  /\ oldToNew' = [c \in Cells |-> RowOf(c)]
  /\ status' = "returned"
  /\ UNCHANGED <<mesh, request, predecessors, ready, newToOld, levelStarts>>

\* "scheduler did not cover all cells"
NotCovered(idle, complete) ==
  /\ status = "building"
  /\ idle
  /\ ~complete
  /\ status' = "uncovered"
  /\ UNCHANGED <<mesh, request, predecessors, ready, newToOld, levelStarts, oldToNew>>

-----------------------------------------------------------------------------
\* faces into c whose owner has not been appended
Pending(c) == {f \in IncomingFaces(mesh, c) : mesh.lower[f] \notin Emitted}

\* The counters are exact: never negative, never stale.
CountersExact ==
  status \in {"building", "returned", "uncovered"} =>
    \A c \in Cells : predecessors[c] = Cardinality(Pending(c))

\* The inverse permutation undoes the permutation.
OldToNewInverts ==
  status = "returned" =>
    \A i \in DOMAIN newToOld : oldToNew[newToOld[i]] = i - 1

\* number of cells on a longest dependency chain, of n cells or fewer, that
\* ends in c
DepthWithin[n \in 0 .. NCells] ==
  [c \in Cells |->
     LET owners == {mesh.lower[f] : f \in IncomingFaces(mesh, c)}
         depths == {DepthWithin[n - 1][o] : o \in owners}
     IN  IF n = 0 THEN 0
         ELSE IF owners = {} THEN 1
         ELSE 1 + (CHOOSE d \in depths : \A e \in depths : e <= d)]

\* no cell is on a chain of more than NCells, unless it waits for a cycle
Depth == DepthWithin[NCells]

\* Graham's bound for list scheduling: n unit tasks on w processors, of which
\* at most d form a chain, take at most (n + (w-1)d) / w steps when no step
\* leaves a processor idle that has a task to run.
WorkSpread(levels, w) ==
  \A d \in 0 .. NCells :
    (\A c \in Cells : Depth[c] <= d) => levels * w <= NCells + (w - 1) * d
===============================================================================
