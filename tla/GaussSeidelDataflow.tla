-------------------------- MODULE GaussSeidelDataflow --------------------------
(***************************************************************************)
(* What a smoother promises: the Gauss-Seidel sweeps of OpenFOAM's         *)
(* lexicographic smoother, in any order of the rows that feeds every row   *)
(* the same neighbour values.  sweeps[c] counts the sweeps that have       *)
(* updated psi[c]; it stands for the value itself, since a value is fixed  *)
(* by those it was computed from.                                          *)
(***************************************************************************)
EXTENDS LduAddressing

CONSTANT
  SweepCounts   \* values of nSweeps considered

ASSUME SweepCountsAssumption == SweepCounts \subseteq Nat

VARIABLES
  addressing,  \* addressing of the matrix
  nSweeps,     \* sweeps asked for
  sweeps       \* per cell: sweeps done

sweepVars == <<addressing, nSweeps, sweeps>>

\* faces of c to its owners, and faces c owns
LowerFaces(c) == IncomingFaces(addressing, c)
UpperFaces(c) == OwnedFaces(addressing, {c})

\* Mutants of Fed: the old values are not needed; new values are expected on
\* both sides; the last sweep is left out.
FedFromBelow(c) ==
  /\ sweeps[c] < nSweeps
  /\ \A f \in LowerFaces(c) : sweeps[addressing.lower[f]] >= sweeps[c] + 1

FedWithNew(c) ==
  /\ sweeps[c] < nSweeps
  /\ \A f \in LowerFaces(c) : sweeps[addressing.lower[f]] = sweeps[c] + 1
  /\ \A f \in UpperFaces(c) : sweeps[addressing.upper[f]] = sweeps[c] + 1

FedButLast(c) ==
  /\ sweeps[c] + 1 < nSweeps
  /\ \A f \in LowerFaces(c) : sweeps[addressing.lower[f]] = sweeps[c] + 1
  /\ \A f \in UpperFaces(c) : sweeps[addressing.upper[f]] = sweeps[c]

\* psi[c] may be overwritten: its lower neighbours are one sweep ahead of it
\* (the new values), its upper neighbours are not (the old ones)
Fed(c) ==
  /\ sweeps[c] < nSweeps
  /\ \A f \in LowerFaces(c) : sweeps[addressing.lower[f]] = sweeps[c] + 1
  /\ \A f \in UpperFaces(c) : sweeps[addressing.upper[f]] = sweeps[c]

SweepInit ==
  /\ addressing \in Meshes
  /\ nSweeps \in SweepCounts
  /\ sweeps = [c \in Cells |-> 0]

Update(c) ==
  /\ Fed(c)
  /\ sweeps' = [sweeps EXCEPT ![c] = @ + 1]
  /\ UNCHANGED <<addressing, nSweeps>>

SweepNext == \E c \in Cells : Update(c)

SweepSpec == SweepInit /\ [][SweepNext]_sweepVars

FairSweepSpec == SweepSpec /\ WF_sweepVars(SweepNext)
-----------------------------------------------------------------------------
SweepTypeOK ==
  /\ IsAddressing(addressing)
  /\ nSweeps \in SweepCounts
  /\ sweeps \in [Cells -> 0 .. nSweeps]

\* The two ends of a face are never more than one sweep apart, the owner
\* being the one ahead: sweeps may overlap, but only as a wavefront.
Staggered ==
  \A f \in Faces(addressing) :
    /\ sweeps[addressing.upper[f]] <= sweeps[addressing.lower[f]]
    /\ sweeps[addressing.lower[f]] <= sweeps[addressing.upper[f]] + 1

\* No cell gets ahead of the sweeps asked for, none ahead of its neighbours.
Overlap == SweepTypeOK /\ Staggered

AllSwept == \A c \in Cells : sweeps[c] = nSweeps

\* On the addressing of a mesh some row can always be updated.
NeverStuck == UpperTriangular(addressing) => AllSwept \/ \E c \in Cells : Fed(c)

\* so every sweep is completed.
SweepsComplete == UpperTriangular(addressing) => <>AllSwept
================================================================================
