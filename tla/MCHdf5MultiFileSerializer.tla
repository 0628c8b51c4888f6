---------------------- MODULE MCHdf5MultiFileSerializer ----------------------
(* Instances of Hdf5MultiFileSerializer for TLC.                            *)
EXTENDS CheckpointRefinement

CONSTANTS
    Every,      \* FixedInterval::interval, or SimulationTimeInterval in time steps
    Ranks       \* number of MPI ranks

MCRank == 0..Ranks - 1

(* A collective object (a subdomain) and a serial one (a sublimation model) *)
MCSerial == {2}

AllPeers == [r \in MCRank |-> MCRank]

(* Ranks in a line that only exchange ghost cells.                          *)
LinePeers == [r \in MCRank |-> {q \in MCRank : q \in r - 1..r + 1}]

Jobs == Step \cup {-1}

(* FixedInterval: the due steps do not depend on where the job started.     *)
FixedSchedules == [k \in Jobs |-> {{s \in Step : s % Every = 0}}]

(* SimulationTimeInterval with a unit dt: nextTime is not saved, so a job   *)
(* finds its first step due and counts from there.                          *)
SimulationTimeSchedules ==
    [k \in Jobs |-> {{s \in Step : s > k /\ (s - k - 1) % Every = 0}}]
=============================================================================
