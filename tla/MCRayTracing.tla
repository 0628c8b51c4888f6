----------------------------- MODULE MCRayTracing -----------------------------
(* Three cells in a row, with a boundary cell behind the first and the end  *)
(* of the mesh behind the last.                                             *)
EXTENDS RayTracing

MCPath == <<
    <<1, 2, 3>>,       \* leaves the mesh
    <<3, 2, 1, 4>>,    \* ends in the boundary cell
    <<2>>,             \* across the row
    <<4>>              \* from a face of cell 1, to the wrong side
  >>

MCRegion == {1, 2, 3}

(* A ray that returns to a rank; three ranks in a row; several rays in the  *)
(* loops of one rank; and a cell that is found on two ranks other than the  *)
(* one the ray comes from, one of which sends its copy on to the other.     *)
Returning  == <<{1}, {2}, {1}, {1}>>
ThreeRanks == <<{1}, {2}, {3}, {1}>>
Together   == <<{1}, {1}, {2}, {1}>>
Copies     == <<{1}, {2, 3}, {2}, {1}>>
MCMeshes   == {Returning, ThreeRanks, Together, Copies}

MCHalvings == <<1, 2, 1, 1>>
MCEmission == [t \in 0..1 |-> [c \in 1..4 |-> 1 + 3 * c + t * (c + 1)]]

\* The bounds of the model bind nothing here.
ASSUME BoundsAssumption == Room /\ Deep
=============================================================================
