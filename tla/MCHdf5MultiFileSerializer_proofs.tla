------------------- MODULE MCHdf5MultiFileSerializer_proofs -------------------
(* The inductive invariant of the proofs, on the instances TLC can check.   *)
EXTENDS MCHdf5MultiFileSerializer, CheckpointSafety_proofs
=============================================================================
