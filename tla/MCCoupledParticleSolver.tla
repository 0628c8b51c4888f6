----------------------- MODULE MCCoupledParticleSolver -----------------------
(* Instances of CoupledParticleSolver for TLC.                              *)
EXTENDS CoupledParticleSolver

(* Both particles start on rank 0, so that the others are empty.            *)
MCPlace == [p \in Particles |-> 0]
=============================================================================
