--------------------------- MODULE MCProbeRecorder ---------------------------
(* Instances of ProbeRecorder for TLC.                                      *)
EXTENDS ProbeRecorder

MCDue   == {s \in Step : s # 1}
MCSaves == {s \in Step : s % 3 = 0}

(* Rows are never cut: a flush that fits in one write of the stream.        *)
NeverCut == {}

(* A cut number reads as anything, also as more than it was.                *)
AnyTime == {0, 2, 9}
=============================================================================
