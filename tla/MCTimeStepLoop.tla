---------------------------- MODULE MCTimeStepLoop ----------------------------
(* Instances of TimeStepLoop for TLC: a safety factor of 3/4.               *)
EXTENDS TimeStepLoop

AllMethods == [adapt : {"physics", "constrained", "unestimated"}, fsal : BOOLEAN]
OneMethod  == [adapt : {"physics"}, fsal : {FALSE}]

MCLimits == {1, 3, 6}
MCSafe   == [l \in MCLimits |-> (3 * l) \div 4]

EverySecond == {0, 2, 4, 6, 8}
EveryStep   == 0..8
=============================================================================
