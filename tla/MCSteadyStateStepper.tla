------------------------- MODULE MCSteadyStateStepper -------------------------
(* Instances of SteadyStateStepper for TLC.                                 *)
EXTENDS SteadyStateStepper

CONSTANTS Ranks, Values, RangeValues

MCRank == 1..Ranks

RangeThenChange == <<"range", "change">>
OneChange       == <<"change">>

(* The parts of the field on different ranks change independently.          *)
AnyFields ==
    {f \in [Criterion -> [MCRank -> Values \cup RangeValues]] :
        \A c \in Criterion, r \in MCRank : f[c][r] \in IF c \in Changes THEN Values ELSE RangeValues}

MCValues      == {0, 1}
MCRangeValues == {1, 2}
MCStarts      == {0, 3}
=============================================================================
