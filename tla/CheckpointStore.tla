--------------------------- MODULE CheckpointStore ---------------------------
(***************************************************************************)
(* What a checkpoint writer promises to the user of a simulation.  There   *)
(* is one saved step and at most one save in progress.  A save in progress *)
(* becomes the saved step when it ends; if the job stops first it has      *)
(* either taken effect or not.  A job starts from exactly the saved step:  *)
(* never from an earlier one, and never from parts of two.                 *)
(***************************************************************************)
EXTENDS Integers

CONSTANTS
    Steps,   \* the time steps that can be saved
    None,    \* no step
    Down     \* no job

VARIABLES
    saved,   \* the step a job started now would resume from, or None
    pending, \* the step a save is in progress for, or None
    run      \* Down, or the set of steps the running job restored its state from

vars == <<saved, pending, run>>

Init == saved = None /\ pending = None /\ run = Down

Later(s, t) == t = None \/ s > t

BeginSave(s) ==
    /\ run # Down /\ pending = None /\ Later(s, saved)
    /\ pending' = s
    /\ UNCHANGED <<saved, run>>

EndSave ==
    /\ pending # None
    /\ saved' = pending /\ pending' = None
    /\ UNCHANGED run

Start ==
    /\ run = Down
    /\ run' = IF saved = None THEN {} ELSE {saved}
    /\ UNCHANGED <<saved, pending>>

Stop ==
    /\ run # Down
    /\ run' = Down /\ pending' = None
    /\ saved' = saved \/ (pending # None /\ saved' = pending)

Next == (\E s \in Steps : BeginSave(s)) \/ EndSave \/ Start \/ Stop

Spec == Init /\ [][Next]_vars

(* The saved step never goes back: work that was saved is never redone.     *)
NeverLost == [][saved # None => saved' # None /\ saved' >= saved]_vars
=============================================================================
