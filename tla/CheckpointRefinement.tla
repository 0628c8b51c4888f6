------------------------- MODULE CheckpointRefinement -------------------------
(***************************************************************************)
(* Hdf5MultiFileSerializer implements CheckpointStore.                     *)
(***************************************************************************)
EXTENDS Hdf5MultiFileSerializer, FiniteSetsExt

CONSTANT Down  \* that no job runs, as the store shows it: not a set of steps

ASSUME DownAssumption == \A s \in SUBSET Step : Down # s

(* The last sequence number rank r has written all its files of.            *)
Written(r) == IF pc[r] \in Saving THEN seq[r] - 1 ELSE seq[r]

(* While a job runs: the last save that every rank has finished, and the    *)
(* one that some rank has begun.                                            *)
AllWritten == Min({Written(r) : r \in Rank})
Begun      == Max({seq[r] : r \in Rank})

(* While no job runs: what the next one would resume from, after the user   *)
(* has put the backup in place where that is needed.                        *)
OnDisk == CASE Usable(rst) -> rst.step
            [] ~Usable(rst) /\ Usable(bak) -> bak.step
            [] OTHER -> NoFile

savedStep ==
    CASE ~up -> OnDisk
      [] up /\ AllWritten = -1 -> NoFile
      [] OTHER -> disk[AllWritten][FileOf(1, Root)]

pendingStep ==
    IF up /\ Begun > AllWritten
      THEN timeStep[CHOOSE r \in Rank : seq[r] = Begun]
      ELSE NoFile

runFrom ==
    CASE ~up -> Down
      [] up /\ restored = NoFile -> {}
      [] OTHER -> {restored.meta.step} \cup {restored.from[f] : f \in File}

Store == INSTANCE CheckpointStore
           WITH Steps <- Step, None <- NoFile, saved <- savedStep, pending <- pendingStep, run <- runFrom

(* Every behaviour of the serializer is one of the store: a restart resumes *)
(* at the last save every rank finished, or at the one in progress.         *)
ImplementsStore == Store!Spec

(* The saved step never goes back, whatever the job is killed in.           *)
SavedNeverLost == Store!NeverLost
=============================================================================
