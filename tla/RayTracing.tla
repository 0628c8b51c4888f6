------------------------------ MODULE RayTracing ------------------------------
(***************************************************************************)
(* ablate::radiation::Radiation and SurfaceRadiation (src/radiation): rays *)
(* are traced once through a mesh that is divided among the ranks, by      *)
(* search particles that leave on every rank they pass a segment of cells, *)
(* and every evaluation of the gains combines what the ranks compute for   *)
(* their segments.                                                         *)
(*                                                                         *)
(* The path of a ray is a constant: the cells it passes from its origin    *)
(* outward.  Crossing a cell halves the intensity Halvings[c] times, so    *)
(* that intensities are exact in units of 2^-Depth.  A loop over the       *)
(* particles of a rank takes them in any order.                            *)
(***************************************************************************)
EXTENDS Integers, Sequences, FiniteSets, FiniteSetsExt, SequencesExt

CONSTANTS
    Ranks, Cells, Rays,
    Path,        \* the cells of each ray
    Flat,        \* rays across a mesh of one dimension, which stay in their cell
    Region,      \* the cells that the solver is applied to
    SubDomain,   \* the cells that have a solution
    Meshes,      \* for each cell the ranks on which a particle in it is found
    Halvings,    \* absorption of each cell
    Emission,    \* emission of each cell, at either of two times
    Depth,       \* bound: halvings of the longest ray
    MaxSegment   \* bound: no more is recorded of one segment

ASSUME MeshAssumption ==
    /\ IsFiniteSet(Ranks) /\ Ranks # {} /\ IsFiniteSet(Rays)
    /\ Region \subseteq Cells /\ SubDomain \subseteq Cells
    /\ Meshes \subseteq [Cells -> (SUBSET Ranks) \ {{}}]
ASSUME PathAssumption ==
    /\ Flat \subseteq Rays /\ \A y \in Flat : Len(Path[y]) = 1
    /\ Path \in [Rays -> Seq(Cells)] /\ \A y \in Rays : Path[y] # <<>>
    /\ \A y \in Rays : \A i \in 1..Len(Path[y]) - 1 : Path[y][i] \in Region
ASSUME OpticsAssumption ==
    /\ Halvings \in [Cells -> Nat] /\ Depth \in Nat /\ MaxSegment \in Nat
    /\ Emission \in [0..1 -> [Cells -> Nat]]

Outside == 0     \* where a particle is that has left the mesh
Decide  == -1    \* PETSC_DECIDE
Unset   == [nSegment |-> -1]    \* memory that nobody has written
Pending == <<[nSegment |-> -2]>>    \* no PetscSF yet

ASSUME NamesAssumption == Outside \notin Cells /\ Decide \notin Ranks

VARIABLES
    found,                      \* the mesh: where a particle in a cell is found
    surface, origin,            \* SurfaceRadiation or Radiation; the origin rank of each ray
    pc, todo,                   \* where each rank is, and the particles its loop has not reached
    swarm,                      \* radSearch: the search particles on each rank
    raySegments, radReturn,     \* of each rank
    remoteRayInformation,       \* of each ray, from the origin to the farthest away
    calculations,               \* raySegmentsCalculations, of each rank
    time,                       \* which emission the solution has
    gains, evaluated            \* evaluatedGains, and the time of the evaluation

mesh    == <<found, surface, origin>>
search  == <<todo, swarm, raySegments, radReturn>>
solve   == <<calculations, time, gains, evaluated>>
vars    == <<mesh, pc, search, remoteRayInformation, solve>>

(* Rays of a volume begin in cells of the region; those of a surface begin  *)
(* at faces, some of them in the boundary cell behind the face.             *)
Launched == {y \in Rays : surface \/ Path[y][1] \in Region}

Place(p) == IF p.at <= Len(Path[p.id.ray]) THEN Path[p.id.ray][p.at] ELSE Outside
FoundOn(p) == IF Place(p) = Outside THEN {} ELSE found[Place(p)]

(* Variant: the first segment is number 1.                                  *)
IdentifierFromOne(y) == [ray |-> y, remoteRank |-> Decide, remoteRayId |-> Decide, nSegment |-> 0]

Identifier(y) == [ray |-> y, remoteRank |-> Decide, remoteRayId |-> Decide, nSegment |-> -1]

(* Setup: a particle for each ray of a rank.                                *)
Init ==
    /\ found \in Meshes /\ surface \in BOOLEAN
    /\ origin \in [Rays -> Ranks]
    /\ \A y \in Rays : surface \/ origin[y] \in found[Path[y][1]]
    /\ pc = [r \in Ranks |-> "setup"] /\ todo = [r \in Ranks |-> {}]
    /\ swarm = [r \in Ranks |->
                  {[at |-> 1, id |-> Identifier(y)] : y \in {z \in Launched : origin[z] = r}}]
    /\ raySegments = [r \in Ranks |-> <<>>] /\ radReturn = [r \in Ranks |-> <<>>]
    /\ remoteRayInformation = [y \in Rays |-> Pending]
    /\ calculations = [r \in Ranks |-> <<>>]
    /\ time = 0 /\ gains = [y \in Rays |-> 0] /\ evaluated = Decide

-----------------------------------------------------------------------------
(* The search.                                                              *)

(* DMSwarmMigrate: a particle stays where it is found; otherwise every      *)
(* other rank that finds it gets a copy.                                    *)
Migrated(r) ==
    {p \in swarm[r] : r \in FoundOn(p)}
        \cup {p \in UNION {swarm[q] : q \in Ranks} :
                 r \in FoundOn(p) /\ \E q \in Ranks \ FoundOn(p) : p \in swarm[q]}

Migrate(from, to) ==
    /\ \A r \in Ranks : pc[r] = from
    /\ pc' = [r \in Ranks |-> to]
    /\ swarm' = [r \in Ranks |-> Migrated(r)]
    /\ todo' = [r \in Ranks |-> Migrated(r)]
    /\ UNCHANGED <<mesh, raySegments, radReturn, remoteRayInformation, solve>>

(* The end of Setup, and of every round.                                    *)
SetupMigrate == Migrate("setup", IF surface THEN "bounds" ELSE "size")
RoundMigrate == Migrate("migrate", "size")

(* DMSwarmGetSize: the search goes on while a particle is left anywhere.    *)
GetSize ==
    /\ \A r \in Ranks : pc[r] = "size"
    /\ LET left == \E r \in Ranks : swarm[r] # {}
       IN pc' = [r \in Ranks |-> IF left THEN "identify" ELSE "return"]
    /\ todo' = swarm
    /\ UNCHANGED <<mesh, swarm, raySegments, radReturn, remoteRayInformation, solve>>

(* The loops over the particles of a rank, and what follows each.           *)
After == [bounds |-> "size", identify |-> "step", step |-> "advance", advance |-> "migrate"]

EndLoop(r) ==
    /\ pc[r] \in DOMAIN After /\ todo[r] = {}
    /\ pc' = [pc EXCEPT ![r] = After[pc[r]]]
    /\ todo' = [todo EXCEPT ![r] = swarm[r]]
    /\ UNCHANGED <<mesh, swarm, raySegments, radReturn, remoteRayInformation, solve>>

At(loop, r, p) ==
    /\ pc[r] = loop /\ p \in todo[r]
    /\ todo' = [todo EXCEPT ![r] = @ \ {p}]

RemovePoint(r, p)     == swarm' = [swarm EXCEPT ![r] = @ \ {p}]
Update(r, p, q) == swarm' = [swarm EXCEPT ![r] = (@ \ {p}) \cup {q}]

(* SurfaceRadiation: particles in the boundary cell of their face go.       *)
DeleteOutOfBounds(r, p) ==
    /\ At("bounds", r, p)
    /\ IF Place(p) \notin Region THEN RemovePoint(r, p) ELSE UNCHANGED swarm
    /\ UNCHANGED <<mesh, pc, raySegments, radReturn, remoteRayInformation, solve>>

(* Variants: the entry is the identifier before it is updated; only a       *)
(* particle that was never identified is new.                               *)
OpenEarly(r, p) ==
    LET slot == Len(raySegments[r]) + 1
        id   == [ray |-> p.id.ray, remoteRank |-> r, remoteRayId |-> slot, nSegment |-> p.id.nSegment + 1]
    IN /\ radReturn' = [radReturn EXCEPT ![r] = [Append(@, Unset) EXCEPT ![slot] = p.id]]
       /\ Update(r, p, [p EXCEPT !.id = id])
       /\ raySegments' = [raySegments EXCEPT ![r] = Append(@, <<>>)]

NewEver(r, p) == p.id.remoteRank = Decide

(* A segment is opened, and an entry for the origin at the same index.      *)
OpenSegment(r, p) ==
    LET slot == Len(raySegments[r]) + 1
        id   == [ray |-> p.id.ray, remoteRank |-> r, remoteRayId |-> slot, nSegment |-> p.id.nSegment + 1]
    IN /\ Update(r, p, [p EXCEPT !.id = id])
       /\ raySegments' = [raySegments EXCEPT ![r] = Append(@, <<>>)]
       /\ radReturn' = [radReturn EXCEPT ![r] = [Append(@, Unset) EXCEPT ![slot] = id]]

(* A particle that was on another rank in the last round, or on none.       *)
New(r, p) == p.id.remoteRank # r

IdentifyNewRay(r, p) ==
    /\ At("identify", r, p)
    /\ IF New(r, p) THEN OpenSegment(r, p) ELSE UNCHANGED <<swarm, raySegments, radReturn>>
    /\ UNCHANGED <<mesh, pc, remoteRayInformation, solve>>

AddSegment(r, p, segment) ==
    raySegments' = [raySegments EXCEPT ![r][p.id.remoteRayId] =
                      IF Len(@) < MaxSegment THEN Append(@, segment) ELSE @]

(* The cell is added to the segment.                                        *)
ParticleStep(r, p) ==
    /\ At("step", r, p)
    /\ IF Place(p) \in SubDomain
         THEN AddSegment(r, p, [cell |-> Place(p), wall |-> FALSE])
         ELSE UNCHANGED raySegments
    /\ UNCHANGED <<mesh, pc, swarm, radReturn, remoteRayInformation, solve>>

(* Beyond the face; a ray without an x component goes nowhere.              *)
Moved(p) == IF p.id.ray \in Flat THEN p ELSE [p EXCEPT !.at = @ + 1]

(* Variant: only a boundary cell ends a ray.                                *)
EndsAtBoundary(p) == Place(p) \notin Region

Ends(p) == Place(p) \notin Region \/ p.id.ray \in Flat

(* Variant: the particle that takes the place of a removed one is passed    *)
(* over.                                                                    *)
AdvanceSkipping(r, p) ==
    /\ pc[r] = "advance" /\ p \in todo[r]
    /\ IF Ends(p)
         THEN /\ AddSegment(r, p, [cell |-> Place(p), wall |-> TRUE])
              /\ RemovePoint(r, p)
              /\ \E q \in todo[r] : todo' = [todo EXCEPT ![r] = @ \ {p, q}]
         ELSE /\ Update(r, p, Moved(p))
              /\ todo' = [todo EXCEPT ![r] = @ \ {p}]
              /\ UNCHANGED raySegments
    /\ UNCHANGED <<mesh, pc, radReturn, remoteRayInformation, solve>>

(* A particle that has reached a boundary cell closes its ray with the      *)
(* emission of the boundary, the others go to the next cell.                *)
Advance(r, p) ==
    /\ At("advance", r, p)
    /\ IF Ends(p)
         THEN /\ AddSegment(r, p, [cell |-> Place(p), wall |-> TRUE])
              /\ RemovePoint(r, p)
         ELSE /\ Update(r, p, Moved(p))
              /\ UNCHANGED raySegments
    /\ UNCHANGED <<mesh, pc, radReturn, remoteRayInformation, solve>>

-----------------------------------------------------------------------------
(* The way back.                                                            *)

Entries(r)  == {radReturn[r][i] : i \in DOMAIN radReturn[r]} \ {Unset}
Returned(y) == {id \in UNION {Entries(r) : r \in Ranks} : id.ray = y}

(* raySegmentsPerOriginRay.                                                 *)
SegmentsOf(y) == Max({0} \cup {id.nSegment + 1 : id \in Returned(y)})

(* The origin rank has received the entries of its ray and puts them in     *)
(* order; of entries for the same place the last one stays.                 *)
ReturnRay(y) ==
    /\ \A r \in Ranks : pc[r] = "return"
    /\ remoteRayInformation[y] = Pending
    /\ \E info \in [1..SegmentsOf(y) -> Returned(y) \cup {Unset}] :
          /\ \A s \in DOMAIN info :
                LET here == {id \in Returned(y) : id.nSegment + 1 = s}
                IN info[s] \in (IF here = {} THEN {Unset} ELSE here)
          /\ remoteRayInformation' = [remoteRayInformation EXCEPT ![y] = info]
    /\ UNCHANGED <<mesh, pc, search, solve>>

(* PetscSFSetUp.                                                            *)
SetUp ==
    /\ \A r \in Ranks : pc[r] = "return"
    /\ \A y \in Rays : remoteRayInformation[y] # Pending
    /\ pc' = [r \in Ranks |-> "ready"]
    /\ calculations' = [r \in Ranks |-> [i \in DOMAIN raySegments[r] |-> [Ij |-> 0, Krad |-> 0]]]
    /\ UNCHANGED <<mesh, search, remoteRayInformation, time, gains, evaluated>>

-----------------------------------------------------------------------------
(* EvaluateGains.                                                           *)

(* An intensity after n halvings.                                           *)
Through(intensity, n) == intensity \div 2^n

Emitted(cell) == Emission[time][cell] * 2^Depth

(* Krad counts halvings.  A boundary is black and absorbs nothing on; a     *)
(* place without a solution changes nothing.                                *)
Pass(carrier, segment) ==
    LET bright == Through(Emitted(segment.cell), carrier.Krad)
        k      == carrier.Krad + Halvings[segment.cell]
    IN IF segment.cell \notin SubDomain THEN carrier
       ELSE IF segment.wall THEN [carrier EXCEPT !.Ij = @ + bright]
       ELSE [Ij |-> carrier.Ij + bright - Through(Emitted(segment.cell), k), Krad |-> k]

(* Variant: what the last evaluation left is not cleared.                   *)
SegmentUncleared(carrier, ray) == FoldLeft(Pass, carrier, ray)

Segment(carrier, ray) == FoldLeft(Pass, [Ij |-> 0, Krad |-> 0], ray)

Behind(near, far) ==
    [Ij |-> near.Ij + Through(far.Ij, near.Krad), Krad |-> near.Krad + far.Krad]

(* Every rank evaluates its segments, the origins pull the results of their *)
(* rays (PetscSFBcast) and combine them from the origin outward.            *)
EvaluateGains ==
    /\ \A r \in Ranks : pc[r] = "ready"
    /\ evaluated # time
    /\ calculations' = [r \in Ranks |->
          [i \in DOMAIN calculations[r] |-> Segment(calculations[r][i], raySegments[r][i])]]
    /\ LET summary(y) == [s \in DOMAIN remoteRayInformation[y] |->
              LET root == remoteRayInformation[y][s] IN calculations'[root.remoteRank][root.remoteRayId]]
       IN gains' = [y \in Rays |-> FoldLeft(Behind, [Ij |-> 0, Krad |-> 0], summary(y)).Ij]
    /\ evaluated' = time
    /\ UNCHANGED <<mesh, pc, search, remoteRayInformation, time>>

(* The flow goes on.                                                        *)
FlowStep ==
    /\ \A r \in Ranks : pc[r] = "ready"
    /\ evaluated = time
    /\ time' = 1 - time
    /\ UNCHANGED <<mesh, pc, search, remoteRayInformation, calculations, gains, evaluated>>

Next ==
    \/ SetupMigrate \/ RoundMigrate \/ GetSize
    \/ \E r \in Ranks : EndLoop(r)
    \/ \E r \in Ranks : \E p \in todo[r] :
          DeleteOutOfBounds(r, p) \/ IdentifyNewRay(r, p) \/ ParticleStep(r, p) \/ Advance(r, p)
    \/ \E y \in Rays : ReturnRay(y)
    \/ SetUp \/ EvaluateGains \/ FlowStep

Spec == Init /\ [][Next]_vars

(* A rank goes on with its loops and takes part in the collectives.         *)
FairSpec == Spec /\ WF_vars(Next)

-----------------------------------------------------------------------------
(* Properties.                                                              *)

Identifiers == [ray : Rays, remoteRank : Ranks \cup {Decide}, remoteRayId : Int, nSegment : Int]
Segments    == [cell : Cells, wall : BOOLEAN]
Carriers    == [Ij : Int, Krad : Nat]

TypeOK ==
    /\ found \in Meshes /\ surface \in BOOLEAN /\ origin \in [Rays -> Ranks]
    /\ pc \in [Ranks -> {"setup", "bounds", "size", "identify", "step", "advance", "migrate",
                         "return", "ready"}]
    /\ swarm \in [Ranks -> SUBSET [at : Nat, id : Identifiers]]
    /\ todo \in [Ranks -> SUBSET [at : Nat, id : Identifiers]]
    /\ raySegments \in [Ranks -> Seq(Seq(Segments))]
    /\ radReturn \in [Ranks -> Seq([ray : Rays, remoteRank : Ranks, remoteRayId : Nat, nSegment : Nat])]
    /\ \A y \in Rays : remoteRayInformation[y] = Pending
                         \/ remoteRayInformation[y] \in Seq(Identifiers \cup {Unset})
    /\ calculations \in [Ranks -> Seq(Carriers)]
    /\ time \in 0..1 /\ gains \in [Rays -> Int] /\ evaluated \in {0, 1, Decide}

(* Every identifier, on a particle, on its way back or in the PetscSF,      *)
(* names a segment that exists on its rank and belongs to its ray alone:    *)
(* what raySegments[remoteRayId] and the broadcast rely on.                 *)
Known(id) == id.remoteRank \in Ranks /\ id.remoteRayId \in DOMAIN raySegments[id.remoteRank]

SegmentsExist ==
    /\ \A r \in Ranks : \A p \in swarm[r] : pc[r] \in {"step", "advance"} => p.id.remoteRank = r /\ Known(p.id)
    /\ \A r \in Ranks : \A id \in Entries(r) : Known(id)
    /\ \A q, r \in Ranks : \A i \in Entries(q), j \in Entries(r) :
          i.remoteRank = j.remoteRank /\ i.remoteRayId = j.remoteRayId => i = j

(* Every place of the PetscSF of a ray has been written, with an entry of   *)
(* this ray for this place, also when particles were found on two ranks.    *)
SlotsFilled ==
    \A y \in Rays : remoteRayInformation[y] # Pending =>
        \A s \in DOMAIN remoteRayInformation[y] :
            /\ remoteRayInformation[y][s] # Unset
            /\ remoteRayInformation[y][s].ray = y /\ remoteRayInformation[y][s].nSegment + 1 = s

-----------------------------------------------------------------------------
(* Where every cell belongs to one rank, the segments of a ray, read from   *)
(* the origin outward, follow its path, whatever the partition, and also    *)
(* when the ray comes back to a rank it had left.                           *)
Alone == \A c \in Cells : Cardinality(found[c]) = 1

ReachesWall(y) == y \in Flat \/ Last(Path[y]) \notin Region

(* What one rank alone would record of the first k cells of a ray, and of   *)
(* the whole ray.                                                           *)
Recorded(y) ==
    LET trace[k \in 0..Len(Path[y])] ==
            IF k = 0 THEN <<>>
            ELSE IF Path[y][k] \in SubDomain THEN Append(trace[k - 1], [cell |-> Path[y][k], wall |-> FALSE])
            ELSE trace[k - 1]
    IN trace

WholeTrace(y) ==
    LET cells == Recorded(y)[Len(Path[y])]
    IN IF ReachesWall(y) THEN Append(cells, [cell |-> Last(Path[y]), wall |-> TRUE]) ELSE cells

(* The segments are consecutive pieces of it, in the order of nSegment.     *)
Consecutive(returned, segments, whole) ==
    /\ \A i, j \in returned : i.nSegment = j.nSegment => i = j
    /\ \E cuts \in [0..segments -> 0..Len(whole)] :
          /\ cuts[0] = 0
          /\ \A s \in 1..segments : cuts[s - 1] <= cuts[s] /\ \E id \in returned :
                /\ id.nSegment + 1 = s
                /\ raySegments[id.remoteRank][id.remoteRayId] = SubSeq(whole, cuts[s - 1] + 1, cuts[s])

SegmentsFollowPath == Alone => \A y \in Rays : Consecutive(Returned(y), SegmentsOf(y), WholeTrace(y))

(* What a cell absorbs, and what is seen of it behind n halvings.           *)
Dimming(c)    == IF c \in SubDomain THEN Halvings[c] ELSE 0
Seen(t, c, n) == IF c \in SubDomain THEN (Emission[t][c] * 2^Depth) \div 2^n ELSE 0

(* The halvings of the first k cells of a ray, and the light that comes out *)
(* of them: each cell is seen through those before it, and hides as much of *)
(* what it emits as it would let through.                                   *)
Dimmed(y) ==
    LET dimmed[k \in 0..Len(Path[y])] == IF k = 0 THEN 0 ELSE dimmed[k - 1] + Dimming(Path[y][k])
    IN dimmed

Light(t, y) ==
    LET light[k \in 0..Len(Path[y])] ==
            IF k = 0 THEN 0
            ELSE light[k - 1] + (Seen(t, Path[y][k], Dimmed(y)[k - 1]) - Seen(t, Path[y][k], Dimmed(y)[k]))
    IN light

Inside(y) == IF Last(Path[y]) \in Region THEN Len(Path[y]) ELSE Len(Path[y]) - 1

(* The gain of a ray is what one rank alone would find along the path: the  *)
(* emission of the cells of the region, dimmed by those before them, and of *)
(* the boundary behind them; of the time of the last evaluation.            *)
Reference(t, y) ==
    Light(t, y)[Inside(y)]
      + IF ReachesWall(y) THEN Seen(t, Last(Path[y]), Dimmed(y)[Inside(y)]) ELSE 0

GainsExact ==
    Alone /\ evaluated # Decide =>
        \A y \in Rays : gains[y] = IF Path[y][1] \in Region THEN Reference(evaluated, y) ELSE 0

(* Where the bounds of the model bind nothing: a segment has room for a     *)
(* whole path, and no ray halves the light more often than is counted.      *)
Room == \A y \in Rays : Len(Path[y]) < MaxSegment
Deep == \A y \in Rays : Dimmed(y)[Len(Path[y])] <= Depth

(* The search ends: every particle reaches a boundary or leaves the mesh.   *)
SearchEnds == <>(\A r \in Ranks : pc[r] = "ready")
=============================================================================
