--------------------------- MODULE RayTracing_proofs ---------------------------
(***************************************************************************)
(* What holds of the segments of a ray on any mesh, with any partition,    *)
(* rays and order of the loops.  First, also where a particle is found on  *)
(* several ranks: every identifier names an existing segment, every place  *)
(* of a ray's PetscSF is written, and the carriers have their types.  Then,*)
(* where a cell belongs to one rank: the segments of a ray are consecutive *)
(* pieces of its path, and its gain is the light along that path.          *)
(*                                                                         *)
(* The index under which an entry for the origin is stored is the number   *)
(* of the segment, and not that of the entry: the two lists have to grow   *)
(* together (InStep).  The places of a ray are written one by one because  *)
(* a particle whose segment is number n leaves entries for all the numbers *)
(* before (Complete), whichever copy of it is followed.  The pieces of a   *)
(* path are found by following its one particle (PathInv), and make up the *)
(* whole of it when the search is over (EndInv).  To pass a piece and then *)
(* to see the next behind it is to pass both (PassFarther, Split), so that *)
(* the carriers of the pieces combine to that of the whole (Combined).     *)
(***************************************************************************)
EXTENDS RayTracing, TLAPS, WellFoundedInduction, FiniteSetTheorems

Loops  == {"bounds", "identify", "step", "advance"}
Phases == Loops \cup {"setup", "size", "migrate", "return", "ready"}

Particles == [at : Nat \ {0}, id : Identifiers]
Entry     == [ray : Rays, remoteRank : Ranks, remoteRayId : Nat, nSegment : Nat]

Types ==
    /\ pc \in [Ranks -> Phases]
    /\ swarm \in [Ranks -> SUBSET Particles] /\ todo \in [Ranks -> SUBSET Particles]
    /\ raySegments \in [Ranks -> Seq(Seq(Segments))]
    /\ radReturn \in [Ranks -> Seq(Entry)]

(* Entry i of a rank is that of its segment i.                              *)
InStep ==
    \A r \in Ranks :
        /\ Len(radReturn[r]) = Len(raySegments[r])
        /\ \A i \in DOMAIN radReturn[r] : radReturn[r][i].remoteRank = r /\ radReturn[r][i].remoteRayId = i

(* A particle was never identified or knows its segment.                    *)
Carries(p) ==
    \/ p.id.remoteRank = Decide /\ p.id.nSegment = -1
    \/ Known(p.id) /\ p.id.nSegment \in Nat

Carried == \A r \in Ranks : \A p \in swarm[r] : Carries(p)

(* What the loops have done to the particles of a rank.                     *)
Here ==
    \A r \in Ranks :
        /\ pc[r] \in Loops => todo[r] \subseteq swarm[r]
        /\ pc[r] = "identify" => \A p \in swarm[r] \ todo[r] : p.id.remoteRank = r
        /\ pc[r] \in {"step", "advance"} => \A p \in swarm[r] : p.id.remoteRank = r

(* A particle is in the mesh from a migration until it is moved.            *)
InMesh ==
    \A r \in Ranks :
        /\ pc[r] \in {"bounds", "size", "identify", "step"} => \A p \in swarm[r] : Place(p) \in Cells
        /\ pc[r] = "advance" => \A p \in todo[r] : Place(p) \in Cells

Has(y, s) == \E r \in Ranks : \E i \in DOMAIN radReturn[r] : radReturn[r][i].ray = y /\ radReturn[r][i].nSegment = s

HasUpTo(id) == \A s \in 0..id.nSegment : Has(id.ray, s)

Complete ==
    /\ \A r \in Ranks : \A p \in swarm[r] : HasUpTo(p.id)
    /\ \A r \in Ranks : \A i \in DOMAIN radReturn[r] : HasUpTo(radReturn[r][i])

Bounded ==
    \E n \in Nat :
        /\ \A r \in Ranks : \A p \in swarm[r] : p.id.nSegment <= n
        /\ \A r \in Ranks : \A i \in DOMAIN radReturn[r] : radReturn[r][i].nSegment <= n

Filled(y) ==
    \A s \in DOMAIN remoteRayInformation[y] :
        /\ remoteRayInformation[y][s] # Unset
        /\ remoteRayInformation[y][s].ray = y /\ remoteRayInformation[y][s].nSegment + 1 = s

Kept ==
    /\ DOMAIN remoteRayInformation = Rays
    /\ \A y \in Rays : remoteRayInformation[y] # Pending =>
          /\ Filled(y)
          /\ \A r \in Ranks : pc[r] \in {"return", "ready"}

IInv == Types /\ InStep /\ Carried /\ Here /\ InMesh /\ Complete /\ Bounded /\ Kept

-----------------------------------------------------------------------------
(* A set of numbers with a bound has a largest one.                         *)
LEMMA NatsWellFounded == IsWellFoundedOn({ss \in Nat \X Nat : ss[1] < ss[2]}, Nat)
  BY NatLessThanWellFounded DEF OpToRel

LEMMA Largest ==
    ASSUME NEW S \in SUBSET Nat, S # {}, NEW n \in Nat, \A x \in S : x <= n
    PROVE  Max(S) \in S /\ \A x \in S : x <= Max(S)
<1> DEFINE T == {n - x : x \in S}
           R == {ss \in Nat \X Nat : ss[1] < ss[2]}
<1>1. T \subseteq Nat /\ T # {}
  <2>1. \A x \in S : x \in Nat /\ x <= n
    OBVIOUS
  <2>2. \A x \in Nat : x <= n => n - x \in Nat
    OBVIOUS
  <2>3. \A x \in S : n - x \in Nat
    BY <2>1, <2>2
  <2>4. T \subseteq Nat
    BY <2>3
  <2>5. PICK x \in S : TRUE
    OBVIOUS
  <2>6. n - x \in T
    OBVIOUS
  <2> QED BY <2>4, <2>6
<1>2. PICK t \in T : \A u \in T : ~ (<<u, t>> \in R)
  <2> HIDE DEF T, R
  <2>1. IsWellFoundedOn(R, Nat)
    BY NatsWellFounded DEF R
  <2> QED BY <1>1, <2>1, WFMin
<1>3. PICK m \in S : t = n - m
  OBVIOUS
<1>4. \A x \in S : m >= x
  <2> SUFFICES ASSUME NEW x \in S PROVE m >= x
    OBVIOUS
  <2>1. n - x \in T /\ ~ (<<n - x, t>> \in R)
    BY <1>2
  <2>2. ~ (n - x < n - m)
    BY <2>1, <1>3, <1>1
  <2> QED BY <2>2
<1> HIDE DEF T, R
<1>5. \E z \in S : \A x \in S : z >= x
  BY <1>4
<1>6. Max(S) \in S /\ \A x \in S : Max(S) >= x
  BY <1>5 DEF Max
<1> QED BY <1>6

-----------------------------------------------------------------------------
LEMMA InitInv == Init => IInv
<1> SUFFICES ASSUME Init PROVE IInv
  OBVIOUS
<1>1. \A y \in Rays : Identifier(y) \in Identifiers /\ Identifier(y).remoteRank = Decide /\ Identifier(y).nSegment = -1
  BY DEF Identifier, Identifiers, Decide
<1>2. \A r \in Ranks : \A p \in swarm[r] :
         p \in Particles /\ p.id.remoteRank = Decide /\ p.id.nSegment = -1
  BY <1>1 DEF Init, Particles, Launched
<1>3. Types
  <2>1. \A r \in Ranks : swarm[r] \in SUBSET Particles
    BY <1>2
  <2>2. swarm \in [Ranks -> SUBSET Particles]
    BY <2>1 DEF Init
  <2> QED BY <2>2 DEF Init, Types, Phases
<1>4. InStep
  BY DEF Init, InStep
<1>5. Carried
  BY <1>2 DEF Carried, Carries
<1>6. Here /\ InMesh
  BY DEF Init, Here, InMesh, Loops
<1>7. Complete
  <2>1. \A r \in Ranks : \A p \in swarm[r] : HasUpTo(p.id)
    BY <1>2 DEF HasUpTo
  <2>2. \A r \in Ranks : DOMAIN radReturn[r] = {}
    BY DEF Init
  <2> QED BY <2>1, <2>2 DEF Complete
<1>8. Bounded
  <2>1. \A r \in Ranks : DOMAIN radReturn[r] = {}
    BY DEF Init
  <2>2. \A r \in Ranks : \A p \in swarm[r] : p.id.nSegment <= 0
    BY <1>2
  <2> QED BY <2>1, <2>2 DEF Bounded
<1>9. Kept
  BY DEF Init, Kept
<1> QED BY <1>3, <1>4, <1>5, <1>6, <1>7, <1>8, <1>9 DEF IInv

(* A step that opens no segment and leaves the identifiers on the particles *)
(* as they are keeps what is said of them.                                  *)
LEMMA OldIdentifiers ==
    ASSUME IInv, radReturn' = radReturn,
           \A r \in Ranks : Len(raySegments'[r]) = Len(raySegments[r])
                            /\ DOMAIN raySegments'[r] = DOMAIN raySegments[r],
           \A r \in Ranks : \A p \in swarm'[r] : \E q \in Ranks : \E o \in swarm[q] : o.id = p.id
    PROVE  InStep' /\ Carried' /\ Complete' /\ Bounded'
<1>1. InStep'
  BY DEF IInv, InStep
<1>2. Carried'
  <2> SUFFICES ASSUME NEW r \in Ranks, NEW p \in swarm'[r] PROVE Carries(p)'
    BY DEF Carried
  <2>1. PICK q \in Ranks : \E o \in swarm[q] : o.id = p.id
    OBVIOUS
  <2>3. PICK o \in swarm[q] : o.id = p.id
    BY <2>1
  <2>2. Carries(o)
    BY DEF IInv, Carried
  <2> QED BY <2>3, <2>2 DEF Carries, Known
<1>3. \A y, s : Has(y, s) => Has(y, s)'
  BY DEF Has
<1>4. Complete'
  <2>1. ASSUME NEW r \in Ranks, NEW p \in swarm'[r] PROVE HasUpTo(p.id)'
    <3>1. PICK q \in Ranks : \E o \in swarm[q] : o.id = p.id
      OBVIOUS
    <3>3. PICK o \in swarm[q] : o.id = p.id
      BY <3>1
    <3>2. HasUpTo(o.id)
      BY DEF IInv, Complete
    <3> QED BY <3>3, <3>2, <1>3 DEF HasUpTo
  <2>2. ASSUME NEW r \in Ranks, NEW i \in DOMAIN radReturn'[r] PROVE HasUpTo(radReturn[r][i])'
    BY <1>3 DEF IInv, Complete, HasUpTo
  <2> QED BY <2>1, <2>2 DEF Complete
<1>5. Bounded'
  BY DEF IInv, Bounded
<1> QED BY <1>1, <1>2, <1>4, <1>5

(* What a step keeps that touches neither the PetscSF nor the segments and  *)
(* leaves no rank beyond the search.                                        *)
LEMMA KeptStays ==
    ASSUME IInv, remoteRayInformation' = remoteRayInformation,
           \/ pc' = pc
           \/ \E r \in Ranks : pc[r] \notin {"return", "ready"}
           \/ \A r \in Ranks : pc'[r] \in {"return", "ready"}
    PROVE  Kept'
<1>1. \A y \in Rays : remoteRayInformation[y] # Pending =>
         Filled(y)' /\ \A r \in Ranks : pc[r] \in {"return", "ready"}
  BY DEF IInv, Kept, Filled
<1>2. DOMAIN remoteRayInformation = Rays
  BY DEF IInv, Kept
<1> QED BY <1>1, <1>2 DEF Kept

-----------------------------------------------------------------------------
LEMMA PlaceType == ASSUME NEW p \in Particles PROVE Place(p) \in Cells \cup {Outside}
<1>1. Path[p.id.ray] \in Seq(Cells) /\ p.at \in Nat \ {0}
  BY PathAssumption DEF Particles, Identifiers
<1> QED BY <1>1 DEF Place

LEMMA MigrateInv ==
    ASSUME NEW from, NEW to \in {"bounds", "size"}, from \in {"setup", "migrate"},
           IInv, Migrate(from, to)
    PROVE  IInv'
<1>1. \A r \in Ranks : swarm'[r] = Migrated(r) /\ todo'[r] = Migrated(r) /\ pc'[r] = to /\ pc[r] = from
  BY DEF Migrate
<1>2. \A r \in Ranks : \A p \in Migrated(r) : \E q \in Ranks : p \in swarm[q]
  BY DEF Migrated
<1>3. Types'
  <2>1. \A r \in Ranks : Migrated(r) \subseteq Particles
    BY <1>2 DEF IInv, Types
  <2> QED BY <2>1 DEF IInv, Types, Migrate, Phases, Loops
<1>4. InStep' /\ Carried' /\ Complete' /\ Bounded'
  <2>1. raySegments' = raySegments /\ radReturn' = radReturn
    BY DEF Migrate
  <2> QED BY <2>1, <1>1, <1>2, OldIdentifiers
<1>5. Here'
  BY <1>1 DEF Here
<1>6. InMesh'
  <2>1. ASSUME NEW r \in Ranks, NEW p \in swarm'[r] PROVE Place(p) \in Cells
    <3>1. r \in FoundOn(p)
      BY <1>1 DEF Migrated
    <3>2. p \in Particles
      BY <1>3 DEF Types
    <3> QED BY <3>1, <3>2, PlaceType DEF FoundOn
  <2>2. ASSUME NEW p PROVE Place(p)' = Place(p)
    BY DEF Place
  <2> QED BY <1>1, <2>1, <2>2 DEF InMesh
<1>7. Kept'
  <2>1. \E r \in Ranks : pc[r] \notin {"return", "ready"}
    BY <1>1, MeshAssumption
  <2>2. remoteRayInformation' = remoteRayInformation
    BY DEF Migrate
  <2> QED BY <2>1, <2>2, KeptStays
<1> QED BY <1>3, <1>4, <1>5, <1>6, <1>7 DEF IInv

LEMMA GetSizeInv == ASSUME IInv, GetSize PROVE IInv'
<1>1. PICK next \in {"identify", "return"} : pc' = [r \in Ranks |-> next]
  BY DEF GetSize
<1>2. Types'
  BY <1>1 DEF IInv, Types, GetSize, Phases, Loops
<1>3. InStep' /\ Carried' /\ Complete' /\ Bounded'
  <2>1. raySegments' = raySegments /\ radReturn' = radReturn /\ swarm' = swarm
    BY DEF GetSize
  <2> QED BY <2>1, OldIdentifiers
<1>4. Here' /\ InMesh'
  <2>1. todo' = swarm' /\ swarm' = swarm /\ \A r \in Ranks : pc[r] = "size"
    BY DEF GetSize
  <2> QED BY <1>1, <2>1 DEF Here, IInv, InMesh, Place
<1>5. Kept'
  <2>1. \E r \in Ranks : pc[r] \notin {"return", "ready"}
    BY MeshAssumption DEF GetSize
  <2>2. remoteRayInformation' = remoteRayInformation
    BY DEF GetSize
  <2> QED BY <2>1, <2>2, KeptStays
<1> QED BY <1>2, <1>3, <1>4, <1>5 DEF IInv

LEMMA EndLoopInv == ASSUME IInv, NEW r \in Ranks, EndLoop(r) PROVE IInv'
<1>1. pc[r] \in Loops /\ todo[r] = {} /\ pc' = [pc EXCEPT ![r] = After[pc[r]]]
        /\ todo' = [todo EXCEPT ![r] = swarm[r]] /\ swarm' = swarm
  BY DEF EndLoop, After, Loops
<1>2. /\ pc[r] = "bounds" => pc'[r] = "size"
      /\ pc[r] = "identify" => pc'[r] = "step"
      /\ pc[r] = "step" => pc'[r] = "advance"
      /\ pc[r] = "advance" => pc'[r] = "migrate"
  BY <1>1 DEF After, IInv, Types
<1>3. Types'
  BY <1>1, <1>2 DEF IInv, Types, EndLoop, Phases, Loops
<1>4. InStep' /\ Carried' /\ Complete' /\ Bounded'
  <2>1. raySegments' = raySegments /\ radReturn' = radReturn /\ swarm' = swarm
    BY DEF EndLoop
  <2> QED BY <2>1, OldIdentifiers
<1>5. Here'
  BY <1>1, <1>2 DEF IInv, Types, Here, Loops
<1>6. InMesh'
  BY <1>1, <1>2 DEF IInv, Types, InMesh, Loops, Place
<1>7. Kept'
  <2>1. remoteRayInformation' = remoteRayInformation
    BY DEF EndLoop
  <2>2. pc[r] \notin {"return", "ready"}
    BY <1>1 DEF Loops
  <2> QED BY <2>1, <2>2, KeptStays
<1> QED BY <1>3, <1>4, <1>5, <1>6, <1>7 DEF IInv

LEMMA DeleteOutOfBoundsInv ==
    ASSUME IInv, NEW r \in Ranks, NEW p \in todo[r], DeleteOutOfBounds(r, p) PROVE IInv'
<1>1. pc[r] = "bounds" /\ todo' = [todo EXCEPT ![r] = @ \ {p}] /\ pc' = pc
        /\ swarm' \in {swarm, [swarm EXCEPT ![r] = @ \ {p}]}
        /\ raySegments' = raySegments /\ radReturn' = radReturn /\ remoteRayInformation' = remoteRayInformation
  BY DEF DeleteOutOfBounds, At, RemovePoint
<1>2. Types'
  BY <1>1 DEF IInv, Types
<1>3. InStep' /\ Carried' /\ Complete' /\ Bounded'
  <2>1. \A q \in Ranks : swarm'[q] \subseteq swarm[q]
    BY <1>1 DEF IInv, Types
  <2> QED BY <1>1, <2>1, OldIdentifiers
<1>4. Here' /\ InMesh'
  <2>1. Here'
    BY <1>1 DEF IInv, Types, Here, Loops
  <2>2. InMesh'
    BY <1>1 DEF IInv, Types, InMesh, Place
  <2> QED BY <2>1, <2>2
<1>5. Kept'
  BY <1>1, KeptStays
<1> QED BY <1>2, <1>3, <1>4, <1>5 DEF IInv

(* A sequence with another element, or, at a place it has not, as it was.   *)
LEMMA ExceptKeepsSeq ==
    ASSUME NEW S, NEW s \in Seq(S), NEW k, NEW v, k \in DOMAIN s => v \in S
    PROVE  /\ [s EXCEPT ![k] = v] \in Seq(S)
           /\ Len([s EXCEPT ![k] = v]) = Len(s)
           /\ DOMAIN [s EXCEPT ![k] = v] = DOMAIN s
<1> DEFINE t == [s EXCEPT ![k] = v]
<1>1. DOMAIN t = 1..Len(s) /\ Len(s) \in Nat
  OBVIOUS
<1>2. \A i \in 1..Len(s) : t[i] \in S
  OBVIOUS
<1>3. t = [i \in 1..Len(s) |-> t[i]]
  BY <1>1
<1> HIDE DEF t
<1>4. t \in Seq(S) /\ Len(t) = Len(s)
  BY <1>1, <1>2, <1>3
<1> QED BY <1>1, <1>4 DEF t

(* A segment that receives a cell is still there, and no other one changes. *)
LEMMA AddSegmentKeeps ==
    ASSUME IInv, NEW r \in Ranks, NEW p \in swarm[r], NEW wall \in BOOLEAN, Place(p) \in Cells,
           AddSegment(r, p, [cell |-> Place(p), wall |-> wall])
    PROVE  /\ raySegments' \in [Ranks -> Seq(Seq(Segments))]
           /\ \A q \in Ranks : Len(raySegments'[q]) = Len(raySegments[q])
                               /\ DOMAIN raySegments'[q] = DOMAIN raySegments[q]
<1> DEFINE k == p.id.remoteRayId
           segment == [cell |-> Place(p), wall |-> wall]
           longer  == IF Len(raySegments[r][k]) < MaxSegment THEN Append(raySegments[r][k], segment) ELSE raySegments[r][k]
<1>1. raySegments' = [raySegments EXCEPT ![r] = [raySegments[r] EXCEPT ![k] = longer]]
  BY DEF AddSegment, IInv, Types
<1>2. segment \in Segments
  BY DEF Segments
<1>3. raySegments[r] \in Seq(Seq(Segments))
  BY DEF IInv, Types
<1>5. k \in DOMAIN raySegments[r] => longer \in Seq(Segments)
  <2> SUFFICES ASSUME k \in DOMAIN raySegments[r] PROVE longer \in Seq(Segments)
    OBVIOUS
  <2>1. raySegments[r][k] \in Seq(Segments)
    BY <1>3
  <2> HIDE DEF segment, k
  <2> QED BY <2>1, <1>2
<1> HIDE DEF longer, k
<1>6. /\ [raySegments[r] EXCEPT ![k] = longer] \in Seq(Seq(Segments))
      /\ Len([raySegments[r] EXCEPT ![k] = longer]) = Len(raySegments[r])
      /\ DOMAIN [raySegments[r] EXCEPT ![k] = longer] = DOMAIN raySegments[r]
  BY <1>3, <1>5, ExceptKeepsSeq
<1>7. raySegments \in [Ranks -> Seq(Seq(Segments))]
  BY DEF IInv, Types
<1> HIDE DEF segment
<1> QED BY <1>1, <1>6, <1>7

LEMMA ParticleStepInv ==
    ASSUME IInv, NEW r \in Ranks, NEW p \in todo[r], ParticleStep(r, p) PROVE IInv'
<1>1. pc[r] = "step" /\ todo' = [todo EXCEPT ![r] = @ \ {p}] /\ pc' = pc /\ swarm' = swarm
        /\ radReturn' = radReturn /\ remoteRayInformation' = remoteRayInformation
  BY DEF ParticleStep, At
<1>2. p \in swarm[r] /\ p \in Particles /\ Place(p) \in Cells
  BY <1>1 DEF IInv, Here, InMesh, Types, Loops
<1>3. /\ raySegments' \in [Ranks -> Seq(Seq(Segments))]
      /\ \A q \in Ranks : Len(raySegments'[q]) = Len(raySegments[q])
                          /\ DOMAIN raySegments'[q] = DOMAIN raySegments[q]
  <2>1. CASE Place(p) \in SubDomain
    <3>1. AddSegment(r, p, [cell |-> Place(p), wall |-> FALSE])
      BY <2>1 DEF ParticleStep
    <3> QED BY <3>1, <1>2, AddSegmentKeeps
  <2>2. CASE Place(p) \notin SubDomain
    BY <2>2 DEF ParticleStep, IInv, Types
  <2> QED BY <2>1, <2>2
<1>4. Types'
  BY <1>1, <1>3 DEF IInv, Types
<1>5. InStep' /\ Carried' /\ Complete' /\ Bounded'
  BY <1>1, <1>3, OldIdentifiers
<1>6. Here' /\ InMesh'
  <2>1. Here'
    BY <1>1 DEF IInv, Types, Here, Loops
  <2>2. InMesh'
    BY <1>1 DEF IInv, Types, InMesh, Place
  <2> QED BY <2>1, <2>2
<1>7. Kept'
  BY <1>1, KeptStays
<1> QED BY <1>4, <1>5, <1>6, <1>7 DEF IInv

LEMMA AdvanceInv ==
    ASSUME IInv, NEW r \in Ranks, NEW p \in todo[r], Advance(r, p) PROVE IInv'
<1>1. pc[r] = "advance" /\ todo' = [todo EXCEPT ![r] = @ \ {p}] /\ pc' = pc
        /\ radReturn' = radReturn /\ remoteRayInformation' = remoteRayInformation
  BY DEF Advance, At
<1>2. p \in swarm[r] /\ p \in Particles /\ Place(p) \in Cells
  BY <1>1 DEF IInv, Here, InMesh, Types, Loops
<1>3. Moved(p) \in Particles /\ Moved(p).id = p.id
  BY <1>2 DEF Moved, Particles
<1>4. swarm' \in {[swarm EXCEPT ![r] = @ \ {p}], [swarm EXCEPT ![r] = (@ \ {p}) \cup {Moved(p)}]}
  BY DEF Advance, RemovePoint, Update
<1>5. /\ raySegments' \in [Ranks -> Seq(Seq(Segments))]
      /\ \A q \in Ranks : Len(raySegments'[q]) = Len(raySegments[q])
                          /\ DOMAIN raySegments'[q] = DOMAIN raySegments[q]
  <2>1. CASE Ends(p)
    <3>1. AddSegment(r, p, [cell |-> Place(p), wall |-> TRUE])
      BY <2>1 DEF Advance
    <3> QED BY <3>1, <1>2, AddSegmentKeeps
  <2>2. CASE ~ Ends(p)
    BY <2>2 DEF Advance, IInv, Types
  <2> QED BY <2>1, <2>2
<1> HIDE DEF Moved
<1>6. Types'
  BY <1>1, <1>3, <1>4, <1>5 DEF IInv, Types
<1>7. InStep' /\ Carried' /\ Complete' /\ Bounded'
  <2>1. \A q \in Ranks : \A o \in swarm'[q] : \E n \in swarm[q] : n.id = o.id
    BY <1>2, <1>3, <1>4 DEF IInv, Types
  <2> QED BY <1>1, <1>5, <2>1, OldIdentifiers
<1>8. Here' /\ InMesh'
  <2>1. Here'
    BY <1>1, <1>2, <1>3, <1>4 DEF IInv, Types, Here, Loops
  <2>2. InMesh'
    BY <1>1, <1>4 DEF IInv, Types, InMesh, Place
  <2> QED BY <2>1, <2>2
<1>9. Kept'
  BY <1>1, KeptStays
<1> QED BY <1>6, <1>7, <1>8, <1>9 DEF IInv

(* Writing the element that was just appended.                              *)
LEMMA WriteLast ==
    ASSUME NEW S, NEW s \in Seq(S), NEW u, NEW v
    PROVE  [Append(s, u) EXCEPT ![Len(s) + 1] = v] = Append(s, v)
<1> DEFINE n == Len(s) + 1
<1>1. s \in Seq(S \cup {u, v}) /\ n \in Nat
  OBVIOUS
<1>2. \A x \in {u, v} : Append(s, x) = [i \in 1..n |-> IF i = n THEN x ELSE s[i]]
  <2> SUFFICES ASSUME NEW x \in {u, v} PROVE Append(s, x) = [i \in 1..n |-> IF i = n THEN x ELSE s[i]]
    OBVIOUS
  <2>1. Append(s, x) \in Seq(S \cup {u, v}) /\ Len(Append(s, x)) = n
    BY <1>1
  <2>2. \A i \in 1..n : Append(s, x)[i] = IF i = n THEN x ELSE s[i]
    <3>1. Append(s, x)[n] = x
      BY <1>1
    <3>2. \A i \in 1..Len(s) : Append(s, x)[i] = s[i]
      BY <1>1
    <3>3. \A i \in 1..n : i = n \/ i \in 1..Len(s)
      BY <1>1
    <3> HIDE DEF n
    <3> QED BY <3>1, <3>2, <3>3
  <2>3. Append(s, x) = [i \in 1..n |-> Append(s, x)[i]]
    <3>1. \A t \in Seq(S \cup {u, v}) : t = [i \in 1..Len(t) |-> t[i]]
      OBVIOUS
    <3> HIDE DEF n
    <3> QED BY <2>1, <3>1, Zenon
  <2> QED BY <2>2, <2>3
<1>3. [Append(s, u) EXCEPT ![n] = v] = [i \in 1..n |-> IF i = n THEN v ELSE Append(s, u)[i]]
  BY <1>2
<1>4. \A i \in 1..n : i # n => Append(s, u)[i] = s[i]
  BY <1>2
<1>5. [Append(s, u) EXCEPT ![n] = v] = [i \in 1..n |-> IF i = n THEN v ELSE s[i]]
  BY <1>3, <1>4
<1> QED BY <1>2, <1>5

(* The new segment of a rank, its entry and the identifier of the particle. *)
LEMMA OpenSegmentDoes ==
    ASSUME IInv, NEW r \in Ranks, NEW p \in todo[r], pc[r] = "identify", OpenSegment(r, p)
    PROVE  \E id \in Entry, q \in Particles :
               /\ id.ray = p.id.ray /\ id.remoteRank = r /\ id.remoteRayId = Len(raySegments[r]) + 1
               /\ id.nSegment = p.id.nSegment + 1 /\ q.id = id /\ q.at = p.at
               /\ swarm' = [swarm EXCEPT ![r] = (@ \ {p}) \cup {q}]
               /\ raySegments' = [raySegments EXCEPT ![r] = Append(@, <<>>)]
               /\ radReturn' = [radReturn EXCEPT ![r] = Append(@, id)]
<1> DEFINE slot == Len(raySegments[r]) + 1
           id   == [ray |-> p.id.ray, remoteRank |-> r, remoteRayId |-> slot, nSegment |-> p.id.nSegment + 1]
           q    == [p EXCEPT !.id = id]
<1>1. p \in Particles /\ p.id.nSegment \in Nat \cup {-1}
  BY DEF IInv, Here, Types, Loops, Carried, Carries
<1>2. raySegments[r] \in Seq(Seq(Segments)) /\ radReturn[r] \in Seq(Entry) /\ Len(radReturn[r]) = Len(raySegments[r])
  BY DEF IInv, Types, InStep
<1>3. /\ id \in Entry /\ id \in Identifiers
      /\ id.ray = p.id.ray /\ id.remoteRank = r /\ id.remoteRayId = slot /\ id.nSegment = p.id.nSegment + 1
  <2>1. p.id \in Identifiers /\ p.id.nSegment + 1 \in Nat
    BY <1>1 DEF Particles
  <2>2. slot \in Nat
    BY <1>2
  <2> HIDE DEF slot
  <2>3. p.id.ray \in Rays
    BY <2>1 DEF Identifiers
  <2> QED BY <2>1, <2>2, <2>3 DEF Entry, Identifiers
<1>4. q \in Particles /\ q.id = id /\ q.at = p.at
  BY <1>1, <1>3 DEF Particles
<1>5. swarm' = [swarm EXCEPT ![r] = (@ \ {p}) \cup {q}]
  BY DEF OpenSegment, Update
<1>6. raySegments' = [raySegments EXCEPT ![r] = Append(@, <<>>)]
  BY DEF OpenSegment
<1>7. radReturn' = [radReturn EXCEPT ![r] = Append(@, id)]
  <2>1. [Append(radReturn[r], Unset) EXCEPT ![slot] = id] = Append(radReturn[r], id)
    <3> HIDE DEF id
    <3> QED BY <1>2, WriteLast
  <2>2. radReturn' = [radReturn EXCEPT ![r] = [Append(radReturn[r], Unset) EXCEPT ![slot] = id]]
    BY DEF OpenSegment, IInv, Types
  <2> HIDE DEF id
  <2> QED BY <2>1, <2>2
<1> HIDE DEF id, q
<1> QED BY <1>3, <1>4, <1>5, <1>6, <1>7

LEMMA OpenSegmentInv ==
    ASSUME IInv, NEW r \in Ranks, NEW p \in todo[r], pc[r] = "identify", pc' = pc,
           todo' = [todo EXCEPT ![r] = @ \ {p}], OpenSegment(r, p), remoteRayInformation' = remoteRayInformation
    PROVE  IInv'
<1> DEFINE slot == Len(raySegments[r]) + 1
<1>1. p \in swarm[r] /\ p \in Particles
  BY DEF IInv, Here, Types, Loops
<1>2. p.id.nSegment \in Nat \cup {-1}
  BY <1>1 DEF IInv, Carried, Carries
<1>3. raySegments[r] \in Seq(Seq(Segments)) /\ radReturn[r] \in Seq(Entry) /\ Len(radReturn[r]) = Len(raySegments[r])
  BY DEF IInv, Types, InStep
<1>4. PICK id \in Entry, q \in Particles :
         /\ id.ray = p.id.ray /\ id.remoteRank = r /\ id.remoteRayId = Len(raySegments[r]) + 1
         /\ id.nSegment = p.id.nSegment + 1 /\ q.id = id /\ q.at = p.at
         /\ swarm' = [swarm EXCEPT ![r] = (@ \ {p}) \cup {q}]
         /\ raySegments' = [raySegments EXCEPT ![r] = Append(@, <<>>)]
         /\ radReturn' = [radReturn EXCEPT ![r] = Append(@, id)]
  BY OpenSegmentDoes
<1>5. /\ slot \in Nat /\ id.ray = p.id.ray /\ id.remoteRank = r /\ id.remoteRayId = slot
      /\ id.nSegment = p.id.nSegment + 1 /\ id.nSegment \in Nat
  BY <1>3, <1>4 DEF Entry
<1>6. swarm' = [swarm EXCEPT ![r] = (@ \ {p}) \cup {q}]
  BY <1>4
<1>7. raySegments' = [raySegments EXCEPT ![r] = Append(@, <<>>)]
  BY <1>4
<1>8. radReturn' = [radReturn EXCEPT ![r] = Append(@, id)]
  BY <1>4
<1>9. Types'
  <2>1. Append(raySegments[r], <<>>) \in Seq(Seq(Segments)) /\ Append(radReturn[r], id) \in Seq(Entry)
    BY <1>3, <1>5
  <2>2. (swarm[r] \ {p}) \cup {q} \in SUBSET Particles /\ todo[r] \ {p} \in SUBSET Particles
    BY <1>4 DEF IInv, Types
  <2> QED BY <1>6, <1>7, <1>8, <2>1, <2>2 DEF IInv, Types
<1>10. /\ DOMAIN radReturn'[r] = 1..slot /\ DOMAIN raySegments'[r] = 1..slot
       /\ Len(radReturn'[r]) = slot /\ Len(raySegments'[r]) = slot
       /\ radReturn'[r][slot] = id /\ slot \in 1..slot
       /\ DOMAIN radReturn[r] = 1..slot - 1 /\ DOMAIN raySegments[r] = 1..slot - 1
       /\ \A i \in 1..slot - 1 : radReturn'[r][i] = radReturn[r][i]
  <2>1. radReturn'[r] = Append(radReturn[r], id) /\ raySegments'[r] = Append(raySegments[r], <<>>)
    BY <1>7, <1>8 DEF IInv, Types
  <2> QED BY <2>1, <1>3, <1>5
<1>11. \A o \in Ranks \ {r} : raySegments'[o] = raySegments[o] /\ radReturn'[o] = radReturn[o]
  BY <1>7, <1>8 DEF IInv, Types
<1>12. \A i \in 1..slot : i \in 1..slot - 1 \/ i = slot
  BY <1>5
<1>13. InStep'
  <2> SUFFICES ASSUME NEW o \in Ranks
               PROVE /\ Len(radReturn'[o]) = Len(raySegments'[o])
                     /\ \A i \in DOMAIN radReturn'[o] : radReturn'[o][i].remoteRank = o /\ radReturn'[o][i].remoteRayId = i
    BY DEF InStep
  <2>1. CASE o = r
    BY <2>1, <1>5, <1>10, <1>12 DEF IInv, InStep
  <2>2. CASE o # r
    BY <2>2, <1>11 DEF IInv, InStep
  <2> QED BY <2>1, <2>2
<1>14. \A i : Known(i) => Known(i)'
  <2>1. 1..slot - 1 \subseteq 1..slot
    BY <1>5
  <2> QED BY <2>1, <1>10, <1>11 DEF Known
<1>15. \A o \in Ranks : \A m \in swarm'[o] : m = q \/ m \in swarm[o]
  BY <1>6 DEF IInv, Types
<1>16. Carried'
  <2>1. Known(id)'
    BY <1>5, <1>10 DEF Known
  <2> SUFFICES ASSUME NEW o \in Ranks, NEW m \in swarm'[o] PROVE Carries(m)'
    BY DEF Carried
  <2>2. CASE m = q
    <3>1. m.id = id /\ id.nSegment \in Nat
      BY <2>2, <1>5, <1>4
    <3> QED BY <3>1, <2>1 DEF Carries, Known
  <2>3. CASE m \in swarm[o]
    BY <2>3, <1>14 DEF IInv, Carried, Carries
  <2> QED BY <2>2, <2>3, <1>15
<1>17. \A y, s : Has(y, s) => Has(y, s)'
  <2> SUFFICES ASSUME NEW y, NEW s, Has(y, s) PROVE Has(y, s)'
    OBVIOUS
  <2>1. PICK o \in Ranks : \E i \in DOMAIN radReturn[o] : radReturn[o][i].ray = y /\ radReturn[o][i].nSegment = s
    BY DEF Has
  <2>2. PICK i \in DOMAIN radReturn[o] : radReturn[o][i].ray = y /\ radReturn[o][i].nSegment = s
    BY <2>1
  <2>3. i \in DOMAIN radReturn'[o] /\ radReturn'[o][i] = radReturn[o][i]
    <3>1. 1..slot - 1 \subseteq 1..slot
      BY <1>5
    <3> QED BY <3>1, <1>10, <1>11
  <2> QED BY <2>2, <2>3 DEF Has
<1>18. Complete'
  <2>1. HasUpTo(id)'
    <3>1. Has(id.ray, id.nSegment)'
      <4>1. radReturn'[r][slot].ray = id.ray /\ radReturn'[r][slot].nSegment = id.nSegment /\ slot \in DOMAIN radReturn'[r]
        BY <1>10
      <4> HIDE DEF slot
      <4> QED BY <4>1 DEF Has
    <3>2. \A s \in 0..id.nSegment : s = id.nSegment \/ s \in 0..p.id.nSegment
      BY <1>2, <1>5
    <3>3. HasUpTo(p.id)
      BY <1>1 DEF IInv, Complete
    <3>4. id.ray = p.id.ray
      BY <1>5
    <3> QED BY <3>1, <3>2, <3>3, <3>4, <1>17 DEF HasUpTo
  <2>2. \A i : HasUpTo(i) => HasUpTo(i)'
    BY <1>17 DEF HasUpTo
  <2>3. ASSUME NEW o \in Ranks, NEW m \in swarm'[o] PROVE HasUpTo(m.id)'
    <3>1. CASE m = q
      <4>1. m.id = id
        BY <3>1, <1>4
      <4> QED BY <4>1, <2>1 DEF HasUpTo
    <3>2. CASE m \in swarm[o]
      BY <3>2, <2>2 DEF IInv, Complete
    <3> QED BY <3>1, <3>2, <1>15
  <2>4. ASSUME NEW o \in Ranks, NEW i \in DOMAIN radReturn'[o] PROVE HasUpTo(radReturn[o][i])'
    <3>1. CASE o = r /\ i = slot
      <4>1. radReturn'[o][i] = id
        BY <3>1, <1>10
      <4> QED BY <4>1, <2>1 DEF HasUpTo
    <3>2. CASE ~ (o = r /\ i = slot)
      <4>1. i \in DOMAIN radReturn[o] /\ radReturn'[o][i] = radReturn[o][i]
        BY <3>2, <1>10, <1>11, <1>12
      <4>2. HasUpTo(radReturn[o][i])
        BY <4>1 DEF IInv, Complete
      <4> QED BY <4>1, <4>2, <1>17 DEF HasUpTo
    <3> QED BY <3>1, <3>2
  <2> QED BY <2>3, <2>4 DEF Complete
<1>19. Bounded'
  <2>1. PICK n \in Nat : /\ \A o \in Ranks : \A m \in swarm[o] : m.id.nSegment <= n
                         /\ \A o \in Ranks : \A i \in DOMAIN radReturn[o] : radReturn[o][i].nSegment <= n
    BY DEF IInv, Bounded
  <2>2. n + 1 \in Nat /\ id.nSegment <= n + 1
    BY <2>1, <1>1, <1>2, <1>5
  <2>3. ASSUME NEW o \in Ranks, NEW m \in swarm'[o] PROVE m.id.nSegment <= n + 1
    <3>1. CASE m = q
      BY <3>1, <2>2, <1>4
    <3>2. CASE m \in swarm[o]
      <4>1. m.id.nSegment <= n /\ m.id.nSegment \in Int
        BY <3>2, <2>1 DEF IInv, Types, Particles, Identifiers
      <4> QED BY <4>1
    <3> QED BY <3>1, <3>2, <1>15
  <2>4. ASSUME NEW o \in Ranks, NEW i \in DOMAIN radReturn'[o] PROVE radReturn'[o][i].nSegment <= n + 1
    <3>1. CASE o = r /\ i = slot
      BY <3>1, <2>2, <1>10
    <3>2. CASE ~ (o = r /\ i = slot)
      <4>1. i \in DOMAIN radReturn[o] /\ radReturn'[o][i] = radReturn[o][i]
        BY <3>2, <1>10, <1>11, <1>12
      <4>2. radReturn[o] \in Seq(Entry)
        BY DEF IInv, Types
      <4>3. radReturn[o][i] \in Entry
        BY <4>1, <4>2
      <4>4. radReturn[o][i].nSegment <= n /\ radReturn[o][i].nSegment \in Nat
        BY <4>1, <4>3, <2>1 DEF Entry
      <4> QED BY <4>1, <4>4
    <3> QED BY <3>1, <3>2
  <2> QED BY <2>2, <2>3, <2>4 DEF Bounded
<1>20. Here'
  BY <1>1, <1>5, <1>4, <1>6 DEF IInv, Types, Here, Loops
<1>21. InMesh'
  <2>1. Place(p) \in Cells /\ Place(q) = Place(p)
    BY <1>1, <1>5, <1>4 DEF IInv, InMesh, Place
  <2>2. \A m : Place(m)' = Place(m)
    BY DEF Place
  <2>3. \A o \in Ranks : todo'[o] \subseteq todo[o]
    BY DEF IInv, Types
  <2> QED BY <2>1, <2>2, <2>3, <1>15 DEF IInv, InMesh
<1>22. Kept'
  BY KeptStays
<1> QED BY <1>9, <1>13, <1>16, <1>18, <1>19, <1>20, <1>21, <1>22 DEF IInv

LEMMA IdentifyNewRayInv ==
    ASSUME IInv, NEW r \in Ranks, NEW p \in todo[r], IdentifyNewRay(r, p) PROVE IInv'
<1>1. pc[r] = "identify" /\ todo' = [todo EXCEPT ![r] = @ \ {p}] /\ pc' = pc
        /\ remoteRayInformation' = remoteRayInformation
  BY DEF IdentifyNewRay, At
<1>2. CASE New(r, p)
  <2>1. OpenSegment(r, p)
    BY <1>2 DEF IdentifyNewRay
  <2> QED BY <1>1, <2>1, OpenSegmentInv
<1>3. CASE ~ New(r, p)
  <2>1. swarm' = swarm /\ raySegments' = raySegments /\ radReturn' = radReturn /\ p.id.remoteRank = r
    BY <1>3 DEF IdentifyNewRay, New
  <2>2. Types'
    BY <1>1, <2>1 DEF IInv, Types
  <2>3. InStep' /\ Carried' /\ Complete' /\ Bounded'
    BY <2>1, OldIdentifiers
  <2>4. Here'
    BY <1>1, <2>1 DEF IInv, Types, Here, Loops
  <2>5. InMesh'
    BY <1>1, <2>1 DEF IInv, Types, InMesh, Place
  <2>6. Kept'
    BY <1>1, KeptStays
  <2> QED BY <2>2, <2>3, <2>4, <2>5, <2>6 DEF IInv
<1> QED BY <1>2, <1>3

-----------------------------------------------------------------------------
(* What the origins receive are the entries of the ranks.                   *)
LEMMA EntriesReturned ==
    ASSUME Types, NEW y
    PROVE  /\ \A id \in Returned(y) : id \in Entry /\ id.ray = y
                 /\ \E r \in Ranks : \E i \in DOMAIN radReturn[r] : id = radReturn[r][i]
           /\ \A r \in Ranks : \A i \in DOMAIN radReturn[r] :
                 radReturn[r][i].ray = y => radReturn[r][i] \in Returned(y)
<1>1. \A r \in Ranks : \A i \in DOMAIN radReturn[r] : radReturn[r][i] \in Entry
  <2> SUFFICES ASSUME NEW r \in Ranks PROVE \A i \in DOMAIN radReturn[r] : radReturn[r][i] \in Entry
    OBVIOUS
  <2>1. radReturn[r] \in Seq(Entry)
    BY DEF Types
  <2> QED BY <2>1
<1>2. \A e \in Entry : e # Unset
  BY DEF Entry, Unset
<1>3. \A r \in Ranks : Entries(r) = {radReturn[r][i] : i \in DOMAIN radReturn[r]}
  BY <1>1, <1>2 DEF Entries
<1> QED BY <1>1, <1>3 DEF Returned

LEMMA SegmentsCounted == ASSUME IInv, NEW y PROVE SegmentsOf(y) \in Nat
<1> DEFINE S == {0} \cup {id.nSegment + 1 : id \in Returned(y)}
<1>1. PICK n \in Nat : \A r \in Ranks : \A i \in DOMAIN radReturn[r] : radReturn[r][i].nSegment <= n
  BY DEF IInv, Bounded
<1>2. \A id \in Returned(y) : id.nSegment \in Nat /\ id.nSegment <= n
  BY <1>1, EntriesReturned DEF IInv, Entry
<1>3. S \in SUBSET Nat /\ S # {} /\ n + 1 \in Nat /\ \A x \in S : x <= n + 1
  BY <1>2
<1>4. SegmentsOf(y) = Max(S)
  BY DEF SegmentsOf
<1> HIDE DEF S
<1> QED BY <1>3, <1>4, Largest

(* Every number below that of the farthest segment has its entry.           *)
LEMMA NoGap ==
    ASSUME IInv, NEW y, NEW s \in 1..SegmentsOf(y)
    PROVE  {id \in Returned(y) : id.nSegment + 1 = s} # {}
<1> DEFINE S == {0} \cup {id.nSegment + 1 : id \in Returned(y)}
<1>1. PICK n \in Nat : \A r \in Ranks : \A i \in DOMAIN radReturn[r] : radReturn[r][i].nSegment <= n
  BY DEF IInv, Bounded
<1>2. \A id \in Returned(y) : id.nSegment \in Nat /\ id.nSegment <= n /\ HasUpTo(id) /\ id.ray = y
  BY <1>1, EntriesReturned DEF IInv, Complete, Entry
<1>3. S \in SUBSET Nat /\ S # {} /\ n + 1 \in Nat /\ \A x \in S : x <= n + 1
  BY <1>2
<1>4. PICK m \in S : m = SegmentsOf(y)
  <2>1. SegmentsOf(y) = Max(S)
    BY DEF SegmentsOf
  <2> HIDE DEF S
  <2> QED BY <2>1, <1>3, Largest
<1>5. m \in Nat /\ s \in Nat /\ 1 <= s /\ s <= m
  BY <1>3, <1>4
<1>6. PICK far \in Returned(y) : far.nSegment + 1 = m
  BY <1>5
<1> HIDE DEF S
<1>7. s - 1 \in 0..far.nSegment
  BY <1>2, <1>5, <1>6
<1>8. Has(y, s - 1)
  BY <1>2, <1>7 DEF HasUpTo
<1>9. PICK r \in Ranks : \E i \in DOMAIN radReturn[r] : radReturn[r][i].ray = y /\ radReturn[r][i].nSegment = s - 1
  BY <1>8 DEF Has
<1>10. PICK i \in DOMAIN radReturn[r] : radReturn[r][i].ray = y /\ radReturn[r][i].nSegment = s - 1
  BY <1>9
<1>11. radReturn[r][i] \in Returned(y)
  BY <1>10, EntriesReturned DEF IInv
<1> QED BY <1>5, <1>10, <1>11

LEMMA ReturnRayInv == ASSUME IInv, NEW y \in Rays, ReturnRay(y) PROVE IInv'
<1>1. UNCHANGED <<pc, todo, swarm, raySegments, radReturn>> /\ \A r \in Ranks : pc[r] = "return"
  BY DEF ReturnRay, search
<1>2. Types' /\ Here' /\ InMesh'
  BY <1>1 DEF IInv, Types, Here, InMesh, Place
<1>3. InStep' /\ Carried' /\ Complete' /\ Bounded'
  BY <1>1, OldIdentifiers
<1>4. PICK info \in [1..SegmentsOf(y) -> Returned(y) \cup {Unset}] :
         /\ \A s \in DOMAIN info :
               LET here == {id \in Returned(y) : id.nSegment + 1 = s}
               IN info[s] \in (IF here = {} THEN {Unset} ELSE here)
         /\ remoteRayInformation' = [remoteRayInformation EXCEPT ![y] = info]
  BY DEF ReturnRay
<1>5. ASSUME NEW s \in DOMAIN info
      PROVE  info[s] # Unset /\ info[s].ray = y /\ info[s].nSegment + 1 = s
  <2>1. info[s] \in {id \in Returned(y) : id.nSegment + 1 = s}
    BY <1>4, NoGap
  <2>2. info[s] \in Returned(y) /\ info[s].nSegment + 1 = s
    BY <2>1
  <2>3. info[s] \in Entry /\ info[s].ray = y
    BY <2>2, EntriesReturned DEF IInv
  <2> QED BY <2>2, <2>3 DEF Entry, Unset
<1>6. DOMAIN remoteRayInformation = Rays
  BY DEF IInv, Kept
<1>7. Kept'
  <2>1. DOMAIN remoteRayInformation' = Rays
    BY <1>4, <1>6
  <2>2. ASSUME NEW z \in Rays, remoteRayInformation'[z] # Pending PROVE Filled(z)'
    <3>1. CASE z = y
      <4>1. remoteRayInformation'[z] = info
        BY <3>1, <1>4, <1>6
      <4> QED BY <3>1, <4>1, <1>5 DEF Filled
    <3>2. CASE z # y
      <4>1. remoteRayInformation'[z] = remoteRayInformation[z]
        BY <3>2, <1>4
      <4>2. Filled(z)
        BY <2>2, <4>1 DEF IInv, Kept
      <4> QED BY <4>1, <4>2 DEF Filled
    <3> QED BY <3>1, <3>2
  <2> QED BY <2>1, <2>2, <1>1 DEF Kept
<1> QED BY <1>2, <1>3, <1>7 DEF IInv

(* The rest of the computation leaves the search and the PetscSF alone.     *)
LEMMA SolveKeeps ==
    ASSUME IInv, UNCHANGED <<search, remoteRayInformation>>,
           pc' = pc \/ pc' = [r \in Ranks |-> "ready"]
    PROVE  IInv'
<1>1. UNCHANGED <<todo, swarm, raySegments, radReturn, remoteRayInformation>>
  BY DEF search
<1>2. Types'
  BY <1>1 DEF IInv, Types, Phases
<1>3. InStep' /\ Carried' /\ Complete' /\ Bounded'
  BY <1>1, OldIdentifiers
<1>4. Here' /\ InMesh'
  BY <1>1 DEF IInv, Here, InMesh, Loops, Place
<1>5. Kept'
  BY <1>1, KeptStays
<1> QED BY <1>2, <1>3, <1>4, <1>5 DEF IInv

LEMMA NextInv == IInv /\ [Next]_vars => IInv'
<1> SUFFICES ASSUME IInv, [Next]_vars PROVE IInv'
  OBVIOUS
<1>1. CASE SetupMigrate \/ RoundMigrate
  BY <1>1, MigrateInv DEF SetupMigrate, RoundMigrate
<1>2. CASE GetSize
  BY <1>2, GetSizeInv
<1>3. CASE \E r \in Ranks : EndLoop(r)
  BY <1>3, EndLoopInv
<1>4. CASE \E r \in Ranks : \E p \in todo[r] :
              DeleteOutOfBounds(r, p) \/ IdentifyNewRay(r, p) \/ ParticleStep(r, p) \/ Advance(r, p)
  BY <1>4, DeleteOutOfBoundsInv, IdentifyNewRayInv, ParticleStepInv, AdvanceInv
<1>5. CASE \E y \in Rays : ReturnRay(y)
  BY <1>5, ReturnRayInv
<1>6. CASE SetUp
  BY <1>6, SolveKeeps DEF SetUp
<1>7. CASE EvaluateGains
  BY <1>7, SolveKeeps DEF EvaluateGains
<1>8. CASE FlowStep
  BY <1>8, SolveKeeps DEF FlowStep
<1>9. CASE UNCHANGED vars
  BY <1>9, SolveKeeps DEF vars
<1> QED BY <1>1, <1>2, <1>3, <1>4, <1>5, <1>6, <1>7, <1>8, <1>9 DEF Next

LEMMA InvAlways == Spec => []IInv
  BY InitInv, NextInv, PTL DEF Spec

(* Whatever the mesh, the partition and the rays, and in whatever order the *)
(* particles of a rank are taken: identifyNewRays, particleStep and the     *)
(* broadcast of the carriers index a segment that exists, and no two        *)
(* entries for the origins share one.                                       *)
THEOREM SegmentsAlwaysExist == Spec => []SegmentsExist
<1>1. IInv => SegmentsExist
  <2> SUFFICES ASSUME IInv PROVE SegmentsExist
    OBVIOUS
  <2>1. \A r \in Ranks : Entries(r) \subseteq {radReturn[r][i] : i \in DOMAIN radReturn[r]}
    BY DEF Entries
  <2>2. ASSUME NEW r \in Ranks, NEW p \in swarm[r], pc[r] \in {"step", "advance"}
        PROVE  p.id.remoteRank = r /\ Known(p.id)
    BY <2>2, NamesAssumption DEF IInv, Here, Carried, Carries
  <2>3. ASSUME NEW r \in Ranks, NEW id \in Entries(r)
        PROVE  id.remoteRank = r /\ Known(id) /\ id = radReturn[r][id.remoteRayId]
    <3>1. PICK i \in DOMAIN radReturn[r] : id = radReturn[r][i]
      BY <2>1
    <3>2. id.remoteRank = r /\ id.remoteRayId = i /\ Len(radReturn[r]) = Len(raySegments[r])
      BY <3>1 DEF IInv, InStep
    <3>3. DOMAIN radReturn[r] = DOMAIN raySegments[r]
      BY <3>2 DEF IInv, Types
    <3> QED BY <3>1, <3>2, <3>3 DEF Known
  <2>4. ASSUME NEW q \in Ranks, NEW r \in Ranks, NEW i \in Entries(q), NEW j \in Entries(r),
               i.remoteRank = j.remoteRank, i.remoteRayId = j.remoteRayId
        PROVE  i = j
    BY <2>3, <2>4
  <2> QED BY <2>2, <2>3, <2>4 DEF SegmentsExist
<1> QED BY <1>1, InvAlways, PTL

(* No place of a ray's PetscSF is left as it was allocated, and each holds  *)
(* the entry of this ray with this number, also where cells are found on    *)
(* several ranks and copies of a particle write the same numbers.           *)
THEOREM SlotsAlwaysFilled == Spec => []SlotsFilled
<1>1. IInv => SlotsFilled
  BY DEF IInv, Kept, Filled, SlotsFilled
<1> QED BY <1>1, InvAlways, PTL

-----------------------------------------------------------------------------
(* Folds.  A fold over a sequence is a recursive function on the sets of    *)
(* its places; that there is such a function, and that its value is the     *)
(* last of a series, is shown by induction.                                 *)

(* A set of numbers that has 0, and with each number the next, has all.     *)
LEMMA Induction ==
    ASSUME NEW S \in SUBSET Nat, 0 \in S, \A i \in S : i + 1 \in S
    PROVE  S = Nat
<1> SUFFICES ASSUME Nat \ S # {} PROVE FALSE
  OBVIOUS
<1> DEFINE R == {ss \in Nat \X Nat : ss[1] < ss[2]}
<1>1. PICK m \in Nat \ S : \A k \in Nat \ S : ~ (<<k, m>> \in R)
  <2> HIDE DEF R
  <2>1. IsWellFoundedOn(R, Nat)
    BY NatsWellFounded DEF R
  <2> QED BY <2>1, WFMin
<1>2. m - 1 \in Nat /\ (m - 1) + 1 = m
  OBVIOUS
<1>3. m - 1 \notin S
  BY <1>2
<1>4. ~ (<<m - 1, m>> \in R)
  BY <1>1, <1>2, <1>3
<1>5. ~ (m - 1 < m)
  BY <1>2, <1>4
<1> QED BY <1>5

LEMMA LargestOfInterval ==
    ASSUME NEW n \in Nat, NEW S \in SUBSET (1..n), S # {}
    PROVE  Max(S) \in S /\ \A x \in S : x <= Max(S)
<1>1. S \in SUBSET Nat
  BY 1..n \subseteq Nat
<1>2. S # {} /\ \A x \in S : x <= n
  OBVIOUS
<1> QED BY Zenon, <1>1, <1>2, Largest

(* The functions that fold sets of places, with values in V; h gives what a *)
(* place makes of the value before.  And the series of these values.        *)
Steps(n, V) == [(1..n) \X V -> V]

FoldsOf(n, V, base, h) ==
    {g \in [SUBSET (1..n) -> V] : \A S \in SUBSET (1..n) :
        g[S] = IF S = {} THEN base ELSE h[<<Max(S), g[S \ {Max(S)}]>>]}

Follows(n, V, base, h, g) ==
    /\ g[{}] = base
    /\ \A S \in SUBSET (1..n) : S # {} /\ g[S \ {Max(S)}] \in V => g[S] = h[<<Max(S), g[S \ {Max(S)}]>>]

SeriesOf(n, V, base, h) == {t \in [0..n -> V] : t[0] = base /\ \A i \in 1..n : t[i] = h[<<i, t[i - 1]>>]}

LEMMA FoldExists ==
    ASSUME NEW n \in Nat, NEW V, NEW base \in V, NEW h \in Steps(n, V)
    PROVE  FoldsOf(n, V, base, h) # {}
<1>0. h \in [(1..n) \X V -> V]
  BY DEF Steps
<1> DEFINE Folds(k) == {g \in [SUBSET (1..k) -> V] : \A S \in SUBSET (1..k) :
                           g[S] = IF S = {} THEN base ELSE h[<<Max(S), g[S \ {Max(S)}]>>]}
           Folded(k) == k <= n => Folds(k) # {}
<1>1. Folded(0)
  <2> DEFINE g == [S \in SUBSET (1..0) |-> base]
  <2>1. g \in Folds(0)
    BY 1..0 = {}
  <2> HIDE DEF Folds
  <2> QED BY <2>1
<1>2. ASSUME NEW k \in Nat, Folded(k) PROVE Folded(k + 1)
  <2> SUFFICES ASSUME k + 1 <= n PROVE Folds(k + 1) # {}
    OBVIOUS
  <2>1. PICK g \in Folds(k) : TRUE
    <3> HIDE DEF Folds
    <3> QED BY <1>2
  <2> DEFINE g2 == [S \in SUBSET (1..k + 1) |-> IF k + 1 \in S THEN h[<<k + 1, g[S \ {k + 1}]>>] ELSE g[S]]
  <2>2. \A x \in 1..k + 1 : x # k + 1 => x \in 1..k
    OBVIOUS
  <2>3. ASSUME NEW S \in SUBSET (1..k + 1), k + 1 \in S
        PROVE  /\ g2[S] \in V /\ S # {} /\ g2[S] = h[<<Max(S), g2[S \ {Max(S)}]>>]
    <3>1. S \ {k + 1} \in SUBSET (1..k) /\ k + 1 \in 1..n
      BY <2>2
    <3>2. Max(S) = k + 1
      <4>0. k + 1 \in Nat /\ S # {}
        BY <2>3
      <4>1. Max(S) \in S /\ \A x \in S : x <= Max(S)
        BY Zenon, <4>0, LargestOfInterval
      <4>2. k + 1 <= Max(S) /\ Max(S) \in 1..k + 1
        BY <2>3, <4>1
      <4> QED BY <4>2
    <3>4. g[S \ {k + 1}] \in V
      BY <2>1, <3>1
    <3>3. g2[S] = h[<<k + 1, g[S \ {k + 1}]>>] /\ g2[S \ {k + 1}] = g[S \ {k + 1}]
      BY <2>3, <3>1
    <3> HIDE DEF g2
    <3> QED BY <1>0, <2>3, <3>1, <3>2, <3>3, <3>4
  <2>4. ASSUME NEW S \in SUBSET (1..k + 1), k + 1 \notin S
        PROVE  /\ g2[S] \in V
               /\ g2[S] = IF S = {} THEN base ELSE h[<<Max(S), g2[S \ {Max(S)}]>>]
    <3>1. S \in SUBSET (1..k) /\ S \ {Max(S)} \in SUBSET (1..k) /\ k + 1 \notin S \ {Max(S)}
          /\ S \ {Max(S)} \in SUBSET (1..k + 1)
      BY <2>2, <2>4
    <3>2. g2[S] = g[S] /\ g2[S \ {Max(S)}] = g[S \ {Max(S)}]
      BY <2>4, <3>1
    <3> HIDE DEF g2
    <3> QED BY <2>1, <3>1, <3>2
  <2>5. g2 \in [SUBSET (1..k + 1) -> V]
    <3>1. \A S \in SUBSET (1..k + 1) : g2[S] \in V
      BY <2>3, <2>4
    <3>2. g2 = [S \in SUBSET (1..k + 1) |-> g2[S]]
      OBVIOUS
    <3> HIDE DEF g2
    <3> QED BY <3>1, <3>2
  <2> HIDE DEF g2
  <2>6. g2 \in Folds(k + 1)
    BY <2>3, <2>4, <2>5
  <2> HIDE DEF Folds
  <2> QED BY <2>6
<1>3. Folded(n)
  <2> HIDE DEF Folded
  <2> DEFINE I == {k \in Nat : Folded(k)}
  <2>1. I \in SUBSET Nat /\ 0 \in I /\ \A k \in I : k + 1 \in I
    BY <1>1, <1>2
  <2>2. I = Nat
    <3> HIDE DEF I
    <3> QED BY <2>1, Induction
  <2> QED BY <2>2
<1>4. Folds(n) # {}
  <2> HIDE DEF Folds
  <2> QED BY <1>3
<1> QED BY <1>4 DEF FoldsOf

(* What such a function finds for all places is the last of a series.       *)
LEMMA FoldSeries ==
    ASSUME NEW n \in Nat, NEW V, NEW base \in V, NEW h \in Steps(n, V),
           NEW g, Follows(n, V, base, h, g)
    PROVE  \E t \in SeriesOf(n, V, base, h) : t[n] = g[1..n]
<1>0. /\ g[{}] = base
      /\ \A S \in SUBSET (1..n) : S # {} /\ g[S \ {Max(S)}] \in V => g[S] = h[<<Max(S), g[S \ {Max(S)}]>>]
  BY DEF Follows
<1>00. h \in [(1..n) \X V -> V]
  BY DEF Steps
<1>1. ASSUME NEW i \in 1..n, g[1..i - 1] \in V PROVE g[1..i] = h[<<i, g[1..i - 1]>>] /\ g[1..i] \in V
  <2>1. 1..i \in SUBSET (1..n) /\ 1..i # {} /\ i \in 1..i
    OBVIOUS
  <2>2. Max(1..i) \in 1..i /\ i <= Max(1..i)
    BY <2>1, LargestOfInterval
  <2>3. Max(1..i) = i
    BY <2>2
  <2>4. (1..i) \ {i} = 1..i - 1
    OBVIOUS
  <2>5. g[1..i] = h[<<i, g[1..i - 1]>>]
    BY <1>0, <1>1, <2>1, <2>3, <2>4
  <2> QED BY <1>00, <1>1, <2>5
<1> DEFINE Typed(i) == i <= n => g[1..i] \in V
<1>2. Typed(0)
  BY <1>0, 1..0 = {}
<1>3. ASSUME NEW i \in Nat, Typed(i) PROVE Typed(i + 1)
  <2> SUFFICES ASSUME i + 1 <= n PROVE g[1..i + 1] \in V
    OBVIOUS
  <2>1. i + 1 \in 1..n /\ (i + 1) - 1 = i /\ g[1..i] \in V
    BY <1>3
  <2> QED BY <1>1, <2>1
<1>4. \A i \in Nat : Typed(i)
  <2> HIDE DEF Typed
  <2> DEFINE I == {i \in Nat : Typed(i)}
  <2>1. I \in SUBSET Nat /\ 0 \in I /\ \A i \in I : i + 1 \in I
    BY <1>2, <1>3
  <2>2. I = Nat
    <3> HIDE DEF I
    <3> QED BY <2>1, Induction
  <2> QED BY <2>2
<1>5. \A i \in 0..n : g[1..i] \in V
  BY <1>4
<1> DEFINE t == [i \in 0..n |-> g[1..i]]
<1>6. t \in [0..n -> V] /\ t[0] = base /\ t[n] = g[1..n]
  BY <1>0, <1>5, 1..0 = {}
<1>7. \A i \in 1..n : t[i] = h[<<i, t[i - 1]>>]
  BY <1>1, <1>5
<1> HIDE DEF t
<1> QED BY <1>6, <1>7 DEF SeriesOf

LEMMA SeriesExists ==
    ASSUME NEW n \in Nat, NEW V, NEW base \in V, NEW h \in Steps(n, V)
    PROVE  SeriesOf(n, V, base, h) # {}
<1>1. PICK g \in FoldsOf(n, V, base, h) : TRUE
  BY FoldExists
<1>2. Follows(n, V, base, h, g)
  <2>1. {} \in SUBSET (1..n)
    OBVIOUS
  <2> QED BY <2>1 DEF FoldsOf, Follows
<1>3. \E t \in SeriesOf(n, V, base, h) : t[n] = g[1..n]
  BY <1>2, FoldSeries
<1> QED BY <1>3

-----------------------------------------------------------------------------
(* The sets of 1..n are counted by 2^n.                                     *)
LEMMA PowerPositive == ASSUME NEW n \in Nat PROVE 2^n \in Nat \ {0}
<1>1. IsFiniteSet(1..n) /\ Cardinality(1..n) = n
  BY FS_Interval
<1>2. IsFiniteSet(SUBSET (1..n)) /\ Cardinality(SUBSET (1..n)) = 2^n
  BY <1>1, FS_SUBSET
<1>3. Cardinality(SUBSET (1..n)) \in Nat
  BY <1>2, FS_CardinalityType
<1>4. SUBSET (1..n) # {}
  OBVIOUS
<1>5. Cardinality(SUBSET (1..n)) # 0
  BY <1>2, <1>4, FS_EmptySet
<1> QED BY <1>2, <1>3, <1>5

LEMMA ThroughType == ASSUME NEW i \in Int, NEW n \in Nat PROVE Through(i, n) \in Int
<1>1. 2^n \in Nat \ {0}
  BY PowerPositive
<1>2. ASSUME NEW d \in Nat \ {0} PROVE i \div d \in Int
  OBVIOUS
<1> QED BY <1>1, <1>2 DEF Through

LEMMA PassType ==
    ASSUME time \in 0..1, NEW carrier \in Carriers, NEW segment \in Segments
    PROVE  Pass(carrier, segment) \in Carriers
<1>1. carrier.Ij \in Int /\ carrier.Krad \in Nat /\ segment.cell \in Cells
  BY DEF Carriers, Segments
<1>2. Halvings[segment.cell] \in Nat /\ Emission[time][segment.cell] \in Nat
  BY <1>1, OpticsAssumption
<1>3. Emitted(segment.cell) \in Int
  <2>1. 2^Depth \in Nat
    BY PowerPositive, OpticsAssumption
  <2>2. ASSUME NEW a \in Nat, NEW b \in Nat PROVE a * b \in Int
    OBVIOUS
  <2> QED BY <1>2, <2>1, <2>2 DEF Emitted
<1> DEFINE bright == Through(Emitted(segment.cell), carrier.Krad)
           k      == carrier.Krad + Halvings[segment.cell]
<1>4. bright \in Int /\ k \in Nat /\ Through(Emitted(segment.cell), k) \in Int
  <2>1. k \in Nat
    BY <1>1, <1>2
  <2>2. bright \in Int
    BY <1>1, <1>3, ThroughType
  <2> HIDE DEF k
  <2> QED BY <1>3, <2>1, <2>2, ThroughType
<1>5. Pass(carrier, segment) = IF segment.cell \notin SubDomain THEN carrier
                               ELSE IF segment.wall THEN [carrier EXCEPT !.Ij = @ + bright]
                               ELSE [Ij |-> carrier.Ij + bright - Through(Emitted(segment.cell), k), Krad |-> k]
  BY DEF Pass
<1>6. [carrier EXCEPT !.Ij = @ + bright] \in Carriers
  <2> HIDE DEF bright
  <2> QED BY <1>4 DEF Carriers
<1>7. [Ij |-> carrier.Ij + bright - Through(Emitted(segment.cell), k), Krad |-> k] \in Carriers
  <2> HIDE DEF bright, k
  <2> QED BY <1>1, <1>4 DEF Carriers
<1> HIDE DEF bright, k
<1> QED BY <1>5, <1>6, <1>7

LEMMA BehindType == ASSUME NEW near \in Carriers, NEW far \in Carriers PROVE Behind(near, far) \in Carriers
<1>1. near.Ij \in Int /\ near.Krad \in Nat /\ far.Ij \in Int /\ far.Krad \in Nat
  BY DEF Carriers
<1>2. Through(far.Ij, near.Krad) \in Int
  BY <1>1, ThroughType
<1> QED BY <1>1, <1>2 DEF Behind, Carriers

(* A segment is passed cell by cell.                                        *)
LEMMA PassSeries ==
    ASSUME time \in 0..1, NEW base \in Carriers, NEW ray \in Seq(Segments)
    PROVE  \E t \in [0..Len(ray) -> Carriers] :
              /\ t[0] = base /\ t[Len(ray)] = FoldLeft(Pass, base, ray)
              /\ \A i \in 1..Len(ray) : t[i] = Pass(t[i - 1], ray[i])
<1> DEFINE n == Len(ray)
           Fold(g) == [S \in SUBSET (1..n) |-> IF S = {} THEN base ELSE Pass(g[S \ {Max(S)}], ray[Max(S)])]
<1>1. n \in Nat /\ DOMAIN ray = 1..n /\ \A i \in 1..n : ray[i] \in Segments
  OBVIOUS
<1>2. FoldLeft(Pass, base, ray) = (CHOOSE g : g = Fold(g))[1..n]
  BY <1>1 DEF FoldLeft, MapThenFoldSet
<1> HIDE DEF n
<1>3. PICK h : h = [iv \in (1..n) \X Carriers |-> Pass(iv[2], ray[iv[1]])]
  OBVIOUS
<1>4. h \in Steps(n, Carriers) /\ \A i \in 1..n : \A v \in Carriers : h[<<i, v>>] = Pass(v, ray[i])
  BY <1>1, <1>3, PassType DEF Steps
<1>5. \A S \in SUBSET (1..n) : S # {} => Max(S) \in 1..n
  BY <1>1, LargestOfInterval
<1>6. \E g : g = Fold(g)
  <2>1. PICK g \in FoldsOf(n, Carriers, base, h) : TRUE
    BY <1>1, <1>4, FoldExists
  <2>2. /\ g \in [SUBSET (1..n) -> Carriers]
        /\ \A S \in SUBSET (1..n) : g[S] = IF S = {} THEN base ELSE h[<<Max(S), g[S \ {Max(S)}]>>]
    BY DEF FoldsOf
  <2>3. ASSUME NEW S \in SUBSET (1..n), S # {} PROVE g[S] = Pass(g[S \ {Max(S)}], ray[Max(S)])
    <3>1. S \ {Max(S)} \in SUBSET (1..n)
      OBVIOUS
    <3>2. g[S \ {Max(S)}] \in Carriers
      BY <2>2, <3>1
    <3> QED BY <2>2, <2>3, <3>2, <1>4, <1>5
  <2>4. \A S \in SUBSET (1..n) : g[S] = IF S = {} THEN base ELSE Pass(g[S \ {Max(S)}], ray[Max(S)])
    BY <2>2, <2>3
  <2>5. g = [S \in SUBSET (1..n) |-> g[S]]
    BY <2>2
  <2>6. g = Fold(g)
    BY <2>4, <2>5
  <2> HIDE DEF Fold
  <2> QED BY <2>6
<1>7. PICK G : G = Fold(G) /\ G[1..n] = FoldLeft(Pass, base, ray)
  <2> HIDE DEF Fold
  <2> QED BY <1>2, <1>6
<1>8. Follows(n, Carriers, base, h, G)
  <2>1. G[{}] = base
    BY <1>7
  <2>2. ASSUME NEW S \in SUBSET (1..n), S # {}, G[S \ {Max(S)}] \in Carriers
        PROVE  G[S] = h[<<Max(S), G[S \ {Max(S)}]>>]
    <3>1. G[S] = Pass(G[S \ {Max(S)}], ray[Max(S)])
      BY <1>7, <2>2
    <3> QED BY <1>4, <1>5, <2>2, <3>1
  <2> QED BY <2>1, <2>2 DEF Follows
<1>9. PICK t \in SeriesOf(n, Carriers, base, h) : t[n] = G[1..n]
  BY <1>1, <1>4, <1>8, FoldSeries
<1>10. t \in [0..n -> Carriers] /\ t[0] = base /\ \A i \in 1..n : t[i] = h[<<i, t[i - 1]>>]
  BY <1>9 DEF SeriesOf
<1>11. ASSUME NEW i \in 1..n PROVE t[i] = Pass(t[i - 1], ray[i])
  <2>1. t[i - 1] \in Carriers
    BY <1>1, <1>10
  <2> QED BY <1>4, <1>10, <2>1
<1> QED BY <1>7, <1>9, <1>10, <1>11 DEF n
(* The segments of a ray are combined one by one.                           *)
LEMMA BehindSeries ==
    ASSUME NEW base \in Carriers, NEW ray \in Seq(Carriers)
    PROVE  \E t \in [0..Len(ray) -> Carriers] :
              /\ t[0] = base /\ t[Len(ray)] = FoldLeft(Behind, base, ray)
              /\ \A i \in 1..Len(ray) : t[i] = Behind(t[i - 1], ray[i])
<1> DEFINE n == Len(ray)
           Fold(g) == [S \in SUBSET (1..n) |-> IF S = {} THEN base ELSE Behind(g[S \ {Max(S)}], ray[Max(S)])]
<1>1. n \in Nat /\ DOMAIN ray = 1..n /\ \A i \in 1..n : ray[i] \in Carriers
  OBVIOUS
<1>2. FoldLeft(Behind, base, ray) = (CHOOSE g : g = Fold(g))[1..n]
  BY <1>1 DEF FoldLeft, MapThenFoldSet
<1> HIDE DEF n
<1>3. PICK h : h = [iv \in (1..n) \X Carriers |-> Behind(iv[2], ray[iv[1]])]
  OBVIOUS
<1>4. h \in Steps(n, Carriers) /\ \A i \in 1..n : \A v \in Carriers : h[<<i, v>>] = Behind(v, ray[i])
  BY <1>1, <1>3, BehindType DEF Steps
<1>5. \A S \in SUBSET (1..n) : S # {} => Max(S) \in 1..n
  BY <1>1, LargestOfInterval
<1>6. \E g : g = Fold(g)
  <2>1. PICK g \in FoldsOf(n, Carriers, base, h) : TRUE
    BY <1>1, <1>4, FoldExists
  <2>2. /\ g \in [SUBSET (1..n) -> Carriers]
        /\ \A S \in SUBSET (1..n) : g[S] = IF S = {} THEN base ELSE h[<<Max(S), g[S \ {Max(S)}]>>]
    BY DEF FoldsOf
  <2>3. ASSUME NEW S \in SUBSET (1..n), S # {} PROVE g[S] = Behind(g[S \ {Max(S)}], ray[Max(S)])
    <3>1. S \ {Max(S)} \in SUBSET (1..n)
      OBVIOUS
    <3>2. g[S \ {Max(S)}] \in Carriers
      BY <2>2, <3>1
    <3> QED BY <2>2, <2>3, <3>2, <1>4, <1>5
  <2>4. \A S \in SUBSET (1..n) : g[S] = IF S = {} THEN base ELSE Behind(g[S \ {Max(S)}], ray[Max(S)])
    BY <2>2, <2>3
  <2>5. g = [S \in SUBSET (1..n) |-> g[S]]
    BY <2>2
  <2>6. g = Fold(g)
    BY <2>4, <2>5
  <2> HIDE DEF Fold
  <2> QED BY <2>6
<1>7. PICK G : G = Fold(G) /\ G[1..n] = FoldLeft(Behind, base, ray)
  <2> HIDE DEF Fold
  <2> QED BY <1>2, <1>6
<1>8. Follows(n, Carriers, base, h, G)
  <2>1. G[{}] = base
    BY <1>7
  <2>2. ASSUME NEW S \in SUBSET (1..n), S # {}, G[S \ {Max(S)}] \in Carriers
        PROVE  G[S] = h[<<Max(S), G[S \ {Max(S)}]>>]
    <3>1. G[S] = Behind(G[S \ {Max(S)}], ray[Max(S)])
      BY <1>7, <2>2
    <3> QED BY <1>4, <1>5, <2>2, <3>1
  <2> QED BY <2>1, <2>2 DEF Follows
<1>9. PICK t \in SeriesOf(n, Carriers, base, h) : t[n] = G[1..n]
  BY <1>1, <1>4, <1>8, FoldSeries
<1>10. t \in [0..n -> Carriers] /\ t[0] = base /\ \A i \in 1..n : t[i] = h[<<i, t[i - 1]>>]
  BY <1>9 DEF SeriesOf
<1>11. ASSUME NEW i \in 1..n PROVE t[i] = Behind(t[i - 1], ray[i])
  <2>1. t[i - 1] \in Carriers
    BY <1>1, <1>10
  <2> QED BY <1>4, <1>10, <2>1
<1> QED BY <1>7, <1>9, <1>10, <1>11 DEF n

LEMMA SegmentType ==
    ASSUME time \in 0..1, NEW carrier, NEW ray \in Seq(Segments) PROVE Segment(carrier, ray) \in Carriers
<1> DEFINE base == [Ij |-> 0, Krad |-> 0]
<1>1. base \in Carriers
  BY DEF Carriers
<1> HIDE DEF base
<1>2. PICK t \in [0..Len(ray) -> Carriers] : t[Len(ray)] = FoldLeft(Pass, base, ray)
  BY <1>1, PassSeries
<1>3. t[Len(ray)] \in Carriers
  OBVIOUS
<1> QED BY <1>2, <1>3 DEF Segment, base

LEMMA GainType == ASSUME NEW n \in Nat, NEW near \in [1..n -> Carriers]
                  PROVE  FoldLeft(Behind, [Ij |-> 0, Krad |-> 0], near).Ij \in Int
<1> DEFINE base == [Ij |-> 0, Krad |-> 0]
<1>1. base \in Carriers /\ near \in Seq(Carriers)
  <2>1. base \in Carriers
    BY DEF Carriers
  <2>2. near \in Seq(Carriers)
    OBVIOUS
  <2> QED BY <2>1, <2>2
<1> HIDE DEF base
<1>2. PICK t \in [0..Len(near) -> Carriers] : t[Len(near)] = FoldLeft(Behind, base, near)
  BY <1>1, BehindSeries
<1>3. t[Len(near)] \in Carriers
  OBVIOUS
<1>4. t[Len(near)].Ij \in Int
  BY <1>3 DEF Carriers
<1> QED BY <1>2, <1>4 DEF base

-----------------------------------------------------------------------------
(* The rest of the types: what the origins have received names segments     *)
(* that exist, and every segment has a carrier once the search is over.     *)
Settings ==
    /\ found \in Meshes /\ surface \in BOOLEAN /\ origin \in [Rays -> Ranks]
    /\ time \in 0..1 /\ gains \in [Rays -> Int] /\ evaluated \in {0, 1, Decide}

Received ==
    \A y \in Rays : remoteRayInformation[y] # Pending =>
        \E n \in Nat : /\ remoteRayInformation[y] \in [1..n -> Entry]
                       /\ \A s \in 1..n : Known(remoteRayInformation[y][s])

Carrying ==
    /\ calculations \in [Ranks -> Seq(Carriers)]
    /\ \A r \in Ranks : pc[r] = "ready" =>
          /\ Len(calculations[r]) = Len(raySegments[r])
          /\ \A q \in Ranks : pc[q] = "ready"
          /\ \A y \in Rays : remoteRayInformation[y] # Pending

SolveInv == Settings /\ Received /\ Carrying

(* While the search goes on, nothing has been received.                     *)
LEMMA SearchLeaves ==
    ASSUME IInv, SolveInv, UNCHANGED <<mesh, solve, remoteRayInformation>>,
           NEW r \in Ranks, pc[r] \notin {"return", "ready"}, \A q \in Ranks : pc'[q] = pc[q] \/ pc'[q] # "ready"
    PROVE  SolveInv'
<1>1. Settings'
  BY DEF SolveInv, Settings, mesh, solve
<1>2. \A y \in Rays : remoteRayInformation'[y] = Pending
  BY DEF IInv, Kept
<1>3. \A q \in Ranks : pc'[q] # "ready"
  BY DEF SolveInv, Carrying
<1>4. calculations' = calculations
  BY DEF solve
<1> QED BY <1>1, <1>2, <1>3, <1>4 DEF SolveInv, Received, Carrying

LEMMA ReturnRaySolve == ASSUME IInv, SolveInv, NEW y \in Rays, ReturnRay(y) PROVE SolveInv'
<1>1. UNCHANGED <<mesh, solve, pc, raySegments, radReturn>> /\ \A r \in Ranks : pc[r] = "return"
  BY DEF ReturnRay, search
<1>2. Settings' /\ Carrying'
  BY <1>1 DEF SolveInv, Settings, Carrying, mesh, solve
<1>3. PICK info \in [1..SegmentsOf(y) -> Returned(y) \cup {Unset}] :
         /\ \A s \in DOMAIN info :
               LET here == {id \in Returned(y) : id.nSegment + 1 = s}
               IN info[s] \in (IF here = {} THEN {Unset} ELSE here)
         /\ remoteRayInformation' = [remoteRayInformation EXCEPT ![y] = info]
  BY DEF ReturnRay
<1>4. ASSUME NEW s \in 1..SegmentsOf(y) PROVE info[s] \in Entry /\ Known(info[s])
  <2>1. info[s] \in {id \in Returned(y) : id.nSegment + 1 = s}
    BY <1>3, NoGap
  <2>2. PICK r \in Ranks : \E i \in DOMAIN radReturn[r] : info[s] = radReturn[r][i]
    BY <2>1, EntriesReturned DEF IInv
  <2>3. PICK i \in DOMAIN radReturn[r] : info[s] = radReturn[r][i]
    BY <2>2
  <2>4. info[s] \in Entry
    BY <2>1, EntriesReturned DEF IInv
  <2>5. info[s].remoteRank = r /\ info[s].remoteRayId = i /\ Len(radReturn[r]) = Len(raySegments[r])
    BY <2>3 DEF IInv, InStep
  <2>6. DOMAIN radReturn[r] = DOMAIN raySegments[r]
    BY <2>5 DEF IInv, Types
  <2> QED BY <2>4, <2>5, <2>6 DEF Known
<1>5. SegmentsOf(y) \in Nat
  BY SegmentsCounted
<1>6. info \in [1..SegmentsOf(y) -> Entry] /\ \A s \in 1..SegmentsOf(y) : Known(info[s])'
  BY <1>1, <1>3, <1>4 DEF Known
<1>7. DOMAIN remoteRayInformation = Rays
  BY DEF IInv, Kept
<1>8. Received'
  <2> SUFFICES ASSUME NEW z \in Rays, remoteRayInformation'[z] # Pending
               PROVE  \E n \in Nat : /\ remoteRayInformation'[z] \in [1..n -> Entry]
                                     /\ \A s \in 1..n : Known(remoteRayInformation[z][s])'
    BY DEF Received
  <2>1. CASE z = y
    <3>1. remoteRayInformation'[z] = info
      BY <2>1, <1>3, <1>7
    <3> QED BY <3>1, <1>5, <1>6 DEF Known
  <2>2. CASE z # y
    <3>1. remoteRayInformation'[z] = remoteRayInformation[z]
      BY <2>2, <1>3, <1>7
    <3>2. PICK n \in Nat : /\ remoteRayInformation[z] \in [1..n -> Entry]
                           /\ \A s \in 1..n : Known(remoteRayInformation[z][s])
      BY <3>1 DEF SolveInv, Received
    <3> QED BY <3>1, <3>2, <1>1 DEF Known
  <2> QED BY <2>1, <2>2
<1> QED BY <1>2, <1>8 DEF SolveInv

LEMMA SetUpSolve == ASSUME IInv, SolveInv, SetUp PROVE SolveInv'
<1>1. /\ UNCHANGED <<mesh, raySegments, remoteRayInformation, time, gains, evaluated>>
      /\ \A y \in Rays : remoteRayInformation[y] # Pending
      /\ \A r \in Ranks : pc'[r] = "ready"
      /\ calculations' = [r \in Ranks |-> [i \in DOMAIN raySegments[r] |-> [Ij |-> 0, Krad |-> 0]]]
  BY DEF SetUp, search
<1>2. Settings' /\ Received'
  BY <1>1 DEF SolveInv, Settings, Received, Known, mesh
<1>3. ASSUME NEW r \in Ranks
      PROVE  calculations'[r] \in Seq(Carriers) /\ Len(calculations'[r]) = Len(raySegments[r])
  <2>1. DOMAIN raySegments[r] = 1..Len(raySegments[r]) /\ Len(raySegments[r]) \in Nat
    BY DEF IInv, Types
  <2>2. [Ij |-> 0, Krad |-> 0] \in Carriers
    BY DEF Carriers
  <2>3. calculations'[r] = [i \in 1..Len(raySegments[r]) |-> [Ij |-> 0, Krad |-> 0]]
    BY <1>1, <2>1
  <2> QED BY <2>1, <2>2, <2>3
<1>4. Carrying'
  BY <1>1, <1>3 DEF Carrying
<1> QED BY <1>2, <1>4 DEF SolveInv

LEMMA EvaluateGainsSolve == ASSUME IInv, SolveInv, EvaluateGains PROVE SolveInv'
<1>1. /\ UNCHANGED <<mesh, pc, raySegments, remoteRayInformation, time>> /\ evaluated' = time
      /\ \A r \in Ranks : pc[r] = "ready"
      /\ calculations' = [r \in Ranks |->
             [i \in DOMAIN calculations[r] |-> Segment(calculations[r][i], raySegments[r][i])]]
  BY DEF EvaluateGains, search
<1>2. time \in 0..1
  BY DEF SolveInv, Settings
<1>3. ASSUME NEW r \in Ranks
      PROVE  /\ calculations'[r] \in Seq(Carriers) /\ Len(calculations'[r]) = Len(raySegments[r])
             /\ DOMAIN calculations'[r] = DOMAIN raySegments[r]
  <2>1. calculations[r] \in Seq(Carriers) /\ raySegments[r] \in Seq(Seq(Segments)) /\ Len(calculations[r]) = Len(raySegments[r])
    BY <1>1 DEF SolveInv, Carrying, IInv, Types
  <2>2. \A i \in 1..Len(raySegments[r]) : Segment(calculations[r][i], raySegments[r][i]) \in Carriers
    <3> TAKE i \in 1..Len(raySegments[r])
    <3>1. raySegments[r][i] \in Seq(Segments)
      BY <2>1
    <3> QED BY <3>1, <1>2, SegmentType
  <2>3. calculations'[r] = [i \in 1..Len(raySegments[r]) |-> Segment(calculations[r][i], raySegments[r][i])]
    BY <1>1, <2>1
  <2>4. Len(raySegments[r]) \in Nat /\ DOMAIN raySegments[r] = 1..Len(raySegments[r])
    BY <2>1
  <2> QED BY <2>2, <2>3, <2>4
<1>4. Carrying'
  <2>1. calculations' \in [Ranks -> Seq(Carriers)]
    BY <1>1, <1>3
  <2> QED BY <1>1, <1>3, <2>1 DEF SolveInv, Carrying
<1>5. Received'
  BY <1>1 DEF SolveInv, Received, Known
<1>6. gains' \in [Rays -> Int]
  <2> DEFINE summary(y) == [s \in DOMAIN remoteRayInformation[y] |->
                LET root == remoteRayInformation[y][s] IN calculations'[root.remoteRank][root.remoteRayId]]
  <2>1. gains' = [y \in Rays |-> FoldLeft(Behind, [Ij |-> 0, Krad |-> 0], summary(y)).Ij]
    BY DEF EvaluateGains
  <2>2. ASSUME NEW y \in Rays PROVE \E n \in Nat : summary(y) \in [1..n -> Carriers]
    <3>1. remoteRayInformation[y] # Pending
      BY <1>1, MeshAssumption DEF SolveInv, Carrying
    <3>2. PICK n \in Nat : /\ remoteRayInformation[y] \in [1..n -> Entry]
                           /\ \A s \in 1..n : Known(remoteRayInformation[y][s])
      BY <3>1 DEF SolveInv, Received
    <3>3. ASSUME NEW s \in 1..n
          PROVE  calculations'[remoteRayInformation[y][s].remoteRank][remoteRayInformation[y][s].remoteRayId] \in Carriers
      <4>1. /\ remoteRayInformation[y][s].remoteRank \in Ranks
            /\ remoteRayInformation[y][s].remoteRayId \in DOMAIN raySegments[remoteRayInformation[y][s].remoteRank]
        BY <3>2 DEF Known
      <4>2. PICK q \in Ranks : q = remoteRayInformation[y][s].remoteRank
        BY <4>1
      <4>3. calculations'[q] \in Seq(Carriers) /\ remoteRayInformation[y][s].remoteRayId \in DOMAIN calculations'[q]
        BY <4>1, <4>2, <1>3
      <4>4. calculations'[q][remoteRayInformation[y][s].remoteRayId] \in Carriers
        BY <4>3
      <4> QED BY <4>2, <4>4
    <3>4. DOMAIN remoteRayInformation[y] = 1..n
      BY <3>2
    <3> QED BY <3>3, <3>4
  <2>3. ASSUME NEW y \in Rays PROVE FoldLeft(Behind, [Ij |-> 0, Krad |-> 0], summary(y)).Ij \in Int
    <3> HIDE DEF summary
    <3>1. PICK near : near = summary(y)
      OBVIOUS
    <3>2. PICK n \in Nat : near \in [1..n -> Carriers]
      BY <2>2, <3>1
    <3> QED BY <3>1, <3>2, GainType
  <2> HIDE DEF summary
  <2> QED BY <2>1, <2>3
<1>7. Settings'
  BY <1>1, <1>2, <1>6 DEF SolveInv, Settings, mesh
<1> QED BY <1>4, <1>5, <1>7 DEF SolveInv

LEMMA FlowStepSolve == ASSUME IInv, SolveInv, FlowStep PROVE SolveInv'
<1>1. UNCHANGED <<mesh, pc, raySegments, remoteRayInformation, calculations, gains, evaluated>> /\ time' = 1 - time
  BY DEF FlowStep, search
<1> QED BY <1>1 DEF SolveInv, Settings, Received, Carrying, Known, mesh

LEMMA NextSolve == IInv /\ SolveInv /\ [Next]_vars => SolveInv'
<1> SUFFICES ASSUME IInv, SolveInv, [Next]_vars PROVE SolveInv'
  OBVIOUS
<1>0. \E r \in Ranks : TRUE
  BY MeshAssumption
<1>1. CASE SetupMigrate
  BY <1>0, <1>1, SearchLeaves DEF SetupMigrate, Migrate
<1>2. CASE RoundMigrate
  BY <1>0, <1>2, SearchLeaves DEF RoundMigrate, Migrate
<1>3. CASE GetSize
  BY <1>0, <1>3, SearchLeaves DEF GetSize
<1>4. ASSUME NEW r \in Ranks, EndLoop(r) PROVE SolveInv'
  <2>1. pc[r] \in Loops /\ pc' = [pc EXCEPT ![r] = After[pc[r]]] /\ After[pc[r]] # "ready"
    BY <1>4 DEF EndLoop, After, Loops
  <2>2. \A q \in Ranks : pc'[q] = pc[q] \/ pc'[q] # "ready"
    BY <2>1 DEF IInv, Types
  <2> QED BY <1>4, <2>1, <2>2, SearchLeaves DEF EndLoop, Loops
<1>5. ASSUME NEW r \in Ranks, NEW p \in todo[r],
             DeleteOutOfBounds(r, p) \/ IdentifyNewRay(r, p) \/ ParticleStep(r, p) \/ Advance(r, p)
      PROVE  SolveInv'
  <2>1. pc[r] \in Loops /\ pc' = pc /\ UNCHANGED <<mesh, solve, remoteRayInformation>>
    BY <1>5 DEF DeleteOutOfBounds, IdentifyNewRay, ParticleStep, Advance, At, Loops
  <2> QED BY <2>1, SearchLeaves DEF Loops
<1>6. CASE \E y \in Rays : ReturnRay(y)
  BY <1>6, ReturnRaySolve
<1>7. CASE SetUp
  BY <1>7, SetUpSolve
<1>8. CASE EvaluateGains
  BY <1>8, EvaluateGainsSolve
<1>9. CASE FlowStep
  BY <1>9, FlowStepSolve
<1>10. CASE UNCHANGED vars
  BY <1>10 DEF SolveInv, Settings, Received, Carrying, Known, vars, mesh, search, solve
<1> QED BY <1>1, <1>2, <1>3, <1>4, <1>5, <1>6, <1>7, <1>8, <1>9, <1>10 DEF Next

LEMMA InitSolve == Init => SolveInv
<1> SUFFICES ASSUME Init PROVE SolveInv
  OBVIOUS
<1>1. Settings /\ Received
  BY DEF Init, Settings, Received
<1>2. calculations \in [Ranks -> Seq(Carriers)]
  BY DEF Init
<1> QED BY <1>1, <1>2 DEF Init, SolveInv, Carrying

(* Every variable keeps its type: the segments hold cells of the mesh, the  *)
(* places of a PetscSF are what its origin received, and the carriers of    *)
(* EvaluateGains, folds over the cells and over the segments of a ray, stay *)
(* numbers whatever the absorption and emission.                            *)
THEOREM RaysTypeCorrect == Spec => []TypeOK
<1>1. IInv /\ SolveInv => TypeOK
  <2> SUFFICES ASSUME IInv, SolveInv PROVE TypeOK
    OBVIOUS
  <2>1. pc \in [Ranks -> {"setup", "bounds", "size", "identify", "step", "advance", "migrate", "return", "ready"}]
    BY DEF IInv, Types, Phases, Loops
  <2>2. Particles \subseteq [at : Nat, id : Identifiers]
    BY DEF Particles
  <2>3. swarm \in [Ranks -> SUBSET [at : Nat, id : Identifiers]] /\ todo \in [Ranks -> SUBSET [at : Nat, id : Identifiers]]
    BY <2>2 DEF IInv, Types
  <2>4. raySegments \in [Ranks -> Seq(Seq(Segments))]
        /\ radReturn \in [Ranks -> Seq([ray : Rays, remoteRank : Ranks, remoteRayId : Nat, nSegment : Nat])]
    BY DEF IInv, Types, Entry
  <2>5. ASSUME NEW y \in Rays, remoteRayInformation[y] # Pending
        PROVE  remoteRayInformation[y] \in Seq(Identifiers \cup {Unset})
    <3>1. PICK n \in Nat : remoteRayInformation[y] \in [1..n -> Entry]
      BY <2>5 DEF SolveInv, Received
    <3>2. Entry \subseteq Identifiers
      BY DEF Entry, Identifiers
    <3>3. remoteRayInformation[y] \in [1..n -> Identifiers \cup {Unset}]
      BY <3>1, <3>2
    <3> QED BY <3>3
  <2> QED BY <2>1, <2>3, <2>4, <2>5 DEF TypeOK, SolveInv, Settings, Carrying
<1> QED BY <1>1, InitInv, NextInv, InitSolve, NextSolve, PTL DEF Spec

-----------------------------------------------------------------------------
(* What one rank alone would record.                                        *)
CellAt(y, k) == [cell |-> Path[y][k], wall |-> FALSE]
Far(y, k)    == Len(Recorded(y)[k])    \* recorded of the first k cells

LEMMA PathType ==
    ASSUME NEW y \in Rays
    PROVE  /\ Path[y] \in Seq(Cells) /\ Len(Path[y]) \in Nat \ {0}
           /\ \A k \in 1..Len(Path[y]) : Path[y][k] \in Cells /\ CellAt(y, k) \in Segments
<1>1. Path[y] \in Seq(Cells) /\ Path[y] # <<>>
  BY PathAssumption
<1>2. \A k \in 1..Len(Path[y]) : Path[y][k] \in Cells
  BY <1>1
<1>3. Len(Path[y]) \in Nat \ {0}
  BY <1>1
<1> QED BY <1>1, <1>2, <1>3 DEF CellAt, Segments

LEMMA RecordedCells ==
    ASSUME NEW y \in Rays
    PROVE  /\ Recorded(y) \in [0..Len(Path[y]) -> Seq(Segments)]
           /\ Recorded(y)[0] = <<>>
           /\ \A k \in 1..Len(Path[y]) :
                 Recorded(y)[k] = IF Path[y][k] \in SubDomain THEN Append(Recorded(y)[k - 1], CellAt(y, k))
                                  ELSE Recorded(y)[k - 1]
<1> DEFINE n == Len(Path[y])
           V == Seq(Segments)
           Add(k, v) == IF Path[y][k] \in SubDomain THEN Append(v, CellAt(y, k)) ELSE v
           Trace(f) == [k \in 0..n |-> IF k = 0 THEN <<>> ELSE Add(k, f[k - 1])]
           h == [iv \in (1..n) \X V |-> Add(iv[1], iv[2])]
<1>1. n \in Nat
  BY PathType
<1>2. \A k \in 1..n : \A v \in V : Add(k, v) \in V
  <2> SUFFICES ASSUME NEW k \in 1..n, NEW v \in V PROVE Add(k, v) \in V
    OBVIOUS
  <2>1. CellAt(y, k) \in Segments
    BY PathType
  <2> QED BY <2>1
<1>3. Recorded(y) = CHOOSE f : f = Trace(f)
  BY DEF Recorded, CellAt
<1> HIDE DEF n, V
<1>4. h \in Steps(n, V) /\ \A k \in 1..n : \A v \in V : h[<<k, v>>] = Add(k, v)
  BY <1>2 DEF Steps
<1>5. <<>> \in V
  BY DEF V
<1> HIDE DEF h
<1>6. PICK t \in SeriesOf(n, V, <<>>, h) : TRUE
  BY <1>1, <1>4, <1>5, SeriesExists
<1>7. t = Trace(t)
  <2>1. t \in [0..n -> V] /\ t[0] = <<>> /\ \A i \in 1..n : t[i] = h[<<i, t[i - 1]>>]
    BY <1>6 DEF SeriesOf
  <2>2. ASSUME NEW k \in 0..n PROVE t[k] = IF k = 0 THEN <<>> ELSE Add(k, t[k - 1])
    <3>1. CASE k = 0
      BY <3>1, <2>1
    <3>2. CASE k # 0
      <4>1. k \in 1..n /\ k - 1 \in 0..n
        BY <3>2, <1>1
      <4>2. t[k - 1] \in V /\ t[k] = h[<<k, t[k - 1]>>]
        BY <4>1, <2>1
      <4> HIDE DEF Add
      <4> QED BY <3>2, <4>1, <4>2, <1>4
    <3> QED BY <3>1, <3>2
  <2>3. t = [k \in 0..n |-> t[k]]
    BY <2>1
  <2> HIDE DEF Add
  <2> QED BY <2>2, <2>3
<1>8. PICK R : R = Recorded(y) /\ R = Trace(R)
  <2> HIDE DEF Trace
  <2> QED BY <1>3, <1>7
<1>9. R[0] = <<>> /\ \A k \in 1..n : R[k] = Add(k, R[k - 1])
  <2>1. R[0] = <<>>
    <3> HIDE DEF Add
    <3> QED BY <1>1, <1>8
  <2>2. ASSUME NEW k \in 1..n PROVE R[k] = Add(k, R[k - 1])
    <3>1. k \in 0..n /\ k # 0
      BY <1>1
    <3> HIDE DEF Add
    <3> QED BY <3>1, <1>8
  <2> QED BY <2>1, <2>2
<1> DEFINE Typed(k) == k <= n => R[k] \in V
<1>10. Typed(0)
  BY <1>5, <1>9
<1>11. ASSUME NEW k \in Nat, Typed(k) PROVE Typed(k + 1)
  <2> SUFFICES ASSUME k + 1 <= n PROVE R[k + 1] \in V
    OBVIOUS
  <2>1. k + 1 \in 1..n /\ (k + 1) - 1 = k /\ R[k] \in V
    BY <1>1, <1>11
  <2> HIDE DEF Add
  <2> QED BY <2>1, <1>2, <1>9
<1>12. \A k \in Nat : Typed(k)
  <2> HIDE DEF Typed
  <2> DEFINE I == {k \in Nat : Typed(k)}
  <2>1. I \in SUBSET Nat /\ 0 \in I /\ \A k \in I : k + 1 \in I
    BY <1>10, <1>11
  <2>2. I = Nat
    <3> HIDE DEF I
    <3> QED BY <2>1, Induction
  <2> QED BY <2>2
<1>13. R \in [0..n -> V]
  <2>1. \A k \in 0..n : R[k] \in V
    BY <1>1, <1>12
  <2>2. DOMAIN R = 0..n /\ R = [k \in 0..n |-> R[k]]
    <3> HIDE DEF Add
    <3> QED BY <1>8
  <2> QED BY <2>1, <2>2
<1> QED BY <1>8, <1>9, <1>13 DEF n, V

(* More cells only add to it.                                               *)
LEMMA RecordedGrows ==
    ASSUME NEW y \in Rays, NEW m \in 0..Len(Path[y]), NEW k \in 0..m
    PROVE  /\ Far(y, k) \in Nat /\ Far(y, k) <= k /\ Far(y, k) <= Far(y, m)
           /\ \A i \in 1..Far(y, k) : Recorded(y)[m][i] = Recorded(y)[k][i]
<1> DEFINE n == Len(Path[y])
           R == Recorded(y)
           Good(a, b) == /\ Len(R[a]) <= Len(R[b]) /\ Len(R[b]) <= b
                         /\ \A i \in 1..Len(R[a]) : R[b][i] = R[a][i]
           AllGood(b) == b <= n => \A a \in 0..b : Good(a, b)
<1>1. /\ n \in Nat /\ \A b \in 0..n : R[b] \in Seq(Segments)
      /\ R[0] = <<>>
      /\ \A b \in 1..n : R[b] = IF Path[y][b] \in SubDomain THEN Append(R[b - 1], CellAt(y, b)) ELSE R[b - 1]
      /\ \A b \in 1..n : CellAt(y, b) \in Segments
  BY PathType, RecordedCells
<1> HIDE DEF n, R
<1>2. AllGood(0)
  BY <1>1
<1>3. ASSUME NEW b \in Nat, AllGood(b) PROVE AllGood(b + 1)
  <2> SUFFICES ASSUME b + 1 <= n, NEW a \in 0..b + 1 PROVE Good(a, b + 1)
    OBVIOUS
  <2>1. b + 1 \in 1..n /\ (b + 1) - 1 = b /\ b \in 0..n /\ a \in 0..n /\ (a = b + 1 \/ a \in 0..b)
    BY <1>1
  <2>2. R[b] \in Seq(Segments) /\ Len(R[b]) \in Nat /\ Len(R[b]) <= b /\ R[a] \in Seq(Segments) /\ Len(R[a]) \in Nat
    <3>1. Good(b, b)
      BY <1>3, <2>1
    <3>2. R[b] \in Seq(Segments) /\ R[a] \in Seq(Segments)
      BY <1>1, <2>1
    <3> QED BY <3>1, <3>2
  <2>3. PICK e \in Segments : R[b + 1] = Append(R[b], e) \/ R[b + 1] = R[b]
    BY <1>1, <2>1
  <2>4. /\ Len(R[b + 1]) \in Nat /\ Len(R[b]) <= Len(R[b + 1]) /\ Len(R[b + 1]) <= b + 1
        /\ \A i \in 1..Len(R[b]) : R[b + 1][i] = R[b][i]
    BY <2>2, <2>3
  <2>5. CASE a = b + 1
    BY <2>4, <2>5
  <2>6. CASE a \in 0..b
    <3>1. Good(a, b)
      BY <1>3, <2>1, <2>6
    <3>2. Len(R[a]) <= Len(R[b + 1])
      BY <2>2, <2>4, <3>1
    <3>3. \A i \in 1..Len(R[a]) : R[b + 1][i] = R[a][i]
      BY <2>2, <2>4, <3>1
    <3> QED BY <2>4, <3>2, <3>3
  <2> QED BY <2>1, <2>5, <2>6
<1>4. \A b \in Nat : AllGood(b)
  <2> HIDE DEF AllGood
  <2> DEFINE I == {b \in Nat : AllGood(b)}
  <2>1. I \in SUBSET Nat /\ 0 \in I /\ \A b \in I : b + 1 \in I
    BY <1>2, <1>3
  <2>2. I = Nat
    <3> HIDE DEF I
    <3> QED BY <2>1, Induction
  <2> QED BY <2>2
<1>5. m \in Nat /\ m <= n /\ k \in Nat /\ k <= n
  BY DEF n
<1>6. Good(k, m) /\ Good(k, k)
  <2> HIDE DEF Good
  <2>1. k \in 0..k /\ k \in 0..m
    BY <1>5
  <2> QED BY <1>4, <1>5, <2>1
<1>7. R[k] \in Seq(Segments)
  BY <1>1, <1>5
<1> QED BY <1>6, <1>7 DEF Far, R

(* Where the next cell, and the wall, are in the whole.                     *)
LEMMA WholeTraceCells ==
    ASSUME NEW y \in Rays
    PROVE  /\ WholeTrace(y) \in Seq(Segments) /\ Len(WholeTrace(y)) <= Len(Path[y]) + 1
           /\ \A k \in 0..Len(Path[y]) : Far(y, k) \in 0..Len(WholeTrace(y))
           /\ \A k \in 1..Len(Path[y]) :
                 IF Path[y][k] \in SubDomain
                   THEN /\ Far(y, k) = Far(y, k - 1) + 1
                        /\ WholeTrace(y)[Far(y, k)] = CellAt(y, k)
                   ELSE Far(y, k) = Far(y, k - 1)
           /\ IF ReachesWall(y)
                THEN /\ Len(WholeTrace(y)) = Far(y, Len(Path[y])) + 1
                     /\ WholeTrace(y)[Len(WholeTrace(y))] = [cell |-> Path[y][Len(Path[y])], wall |-> TRUE]
                ELSE Len(WholeTrace(y)) = Far(y, Len(Path[y]))
<1> DEFINE n == Len(Path[y])
           R == Recorded(y)
           W == WholeTrace(y)
           wall == [cell |-> Path[y][n], wall |-> TRUE]
<1>1. /\ n \in Nat \ {0} /\ \A k \in 0..n : R[k] \in Seq(Segments)
      /\ \A k \in 1..n : R[k] = IF Path[y][k] \in SubDomain THEN Append(R[k - 1], CellAt(y, k)) ELSE R[k - 1]
      /\ \A k \in 1..n : CellAt(y, k) \in Segments
  BY PathType, RecordedCells
<1>2. wall \in Segments
  BY <1>1, PathType DEF Segments
<1>3. W = IF ReachesWall(y) THEN Append(R[n], wall) ELSE R[n]
  BY DEF WholeTrace, Last
<1>4. \A k \in 0..n : /\ Far(y, k) = Len(R[k]) /\ Far(y, k) \in Nat /\ Far(y, k) <= k /\ Far(y, k) <= Far(y, n)
                      /\ \A i \in 1..Far(y, k) : R[n][i] = R[k][i]
  <2> SUFFICES ASSUME NEW k \in 0..n
               PROVE  /\ Far(y, k) = Len(R[k]) /\ Far(y, k) \in Nat /\ Far(y, k) <= k /\ Far(y, k) <= Far(y, n)
                      /\ \A i \in 1..Far(y, k) : R[n][i] = R[k][i]
    OBVIOUS
  <2>1. n \in 0..n
    BY <1>1
  <2>2. /\ Far(y, k) \in Nat /\ Far(y, k) <= k /\ Far(y, k) <= Far(y, n)
        /\ \A i \in 1..Far(y, k) : R[n][i] = R[k][i]
    BY <2>1, RecordedGrows
  <2> QED BY <2>2 DEF Far
<1> HIDE DEF n, R, W, wall
<1>5. R[n] \in Seq(Segments) /\ Far(y, n) = Len(R[n]) /\ Far(y, n) \in Nat /\ Far(y, n) <= n
  BY <1>1, <1>4
<1>6. W \in Seq(Segments) /\ Len(W) <= n + 1 /\ Len(R[n]) <= Len(W) /\ \A i \in 1..Len(R[n]) : W[i] = R[n][i]
  BY <1>1, <1>2, <1>3, <1>5
<1>7. ASSUME NEW k \in 0..n PROVE Far(y, k) \in 0..Len(W)
  BY <1>4, <1>5, <1>6
<1>8. ASSUME NEW k \in 1..n
      PROVE  IF Path[y][k] \in SubDomain THEN Far(y, k) = Far(y, k - 1) + 1 /\ W[Far(y, k)] = CellAt(y, k)
             ELSE Far(y, k) = Far(y, k - 1)
  <2>1. k \in 0..n /\ k - 1 \in 0..n
    BY <1>1
  <2>2. R[k - 1] \in Seq(Segments) /\ CellAt(y, k) \in Segments
        /\ R[k] = IF Path[y][k] \in SubDomain THEN Append(R[k - 1], CellAt(y, k)) ELSE R[k - 1]
    BY <1>1, <2>1
  <2>3. Far(y, k) = Len(R[k]) /\ Far(y, k - 1) = Len(R[k - 1]) /\ Far(y, k) \in Nat
    BY <1>4, <2>1
  <2>4. CASE Path[y][k] \in SubDomain
    <3>1. R[k] = Append(R[k - 1], CellAt(y, k))
      BY <2>2, <2>4
    <3>2. Len(R[k]) = Len(R[k - 1]) + 1 /\ R[k][Len(R[k])] = CellAt(y, k)
      BY <2>2, <3>1
    <3>3. Far(y, k) \in 1..Far(y, k) /\ Far(y, k) \in 1..Len(R[n])
      BY <1>4, <1>5, <2>1, <2>2, <2>3, <3>2
    <3>4. W[Far(y, k)] = R[k][Far(y, k)]
      BY <1>4, <1>6, <2>1, <3>3
    <3> QED BY <2>3, <2>4, <3>2, <3>4
  <2>5. CASE Path[y][k] \notin SubDomain
    BY <2>2, <2>3, <2>5
  <2> QED BY <2>4, <2>5
<1>9. ASSUME ReachesWall(y) PROVE Len(W) = Far(y, n) + 1 /\ W[Len(W)] = wall
  BY <1>2, <1>3, <1>5, <1>9
<1>10. ASSUME ~ ReachesWall(y) PROVE Len(W) = Far(y, n)
  BY <1>3, <1>5, <1>10
<1> QED BY <1>6, <1>7, <1>8, <1>9, <1>10 DEF n, W, wall

-----------------------------------------------------------------------------
(* The search where every cell belongs to one rank: a ray has one particle, *)
(* and its segments are, in the order of their numbers, pieces of the trace *)
(* up to where the particle is.                                             *)
One ==
    \A q, r \in Ranks : \A p \in swarm[q], o \in swarm[r] : p.id.ray = o.id.ray => q = r /\ p = o

(* A particle has the identifier that its last entry has.                   *)
Owned ==
    \A r \in Ranks : \A p \in swarm[r] :
        /\ p.at <= Len(Path[p.id.ray]) + 1
        /\ p.id.remoteRank # Decide => p.id = radReturn[p.id.remoteRank][p.id.remoteRayId]

(* No two segments of a ray have the same number.                           *)
Numbered ==
    \A q, r \in Ranks : \A i \in DOMAIN radReturn[q], j \in DOMAIN radReturn[r] :
        /\ radReturn[q][i].ray = radReturn[r][j].ray
        /\ radReturn[q][i].nSegment = radReturn[r][j].nSegment
        => q = r /\ i = j

Cuts(n, k) == {cuts \in [0..n -> 0..k] : cuts[0] = 0 /\ cuts[n] = k}

Fits(r, i, n, cuts) ==
    LET s == radReturn[r][i].nSegment
    IN /\ s + 1 <= n /\ cuts[s] <= cuts[s + 1]
       /\ raySegments[r][i] = SubSeq(WholeTrace(radReturn[r][i].ray), cuts[s] + 1, cuts[s + 1])

(* The segments of a ray are n pieces of the first k places of its trace.   *)
Trail(y, n, k) ==
    \E cuts \in Cuts(n, k) : \A r \in Ranks : \A i \in DOMAIN radReturn[r] :
        radReturn[r][i].ray = y => Fits(r, i, n, cuts)

(* In this round the cell where the particle is has been added.             *)
Stepped(r, p) == (pc[r] = "step" /\ p \notin todo[r]) \/ (pc[r] = "advance" /\ p \in todo[r])

Reached(r, p) == Far(p.id.ray, IF Stepped(r, p) THEN p.at ELSE p.at - 1)

Trails == \A r \in Ranks : \A p \in swarm[r] : Trail(p.id.ray, p.id.nSegment + 1, Reached(r, p))

Left == \A y \in Rays : \E n \in Nat, k \in 0..Len(WholeTrace(y)) : Trail(y, n, k)

PathInv == One /\ Owned /\ Numbered /\ Trails /\ Left

LEMMA FoundOnce == ASSUME Settings, Alone, NEW c \in Cells, NEW q \in found[c], NEW r \in found[c] PROVE q = r
<1>1. found[c] \in SUBSET Ranks /\ Cardinality(found[c]) = 1
  BY MeshAssumption DEF Settings, Alone
<1>2. IsFiniteSet(found[c])
  BY <1>1, MeshAssumption, FS_Subset
<1>3. \E x : found[c] = {x}
  BY <1>1, <1>2, FS_Singleton
<1> QED BY <1>3

LEMMA Within ==
    ASSUME NEW p \in Particles, Place(p) \in Cells
    PROVE  /\ p.id.ray \in Rays /\ p.at \in 1..Len(Path[p.id.ray]) /\ Place(p) = Path[p.id.ray][p.at]
           /\ Place(p) \notin Region => p.at = Len(Path[p.id.ray])
           /\ p.id.ray \in Flat => p.at = Len(Path[p.id.ray])
<1>1. p.at \in Nat \ {0} /\ p.id.ray \in Rays
  BY DEF Particles, Identifiers
<1>2. Len(Path[p.id.ray]) \in Nat
  BY <1>1, PathType
<1>3. p.at <= Len(Path[p.id.ray])
  BY NamesAssumption DEF Place
<1>4. Place(p) = Path[p.id.ray][p.at]
  BY <1>3 DEF Place
<1>5. ASSUME Place(p) \notin Region PROVE p.at = Len(Path[p.id.ray])
  <2> SUFFICES ASSUME p.at # Len(Path[p.id.ray]) PROVE FALSE
    OBVIOUS
  <2>1. p.at \in 1..Len(Path[p.id.ray]) - 1
    BY <1>1, <1>2, <1>3
  <2> QED BY <1>1, <1>4, <1>5, <2>1, PathAssumption
<1>6. ASSUME p.id.ray \in Flat PROVE p.at = Len(Path[p.id.ray])
  <2>1. Len(Path[p.id.ray]) = 1
    BY <1>6, PathAssumption
  <2> QED BY <1>1, <1>3, <2>1
<1> QED BY <1>1, <1>2, <1>3, <1>4, <1>5, <1>6

LEMMA TrailStays ==
    ASSUME radReturn' = radReturn, raySegments' = raySegments, NEW y, NEW n, NEW k, Trail(y, n, k)
    PROVE  Trail(y, n, k)'
BY DEF Trail, Fits, Cuts

LEMMA TrailReached ==
    ASSUME NEW y, NEW n, NEW k, NEW r, NEW p, Reached(r, p)' = k, Trail(y, n, k)'
    PROVE  Trail(y, n, Reached(r, p))'
<1>1. PICK cuts \in Cuts(n, k) : \A q \in Ranks : \A i \in DOMAIN radReturn'[q] :
         radReturn'[q][i].ray = y => Fits(q, i, n, cuts)'
  BY DEF Trail, Cuts
<1>2. cuts \in Cuts(n, Reached(r, p))'
  BY DEF Cuts
<1> QED BY <1>1, <1>2 DEF Trail

LEMMA PathInit == Init => PathInv
<1> SUFFICES ASSUME Init PROVE PathInv
  OBVIOUS
<1>1. \A y \in Rays : /\ Identifier(y).ray = y /\ Identifier(y).remoteRank = Decide /\ Identifier(y).nSegment = -1
  BY DEF Identifier
<1>2. \A r \in Ranks : \A p \in swarm[r] :
         /\ p.at = 1 /\ p.id.ray \in Rays /\ p.id = Identifier(p.id.ray) /\ origin[p.id.ray] = r
         /\ p = [at |-> 1, id |-> Identifier(p.id.ray)]
  BY <1>1 DEF Init, Launched
<1>3. One
  BY <1>2 DEF One
<1>4. Owned
  <2> SUFFICES ASSUME NEW r \in Ranks, NEW p \in swarm[r]
               PROVE  p.at <= Len(Path[p.id.ray]) + 1 /\ p.id.remoteRank = Decide
    BY DEF Owned
  <2>1. p.at = 1 /\ p.id.ray \in Rays /\ p.id.remoteRank = Decide
    BY <1>1, <1>2
  <2>2. Len(Path[p.id.ray]) \in Nat
    BY <2>1, PathType
  <2> QED BY <2>1, <2>2
<1>5. \A r \in Ranks : DOMAIN radReturn[r] = {}
  BY DEF Init
<1>6. Numbered
  BY <1>5 DEF Numbered
<1>7. \A y \in Rays : Trail(y, 0, 0)
  <2> DEFINE c == [x \in 0..0 |-> 0]
  <2>1. c \in Cuts(0, 0)
    BY DEF Cuts
  <2> QED BY <1>5, <2>1 DEF Trail
<1>8. Trails
  <2> SUFFICES ASSUME NEW r \in Ranks, NEW p \in swarm[r] PROVE Trail(p.id.ray, p.id.nSegment + 1, Reached(r, p))
    BY DEF Trails
  <2>1. p.at - 1 = 0 /\ p.id.ray \in Rays /\ p.id.nSegment + 1 = 0
    BY <1>1, <1>2
  <2>2. ~ Stepped(r, p)
    BY DEF Init, Stepped
  <2>3. Reached(r, p) = 0
    <3>1. Reached(r, p) = Far(p.id.ray, 0)
      BY <2>1, <2>2 DEF Reached
    <3>2. Recorded(p.id.ray)[0] = <<>>
      BY <2>1, RecordedCells
    <3> QED BY <3>1, <3>2 DEF Far
  <2> QED BY <1>7, <2>1, <2>3
<1>9. Left
  <2> SUFFICES ASSUME NEW y \in Rays PROVE \E n \in Nat, k \in 0..Len(WholeTrace(y)) : Trail(y, n, k)
    BY DEF Left
  <2>1. WholeTrace(y) \in Seq(Segments)
    BY WholeTraceCells
  <2>2. 0 \in 0..Len(WholeTrace(y))
    BY <2>1
  <2> QED BY <1>7, <2>2
<1> QED BY <1>3, <1>4, <1>6, <1>8, <1>9 DEF PathInv

(* Steps that record nothing and leave the particles where they are.        *)
LEMMA PathStays ==
    ASSUME PathInv, radReturn' = radReturn, raySegments' = raySegments,
           \A r \in Ranks : swarm'[r] \subseteq swarm[r],
           \A r \in Ranks : \A p \in swarm'[r] : Reached(r, p)' = Reached(r, p)
    PROVE  PathInv'
<1>1. One'
  BY DEF PathInv, One
<1>2. Owned'
  BY DEF PathInv, Owned
<1>3. Numbered'
  BY DEF PathInv, Numbered
<1>4. Trails'
  <2> SUFFICES ASSUME NEW r \in Ranks, NEW p \in swarm'[r] PROVE Trail(p.id.ray, p.id.nSegment + 1, Reached(r, p))'
    BY DEF Trails
  <2>1. PICK k : k = Reached(r, p)
    OBVIOUS
  <2>2. Trail(p.id.ray, p.id.nSegment + 1, k)
    BY <2>1 DEF PathInv, Trails
  <2>3. Trail(p.id.ray, p.id.nSegment + 1, k)'
    BY <2>2, TrailStays
  <2>4. Reached(r, p)' = k
    BY <2>1
  <2> QED BY <2>3, <2>4, TrailReached
<1>5. Left'
  <2> SUFFICES ASSUME NEW y \in Rays PROVE \E n \in Nat, k \in 0..Len(WholeTrace(y)) : Trail(y, n, k)'
    BY DEF Left
  <2>1. PICK n \in Nat, k \in 0..Len(WholeTrace(y)) : Trail(y, n, k)
    BY DEF PathInv, Left
  <2> QED BY <2>1, TrailStays
<1> QED BY <1>1, <1>2, <1>3, <1>4, <1>5 DEF PathInv

LEMMA GetSizePath == ASSUME IInv, PathInv, GetSize PROVE PathInv'
<1>1. /\ \A r \in Ranks : pc[r] = "size" /\ pc'[r] \in {"identify", "return"}
      /\ swarm' = swarm /\ radReturn' = radReturn /\ raySegments' = raySegments
  BY DEF GetSize
<1>2. \A r \in Ranks : \A p : Reached(r, p)' = Reached(r, p)
  BY <1>1 DEF Reached, Stepped
<1> QED BY <1>1, <1>2, PathStays

LEMMA EndLoopPath == ASSUME IInv, PathInv, NEW r \in Ranks, EndLoop(r) PROVE PathInv'
<1>1. /\ todo[r] = {} /\ swarm' = swarm /\ radReturn' = radReturn /\ raySegments' = raySegments
      /\ pc[r] \in Loops /\ pc' = [pc EXCEPT ![r] = After[pc[r]]] /\ todo' = [todo EXCEPT ![r] = swarm[r]]
  BY DEF EndLoop, After, Loops
<1>2. /\ pc[r] = "bounds" => pc'[r] = "size"
      /\ pc[r] = "identify" => pc'[r] = "step"
      /\ pc[r] = "step" => pc'[r] = "advance"
      /\ pc[r] = "advance" => pc'[r] = "migrate"
      /\ todo'[r] = swarm[r]
      /\ \A q \in Ranks \ {r} : pc'[q] = pc[q] /\ todo'[q] = todo[q]
  BY <1>1 DEF After, IInv, Types
<1>3. ASSUME NEW q \in Ranks, NEW p \in swarm[q] PROVE Reached(q, p)' = Reached(q, p)
  <2>1. Stepped(q, p)' = Stepped(q, p)
    BY <1>1, <1>2 DEF Stepped, Loops
  <2> QED BY <2>1 DEF Reached
<1> QED BY <1>1, <1>3, PathStays

LEMMA DeleteOutOfBoundsPath ==
    ASSUME IInv, PathInv, NEW r \in Ranks, NEW p \in todo[r], DeleteOutOfBounds(r, p) PROVE PathInv'
<1>1. pc[r] = "bounds" /\ pc' = pc /\ todo' = [todo EXCEPT ![r] = @ \ {p}]
        /\ swarm' \in {swarm, [swarm EXCEPT ![r] = @ \ {p}]}
        /\ radReturn' = radReturn /\ raySegments' = raySegments
  BY DEF DeleteOutOfBounds, At, RemovePoint
<1>2. \A q \in Ranks : swarm'[q] \subseteq swarm[q]
  BY <1>1 DEF IInv, Types
<1>3. \A q \in Ranks : \A o : Reached(q, o)' = Reached(q, o)
  BY <1>1 DEF Reached, Stepped, IInv, Types
<1> QED BY <1>1, <1>2, <1>3, PathStays

LEMMA MigratePath ==
    ASSUME IInv, Settings, Alone, PathInv, NEW from, NEW to \in {"bounds", "size"}, from \in {"setup", "migrate"},
           Migrate(from, to)
    PROVE  PathInv'
<1>1. /\ \A r \in Ranks : swarm'[r] = Migrated(r) /\ pc'[r] = to /\ pc[r] = from
      /\ radReturn' = radReturn /\ raySegments' = raySegments
  BY DEF Migrate
<1>2. \A r \in Ranks : \A p \in swarm'[r] : r \in FoundOn(p) /\ \E q \in Ranks : p \in swarm[q]
  BY <1>1 DEF Migrated
<1>3. ASSUME NEW p, NEW q \in Ranks, NEW r \in Ranks, p \in swarm'[q], p \in swarm'[r] PROVE q = r
  <2>1. q \in FoundOn(p) /\ r \in FoundOn(p)
    BY <1>2, <1>3
  <2>2. PICK o \in Ranks : p \in swarm[o]
    BY <1>2, <1>3
  <2>3. p \in Particles
    BY <2>2 DEF IInv, Types
  <2>4. Place(p) \in Cells /\ q \in found[Place(p)] /\ r \in found[Place(p)]
    BY <2>1, <2>3, PlaceType DEF FoundOn
  <2> QED BY <2>4, FoundOnce
<1>4. One'
  <2> SUFFICES ASSUME NEW q \in Ranks, NEW r \in Ranks, NEW p \in swarm'[q], NEW o \in swarm'[r], p.id.ray = o.id.ray
               PROVE  q = r /\ p = o
    BY DEF One
  <2>1. p = o
    BY <1>2 DEF PathInv, One
  <2> QED BY <1>3, <2>1
<1>5. Owned'
  BY <1>1, <1>2 DEF PathInv, Owned
<1>6. Numbered'
  BY <1>1 DEF PathInv, Numbered
<1>7. Trails'
  <2> SUFFICES ASSUME NEW r \in Ranks, NEW p \in swarm'[r] PROVE Trail(p.id.ray, p.id.nSegment + 1, Reached(r, p))'
    BY DEF Trails
  <2>1. PICK q \in Ranks : p \in swarm[q]
    BY <1>2
  <2>2. PICK k : k = Reached(q, p)
    OBVIOUS
  <2>3. Reached(r, p)' = k
    <3>1. ~ Stepped(q, p) /\ ~ Stepped(r, p)'
      BY <1>1 DEF Stepped
    <3> QED BY <3>1, <2>2 DEF Reached
  <2>4. Trail(p.id.ray, p.id.nSegment + 1, k)
    BY <2>1, <2>2 DEF PathInv, Trails
  <2>5. Trail(p.id.ray, p.id.nSegment + 1, k)'
    BY <1>1, <2>4, TrailStays
  <2> QED BY <2>3, <2>5, TrailReached
<1>8. Left'
  <2> SUFFICES ASSUME NEW y \in Rays PROVE \E n \in Nat, k \in 0..Len(WholeTrace(y)) : Trail(y, n, k)'
    BY DEF Left
  <2>1. PICK n \in Nat, k \in 0..Len(WholeTrace(y)) : Trail(y, n, k)
    BY DEF PathInv, Left
  <2> QED BY <1>1, <2>1, TrailStays
<1> QED BY <1>4, <1>5, <1>6, <1>7, <1>8 DEF PathInv

LEMMA SolvePath ==
    ASSUME PathInv, UNCHANGED search,
           pc' = pc \/ (pc' = [r \in Ranks |-> "ready"] /\ \A r \in Ranks : pc[r] = "return")
    PROVE  PathInv'
<1>1. UNCHANGED <<todo, swarm, raySegments, radReturn>>
  BY DEF search
<1>2. ASSUME NEW r \in Ranks, NEW p PROVE Reached(r, p)' = Reached(r, p)
  BY <1>1 DEF Reached, Stepped
<1> QED BY <1>1, <1>2, PathStays

(* The next place of a sequence lengthens a piece of it that ends before.   *)
LEMMA LongerPiece ==
    ASSUME NEW S, NEW w \in Seq(S), NEW a \in Nat, NEW k \in Nat, a <= k, k < Len(w)
    PROVE  /\ Len(SubSeq(w, a + 1, k)) = k - a
           /\ Append(SubSeq(w, a + 1, k), w[k + 1]) = SubSeq(w, a + 1, k + 1)
OBVIOUS

LEMMA EntryType ==
    ASSUME Types, NEW r \in Ranks, NEW i \in DOMAIN radReturn[r]
    PROVE  radReturn[r][i] \in Entry /\ radReturn[r][i].nSegment \in Nat /\ radReturn[r][i].ray \in Rays
<1>1. radReturn[r] \in Seq(Entry)
  BY DEF Types
<1>2. radReturn[r][i] \in Entry
  BY <1>1
<1> QED BY <1>2 DEF Entry

(* What the identified particle of a rank knows of its segment.             *)
LEMMA Identified ==
    ASSUME IInv, PathInv, NEW r \in Ranks, NEW p \in swarm[r], p.id.remoteRank = r
    PROVE  /\ p \in Particles /\ p.id.ray \in Rays /\ p.id.nSegment \in Nat
           /\ p.id.remoteRayId \in DOMAIN raySegments[r] /\ DOMAIN radReturn[r] = DOMAIN raySegments[r]
           /\ radReturn[r][p.id.remoteRayId] = p.id
<1>1. p \in Particles /\ Carries(p)
  BY DEF IInv, Types, Carried
<1>2. p.id.remoteRank # Decide
  BY NamesAssumption
<1>3. Known(p.id) /\ p.id.nSegment \in Nat
  BY <1>1, <1>2 DEF Carries
<1>4. radReturn[r][p.id.remoteRayId] = p.id
  BY <1>2 DEF PathInv, Owned
<1>5. DOMAIN radReturn[r] = DOMAIN raySegments[r]
  BY DEF IInv, Types, InStep
<1> QED BY <1>1, <1>3, <1>4, <1>5 DEF Known, Particles, Identifiers

(* The segment of the particle grows by the next place of the trace.        *)
LEMMA AddPiece ==
    ASSUME Room, IInv, PathInv, NEW r \in Ranks, NEW p \in swarm[r], p.id.remoteRank = r,
           NEW segment, NEW k \in Nat, k < Len(WholeTrace(p.id.ray)), WholeTrace(p.id.ray)[k + 1] = segment,
           Trail(p.id.ray, p.id.nSegment + 1, k),
           AddSegment(r, p, segment), radReturn' = radReturn
    PROVE  /\ Trail(p.id.ray, p.id.nSegment + 1, k + 1)'
           /\ \A z, n, m : z # p.id.ray /\ Trail(z, n, m) => Trail(z, n, m)'
<1> DEFINE y == p.id.ray
           i == p.id.remoteRayId
           s == p.id.nSegment
           w == WholeTrace(y)
<1>1. /\ y \in Rays /\ s \in Nat /\ i \in DOMAIN raySegments[r] /\ DOMAIN radReturn[r] = DOMAIN raySegments[r]
      /\ radReturn[r][i] = p.id
  BY Identified
<1>2. PICK cuts \in Cuts(s + 1, k) : \A q \in Ranks : \A j \in DOMAIN radReturn[q] :
         radReturn[q][j].ray = y => Fits(q, j, s + 1, cuts)
  BY DEF Trail
<1>3. w \in Seq(Segments) /\ Len(w) <= Len(Path[y]) + 1 /\ Len(Path[y]) \in Nat /\ Len(Path[y]) < MaxSegment
        /\ MaxSegment \in Nat
  BY <1>1, WholeTraceCells, PathType, OpticsAssumption DEF Room
<1>4. cuts[s] <= cuts[s + 1] /\ raySegments[r][i] = SubSeq(w, cuts[s] + 1, cuts[s + 1])
  <2>1. radReturn[r][i].ray = y /\ radReturn[r][i].nSegment = s /\ i \in DOMAIN radReturn[r]
    BY <1>1
  <2> HIDE DEF y, i, s
  <2>2. Fits(r, i, s + 1, cuts)
    BY <1>2, <2>1
  <2> QED BY <2>1, <2>2 DEF Fits
<1> HIDE DEF y, i, s, w
<1>5. /\ s + 1 \in Nat /\ cuts \in [0..s + 1 -> 0..k] /\ cuts[0] = 0 /\ cuts[s + 1] = k
      /\ s \in 0..s + 1 /\ cuts[s] \in Nat /\ cuts[s] <= k
  BY <1>1, <1>2 DEF Cuts
<1>6. /\ raySegments[r][i] = SubSeq(w, cuts[s] + 1, k) /\ Len(raySegments[r][i]) = k - cuts[s]
      /\ Append(raySegments[r][i], segment) = SubSeq(w, cuts[s] + 1, k + 1)
  <2>1. k < Len(w) /\ w[k + 1] = segment
    BY DEF w, y
  <2>2. PICK a \in Nat : a = cuts[s]
    BY <1>5
  <2>3. Len(SubSeq(w, a + 1, k)) = k - a /\ Append(SubSeq(w, a + 1, k), w[k + 1]) = SubSeq(w, a + 1, k + 1)
    BY <1>3, <1>5, <2>1, <2>2, LongerPiece
  <2> QED BY <1>4, <1>5, <2>1, <2>2, <2>3
<1>7. Len(raySegments[r][i]) < MaxSegment
  <2>1. k < Len(w) /\ Len(w) \in Nat
    BY <1>3 DEF w, y
  <2> QED BY <1>3, <1>5, <1>6, <2>1
<1>8. raySegments' = [raySegments EXCEPT ![r] = [raySegments[r] EXCEPT ![i] = Append(raySegments[r][i], segment)]]
  BY <1>7 DEF AddSegment, IInv, Types, i
<1>9. /\ raySegments'[r][i] = SubSeq(w, cuts[s] + 1, k + 1)
      /\ \A q \in Ranks : \A j \in DOMAIN raySegments[q] : ~ (q = r /\ j = i) => raySegments'[q][j] = raySegments[q][j]
  <2>1. raySegments \in [Ranks -> Seq(Seq(Segments))]
    BY DEF IInv, Types
  <2> QED BY <1>1, <1>6, <1>8, <2>1
<1>10. \A q \in Ranks : DOMAIN radReturn[q] = DOMAIN raySegments[q]
  BY DEF IInv, Types, InStep
<1>11. Trail(y, s + 1, k + 1)'
  <2> DEFINE c == [cuts EXCEPT ![s + 1] = k + 1]
  <2>1. /\ c \in [0..s + 1 -> 0..k + 1] /\ c[0] = 0 /\ c[s + 1] = k + 1
        /\ \A x \in 0..s : c[x] = cuts[x]
    <3>1. \A x \in 0..s + 1 : c[x] = IF x = s + 1 THEN k + 1 ELSE cuts[x]
      BY <1>5
    <3>2. 0 \in 0..s + 1 /\ s + 1 \in 0..s + 1 /\ \A x \in 0..s : x \in 0..s + 1 /\ x # s + 1
      BY <1>1
    <3>3. \A x \in 0..s + 1 : c[x] \in 0..k + 1
      BY <1>5, <3>1
    <3> QED BY <1>1, <1>5, <3>1, <3>2, <3>3
  <2> HIDE DEF c
  <2>2. c \in Cuts(s + 1, k + 1)
    BY <2>1 DEF Cuts
  <2>3. ASSUME NEW q \in Ranks, NEW j \in DOMAIN radReturn'[q], radReturn'[q][j].ray = y PROVE Fits(q, j, s + 1, c)'
    <3>1. PICK e : e = radReturn[q][j]
      OBVIOUS
    <3>2. e.nSegment \in Nat /\ radReturn'[q][j] = e /\ e.ray = y
      BY <2>3, <3>1, EntryType DEF IInv
    <3>3. Fits(q, j, s + 1, cuts)
      BY <1>2, <2>3
    <3>4. CASE q = r /\ j = i
      <4>1. e.nSegment = s
        BY <1>1, <3>1, <3>4 DEF s
      <4>2. c[s] = cuts[s] /\ c[s + 1] = k + 1 /\ c[s] <= c[s + 1]
        BY <1>1, <1>5, <2>1
      <4>3. raySegments'[q][j] = SubSeq(w, c[s] + 1, c[s + 1])
        BY <1>9, <3>4, <4>2
      <4> QED BY <1>1, <3>2, <4>1, <4>2, <4>3 DEF Fits, w
    <3>5. CASE ~ (q = r /\ j = i)
      <4>1. e.nSegment # s
        <5>1. radReturn[r][i].ray = y /\ radReturn[r][i].nSegment = s /\ i \in DOMAIN radReturn[r]
          BY <1>1 DEF s, y
        <5> QED BY <2>3, <3>1, <3>2, <3>5, <5>1 DEF PathInv, Numbered
      <4>2. e.nSegment + 1 <= s + 1 /\ cuts[e.nSegment] <= cuts[e.nSegment + 1]
              /\ raySegments[q][j] = SubSeq(WholeTrace(e.ray), cuts[e.nSegment] + 1, cuts[e.nSegment + 1])
        BY <3>1, <3>3 DEF Fits
      <4>3. e.nSegment \in 0..s /\ e.nSegment + 1 \in 0..s
        BY <1>1, <3>2, <4>1, <4>2
      <4>4. c[e.nSegment] = cuts[e.nSegment] /\ c[e.nSegment + 1] = cuts[e.nSegment + 1]
        BY <2>1, <4>3
      <4>5. raySegments'[q][j] = raySegments[q][j]
        BY <1>9, <1>10, <2>3, <3>5
      <4> QED BY <3>2, <4>2, <4>4, <4>5 DEF Fits
    <3> QED BY <3>4, <3>5
  <2>4. \E d \in Cuts(s + 1, k + 1) : \A q \in Ranks : \A j \in DOMAIN radReturn'[q] :
           radReturn'[q][j].ray = y => Fits(q, j, s + 1, d)'
    BY <2>2, <2>3
  <2> QED BY <2>4 DEF Trail
<1>12. ASSUME NEW z, NEW n, NEW m, z # y, Trail(z, n, m) PROVE Trail(z, n, m)'
  <2>1. PICK d \in Cuts(n, m) : \A q \in Ranks : \A j \in DOMAIN radReturn[q] :
           radReturn[q][j].ray = z => Fits(q, j, n, d)
    BY <1>12 DEF Trail
  <2>2. ASSUME NEW q \in Ranks, NEW j \in DOMAIN radReturn'[q], radReturn'[q][j].ray = z PROVE Fits(q, j, n, d)'
    <3>1. ~ (q = r /\ j = i)
      BY <1>1, <1>12, <2>2 DEF y
    <3>2. raySegments'[q][j] = raySegments[q][j]
      BY <1>9, <1>10, <2>2, <3>1
    <3> QED BY <2>1, <2>2, <3>2 DEF Fits
  <2> QED BY <2>1, <2>2 DEF Trail
<1> QED BY <1>11, <1>12 DEF y, s

(* A segment that was opened has nothing in it yet.                         *)
LEMMA NewPiece ==
    ASSUME IInv, PathInv, NEW r \in Ranks, NEW id \in Entry, NEW k \in Nat,
           Trail(id.ray, id.nSegment, k),
           raySegments' = [raySegments EXCEPT ![r] = Append(@, <<>>)],
           radReturn' = [radReturn EXCEPT ![r] = Append(@, id)]
    PROVE  /\ Trail(id.ray, id.nSegment + 1, k)'
           /\ \A z, n, m : z # id.ray /\ Trail(z, n, m) => Trail(z, n, m)'
           /\ Numbered'
<1> DEFINE i == Len(radReturn[r]) + 1
           s == id.nSegment
           w == WholeTrace(id.ray)
<1>1. /\ id.ray \in Rays /\ s \in Nat /\ radReturn \in [Ranks -> Seq(Entry)] /\ raySegments \in [Ranks -> Seq(Seq(Segments))]
      /\ Len(radReturn[r]) = Len(raySegments[r])
  BY DEF IInv, Types, InStep, Entry
<1>2. /\ DOMAIN radReturn'[r] = 1..i /\ i \in Nat /\ radReturn'[r][i] = id /\ raySegments'[r][i] = <<>>
      /\ DOMAIN radReturn[r] = 1..i - 1
      /\ \A j \in 1..i - 1 : radReturn'[r][j] = radReturn[r][j] /\ raySegments'[r][j] = raySegments[r][j]
      /\ \A q \in Ranks \ {r} : radReturn'[q] = radReturn[q] /\ raySegments'[q] = raySegments[q]
  <2>1. radReturn'[r] = Append(radReturn[r], id) /\ raySegments'[r] = Append(raySegments[r], <<>>)
    BY <1>1
  <2>2. radReturn[r] \in Seq(Entry) /\ raySegments[r] \in Seq(Seq(Segments))
    BY <1>1
  <2>3. \A q \in Ranks \ {r} : radReturn'[q] = radReturn[q] /\ raySegments'[q] = raySegments[q]
    BY <1>1
  <2> QED BY <1>1, <2>1, <2>2, <2>3
<1> HIDE DEF i
<1>3. ASSUME NEW q \in Ranks, NEW j \in DOMAIN radReturn'[q]
      PROVE  \/ q = r /\ j = i
             \/ j \in DOMAIN radReturn[q] /\ radReturn'[q][j] = radReturn[q][j] /\ raySegments'[q][j] = raySegments[q][j]
  <2>1. CASE q = r
    <3>1. j = i \/ j \in 1..i - 1
      BY <1>2, <2>1
    <3> QED BY <1>2, <2>1, <3>1
  <2>2. CASE q # r
    BY <1>2, <2>2
  <2> QED BY <2>1, <2>2
<1>4. PICK cuts \in Cuts(s, k) : \A q \in Ranks : \A j \in DOMAIN radReturn[q] :
         radReturn[q][j].ray = id.ray => Fits(q, j, s, cuts)
  BY DEF Trail
<1>5. cuts \in [0..s -> 0..k] /\ cuts[0] = 0 /\ cuts[s] = k
  BY <1>4 DEF Cuts
<1>6. w \in Seq(Segments)
  BY <1>1, WholeTraceCells
<1> HIDE DEF s, w
<1>7. Trail(id.ray, s + 1, k)'
  <2> DEFINE c == [x \in 0..s + 1 |-> IF x = s + 1 THEN k ELSE cuts[x]]
  <2>1. /\ c \in [0..s + 1 -> 0..k] /\ c[0] = 0 /\ c[s + 1] = k
        /\ \A x \in 0..s : c[x] = cuts[x]
    <3>1. 0 \in 0..s + 1 /\ s + 1 \in 0..s + 1 /\ \A x \in 0..s : x \in 0..s + 1 /\ x # s + 1
      BY <1>1
    <3>2. \A x \in 0..s + 1 : x = s + 1 \/ x \in 0..s
      BY <1>1
    <3>3. \A x \in 0..s + 1 : c[x] \in 0..k
      BY <1>5, <3>2
    <3>4. 0 # s + 1
      BY <1>1
    <3> QED BY <1>5, <3>1, <3>3, <3>4
  <2> HIDE DEF c
  <2>2. c \in Cuts(s + 1, k)
    BY <2>1 DEF Cuts
  <2>3. ASSUME NEW q \in Ranks, NEW j \in DOMAIN radReturn'[q], radReturn'[q][j].ray = id.ray
        PROVE  Fits(q, j, s + 1, c)'
    <3>1. CASE q = r /\ j = i
      <4>1. radReturn'[q][j] = id /\ raySegments'[q][j] = <<>>
        BY <1>2, <3>1
      <4>2. c[s] = k /\ c[s + 1] = k /\ s + 1 \in Nat
        BY <1>1, <1>5, <2>1
      <4>3. SubSeq(w, k + 1, k) = <<>>
        BY <1>6
      <4>4. radReturn'[q][j].nSegment = s /\ WholeTrace(radReturn'[q][j].ray) = w
        BY <4>1 DEF s, w
      <4>5. raySegments'[q][j] = SubSeq(w, c[s] + 1, c[s + 1])
        BY <4>1, <4>2, <4>3
      <4>6. s + 1 <= s + 1 /\ c[s] <= c[s + 1]
        BY <1>1, <4>2
      <4> QED BY <4>4, <4>5, <4>6 DEF Fits
    <3>2. CASE j \in DOMAIN radReturn[q] /\ radReturn'[q][j] = radReturn[q][j] /\ raySegments'[q][j] = raySegments[q][j]
      <4>1. PICK e : e = radReturn[q][j]
        OBVIOUS
      <4>2. e.nSegment \in Nat /\ radReturn'[q][j] = e /\ e.ray = id.ray
        BY <2>3, <3>2, <4>1, EntryType DEF IInv
      <4>3. Fits(q, j, s, cuts)
        BY <1>4, <3>2, <4>1, <4>2
      <4>4. e.nSegment + 1 <= s /\ cuts[e.nSegment] <= cuts[e.nSegment + 1]
              /\ raySegments[q][j] = SubSeq(WholeTrace(e.ray), cuts[e.nSegment] + 1, cuts[e.nSegment + 1])
        BY <4>1, <4>3 DEF Fits
      <4>5. e.nSegment \in 0..s /\ e.nSegment + 1 \in 0..s /\ e.nSegment + 1 <= s + 1
        <5>1. PICK x \in Nat : x = e.nSegment
          BY <4>2
        <5>2. s \in Nat /\ x + 1 <= s
          BY <1>1, <4>4, <5>1
        <5> QED BY <5>1, <5>2
      <4>6. c[e.nSegment] = cuts[e.nSegment] /\ c[e.nSegment + 1] = cuts[e.nSegment + 1]
        BY <2>1, <4>5
      <4> QED BY <3>2, <4>2, <4>4, <4>5, <4>6 DEF Fits
    <3> QED BY <1>3, <3>1, <3>2
  <2>4. \E d \in Cuts(s + 1, k) : \A q \in Ranks : \A j \in DOMAIN radReturn'[q] :
           radReturn'[q][j].ray = id.ray => Fits(q, j, s + 1, d)'
    BY <2>2, <2>3
  <2> QED BY <2>4 DEF Trail
<1>8. ASSUME NEW z, NEW n, NEW m, z # id.ray, Trail(z, n, m) PROVE Trail(z, n, m)'
  <2>1. PICK d \in Cuts(n, m) : \A q \in Ranks : \A j \in DOMAIN radReturn[q] :
           radReturn[q][j].ray = z => Fits(q, j, n, d)
    BY <1>8 DEF Trail
  <2>2. ASSUME NEW q \in Ranks, NEW j \in DOMAIN radReturn'[q], radReturn'[q][j].ray = z PROVE Fits(q, j, n, d)'
    <3>1. ~ (q = r /\ j = i)
      BY <1>2, <1>8, <2>2
    <3>2. j \in DOMAIN radReturn[q] /\ radReturn'[q][j] = radReturn[q][j] /\ raySegments'[q][j] = raySegments[q][j]
      BY <1>3, <3>1
    <3> QED BY <2>1, <2>2, <3>2 DEF Fits
  <2> QED BY <2>1, <2>2 DEF Trail
<1>9. Numbered'
  <2>1. ASSUME NEW q \in Ranks, NEW j \in DOMAIN radReturn[q], radReturn[q][j].ray = id.ray
        PROVE  radReturn[q][j].nSegment # s
    <3>1. radReturn[q][j].nSegment + 1 <= s /\ radReturn[q][j].nSegment \in Nat
      BY <1>4, <2>1, EntryType DEF Fits, IInv
    <3> QED BY <1>1, <3>1
  <2> SUFFICES ASSUME NEW q \in Ranks, NEW o \in Ranks, NEW j \in DOMAIN radReturn'[q], NEW l \in DOMAIN radReturn'[o],
                      radReturn'[q][j].ray = radReturn'[o][l].ray,
                      radReturn'[q][j].nSegment = radReturn'[o][l].nSegment
               PROVE  q = o /\ j = l
    BY DEF Numbered
  <2>2. CASE q = r /\ j = i /\ o = r /\ l = i
    BY <2>2
  <2>3. CASE q = r /\ j = i /\ ~ (o = r /\ l = i)
    BY <2>3, <2>1, <1>2, <1>3 DEF s
  <2>4. CASE ~ (q = r /\ j = i) /\ o = r /\ l = i
    BY <2>4, <2>1, <1>2, <1>3 DEF s
  <2>5. CASE ~ (q = r /\ j = i) /\ ~ (o = r /\ l = i)
    BY <2>5, <1>3 DEF PathInv, Numbered
  <2> QED BY <2>2, <2>3, <2>4, <2>5
<1> QED BY <1>7, <1>8, <1>9 DEF s

(* How far the particle of a rank has come is a place of the trace.         *)
LEMMA ReachedType ==
    ASSUME NEW y \in Rays, NEW k \in 0..Len(Path[y])
    PROVE  Far(y, k) \in Nat /\ Far(y, k) \in 0..Len(WholeTrace(y)) /\ Len(WholeTrace(y)) \in Nat
<1>1. WholeTrace(y) \in Seq(Segments) /\ Far(y, k) \in 0..Len(WholeTrace(y))
  BY WholeTraceCells
<1>2. Len(WholeTrace(y)) \in Nat
  BY <1>1
<1> QED BY <1>1, <1>2

(* A step of the particle p, after which S holds it or nothing, and its ray *)
(* has n segments that reach k.                                             *)
Moves(r, p, S, n, k) ==
    /\ \A o \in Ranks : swarm'[o] = IF o = r THEN (swarm[r] \ {p}) \cup S ELSE swarm[o]
    /\ \A o \in Ranks : \A m \in swarm[o] : m # p => Reached(o, m)' = Reached(o, m)
    /\ \A z, i, c : z # p.id.ray /\ Trail(z, i, c) => Trail(z, i, c)'
    /\ \A q, o \in S : q = o
    /\ \A q \in S : q.id.ray = p.id.ray /\ q.id.nSegment + 1 = n /\ Reached(r, q)' = k

LEMMA OneMoves ==
    ASSUME PathInv, NEW r \in Ranks, NEW p \in swarm[r], p.id.ray \in Rays, NEW S,
           NEW n \in Nat, NEW k \in 0..Len(WholeTrace(p.id.ray)), Trail(p.id.ray, n, k)',
           Moves(r, p, S, n, k)
    PROVE  One' /\ Trails' /\ Left'
<1>0. /\ \A o \in Ranks : swarm'[o] = IF o = r THEN (swarm[r] \ {p}) \cup S ELSE swarm[o]
      /\ \A o \in Ranks : \A m \in swarm[o] : m # p => Reached(o, m)' = Reached(o, m)
      /\ \A z, i, c : z # p.id.ray /\ Trail(z, i, c) => Trail(z, i, c)'
      /\ \A q, o \in S : q = o
      /\ \A q \in S : q.id.ray = p.id.ray /\ q.id.nSegment + 1 = n /\ Reached(r, q)' = k
  BY DEF Moves
<1>1. ASSUME NEW o \in Ranks, NEW m \in swarm'[o]
      PROVE  \/ o = r /\ m \in S
             \/ m \in swarm[o] /\ m # p /\ m.id.ray # p.id.ray
  <2>1. (o = r /\ m \in S) \/ (m \in swarm[o] /\ (o = r => m # p))
    BY <1>0
  <2>2. m \in swarm[o] /\ m.id.ray = p.id.ray => o = r /\ m = p
    BY DEF PathInv, One
  <2> QED BY <2>1, <2>2
<1>2. One'
  <2> SUFFICES ASSUME NEW q \in Ranks, NEW o \in Ranks, NEW m \in swarm'[q], NEW l \in swarm'[o], m.id.ray = l.id.ray
               PROVE  q = o /\ m = l
    BY DEF One
  <2>1. (q = r /\ m \in S) \/ (m \in swarm[q] /\ m.id.ray # p.id.ray)
    BY <1>1
  <2>2. (o = r /\ l \in S) \/ (l \in swarm[o] /\ l.id.ray # p.id.ray)
    BY <1>1
  <2>3. CASE q = r /\ m \in S
    BY <1>0, <2>2, <2>3
  <2>4. CASE m \in swarm[q] /\ m.id.ray # p.id.ray
    BY <1>0, <2>2, <2>4 DEF PathInv, One
  <2> QED BY <2>1, <2>3, <2>4
<1>3. Trails'
  <2> SUFFICES ASSUME NEW o \in Ranks, NEW m \in swarm'[o] PROVE Trail(m.id.ray, m.id.nSegment + 1, Reached(o, m))'
    BY DEF Trails
  <2>1. CASE o = r /\ m \in S
    <3>1. Trail(m.id.ray, m.id.nSegment + 1, k)' /\ Reached(o, m)' = k
      BY <1>0, <2>1
    <3> QED BY <3>1, TrailReached
  <2>2. CASE m \in swarm[o] /\ m # p /\ m.id.ray # p.id.ray
    <3>1. PICK c : c = Reached(o, m)
      OBVIOUS
    <3>2. Trail(m.id.ray, m.id.nSegment + 1, c)
      BY <2>2, <3>1 DEF PathInv, Trails
    <3>3. Trail(m.id.ray, m.id.nSegment + 1, c)'
      BY <1>0, <2>2, <3>2
    <3>4. Reached(o, m)' = c
      BY <1>0, <2>2, <3>1
    <3> QED BY <3>3, <3>4, TrailReached
  <2> QED BY <1>1, <2>1, <2>2
<1>4. Left'
  <2> SUFFICES ASSUME NEW y \in Rays PROVE \E i \in Nat, c \in 0..Len(WholeTrace(y)) : Trail(y, i, c)'
    BY DEF Left
  <2>1. CASE y = p.id.ray
    BY <2>1
  <2>2. CASE y # p.id.ray
    <3>1. PICK i \in Nat, c \in 0..Len(WholeTrace(y)) : Trail(y, i, c)
      BY DEF PathInv, Left
    <3> QED BY <1>0, <2>2, <3>1
  <2> QED BY <2>1, <2>2
<1> QED BY <1>2, <1>3, <1>4

LEMMA IdentifyNewRayPath ==
    ASSUME IInv, PathInv, NEW r \in Ranks, NEW p \in todo[r], IdentifyNewRay(r, p) PROVE PathInv'
<1>1. pc[r] = "identify" /\ todo' = [todo EXCEPT ![r] = @ \ {p}] /\ pc' = pc
  BY DEF IdentifyNewRay, At
<1>2. \A o \in Ranks : \A m : m # p => Reached(o, m)' = Reached(o, m)
  BY <1>1 DEF Reached, Stepped, IInv, Types
<1>3. CASE ~ New(r, p)
  <2>1. swarm' = swarm /\ raySegments' = raySegments /\ radReturn' = radReturn
    BY <1>3 DEF IdentifyNewRay
  <2>2. Reached(r, p)' = Reached(r, p)
    BY <1>1 DEF Reached, Stepped
  <2>3. \A o \in Ranks : \A m \in swarm[o] : Reached(o, m)' = Reached(o, m)
    <3>1. \A o \in Ranks \ {r} : Reached(o, p)' = Reached(o, p)
      BY <1>1 DEF Reached, Stepped, IInv, Types
    <3> QED BY <1>2, <2>2, <3>1
  <2> QED BY <2>1, <2>3, PathStays
<1>4. CASE New(r, p)
  <2>1. OpenSegment(r, p)
    BY <1>4 DEF IdentifyNewRay
  <2>2. PICK id \in Entry, q \in Particles :
           /\ id.ray = p.id.ray /\ id.remoteRank = r /\ id.remoteRayId = Len(raySegments[r]) + 1
           /\ id.nSegment = p.id.nSegment + 1 /\ q.id = id /\ q.at = p.at
           /\ swarm' = [swarm EXCEPT ![r] = (@ \ {p}) \cup {q}]
           /\ raySegments' = [raySegments EXCEPT ![r] = Append(@, <<>>)]
           /\ radReturn' = [radReturn EXCEPT ![r] = Append(@, id)]
    BY <1>1, <2>1, OpenSegmentDoes
  <2>3. p \in swarm[r] /\ p \in Particles /\ Place(p) \in Cells
    BY <1>1 DEF IInv, Here, InMesh, Types, Loops
  <2>4. p.id.ray \in Rays /\ p.at \in 1..Len(Path[p.id.ray]) /\ p.at - 1 \in 0..Len(Path[p.id.ray])
    <3>1. p.id.ray \in Rays /\ p.at \in 1..Len(Path[p.id.ray]) /\ Len(Path[p.id.ray]) \in Nat
      BY <2>3, Within, PathType
    <3> QED BY <3>1
  <2>5. PICK k : k = Far(p.id.ray, p.at - 1)
    OBVIOUS
  <2>6. k \in Nat /\ k \in 0..Len(WholeTrace(p.id.ray))
    BY <2>4, <2>5, ReachedType
  <2>7. id.nSegment \in Nat
    BY DEF Entry
  <2>8. Trail(p.id.ray, id.nSegment, k)
    <3>1. Reached(r, p) = k
      BY <1>1, <2>5 DEF Reached, Stepped
    <3>2. Trail(p.id.ray, p.id.nSegment + 1, Reached(r, p))
      BY <2>3 DEF PathInv, Trails
    <3> QED BY <2>2, <3>1, <3>2
  <2>9. /\ Trail(p.id.ray, id.nSegment + 1, k)'
        /\ \A z, n, m : z # p.id.ray /\ Trail(z, n, m) => Trail(z, n, m)'
        /\ Numbered'
    <3>1. Trail(id.ray, id.nSegment, k) /\ id.ray = p.id.ray
      BY <2>2, <2>8
    <3>2. /\ Trail(id.ray, id.nSegment + 1, k)'
          /\ \A z, n, m : z # id.ray /\ Trail(z, n, m) => Trail(z, n, m)'
          /\ Numbered'
      BY <2>2, <2>6, <3>1, NewPiece
    <3> QED BY <3>1, <3>2
  <2>10. One' /\ Trails' /\ Left'
    <3>1. \A o \in Ranks : swarm'[o] = IF o = r THEN (swarm[r] \ {p}) \cup {q} ELSE swarm[o]
      BY <2>2 DEF IInv, Types
    <3>2. Reached(r, q)' = k
      BY <1>1, <2>2, <2>5 DEF Reached, Stepped
    <3>3. id.nSegment + 1 \in Nat
      BY <2>7
    <3>4. \A x, o \in {q} : x = o
      OBVIOUS
    <3>5. \A x \in {q} : x.id.ray = p.id.ray /\ x.id.nSegment + 1 = id.nSegment + 1 /\ Reached(r, x)' = k
      BY <2>2, <3>2
    <3>6. \A o \in Ranks : \A m \in swarm[o] : m # p => Reached(o, m)' = Reached(o, m)
      BY <1>2
    <3>7. Moves(r, p, {q}, id.nSegment + 1, k)
      BY <2>9, <3>1, <3>4, <3>5, <3>6 DEF Moves
    <3> QED BY <2>3, <2>4, <2>6, <2>9, <3>3, <3>7, OneMoves
  <2>11. Owned'
    <3>1. radReturn[r] \in Seq(Entry) /\ Len(radReturn[r]) = Len(raySegments[r])
      BY DEF IInv, Types, InStep
    <3>2. /\ radReturn'[r] = Append(radReturn[r], id) /\ \A o \in Ranks \ {r} : radReturn'[o] = radReturn[o]
      BY <2>2 DEF IInv, Types
    <3>3. radReturn'[r][Len(raySegments[r]) + 1] = id /\ \A i \in DOMAIN radReturn[r] : radReturn'[r][i] = radReturn[r][i]
      BY <3>1, <3>2
    <3> SUFFICES ASSUME NEW o \in Ranks, NEW m \in swarm'[o]
                 PROVE  /\ m.at <= Len(Path[m.id.ray]) + 1
                        /\ m.id.remoteRank # Decide => m.id = radReturn'[m.id.remoteRank][m.id.remoteRayId]
      BY DEF Owned
    <3>4. m = q \/ m \in swarm[o]
      BY <2>2 DEF IInv, Types
    <3>5. CASE m = q
      <4>1. m.id = id /\ m.at = p.at /\ m.id.ray = p.id.ray /\ m.id.remoteRank = r /\ m.id.remoteRayId = Len(raySegments[r]) + 1
        BY <2>2, <3>5
      <4>2. m.at <= Len(Path[m.id.ray]) + 1
        BY <2>3, <4>1 DEF PathInv, Owned
      <4> QED BY <3>3, <4>1, <4>2
    <3>6. CASE m \in swarm[o]
      <4>1. /\ m.at <= Len(Path[m.id.ray]) + 1
            /\ m.id.remoteRank # Decide => m.id = radReturn[m.id.remoteRank][m.id.remoteRayId]
        BY <3>6 DEF PathInv, Owned
      <4>2. ASSUME m.id.remoteRank # Decide
            PROVE  m.id.remoteRank \in Ranks /\ m.id.remoteRayId \in DOMAIN radReturn[m.id.remoteRank]
        <5>1. Known(m.id)
          BY <3>6, <4>2 DEF IInv, Carried, Carries
        <5> QED BY <5>1 DEF Known, IInv, Types, InStep
      <4> QED BY <3>2, <3>3, <4>1, <4>2
    <3> QED BY <3>4, <3>5, <3>6
  <2> QED BY <2>9, <2>10, <2>11 DEF PathInv
<1> QED BY <1>3, <1>4

(* The trace of a ray whose particle adds its cell, and those of the others.*)
LEMMA StepsOn ==
    ASSUME Room, IInv, PathInv, NEW r \in Ranks, NEW p \in todo[r], ParticleStep(r, p)
    PROVE  /\ Trail(p.id.ray, p.id.nSegment + 1, Far(p.id.ray, p.at))'
           /\ \A z, n, m : z # p.id.ray /\ Trail(z, n, m) => Trail(z, n, m)'
<1>1. pc[r] = "step" /\ radReturn' = radReturn
  BY DEF ParticleStep, At
<1>2. p \in swarm[r] /\ p \in Particles /\ Place(p) \in Cells /\ p.id.remoteRank = r
  BY <1>1 DEF ParticleStep, At, IInv, Here, InMesh, Types, Loops
<1>3. /\ p.id.ray \in Rays /\ p.at \in 1..Len(Path[p.id.ray]) /\ Place(p) = Path[p.id.ray][p.at]
      /\ p.at - 1 \in 0..Len(Path[p.id.ray]) /\ p.at \in 0..Len(Path[p.id.ray])
  <2>1. p.id.ray \in Rays /\ p.at \in 1..Len(Path[p.id.ray]) /\ Place(p) = Path[p.id.ray][p.at] /\ Len(Path[p.id.ray]) \in Nat
    BY <1>2, Within, PathType
  <2> QED BY <2>1
<1>4. Trail(p.id.ray, p.id.nSegment + 1, Far(p.id.ray, p.at - 1))
  <2>1. Reached(r, p) = Far(p.id.ray, p.at - 1)
    BY <1>1 DEF Reached, Stepped, ParticleStep, At
  <2> QED BY <1>2, <2>1 DEF PathInv, Trails
<1>5. CASE Place(p) \in SubDomain
  <2>1. AddSegment(r, p, CellAt(p.id.ray, p.at))
    BY <1>3, <1>5 DEF ParticleStep, CellAt
  <2>2. PICK k : k = Far(p.id.ray, p.at - 1)
    OBVIOUS
  <2>3. k + 1 = Far(p.id.ray, p.at) /\ WholeTrace(p.id.ray)[k + 1] = CellAt(p.id.ray, p.at)
    BY <1>3, <1>5, <2>2, WholeTraceCells
  <2>4. k \in Nat /\ k < Len(WholeTrace(p.id.ray))
    <3>1. k \in Nat /\ k + 1 \in 0..Len(WholeTrace(p.id.ray)) /\ Len(WholeTrace(p.id.ray)) \in Nat
      BY <1>3, <2>2, <2>3, ReachedType
    <3> QED BY <3>1
  <2>5. /\ Trail(p.id.ray, p.id.nSegment + 1, k + 1)'
        /\ \A z, n, m : z # p.id.ray /\ Trail(z, n, m) => Trail(z, n, m)'
    BY <1>1, <1>2, <1>4, <2>1, <2>2, <2>3, <2>4, AddPiece
  <2>6. PICK m : m = k + 1
    OBVIOUS
  <2>7. Trail(p.id.ray, p.id.nSegment + 1, m)' /\ m = Far(p.id.ray, p.at)
    BY <2>3, <2>5, <2>6
  <2> QED BY <2>5, <2>7
<1>6. CASE Place(p) \notin SubDomain
  <2>1. raySegments' = raySegments
    BY <1>6 DEF ParticleStep
  <2>2. Far(p.id.ray, p.at) = Far(p.id.ray, p.at - 1)
    BY <1>3, <1>6, WholeTraceCells
  <2>3. Trail(p.id.ray, p.id.nSegment + 1, Far(p.id.ray, p.at))
    BY <1>4, <2>2
  <2> QED BY <1>1, <2>1, <2>3, TrailStays
<1> QED BY <1>5, <1>6

LEMMA ParticleStepPath ==
    ASSUME Room, IInv, PathInv, NEW r \in Ranks, NEW p \in todo[r], ParticleStep(r, p) PROVE PathInv'
<1>1. pc[r] = "step" /\ todo' = [todo EXCEPT ![r] = @ \ {p}] /\ pc' = pc /\ swarm' = swarm /\ radReturn' = radReturn
  BY DEF ParticleStep, At
<1>2. p \in swarm[r] /\ p \in Particles /\ Place(p) \in Cells /\ p.id.remoteRank = r
  BY <1>1 DEF IInv, Here, InMesh, Types, Loops
<1>3. \A o \in Ranks : \A m \in swarm[o] : m # p => Reached(o, m)' = Reached(o, m)
  BY <1>1 DEF Reached, Stepped, IInv, Types
<1>4. Reached(r, p)' = Far(p.id.ray, p.at)
  <2>1. Stepped(r, p)'
    BY <1>1 DEF Stepped, IInv, Types
  <2> QED BY <2>1 DEF Reached
<1>5. p.id.ray \in Rays /\ p.at \in 0..Len(Path[p.id.ray])
  <2>1. p.id.ray \in Rays /\ p.at \in 1..Len(Path[p.id.ray]) /\ Len(Path[p.id.ray]) \in Nat
    BY <1>2, Within, PathType
  <2> QED BY <2>1
<1>6. p.id.nSegment + 1 \in Nat
  BY <1>2, Identified
<1>7. PICK k : k = Far(p.id.ray, p.at)
  OBVIOUS
<1>8. k \in 0..Len(WholeTrace(p.id.ray))
  BY <1>5, <1>7, ReachedType
<1>9. /\ Trail(p.id.ray, p.id.nSegment + 1, k)'
      /\ \A z, n, m : z # p.id.ray /\ Trail(z, n, m) => Trail(z, n, m)'
  BY <1>7, StepsOn
<1>10. One' /\ Trails' /\ Left'
  <2>1. \A o \in Ranks : swarm'[o] = IF o = r THEN (swarm[r] \ {p}) \cup {p} ELSE swarm[o]
    BY <1>1, <1>2
  <2>2. \A x, o \in {p} : x = o
    OBVIOUS
  <2>3. \A x \in {p} : x.id.ray = p.id.ray /\ x.id.nSegment + 1 = p.id.nSegment + 1 /\ Reached(r, x)' = k
    BY <1>4, <1>7
  <2>4. Moves(r, p, {p}, p.id.nSegment + 1, k)
    BY <1>3, <1>9, <2>1, <2>2, <2>3 DEF Moves
  <2> QED BY <1>2, <1>5, <1>6, <1>8, <1>9, <2>4, OneMoves
<1>11. Owned' /\ Numbered'
  BY <1>1 DEF PathInv, Owned, Numbered
<1> QED BY <1>10, <1>11 DEF PathInv

(* The wall is the last place of the trace.                                 *)
LEMMA ClosesTrace ==
    ASSUME Room, IInv, PathInv, NEW r \in Ranks, NEW p \in todo[r], Advance(r, p), Ends(p)
    PROVE  /\ Trail(p.id.ray, p.id.nSegment + 1, Len(WholeTrace(p.id.ray)))'
           /\ \A z, n, m : z # p.id.ray /\ Trail(z, n, m) => Trail(z, n, m)'
           /\ p.id.ray \in Rays /\ p.id.nSegment + 1 \in Nat /\ Len(WholeTrace(p.id.ray)) \in Nat
<1>1. pc[r] = "advance" /\ radReturn' = radReturn /\ AddSegment(r, p, [cell |-> Place(p), wall |-> TRUE])
  BY DEF Advance, At
<1>2. p \in swarm[r] /\ p \in Particles /\ Place(p) \in Cells /\ p.id.remoteRank = r
  BY <1>1 DEF Advance, At, IInv, Here, InMesh, Types, Loops
<1>3. /\ p.id.ray \in Rays /\ Place(p) = Path[p.id.ray][p.at] /\ p.at \in 0..Len(Path[p.id.ray])
      /\ p.at = Len(Path[p.id.ray])
  <2>1. /\ p.id.ray \in Rays /\ p.at \in 1..Len(Path[p.id.ray]) /\ Place(p) = Path[p.id.ray][p.at] /\ Len(Path[p.id.ray]) \in Nat
        /\ Place(p) \notin Region \/ p.id.ray \in Flat => p.at = Len(Path[p.id.ray])
    BY <1>2, Within, PathType
  <2> QED BY <2>1 DEF Ends
<1>4. ReachesWall(p.id.ray)
  BY <1>3 DEF Ends, ReachesWall, Last
<1>5. PICK k : k = Far(p.id.ray, p.at)
  OBVIOUS
<1>6. k \in Nat /\ Len(WholeTrace(p.id.ray)) \in Nat
  BY <1>3, <1>5, ReachedType
<1>7. Trail(p.id.ray, p.id.nSegment + 1, k)
  <2>1. Reached(r, p) = k
    BY <1>1, <1>5 DEF Reached, Stepped
  <2> QED BY <1>2, <2>1 DEF PathInv, Trails
<1>8. Len(WholeTrace(p.id.ray)) = k + 1 /\ WholeTrace(p.id.ray)[k + 1] = [cell |-> Place(p), wall |-> TRUE]
  <2>1. /\ Len(WholeTrace(p.id.ray)) = Far(p.id.ray, Len(Path[p.id.ray])) + 1
        /\ WholeTrace(p.id.ray)[Len(WholeTrace(p.id.ray))] = [cell |-> Path[p.id.ray][Len(Path[p.id.ray])], wall |-> TRUE]
    BY <1>3, <1>4, WholeTraceCells
  <2> QED BY <1>3, <1>5, <2>1
<1>9. k < Len(WholeTrace(p.id.ray))
  BY <1>6, <1>8
<1>10. /\ Trail(p.id.ray, p.id.nSegment + 1, k + 1)'
       /\ \A z, n, m : z # p.id.ray /\ Trail(z, n, m) => Trail(z, n, m)'
  BY <1>1, <1>2, <1>6, <1>7, <1>8, <1>9, AddPiece
<1>11. p.id.nSegment + 1 \in Nat
  BY <1>2, Identified
<1>12. PICK m : m = k + 1
  OBVIOUS
<1>13. Trail(p.id.ray, p.id.nSegment + 1, m)' /\ m = Len(WholeTrace(p.id.ray))
  BY <1>8, <1>10, <1>12
<1> QED BY <1>3, <1>6, <1>10, <1>11, <1>13

LEMMA AdvancePath ==
    ASSUME Room, IInv, PathInv, NEW r \in Ranks, NEW p \in todo[r], Advance(r, p) PROVE PathInv'
<1>1. pc[r] = "advance" /\ todo' = [todo EXCEPT ![r] = @ \ {p}] /\ pc' = pc /\ radReturn' = radReturn
  BY DEF Advance, At
<1>2. p \in swarm[r] /\ p \in Particles /\ Place(p) \in Cells /\ p.id.remoteRank = r
  BY <1>1 DEF IInv, Here, InMesh, Types, Loops
<1>3. \A o \in Ranks : \A m \in swarm[o] : m # p => Reached(o, m)' = Reached(o, m)
  BY <1>1 DEF Reached, Stepped, IInv, Types
<1>4. /\ p.id.ray \in Rays /\ p.at \in 1..Len(Path[p.id.ray]) /\ Place(p) = Path[p.id.ray][p.at]
      /\ p.at \in 0..Len(Path[p.id.ray]) /\ Len(Path[p.id.ray]) \in Nat
      /\ Place(p) \notin Region \/ p.id.ray \in Flat => p.at = Len(Path[p.id.ray])
  <2>1. /\ p.id.ray \in Rays /\ p.at \in 1..Len(Path[p.id.ray]) /\ Place(p) = Path[p.id.ray][p.at] /\ Len(Path[p.id.ray]) \in Nat
        /\ Place(p) \notin Region \/ p.id.ray \in Flat => p.at = Len(Path[p.id.ray])
    BY <1>2, Within, PathType
  <2> QED BY <2>1
<1>5. p.id.nSegment + 1 \in Nat
  BY <1>2, Identified
<1>6. PICK k : k = Far(p.id.ray, p.at)
  OBVIOUS
<1>7. k \in Nat /\ k \in 0..Len(WholeTrace(p.id.ray)) /\ Len(WholeTrace(p.id.ray)) \in Nat
  BY <1>4, <1>6, ReachedType
<1>8. Trail(p.id.ray, p.id.nSegment + 1, k)
  <2>1. Reached(r, p) = k
    BY <1>1, <1>6 DEF Reached, Stepped
  <2> QED BY <1>2, <2>1 DEF PathInv, Trails
<1>9. CASE Ends(p)
  <2>1. swarm' = [swarm EXCEPT ![r] = @ \ {p}]
    BY <1>9 DEF Advance, RemovePoint
  <2>2. PICK m : m = Len(WholeTrace(p.id.ray))
    OBVIOUS
  <2>3. /\ Trail(p.id.ray, p.id.nSegment + 1, m)' /\ m \in 0..Len(WholeTrace(p.id.ray))
        /\ \A z, i, c : z # p.id.ray /\ Trail(z, i, c) => Trail(z, i, c)'
    BY <1>7, <1>9, <2>2, ClosesTrace
  <2>4. One' /\ Trails' /\ Left'
    <3>1. \A o \in Ranks : swarm'[o] = IF o = r THEN (swarm[r] \ {p}) \cup {} ELSE swarm[o]
      BY <2>1 DEF IInv, Types
    <3>2. \A x, o \in {} : x = o
      OBVIOUS
    <3>3. \A x \in {} : x.id.ray = p.id.ray /\ x.id.nSegment + 1 = p.id.nSegment + 1 /\ Reached(r, x)' = m
      OBVIOUS
    <3>4. Moves(r, p, {}, p.id.nSegment + 1, m)
      BY <1>3, <2>3, <3>1, <3>2, <3>3 DEF Moves
    <3> QED BY <1>2, <1>4, <1>5, <2>3, <3>4, OneMoves
  <2>5. \A o \in Ranks : swarm'[o] \subseteq swarm[o]
    BY <2>1 DEF IInv, Types
  <2>6. Owned' /\ Numbered'
    BY <1>1, <2>5 DEF PathInv, Owned, Numbered
  <2> QED BY <2>4, <2>6 DEF PathInv
<1>10. CASE ~ Ends(p)
  <2> DEFINE q == [p EXCEPT !.at = @ + 1]
  <2>1. swarm' = [swarm EXCEPT ![r] = (@ \ {p}) \cup {q}] /\ raySegments' = raySegments
    BY <1>10 DEF Advance, Update, Moved, Ends
  <2>2. q.id = p.id /\ q.at = p.at + 1 /\ q # p /\ p.at \in Nat
    BY <1>2 DEF Particles
  <2> HIDE DEF q
  <2>3. Reached(r, q)' = k
    <3>1. q \notin swarm[r]
      BY <1>2, <2>2 DEF PathInv, One
    <3>2. q \notin todo'[r]
      BY <1>1, <3>1 DEF IInv, Types, Here, Loops
    <3>3. ~ Stepped(r, q)'
      BY <1>1, <3>2 DEF Stepped
    <3>4. (p.at + 1) - 1 = p.at
      BY <2>2
    <3> QED BY <1>6, <2>2, <3>3, <3>4 DEF Reached
  <2>4. \A z, n, m : Trail(z, n, m) => Trail(z, n, m)'
    BY <1>1, <2>1, TrailStays
  <2>5. One' /\ Trails' /\ Left'
    <3>1. \A o \in Ranks : swarm'[o] = IF o = r THEN (swarm[r] \ {p}) \cup {q} ELSE swarm[o]
      BY <2>1 DEF IInv, Types
    <3>2. \A x, o \in {q} : x = o
      OBVIOUS
    <3>3. \A x \in {q} : x.id.ray = p.id.ray /\ x.id.nSegment + 1 = p.id.nSegment + 1 /\ Reached(r, x)' = k
      BY <2>2, <2>3
    <3>4. Trail(p.id.ray, p.id.nSegment + 1, k)'
      BY <1>8, <2>4
    <3>5. Moves(r, p, {q}, p.id.nSegment + 1, k)
      BY <1>3, <2>4, <3>1, <3>2, <3>3 DEF Moves
    <3> QED BY <1>2, <1>4, <1>5, <1>7, <3>4, <3>5, OneMoves
  <2>6. Owned'
    <3> SUFFICES ASSUME NEW o \in Ranks, NEW m \in swarm'[o]
                 PROVE  /\ m.at <= Len(Path[m.id.ray]) + 1
                        /\ m.id.remoteRank # Decide => m.id = radReturn[m.id.remoteRank][m.id.remoteRayId]
      BY <1>1 DEF Owned
    <3>1. m = q \/ m \in swarm[o]
      BY <2>1 DEF IInv, Types
    <3>2. CASE m = q
      <4>1. m.id = p.id /\ m.at <= Len(Path[m.id.ray]) + 1
        BY <1>4, <2>2, <3>2
      <4> QED BY <1>2, <4>1 DEF PathInv, Owned
    <3>3. CASE m \in swarm[o]
      BY <3>3 DEF PathInv, Owned
    <3> QED BY <3>1, <3>2, <3>3
  <2>7. Numbered'
    BY <1>1 DEF PathInv, Numbered
  <2> QED BY <2>5, <2>6, <2>7 DEF PathInv
<1> QED BY <1>9, <1>10

LEMMA NextPath == Room /\ IInv /\ SolveInv /\ (Alone => PathInv) /\ [Next]_vars => (Alone => PathInv)'
<1> SUFFICES ASSUME Room, IInv, SolveInv, Alone => PathInv, [Next]_vars, Alone' PROVE PathInv'
  OBVIOUS
<1>1. found' = found
  BY DEF Next, SetupMigrate, RoundMigrate, Migrate, GetSize, EndLoop, DeleteOutOfBounds, IdentifyNewRay,
         ParticleStep, Advance, ReturnRay, SetUp, EvaluateGains, FlowStep, vars, mesh
<1>2. Alone /\ PathInv /\ Settings
  BY <1>1 DEF Alone, SolveInv
<1>3. CASE SetupMigrate \/ RoundMigrate
  BY <1>2, <1>3, MigratePath DEF SetupMigrate, RoundMigrate
<1>4. CASE GetSize
  BY <1>2, <1>4, GetSizePath
<1>5. CASE \E r \in Ranks : EndLoop(r)
  BY <1>2, <1>5, EndLoopPath
<1>6. CASE \E r \in Ranks : \E p \in todo[r] :
              DeleteOutOfBounds(r, p) \/ IdentifyNewRay(r, p) \/ ParticleStep(r, p) \/ Advance(r, p)
  BY <1>2, <1>6, DeleteOutOfBoundsPath, IdentifyNewRayPath, ParticleStepPath, AdvancePath
<1>7. CASE \E y \in Rays : ReturnRay(y)
  BY <1>2, <1>7, SolvePath DEF ReturnRay
<1>8. CASE SetUp
  BY <1>2, <1>8, SolvePath DEF SetUp
<1>9. CASE EvaluateGains
  BY <1>2, <1>9, SolvePath DEF EvaluateGains
<1>10. CASE FlowStep
  BY <1>2, <1>10, SolvePath DEF FlowStep
<1>11. CASE UNCHANGED vars
  BY <1>2, <1>11, SolvePath DEF vars
<1> QED BY <1>3, <1>4, <1>5, <1>6, <1>7, <1>8, <1>9, <1>10, <1>11 DEF Next

(* Where every cell belongs to one rank, the segments of a ray, in the      *)
(* order of their numbers, are consecutive pieces of what one rank alone    *)
(* would record along its path: for any partition, paths and order of the   *)
(* loops, and at every moment of the search.                                *)
THEOREM SegmentsFollowThePath == ASSUME Room PROVE Spec => []SegmentsFollowPath
<1>1. IInv /\ (Alone => PathInv) => SegmentsFollowPath
  <2> SUFFICES ASSUME IInv, PathInv, NEW y \in Rays PROVE Consecutive(Returned(y), SegmentsOf(y), WholeTrace(y))
    BY DEF SegmentsFollowPath
  <2>1. PICK n \in Nat, k \in 0..Len(WholeTrace(y)) : Trail(y, n, k)
    BY DEF PathInv, Left
  <2>2. PICK cuts \in Cuts(n, k) : \A r \in Ranks : \A i \in DOMAIN radReturn[r] :
           radReturn[r][i].ray = y => Fits(r, i, n, cuts)
    BY <2>1 DEF Trail
  <2>3. ASSUME NEW id \in Returned(y)
        PROVE  /\ id.ray = y /\ id.nSegment \in Nat /\ id.nSegment + 1 <= n /\ cuts[id.nSegment] <= cuts[id.nSegment + 1]
               /\ raySegments[id.remoteRank][id.remoteRayId]
                    = SubSeq(WholeTrace(y), cuts[id.nSegment] + 1, cuts[id.nSegment + 1])
               /\ id.remoteRank \in Ranks /\ id.remoteRayId \in DOMAIN radReturn[id.remoteRank]
               /\ id = radReturn[id.remoteRank][id.remoteRayId]
    <3>1. PICK r \in Ranks : \E i \in DOMAIN radReturn[r] : id = radReturn[r][i]
      BY EntriesReturned DEF IInv
    <3>2. PICK i \in DOMAIN radReturn[r] : id = radReturn[r][i]
      BY <3>1
    <3>3. id \in Entry /\ id.ray = y /\ id.nSegment \in Nat
      BY EntriesReturned DEF IInv, Entry
    <3>4. Fits(r, i, n, cuts)
      BY <2>2, <3>2, <3>3
    <3>5. id.remoteRank = r /\ id.remoteRayId = i
      BY <3>2 DEF IInv, InStep
    <3> QED BY <3>2, <3>3, <3>4, <3>5 DEF Fits
  <2>4. ASSUME NEW i \in Returned(y), NEW j \in Returned(y), i.nSegment = j.nSegment PROVE i = j
    BY <2>3, <2>4 DEF PathInv, Numbered
  <2>5. PICK m \in Nat : m = SegmentsOf(y)
    BY SegmentsCounted
  <2>6. ASSUME NEW s \in 1..m PROVE \E id \in Returned(y) : id.nSegment + 1 = s
    BY <2>5, NoGap
  <2>7. m <= n
    <3>1. CASE m = 0
      BY <3>1
    <3>2. CASE m # 0
      <4>1. m \in 1..m
        BY <3>2
      <4>2. PICK id \in Returned(y) : id.nSegment + 1 = m
        BY <2>6, <4>1
      <4> QED BY <2>3, <4>2
    <3> QED BY <3>1, <3>2
  <2>8. Len(WholeTrace(y)) \in Nat
    <3>1. WholeTrace(y) \in Seq(Segments)
      BY WholeTraceCells
    <3> QED BY <3>1
  <2> DEFINE c == [x \in 0..m |-> cuts[x]]
  <2>9. /\ c \in [0..m -> 0..Len(WholeTrace(y))] /\ c[0] = 0
        /\ \A x \in 0..m : c[x] = cuts[x]
    <3>1. cuts \in [0..n -> 0..k] /\ cuts[0] = 0 /\ 0 \in 0..m
      BY <2>2 DEF Cuts
    <3>2. \A x \in 0..m : x \in 0..n
      BY <2>7
    <3>3. \A x \in 0..m : cuts[x] \in 0..Len(WholeTrace(y))
      BY <2>8, <3>1, <3>2
    <3> QED BY <3>1, <3>3
  <2> HIDE DEF c
  <2>10. ASSUME NEW s \in 1..m
         PROVE  c[s - 1] <= c[s] /\ \E id \in Returned(y) :
                   /\ id.nSegment + 1 = s
                   /\ raySegments[id.remoteRank][id.remoteRayId] = SubSeq(WholeTrace(y), c[s - 1] + 1, c[s])
    <3>1. PICK id \in Returned(y) : id.nSegment + 1 = s
      BY <2>6
    <3>2. id.nSegment = s - 1 /\ s - 1 \in 0..m /\ s \in 0..m
      BY <2>3, <3>1
    <3>3. c[s - 1] = cuts[s - 1] /\ c[s] = cuts[s]
      BY <2>9, <3>2
    <3>4. /\ cuts[s - 1] <= cuts[s]
          /\ raySegments[id.remoteRank][id.remoteRayId] = SubSeq(WholeTrace(y), cuts[s - 1] + 1, cuts[s])
      BY <2>3, <3>1, <3>2
    <3> QED BY <3>1, <3>3, <3>4
  <2>11. \E d \in [0..m -> 0..Len(WholeTrace(y))] :
            /\ d[0] = 0
            /\ \A s \in 1..m : d[s - 1] <= d[s] /\ \E id \in Returned(y) :
                  /\ id.nSegment + 1 = s
                  /\ raySegments[id.remoteRank][id.remoteRayId] = SubSeq(WholeTrace(y), d[s - 1] + 1, d[s])
    BY <2>9, <2>10
  <2> QED BY <2>4, <2>5, <2>11 DEF Consecutive
<1>2. Spec => [](IInv /\ SolveInv /\ (Alone => PathInv))
  BY InitInv, NextInv, InitSolve, NextSolve, PathInit, NextPath, PTL DEF Spec
<1> QED BY <1>1, <1>2, PTL
-----------------------------------------------------------------------------
(* Halvings are exact as long as there are not more than Depth of them.     *)
LEMMA PowerSum == ASSUME NEW a \in Nat, NEW b \in Nat PROVE 2^(a + b) = 2^a * 2^b
<1> DEFINE A == 1..a
           B == a + 1..a + b
           C == 1..a + b
           f == [S \in SUBSET C |-> <<S \cap A, S \cap B>>]
<1>1. /\ IsFiniteSet(A) /\ Cardinality(A) = a /\ IsFiniteSet(B) /\ Cardinality(B) = b
      /\ IsFiniteSet(C) /\ Cardinality(C) = a + b
  <2>1. ASSUME NEW n \in Nat PROVE IsFiniteSet(1..n) /\ Cardinality(1..n) = n
    BY FS_Interval
  <2>2. IsFiniteSet(B) /\ Cardinality(B) = IF a + 1 <= a + b THEN (a + b) - (a + 1) + 1 ELSE 0
    <3>1. a + 1 \in Int /\ a + b \in Int
      OBVIOUS
    <3> QED BY <3>1, FS_Interval
  <2>3. Cardinality(B) = b
    BY <2>2
  <2> QED BY <2>1, <2>2, <2>3, a + b \in Nat
<1>2. C = A \cup B /\ A \cap B = {}
  OBVIOUS
<1> HIDE DEF A, B, C
<1>3. /\ IsFiniteSet(SUBSET A) /\ Cardinality(SUBSET A) = 2^a
      /\ IsFiniteSet(SUBSET B) /\ Cardinality(SUBSET B) = 2^b
      /\ IsFiniteSet(SUBSET C) /\ Cardinality(SUBSET C) = 2^(a + b)
  BY <1>1, FS_SUBSET
<1>4. IsFiniteSet((SUBSET A) \X (SUBSET B)) /\ Cardinality((SUBSET A) \X (SUBSET B)) = 2^a * 2^b
  BY <1>3, FS_Product
<1>5. f \in Bijection(SUBSET C, (SUBSET A) \X (SUBSET B))
  <2>1. f \in [SUBSET C -> (SUBSET A) \X (SUBSET B)]
    OBVIOUS
  <2>2. ASSUME NEW S \in SUBSET C, NEW T \in SUBSET C, f[S] = f[T] PROVE S = T
    <3>1. S \cap A = T \cap A /\ S \cap B = T \cap B
      BY <2>2
    <3> QED BY <1>2, <3>1
  <2>3. ASSUME NEW X \in SUBSET A, NEW Y \in SUBSET B PROVE \E S \in SUBSET C : f[S] = <<X, Y>>
    <3>1. X \cup Y \in SUBSET C /\ (X \cup Y) \cap A = X /\ (X \cup Y) \cap B = Y
      BY <1>2
    <3> QED BY <3>1
  <2>4. \A z \in (SUBSET A) \X (SUBSET B) : \E S \in SUBSET C : f[S] = z
    <3> SUFFICES ASSUME NEW z \in (SUBSET A) \X (SUBSET B) PROVE \E S \in SUBSET C : f[S] = z
      OBVIOUS
    <3>1. PICK X \in SUBSET A, Y \in SUBSET B : z = <<X, Y>>
      OBVIOUS
    <3> QED BY <2>3, <3>1
  <2> HIDE DEF f
  <2> QED BY <2>1, <2>2, <2>4 DEF Bijection, Injection, Surjection, IsInjective
<1> HIDE DEF f
<1>6. Cardinality(SUBSET C) = Cardinality((SUBSET A) \X (SUBSET B))
  BY <1>3, <1>5, FS_Bijection DEF ExistsBijection
<1> QED BY <1>3, <1>4, <1>6

LEMMA DivideBack == ASSUME NEW z \in Int, NEW d \in Nat \ {0} PROVE (z * d) \div d = z
<1> DEFINE q == (z * d) \div d
<1>1. q \in Int /\ d * q <= z * d /\ z * d < d * (q + 1) /\ d \in Nat
  OBVIOUS
<1> HIDE DEF q
<1>2. d * q = q * d /\ d * (q + 1) = (q + 1) * d
  BY <1>1
<1>3. ASSUME NEW x \in Int, NEW w \in Int, x < w PROVE x * d + d <= w * d
  <2>1. PICK e \in Nat : w = x + e + 1
    <3>1. w - x - 1 \in Nat /\ w = x + (w - x - 1) + 1
      BY <1>3
    <3> QED BY <3>1
  <2>2. w * d = x * d + e * d + d /\ e * d \in Nat /\ x * d \in Int
    BY <1>1, <2>1
  <2> QED BY <1>1, <2>2
<1>4. ~ (q < z)
  <2> SUFFICES ASSUME q < z PROVE FALSE
    OBVIOUS
  <2>1. q * d + d <= z * d /\ (q + 1) * d = q * d + d
    BY <1>1, <1>3
  <2>2. z * d \in Int /\ q * d \in Int
    BY <1>1
  <2> QED BY <1>1, <1>2, <2>1, <2>2
<1>5. ~ (z < q)
  <2> SUFFICES ASSUME z < q PROVE FALSE
    OBVIOUS
  <2>1. z * d + d <= q * d
    BY <1>1, <1>3
  <2>2. z * d \in Int /\ q * d \in Int /\ d > 0
    BY <1>1
  <2> QED BY <1>1, <1>2, <2>1, <2>2
<1>6. q = z
  BY <1>1, <1>4, <1>5
<1> QED BY <1>6 DEF q

(* What has been halved n times is doubled n times before.                  *)
LEMMA ThroughExact == ASSUME NEW z \in Int, NEW n \in Nat PROVE Through(z * 2^n, n) = z
BY PowerPositive, DivideBack DEF Through

LEMMA SeenValue ==
    ASSUME NEW t \in 0..1, NEW c \in SubDomain, NEW n \in Nat, n <= Depth
    PROVE  Seen(t, c, n) = Emission[t][c] * 2^(Depth - n) /\ Emission[t][c] \in Nat /\ 2^(Depth - n) \in Nat
<1>1. Depth - n \in Nat /\ Depth = (Depth - n) + n /\ Emission[t][c] \in Nat
  BY OpticsAssumption, MeshAssumption
<1>2. 2^Depth = 2^(Depth - n) * 2^n
  BY <1>1, PowerSum
<1>3. 2^(Depth - n) \in Nat /\ 2^n \in Nat \ {0}
  BY <1>1, PowerPositive
<1>4. ASSUME NEW e \in Nat, NEW u \in Nat, NEW v \in Nat \ {0} PROVE (e * (u * v)) \div v = e * u
  <2>1. e * (u * v) = (e * u) * v /\ e * u \in Int
    BY <1>4
  <2> QED BY <2>1, DivideBack
<1>5. (Emission[t][c] * 2^Depth) \div 2^n = Emission[t][c] * 2^(Depth - n)
  BY <1>1, <1>2, <1>3, <1>4
<1> QED BY <1>1, <1>3, <1>5 DEF Seen

LEMMA SeenType == ASSUME NEW t \in 0..1, NEW c \in Cells, NEW n \in Nat PROVE Seen(t, c, n) \in Int
<1>1. CASE c \notin SubDomain
  BY <1>1 DEF Seen
<1>2. CASE c \in SubDomain
  <2>1. Emission[t][c] \in Nat /\ 2^Depth \in Nat /\ 2^n \in Nat \ {0}
    BY PowerPositive, OpticsAssumption
  <2>2. ASSUME NEW a \in Nat, NEW b \in Nat, NEW d \in Nat \ {0} PROVE (a * b) \div d \in Int
    BY <2>2
  <2> QED BY <1>2, <2>1, <2>2 DEF Seen
<1> QED BY <1>1, <1>2

(* More halvings in front let through the exact part of it.                 *)
LEMMA SeenFarther ==
    ASSUME NEW t \in 0..1, NEW c \in Cells, NEW n \in Nat, NEW k \in Nat, n + k <= Depth
    PROVE  Seen(t, c, n) = Seen(t, c, n + k) * 2^k /\ Seen(t, c, n) \in Int /\ Seen(t, c, n + k) \in Int
<1>0. 2^k \in Nat
  BY PowerPositive
<1>1. CASE c \notin SubDomain
  BY <1>0, <1>1 DEF Seen
<1>2. CASE c \in SubDomain
  <2>0. Depth \in Nat /\ n <= Depth /\ n + k \in Nat
    BY OpticsAssumption
  <2>1. /\ Seen(t, c, n) = Emission[t][c] * 2^(Depth - n) /\ Emission[t][c] \in Nat
        /\ Seen(t, c, n + k) = Emission[t][c] * 2^(Depth - (n + k))
        /\ 2^(Depth - (n + k)) \in Nat
    BY <1>2, <2>0, SeenValue
  <2>2. Depth - (n + k) \in Nat /\ Depth - n = (Depth - (n + k)) + k
    BY <2>0
  <2>3. 2^(Depth - n) = 2^(Depth - (n + k)) * 2^k
    BY <2>2, PowerSum
  <2>4. ASSUME NEW e \in Nat, NEW u \in Nat, NEW v \in Nat PROVE e * (u * v) = (e * u) * v /\ e * (u * v) \in Int /\ e * u \in Int
    BY <2>4
  <2> QED BY <1>0, <2>1, <2>3, <2>4
<1> QED BY <1>1, <1>2

(* The halvings and the light along a path.                                 *)
Sums(f, n, d) == f = [k \in 0..n |-> IF k = 0 THEN 0 ELSE f[k - 1] + d[k]]

LEMMA SumsExist ==
    ASSUME NEW n \in Nat, NEW d \in [1..n -> Int]
    PROVE  \E f : Sums(f, n, d)
<1>1. PICK h : h = [iv \in (1..n) \X Int |-> iv[2] + d[iv[1]]]
  OBVIOUS
<1>2. h \in Steps(n, Int) /\ \A i \in 1..n : \A v \in Int : h[<<i, v>>] = v + d[i]
  BY <1>1 DEF Steps
<1>3. PICK t \in SeriesOf(n, Int, 0, h) : TRUE
  <2>1. 0 \in Int
    OBVIOUS
  <2> QED BY <1>2, <2>1, SeriesExists
<1>4. t \in [0..n -> Int] /\ t[0] = 0 /\ \A i \in 1..n : t[i] = h[<<i, t[i - 1]>>]
  BY <1>3 DEF SeriesOf
<1>5. ASSUME NEW k \in 0..n PROVE t[k] = IF k = 0 THEN 0 ELSE t[k - 1] + d[k]
  <2>1. CASE k = 0
    BY <1>4, <2>1
  <2>2. CASE k # 0
    <3>1. k \in 1..n /\ k - 1 \in 0..n
      BY <2>2
    <3>2. t[k - 1] \in Int /\ t[k] = h[<<k, t[k - 1]>>]
      BY <1>4, <3>1
    <3> QED BY <1>2, <2>2, <3>1, <3>2
  <2> QED BY <2>1, <2>2
<1>6. t = [k \in 0..n |-> t[k]]
  BY <1>4
<1>7. t = [k \in 0..n |-> IF k = 0 THEN 0 ELSE t[k - 1] + d[k]]
  BY <1>5, <1>6
<1> QED BY <1>7 DEF Sums

LEMMA SumsAre ==
    ASSUME NEW n \in Nat, NEW d \in [1..n -> Int],
           NEW f, Sums(f, n, d)
    PROVE  f \in [0..n -> Int] /\ f[0] = 0 /\ \A k \in 1..n : f[k] = f[k - 1] + d[k]
<1> USE DEF Sums
<1>1. f[0] = 0
  <2>1. 0 \in 0..n
    OBVIOUS
  <2> QED BY <2>1
<1>2. ASSUME NEW k \in 1..n PROVE f[k] = f[k - 1] + d[k]
  <2>1. k \in 0..n /\ k # 0
    OBVIOUS
  <2> QED BY <2>1
<1> DEFINE Typed(k) == k <= n => f[k] \in Int
<1>3. Typed(0)
  BY <1>1
<1>4. ASSUME NEW k \in Nat, Typed(k) PROVE Typed(k + 1)
  <2> SUFFICES ASSUME k + 1 <= n PROVE f[k + 1] \in Int
    OBVIOUS
  <2>1. k + 1 \in 1..n /\ (k + 1) - 1 = k /\ f[k] \in Int
    BY <1>4
  <2>2. f[k + 1] = f[k] + d[k + 1] /\ d[k + 1] \in Int
    BY <1>2, <2>1
  <2> QED BY <2>1, <2>2
<1>5. \A k \in Nat : Typed(k)
  <2> HIDE DEF Typed
  <2> DEFINE I == {k \in Nat : Typed(k)}
  <2>1. I \in SUBSET Nat /\ 0 \in I /\ \A k \in I : k + 1 \in I
    BY <1>3, <1>4
  <2>2. I = Nat
    <3> HIDE DEF I
    <3> QED BY <2>1, Induction
  <2> QED BY <2>2
<1>6. f = [k \in 0..n |-> f[k]] /\ \A k \in 0..n : f[k] \in Int
  BY <1>5
<1>7. f \in [0..n -> Int]
  BY <1>6
<1> QED BY <1>1, <1>2, <1>7

LEMMA DimmingType == ASSUME NEW c \in Cells PROVE Dimming(c) \in Nat
BY OpticsAssumption DEF Dimming

LEMMA DimmedCells ==
    ASSUME NEW y \in Rays
    PROVE  /\ Dimmed(y) \in [0..Len(Path[y]) -> Nat] /\ Dimmed(y)[0] = 0
           /\ \A k \in 1..Len(Path[y]) : Dimmed(y)[k] = Dimmed(y)[k - 1] + Dimming(Path[y][k])
<1> DEFINE n == Len(Path[y])
           d == [k \in 1..n |-> Dimming(Path[y][k])]
           A(f) == [k \in 0..n |-> IF k = 0 THEN 0 ELSE f[k - 1] + Dimming(Path[y][k])]
           B(f) == [k \in 0..n |-> IF k = 0 THEN 0 ELSE f[k - 1] + d[k]]
<1>1. n \in Nat /\ \A k \in 1..n : Path[y][k] \in Cells
  BY PathType
<1>2. d \in [1..n -> Nat] /\ d \in [1..n -> Int]
  BY <1>1, DimmingType
<1>3. Dimmed(y) = CHOOSE f : f = A(f)
  BY DEF Dimmed
<1> HIDE DEF n
<1>4. ASSUME NEW f PROVE A(f) = B(f)
  <2>1. \A k \in 0..n : k # 0 => k \in 1..n
    BY <1>1
  <2> QED BY <2>1
<1> HIDE DEF d
<1>5. PICK g : g = B(g)
  <2>1. PICK g : Sums(g, n, d)
    BY <1>1, <1>2, SumsExist
  <2> QED BY <2>1 DEF Sums
<1>6. g = A(g)
  <2> HIDE DEF A, B
  <2> QED BY <1>4, <1>5
<1>7. PICK D : D = Dimmed(y) /\ D = A(D)
  <2> HIDE DEF A, B
  <2> QED BY <1>3, <1>6
<1>8. Sums(D, n, d)
  <2>1. D = B(D)
    <3> HIDE DEF A, B
    <3> QED BY <1>4, <1>7
  <2> QED BY <2>1 DEF Sums
<1>9. D \in [0..n -> Int] /\ D[0] = 0 /\ \A k \in 1..n : D[k] = D[k - 1] + d[k]
  BY <1>1, <1>2, <1>8, SumsAre
<1> DEFINE Typed(k) == k <= n => D[k] \in Nat
<1>10. Typed(0)
  BY <1>9
<1>11. ASSUME NEW k \in Nat, Typed(k) PROVE Typed(k + 1)
  <2> SUFFICES ASSUME k + 1 <= n PROVE D[k + 1] \in Nat
    OBVIOUS
  <2>1. k + 1 \in 1..n /\ (k + 1) - 1 = k /\ D[k] \in Nat
    BY <1>1, <1>11
  <2> QED BY <1>2, <1>9, <2>1
<1>12. \A k \in Nat : Typed(k)
  <2> HIDE DEF Typed
  <2> DEFINE I == {k \in Nat : Typed(k)}
  <2>1. I \in SUBSET Nat /\ 0 \in I /\ \A k \in I : k + 1 \in I
    BY <1>10, <1>11
  <2>2. I = Nat
    <3> HIDE DEF I
    <3> QED BY <2>1, Induction
  <2> QED BY <2>2
<1>13. D \in [0..n -> Nat]
  BY <1>1, <1>9, <1>12
<1> QED BY <1>7, <1>9, <1>13 DEF n, d

LEMMA LightCells ==
    ASSUME NEW t \in 0..1, NEW y \in Rays
    PROVE  /\ Light(t, y) \in [0..Len(Path[y]) -> Int] /\ Light(t, y)[0] = 0
           /\ \A k \in 1..Len(Path[y]) :
                 Light(t, y)[k] = Light(t, y)[k - 1] + (Seen(t, Path[y][k], Dimmed(y)[k - 1]) - Seen(t, Path[y][k], Dimmed(y)[k]))
<1> DEFINE n == Len(Path[y])
           Of(k) == Seen(t, Path[y][k], Dimmed(y)[k - 1]) - Seen(t, Path[y][k], Dimmed(y)[k])
           d == [k \in 1..n |-> Of(k)]
           A(f) == [k \in 0..n |-> IF k = 0 THEN 0 ELSE f[k - 1] + Of(k)]
           B(f) == [k \in 0..n |-> IF k = 0 THEN 0 ELSE f[k - 1] + d[k]]
<1>1. n \in Nat /\ \A k \in 1..n : Path[y][k] \in Cells
  BY PathType
<1>2. d \in [1..n -> Int]
  <2>1. ASSUME NEW k \in 1..n PROVE Of(k) \in Int
    <3>1. Dimmed(y)[k - 1] \in Nat /\ Dimmed(y)[k] \in Nat
      <4>1. k - 1 \in 0..Len(Path[y]) /\ k \in 0..Len(Path[y])
        BY <1>1
      <4> QED BY <4>1, DimmedCells
    <3>2. Path[y][k] \in Cells
      BY <1>1
    <3>3. Seen(t, Path[y][k], Dimmed(y)[k - 1]) \in Int
      BY <3>1, <3>2, SeenType
    <3>4. Seen(t, Path[y][k], Dimmed(y)[k]) \in Int
      BY <3>1, <3>2, SeenType
    <3> QED BY <3>3, <3>4
  <2> HIDE DEF Of
  <2> QED BY <2>1
<1>3. Light(t, y) = CHOOSE f : f = A(f)
  BY DEF Light
<1> HIDE DEF n, Of
<1>4. ASSUME NEW f PROVE A(f) = B(f)
  <2>1. \A k \in 0..n : k # 0 => k \in 1..n
    BY <1>1
  <2> QED BY <2>1
<1> HIDE DEF d
<1>5. PICK g : g = B(g)
  <2>1. PICK g : Sums(g, n, d)
    BY <1>1, <1>2, SumsExist
  <2> QED BY <2>1 DEF Sums
<1>6. g = A(g)
  <2> HIDE DEF A, B
  <2> QED BY <1>4, <1>5
<1>7. PICK L : L = Light(t, y) /\ L = A(L)
  <2> HIDE DEF A, B
  <2> QED BY <1>3, <1>6
<1>8. Sums(L, n, d)
  <2>1. L = B(L)
    <3> HIDE DEF A, B
    <3> QED BY <1>4, <1>7
  <2> QED BY <2>1 DEF Sums
<1>9. L \in [0..n -> Int] /\ L[0] = 0 /\ \A k \in 1..n : L[k] = L[k - 1] + d[k]
  BY <1>1, <1>2, <1>8, SumsAre
<1> QED BY <1>7, <1>9 DEF n, d, Of

(* Passing a cell, in what is seen of it.                                   *)
Zero == [Ij |-> 0, Krad |-> 0]

LEMMA CarrierIs ==
    ASSUME NEW v \in Carriers, NEW w \in Carriers, v.Ij = w.Ij, v.Krad = w.Krad PROVE v = w
BY DEF Carriers

LEMMA PassSeen ==
    ASSUME time \in 0..1, NEW v \in Carriers, NEW s \in Segments
    PROVE  /\ Pass(v, s) \in Carriers
           /\ Pass(v, s).Krad = v.Krad + (IF s.wall THEN 0 ELSE Dimming(s.cell))
           /\ Pass(v, s).Ij = v.Ij + (Seen(time, s.cell, v.Krad)
                                       - (IF s.wall THEN 0 ELSE Seen(time, s.cell, v.Krad + Dimming(s.cell))))
<1>1. v.Ij \in Int /\ v.Krad \in Nat /\ s.cell \in Cells /\ s.wall \in BOOLEAN
  BY DEF Carriers, Segments
<1>2. Dimming(s.cell) \in Nat /\ v.Krad + Dimming(s.cell) \in Nat
  BY <1>1, DimmingType
<1>3. Seen(time, s.cell, v.Krad) \in Int /\ Seen(time, s.cell, v.Krad + Dimming(s.cell)) \in Int
  BY <1>1, <1>2, SeenType
<1>4. CASE s.cell \notin SubDomain
  <2>1. Pass(v, s) = v
    BY <1>4 DEF Pass
  <2>2. Dimming(s.cell) = 0 /\ Seen(time, s.cell, v.Krad) = 0 /\ Seen(time, s.cell, v.Krad + Dimming(s.cell)) = 0
    BY <1>4 DEF Dimming, Seen
  <2> QED BY <1>1, <2>1, <2>2
<1>5. CASE s.cell \in SubDomain
  <2>1. \A n : Through(Emitted(s.cell), n) = Seen(time, s.cell, n)
    BY <1>5 DEF Through, Emitted, Seen
  <2>2. Halvings[s.cell] = Dimming(s.cell)
    BY <1>5 DEF Dimming
  <2>3. Pass(v, s) \in Carriers
    BY PassType
  <2>4. CASE s.wall
    <3>1. Pass(v, s) = [v EXCEPT !.Ij = @ + Seen(time, s.cell, v.Krad)]
      BY <1>5, <2>1, <2>4 DEF Pass
    <3>2. Pass(v, s).Ij = v.Ij + Seen(time, s.cell, v.Krad) /\ Pass(v, s).Krad = v.Krad
      BY <3>1 DEF Carriers
    <3> QED BY <1>1, <1>3, <2>3, <2>4, <3>2
  <2>5. CASE ~ s.wall
    <3>1. Pass(v, s) = [Ij |-> v.Ij + Seen(time, s.cell, v.Krad) - Seen(time, s.cell, v.Krad + Dimming(s.cell)),
                        Krad |-> v.Krad + Dimming(s.cell)]
      BY <1>5, <2>1, <2>2, <2>5 DEF Pass
    <3> QED BY <1>1, <1>2, <1>3, <2>3, <2>5, <3>1
  <2> QED BY <2>4, <2>5
<1> QED BY <1>4, <1>5

(* What a rank alone carries along a sequence of cells.                     *)
CarriedAlong(ray, t) ==
    /\ t \in [0..Len(ray) -> Carriers] /\ t[0] = Zero
    /\ \A i \in 1..Len(ray) : t[i] = Pass(t[i - 1], ray[i])

LEMMA CarrierExists ==
    ASSUME time \in 0..1, NEW ray \in Seq(Segments)
    PROVE  \E t : CarriedAlong(ray, t) /\ t[Len(ray)] = FoldLeft(Pass, Zero, ray)
<1>1. Zero \in Carriers
  BY DEF Zero, Carriers
<1>2. PICK t \in [0..Len(ray) -> Carriers] :
              /\ t[0] = Zero /\ t[Len(ray)] = FoldLeft(Pass, Zero, ray)
              /\ \A i \in 1..Len(ray) : t[i] = Pass(t[i - 1], ray[i])
  BY <1>1, PassSeries
<1> QED BY <1>2 DEF CarriedAlong

(* Along the whole trace it carries the light of the path so far.           *)
LEMMA WholeCarrier ==
    ASSUME time \in 0..1, NEW y \in Rays, NEW T, CarriedAlong(WholeTrace(y), T)
    PROVE  \A k \in 0..Len(Path[y]) : T[Far(y, k)].Ij = Light(time, y)[k] /\ T[Far(y, k)].Krad = Dimmed(y)[k]
<1> DEFINE n == Len(Path[y])
           W == WholeTrace(y)
           D == Dimmed(y)
           G == Light(time, y)
           Good(k) == k <= n => T[Far(y, k)].Ij = G[k] /\ T[Far(y, k)].Krad = D[k]
<1>1. /\ n \in Nat /\ W \in Seq(Segments) /\ Len(W) \in Nat
      /\ \A k \in 0..n : Far(y, k) \in 0..Len(W)
      /\ \A k \in 1..n : Path[y][k] \in Cells /\ CellAt(y, k) \in Segments
      /\ \A k \in 1..n : IF Path[y][k] \in SubDomain THEN Far(y, k) = Far(y, k - 1) + 1 /\ W[Far(y, k)] = CellAt(y, k)
                         ELSE Far(y, k) = Far(y, k - 1)
  <2>1. W \in Seq(Segments)
    BY WholeTraceCells
  <2>2. n \in Nat /\ \A k \in 1..n : Path[y][k] \in Cells /\ CellAt(y, k) \in Segments
    BY PathType
  <2>3. Len(W) \in Nat
    <3> HIDE DEF W
    <3> QED BY <2>1
  <2>4. /\ \A k \in 0..n : Far(y, k) \in 0..Len(W)
        /\ \A k \in 1..n : IF Path[y][k] \in SubDomain THEN Far(y, k) = Far(y, k - 1) + 1 /\ W[Far(y, k)] = CellAt(y, k)
                            ELSE Far(y, k) = Far(y, k - 1)
    BY WholeTraceCells
  <2> QED BY <2>1, <2>2, <2>3, <2>4
<1>2. /\ D \in [0..n -> Nat] /\ D[0] = 0 /\ \A k \in 1..n : D[k] = D[k - 1] + Dimming(Path[y][k])
  BY DimmedCells
<1>3. /\ G \in [0..n -> Int] /\ G[0] = 0
      /\ \A k \in 1..n : G[k] = G[k - 1] + (Seen(time, Path[y][k], D[k - 1]) - Seen(time, Path[y][k], D[k]))
  BY LightCells
<1>4. T \in [0..Len(W) -> Carriers] /\ T[0] = Zero /\ \A i \in 1..Len(W) : T[i] = Pass(T[i - 1], W[i])
  BY DEF CarriedAlong
<1>5. Far(y, 0) = 0
  BY RecordedCells DEF Far
<1> HIDE DEF n, W, D, G
<1>6. Good(0)
  BY <1>2, <1>3, <1>4, <1>5 DEF Zero
<1>7. ASSUME NEW k \in Nat, Good(k) PROVE Good(k + 1)
  <2> SUFFICES ASSUME k + 1 <= n PROVE T[Far(y, k + 1)].Ij = G[k + 1] /\ T[Far(y, k + 1)].Krad = D[k + 1]
    OBVIOUS
  <2>1. k + 1 \in 1..n /\ (k + 1) - 1 = k /\ k \in 0..n /\ k + 1 \in 0..n
    BY <1>1
  <2>2. T[Far(y, k)].Ij = G[k] /\ T[Far(y, k)].Krad = D[k] /\ G[k] \in Int /\ D[k] \in Nat /\ D[k + 1] \in Nat
    BY <1>2, <1>3, <1>7, <2>1
  <2>3. PICK c \in Cells : c = Path[y][k + 1]
    BY <1>1, <2>1
  <2>4. D[k + 1] = D[k] + Dimming(c) /\ G[k + 1] = G[k] + (Seen(time, c, D[k]) - Seen(time, c, D[k + 1]))
    BY <1>2, <1>3, <2>1, <2>3
  <2>5. CASE c \in SubDomain
    <3>1. Far(y, k + 1) = Far(y, k) + 1 /\ W[Far(y, k + 1)] = CellAt(y, k + 1)
      BY <1>1, <2>1, <2>3, <2>5
    <3>2. Far(y, k) \in 0..Len(W) /\ Far(y, k + 1) \in 1..Len(W) /\ Far(y, k + 1) - 1 = Far(y, k)
      BY <1>1, <2>1, <3>1
    <3>3. T[Far(y, k)] \in Carriers /\ T[Far(y, k + 1)] = Pass(T[Far(y, k)], CellAt(y, k + 1))
      BY <1>4, <3>1, <3>2
    <3>4. CellAt(y, k + 1) \in Segments /\ CellAt(y, k + 1).cell = c /\ ~ CellAt(y, k + 1).wall
      BY <1>1, <2>1, <2>3 DEF CellAt
    <3>5. /\ T[Far(y, k + 1)].Krad = D[k] + Dimming(c)
          /\ T[Far(y, k + 1)].Ij = G[k] + (Seen(time, c, D[k]) - Seen(time, c, D[k] + Dimming(c)))
      BY <2>2, <3>3, <3>4, PassSeen
    <3> QED BY <2>4, <3>5
  <2>6. CASE c \notin SubDomain
    <3>1. Far(y, k + 1) = Far(y, k)
      BY <1>1, <2>1, <2>3, <2>6
    <3>2. Dimming(c) = 0 /\ Seen(time, c, D[k]) = 0 /\ Seen(time, c, D[k + 1]) = 0
      BY <2>6 DEF Dimming, Seen
    <3> QED BY <2>2, <2>4, <3>1, <3>2
  <2> QED BY <2>5, <2>6
<1>8. \A k \in Nat : Good(k)
  <2> HIDE DEF Good
  <2> DEFINE I == {k \in Nat : Good(k)}
  <2>1. I \in SUBSET Nat /\ 0 \in I /\ \A k \in I : k + 1 \in I
    BY <1>6, <1>7
  <2>2. I = Nat
    <3> HIDE DEF I
    <3> QED BY <2>1, Induction
  <2> QED BY <2>2
<1> QED BY <1>1, <1>8 DEF n, D, G

LEMMA WholeGain ==
    ASSUME time \in 0..1, NEW y \in Rays, NEW T, CarriedAlong(WholeTrace(y), T)
    PROVE  /\ T[Len(WholeTrace(y))].Ij = Reference(time, y)
           /\ T[Len(WholeTrace(y))].Krad = Dimmed(y)[Len(Path[y])]
<1> DEFINE n == Len(Path[y])
           W == WholeTrace(y)
           D == Dimmed(y)
           G == Light(time, y)
<1>1. /\ n \in Nat \ {0} /\ W \in Seq(Segments) /\ Len(W) \in Nat /\ Far(y, n) \in 0..Len(W) /\ Path[y][n] \in Cells
      /\ IF ReachesWall(y) THEN Len(W) = Far(y, n) + 1 /\ W[Len(W)] = [cell |-> Path[y][n], wall |-> TRUE]
         ELSE Len(W) = Far(y, n)
  <2>1. W \in Seq(Segments)
    BY WholeTraceCells
  <2>2. n \in Nat \ {0} /\ \A k \in 1..n : Path[y][k] \in Cells
    BY PathType
  <2>3. n \in 1..n /\ n \in 0..n
    BY <2>2
  <2>4. Far(y, n) \in 0..Len(W) /\ Path[y][n] \in Cells
    BY <2>2, <2>3, WholeTraceCells
  <2>5. Len(W) \in Nat
    <3> HIDE DEF W
    <3> QED BY <2>1
  <2>6. IF ReachesWall(y) THEN Len(W) = Far(y, n) + 1 /\ W[Len(W)] = [cell |-> Path[y][n], wall |-> TRUE]
        ELSE Len(W) = Far(y, n)
    BY WholeTraceCells
  <2> QED BY <2>1, <2>2, <2>4, <2>5, <2>6
<1>2. D \in [0..n -> Nat] /\ D[n] = D[n - 1] + Dimming(Path[y][n])
  <2>1. n \in 1..Len(Path[y])
    BY <1>1
  <2> QED BY <2>1, DimmedCells
<1>3. G \in [0..n -> Int] /\ G[n] = G[n - 1] + (Seen(time, Path[y][n], D[n - 1]) - Seen(time, Path[y][n], D[n]))
  <2>1. n \in 1..Len(Path[y])
    BY <1>1
  <2> QED BY <2>1, LightCells
<1>4. T \in [0..Len(W) -> Carriers] /\ \A i \in 1..Len(W) : T[i] = Pass(T[i - 1], W[i])
  BY DEF CarriedAlong
<1>5. T[Far(y, n)].Ij = G[n] /\ T[Far(y, n)].Krad = D[n]
  <2>1. n \in 0..Len(Path[y])
    BY <1>1
  <2> QED BY <2>1, WholeCarrier
<1>6. Reference(time, y) = G[Inside(y)] + (IF ReachesWall(y) THEN Seen(time, Path[y][n], D[Inside(y)]) ELSE 0)
  BY DEF Reference, Last
<1>7. Inside(y) = IF Path[y][n] \in Region THEN n ELSE n - 1
  BY DEF Inside, Last
<1>8. ReachesWall(y) <=> (y \in Flat \/ Path[y][n] \notin Region)
  BY DEF ReachesWall, Last
<1> HIDE DEF n, W, D, G
<1>9. n \in 0..n /\ n - 1 \in 0..n /\ D[n] \in Nat /\ D[n - 1] \in Nat /\ G[n] \in Int /\ G[n - 1] \in Int
  BY <1>1, <1>2, <1>3
<1>10. Seen(time, Path[y][n], D[n - 1]) \in Int /\ Seen(time, Path[y][n], D[n]) \in Int
  BY <1>1, <1>9, SeenType
<1>11. CASE ~ ReachesWall(y)
  <2>1. Len(W) = Far(y, n) /\ Inside(y) = n
    BY <1>1, <1>7, <1>8, <1>11
  <2>2. T[Len(W)].Ij = Reference(time, y) /\ T[Len(W)].Krad = D[n]
    BY <1>5, <1>6, <1>9, <1>11, <2>1
  <2> QED BY <2>2 DEF W, D, n
<1>12. CASE ReachesWall(y)
  <2>1. PICK s : s = [cell |-> Path[y][n], wall |-> TRUE]
    OBVIOUS
  <2>2. s \in Segments /\ s.cell = Path[y][n] /\ s.wall
    BY <1>1, <2>1 DEF Segments
  <2>3. Len(W) \in 1..Len(W) /\ Len(W) - 1 = Far(y, n) /\ W[Len(W)] = s
    BY <1>1, <1>12, <2>1
  <2>4. T[Far(y, n)] \in Carriers /\ T[Len(W)] = Pass(T[Far(y, n)], s)
    BY <1>1, <1>4, <2>3
  <2>5. T[Len(W)].Krad = T[Far(y, n)].Krad + 0 /\ T[Len(W)].Ij = T[Far(y, n)].Ij + (Seen(time, s.cell, T[Far(y, n)].Krad) - 0)
    BY <2>2, <2>4, PassSeen
  <2>6. T[Len(W)].Krad = D[n] /\ T[Len(W)].Ij = G[n] + Seen(time, Path[y][n], D[n])
    BY <1>5, <1>9, <1>10, <2>2, <2>5
  <2>7. CASE Path[y][n] \in Region
    BY <1>6, <1>7, <1>12, <2>6, <2>7 DEF W, D, n
  <2>8. CASE Path[y][n] \notin Region
    <3>1. Reference(time, y) = G[n - 1] + Seen(time, Path[y][n], D[n - 1])
      BY <1>6, <1>7, <1>12, <2>8
    <3>2. G[n] + Seen(time, Path[y][n], D[n]) = G[n - 1] + Seen(time, Path[y][n], D[n - 1])
      BY <1>3, <1>9, <1>10
    <3> QED BY <2>6, <3>1, <3>2 DEF W, D, n
  <2> QED BY <2>7, <2>8
<1> QED BY <1>11, <1>12

(* Halvings only add up.                                                    *)
LEMMA Dims ==
    ASSUME time \in 0..1, NEW ray \in Seq(Segments), NEW T, CarriedAlong(ray, T), NEW b \in 0..Len(ray), NEW a \in 0..b
    PROVE  T[a].Krad \in Nat /\ T[b].Krad \in Nat /\ T[a].Krad <= T[b].Krad
<1> DEFINE Good(j) == a + j <= Len(ray) => T[a].Krad <= T[a + j].Krad
<1>1. /\ Len(ray) \in Nat /\ T \in [0..Len(ray) -> Carriers] /\ \A i \in 1..Len(ray) : T[i] = Pass(T[i - 1], ray[i])
      /\ \A i \in 1..Len(ray) : ray[i] \in Segments
      /\ a \in Nat /\ b \in Nat /\ a <= b /\ b <= Len(ray) /\ a \in 0..Len(ray)
  BY DEF CarriedAlong
<1>2. \A i \in 0..Len(ray) : T[i].Krad \in Nat
  BY <1>1 DEF Carriers
<1>3. Good(0)
  BY <1>1, <1>2
<1>4. ASSUME NEW j \in Nat, Good(j) PROVE Good(j + 1)
  <2> SUFFICES ASSUME a + (j + 1) <= Len(ray) PROVE T[a].Krad <= T[a + (j + 1)].Krad
    OBVIOUS
  <2>1. PICK i \in Nat : i = a + j
    BY <1>1
  <2>2. i + 1 = a + (j + 1) /\ i + 1 \in 1..Len(ray) /\ (i + 1) - 1 = i /\ i \in 0..Len(ray)
    BY <1>1, <2>1
  <2>3. T[i] \in Carriers /\ ray[i + 1] \in Segments /\ T[i + 1] = Pass(T[i], ray[i + 1])
    BY <1>1, <2>2
  <2>4. PICK v \in Carriers, s \in Segments : v = T[i] /\ s = ray[i + 1]
    BY <2>3
  <2>5. Pass(v, s).Krad = v.Krad + (IF s.wall THEN 0 ELSE Dimming(s.cell))
    BY PassSeen
  <2>6. PICK d \in Nat : Pass(v, s).Krad = v.Krad + d
    <3>1. Dimming(s.cell) \in Nat
      BY DimmingType DEF Segments
    <3> QED BY <2>5, <3>1
  <2>7. T[a].Krad <= T[i].Krad /\ T[a].Krad \in Nat /\ T[i].Krad \in Nat
    BY <1>1, <1>2, <1>4, <2>1, <2>2
  <2>8. T[i + 1].Krad = T[i].Krad + d
    BY <2>3, <2>4, <2>6
  <2> QED BY <2>2, <2>7, <2>8
<1>5. \A j \in Nat : Good(j)
  <2> HIDE DEF Good
  <2> DEFINE I == {j \in Nat : Good(j)}
  <2>1. I \in SUBSET Nat /\ 0 \in I /\ \A j \in I : j + 1 \in I
    BY <1>3, <1>4
  <2>2. I = Nat
    <3> HIDE DEF I
    <3> QED BY <2>1, Induction
  <2> QED BY <2>2
<1>6. b - a \in Nat /\ a + (b - a) = b
  BY <1>1
<1>7. T[a].Krad <= T[b].Krad
  BY <1>1, <1>5, <1>6
<1> QED BY <1>1, <1>2, <1>7

(* A segment behind others is passed as it is alone, but for the halvings   *)
(* in front of it.                                                          *)
LEMMA PassFarther ==
    ASSUME time \in 0..1, NEW v \in Carriers, NEW u \in Carriers, NEW w \in Carriers, NEW s \in Segments, NEW z \in Int,
           w.Krad = v.Krad + u.Krad, u.Ij = z * 2^v.Krad, w.Ij = v.Ij + z, Pass(w, s).Krad <= Depth
    PROVE  /\ Pass(w, s).Krad = v.Krad + Pass(u, s).Krad
           /\ \E x \in Int : Pass(u, s).Ij = x * 2^v.Krad /\ Pass(w, s).Ij = v.Ij + x
<1> DEFINE c == s.cell
           d == Dimming(c)
           k == v.Krad
           m == 2^k
           n == u.Krad
<1>1. /\ c \in Cells /\ d \in Nat /\ k \in Nat /\ m \in Int /\ n \in Nat /\ v.Ij \in Int /\ u.Ij \in Int /\ w.Krad \in Nat
      /\ Depth \in Nat
  <2>1. c \in Cells
    BY DEF Segments
  <2>2. d \in Nat
    BY <2>1, DimmingType
  <2>3. k \in Nat /\ n \in Nat /\ v.Ij \in Int /\ u.Ij \in Int /\ w.Krad \in Nat
    BY DEF Carriers
  <2>4. m \in Int
    BY <2>3, PowerPositive
  <2> QED BY <2>1, <2>2, <2>3, <2>4, OpticsAssumption
<1>2. /\ Pass(u, s).Krad = n + (IF s.wall THEN 0 ELSE d)
      /\ Pass(u, s).Ij = u.Ij + (Seen(time, c, n) - (IF s.wall THEN 0 ELSE Seen(time, c, n + d)))
  BY PassSeen
<1>3. /\ Pass(w, s).Krad = w.Krad + (IF s.wall THEN 0 ELSE d)
      /\ Pass(w, s).Ij = w.Ij + (Seen(time, c, w.Krad) - (IF s.wall THEN 0 ELSE Seen(time, c, w.Krad + d)))
  BY PassSeen
<1> HIDE DEF c, d, k, m, n
<1>4. w.Krad = n + k /\ u.Ij = z * m /\ w.Ij = v.Ij + z
  BY <1>1 DEF k, m, n
<1>5. n + k <= Depth /\ (~ s.wall => (n + d) + k <= Depth)
  BY <1>1, <1>3, <1>4
<1>6. Seen(time, c, n) = Seen(time, c, n + k) * m /\ Seen(time, c, n) \in Int /\ Seen(time, c, n + k) \in Int
  BY <1>1, <1>5, SeenFarther DEF m
<1>7. CASE s.wall
  <2>1. PICK a \in Int : a = Seen(time, c, n + k)
    BY <1>6
  <2>2. Pass(u, s).Ij = z * m + a * m /\ Pass(w, s).Ij = v.Ij + z + a
    BY <1>1, <1>2, <1>3, <1>4, <1>6, <1>7, <2>1
  <2>3. z * m + a * m = (z + a) * m /\ z + a \in Int
    BY <1>1
  <2>4. Pass(u, s).Ij = (z + a) * m /\ Pass(w, s).Ij = v.Ij + (z + a)
    BY <1>1, <2>2, <2>3
  <2>5. Pass(w, s).Krad = k + Pass(u, s).Krad
    BY <1>1, <1>2, <1>3, <1>4, <1>7
  <2> QED BY <2>3, <2>4, <2>5 DEF k, m
<1>8. CASE ~ s.wall
  <2>1. n + d \in Nat /\ (n + d) + k <= Depth /\ (n + k) + d = (n + d) + k
    BY <1>1, <1>5, <1>8
  <2>2. /\ Seen(time, c, n + d) = Seen(time, c, (n + d) + k) * m
        /\ Seen(time, c, n + d) \in Int /\ Seen(time, c, (n + d) + k) \in Int
    BY <1>1, <2>1, SeenFarther DEF m
  <2>3. PICK a \in Int, b \in Int : a = Seen(time, c, n + k) /\ b = Seen(time, c, (n + d) + k)
    BY <1>6, <2>2
  <2>4. Pass(u, s).Ij = z * m + (a * m - b * m) /\ Pass(w, s).Ij = v.Ij + z + (a - b)
    <3>1. Pass(u, s).Ij = u.Ij + (Seen(time, c, n) - Seen(time, c, n + d))
      BY <1>2, <1>8
    <3>2. Pass(w, s).Ij = w.Ij + (Seen(time, c, w.Krad) - Seen(time, c, w.Krad + d))
      BY <1>3, <1>8
    <3>3. Seen(time, c, w.Krad) = a /\ Seen(time, c, w.Krad + d) = b
      BY <1>4, <2>1, <2>3
    <3> QED BY <1>1, <1>4, <1>6, <2>2, <2>3, <3>1, <3>2, <3>3
  <2>5. z * m + (a * m - b * m) = (z + (a - b)) * m /\ z + (a - b) \in Int
    BY <1>1
  <2>6. Pass(u, s).Ij = (z + (a - b)) * m /\ Pass(w, s).Ij = v.Ij + (z + (a - b))
    BY <1>1, <2>4, <2>5
  <2>7. Pass(w, s).Krad = k + Pass(u, s).Krad
    BY <1>1, <1>2, <1>3, <1>4, <1>8
  <2> QED BY <2>5, <2>6, <2>7 DEF k, m
<1> QED BY <1>7, <1>8

LEMMA PieceCells ==
    ASSUME NEW W \in Seq(Segments), NEW b \in 0..Len(W), NEW a \in 0..b
    PROVE  /\ SubSeq(W, a + 1, b) \in Seq(Segments) /\ Len(SubSeq(W, a + 1, b)) = b - a
           /\ \A j \in 1..b - a : SubSeq(W, a + 1, b)[j] = W[a + j] /\ a + j \in 1..Len(W)
<1>1. a \in Nat /\ b \in Nat /\ a <= b /\ b <= Len(W) /\ Len(W) \in Nat
  OBVIOUS
<1>2. \A j \in 1..b - a : a + j \in 1..Len(W) /\ (a + 1) + j - 1 = a + j
  BY <1>1
<1>3. Len(SubSeq(W, a + 1, b)) = b - a
  BY <1>1
<1>4. \A j \in 1..b - a : SubSeq(W, a + 1, b)[j] = W[a + j]
  BY <1>1, <1>2
<1>5. SubSeq(W, a + 1, b) \in Seq(Segments)
  BY <1>1
<1> QED BY <1>2, <1>3, <1>4, <1>5

(* So any piece of a trace, passed alone and seen behind what is in front   *)
(* of it, is as bright as when the light is carried through.                *)
LEMMA Split ==
    ASSUME time \in 0..1, NEW W \in Seq(Segments), NEW T, CarriedAlong(W, T), T[Len(W)].Krad <= Depth,
           NEW b \in 0..Len(W), NEW a \in 0..b
    PROVE  /\ FoldLeft(Pass, Zero, SubSeq(W, a + 1, b)) \in Carriers
           /\ Behind(T[a], FoldLeft(Pass, Zero, SubSeq(W, a + 1, b))) = T[b]
<1> DEFINE ray == SubSeq(W, a + 1, b)
           n   == b - a
<1>1. /\ Len(W) \in Nat /\ T \in [0..Len(W) -> Carriers] /\ \A i \in 1..Len(W) : T[i] = Pass(T[i - 1], W[i])
      /\ \A i \in 1..Len(W) : W[i] \in Segments
      /\ a \in Nat /\ b \in Nat /\ a <= b /\ b <= Len(W) /\ a \in 0..Len(W) /\ n \in Nat /\ a + n = b
  BY DEF CarriedAlong
<1>2. /\ ray \in Seq(Segments) /\ Len(ray) = n /\ \A j \in 1..n : ray[j] = W[a + j] /\ a + j \in 1..Len(W)
  BY PieceCells
<1> HIDE DEF ray, n
<1>3. PICK p : CarriedAlong(ray, p) /\ p[Len(ray)] = FoldLeft(Pass, Zero, ray)
  BY <1>2, CarrierExists
<1>4. p \in [0..n -> Carriers] /\ p[0] = Zero /\ \A j \in 1..n : p[j] = Pass(p[j - 1], ray[j])
  BY <1>2, <1>3 DEF CarriedAlong
<1>5. PICK v \in Carriers : v = T[a]
  BY <1>1
<1>6. v.Ij \in Int /\ v.Krad \in Nat
  BY DEF Carriers
<1> DEFINE Good(j) == j <= n => /\ T[a + j].Krad = v.Krad + p[j].Krad
                                /\ \E z \in Int : p[j].Ij = z * 2^v.Krad /\ T[a + j].Ij = v.Ij + z
<1>7. Good(0)
  <2>1. p[0].Ij = 0 /\ p[0].Krad = 0
    BY <1>4 DEF Zero
  <2>2. a + 0 = a
    BY <1>1
  <2>3. 2^v.Krad \in Int
    BY <1>6, PowerPositive
  <2>4. 0 * 2^v.Krad = 0 /\ v.Ij + 0 = v.Ij /\ v.Krad + 0 = v.Krad /\ 0 \in Int
    BY <1>6, <2>3
  <2>5. \E z \in Int : p[0].Ij = z * 2^v.Krad /\ T[a + 0].Ij = v.Ij + z
    BY <1>5, <2>1, <2>2, <2>4
  <2>6. T[a + 0].Krad = v.Krad + p[0].Krad
    BY <1>5, <2>1, <2>2, <2>4
  <2> QED BY <2>5, <2>6
<1>8. ASSUME NEW j \in Nat, Good(j) PROVE Good(j + 1)
  <2> SUFFICES ASSUME j + 1 <= n
               PROVE  /\ T[a + (j + 1)].Krad = v.Krad + p[j + 1].Krad
                      /\ \E z \in Int : p[j + 1].Ij = z * 2^v.Krad /\ T[a + (j + 1)].Ij = v.Ij + z
    OBVIOUS
  <2>1. j + 1 \in 1..n /\ (j + 1) - 1 = j /\ j \in 0..n /\ j <= n
    BY <1>1
  <2>2. PICK z \in Int : p[j].Ij = z * 2^v.Krad /\ T[a + j].Ij = v.Ij + z
    BY <1>8, <2>1
  <2>3. T[a + j].Krad = v.Krad + p[j].Krad
    BY <1>8, <2>1
  <2>4. PICK s \in Segments : s = ray[j + 1] /\ s = W[a + (j + 1)]
    BY <1>1, <1>2, <2>1
  <2>5. a + (j + 1) \in 1..Len(W) /\ (a + (j + 1)) - 1 = a + j /\ a + j \in 0..Len(W)
    BY <1>1, <1>2, <2>1
  <2>6. PICK u \in Carriers, w \in Carriers : u = p[j] /\ w = T[a + j]
    BY <1>1, <1>4, <2>1, <2>5
  <2>7. p[j + 1] = Pass(u, s) /\ T[a + (j + 1)] = Pass(w, s)
    BY <1>1, <1>4, <2>1, <2>4, <2>5, <2>6
  <2>8. Pass(w, s).Krad <= Depth
    <3>1. Len(W) \in 0..Len(W) /\ a + (j + 1) \in 0..Len(W)
      BY <1>1, <2>5
    <3>2. /\ T[a + (j + 1)].Krad \in Nat /\ T[Len(W)].Krad \in Nat /\ T[a + (j + 1)].Krad <= T[Len(W)].Krad
      BY <3>1, Dims
    <3> QED BY <2>7, <3>2, OpticsAssumption
  <2>9. w.Krad = v.Krad + u.Krad /\ u.Ij = z * 2^v.Krad /\ w.Ij = v.Ij + z
    BY <2>2, <2>3, <2>6
  <2>10. /\ Pass(w, s).Krad = v.Krad + Pass(u, s).Krad
         /\ \E x \in Int : Pass(u, s).Ij = x * 2^v.Krad /\ Pass(w, s).Ij = v.Ij + x
    BY <2>8, <2>9, PassFarther
  <2> QED BY <2>7, <2>10
<1>9. \A j \in Nat : Good(j)
  <2> HIDE DEF Good
  <2> DEFINE I == {j \in Nat : Good(j)}
  <2>1. I \in SUBSET Nat /\ 0 \in I /\ \A j \in I : j + 1 \in I
    BY <1>7, <1>8
  <2>2. I = Nat
    <3> HIDE DEF I
    <3> QED BY <2>1, Induction
  <2> QED BY <2>2
<1>10. PICK far \in Carriers : far = FoldLeft(Pass, Zero, ray) /\ far = p[n]
  <2>1. p[n] \in Carriers
    BY <1>1, <1>4
  <2> QED BY <1>2, <1>3, <2>1
<1>11. /\ T[a + n].Krad = v.Krad + p[n].Krad
       /\ \E z \in Int : p[n].Ij = z * 2^v.Krad /\ T[a + n].Ij = v.Ij + z
  <2>1. Good(n)
    <3> HIDE DEF Good
    <3> QED BY <1>1, <1>9
  <2>2. n <= n
    BY <1>1
  <2> QED BY <2>1, <2>2
<1>12. PICK z \in Int : far.Ij = z * 2^v.Krad /\ T[b].Ij = v.Ij + z
  BY <1>1, <1>10, <1>11
<1>13. Through(far.Ij, v.Krad) = z
  BY <1>6, <1>12, ThroughExact
<1>14. Behind(v, far).Ij = T[b].Ij /\ Behind(v, far).Krad = T[b].Krad
  BY <1>1, <1>10, <1>11, <1>12, <1>13 DEF Behind
<1>15. Behind(v, far) \in Carriers /\ T[b] \in Carriers
  BY <1>1, BehindType
<1>16. Behind(v, far) = T[b]
  BY <1>14, <1>15, CarrierIs
<1> QED BY <1>5, <1>10, <1>16 DEF ray

(* The pieces of a trace, each passed alone and combined one behind the     *)
(* other, are as bright as the whole.                                       *)
LEMMA Combined ==
    ASSUME time \in 0..1, NEW W \in Seq(Segments), NEW T, CarriedAlong(W, T), T[Len(W)].Krad <= Depth,
           NEW n \in Nat, NEW cuts \in [0..n -> 0..Len(W)], cuts[0] = 0, cuts[n] = Len(W),
           \A s \in 1..n : cuts[s - 1] <= cuts[s],
           NEW near, near = [s \in 1..n |-> FoldLeft(Pass, Zero, SubSeq(W, cuts[s - 1] + 1, cuts[s]))]
    PROVE  FoldLeft(Behind, Zero, near) = T[Len(W)]
<1>1. ASSUME NEW s \in 1..n
      PROVE  /\ cuts[s] \in 0..Len(W) /\ cuts[s - 1] \in 0..cuts[s]
             /\ near[s] \in Carriers /\ Behind(T[cuts[s - 1]], near[s]) = T[cuts[s]]
  <2>1. s \in 0..n /\ s - 1 \in 0..n
    OBVIOUS
  <2>2. cuts[s] \in 0..Len(W) /\ cuts[s - 1] \in 0..Len(W) /\ cuts[s - 1] <= cuts[s]
    BY <2>1
  <2>3. Len(W) \in Nat
    OBVIOUS
  <2>4. PICK a, b : a = cuts[s - 1] /\ b = cuts[s]
    OBVIOUS
  <2>5. b \in 0..Len(W) /\ a \in 0..b
    BY <2>2, <2>3, <2>4
  <2>6. near[s] = FoldLeft(Pass, Zero, SubSeq(W, a + 1, b))
    BY <2>4
  <2>7. near[s] \in Carriers /\ Behind(T[a], near[s]) = T[b]
    BY <2>5, <2>6, Split
  <2> QED BY <2>4, <2>5, <2>7
<1>2. near \in Seq(Carriers) /\ Len(near) = n
  <2>1. near \in [1..n -> Carriers]
    BY <1>1
  <2> QED BY <2>1
<1>3. Zero \in Carriers
  BY DEF Zero, Carriers
<1>4. PICK t \in [0..Len(near) -> Carriers] :
              /\ t[0] = Zero /\ t[Len(near)] = FoldLeft(Behind, Zero, near)
              /\ \A i \in 1..Len(near) : t[i] = Behind(t[i - 1], near[i])
  BY <1>2, <1>3, BehindSeries
<1> DEFINE Good(s) == s <= n => t[s] = T[cuts[s]]
<1>5. Good(0)
  BY <1>4 DEF CarriedAlong
<1>6. ASSUME NEW s \in Nat, Good(s) PROVE Good(s + 1)
  <2> SUFFICES ASSUME s + 1 <= n PROVE t[s + 1] = T[cuts[s + 1]]
    OBVIOUS
  <2>1. s + 1 \in 1..n /\ (s + 1) - 1 = s /\ t[s] = T[cuts[s]]
    BY <1>6
  <2>2. t[s + 1] = Behind(t[s], near[s + 1])
    BY <1>2, <1>4, <2>1
  <2>3. Behind(T[cuts[s]], near[s + 1]) = T[cuts[s + 1]]
    BY <1>1, <2>1
  <2> QED BY <2>1, <2>2, <2>3
<1>7. \A s \in Nat : Good(s)
  <2> HIDE DEF Good
  <2> DEFINE I == {s \in Nat : Good(s)}
  <2>1. I \in SUBSET Nat /\ 0 \in I /\ \A s \in I : s + 1 \in I
    BY <1>5, <1>6
  <2>2. I = Nat
    <3> HIDE DEF I
    <3> QED BY <2>1, Induction
  <2> QED BY <2>2
<1> QED BY <1>2, <1>4, <1>7

-----------------------------------------------------------------------------
(* The end of the search: a ray that begins in the region is followed until *)
(* its trace is whole, the others never leave a segment, and the origins    *)
(* have the entries in their order.                                         *)
Begins(y) == Path[y][1] \in Region

Searching(y) == \E r \in Ranks : \E p \in swarm[r] : p.id.ray = y

Whole(y) == \E n \in Nat : Trail(y, n, Len(WholeTrace(y))) /\ (n # 0 => Has(y, n - 1))

Arrived == \A y \in Rays : Begins(y) => Searching(y) \/ Whole(y)

Starting ==
    \A r \in Ranks : \A p \in swarm[r] :
        /\ pc[r] \in {"setup", "bounds"} => p.at = 1
        /\ ~ Begins(p.id.ray) => surface /\ (pc[r] = "setup" \/ (pc[r] = "bounds" /\ p \in todo[r]))
        /\ p.at = Len(Path[p.id.ray]) + 1 => ~ ReachesWall(p.id.ray)

Untouched == \A r \in Ranks : \A i \in DOMAIN radReturn[r] : Begins(radReturn[r][i].ray)

Over == (\E r \in Ranks : pc[r] \in {"return", "ready"}) => \A q \in Ranks : swarm[q] = {}

Gathered ==
    \A y \in Rays : remoteRayInformation[y] # Pending =>
        /\ remoteRayInformation[y] \in [1..SegmentsOf(y) -> Returned(y)]
        /\ \A s \in 1..SegmentsOf(y) : remoteRayInformation[y][s].nSegment + 1 = s

EndInv == Arrived /\ Starting /\ Untouched /\ Over /\ Gathered

LEMMA EndInit == Init => EndInv
<1> SUFFICES ASSUME Init PROVE EndInv
  OBVIOUS
<1>1. \A r \in Ranks : \A p \in swarm[r] : p.at = 1 /\ p.id.ray \in Rays /\ (surface \/ Begins(p.id.ray))
  BY DEF Init, Launched, Identifier, Begins
<1>2. Arrived
  <2> SUFFICES ASSUME NEW y \in Rays, Begins(y) PROVE Searching(y)
    BY DEF Arrived
  <2>1. y \in Launched /\ origin[y] \in Ranks
    BY DEF Launched, Begins, Init
  <2>2. [at |-> 1, id |-> Identifier(y)] \in swarm[origin[y]]
    BY <2>1 DEF Init
  <2> QED BY <2>1, <2>2 DEF Searching, Identifier
<1>3. Starting
  <2> SUFFICES ASSUME NEW r \in Ranks, NEW p \in swarm[r]
               PROVE  p.at = 1 /\ pc[r] = "setup" /\ (surface \/ Begins(p.id.ray)) /\ p.at # Len(Path[p.id.ray]) + 1
    BY DEF Starting
  <2>1. Len(Path[p.id.ray]) \in Nat \ {0}
    BY <1>1, PathType
  <2> QED BY <1>1, <2>1 DEF Init
<1>4. Untouched /\ Over /\ Gathered
  BY DEF Init, Untouched, Over, Gathered
<1> QED BY <1>2, <1>3, <1>4 DEF EndInv

(* What a step keeps that leaves the segments and their entries alone.      *)
LEMMA WholeStays ==
    ASSUME radReturn' = radReturn, raySegments' = raySegments, NEW y, Whole(y) PROVE Whole(y)'
<1>1. PICK n \in Nat : Trail(y, n, Len(WholeTrace(y))) /\ (n # 0 => Has(y, n - 1))
  BY DEF Whole
<1>2. Trail(y, n, Len(WholeTrace(y)))'
  BY <1>1, TrailStays
<1>3. n # 0 => Has(y, n - 1)'
  BY <1>1 DEF Has
<1> QED BY <1>2, <1>3 DEF Whole

LEMMA GatheredStays ==
    ASSUME Gathered, radReturn' = radReturn, remoteRayInformation' = remoteRayInformation PROVE Gathered'
<1>1. \A y : Returned(y)' = Returned(y) /\ SegmentsOf(y)' = SegmentsOf(y)
  BY DEF Returned, Entries, SegmentsOf
<1> QED BY <1>1 DEF Gathered

LEMMA NothingGathered ==
    ASSUME IInv, NEW r \in Ranks, pc[r] \notin {"return", "ready"}, remoteRayInformation' = remoteRayInformation
    PROVE  Gathered'
BY DEF IInv, Kept, Gathered

(* Nobody is past the search while a rank has a particle.                   *)
LEMMA OverStays ==
    ASSUME Over, NEW r \in Ranks, NEW p \in swarm[r], pc' = pc PROVE Over'
BY DEF Over

LEMMA Marked ==
    ASSUME IInv, NEW r \in Ranks, NEW p \in swarm[r]
    PROVE  p.id.nSegment + 1 \in Nat /\ (p.id.nSegment + 1 # 0 => Has(p.id.ray, p.id.nSegment))
<1>1. Carries(p) /\ HasUpTo(p.id)
  BY DEF IInv, Carried, Complete
<1>2. CASE p.id.nSegment = -1
  BY <1>2
<1>3. CASE p.id.nSegment \in Nat
  <2>1. p.id.nSegment \in 0..p.id.nSegment
    BY <1>3
  <2> QED BY <1>1, <1>3, <2>1 DEF HasUpTo
<1> QED BY <1>1, <1>2, <1>3 DEF Carries

LEMMA SetupMigrateEnd == ASSUME IInv, SolveInv, EndInv, SetupMigrate PROVE EndInv'
<1>1. /\ \A r \in Ranks : /\ pc[r] = "setup" /\ pc'[r] = IF surface THEN "bounds" ELSE "size"
                          /\ swarm'[r] = Migrated(r) /\ todo'[r] = Migrated(r)
      /\ UNCHANGED <<found, surface, raySegments, radReturn, remoteRayInformation>>
  BY DEF SetupMigrate, Migrate, mesh
<1>2. \A r \in Ranks : \A p \in swarm'[r] : p \in todo'[r] /\ \E q \in Ranks : p \in swarm[q]
  BY <1>1 DEF Migrated
<1>3. \A q \in Ranks : \A p \in swarm[q] : p.at = 1 /\ p \in Particles /\ (Begins(p.id.ray) \/ surface)
  BY <1>1 DEF EndInv, Starting, IInv, Types
<1>4. \A q \in Ranks : \A p \in swarm[q] : p.at # Len(Path[p.id.ray]) + 1 /\ Place(p) \in Cells
  <2> SUFFICES ASSUME NEW q \in Ranks, NEW p \in swarm[q] PROVE p.at # Len(Path[p.id.ray]) + 1 /\ Place(p) \in Cells
    OBVIOUS
  <2>1. p.at = 1 /\ p.id.ray \in Rays
    BY <1>3 DEF Particles, Identifiers
  <2>2. Len(Path[p.id.ray]) \in Nat \ {0} /\ \A k \in 1..Len(Path[p.id.ray]) : Path[p.id.ray][k] \in Cells
    BY <2>1, PathType
  <2> QED BY <2>1, <2>2 DEF Place
<1>5. Starting'
  <2> SUFFICES ASSUME NEW r \in Ranks, NEW p \in swarm'[r]
               PROVE  /\ p.at = 1
                      /\ ~ Begins(p.id.ray) => surface /\ pc'[r] = "bounds" /\ p \in todo'[r]
                      /\ p.at # Len(Path[p.id.ray]) + 1
    BY <1>1 DEF Starting, Begins
  <2>1. PICK q \in Ranks : p \in swarm[q]
    BY <1>2
  <2> QED BY <1>1, <1>2, <1>3, <1>4, <2>1
<1>6. Arrived'
  <2> SUFFICES ASSUME NEW y \in Rays, Begins(y) PROVE Searching(y)' \/ Whole(y)'
    BY DEF Arrived, Begins
  <2>1. CASE Searching(y)
    <3>1. PICK q \in Ranks : \E p \in swarm[q] : p.id.ray = y
      BY <2>1 DEF Searching
    <3>2. PICK p \in swarm[q] : p.id.ray = y
      BY <3>1
    <3>3. Place(p) \in Cells /\ Place(p) # Outside
      BY <1>4, NamesAssumption
    <3>4. FoundOn(p) \subseteq Ranks /\ FoundOn(p) # {}
      BY <3>3, MeshAssumption DEF FoundOn, SolveInv, Settings
    <3>5. \E r \in Ranks : p \in Migrated(r)
      BY <3>4 DEF Migrated
    <3> QED BY <1>1, <3>2, <3>5 DEF Searching
  <2>2. CASE Whole(y)
    BY <1>1, <2>2, WholeStays
  <2> QED BY <2>1, <2>2 DEF EndInv, Arrived
<1>7. Untouched' /\ Over'
  BY <1>1 DEF EndInv, Untouched, Over, Begins
<1>8. Gathered'
  BY <1>1, GatheredStays DEF EndInv
<1> QED BY <1>5, <1>6, <1>7, <1>8 DEF EndInv

LEMMA RoundMigrateEnd == ASSUME IInv, SolveInv, PathInv, EndInv, RoundMigrate PROVE EndInv'
<1>1. /\ \A r \in Ranks : pc[r] = "migrate" /\ pc'[r] = "size" /\ swarm'[r] = Migrated(r)
      /\ UNCHANGED <<found, surface, raySegments, radReturn, remoteRayInformation>>
  BY DEF RoundMigrate, Migrate, mesh
<1>2. \A r \in Ranks : \A p \in swarm'[r] : \E q \in Ranks : p \in swarm[q]
  BY <1>1 DEF Migrated
<1>3. Starting'
  <2> SUFFICES ASSUME NEW r \in Ranks, NEW p \in swarm'[r]
               PROVE  Begins(p.id.ray) /\ (p.at = Len(Path[p.id.ray]) + 1 => ~ ReachesWall(p.id.ray))
    BY <1>1 DEF Starting, Begins
  <2>1. PICK q \in Ranks : p \in swarm[q]
    BY <1>2
  <2> QED BY <1>1, <2>1 DEF EndInv, Starting
<1>4. Arrived'
  <2> SUFFICES ASSUME NEW y \in Rays, Begins(y) PROVE Searching(y)' \/ Whole(y)'
    BY DEF Arrived, Begins
  <2>1. CASE Searching(y)
    <3>1. PICK q \in Ranks : \E p \in swarm[q] : p.id.ray = y
      BY <2>1 DEF Searching
    <3>2. PICK p \in swarm[q] : p.id.ray = y
      BY <3>1
    <3>3. p \in Particles /\ p.at \in Nat \ {0} /\ p.at <= Len(Path[y]) + 1 /\ Len(Path[y]) \in Nat
      BY <3>2, PathType DEF IInv, Types, PathInv, Owned, Particles
    <3>4. CASE Place(p) \in Cells
      <4>1. Place(p) # Outside
        BY <3>4, NamesAssumption
      <4>2. FoundOn(p) \subseteq Ranks /\ FoundOn(p) # {}
        BY <3>4, <4>1, MeshAssumption DEF FoundOn, SolveInv, Settings
      <4>3. \E r \in Ranks : p \in Migrated(r)
        BY <4>2 DEF Migrated
      <4> QED BY <1>1, <3>2, <4>3 DEF Searching
    <3>5. CASE Place(p) \notin Cells
      <4>1. p.at = Len(Path[y]) + 1
        <5>1. ASSUME p.at <= Len(Path[y]) PROVE FALSE
          <6>1. p.at \in 1..Len(Path[y]) /\ Place(p) = Path[y][p.at]
            BY <3>2, <3>3, <5>1 DEF Place
          <6> QED BY <3>5, <6>1, PathType
        <5> QED BY <3>3, <5>1
      <4>2. ~ ReachesWall(y)
        BY <3>2, <4>1 DEF EndInv, Starting
      <4>3. Len(WholeTrace(y)) = Far(y, Len(Path[y]))
        BY <4>2, WholeTraceCells
      <4>4. Reached(q, p) = Len(WholeTrace(y))
        <5>1. ~ Stepped(q, p)
          BY <1>1 DEF Stepped
        <5>2. p.at - 1 = Len(Path[y])
          BY <3>3, <4>1
        <5> QED BY <3>2, <4>3, <5>1, <5>2 DEF Reached
      <4>5. PICK n : n = p.id.nSegment + 1
        OBVIOUS
      <4>6. n \in Nat /\ (n # 0 => Has(y, n - 1))
        <5>1. p.id.nSegment + 1 \in Nat /\ (p.id.nSegment + 1 # 0 => Has(y, p.id.nSegment))
          BY <3>2, Marked
        <5>2. p.id.nSegment \in Int
          BY <3>3 DEF Particles, Identifiers
        <5>3. n - 1 = p.id.nSegment
          BY <4>5, <5>2
        <5> QED BY <4>5, <5>1, <5>3
      <4>7. Trail(y, n, Len(WholeTrace(y)))
        BY <3>2, <4>4, <4>5 DEF PathInv, Trails
      <4>8. Whole(y)
        BY <4>6, <4>7 DEF Whole
      <4> QED BY <1>1, <4>8, WholeStays
    <3> QED BY <3>4, <3>5
  <2>2. CASE Whole(y)
    BY <1>1, <2>2, WholeStays
  <2> QED BY <2>1, <2>2 DEF EndInv, Arrived
<1>5. Untouched' /\ Over'
  BY <1>1 DEF EndInv, Untouched, Over, Begins
<1>6. Gathered'
  BY <1>1, GatheredStays DEF EndInv
<1> QED BY <1>3, <1>4, <1>5, <1>6 DEF EndInv

LEMMA GetSizeEnd == ASSUME IInv, EndInv, GetSize PROVE EndInv'
<1>1. /\ \A r \in Ranks : pc[r] = "size"
      /\ \A r \in Ranks : pc'[r] = IF \E q \in Ranks : swarm[q] # {} THEN "identify" ELSE "return"
      /\ UNCHANGED <<surface, swarm, raySegments, radReturn, remoteRayInformation>>
  BY DEF GetSize, mesh
<1>2. Starting'
  <2> SUFFICES ASSUME NEW r \in Ranks, NEW p \in swarm[r]
               PROVE  Begins(p.id.ray) /\ (p.at = Len(Path[p.id.ray]) + 1 => ~ ReachesWall(p.id.ray))
    BY <1>1 DEF Starting, Begins
  <2> QED BY <1>1 DEF EndInv, Starting
<1>3. Arrived'
  <2> SUFFICES ASSUME NEW y \in Rays, Begins(y) PROVE Searching(y)' \/ Whole(y)'
    BY DEF Arrived, Begins
  <2>1. Searching(y) \/ Whole(y)
    BY DEF EndInv, Arrived
  <2> QED BY <1>1, <2>1, WholeStays DEF Searching
<1>4. Untouched' /\ Over'
  BY <1>1 DEF EndInv, Untouched, Over, Begins
<1>5. Gathered'
  BY <1>1, GatheredStays DEF EndInv
<1> QED BY <1>2, <1>3, <1>4, <1>5 DEF EndInv

LEMMA EndLoopEnd == ASSUME IInv, EndInv, NEW r \in Ranks, EndLoop(r) PROVE EndInv'
<1>1. /\ pc[r] \in Loops /\ todo[r] = {} /\ pc' = [pc EXCEPT ![r] = After[pc[r]]]
      /\ todo' = [todo EXCEPT ![r] = swarm[r]]
      /\ UNCHANGED <<surface, swarm, raySegments, radReturn, remoteRayInformation>>
  BY DEF EndLoop, After, Loops, mesh
<1>2. /\ pc'[r] \in {"size", "step", "advance", "migrate"}
      /\ \A q \in Ranks \ {r} : pc'[q] = pc[q] /\ todo'[q] = todo[q]
  <2>1. After[pc[r]] \in {"size", "step", "advance", "migrate"}
    BY <1>1 DEF After, Loops
  <2> QED BY <1>1, <2>1 DEF IInv, Types
<1>3. Starting'
  <2> SUFFICES ASSUME NEW q \in Ranks, NEW p \in swarm[q]
               PROVE  /\ pc'[q] \in {"setup", "bounds"} => p.at = 1
                      /\ ~ Begins(p.id.ray) => surface /\ (pc'[q] = "setup" \/ (pc'[q] = "bounds" /\ p \in todo'[q]))
                      /\ p.at = Len(Path[p.id.ray]) + 1 => ~ ReachesWall(p.id.ray)
    BY <1>1 DEF Starting, Begins
  <2>1. /\ pc[q] \in {"setup", "bounds"} => p.at = 1
        /\ ~ Begins(p.id.ray) => surface /\ (pc[q] = "setup" \/ (pc[q] = "bounds" /\ p \in todo[q]))
        /\ p.at = Len(Path[p.id.ray]) + 1 => ~ ReachesWall(p.id.ray)
    BY DEF EndInv, Starting
  <2>2. CASE q = r
    BY <1>1, <1>2, <2>1, <2>2 DEF Loops
  <2>3. CASE q # r
    BY <1>2, <2>1, <2>3
  <2> QED BY <2>2, <2>3
<1>4. Arrived'
  <2> SUFFICES ASSUME NEW y \in Rays, Begins(y) PROVE Searching(y)' \/ Whole(y)'
    BY DEF Arrived, Begins
  <2>1. Searching(y) \/ Whole(y)
    BY DEF EndInv, Arrived
  <2> QED BY <1>1, <2>1, WholeStays DEF Searching
<1>5. Untouched' /\ Over'
  BY <1>1, <1>2 DEF EndInv, Untouched, Over, Begins
<1>6. Gathered'
  BY <1>1, GatheredStays DEF EndInv
<1> QED BY <1>3, <1>4, <1>5, <1>6 DEF EndInv

LEMMA DeleteOutOfBoundsEnd ==
    ASSUME IInv, EndInv, NEW r \in Ranks, NEW p \in todo[r], DeleteOutOfBounds(r, p) PROVE EndInv'
<1>1. /\ pc[r] = "bounds" /\ todo' = [todo EXCEPT ![r] = @ \ {p}] /\ pc' = pc
      /\ UNCHANGED <<surface, raySegments, radReturn, remoteRayInformation>>
      /\ IF Place(p) \notin Region THEN swarm' = [swarm EXCEPT ![r] = @ \ {p}] ELSE swarm' = swarm
  BY DEF DeleteOutOfBounds, At, RemovePoint, mesh
<1>2. p \in swarm[r] /\ p \in Particles /\ p.at = 1 /\ Place(p) \in Cells
  BY <1>1 DEF IInv, Here, InMesh, Types, Loops, EndInv, Starting
<1>3. Place(p) \in Region <=> Begins(p.id.ray)
  BY <1>2, Within DEF Begins
<1>4. \A q \in Ranks : \A o \in swarm[q] : o \in swarm'[q] \/ (q = r /\ o = p /\ ~ Begins(p.id.ray))
  BY <1>1, <1>3 DEF IInv, Types
<1>5. \A q \in Ranks : \A o \in swarm'[q] : o \in swarm[q] /\ (q = r /\ o = p => Begins(p.id.ray))
  BY <1>1, <1>3 DEF IInv, Types
<1>6. \A q \in Ranks : \A o \in todo[q] : o \in todo'[q] \/ (q = r /\ o = p)
  BY <1>1 DEF IInv, Types
<1>7. Starting'
  <2> SUFFICES ASSUME NEW q \in Ranks, NEW o \in swarm'[q]
               PROVE  /\ pc[q] \in {"setup", "bounds"} => o.at = 1
                      /\ ~ Begins(o.id.ray) => surface /\ (pc[q] = "setup" \/ (pc[q] = "bounds" /\ o \in todo'[q]))
                      /\ o.at = Len(Path[o.id.ray]) + 1 => ~ ReachesWall(o.id.ray)
    BY <1>1 DEF Starting, Begins
  <2>1. o \in swarm[q] /\ (q = r /\ o = p => Begins(p.id.ray))
    BY <1>5
  <2> QED BY <1>6, <2>1 DEF EndInv, Starting
<1>8. Arrived'
  <2> SUFFICES ASSUME NEW y \in Rays, Begins(y) PROVE Searching(y)' \/ Whole(y)'
    BY DEF Arrived, Begins
  <2>1. Searching(y) \/ Whole(y)
    BY DEF EndInv, Arrived
  <2>2. CASE Searching(y)
    BY <1>4, <2>2 DEF Searching
  <2>3. CASE Whole(y)
    BY <1>1, <2>3, WholeStays
  <2> QED BY <2>1, <2>2, <2>3
<1>9. Untouched' /\ Over'
  <2>1. Untouched'
    BY <1>1 DEF EndInv, Untouched, Begins
  <2> QED BY <1>1, <1>2, <2>1, OverStays DEF EndInv
<1>10. Gathered'
  BY <1>1, GatheredStays DEF EndInv
<1> QED BY <1>7, <1>8, <1>9, <1>10 DEF EndInv

LEMMA IdentifyNewRayEnd ==
    ASSUME IInv, PathInv, EndInv, NEW r \in Ranks, NEW p \in todo[r], IdentifyNewRay(r, p) PROVE EndInv'
<1>1. /\ pc[r] = "identify" /\ todo' = [todo EXCEPT ![r] = @ \ {p}] /\ pc' = pc
      /\ UNCHANGED <<surface, remoteRayInformation>>
  BY DEF IdentifyNewRay, At, mesh
<1>2. p \in swarm[r] /\ p \in Particles /\ Begins(p.id.ray) /\ (p.at = Len(Path[p.id.ray]) + 1 => ~ ReachesWall(p.id.ray))
  BY <1>1 DEF IInv, Here, Types, Loops, EndInv, Starting
<1>3. Over'
  BY <1>1, <1>2, OverStays DEF EndInv
<1>4. Gathered'
  BY <1>1, NothingGathered
<1>5. \A q \in Ranks : q # r => todo'[q] = todo[q]
  BY <1>1 DEF IInv, Types
<1>6. CASE ~ New(r, p)
  <2>1. swarm' = swarm /\ raySegments' = raySegments /\ radReturn' = radReturn
    BY <1>6 DEF IdentifyNewRay
  <2>2. Starting'
    BY <1>1, <1>5, <2>1 DEF EndInv, Starting, Begins, ReachesWall
  <2>3. Arrived'
    <3> SUFFICES ASSUME NEW y \in Rays, Begins(y) PROVE Searching(y)' \/ Whole(y)'
      BY DEF Arrived, Begins
    <3>1. Searching(y) \/ Whole(y)
      BY DEF EndInv, Arrived
    <3> QED BY <2>1, <3>1, WholeStays DEF Searching
  <2>4. Untouched'
    BY <2>1 DEF EndInv, Untouched, Begins
  <2> QED BY <1>3, <1>4, <2>2, <2>3, <2>4 DEF EndInv
<1>7. CASE New(r, p)
  <2>1. OpenSegment(r, p)
    BY <1>7 DEF IdentifyNewRay
  <2>2. PICK id \in Entry, q \in Particles :
           /\ id.ray = p.id.ray /\ id.remoteRank = r /\ id.remoteRayId = Len(raySegments[r]) + 1
           /\ id.nSegment = p.id.nSegment + 1 /\ q.id = id /\ q.at = p.at
           /\ swarm' = [swarm EXCEPT ![r] = (@ \ {p}) \cup {q}]
           /\ raySegments' = [raySegments EXCEPT ![r] = Append(@, <<>>)]
           /\ radReturn' = [radReturn EXCEPT ![r] = Append(@, id)]
    BY <1>1, <2>1, OpenSegmentDoes
  <2>3. \A o \in Ranks : swarm'[o] = IF o = r THEN (swarm[r] \ {p}) \cup {q} ELSE swarm[o]
    BY <2>2 DEF IInv, Types
  <2>4. /\ radReturn[r] \in Seq(Entry) /\ radReturn'[r] = Append(radReturn[r], id)
        /\ \A o \in Ranks \ {r} : radReturn'[o] = radReturn[o]
    BY <2>2 DEF IInv, Types
  <2>5. \A i \in DOMAIN radReturn[r] : i \in DOMAIN radReturn'[r] /\ radReturn'[r][i] = radReturn[r][i]
    BY <2>4
  <2>6. \A i \in DOMAIN radReturn'[r] : radReturn'[r][i] = id \/ (i \in DOMAIN radReturn[r] /\ radReturn'[r][i] = radReturn[r][i])
    BY <2>4
  <2>7. \A z, n : Has(z, n) => Has(z, n)'
    BY <2>4, <2>5 DEF Has
  <2>8. \A z, n, m : z # p.id.ray /\ Trail(z, n, m) => Trail(z, n, m)'
    <3>1. PICK k : k = Far(p.id.ray, p.at - 1)
      OBVIOUS
    <3>2. Place(p) \in Cells
      BY <1>1, <1>2 DEF IInv, InMesh
    <3>3. p.id.ray \in Rays /\ p.at - 1 \in 0..Len(Path[p.id.ray])
      <4>1. p.id.ray \in Rays /\ p.at \in 1..Len(Path[p.id.ray]) /\ Len(Path[p.id.ray]) \in Nat
        BY <1>2, <3>2, Within, PathType
      <4> QED BY <4>1
    <3>4. k \in Nat
      BY <3>1, <3>3, ReachedType
    <3>5. Reached(r, p) = k
      BY <1>1, <3>1 DEF Reached, Stepped
    <3>6. Trail(p.id.ray, p.id.nSegment + 1, Reached(r, p))
      BY <1>2 DEF PathInv, Trails
    <3>7. Trail(id.ray, id.nSegment, k)
      BY <2>2, <3>5, <3>6
    <3>8. \A z, n, m : z # id.ray /\ Trail(z, n, m) => Trail(z, n, m)'
      BY <2>2, <3>4, <3>7, NewPiece
    <3> QED BY <2>2, <3>8
  <2>9. Starting'
    <3> SUFFICES ASSUME NEW s \in Ranks, NEW o \in swarm'[s]
                 PROVE  /\ pc[s] \in {"setup", "bounds"} => o.at = 1
                        /\ ~ Begins(o.id.ray) => surface /\ (pc[s] = "setup" \/ (pc[s] = "bounds" /\ o \in todo'[s]))
                        /\ o.at = Len(Path[o.id.ray]) + 1 => ~ ReachesWall(o.id.ray)
      BY <1>1 DEF Starting, Begins, ReachesWall
    <3>1. CASE s = r /\ o = q
      <4>1. o.id.ray = p.id.ray /\ o.at = p.at /\ pc[s] = "identify"
        BY <1>1, <2>2, <3>1
      <4> QED BY <1>2, <4>1
    <3>2. CASE ~ (s = r /\ o = q)
      <4>1. o \in swarm[s]
        BY <2>3, <3>2
      <4>2. /\ pc[s] \in {"setup", "bounds"} => o.at = 1
            /\ ~ Begins(o.id.ray) => surface /\ (pc[s] = "setup" \/ (pc[s] = "bounds" /\ o \in todo[s]))
            /\ o.at = Len(Path[o.id.ray]) + 1 => ~ ReachesWall(o.id.ray)
        BY <4>1 DEF EndInv, Starting
      <4>3. CASE s = r
        BY <1>1, <4>2, <4>3
      <4>4. CASE s # r
        BY <1>5, <4>2, <4>4
      <4> QED BY <4>3, <4>4
    <3> QED BY <3>1, <3>2
  <2>10. Arrived'
    <3> SUFFICES ASSUME NEW y \in Rays, Begins(y) PROVE Searching(y)' \/ Whole(y)'
      BY DEF Arrived, Begins
    <3>1. CASE y = p.id.ray
      <4>1. q \in swarm'[r] /\ q.id.ray = y
        BY <2>2, <2>3, <3>1
      <4> QED BY <4>1 DEF Searching
    <3>2. CASE y # p.id.ray /\ Searching(y)
      <4>1. PICK s \in Ranks : \E o \in swarm[s] : o.id.ray = y
        BY <3>2 DEF Searching
      <4>2. PICK o \in swarm[s] : o.id.ray = y
        BY <4>1
      <4>3. o \in swarm'[s]
        BY <2>3, <3>2, <4>2
      <4> QED BY <4>2, <4>3 DEF Searching
    <3>3. CASE y # p.id.ray /\ Whole(y)
      <4>1. PICK n \in Nat : Trail(y, n, Len(WholeTrace(y))) /\ (n # 0 => Has(y, n - 1))
        BY <3>3 DEF Whole
      <4>2. Trail(y, n, Len(WholeTrace(y)))' /\ (n # 0 => Has(y, n - 1)')
        BY <2>7, <2>8, <3>3, <4>1
      <4> QED BY <4>2 DEF Whole
    <3> QED BY <3>1, <3>2, <3>3 DEF EndInv, Arrived
  <2>11. Untouched'
    <3> SUFFICES ASSUME NEW s \in Ranks, NEW i \in DOMAIN radReturn'[s] PROVE Begins(radReturn'[s][i].ray)
      BY DEF Untouched, Begins
    <3>1. CASE s = r
      BY <1>2, <2>2, <2>6, <3>1 DEF EndInv, Untouched
    <3>2. CASE s # r
      BY <2>4, <3>2 DEF EndInv, Untouched
    <3> QED BY <3>1, <3>2
  <2> QED BY <1>3, <1>4, <2>9, <2>10, <2>11 DEF EndInv
<1> QED BY <1>6, <1>7

LEMMA ParticleStepEnd ==
    ASSUME Room, IInv, PathInv, EndInv, NEW r \in Ranks, NEW p \in todo[r], ParticleStep(r, p) PROVE EndInv'
<1>1. /\ pc[r] = "step" /\ todo' = [todo EXCEPT ![r] = @ \ {p}] /\ pc' = pc
      /\ UNCHANGED <<surface, swarm, radReturn, remoteRayInformation>>
  BY DEF ParticleStep, At, mesh
<1>2. p \in swarm[r] /\ \A q \in Ranks : q # r => todo'[q] = todo[q]
  BY <1>1 DEF IInv, Here, Types, Loops
<1>3. \A z, n, m : z # p.id.ray /\ Trail(z, n, m) => Trail(z, n, m)'
  BY StepsOn
<1>4. Starting'
  BY <1>1, <1>2 DEF EndInv, Starting, Begins, ReachesWall
<1>5. Arrived'
  <2> SUFFICES ASSUME NEW y \in Rays, Begins(y) PROVE Searching(y)' \/ Whole(y)'
    BY DEF Arrived, Begins
  <2>1. CASE Searching(y)
    BY <1>1, <2>1 DEF Searching
  <2>2. CASE Whole(y) /\ y # p.id.ray
    <3>1. PICK n \in Nat : Trail(y, n, Len(WholeTrace(y))) /\ (n # 0 => Has(y, n - 1))
      BY <2>2 DEF Whole
    <3>2. Trail(y, n, Len(WholeTrace(y)))' /\ (n # 0 => Has(y, n - 1)')
      BY <1>1, <1>3, <2>2, <3>1 DEF Has
    <3> QED BY <3>2 DEF Whole
  <2>3. CASE y = p.id.ray
    BY <1>1, <1>2, <2>3 DEF Searching
  <2> QED BY <2>1, <2>2, <2>3 DEF EndInv, Arrived
<1>6. Untouched'
  BY <1>1 DEF EndInv, Untouched, Begins
<1>7. Over' /\ Gathered'
  BY <1>1, <1>2, OverStays, GatheredStays DEF EndInv
<1> QED BY <1>4, <1>5, <1>6, <1>7 DEF EndInv

LEMMA AdvanceEnd ==
    ASSUME Room, IInv, PathInv, EndInv, NEW r \in Ranks, NEW p \in todo[r], Advance(r, p) PROVE EndInv'
<1>1. /\ pc[r] = "advance" /\ todo' = [todo EXCEPT ![r] = @ \ {p}] /\ pc' = pc
      /\ UNCHANGED <<surface, radReturn, remoteRayInformation>>
  BY DEF Advance, At, mesh
<1>2. /\ p \in swarm[r] /\ p \in Particles /\ Place(p) \in Cells /\ Begins(p.id.ray)
      /\ \A q \in Ranks : q # r => todo'[q] = todo[q]
  BY <1>1 DEF IInv, Here, InMesh, Types, Loops, EndInv, Starting
<1>3. Untouched' /\ Over' /\ Gathered'
  <2>1. Untouched'
    BY <1>1 DEF EndInv, Untouched, Begins
  <2> QED BY <1>1, <1>2, <2>1, OverStays, GatheredStays DEF EndInv
<1>4. CASE Ends(p)
  <2>1. \A q \in Ranks : swarm'[q] = IF q = r THEN swarm[r] \ {p} ELSE swarm[q]
    BY <1>4 DEF Advance, RemovePoint, IInv, Types
  <2>2. Starting'
    <3> SUFFICES ASSUME NEW q \in Ranks, NEW o \in swarm'[q]
                 PROVE  /\ pc[q] \in {"setup", "bounds"} => o.at = 1
                        /\ ~ Begins(o.id.ray) => surface /\ (pc[q] = "setup" \/ (pc[q] = "bounds" /\ o \in todo'[q]))
                        /\ o.at = Len(Path[o.id.ray]) + 1 => ~ ReachesWall(o.id.ray)
      BY <1>1 DEF Starting, Begins, ReachesWall
    <3>1. o \in swarm[q]
      BY <2>1
    <3>2. CASE q = r
      BY <1>1, <3>1, <3>2 DEF EndInv, Starting
    <3>3. CASE q # r
      BY <1>2, <3>1, <3>3 DEF EndInv, Starting
    <3> QED BY <3>2, <3>3
  <2>3. Arrived'
    <3> SUFFICES ASSUME NEW y \in Rays, Begins(y) PROVE Searching(y)' \/ Whole(y)'
      BY DEF Arrived, Begins
    <3>1. CASE y = p.id.ray
      <4>1. PICK n : n = p.id.nSegment + 1
        OBVIOUS
      <4>2. Trail(y, n, Len(WholeTrace(y)))'
        BY <1>4, <3>1, <4>1, ClosesTrace
      <4>3. n \in Nat /\ (n # 0 => Has(y, n - 1))
        <5>1. p.id.nSegment + 1 \in Nat /\ (p.id.nSegment + 1 # 0 => Has(y, p.id.nSegment))
          BY <1>2, <3>1, Marked
        <5>2. p.id.nSegment \in Int
          BY <1>2 DEF Particles, Identifiers
        <5>3. n - 1 = p.id.nSegment
          BY <4>1, <5>2
        <5> QED BY <4>1, <5>1, <5>3
      <4>4. n # 0 => Has(y, n - 1)'
        BY <1>1, <4>3 DEF Has
      <4> QED BY <4>2, <4>3, <4>4 DEF Whole
    <3>2. CASE y # p.id.ray /\ Searching(y)
      <4>1. PICK q \in Ranks : \E o \in swarm[q] : o.id.ray = y
        BY <3>2 DEF Searching
      <4>2. PICK o \in swarm[q] : o.id.ray = y
        BY <4>1
      <4>3. o \in swarm'[q]
        BY <2>1, <3>2, <4>2
      <4> QED BY <4>2, <4>3 DEF Searching
    <3>3. CASE y # p.id.ray /\ Whole(y)
      <4>1. PICK n \in Nat : Trail(y, n, Len(WholeTrace(y))) /\ (n # 0 => Has(y, n - 1))
        BY <3>3 DEF Whole
      <4>2. Trail(y, n, Len(WholeTrace(y)))' /\ (n # 0 => Has(y, n - 1)')
        BY <1>1, <1>4, <3>3, <4>1, ClosesTrace DEF Has
      <4> QED BY <4>2 DEF Whole
    <3> QED BY <3>1, <3>2, <3>3 DEF EndInv, Arrived
  <2> QED BY <1>3, <2>2, <2>3 DEF EndInv
<1>5. CASE ~ Ends(p)
  <2> DEFINE q == [p EXCEPT !.at = @ + 1]
  <2>1. swarm' = [swarm EXCEPT ![r] = (@ \ {p}) \cup {q}] /\ raySegments' = raySegments
    BY <1>5 DEF Advance, Update, Moved, Ends
  <2>2. q.id = p.id /\ q.at = p.at + 1
    BY <1>2 DEF Particles
  <2> HIDE DEF q
  <2>3. \A o \in Ranks : swarm'[o] = IF o = r THEN (swarm[r] \ {p}) \cup {q} ELSE swarm[o]
    BY <2>1 DEF IInv, Types
  <2>4. q.at = Len(Path[q.id.ray]) + 1 => ~ ReachesWall(q.id.ray)
    <3> SUFFICES ASSUME p.at + 1 = Len(Path[p.id.ray]) + 1 PROVE ~ ReachesWall(p.id.ray)
      BY <2>2
    <3>1. p.id.ray \in Rays /\ p.at \in 1..Len(Path[p.id.ray]) /\ Place(p) = Path[p.id.ray][p.at] /\ Len(Path[p.id.ray]) \in Nat
      BY <1>2, Within, PathType
    <3>2. p.at = Len(Path[p.id.ray])
      BY <3>1
    <3> QED BY <1>5, <3>1, <3>2 DEF Ends, ReachesWall, Last
  <2>5. Starting'
    <3> SUFFICES ASSUME NEW s \in Ranks, NEW o \in swarm'[s]
                 PROVE  /\ pc[s] \in {"setup", "bounds"} => o.at = 1
                        /\ ~ Begins(o.id.ray) => surface /\ (pc[s] = "setup" \/ (pc[s] = "bounds" /\ o \in todo'[s]))
                        /\ o.at = Len(Path[o.id.ray]) + 1 => ~ ReachesWall(o.id.ray)
      BY <1>1 DEF Starting, Begins, ReachesWall
    <3>1. CASE s = r /\ o = q
      BY <1>1, <1>2, <2>2, <2>4, <3>1
    <3>2. CASE ~ (s = r /\ o = q)
      <4>1. o \in swarm[s]
        BY <2>3, <3>2
      <4>2. CASE s = r
        BY <1>1, <4>1, <4>2 DEF EndInv, Starting
      <4>3. CASE s # r
        BY <1>2, <4>1, <4>3 DEF EndInv, Starting
      <4> QED BY <4>2, <4>3
    <3> QED BY <3>1, <3>2
  <2>6. Arrived'
    <3> SUFFICES ASSUME NEW y \in Rays, Begins(y) PROVE Searching(y)' \/ Whole(y)'
      BY DEF Arrived, Begins
    <3>1. CASE y = p.id.ray
      <4>1. q \in swarm'[r] /\ q.id.ray = y
        BY <2>2, <2>3, <3>1
      <4> QED BY <4>1 DEF Searching
    <3>2. CASE y # p.id.ray /\ Searching(y)
      <4>1. PICK s \in Ranks : \E o \in swarm[s] : o.id.ray = y
        BY <3>2 DEF Searching
      <4>2. PICK o \in swarm[s] : o.id.ray = y
        BY <4>1
      <4>3. o \in swarm'[s]
        BY <2>3, <3>2, <4>2
      <4> QED BY <4>2, <4>3 DEF Searching
    <3>3. CASE Whole(y)
      BY <1>1, <2>1, <3>3, WholeStays
    <3> QED BY <3>1, <3>2, <3>3 DEF EndInv, Arrived
  <2> QED BY <1>3, <2>5, <2>6 DEF EndInv
<1> QED BY <1>4, <1>5

LEMMA ReturnRayEnd == ASSUME IInv, EndInv, NEW y \in Rays, ReturnRay(y) PROVE EndInv'
<1>1. UNCHANGED <<surface, pc, todo, swarm, raySegments, radReturn>>
  BY DEF ReturnRay, mesh, search
<1>2. Starting' /\ Untouched' /\ Over'
  BY <1>1 DEF EndInv, Starting, Untouched, Over, Begins, ReachesWall
<1>3. Arrived'
  <2> SUFFICES ASSUME NEW z \in Rays, Begins(z) PROVE Searching(z)' \/ Whole(z)'
    BY DEF Arrived, Begins
  <2>1. Searching(z) \/ Whole(z)
    BY DEF EndInv, Arrived
  <2> QED BY <1>1, <2>1, WholeStays DEF Searching
<1>4. PICK info \in [1..SegmentsOf(y) -> Returned(y) \cup {Unset}] :
         /\ \A s \in DOMAIN info :
               LET here == {id \in Returned(y) : id.nSegment + 1 = s}
               IN info[s] \in (IF here = {} THEN {Unset} ELSE here)
         /\ remoteRayInformation' = [remoteRayInformation EXCEPT ![y] = info]
  BY DEF ReturnRay
<1>5. ASSUME NEW s \in 1..SegmentsOf(y) PROVE info[s] \in Returned(y) /\ info[s].nSegment + 1 = s
  <2>1. info[s] \in {id \in Returned(y) : id.nSegment + 1 = s}
    BY <1>4, NoGap
  <2> QED BY <2>1
<1>6. info \in [1..SegmentsOf(y) -> Returned(y)]
  BY <1>4, <1>5
<1>7. \A z : Returned(z)' = Returned(z) /\ SegmentsOf(z)' = SegmentsOf(z)
  BY <1>1 DEF Returned, Entries, SegmentsOf
<1>8. Gathered'
  <2> SUFFICES ASSUME NEW z \in Rays, remoteRayInformation'[z] # Pending
               PROVE  /\ remoteRayInformation'[z] \in [1..SegmentsOf(z) -> Returned(z)]
                      /\ \A s \in 1..SegmentsOf(z) : remoteRayInformation'[z][s].nSegment + 1 = s
    BY <1>7 DEF Gathered
  <2>1. DOMAIN remoteRayInformation = Rays
    BY DEF IInv, Kept
  <2>2. CASE z = y
    <3>1. remoteRayInformation'[z] = info
      BY <1>4, <2>1, <2>2
    <3> QED BY <1>5, <1>6, <2>2, <3>1
  <2>3. CASE z # y
    <3>1. remoteRayInformation'[z] = remoteRayInformation[z]
      BY <1>4, <2>1, <2>3
    <3> QED BY <3>1 DEF EndInv, Gathered
  <2> QED BY <2>2, <2>3
<1> QED BY <1>2, <1>3, <1>8 DEF EndInv

LEMMA SolveEnd ==
    ASSUME EndInv, UNCHANGED <<mesh, search, remoteRayInformation>>,
           pc' = pc \/ (pc' = [r \in Ranks |-> "ready"] /\ \A r \in Ranks : pc[r] = "return")
    PROVE  EndInv'
<1>1. UNCHANGED <<surface, todo, swarm, raySegments, radReturn, remoteRayInformation>>
  BY DEF mesh, search
<1>2. Starting'
  BY <1>1 DEF EndInv, Starting, Begins, ReachesWall
<1>3. Untouched' /\ Over'
  BY <1>1 DEF EndInv, Untouched, Over, Begins
<1>4. Arrived'
  <2> SUFFICES ASSUME NEW z \in Rays, Begins(z) PROVE Searching(z)' \/ Whole(z)'
    BY DEF Arrived, Begins
  <2>1. Searching(z) \/ Whole(z)
    BY DEF EndInv, Arrived
  <2> QED BY <1>1, <2>1, WholeStays DEF Searching
<1>5. Gathered'
  BY <1>1, GatheredStays DEF EndInv
<1> QED BY <1>2, <1>3, <1>4, <1>5 DEF EndInv

LEMMA NextEnd ==
    Room /\ IInv /\ SolveInv /\ (Alone => PathInv /\ EndInv) /\ [Next]_vars => (Alone => EndInv)'
<1> SUFFICES ASSUME Room, IInv, SolveInv, Alone => PathInv /\ EndInv, [Next]_vars, Alone' PROVE EndInv'
  OBVIOUS
<1>1. found' = found
  BY DEF Next, SetupMigrate, RoundMigrate, Migrate, GetSize, EndLoop, DeleteOutOfBounds, IdentifyNewRay,
         ParticleStep, Advance, ReturnRay, SetUp, EvaluateGains, FlowStep, vars, mesh
<1>2. PathInv /\ EndInv
  BY <1>1 DEF Alone
<1>3. CASE SetupMigrate
  BY <1>2, <1>3, SetupMigrateEnd
<1>4. CASE RoundMigrate
  BY <1>2, <1>4, RoundMigrateEnd
<1>5. CASE GetSize
  BY <1>2, <1>5, GetSizeEnd
<1>6. CASE \E r \in Ranks : EndLoop(r)
  BY <1>2, <1>6, EndLoopEnd
<1>7. CASE \E r \in Ranks : \E p \in todo[r] :
              DeleteOutOfBounds(r, p) \/ IdentifyNewRay(r, p) \/ ParticleStep(r, p) \/ Advance(r, p)
  BY <1>2, <1>7, DeleteOutOfBoundsEnd, IdentifyNewRayEnd, ParticleStepEnd, AdvanceEnd
<1>8. CASE \E y \in Rays : ReturnRay(y)
  BY <1>2, <1>8, ReturnRayEnd
<1>9. CASE SetUp
  BY <1>2, <1>9, SolveEnd DEF SetUp
<1>10. CASE EvaluateGains
  BY <1>2, <1>10, SolveEnd DEF EvaluateGains
<1>11. CASE FlowStep
  BY <1>2, <1>11, SolveEnd DEF FlowStep
<1>12. CASE UNCHANGED vars
  BY <1>2, <1>12, SolveEnd DEF vars
<1> QED BY <1>3, <1>4, <1>5, <1>6, <1>7, <1>8, <1>9, <1>10, <1>11, <1>12 DEF Next

(* No entry has a greater number than the last.                             *)
LEMMA SegmentsAtMost == ASSUME IInv, NEW y, NEW id \in Returned(y) PROVE id.nSegment + 1 <= SegmentsOf(y)
<1> DEFINE S == {0} \cup {e.nSegment + 1 : e \in Returned(y)}
<1>1. PICK n \in Nat : \A r \in Ranks : \A i \in DOMAIN radReturn[r] : radReturn[r][i].nSegment <= n
  BY DEF IInv, Bounded
<1>2. \A e \in Returned(y) : e.nSegment \in Nat /\ e.nSegment <= n
  BY <1>1, EntriesReturned DEF IInv, Entry
<1>3. S \in SUBSET Nat /\ S # {} /\ n + 1 \in Nat /\ \A x \in S : x <= n + 1
  BY <1>2
<1>4. SegmentsOf(y) = Max(S) /\ id.nSegment + 1 \in S
  BY DEF SegmentsOf
<1> HIDE DEF S
<1> QED BY <1>3, <1>4, Largest

(* What an origin pulls for a place of its ray, before it combines them.    *)
Pulled(y) == [s \in DOMAIN remoteRayInformation[y] |->
                 LET root == remoteRayInformation[y][s] IN calculations'[root.remoteRank][root.remoteRayId]]

(* Every place of a ray is passed on its rank.                              *)
LEMMA PulledPieces ==
    ASSUME IInv, SolveInv, EndInv, EvaluateGains, NEW y \in Rays
    PROVE  /\ DOMAIN remoteRayInformation[y] = 1..SegmentsOf(y) /\ SegmentsOf(y) \in Nat
           /\ \A s \in 1..SegmentsOf(y) : \E r \in Ranks : \E i \in DOMAIN radReturn[r] :
                 /\ radReturn[r][i].ray = y /\ radReturn[r][i].nSegment = s - 1
                 /\ Pulled(y)[s] = FoldLeft(Pass, Zero, raySegments[r][i])
<1>1. /\ \A r \in Ranks : pc[r] = "ready"
      /\ calculations' = [r \in Ranks |->
             [i \in DOMAIN calculations[r] |-> Segment(calculations[r][i], raySegments[r][i])]]
  BY DEF EvaluateGains
<1>2. remoteRayInformation[y] # Pending
  BY <1>1, MeshAssumption DEF SolveInv, Carrying
<1>3. /\ remoteRayInformation[y] \in [1..SegmentsOf(y) -> Returned(y)]
      /\ \A s \in 1..SegmentsOf(y) : remoteRayInformation[y][s].nSegment + 1 = s
  BY <1>2 DEF EndInv, Gathered
<1>4. SegmentsOf(y) \in Nat
  BY SegmentsCounted
<1>5. ASSUME NEW s \in 1..SegmentsOf(y)
      PROVE  \E r \in Ranks : \E i \in DOMAIN radReturn[r] :
                 /\ radReturn[r][i].ray = y /\ radReturn[r][i].nSegment = s - 1
                 /\ Pulled(y)[s] = FoldLeft(Pass, Zero, raySegments[r][i])
  <2>1. PICK id \in Returned(y) : id = remoteRayInformation[y][s] /\ id.nSegment + 1 = s
    BY <1>3
  <2>2. id \in Entry /\ id.ray = y /\ \E r \in Ranks : \E i \in DOMAIN radReturn[r] : id = radReturn[r][i]
    BY EntriesReturned DEF IInv
  <2>3. PICK r \in Ranks : \E i \in DOMAIN radReturn[r] : id = radReturn[r][i]
    BY <2>2
  <2>4. PICK i \in DOMAIN radReturn[r] : id = radReturn[r][i]
    BY <2>3
  <2>5. id.remoteRank = r /\ id.remoteRayId = i
    BY <2>4 DEF IInv, InStep
  <2>6. i \in DOMAIN calculations[r]
    <3>1. Len(calculations[r]) = Len(raySegments[r]) /\ calculations[r] \in Seq(Carriers)
      BY <1>1 DEF SolveInv, Carrying
    <3>2. Len(radReturn[r]) = Len(raySegments[r]) /\ radReturn[r] \in Seq(Entry)
      BY DEF IInv, InStep, Types
    <3> QED BY <3>1, <3>2
  <2>7. calculations'[r][i] = FoldLeft(Pass, Zero, raySegments[r][i])
    <3>1. calculations'[r][i] = Segment(calculations[r][i], raySegments[r][i])
      BY <1>1, <2>6
    <3> QED BY <3>1 DEF Segment, Zero
  <2>8. Pulled(y)[s] = calculations'[id.remoteRank][id.remoteRayId]
    BY <1>3, <2>1 DEF Pulled
  <2>9. id.nSegment \in Nat /\ id.nSegment = s - 1
    BY <2>1, <2>2 DEF Entry
  <2> QED BY <2>2, <2>4, <2>5, <2>7, <2>8, <2>9
<1> QED BY <1>3, <1>4, <1>5

(* What one rank alone would find along a ray of the region, and nothing    *)
(* for a ray that does not begin in it.                                     *)
LEMMA GainsAre ==
    ASSUME Deep, IInv, SolveInv, PathInv, EndInv, EvaluateGains, NEW y \in Rays
    PROVE  gains'[y] = IF Begins(y) THEN Reference(time, y) ELSE 0
<1>1. /\ \A r \in Ranks : pc[r] = "ready"
      /\ gains' = [z \in Rays |-> FoldLeft(Behind, [Ij |-> 0, Krad |-> 0], Pulled(z)).Ij]
  BY DEF EvaluateGains, Pulled
<1>2. gains'[y] = FoldLeft(Behind, Zero, Pulled(y)).Ij
  BY <1>1 DEF Zero
<1>3. time \in 0..1
  BY DEF SolveInv, Settings
<1>4. PICK m \in Nat : m = SegmentsOf(y)
  BY SegmentsCounted
<1>5. /\ DOMAIN remoteRayInformation[y] = 1..m
      /\ \A s \in 1..m : \E r \in Ranks : \E i \in DOMAIN radReturn[r] :
            /\ radReturn[r][i].ray = y /\ radReturn[r][i].nSegment = s - 1
            /\ Pulled(y)[s] = FoldLeft(Pass, Zero, raySegments[r][i])
  BY <1>4, PulledPieces
<1>6. PICK near : near = Pulled(y)
  OBVIOUS
<1>7. near = [s \in 1..m |-> near[s]]
  BY <1>5, <1>6 DEF Pulled
<1>8. CASE ~ Begins(y)
  <2>1. m = 0
    <3> SUFFICES ASSUME m # 0 PROVE FALSE
      OBVIOUS
    <3>1. 1 \in 1..m
      OBVIOUS
    <3>2. PICK r \in Ranks : \E i \in DOMAIN radReturn[r] : radReturn[r][i].ray = y
      BY <1>5, <3>1
    <3> QED BY <1>8, <3>2 DEF EndInv, Untouched
  <2>2. near \in Seq(Carriers) /\ Len(near) = 0
    <3>1. near \in [1..0 -> Carriers]
      BY <1>7, <2>1, 1..0 = {}
    <3> QED BY <3>1
  <2>3. Zero \in Carriers /\ Zero.Ij = 0
    BY DEF Zero, Carriers
  <2>4. FoldLeft(Behind, Zero, near) = Zero
    <3>1. PICK t \in [0..Len(near) -> Carriers] :
                  /\ t[0] = Zero /\ t[Len(near)] = FoldLeft(Behind, Zero, near)
                  /\ \A i \in 1..Len(near) : t[i] = Behind(t[i - 1], near[i])
      BY <2>2, <2>3, BehindSeries
    <3> QED BY <2>2, <3>1
  <2> QED BY <1>2, <1>6, <1>8, <2>3, <2>4
<1>9. CASE Begins(y)
  <2> DEFINE W == WholeTrace(y)
  <2>1. W \in Seq(Segments)
    BY WholeTraceCells
  <2>2. PICK n \in Nat : Trail(y, n, Len(W)) /\ (n # 0 => Has(y, n - 1))
    <3>1. ~ Searching(y)
      BY <1>1, MeshAssumption DEF EndInv, Over, Searching
    <3> QED BY <1>9, <3>1 DEF EndInv, Arrived, Whole
  <2>3. PICK cuts \in Cuts(n, Len(W)) : \A r \in Ranks : \A i \in DOMAIN radReturn[r] :
           radReturn[r][i].ray = y => Fits(r, i, n, cuts)
    BY <2>2 DEF Trail
  <2> HIDE DEF W
  <2>4. cuts \in [0..n -> 0..Len(W)] /\ cuts[0] = 0 /\ cuts[n] = Len(W)
    BY <2>3 DEF Cuts
  <2>5. ASSUME NEW s \in 1..m
        PROVE  /\ s <= n /\ cuts[s - 1] <= cuts[s]
               /\ near[s] = FoldLeft(Pass, Zero, SubSeq(W, cuts[s - 1] + 1, cuts[s]))
    <3>1. PICK r \in Ranks : \E i \in DOMAIN radReturn[r] :
             /\ radReturn[r][i].ray = y /\ radReturn[r][i].nSegment = s - 1
             /\ near[s] = FoldLeft(Pass, Zero, raySegments[r][i])
      BY <1>5, <1>6
    <3>2. PICK i \in DOMAIN radReturn[r] :
             /\ radReturn[r][i].ray = y /\ radReturn[r][i].nSegment = s - 1
             /\ near[s] = FoldLeft(Pass, Zero, raySegments[r][i])
      BY <3>1
    <3>3. Fits(r, i, n, cuts)
      BY <2>3, <3>2
    <3>4. (s - 1) + 1 = s
      OBVIOUS
    <3>5. s <= n /\ cuts[s - 1] <= cuts[s] /\ raySegments[r][i] = SubSeq(W, cuts[s - 1] + 1, cuts[s])
      BY <3>2, <3>3, <3>4 DEF Fits, W
    <3> QED BY <3>2, <3>5
  <2>6. n = m
    <3>1. m <= n
      <4>1. CASE m = 0
        BY <4>1
      <4>2. CASE m # 0
        <5>1. m \in 1..m
          BY <4>2
        <5> QED BY <2>5, <5>1
      <4> QED BY <4>1, <4>2
    <3>2. n <= m
      <4>1. CASE n = 0
        BY <4>1
      <4>2. CASE n # 0
        <5>1. PICK r \in Ranks : \E i \in DOMAIN radReturn[r] : radReturn[r][i].ray = y /\ radReturn[r][i].nSegment = n - 1
          BY <2>2, <4>2 DEF Has
        <5>2. PICK i \in DOMAIN radReturn[r] : radReturn[r][i].ray = y /\ radReturn[r][i].nSegment = n - 1
          BY <5>1
        <5>3. PICK id \in Returned(y) : id.nSegment = n - 1
          BY <5>2, EntriesReturned DEF IInv
        <5>4. id.nSegment + 1 <= m
          BY <1>4, SegmentsAtMost
        <5> QED BY <5>3, <5>4
      <4> QED BY <4>1, <4>2
    <3> QED BY <3>1, <3>2
  <2>7. near = [s \in 1..n |-> FoldLeft(Pass, Zero, SubSeq(W, cuts[s - 1] + 1, cuts[s]))]
    BY <1>7, <2>5, <2>6
  <2>8. PICK T : CarriedAlong(W, T)
    BY <1>3, <2>1, CarrierExists
  <2>9. T[Len(W)].Ij = Reference(time, y) /\ T[Len(W)].Krad <= Depth
    BY <1>3, <2>8, WholeGain DEF W, Deep
  <2>10. FoldLeft(Behind, Zero, near) = T[Len(W)]
    BY <1>3, <2>1, <2>4, <2>5, <2>6, <2>7, <2>8, <2>9, Combined
  <2> QED BY <1>2, <1>6, <1>9, <2>9, <2>10
<1> QED BY <1>8, <1>9

LEMMA NextGains ==
    /\ Room /\ Deep /\ IInv /\ SolveInv /\ (Alone => PathInv /\ EndInv) /\ GainsExact
    /\ [Next]_vars
    => GainsExact'
<1> SUFFICES ASSUME Deep, IInv, SolveInv, Alone => PathInv /\ EndInv, GainsExact, [Next]_vars PROVE GainsExact'
  OBVIOUS
<1>1. found' = found
  BY DEF Next, SetupMigrate, RoundMigrate, Migrate, GetSize, EndLoop, DeleteOutOfBounds, IdentifyNewRay,
         ParticleStep, Advance, ReturnRay, SetUp, EvaluateGains, FlowStep, vars, mesh
<1>2. Alone' <=> Alone
  BY <1>1 DEF Alone
<1>3. CASE EvaluateGains
  <2> SUFFICES ASSUME Alone, NEW y \in Rays
               PROVE  gains'[y] = IF Path[y][1] \in Region THEN Reference(evaluated', y) ELSE 0
    BY <1>2 DEF GainsExact, Reference, Light, Seen, Dimmed, Dimming, Inside, ReachesWall
  <2>1. evaluated' = time
    BY <1>3 DEF EvaluateGains
  <2> QED BY <1>3, <2>1, GainsAre DEF Begins
<1>4. CASE UNCHANGED <<gains, evaluated>>
  BY <1>2, <1>4 DEF GainsExact
<1>5. ASSUME ~ EvaluateGains PROVE UNCHANGED <<gains, evaluated>>
  BY <1>5 DEF Next, SetupMigrate, RoundMigrate, Migrate, GetSize, EndLoop, DeleteOutOfBounds, IdentifyNewRay,
              ParticleStep, Advance, ReturnRay, SetUp, FlowStep, vars, solve
<1> QED BY <1>3, <1>4, <1>5

(* Where every cell belongs to one rank, the gain of a ray after every      *)
(* evaluation is the light that one rank alone would find along its path:   *)
(* whatever the partition, the paths, the optics and the order of the       *)
(* loops, and also when a ray comes back to a rank that it had left.        *)
THEOREM GainsOfOneRank == ASSUME Room, Deep PROVE Spec => []GainsExact
<1>1. Init => GainsExact
  BY DEF Init, GainsExact
<1>2. Init => IInv /\ SolveInv /\ (Alone => PathInv /\ EndInv)
  BY InitInv, InitSolve, PathInit, EndInit
<1>3. IInv /\ SolveInv /\ (Alone => PathInv /\ EndInv) /\ GainsExact /\ [Next]_vars
      => (IInv /\ SolveInv /\ (Alone => PathInv /\ EndInv) /\ GainsExact)'
  <2> SUFFICES ASSUME IInv, SolveInv, Alone => PathInv /\ EndInv, GainsExact, [Next]_vars
               PROVE  (IInv /\ SolveInv /\ (Alone => PathInv /\ EndInv) /\ GainsExact)'
    OBVIOUS
  <2>1. IInv' /\ SolveInv'
    BY NextInv, NextSolve
  <2>2. (Alone => PathInv)' /\ (Alone => EndInv)' /\ GainsExact'
    BY NextPath, NextEnd, NextGains
  <2> QED BY <2>1, <2>2
<1> QED BY <1>1, <1>2, <1>3, PTL DEF Spec
=============================================================================
