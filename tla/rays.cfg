SPECIFICATION FairSpec
CONSTANTS
  Ranks = {1, 2, 3}
  Cells = {1, 2, 3, 4}
  Rays = {1, 2, 3, 4}
  Path <- MCPath
  Flat = {3}
  Region <- MCRegion
  SubDomain = {1, 2, 3, 4}
  Meshes <- MCMeshes
  Halvings <- MCHalvings
  Emission <- MCEmission
  Depth = 6
  MaxSegment = 6
INVARIANTS TypeOK SegmentsExist SlotsFilled SegmentsFollowPath GainsExact
PROPERTY SearchEnds
