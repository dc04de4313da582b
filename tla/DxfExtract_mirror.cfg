\* An INSERT that mirrors in y, or that lies on the underside.
SPECIFICATION Spec
CONSTANTS
  NonFinite = NonFinite
  BlockKey <- MCBlockKey
  Inputs <- MirrorInputs
CHECK_DEADLOCK FALSE
INVARIANTS PlacementIsDxf
