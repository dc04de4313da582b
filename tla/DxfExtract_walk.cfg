\* Every document of the instance, in both modes, with every option.
SPECIFICATION Spec
CONSTANTS
  NonFinite = NonFinite
  BlockKey <- MCBlockKey
  Inputs <- MCInputs
CHECK_DEADLOCK FALSE
INVARIANTS TypeOK EveryEntityAnswered NestingIsBounded PlacedAsDrawn
  RecordsValid OutputIsWhole
