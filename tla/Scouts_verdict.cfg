\* The four scouts, an oracle that answers anything.
SPECIFICATION Spec
CONSTANTS
  Scripts = {"1093", "1094", "1212", "311"}
  LineSites <- MCLineSites
  CircleSites <- MCCircleSites
  Followers <- MCFollowers
CHECK_DEADLOCK FALSE
INVARIANTS TypeOK CertainIsExact HonestOracleIsNotBlamed GreenMeansTrue
