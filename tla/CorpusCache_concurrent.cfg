\* Two runs interleaved, with the fairness that ends them.
SPECIFICATION FairSpec
CONSTANTS
  A = A  B = B  X = X
  a1 = a1  a1c = a1c  a2 = a2  b1 = b1  b2 = b2  b3 = b3  x1 = x1  x2 = x2
  da1 = da1  da2 = da2  db1 = db1  db2 = db2  db3 = db3  dx1 = dx1  dx2 = dx2
  f1 = f1  f2 = f2  i1 = i1  i2 = i2
  Absent = Absent
  Files <- MCFiles
  Texts <- MCTexts
  Digests <- MCDigests
  Flags <- MCFlags
  Images <- MCImages
  AxiomNames <- MCAxiomNames
  Digest <- MCDigest
  Requires <- MCRequires
  AxiomsIn <- MCAxiomsIn
  Clashes <- MCClashes
  ClaimRoots = {A}
  ProbeRoots = {X}
  ExtractFile = X
  Runs = {r1, r2}
  Trees <- ConcurrentTrees
  MaxActive = 2
CHECK_DEADLOCK FALSE
INVARIANTS FreshBuild CacheSealed MinimalRebuild
PROPERTIES EveryRunEnds
