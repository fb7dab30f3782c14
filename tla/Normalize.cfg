SPECIFICATION Spec
CONSTANTS
  NoFile = NoFile
  Files = {1, 2}
  Contents <- MCContents
  Rewrites <- MCRewrites
  Submissions <- MCSubmissions
  Runners = {r1, r2}
  MaxLong = 3
  MaxRewrites = 1
SYMMETRY RunnerSymmetry
INVARIANTS
  TypeOK
  OutputsDetermined
  NothingLost
  AcceptedUnambiguous
  AcceptedKeyed
