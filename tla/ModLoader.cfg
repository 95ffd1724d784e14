\* Three folders, each of nine kinds, and three ids. U32 leaves room for the
\* default 999999; unsigned long is twice as wide, so that values beyond
\* either of them differ.
CONSTANTS
  Folders = {d1, d2, d3}
  Contents <- MCContents
  Ids = {"alpha", "beta", "gamma"}
  IdRank <- MCIdRank
  NoId = ""
  NoEnv = NoEnv
  NotANumber = NotANumber
  Revision = 7
  U32 = 1000000
  ULong = 2000000
SPECIFICATION Spec
INVARIANTS TypeOK EveryModRunsOnce RunsInLoadOrder UniqueIdsGetOwnEnvironment
PROPERTY LoadingEnds
CHECK_DEADLOCK FALSE
