CONSTANTS
  j1 = j1  j2 = j2  j3 = j3  a = a  b = b  h1 = h1  h2 = h2
  Jobs = {j1, j2}
  Sources = {a, b}
  NoTree = NoTree  NoJob = NoJob
  Handlers = {h1, h2}
  Rerun = TRUE
  MaxDeletes = 1
  MaxReruns = 1  MaxSent = 1
  Leaving = {j1}
  CommitsFail = TRUE
CHECK_DEADLOCK FALSE
SPECIFICATION FairSpec
INVARIANTS TypeOK VersionKept VersionOffersPdf VersionsDiffer
PROPERTY EveryCompileKept
