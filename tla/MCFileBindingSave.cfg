CONSTANTS
  Pages = {p1}  Paths = {f1, f2}  Main = f1  Revocable = {}
  FetchMayFail = FALSE  MaxMisfiled = 1  MaxInserts = 4  MaxVisits = 1
CHECK_DEADLOCK FALSE
SPECIFICATION MCSpec
INVARIANT SavesAreOwn
