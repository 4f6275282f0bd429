CONSTANTS
  Pages = {p1}  Paths = {f1, f2}  Main = f1  Revocable = {p1}
  FetchMayFail = TRUE  MaxMisfiled = 1  MaxInserts = 2  MaxVisits = 1
  NJobs = 2  MaxCalls = 2  MaxUrls = 3
  NPdfs = 3  PageCount <- PageCounts  MaxPages = 2  MinScale = 1  MaxScale = 2
  Queries = {"", "x"}  MaxDrawings = 2
  Users = {u1}  MaxUses = 1  MaxChanges = 3
CHECK_DEADLOCK FALSE
SPECIFICATION MCSpec
INVARIANTS TypesOK EditorShowsFile SavedOwnText ShownUrlIsLive ShowsLastJob
  OneDocument RedrawnPagesFit MarksFitQuery
PROPERTIES PageGetsBound CompilingEnds RemovalIsNoticed
