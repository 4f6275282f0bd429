CONSTANTS
  Vocabulary = {"color"}  Locales = {"us", "gb"}  Correct <- CorrectWords
  MaxMessages = 2  MaxLoads = 2
  Tokens <- MCTokens  Math = {"eq"}  Verbatim = {"verb"}  LogLines <- MCLogLines  TexPaths <- MCTexPaths  PathLength <- MCPathLength
  PathNames = {"main.tex", "a.tex", "aa.tex", "b.tex", "d", "."}
  LookAhead = 2  MaxIssues = 2  MaxTokens = 4  MaxLines = 4  MaxLog = 4  MaxIssueClicks = 2
  Names = {"f", "g"}  Line = {"x", "y"}  FileSets <- MCFileSets  ContextLines = 1  MaxDiffLines = 5
  FilePaths = {"main.tex", "main-copy.tex", "d/main.tex"}  MainFile = "main.tex"
  Folders = {"d"}  InFolder <- MCInFolder  BaseOf <- MCBaseOf  CopyOf <- MCCopyOf  MaxGestures = 2
  Requests = {r1, r2}
  SyncLines <- MCSyncLines  SyncHeader <- MCSyncHeader  SourceNames = {"main.tex", "a.tex"}
  Listed <- MCListed  EndsIn <- MCEndsIn  Grid = 4  MaxBoxes = 3  MaxClicks = 2
CHECK_DEADLOCK FALSE
SPECIFICATION MCSpec
SYMMETRY Alike
INVARIANTS TypesOK MarksFit LintFitsNesting WordsAreProse IssuesArePlaced
  DiffIsFaithful FilesKept PageOnFile StaysSignedIn QueueIsServed ClickFindsSource
