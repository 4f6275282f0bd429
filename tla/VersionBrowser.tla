---------------------------- MODULE VersionBrowser ----------------------------
(***************************************************************************)
(* The browser of a version's sources: the version's files are compared    *)
(* with those of the project or of the version before, file by file and    *)
(* line by line. A file that is not there is Absent; a text is the         *)
(* sequence of its lines, and the empty one has none.                      *)
(***************************************************************************)
EXTENDS Integers, Sequences, FiniteSets, SequencesExt

CONSTANTS
  Names,          \* paths of files
  Line,           \* contents of a line
  FileSets,       \* the files that a project or a version may have
  ContextLines,   \* 3 in the code
  MaxDiffLines    \* 2000 in the code

Absent == [absent |-> TRUE]
Present(text) == [absent |-> FALSE, text |-> text]
FileStates == [absent : {FALSE}, text : Seq(Line)] \cup {Absent}
NoFiles == [n \in Names |-> Absent]
Has(files, n) == ~files[n].absent
Content(files, n) == IF Has(files, n) THEN files[n].text ELSE <<>>

ASSUME DiffAssumption ==
  FileSets \subseteq [Names -> FileStates] /\ ContextLines \in Nat /\ MaxDiffLines \in Nat

VARIABLES
  project, version, previous,       \* what the server has; previous may be NoFiles
  browser                           \* snapshotBrowser, closed or a record

browserVars == <<project, version, previous, browser>>
Closed == [open |-> FALSE]

BrowserInit ==
  /\ project \in FileSets /\ previous \in FileSets
  /\ version \in FileSets \ {NoFiles}
  /\ browser = Closed

-----------------------------------------------------------------------------
(* computeLineDiff.                                                        *)

Cut(text) == SubSeq(text, 1, IF Len(text) < MaxDiffLines THEN Len(text) ELSE MaxDiffLines)
Larger(x, y) == IF x < y THEN y ELSE x

\* dp: the length of a longest common subsequence of two prefixes, row by row.
Lcs(a, b) ==
  LET dp[i \in 0..Len(a)] ==
        LET row[j \in 0..Len(b)] ==
              IF i = 0 \/ j = 0 THEN 0
              ELSE IF a[i] = b[j] THEN dp[i - 1][j - 1] + 1
              ELSE Larger(dp[i - 1][j], row[j - 1])
        IN  row
  IN  dp

Ctx(i, j, t) == [kind |-> "ctx", oldLine |-> i, newLine |-> j, text |-> t]
Add(j, t) == [kind |-> "add", newLine |-> j, text |-> t]
Del(i, t) == [kind |-> "del", oldLine |-> i, text |-> t]
Sep == [kind |-> "sep"]

\* Mutant: of two equally long ways the shorter one is taken.
BacktrackWrongWay(a, b) ==
  LET dp == Lcs(a, b)
      ops[i \in 0..Len(a)] ==
        LET row[j \in 0..Len(b)] ==
              IF i = 0 /\ j = 0 THEN <<>>
              ELSE IF i > 0 /\ j > 0 /\ a[i] = b[j] THEN Append(ops[i - 1][j - 1], Ctx(i, j, a[i]))
              ELSE IF j > 0 /\ (i = 0 \/ dp[i][j - 1] <= dp[i - 1][j]) THEN Append(row[j - 1], Add(j, b[j]))
              ELSE IF i > 0 THEN Append(ops[i - 1][j], Del(i, a[i]))
              ELSE <<>>
        IN  row
  IN  ops[Len(a)][Len(b)]
\* ops: the lines, from the first to the last.
Backtrack(a, b) ==
  LET dp == Lcs(a, b)
      ops[i \in 0..Len(a)] ==
        LET row[j \in 0..Len(b)] ==
              IF i = 0 /\ j = 0 THEN <<>>
              ELSE IF i > 0 /\ j > 0 /\ a[i] = b[j] THEN Append(ops[i - 1][j - 1], Ctx(i, j, a[i]))
              ELSE IF j > 0 /\ (i = 0 \/ dp[i][j - 1] >= dp[i - 1][j]) THEN Append(row[j - 1], Add(j, b[j]))
              ELSE Append(ops[i - 1][j], Del(i, a[i]))
        IN  row
  IN  ops[Len(a)][Len(b)]

(* Lines near a change are kept. A separator stands for what is left out,  *)
(* and before the first line in any case: lastKept starts at -2.           *)
Collapse(raw) ==
  LET changed == {k \in DOMAIN raw : raw[k].kind # "ctx"}
      keep == {k \in DOMAIN raw : \E c \in changed : k \in (c - ContextLines)..(c + ContextLines)}
      Shown(k) == IF k \notin keep THEN <<>>
                  ELSE IF k - 1 \in keep THEN <<raw[k]>> ELSE <<Sep, raw[k]>>
  IN  FlattenSeq([k \in DOMAIN raw |-> Shown(k)])

ComputeLineDiff(old, new) == Collapse(Backtrack(Cut(old), Cut(new)))

\* computeFileDiff, which lists the files of both sides.
FileDiff(base, files, n) ==
  CASE Has(files, n) /\ ~Has(base, n) -> "added"
    [] ~Has(files, n) /\ Has(base, n) -> "deleted"
    [] ~Has(files, n) /\ ~Has(base, n) -> "not listed"
    [] OTHER -> IF base[n] # files[n] THEN "modified" ELSE "unchanged"

-----------------------------------------------------------------------------
(* The browser.                                                            *)

(* Version, project and version before are read one after the other; a     *)
(* file of the project that cannot be read counts as empty, and without    *)
(* the version before there is nothing to compare with.                    *)
BrowseFiles ==
  /\ browser = Closed
  /\ \E failed \in SUBSET {n \in Names : Has(project, n)}, prev \in {previous, NoFiles},
        n \in {m \in Names : Has(version, m)} :
       browser' = [open |-> TRUE, selectedFile |-> n, viewMode |-> "diff-current",
                   files |-> version, prevFiles |-> prev,
                   currentFiles |-> [m \in Names |->
                     IF m \in failed THEN Present(<<>>) ELSE project[m]]]
  /\ UNCHANGED <<project, version, previous>>

SetViewMode(mode) ==
  /\ browser.open /\ (mode = "diff-prev" => browser.prevFiles # NoFiles)
  /\ browser' = [browser EXCEPT !.viewMode = mode]
  /\ UNCHANGED <<project, version, previous>>

DiffBase == IF browser.viewMode = "diff-prev" THEN browser.prevFiles ELSE browser.currentFiles

(* The list has the files of both sides in a comparison; the file that is  *)
(* selected stays so when the comparison changes and it has it no more.    *)
ChooseFile(n) ==
  /\ browser.open
  /\ Has(browser.files, n) \/ (browser.viewMode # "source" /\ Has(DiffBase, n))
  /\ browser' = [browser EXCEPT !.selectedFile = n]
  /\ UNCHANGED <<project, version, previous>>

(* What is shown: the source, a sentence, or the lines of the comparison.  *)
Panel ==
  LET n == browser.selectedFile
      status == FileDiff(DiffBase, browser.files, n)
      lines == ComputeLineDiff(Content(DiffBase, n), Content(browser.files, n))
  IN  CASE browser.viewMode = "source" -> [shows |-> "source", lines |-> Content(browser.files, n)]
        [] browser.viewMode # "source" /\ status = "unchanged" -> [shows |-> "no changes", lines |-> <<>>]
        [] browser.viewMode # "source" /\ status # "unchanged" /\ lines = <<>> ->
             [shows |-> IF status \in {"added", "deleted"} THEN status ELSE "no differences", lines |-> <<>>]
        [] OTHER -> [shows |-> "lines", lines |-> lines]

CloseBrowser ==
  /\ browser.open /\ browser' = Closed
  /\ UNCHANGED <<project, version, previous>>

BrowserNext ==
  \/ BrowseFiles \/ CloseBrowser
  \/ \E mode \in {"source", "diff-current", "diff-prev"} : SetViewMode(mode)
  \/ \E n \in Names : ChooseFile(n)

BrowserSpec == BrowserInit /\ [][BrowserNext]_browserVars

-----------------------------------------------------------------------------
\* The lines with the numbers of a set, in order.
Pick(text, numbers) ==
  [k \in 1..Cardinality(numbers) |->
     text[CHOOSE i \in numbers : Cardinality({j \in numbers : j <= i}) = k]]

\* What a reader makes of the base with the lines that are shown.
Apply(base, lines) ==
  LET shown == ToSet(lines)
      adds == {l \in shown : l.kind = "add"}
      kept == Pick(base, DOMAIN base \ {l.oldLine : l \in {x \in shown : x.kind = "del"}})
      n == Len(kept) + Cardinality(adds)
      Before(j) == Cardinality({l \in adds : l.newLine < j})
  IN  [j \in 1..n |-> IF \E l \in adds : l.newLine = j
                      THEN (CHOOSE l \in adds : l.newLine = j).text
                      ELSE kept[j - Before(j)]]

\* The length of a longest common subsequence, by its definition.
Subsequences(text) == {Pick(text, numbers) : numbers \in SUBSET DOMAIN text}
LongestCommon(a, b) == Max({Len(c) : c \in Subsequences(a) \cap Subsequences(b)})

(* The comparison that is shown turns the base into the version and is as  *)
(* short as one can be, context and separators left aside; a sentence is   *)
(* shown instead exactly for a text that is the same, and says why. The    *)
(* code: computeLineDiff and computeFileDiff, which are asked side by side, *)
(* for texts that are not cut.                                             *)
DiffIsFaithful ==
  (browser.open /\ browser.viewMode # "source") =>
    LET n == browser.selectedFile
        old == Content(DiffBase, n)
        new == Content(browser.files, n)
        panel == Panel
        changes == {k \in DOMAIN panel.lines : panel.lines[k].kind \in {"add", "del"}}
    IN  (Len(old) <= MaxDiffLines /\ Len(new) <= MaxDiffLines) =>
          /\ Apply(old, panel.lines) = new
          /\ Cardinality(changes) = Len(old) + Len(new) - 2 * LongestCommon(old, new)
          /\ (panel.shows = "lines") = (old # new)
          /\ panel.shows = "no differences" => DiffBase[n].absent /\ browser.files[n].absent
          /\ panel.shows \in {"added", "deleted"} => DiffBase[n].absent # browser.files[n].absent
=============================================================================
