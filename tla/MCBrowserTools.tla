---------------------------- MODULE MCBrowserTools ----------------------------
(* One instance of each tool of the browser. The tools share no state, so    *)
(* that a behaviour plays in one of them.                                    *)
EXTENDS SpellChecker, LatexText, VersionBrowser, ProjectFiles, Sessions, SourceMap

VARIABLE tool

\* The tools a behaviour does not play in stand still in one initial state.
SpellRests == text = {} /\ spellLocale = "us"
BrowserRests ==
  /\ project = NoFiles /\ previous = NoFiles
  /\ version = [n \in Names |-> Present(<<>>)]
FilesRest == rows = {MainFile}

MCInit ==
  /\ SpellInit /\ TextInit /\ FilesInit /\ SessionInit /\ SyncInit
  /\ tool \in {"spell", "text", "files", "session", "browser", "source"}
  /\ tool = "spell" \/ SpellRests
  /\ tool = "files" \/ FilesRest
  /\ IF tool = "browser" THEN BrowserInit ELSE BrowserRests /\ browser = Closed

MCNext ==
  /\ UNCHANGED tool
  /\ \/ tool = "spell" /\ SpellNext /\ UNCHANGED <<textVars, browserVars, fileVars, sessionVars, syncVars>>
     \/ tool = "text" /\ TextNext /\ UNCHANGED <<spellVars, browserVars, fileVars, sessionVars, syncVars>>
     \/ tool = "browser" /\ BrowserNext /\ UNCHANGED <<spellVars, textVars, fileVars, sessionVars, syncVars>>
     \/ tool = "files" /\ FilesNext /\ UNCHANGED <<spellVars, textVars, browserVars, sessionVars, syncVars>>
     \/ tool = "session" /\ SessionNext /\ UNCHANGED <<spellVars, textVars, browserVars, fileVars, syncVars>>
     \/ tool = "source" /\ SyncNext /\ UNCHANGED <<spellVars, textVars, browserVars, fileVars, sessionVars>>

MCSpec == MCInit /\ [][MCNext]_<<tool, spellVars, textVars, browserVars, fileVars, sessionVars, syncVars>>

\* The requests of a page are all alike.
Alike == Permutations(Requests)

TypesOK == SpellTypeOK /\ FilesTypeOK /\ SessionTypeOK /\ SyncTypeOK

CorrectWords == [l \in Locales |-> IF l = "us" THEN Vocabulary \cap {"color"} ELSE Vocabulary \cap {"colour"}]

MCTokens ==
  ({"begin", "end"} \X {"eq", "verb"}) \cup
  {<<"begin", "document">>, <<"end", "document">>, <<"dollar", "">>, <<"dollars", "">>,
   <<"comment", "">>, <<"word", "w">>}
\* The log names a file below d, and one that the project lacks.
MCLogLine(opens, closes, kind, file, line) ==
  [opens |-> opens, closes |-> closes, kind |-> kind, file |-> file, line |-> line]
MCLogLines ==
  {MCLogLine(<<"a.tex">>, FALSE, "other", NoFile, 0), MCLogLine(<<"b.tex">>, TRUE, "other", NoFile, 0),
   MCLogLine(NoFile, TRUE, "other", NoFile, 0), MCLogLine(<<"b.tex">>, FALSE, "error", NoFile, 0),
   MCLogLine(NoFile, FALSE, "error", NoFile, 0), MCLogLine(NoFile, FALSE, "warning", NoFile, 0),
   MCLogLine(NoFile, FALSE, "ref", NoFile, 1), MCLogLine(NoFile, FALSE, "ref", NoFile, 2),
   MCLogLine(NoFile, FALSE, "place", <<".", "a.tex">>, 1)}
MCTexPaths == <<<<"aa.tex">>, <<"d", "a.tex">>, <<"main.tex">>>>
MCPathLength == [p \in ToSet(MCTexPaths) |-> IF p = <<"aa.tex">> THEN 6 ELSE IF p = <<"d", "a.tex">> THEN 7 ELSE 8]

\* Every text of up to two lines, and longer ones in which lines come back.
MCTexts ==
  UNION {[1..n -> {"x", "y"}] : n \in 1..2} \cup
  {<<>>, <<"x", "y", "x">>, <<"x", "y", "x", "y", "x">>, <<"x", "y", "x", "x", "x">>, <<"y", "y", "x", "y", "y">>}
\* A file with each of them, or none; and a second file beside some of them.
MCFileSets ==
  {[n \in Names |-> IF n = "f" THEN f ELSE Absent] : f \in {Present(t) : t \in MCTexts} \cup {Absent}} \cup
  {[n \in Names |-> IF n = "f" THEN f ELSE Present(<<"x">>)] : f \in {Present(<<"x">>), Absent}}

\* Boxes of two sources at three heights, and one of a style file.
MCSyncHeader == <<[kind |-> "input", id |-> 1, file |-> "main.tex"],
                  [kind |-> "input", id |-> 2, file |-> "article.sty"],
                  [kind |-> "input", id |-> 3, file |-> "a.tex"]>>
MCSyncLines ==
  {[kind |-> "content"], [kind |-> "page", page |-> 1], [kind |-> "page", page |-> 2],
   [kind |-> "box", id |-> 2, line |-> 4, v |-> 1],
   [kind |-> "box", id |-> 1, line |-> 1, v |-> 0], [kind |-> "box", id |-> 1, line |-> 3, v |-> 4],
   [kind |-> "box", id |-> 3, line |-> 2, v |-> 2]}
MCListed == <<"b.tex", "d/a.tex", "main.tex">>
MCEndsIn == [p \in ToSet(MCListed) |-> IF p = "d/a.tex" THEN {"a.tex"} ELSE {p}]

MCInFolder == [d \in Folders |-> {"d/main.tex"}]
MCBaseOf == [p \in FilePaths |-> IF p \in InFolder["d"] THEN MainFile ELSE p]
MCCopyOf == [p \in {MainFile} |-> "main-copy.tex"]
=============================================================================
