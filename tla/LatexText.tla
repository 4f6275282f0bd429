------------------------------ MODULE LatexText ------------------------------
(***************************************************************************)
(* What the editor reads out of text line by line: the squiggles of        *)
(* registerLatexDiagnostics, the words that are spell-checked, and the     *)
(* issues of a LaTeX log. The functions run on every change; here a text   *)
(* grows by one token or line break at a time.                             *)
(*                                                                         *)
(* A line is a sequence of tokens <<kind, name>>: \begin{name}, \end{name},*)
(* \label{name}, "$", "$$", "%" and words. A line of a log is a record:     *)
(* "opens" is a file that it names behind a parenthesis, "closes" says     *)
(* that it begins with the closing one, and "kind" what else it is.        *)
(***************************************************************************)
EXTENDS EditorJump, FiniteSets, SequencesExt

CONSTANTS
  Tokens,          \* what is typed
  Math, Verbatim,  \* names of environments of the two kinds
  LogLines,        \* lines of a log; a file in it is a sequence of names
  PathNames,       \* names of folders and files
  TexPaths,        \* the paths of the project's files, as they are listed
  PathLength,      \* the number of characters of each of them
  LookAhead,       \* lines searched behind an error, 7 in the code
  MaxIssues,       \* issues shown, 20 in the code
  MaxTokens,       \* bound on the tokens of a text
  MaxLines,        \* bound on its lines
  MaxLog,          \* bound on the lines of a log
  MaxIssueClicks   \* bound on the clicks on issues

\* The path of a file: the names of folders, "." among them, and its own.
LogPath == {p \in Seq(PathNames) : Len(p) > 0 /\ Last(p) # "."}
NoFile == <<>>
(* What begins with ")" is nothing else; "ref" is the "l.N" behind an      *)
(* error, "place" an error that says its own file and line.                *)
LogLine ==
  {l \in [opens : LogPath \cup {NoFile}, closes : BOOLEAN,
          kind : {"other", "error", "warning", "ref", "place"}, file : LogPath \cup {NoFile}, line : Nat] :
     /\ l.closes => l.kind = "other"
     /\ l.kind = "place" => l.file # NoFile
     /\ l.kind \in {"ref", "place"} => l.line > 0}

ASSUME TextAssumption ==
  /\ {LookAhead, MaxIssues, MaxTokens, MaxLines, MaxLog, MaxIssueClicks} \subseteq Nat
  /\ Math \cap Verbatim = {}
  /\ "main.tex" \in PathNames /\ TexPaths \in Seq(LogPath) /\ LogLines \subseteq LogLine
  /\ \A i \in DOMAIN TexPaths : PathLength[TexPaths[i]] \in Nat \ {0}

VARIABLES
  doc, log,
  issueEditor      \* the editor that a click on an issue leads to

textVars == <<doc, log, issueEditor>>

Is(kind, token) == token[1] = kind
NamesOf(kind, line) ==      \* in the order of the line
  LET Read(names, t) == IF Is(kind, t) THEN Append(names, t[2]) ELSE names
  IN  FoldLeft(Read, <<>>, line)
Count(kind, line) == Cardinality({i \in DOMAIN line : Is(kind, line[i])})

\* A comment reaches to the end of the line.
WithoutComment(line) ==
  LET at == SelectInSeq(line, LAMBDA t : Is("comment", t))
  IN  IF at = 0 THEN line ELSE SubSeq(line, 1, at - 1)

-----------------------------------------------------------------------------
(* registerLatexDiagnostics.                                               *)

\* The analysis behind a line: open environments, and what is found so far.
Analysis == [stack |-> <<>>, ended |-> FALSE, unopened |-> 0, labels |-> <<>>,
             display |-> FALSE, odd |-> 0]

\* Mutant: an \end has to meet the \begin that was read last.
CloseTopEnv(a, env) ==
  IF a.stack = <<>> \/ Last(a.stack) # env THEN [a EXCEPT !.unopened = @ + 1]
  ELSE [a EXCEPT !.stack = Front(@)]
\* The last \begin of the name is taken off the stack, wherever it is.
CloseEnv(a, env) ==
  LET at == SelectLastInSeq(a.stack, LAMBDA e : e = env)
  IN  IF at = 0 THEN [a EXCEPT !.unopened = @ + 1]
      ELSE [a EXCEPT !.stack = RemoveAt(@, at)]

(* All \begin of a line are stacked before its \end are looked for; nothing *)
(* is read from the line with \end{document} on.                           *)
AnalyzeLine(a, raw) ==
  LET line == WithoutComment(raw)
      begun == [a EXCEPT !.stack = @ \o NamesOf("begin", line),
                         !.labels = @ \o NamesOf("label", line),
                         !.display = (@ # (Count("dollars", line) % 2 = 1)),
                         !.odd = @ + (Count("dollar", line) % 2)]
  IN  IF a.ended THEN a
      ELSE IF Contains(NamesOf("end", line), "document") THEN [a EXCEPT !.ended = TRUE]
      ELSE FoldLeft(CloseEnv, begun, NamesOf("end", line))

Analyze(lines) == FoldLeft(AnalyzeLine, Analysis, lines)

Markers(lines) ==
  LET a == Analyze(lines)
  IN  [unopened |-> a.unopened,
       unclosed |-> Cardinality({i \in DOMAIN a.stack : a.stack[i] # "document"}),
       inline |-> a.odd, display |-> a.display,
       duplicate |-> {k \in ToSet(a.labels) : \E i, j \in DOMAIN a.labels :
                        i # j /\ a.labels[i] = k /\ a.labels[j] = k},
       noEnd |-> ~a.ended /\ \E i \in DOMAIN lines : Contains(NamesOf("begin", lines[i]), "document")]

-----------------------------------------------------------------------------
(* extractSpellableWords. Of a line only the first \begin and the first    *)
(* \end are looked at, comments included.                                  *)

FirstIn(kind, line, envs) ==
  \E i \in DOMAIN line : /\ Is(kind, line[i]) /\ line[i][2] \in envs
                         /\ \A j \in 1..(i - 1) : ~Is(kind, line[j])

Outside == [verbatim |-> FALSE, depth |-> 0, display |-> FALSE, words |-> {}]

\* Between two dollars of one line words are masked.
Unmasked(line) ==
  LET text == WithoutComment(line)
      Dollars(i) == Count("dollar", SubSeq(text, 1, i - 1))
  IN  {i \in DOMAIN text : /\ Is("word", text[i])
                           /\ Dollars(i) % 2 = 0 \/ Dollars(i) = Count("dollar", text)}

\* Mutant: a nested environment ends the outer one, too.
LeaveMathAtOnce(depth) == 0
LeaveMath(depth) == IF depth = 0 THEN 0 ELSE depth - 1

WordsOfLine(s, n, line) ==
  LET entered == s.depth + IF FirstIn("begin", line, Math) THEN 1 ELSE 0
      depth == IF FirstIn("end", line, Math) THEN LeaveMath(entered) ELSE entered
      display == (s.display # (Count("dollars", WithoutComment(line)) % 2 = 1))
  IN  IF FirstIn("begin", line, Verbatim) THEN [s EXCEPT !.verbatim = TRUE]
      ELSE IF FirstIn("end", line, Verbatim) THEN [s EXCEPT !.verbatim = FALSE]
      ELSE IF s.verbatim THEN s
      ELSE IF depth > 0 THEN [s EXCEPT !.depth = depth]
      ELSE IF display THEN [s EXCEPT !.depth = depth, !.display = TRUE]
      ELSE [s EXCEPT !.depth = depth, !.display = FALSE, !.words = @ \cup ({n} \X Unmasked(line))]

SpellableWords(lines) ==
  LET after[n \in 0..Len(lines)] ==
        IF n = 0 THEN Outside ELSE WordsOfLine(after[n - 1], n, lines[n])
  IN  after[Len(lines)].words

-----------------------------------------------------------------------------
(* parseLatexLog.                                                          *)

\* The file that is open behind the lines: one is opened before one is closed.
Opened(lines) ==
  LET Track(stack, l) ==
        LET pushed == IF l.opens = NoFile THEN stack ELSE Append(stack, l.opens)
        IN  IF l.closes /\ Len(pushed) > 1 THEN Front(pushed) ELSE pushed
  IN  Last(FoldLeft(Track, <<<<"main.tex">>>>, lines))

\* Mutant: the line of the error is looked for from the start of the log.
RefLineFromStart(lines, i) ==
  LET refs == {j \in DOMAIN lines : lines[j].kind = "ref"}
  IN  IF refs = {} THEN 0 ELSE lines[CHOOSE j \in refs : \A k \in refs : j <= k].line
RefLine(lines, i) ==
  LET refs == {j \in (i + 1)..Len(lines) : j <= i + LookAhead /\ lines[j].kind = "ref"}
  IN  IF refs = {} THEN 0 ELSE lines[CHOOSE j \in refs : \A k \in refs : j <= k].line

IssueAt(lines, i) ==
  LET l == lines[i] IN
  CASE l.kind = "place" -> <<[type |-> "error", file |-> l.file, line |-> l.line]>>
    [] l.kind = "error" -> <<[type |-> "error", file |-> Opened(SubSeq(lines, 1, i)),
                              line |-> RefLine(lines, i)]>>
    [] l.kind = "warning" -> <<[type |-> "warning", file |-> Opened(SubSeq(lines, 1, i)), line |-> 0]>>
    [] OTHER -> <<>>

ParseLatexLog(lines) ==
  LET issues == FlattenSeq([i \in DOMAIN lines |-> IssueAt(lines, i)])
  IN  IF Len(issues) <= MaxIssues THEN issues ELSE SubSeq(issues, 1, MaxIssues)

\* resolveLogFilePath: the file itself, the longest path that ends in it, or
\* the first one that has its base name.
Normalized(path) == IF Head(path) = "." THEN Tail(path) ELSE path
ResolveLogFilePath(logPath) ==
  LET path == Normalized(logPath)
      LengthOf(p) == IF p = NoFile THEN 0 ELSE PathLength[p]
      Best(best, p) == IF IsSuffix(path, p) /\ LengthOf(p) > LengthOf(best) THEN p ELSE best
      best == FoldLeft(Best, NoFile, TexPaths)
      named == SelectInSeq(TexPaths, LAMBDA p : Last(p) = Last(path))
  IN  IF Contains(TexPaths, path) THEN path
      ELSE IF best # NoFile THEN best
      ELSE IF named # 0 THEN TexPaths[named] ELSE path

\* Where an issue that has a line leads to.
IssueTarget(issue) == [file |-> ResolveLogFilePath(issue.file), line |-> issue.line]

-----------------------------------------------------------------------------
TextInit == doc = <<<<>>>> /\ log = <<>> /\ issueEditor = EditorOn(<<"main.tex">>)

TokensIn(lines) == Len(FlattenSeq(lines))

TypeToken(t) ==
  /\ TokensIn(doc) < MaxTokens
  /\ doc' = [doc EXCEPT ![Len(doc)] = Append(@, t)]
  /\ UNCHANGED <<log, issueEditor>>
BreakLine ==
  /\ Len(doc) < MaxLines
  /\ doc' = Append(doc, <<>>)
  /\ UNCHANGED <<log, issueEditor>>
\* The log is there before anyone clicks.
LogGrows(l) ==
  /\ doc = <<<<>>>> /\ Len(log) < MaxLog /\ issueEditor.clicks = 0
  /\ log' = Append(log, l)
  /\ UNCHANGED <<doc, issueEditor>>

\* A click on an issue that has no line does nothing.
ClickIssue(issue) ==
  /\ issueEditor.clicks < MaxIssueClicks /\ issue.line > 0
  /\ issueEditor' = Clicked(issueEditor, IssueTarget(issue))
  /\ UNCHANGED <<doc, log>>

IssueTextLoads ==
  /\ TextPending(issueEditor)
  /\ \E line \in LinesLeft(issueEditor) : issueEditor' = TextShown(issueEditor, line)
  /\ UNCHANGED <<doc, log>>
IssueTimer ==
  /\ Waiting(issueEditor) /\ issueEditor' = TimerRanOff(issueEditor)
  /\ UNCHANGED <<doc, log>>

TextNext ==
  \/ log = <<>> /\ (BreakLine \/ \E t \in Tokens : TypeToken(t))
  \/ \E l \in LogLines : LogGrows(l)
  \/ \E issue \in ToSet(ParseLatexLog(log)) : ClickIssue(issue)
  \/ IssueTextLoads \/ IssueTimer

TextSpec == TextInit /\ [][TextNext]_textVars

-----------------------------------------------------------------------------
\* The environment commands of a line, and of a text, up to \end{document}.
EndsDocument(line) == Contains(NamesOf("end", WithoutComment(line)), "document")
BeforeEnd(line) ==
  LET at == SelectInSeq(line, LAMBDA t : t = <<"end", "document">>)
  IN  IF at = 0 THEN line ELSE SubSeq(line, 1, at - 1)
CommandsIn(line) ==
  LET Read(commands, t) == IF t[1] \in {"begin", "end"} /\ t[2] # "document"
                           THEN Append(commands, t) ELSE commands
  IN  FoldLeft(Read, <<>>, BeforeEnd(WithoutComment(line)))
Commands(lines) ==
  LET ends == {i \in DOMAIN lines : EndsDocument(lines[i])}
      last == IF ends = {} THEN Len(lines) ELSE Min(ends)
  IN  FlattenSeq([i \in 1..last |-> CommandsIn(lines[i])])

\* Nesting as LaTeX wants it: each \begin has its \end, with whole pairs between.
WellNested(commands) ==
  \E partner \in [DOMAIN commands -> DOMAIN commands] :
    \A i \in DOMAIN commands :
      /\ partner[partner[i]] = i /\ partner[i] # i
      /\ i < partner[i] =>
           /\ Is("begin", commands[i]) /\ Is("end", commands[partner[i]])
           /\ commands[i][2] = commands[partner[i]][2]
           /\ \A j \in i..partner[i] : partner[j] \in i..partner[i]

Occurrences(kind, env, commands) ==
  Cardinality({i \in DOMAIN commands : Is(kind, commands[i]) /\ commands[i][2] = env})

(* Environments are marked when LaTeX would stumble over them: never in a  *)
(* text whose environments are nested, and always if one is begun more or  *)
(* less often than it is ended; in texts in which no other environment is  *)
(* begun or ended in front of \end{document} on its line, which the code   *)
(* leaves out as a whole. The code: beginStack, where an \end takes the    *)
(* last \begin of its name, with all \begin of a line read first.          *)
LintFitsNesting ==
  LET commands == Commands(doc)
      m == Markers(doc)
      counted == \A env \in {c[2] : c \in ToSet(commands)} :
                   Occurrences("begin", env, commands) = Occurrences("end", env, commands)
  IN  (\A n \in DOMAIN doc : EndsDocument(doc[n]) => CommandsIn(doc[n]) = <<>>) =>
        IF m.unopened + m.unclosed > 0 THEN ~WellNested(commands) ELSE counted

\* Words outside of formulas and verbatim text, read token by token.
ProseWords(lines) ==
  LET Start == [verbatim |-> FALSE, depth |-> 0, display |-> FALSE, inline |-> FALSE,
                commented |-> FALSE, words |-> {}]
      Step(s, line, n, i) ==
        LET k == line[i][1]  name == line[i][2] IN
        IF s.commented THEN s
        ELSE IF s.verbatim THEN [s EXCEPT !.verbatim = ~(k = "end" /\ name \in Verbatim)]
        ELSE IF k = "begin" /\ name \in Verbatim THEN [s EXCEPT !.verbatim = TRUE]
        ELSE IF k = "begin" /\ name \in Math THEN [s EXCEPT !.depth = @ + 1]
        ELSE IF k = "end" /\ name \in Math /\ s.depth > 0 THEN [s EXCEPT !.depth = @ - 1]
        ELSE IF s.depth > 0 THEN s
        ELSE IF k = "comment" THEN [s EXCEPT !.commented = TRUE]
        ELSE IF k = "dollars" THEN [s EXCEPT !.display = ~@]
        ELSE IF k = "dollar" THEN [s EXCEPT !.inline = ~@]
        ELSE IF k = "word" /\ ~s.display /\ ~s.inline THEN [s EXCEPT !.words = @ \cup {<<n, i>>}]
        ELSE s
      line[n \in 0..Len(lines)] ==
        IF n = 0 THEN Start
        ELSE LET in[i \in 0..Len(lines[n])] ==
                   IF i = 0 THEN [line[n - 1] EXCEPT !.commented = FALSE]
                   ELSE Step(in[i - 1], lines[n], n, i)
             IN  in[Len(lines[n])]
  IN  line[Len(lines)].words

(* The words that are checked are those of the prose, in a text where what *)
(* begins or ends a formula or verbatim text has a line of its own and     *)
(* single dollars come in pairs. The code: the modes that                  *)
(* extractSpellableWords keeps from line to line.                          *)
WordsAreProse ==
  LET tidy == \A n \in DOMAIN doc :
        /\ Count("dollar", WithoutComment(doc[n])) % 2 = 0
        /\ (\E t \in ToSet(doc[n]) : t[1] \in {"begin", "end", "dollars"}) => Len(doc[n]) = 1
  IN  tidy => SpellableWords(doc) = ProseWords(doc)

\* The file a log is in behind a line: the last one that was opened and of
\* which no closing parenthesis is left over since.
FileAt(lines, i) ==
  LET Depth(k) == Cardinality({m \in 1..k : lines[m].opens # NoFile}) -
                  Cardinality({m \in 1..k : lines[m].closes})
      within == {j \in 1..i : lines[j].opens # NoFile /\ \A k \in j..i : Depth(k) >= Depth(j)}
  IN  IF within = {} THEN <<"main.tex">> ELSE lines[Max(within)].opens

(* An issue of the log leads to its place: an error that says its file and *)
(* line to these, and another one to the first "l.N" behind it, if that is *)
(* near and no other error is in between, in the file the log is in. It is *)
(* a file of the project whose path ends in that of the log, if there is   *)
(* any. This is for a log in which no line both closes a file and opens    *)
(* one: the code takes the one just opened for closed. An error that has   *)
(* no "l.N" of its own takes that of the next error, and nothing is        *)
(* claimed of it. The cursor gets to the place of the last click if the    *)
(* text of the file is shown when the timer runs off, and is left at       *)
(* another line if it loads longer than 50 ms. The code: parseLatexLog,    *)
(* resolveLogFilePath and the buttons of the issues.                       *)
IssuesArePlaced ==
  LET issues == ParseLatexLog(log)
      Number(i) == Cardinality({k \in 1..i : log[k].kind \in {"error", "warning", "place"}})
      Own(i, j) == j > i /\ j <= i + LookAhead /\ log[j].kind = "ref"
                   /\ \A k \in (i + 1)..(j - 1) : log[k].kind \notin {"ref", "error"}
      Fits(path, logPath) ==
        LET fitting == {p \in ToSet(TexPaths) : IsSuffix(Normalized(logPath), p)}
        IN  IF fitting = {} THEN Last(path) = Last(logPath) ELSE path \in fitting
      Leads(i, file, line) ==
        LET target == IssueTarget(issues[Number(i)])
        IN  Number(i) <= MaxIssues => target.line = line /\ Fits(target.file, file)
  IN  /\ \A i \in DOMAIN log : log[i].kind = "place" => Leads(i, log[i].file, log[i].line)
      /\ (\A k \in DOMAIN log : log[k].closes => log[k].opens = NoFile) =>
           \A i, j \in DOMAIN log : log[i].kind = "error" /\ Own(i, j) =>
             Leads(i, FileAt(log, i), log[j].line)
      /\ Arrived(issueEditor)
=============================================================================
