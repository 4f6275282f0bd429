------------------------------ MODULE SourceMap ------------------------------
(***************************************************************************)
(* From the PDF back to the source: the SyncTeX data of a compilation, and *)
(* the place in a file that a double click on a page leads to. The text is *)
(* read line by line; here it grows by a line at a time.                   *)
(*                                                                         *)
(* A line is a record: "input" gives a file a number, "content" begins the *)
(* records, "page" begins a page, and "box" is a line of a file at a       *)
(* height. A click is at one of the heights 0..Grid of a page, 0 at the    *)
(* top. What the jump of the editor does is in EditorJump.                 *)
(***************************************************************************)
EXTENDS EditorJump, FiniteSets, SequencesExt

CONSTANTS
  SyncLines,       \* lines of the data
  SyncHeader,      \* the inputs that the data begins with
  SourceNames,     \* base names of .tex files, and those without extension
  Listed,          \* paths of the project's files, as they are listed
  EndsIn,          \* the base names each of the paths ends in
  Grid,            \* heights of a page
  MaxBoxes,        \* bound on the boxes of the data
  MaxClicks        \* bound on the clicks

InputLine == [kind : {"input"}, id : Nat, file : STRING]
SyncLine ==
  InputLine \cup [kind : {"content"}] \cup [kind : {"page"}, page : Nat]
    \cup [kind : {"box"}, id : Nat, line : Nat, v : Int]

ASSUME SourceMapAssumption ==
  /\ Grid \in Nat \ {0} /\ {MaxBoxes, MaxClicks} \subseteq Nat
  /\ SyncLines \subseteq SyncLine /\ SyncHeader \in Seq(InputLine)
  /\ SourceNames \subseteq STRING
  /\ Listed \in Seq(STRING) /\ Listed # <<>> /\ EndsIn \in [ToSet(Listed) -> SUBSET STRING]

VARIABLES
  sync,            \* the lines behind the header that were read
  parser,          \* what parseSyncTeXText has made of them
  pdfEditor        \* the editor that a click leads to

syncVars == <<sync, parser, pdfEditor>>

SyncPages == {l.page : l \in {m \in SyncLines : m.kind = "page"}}

-----------------------------------------------------------------------------
(* parseSyncTeXText.                                                       *)

SourceRecord == [page : Nat, file : SourceNames, line : Nat, v : Int]

\* The last name a number was given, or none.
InputOf(state, id) ==
  LET at == SelectLastInSeq(state.inputs, LAMBDA in : in.id = id)
  IN  IF at = 0 THEN "" ELSE state.inputs[at].file

\* Only records of source files count, behind the first page.
ReadLine(state, l) ==
  CASE l.kind = "input" -> [state EXCEPT !.inputs = Append(@, l)]
    [] l.kind = "content" -> [state EXCEPT !.content = TRUE]
    [] l.kind = "page" /\ state.content -> [state EXCEPT !.page = l.page]
    [] l.kind = "box" /\ state.content /\ state.page > 0 /\ InputOf(state, l.id) \in SourceNames ->
         [state EXCEPT !.records = Append(@, [page |-> state.page, file |-> InputOf(state, l.id),
                                              line |-> l.line, v |-> l.v])]
    [] OTHER -> state

\* The lowest and the highest record of a page.
PageStats(records, page) ==
  LET heights == {r.v : r \in {q \in ToSet(records) : q.page = page}}
  IN  [vMin |-> Min(heights), vMax |-> Max(heights)]

-----------------------------------------------------------------------------
(* findSourceFromClick.                                                    *)

NoSource == [file |-> "", line |-> 0, v |-> 0]

(* The distance of a record, in the scale of its page: the lowest is at    *)
(* the top, the highest at the bottom, and a single height in the middle.  *)
Distance(stats, r, y) ==
  LET range == stats.vMax - stats.vMin
      d == IF range > 0 THEN 2 * (r.v - stats.vMin) * Grid - 2 * y * range ELSE Grid - 2 * y
  IN  IF d < 0 THEN -d ELSE d

\* Mutant: the records of other pages are not left out.
FindSourceAnyPage(records, page, y) ==
  LET stats == PageStats(records, page)
      nearest == {i \in DOMAIN records : \A j \in DOMAIN records :
                    Distance(stats, records[i], y) <= Distance(stats, records[j], y)}
  IN  IF \A i \in DOMAIN records : records[i].page # page THEN NoSource ELSE records[Min(nearest)]
\* Of the nearest records of the page the first one.
FindSource(records, page, y) ==
  LET own == {i \in DOMAIN records : records[i].page = page}
      stats == PageStats(records, page)
      nearest == {i \in own : \A j \in own : Distance(stats, records[i], y) <= Distance(stats, records[j], y)}
  IN  IF own = {} THEN NoSource ELSE records[Min(nearest)]

(* The viewer hands over a height within the page, and the editor opens    *)
(* the first file of the project whose path ends in the name.              *)
ClampToPage(y) == IF y < 0 THEN 0 ELSE IF y > Grid THEN Grid ELSE y
TargetFile(name) ==
  LET at == {i \in DOMAIN Listed : name \in EndsIn[Listed[i]]}
  IN  IF at = {} THEN name ELSE Listed[Min(at)]
SourceOf(page, y) == FindSource(parser.records, page, ClampToPage(y))
PlaceOf(page, y) == [file |-> TargetFile(SourceOf(page, y).file), line |-> SourceOf(page, y).line]

-----------------------------------------------------------------------------
SyncInit ==
  /\ sync = <<>>
  /\ parser = [inputs |-> SyncHeader, page |-> 0, content |-> FALSE, records |-> <<>>]
  /\ pdfEditor = EditorOn(Head(Listed))

\* The data is read before anyone clicks. Only boxes come back.
SyncGrows(l) ==
  /\ pdfEditor.clicks = 0
  /\ IF l.kind = "box" THEN Len(SelectSeq(sync, LAMBDA m : m.kind = "box")) < MaxBoxes
     ELSE ~Contains(sync, l)
  /\ sync' = Append(sync, l)
  /\ parser' = ReadLine(parser, l)
  /\ UNCHANGED pdfEditor

\* handlePDFDoubleClick: nothing happens on a page without records.
DoubleClick(page, y) ==
  /\ pdfEditor.clicks < MaxClicks
  /\ SourceOf(page, y) # NoSource
  /\ pdfEditor' = Clicked(pdfEditor, PlaceOf(page, y))
  /\ UNCHANGED <<sync, parser>>

PdfTextLoads ==
  /\ TextPending(pdfEditor)
  /\ \E line \in LinesLeft(pdfEditor) : pdfEditor' = TextShown(pdfEditor, line)
  /\ UNCHANGED <<sync, parser>>
PdfTimer ==
  /\ Waiting(pdfEditor) /\ pdfEditor' = TimerRanOff(pdfEditor)
  /\ UNCHANGED <<sync, parser>>

SyncNext ==
  \/ \E l \in SyncLines : SyncGrows(l)
  \/ \E page \in SyncPages, y \in (-1)..(Grid + 1) : DoubleClick(page, y)
  \/ PdfTextLoads \/ PdfTimer

SyncSpec == SyncInit /\ [][SyncNext]_syncVars

-----------------------------------------------------------------------------
SyncTypeOK ==
  /\ parser \in [inputs : Seq(InputLine), page : Nat, content : BOOLEAN,
                 records : Seq(SourceRecord)]
  /\ pdfEditor \in Editor(STRING) /\ pdfEditor.clicks <= MaxClicks

(* A click on a record leads to its line in its file, if no other record   *)
(* is at its height; and of two clicks on one page the lower one never     *)
(* leads to a higher record. A click is on a record if it divides the page *)
(* as the record divides the way from the highest record to the lowest:    *)
(* that is where it is printed if the text reaches the edges of the page,  *)
(* since the code knows of no margins. The file is the one of the project, *)
(* if it is the only one whose path ends in the name: domain.tex ends in   *)
(* main.tex, too, and then the first of the list is taken. The cursor gets *)
(* there if the text of the file is shown when the timer of the last click *)
(* runs off; a file that loads longer than 50 ms is left at another line.  *)
(* The code: findSourceFromClick and handlePDFDoubleClick.                 *)
ClickFindsSource ==
  LET Of(page) == {r \in ToSet(parser.records) : r.page = page}
      Alone(r) == \A q \in Of(r.page) : q.v = r.v => q = r
      IsOn(y, r) == \E q, s \in Of(r.page) :
        /\ \A p \in Of(r.page) : q.v <= p.v /\ p.v <= s.v
        /\ (r.v - q.v) * Grid = y * (s.v - q.v)
      EndIn(name) == {i \in DOMAIN Listed : name \in EndsIn[Listed[i]]}
  IN  /\ \A r \in ToSet(parser.records) : \A y \in 0..Grid :
           Alone(r) /\ IsOn(y, r) =>
             /\ PlaceOf(r.page, y).line = r.line
             /\ \A i \in EndIn(r.file) : EndIn(r.file) = {i} => PlaceOf(r.page, y).file = Listed[i]
      /\ \A page \in SyncPages : Of(page) # {} =>
           \A y \in (-1)..Grid : SourceOf(page, y).v <= SourceOf(page, y + 1).v
      /\ Arrived(pdfEditor)
=============================================================================
