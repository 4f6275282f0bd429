------------------------------ MODULE EditorJump ------------------------------
(***************************************************************************)
(* A jump of the editor to a line of a file, as a click on an issue of the *)
(* log and a double click in the PDF ask for it: the page switches to the  *)
(* file at once, and 50 ms later the cursor is put on the line of whatever *)
(* text the editor shows by then. The text of the file is shown when its   *)
(* content has been fetched, which may be sooner or later than that.       *)
(***************************************************************************)
EXTENDS Integers, Sequences

Place(Files) == [file : Files, line : Nat]
Editor(Files) ==
  [opened : Files, shown : Files, timers : Seq(Place(Files)), cursor : Place(Files),
   clicks : Nat, asked : Place(Files), inTime : BOOLEAN]

(* The page: the file that is open, the file whose text the editor shows,  *)
(* the places whose timers run, and the cursor. History: the place asked   *)
(* for last, and whether the text was there when the last timer ran off.   *)
EditorOn(file) ==
  [opened |-> file, shown |-> file, timers |-> <<>>, cursor |-> [file |-> file, line |-> 1],
   clicks |-> 0, asked |-> [file |-> file, line |-> 1], inTime |-> TRUE]

Clicked(editor, place) ==
  [editor EXCEPT !.opened = place.file, !.timers = Append(@, place),
                 !.clicks = @ + 1, !.asked = place]

\* A new text puts the cursor on its first line; the same text leaves it.
TextPending(editor) == editor.shown # editor.opened
TextShown(editor, line) ==
  [editor EXCEPT !.shown = editor.opened, !.cursor = [file |-> editor.opened, line |-> line]]
LinesLeft(editor) == {1, editor.cursor.line}

Waiting(editor) == editor.timers # <<>>
TimerRanOff(editor) ==
  [editor EXCEPT !.timers = Tail(@), !.inTime = (editor.shown = Head(editor.timers).file),
                 !.cursor = [file |-> editor.shown, line |-> Head(editor.timers).line]]

\* The cursor is on the place asked for last, unless a timer still runs or
\* the text came too late.
Arrived(editor) == ~Waiting(editor) /\ editor.inTime => editor.cursor = editor.asked
=============================================================================
