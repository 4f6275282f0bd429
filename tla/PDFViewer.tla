------------------------------ MODULE PDFViewer ------------------------------
(***************************************************************************)
(* The PDF viewer: one component instance to which its page hands a URL    *)
(* after the other. A document is loaded for each URL, its pages are drawn *)
(* one after the other by an asynchronous function that goes on after its  *)
(* drawing was cancelled, zooming is a gesture that is committed later,    *)
(* and the find bar marks matches in the text layers.                      *)
(*                                                                         *)
(* Scales are numbers on a logarithmic grid, so that a gesture adds to the *)
(* committed scale. Every page has matches for every query. The text layer *)
(* of a page is built in one step with the end of its canvas.              *)
(***************************************************************************)
EXTENDS Integers, FiniteSets

CONSTANTS
  NPdfs,         \* PDFs the viewer is handed; an object URL never comes back
  PageCount,     \* number of pages of each PDF
  MaxPages,      \* no PDF has more pages
  MinScale,      \* the two limits of a scale, 0.25 and 4
  MaxScale,
  Queries,       \* texts to find; "" is none
  MaxDrawings    \* bound on the calls of renderAll that are under way

Pdfs == 1..NPdfs
NoPdf == 0
Scales == MinScale..MaxScale
NoQuery == ""

ASSUME ViewerAssumption ==
  /\ NPdfs \in Nat \ {0} /\ MaxPages \in Nat /\ PageCount \in [Pdfs -> 1..MaxPages]
  /\ MinScale \in Int /\ MaxScale \in Int /\ MinScale <= MaxScale
  /\ NoQuery \in Queries /\ MaxDrawings \in Nat

VARIABLES
  url, loads,              \* the URL, and the loads that are under way
  pdfDoc, alive,           \* pdfDocRef, and the documents not destroyed
  numPages,
  renderScale, cssZoom, displayScale,
  drawings,                \* renderAll calls under way
  canvas, marks,           \* per page: what is drawn, which query is marked
  findQuery, found,        \* the query, and the marks the find bar counts
  redrawn,                 \* history: drawing was started since the document came
  mixed,                   \* history: drawn anew while the document was being drawn
  partial                  \* history: drawn anew or searched while it was being drawn

docVars == <<url, loads, pdfDoc, alive>>
scaleVars == <<renderScale, cssZoom, displayScale>>
findVars == <<findQuery, found>>
viewerHistory == <<redrawn, mixed, partial>>
viewerVars == <<docVars, numPages, scaleVars, drawings, canvas, marks, findVars, viewerHistory>>

PageNumbers == 1..MaxPages

(* The canvas of a page: its picture, the scale it has its size for, and    *)
(* the drawing that set the size, which clears it, and has not finished it. *)
Canvas == [pdf : Pdfs \cup {NoPdf}, scale : Scales \cup {0}, by : 0..MaxDrawings]
Blank == [pdf |-> NoPdf, scale |-> 0, by |-> 0]

(* renderAll keeps the document and the scale it was called with, and has  *)
(* collected "new" marks; "busy" while the canvas of its page is drawn.    *)
Drawing == [n : 1..MaxDrawings, pdf : Pdfs, scale : Scales, pages : PageNumbers,
            page : PageNumbers, busy : BOOLEAN, cancelled : BOOLEAN,
            new : SUBSET (PageNumbers \X Queries)]

ViewerInit ==
  /\ url = 1
  /\ loads = {url} /\ pdfDoc = NoPdf /\ alive = {}
  /\ numPages = 0
  /\ renderScale \in Scales /\ cssZoom = 0 /\ displayScale = renderScale
  /\ drawings = {}
  /\ canvas = [i \in PageNumbers |-> Blank] /\ marks = [i \in PageNumbers |-> NoQuery]
  /\ findQuery = NoQuery /\ found = {} /\ redrawn = FALSE /\ mixed = FALSE /\ partial = FALSE

Cancelled(ds) == {[d EXCEPT !.cancelled = TRUE] : d \in ds}

\* Some drawing of the document is under way.
BeingDrawn == \E d \in drawings : d.pdf = pdfDoc

\* The render effect: renderAll is called for what the refs hold now.
StartDrawing(pdf, pages, scale) ==
  \E n \in 1..MaxDrawings :
    /\ {d.n : d \in drawings} \cap 1..n = 1..(n - 1)
    /\ drawings' = Cancelled(drawings) \cup
         {[n |-> n, pdf |-> pdf, scale |-> scale, pages |-> pages, page |-> 1,
           busy |-> FALSE, cancelled |-> FALSE, new |-> {}]}

\* The effect on findQuery and numPages marks the text layers as they are.
MarkAll(q, pages) ==
  /\ marks' = [i \in PageNumbers |-> IF i <= pages THEN q ELSE marks[i]]
  /\ found' = IF q = NoQuery THEN {} ELSE (1..pages) \X {q}

-----------------------------------------------------------------------------
(* Loading.                                                                *)

\* Mutant: the load of the URL before is not cancelled.
NewUrlKeepsLoad ==
  /\ url < NPdfs /\ url' = url + 1
  /\ loads' = loads \cup {url'}
  /\ alive' = alive \ {pdfDoc} /\ pdfDoc' = NoPdf
  /\ drawings' = Cancelled(drawings)
  /\ UNCHANGED <<numPages, scaleVars, canvas, marks, findVars, viewerHistory>>
(* A new URL: the load before is cancelled, the document destroyed and the *)
(* drawing cancelled. A cancelled load destroys what it gets.              *)
NewUrl ==
  /\ url < NPdfs /\ url' = url + 1
  /\ loads' = {url'}
  /\ alive' = alive \ {pdfDoc} /\ pdfDoc' = NoPdf
  /\ drawings' = Cancelled(drawings)
  /\ UNCHANGED <<numPages, scaleVars, canvas, marks, findVars, viewerHistory>>

(* The document is there. The effects that draw and mark run only when the *)
(* number of pages changes. Drawings that were cancelled got to know it in *)
(* between.                                                                *)
Loaded ==
  /\ \A d \in drawings : ~(d.busy /\ d.cancelled)
  /\ \E pdf \in loads :
    /\ loads' = loads \ {pdf}
    /\ pdfDoc' = pdf /\ alive' = alive \cup {pdf}
    /\ numPages' = PageCount[pdf]
    /\ redrawn' = (numPages' # numPages) /\ mixed' = FALSE /\ partial' = FALSE
    /\ IF numPages' = numPages
       THEN UNCHANGED <<drawings, marks, found>>
       ELSE StartDrawing(pdf, numPages', renderScale) /\ MarkAll(findQuery, numPages')
    /\ canvas' = [i \in PageNumbers |-> IF i <= numPages' THEN canvas[i] ELSE Blank]
    /\ UNCHANGED <<url, scaleVars, findQuery>>

LoadFails ==
  /\ loads # {} /\ loads' = {}
  /\ UNCHANGED <<url, pdfDoc, alive, numPages, scaleVars, drawings, canvas, marks, findVars, viewerHistory>>

-----------------------------------------------------------------------------
(* renderAll.                                                              *)

(* On to the next page; behind the last one the find bar gets the marks    *)
(* that were collected.                                                    *)
LeavePage(d, new) ==
  /\ drawings' = (drawings \ {d}) \cup
       IF d.page = d.pages THEN {}
       ELSE {[d EXCEPT !.page = @ + 1, !.busy = FALSE, !.cancelled = FALSE, !.new = new]}
  /\ found' = IF d.page = d.pages /\ findQuery # NoQuery THEN new ELSE found

\* Somebody draws on the canvas of the page.
Taken(page) == \E e \in drawings : e.busy /\ e.page = page /\ ~e.cancelled

\* getPage fails for a document that was destroyed, which ends the function.
EndDrawing(d) ==
  /\ ~d.busy /\ d.pdf \notin alive
  /\ drawings' = drawings \ {d}
  /\ UNCHANGED <<docVars, numPages, scaleVars, canvas, marks, findVars, viewerHistory>>

(* getPage and render. The canvas gets its size, and is cleared by that,   *)
(* before it refuses a second drawing; the page is left then.              *)
BeginPage(d) ==
  /\ ~d.busy /\ d.pdf \in alive
  /\ canvas' = [canvas EXCEPT ![d.page] = [pdf |-> NoPdf, scale |-> d.scale, by |-> d.n]]
  /\ IF Taken(d.page) THEN LeavePage(d, d.new)
     ELSE /\ drawings' = (drawings \ {d}) \cup {[d EXCEPT !.busy = TRUE, !.cancelled = FALSE]}
          /\ UNCHANGED found
  /\ UNCHANGED <<docVars, numPages, scaleVars, marks, findQuery, viewerHistory>>

\* A drawing that was cancelled goes on with the next page.
SkipPage(d) ==
  /\ d.busy /\ d.cancelled
  /\ LeavePage(d, d.new)
  /\ UNCHANGED <<docVars, numPages, scaleVars, canvas, marks, findQuery, viewerHistory>>

Marked(d) == d.new \cup (IF findQuery = NoQuery THEN {} ELSE {<<d.page, findQuery>>})

\* A canvas that was cleared meanwhile has only what was drawn on it after that.
Drawn(d) ==
  canvas' = [canvas EXCEPT ![d.page].pdf = IF canvas[d.page].by = d.n THEN d.pdf ELSE NoPdf,
                           ![d.page].by = 0]

\* Mutant: the marks are lost with the text layer that is built anew.
FinishPageUnmarked(d) ==
  /\ d.busy /\ ~d.cancelled /\ Drawn(d)
  /\ marks' = [marks EXCEPT ![d.page] = NoQuery]
  /\ LeavePage(d, Marked(d))
  /\ UNCHANGED <<docVars, numPages, scaleVars, findQuery, viewerHistory>>
\* The page is drawn, its text layer is built anew and marked.
FinishPage(d) ==
  /\ d.busy /\ ~d.cancelled /\ Drawn(d)
  /\ marks' = [marks EXCEPT ![d.page] = findQuery]
  /\ LeavePage(d, Marked(d))
  /\ UNCHANGED <<docVars, numPages, scaleVars, findQuery, viewerHistory>>

-----------------------------------------------------------------------------
(* Zooming and searching.                                                  *)

Quiet == loads = {} /\ drawings = {}
Clamp(s) == IF s < MinScale THEN MinScale ELSE IF s > MaxScale THEN MaxScale ELSE s

\* The render effect does nothing before a document is there.
Rescale(s) ==
  /\ renderScale' = s /\ displayScale' = s /\ cssZoom' = 0
  /\ IF s # renderScale /\ numPages > 0 /\ pdfDoc # NoPdf
     THEN /\ StartDrawing(pdfDoc, numPages, s)
          /\ redrawn' = TRUE /\ mixed' = BeingDrawn /\ partial' = BeingDrawn
     ELSE UNCHANGED <<drawings, viewerHistory>>

\* applyScale: the buttons, fit width and fit page.
ApplyScale(s) ==
  /\ Rescale(Clamp(s))
  /\ UNCHANGED <<docVars, numPages, canvas, marks, findVars>>

\* Mutant: a gesture is not clamped to the two limits.
WheelUnclamped(delta) ==
  /\ displayScale' = renderScale + cssZoom + delta
  /\ cssZoom' = displayScale' - renderScale
  /\ UNCHANGED <<docVars, numPages, renderScale, drawings, canvas, marks, findVars, viewerHistory>>
\* Ctrl and the wheel: shown at once, committed when the gesture is over.
Wheel(delta) ==
  /\ displayScale' = Clamp(renderScale + cssZoom + delta)
  /\ cssZoom' = displayScale' - renderScale
  /\ UNCHANGED <<docVars, numPages, renderScale, drawings, canvas, marks, findVars, viewerHistory>>

\* Mutant: the new scale is shown and not drawn.
CommitUndrawn ==
  /\ cssZoom # 0
  /\ renderScale' = renderScale + cssZoom /\ displayScale' = renderScale' /\ cssZoom' = 0
  /\ UNCHANGED <<docVars, numPages, drawings, canvas, marks, findVars, viewerHistory>>
CommitZoom ==
  /\ cssZoom # 0
  /\ Rescale(Clamp(renderScale + cssZoom))
  /\ UNCHANGED <<docVars, numPages, canvas, marks, findVars>>

\* Typing into the find bar; closing it empties the query.
Find(q) ==
  /\ q # findQuery
  /\ findQuery' = q
  /\ MarkAll(q, numPages)
  /\ partial' = BeingDrawn
  /\ UNCHANGED <<docVars, numPages, scaleVars, drawings, canvas, redrawn, mixed>>

ViewerNext ==
  \/ NewUrl \/ Loaded \/ LoadFails
  \/ \E d \in drawings : EndDrawing(d) \/ BeginPage(d) \/ SkipPage(d) \/ FinishPage(d)
  \/ \E s \in Scales : ApplyScale(s)
  \/ \E delta \in {-1, 1} : Wheel(delta)
  \/ CommitZoom
  \/ \E q \in Queries : Find(q)

ViewerSpec == ViewerInit /\ [][ViewerNext]_viewerVars

-----------------------------------------------------------------------------
ViewerTypeOK ==
  /\ url \in Pdfs /\ loads \subseteq Pdfs
  /\ pdfDoc \in Pdfs \cup {NoPdf} /\ alive \subseteq Pdfs
  /\ numPages \in 0..MaxPages
  /\ {renderScale, displayScale, renderScale + cssZoom} \subseteq Scales
  /\ drawings \subseteq Drawing
  /\ canvas \in [PageNumbers -> Canvas]
  /\ marks \in [PageNumbers -> Queries] /\ findQuery \in Queries
  /\ found \subseteq PageNumbers \X Queries
  /\ {redrawn, mixed, partial} \subseteq BOOLEAN

(* However fast URLs follow each other, the viewer holds at most one       *)
(* document that was not destroyed, and it is that of the current URL. The *)
(* code: cancelled, and the two destroy() in the effect on url.            *)
OneDocument == alive = {pdfDoc} \ {NoPdf} /\ pdfDoc \in {NoPdf, url}

(* Once drawing was started, no page shows another document when nothing   *)
(* is under way, although loads and drawings for earlier URLs were; and if  *)
(* the scale was not changed during the drawing, every page is drawn, at    *)
(* the scale of the toolbar. (A new scale makes a second drawing, which     *)
(* clears the pages the first one draws on and leaves them to it.) The      *)
(* code: renderTasksRef, destroy(), and the catch that continues.           *)
RedrawnPagesFit ==
  (Quiet /\ pdfDoc # NoPdf /\ redrawn) =>
    \A i \in 1..numPages :
      /\ canvas[i].pdf \in {url, NoPdf}
      /\ ~mixed /\ cssZoom = 0 => canvas[i] = [pdf |-> url, scale |-> displayScale, by |-> 0]

(* When nothing is under way, every page is marked for the query of the    *)
(* find bar, and the find bar counts the marks that are there, unless the   *)
(* query or the scale was changed during the drawing, whose end replaces    *)
(* the count by what it collected on its way. The code: the marks that      *)
(* renderAll applies again after it built a text layer anew.                *)
MarksFitQuery ==
  (Quiet /\ pdfDoc # NoPdf /\ redrawn) =>
    /\ \A i \in 1..numPages : marks[i] = findQuery
    /\ findQuery = NoQuery => found = {}
    /\ ~partial /\ findQuery # NoQuery => found = (1..numPages) \X {findQuery}
=============================================================================
