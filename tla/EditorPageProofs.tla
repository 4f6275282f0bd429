--------------------------- MODULE EditorPageProofs ---------------------------
(***************************************************************************)
(* Proofs about the editor page: the binding of its editor to a file, its  *)
(* PDF tab, where CompilePreview decides which URL is shown and PDFViewer  *)
(* draws it, its members, and all its parts side by side, as MCEditorPage  *)
(* has them.                                                               *)
(*                                                                         *)
(* FileBinding, for any pages and files: the types, that an editor shows   *)
(* the shared text of the file that is open, and that what is saved under  *)
(* a path is text of that file, unless the editor was saved unbound. The   *)
(* argument: binding and pending fetch are one thing or none, made for the *)
(* current file, so that switching files, a late answer and a document     *)
(* that is replaced can only destroy it; and text gets into a shared text  *)
(* through a binding only, or from what is stored under its path.          *)
(*                                                                         *)
(* CompilePreview, for any number of jobs, of calls in flight and of       *)
(* object URLs: the types, that the PDF tab shows no URL that was revoked  *)
(* and keeps none it does not show, and that what is shown is that of the  *)
(* last job, or of one that was asked about when the last one came. The    *)
(* argument for the URLs: the PDF of the page, the one of a version and    *)
(* the one a deletion will revoke are never the same URL. For the results: *)
(* every call is about one of these jobs, and a result of the last one     *)
(* that is not shown yet has a call that will fetch it.                    *)
(*                                                                         *)
(* PDFViewer, for any PDFs, pages, scales and queries, and a user who      *)
(* zooms and searches at any time: the types, that one document is held,   *)
(* that no page keeps another document, and that a drawing nobody          *)
(* disturbed ends up on every page and is marked and counted. The          *)
(* argument: only drawings of the document of the URL draw. The others are *)
(* cancelled while they draw, go on to the next page, and find their       *)
(* document destroyed; and a document comes only when none of them draws   *)
(* any more. Each drawing of the document passes every page and clears it. *)
(***************************************************************************)
EXTENDS MCEditorPage, TLAPS

---------------------------------------------------------------------------
(* FileBinding.                                                            *)

\* What was cut was there; and nothing is in a text that is not of its file,
\* unless an unbound editor was saved under its path.
TextSound(text, f, bad) ==
  /\ text.cut \subseteq text.put
  /\ f \notin bad => \A fr \in text.put : fr[1][1] = f
DocSound(doc, bad) == \A f \in Paths : TextSound(doc[f], f, bad)

\* A binding or a fetch, if there is one, is the only one.
OneSetup(page) ==
  /\ page.attached = {} \/ page.fetching = {}
  /\ \A b1, b2 \in page.attached \cup page.fetching : b1 = b2
  /\ \A b \in page.attached \cup page.fetching : b.file = page.file
  /\ page.attached \cup page.fetching # {} => page.mounted

Shows(page) == \A b \in page.attached : page.model = WordsOf(Visible(TextOf(page, b)))

PageSound(page, bad) ==
  page \in Page /\ DocSound(page.doc, bad) /\ DocSound(page.old, bad) /\ OneSetup(page) /\ Shows(page)

TextsOwn ==
  /\ shared \in [Paths -> Text] /\ DocSound(shared, misfiled)
  /\ stored \in [Paths -> SUBSET Words]
  /\ restored \in BOOLEAN /\ misfiled \in SUBSET Paths

BindingInv ==
  /\ TextsOwn
  /\ pages \in [Pages -> Page]
  /\ \A p \in Pages : PageSound(pages[p], misfiled)
  /\ SavedOwnText

---------------------------------------------------------------------------
(* Pages and texts.                                                        *)

\* The fields of a page have their types.
LEMMA PageFields ==
  ASSUME NEW page \in Page
  PROVE  /\ page.visits \in 0..MaxVisits
         /\ page.open \in BOOLEAN /\ page.user \in BOOLEAN /\ page.mounted \in BOOLEAN
         /\ page.late \in BOOLEAN /\ page.role \in {"loading", "editor", "revoked"}
         /\ page.file \in Paths /\ page.model \in SUBSET Words
         /\ page.doc \in [Paths -> Text] /\ page.old \in [Paths -> Text]
         /\ page.attached \in SUBSET Bindings /\ page.fetching \in SUBSET Bindings
BY DEF Page

\* The text of a binding is one of the two documents' texts.
LEMMA TextOfBinding ==
  ASSUME NEW page \in Page, NEW b \in Bindings
  PROVE  /\ b.file \in Paths /\ b.doc \in {"doc", "old"}
         /\ b.doc = "doc" => TextOf(page, b) = page.doc[b.file]
         /\ b.doc = "old" => TextOf(page, b) = page.old[b.file]
         /\ TextOf(page, b) \in Text
         /\ TextOf(page, b).put \in SUBSET Fragments /\ TextOf(page, b).cut \in SUBSET Fragments
<1>1. b.file \in Paths /\ b.doc \in {"doc", "old"}
  BY DEF Bindings
<1>2. page.doc \in [Paths -> Text] /\ page.old \in [Paths -> Text]
  BY PageFields
<1>3. CASE b.doc = "doc"
  <2>1. TextOf(page, b) = page.doc[b.file]
    BY <1>3 DEF TextOf
  <2>2. QED
    BY <1>1, <1>2, <1>3, <2>1 DEF Text
<1>4. CASE b.doc = "old"
  <2>1. TextOf(page, b) = page.old[b.file]
    BY <1>4 DEF TextOf
  <2>2. QED
    BY <1>1, <1>2, <1>4, <2>1 DEF Text
<1>5. QED
  BY <1>1, <1>3, <1>4

\* The words of a text are words.
LEMMA WordsOfText ==
  ASSUME NEW text \in Text
  PROVE  WordsOf(Visible(text)) \in SUBSET Words
BY DEF Text, WordsOf, Visible, Fragments

\* A text of a page that is sound is sound.
LEMMA TextOfSound ==
  ASSUME NEW page, PageSound(page, misfiled), NEW b \in Bindings
  PROVE  TextSound(TextOf(page, b), b.file, misfiled)
BY TextOfBinding DEF PageSound, DocSound

\* Changing the text of a binding changes this text and nothing else.
LEMMA WithTextIs ==
  ASSUME NEW page \in Page, NEW b \in Bindings,
         NEW put \in SUBSET Fragments, NEW cut \in SUBSET Fragments,
         NEW text, text = [put |-> put, cut |-> cut],
         NEW new, new = WithText(page, b, put, cut)
  PROVE  /\ new \in Page
         /\ new.mounted = page.mounted /\ new.file = page.file /\ new.model = page.model
         /\ new.attached = page.attached /\ new.fetching = page.fetching
         /\ TextOf(new, b) = text
         /\ new.doc \in {page.doc, [page.doc EXCEPT ![b.file] = text]}
         /\ new.old \in {page.old, [page.old EXCEPT ![b.file] = text]}
<1>1. text \in Text
  BY DEF Text
<1>2. b.file \in Paths /\ b.doc \in {"doc", "old"}
  BY DEF Bindings
<1>3. CASE b.doc = "doc"
  <2> DEFINE doc == [page.doc EXCEPT ![b.file] = text]
  <2>1. doc \in [Paths -> Text] /\ doc[b.file] = text /\ \A f \in Paths \ {b.file} : doc[f] = page.doc[f]
    BY <1>1, <1>2, PageFields
  <2>2. new = [page EXCEPT !.doc = doc]
    BY <1>3 DEF WithText
  <2> HIDE DEF doc
  <2>3. new \in Page /\ new.doc = doc
    BY <2>1, <2>2 DEF Page
  <2>4. /\ new.mounted = page.mounted /\ new.file = page.file /\ new.model = page.model
        /\ new.attached = page.attached /\ new.fetching = page.fetching /\ new.old = page.old
    BY <2>2 DEF Page
  <2>5. TextOf(new, b) = text
    BY <1>3, <2>1, <2>3, TextOfBinding
  <2>6. QED
    BY <2>3, <2>4, <2>5 DEF doc
<1>4. CASE b.doc = "old"
  <2> DEFINE old == [page.old EXCEPT ![b.file] = text]
  <2>1. old \in [Paths -> Text] /\ old[b.file] = text /\ \A f \in Paths \ {b.file} : old[f] = page.old[f]
    BY <1>1, <1>2, PageFields
  <2>2. new = [page EXCEPT !.old = old]
    BY <1>4 DEF WithText
  <2> HIDE DEF old
  <2>3. new \in Page /\ new.old = old
    BY <2>1, <2>2 DEF Page
  <2>4. /\ new.mounted = page.mounted /\ new.file = page.file /\ new.model = page.model
        /\ new.attached = page.attached /\ new.fetching = page.fetching /\ new.doc = page.doc
    BY <2>2 DEF Page
  <2>5. TextOf(new, b) = text
    BY <1>4, <2>1, <2>3, TextOfBinding
  <2>6. QED
    BY <2>3, <2>4, <2>5 DEF old
<1>5. QED
  BY <1>2, <1>3, <1>4

\* A new document is sound.
LEMMA NewDocSound == NewDoc \in [Paths -> Text] /\ DocSound(NewDoc, misfiled)
BY DEF NewDoc, Text, DocSound, TextSound

\* So is one into which a sound document was merged.
LEMMA MergeSound ==
  ASSUME NEW d1 \in [Paths -> Text], NEW d2 \in [Paths -> Text], DocSound(d1, misfiled), DocSound(d2, misfiled)
  PROVE  Merge(d1, d2) \in [Paths -> Text] /\ DocSound(Merge(d1, d2), misfiled)
<1>1. ASSUME NEW f \in Paths
      PROVE  /\ Merge(d1, d2)[f] = [put |-> d1[f].put \cup d2[f].put, cut |-> d1[f].cut \cup d2[f].cut]
             /\ Merge(d1, d2)[f] \in Text
  BY <1>1 DEF Merge, Text
<1>2. Merge(d1, d2) \in [Paths -> Text]
  BY <1>1 DEF Merge
<1>3. QED
  BY <1>1, <1>2 DEF DocSound, TextSound

\* The fragments that are inserted are those of the words, and new.
LEMMA InsertionIs ==
  ASSUME NEW words \in SUBSET Words, MayInsert(words)
  PROVE  /\ Insertion(words) \in SUBSET Fragments
         /\ WordsOf(Insertion(words)) = words
         /\ \A fr \in Insertion(words) : fr[1] \in words
         /\ \A fr \in Insertion(words), p \in Pages, f \in Paths :
              fr \notin pages[p].doc[f].put /\ fr \notin pages[p].old[f].put
<1> DEFINE number(w) == CHOOSE n \in Unused(w) : TRUE
<1>1. ASSUME NEW w \in words
      PROVE  /\ number(w) \in 1..MaxInserts
             /\ \A p \in Pages, f \in Paths : <<w, number(w)>> \notin pages[p].doc[f].put
             /\ \A p \in Pages, f \in Paths : <<w, number(w)>> \notin pages[p].old[f].put
  <2>1. number(w) \in Unused(w)
    BY DEF MayInsert
  <2> HIDE DEF number
  <2> DEFINE docs == {shared} \cup UNION {{pages[p].doc, pages[p].old} : p \in Pages}
  <2>2. number(w) \in 1..MaxInserts /\ \A d \in docs, f \in Paths : <<w, number(w)>> \notin d[f].put
    BY <2>1 DEF Unused
  <2>3. \A p \in Pages : pages[p].doc \in docs /\ pages[p].old \in docs
    OBVIOUS
  <2> HIDE DEF docs
  <2>4. QED
    BY <2>2, <2>3
<1>2. Insertion(words) = {<<w, number(w)>> : w \in words}
  BY DEF Insertion
<1> HIDE DEF number
<1>3. Insertion(words) \in SUBSET Fragments /\ WordsOf(Insertion(words)) = words
  <2>1. Insertion(words) \in SUBSET Fragments
    BY <1>1, <1>2 DEF Fragments
  <2>2. \A w \in words : <<w, number(w)>> \in Insertion(words) /\ <<w, number(w)>>[1] = w
    BY <1>2
  <2>3. \A fr \in Insertion(words) : fr[1] \in words
    BY <1>2
  <2>4. WordsOf(Insertion(words)) = words
    BY <2>2, <2>3 DEF WordsOf
  <2>5. QED
    BY <2>1, <2>4
<1>4. ASSUME NEW fr \in Insertion(words)
      PROVE  /\ fr[1] \in words
             /\ \A p \in Pages, f \in Paths : fr \notin pages[p].doc[f].put /\ fr \notin pages[p].old[f].put
  <2>1. PICK w \in words : fr = <<w, number(w)>>
    BY <1>2
  <2>2. QED
    BY <1>1, <2>1
<1>5. QED
  BY <1>3, <1>4

\* Documents stay sound when a text becomes one that is.
LEMMA WithTextSound ==
  ASSUME NEW page \in Page, NEW b \in Bindings, DocSound(page.doc, misfiled), DocSound(page.old, misfiled),
         NEW put \in SUBSET Fragments, NEW cut \in SUBSET Fragments,
         NEW text, text = [put |-> put, cut |-> cut], TextSound(text, b.file, misfiled),
         NEW new, new = WithText(page, b, put, cut)
  PROVE  DocSound(new.doc, misfiled) /\ DocSound(new.old, misfiled)
<1>1. /\ new.doc \in {page.doc, [page.doc EXCEPT ![b.file] = text]}
      /\ new.old \in {page.old, [page.old EXCEPT ![b.file] = text]}
  BY WithTextIs
<1>2. ASSUME NEW doc \in [Paths -> Text], DocSound(doc, misfiled)
      PROVE  DocSound([doc EXCEPT ![b.file] = text], misfiled)
  BY <1>2 DEF DocSound
<1>3. QED
  BY <1>1, <1>2, PageFields

---------------------------------------------------------------------------
(* What the effects make of a page.                                        *)

\* A page that is bound to its file is sound.
LEMMA BindSound ==
  ASSUME NEW page \in Page, DocSound(page.doc, misfiled), DocSound(page.old, misfiled),
         NEW b \in Bindings, b.file = page.file, page.mounted,
         page.attached = {}, page.fetching \subseteq {b}
  PROVE  PageSound(Bind(page, b), misfiled)
<1> DEFINE words == WordsOf(Visible(TextOf(page, b)))
           new == Bind(page, b)
<1>1. words \in SUBSET Words
  BY TextOfBinding, WordsOfText
<1>2. new = [page EXCEPT !.fetching = {}, !.attached = {b}, !.model = words]
  BY DEF Bind
<1> HIDE DEF words, new
<1>3. new \in Page
  BY <1>1, <1>2 DEF Page
<1>4. /\ new.fetching = {} /\ new.attached = {b} /\ new.model = words
      /\ new.doc = page.doc /\ new.old = page.old /\ new.file = page.file /\ new.mounted = page.mounted
  BY <1>2 DEF Page
<1>5. TextOf(new, b) = TextOf(page, b)
  BY <1>3, <1>4, TextOfBinding
<1>6. QED
  BY <1>3, <1>4, <1>5 DEF PageSound, OneSetup, Shows, words, new

\* So is a page without binding and fetch.
LEMMA CleanSound ==
  ASSUME NEW page \in Page, DocSound(page.doc, misfiled), DocSound(page.old, misfiled),
         page.attached = {}, page.fetching = {}
  PROVE  PageSound(page, misfiled)
BY DEF PageSound, OneSetup, Shows

\* The per-file effect leaves a sound page, whatever was bound before.
LEMMA SetupSound ==
  ASSUME NEW page \in Page, DocSound(page.doc, misfiled), DocSound(page.old, misfiled)
  PROVE  PageSound(Setup(page), misfiled)
<1> DEFINE clean == Cleanup(page)
           b == [file |-> page.file, doc |-> "doc"]
<1>1. /\ clean \in Page /\ clean.attached = {} /\ clean.fetching = {}
      /\ clean.doc = page.doc /\ clean.old = page.old /\ clean.file = page.file
      /\ clean.mounted = page.mounted
  BY DEF Cleanup, Page
<1>2. b \in Bindings /\ b.file = page.file
  BY PageFields DEF Bindings
<1> HIDE DEF clean, b
<1>3. CASE ~page.mounted
  <2>1. Setup(page) = clean
    BY <1>3 DEF Setup, clean
  <2>2. QED
    BY <1>1, <2>1, CleanSound
<1>4. CASE page.mounted /\ Visible(page.doc[page.file]) = {}
  <2> DEFINE new == [clean EXCEPT !.fetching = @ \cup {b}]
  <2>1. Setup(page) = new
    BY <1>4 DEF Setup, clean, b
  <2>2. new = [clean EXCEPT !.fetching = {b}]
    BY <1>1
  <2> HIDE DEF new
  <2>3. /\ new \in Page /\ new.attached = {} /\ new.fetching = {b}
        /\ new.doc = page.doc /\ new.old = page.old /\ new.file = page.file
        /\ new.mounted = page.mounted
    BY <1>1, <1>2, <2>2 DEF Page
  <2>4. PageSound(new, misfiled)
    BY <1>2, <1>4, <2>3 DEF PageSound, OneSetup, Shows
  <2>5. QED
    BY <2>1, <2>4
<1>5. CASE page.mounted /\ Visible(page.doc[page.file]) # {}
  <2>1. Setup(page) = Bind(clean, b)
    BY <1>5 DEF Setup, clean, b
  <2>2. QED
    BY <1>1, <1>2, <1>5, <2>1, BindSound
<1>6. QED
  BY <1>3, <1>4, <1>5, PageFields

\* An editor that mirrors a changed text shows it.
LEMMA MirrorSound ==
  ASSUME NEW page \in Page, DocSound(page.doc, misfiled), DocSound(page.old, misfiled), OneSetup(page)
  PROVE  PageSound(Mirror(page), misfiled)
<1> DEFINE new == Mirror(page)
<1>1. ASSUME NEW b \in page.attached
      PROVE  ShownModel(page) = WordsOf(Visible(TextOf(page, b)))
  <2>1. page.attached = {b}
    BY <1>1 DEF OneSetup
  <2>2. UNION {Visible(TextOf(page, c)) : c \in page.attached} = Visible(TextOf(page, b))
    BY <2>1
  <2>3. QED
    BY <2>1, <2>2 DEF ShownModel
<1>2. ShownModel(page) \in SUBSET Words
  <2>1. CASE page.attached = {}
    BY <2>1, PageFields DEF ShownModel
  <2>2. ASSUME NEW b \in page.attached PROVE ShownModel(page) \in SUBSET Words
    BY <1>1, <2>2, PageFields, TextOfBinding, WordsOfText
  <2>3. QED
    BY <2>1, <2>2
<1>3. new = [page EXCEPT !.model = ShownModel(page)]
  BY DEF Mirror
<1> HIDE DEF new
<1>4. /\ new \in Page /\ new.model = ShownModel(page)
      /\ new.attached = page.attached /\ new.fetching = page.fetching
      /\ new.doc = page.doc /\ new.old = page.old /\ new.file = page.file
      /\ new.mounted = page.mounted
  BY <1>2, <1>3 DEF Page
<1>5. OneSetup(new)
  BY <1>4 DEF OneSetup
<1>6. ASSUME NEW b \in new.attached
      PROVE  new.model = WordsOf(Visible(TextOf(new, b)))
  <2>1. b \in page.attached /\ b \in Bindings
    BY <1>4, <1>6, PageFields
  <2>2. TextOf(new, b) = TextOf(page, b)
    BY <1>4, <2>1, TextOfBinding
  <2>3. QED
    BY <1>1, <1>4, <2>1, <2>2
<1>7. QED
  BY <1>4, <1>5, <1>6 DEF PageSound, Shows, new

(* Forgetting a document nothing refers to leaves a sound page; the pages  *)
(* of others stay as they are.                                             *)
LEMMA BecomesSound ==
  ASSUME NEW p \in Pages, NEW page, PageSound(page, misfiled), Becomes(p, page),
         pages \in [Pages -> Page], \A q \in Pages : PageSound(pages[q], misfiled)
  PROVE  /\ pages' \in [Pages -> Page]
         /\ \A q \in Pages : PageSound(pages'[q], misfiled)
         /\ pages'[p].role = page.role
<1> DEFINE used == \E b \in page.attached \cup page.fetching : b.doc = "old"
           old == IF used THEN page.old ELSE NewDoc
           new == [page EXCEPT !.old = old]
<1>1. page \in Page /\ DocSound(page.doc, misfiled) /\ DocSound(page.old, misfiled) /\ OneSetup(page) /\ Shows(page)
  BY DEF PageSound
<1>2. old \in [Paths -> Text] /\ DocSound(old, misfiled)
  BY <1>1, PageFields, NewDocSound
<1>3. pages' = [pages EXCEPT ![p] = new]
  BY DEF Becomes
<1>4. used => old = page.old
  OBVIOUS
<1> HIDE DEF used, old
<1>5. /\ new \in Page /\ new.old = old
      /\ new.attached = page.attached /\ new.fetching = page.fetching /\ new.model = page.model
      /\ new.doc = page.doc /\ new.file = page.file /\ new.mounted = page.mounted
      /\ new.role = page.role
  BY <1>1, <1>2 DEF Page
<1> HIDE DEF new
<1>6. ASSUME NEW b \in new.attached
      PROVE  new.model = WordsOf(Visible(TextOf(new, b)))
  <2>1. b \in page.attached /\ b \in Bindings
    BY <1>1, <1>5, <1>6, PageFields
  <2>2. b.doc = "old" => old = page.old
    BY <1>4, <2>1 DEF used
  <2>3. TextOf(new, b) = TextOf(page, b)
    BY <1>1, <1>5, <2>1, <2>2, TextOfBinding
  <2>4. QED
    BY <1>1, <1>5, <2>1, <2>3 DEF Shows
<1>7. OneSetup(new)
  BY <1>1, <1>5 DEF OneSetup
<1>8. PageSound(new, misfiled)
  BY <1>1, <1>2, <1>5, <1>6, <1>7 DEF PageSound, Shows
<1>9. QED
  BY <1>3, <1>5, <1>8

---------------------------------------------------------------------------
(* The steps. Most of them change one page only.                           *)

\* A page that becomes a sound one keeps the invariant.
LEMMA PageStep ==
  ASSUME BindingInv, NEW p \in Pages, NEW page, PageSound(page, misfiled), Becomes(p, page),
         UNCHANGED <<shared, stored, restored, misfiled>>
  PROVE  BindingInv'
BY BecomesSound DEF BindingInv, TextsOwn, SavedOwnText, OwnText

\* What a page of a state with the invariant is like.
LEMMA PageOf ==
  ASSUME BindingInv, NEW p \in Pages
  PROVE  /\ pages[p] \in Page /\ DocSound(pages[p].doc, misfiled) /\ DocSound(pages[p].old, misfiled)
         /\ OneSetup(pages[p]) /\ Shows(pages[p]) /\ PageSound(pages[p], misfiled)
BY DEF BindingInv, PageSound

\* Opening a page, mounting its editor and selecting a file.
LEMMA SelectSteps ==
  ASSUME BindingInv, NEW p \in Pages,
         OpenPage(p) \/ MountEditor(p) \/ \E f \in Paths : SelectFile(p, f)
  PROVE  BindingInv'
<1> DEFINE page == pages[p]
<1>1. page \in Page /\ DocSound(page.doc, misfiled) /\ DocSound(page.old, misfiled) /\ OneSetup(page) /\ Shows(page)
  BY PageOf
<1>2. CASE OpenPage(p)
  <2> DEFINE new == [page EXCEPT !.open = TRUE, !.visits = @ + 1]
  <2>1. page.visits + 1 \in 0..MaxVisits
    BY <1>1, <1>2, PageFields, BindingAssumption DEF OpenPage
  <2>2. new = [page EXCEPT !.open = TRUE, !.visits = page.visits + 1]
    BY <1>1
  <2>3. Becomes(p, new) /\ UNCHANGED <<shared, stored, restored, misfiled>>
    BY <1>2 DEF OpenPage
  <2> HIDE DEF new, page
  <2>4. new \in Page
    BY <1>1, <2>1, <2>2 DEF Page
  <2>5. /\ new.doc = page.doc /\ new.old = page.old /\ new.file = page.file
        /\ new.attached = page.attached /\ new.fetching = page.fetching
        /\ new.mounted = page.mounted /\ new.model = page.model
    BY <1>1, <2>2 DEF Page
  <2>6. OneSetup(new)
    BY <1>1, <2>5 DEF OneSetup
  <2>7. \A b \in new.attached : TextOf(new, b) = TextOf(page, b)
    BY <1>1, <2>4, <2>5, PageFields, TextOfBinding
  <2>8. PageSound(new, misfiled)
    BY <1>1, <2>4, <2>5, <2>6, <2>7 DEF PageSound, Shows
  <2>9. QED
    BY <2>3, <2>8, PageStep
<1>3. CASE MountEditor(p)
  <2> DEFINE new == [page EXCEPT !.mounted = TRUE]
  <2>1. Becomes(p, Setup(new)) /\ UNCHANGED <<shared, stored, restored, misfiled>>
    BY <1>3 DEF MountEditor
  <2>2. new \in Page /\ new.doc = page.doc /\ new.old = page.old
    BY <1>1 DEF Page
  <2> HIDE DEF new, page
  <2>3. PageSound(Setup(new), misfiled)
    BY <1>1, <2>2, SetupSound
  <2>4. QED
    BY <2>1, <2>3, PageStep
<1>4. ASSUME NEW f \in Paths, SelectFile(p, f) PROVE BindingInv'
  <2> DEFINE new == [page EXCEPT !.file = f, !.late = FALSE]
  <2>1. Becomes(p, Setup(new)) /\ UNCHANGED <<shared, stored, restored, misfiled>>
    BY <1>4 DEF SelectFile
  <2>2. new \in Page /\ new.doc = page.doc /\ new.old = page.old
    BY <1>1 DEF Page
  <2> HIDE DEF new, page
  <2>3. PageSound(Setup(new), misfiled)
    BY <1>1, <2>2, SetupSound
  <2>4. QED
    BY <2>1, <2>3, PageStep
<1>5. QED
  BY <1>2, <1>3, <1>4

(* The project effect with the user: there is no binding afterwards, and a *)
(* fetch goes on for the document of before.                               *)
LEMMA UserStep ==
  ASSUME BindingInv, NEW p \in Pages, UserArrives(p)
  PROVE  BindingInv'
<1> DEFINE page == pages[p]
           outdated == {[b EXCEPT !.doc = "old"] : b \in page.fetching}
           new == [page EXCEPT !.user = TRUE, !.attached = {},
                               !.old = page.doc, !.doc = NewDoc,
                               !.fetching = outdated, !.late = page.mounted]
<1>1. page \in Page /\ DocSound(page.doc, misfiled) /\ DocSound(page.old, misfiled) /\ OneSetup(page) /\ Shows(page)
  BY PageOf
<1>2. Becomes(p, [page EXCEPT !.user = TRUE, !.attached = {},
                              !.old = page.doc, !.doc = NewDoc,
                              !.fetching = {[b EXCEPT !.doc = "old"] : b \in @},
                              !.late = page.mounted]) /\ UNCHANGED <<shared, stored, restored, misfiled>>
  BY DEF UserArrives
<1>3. [page EXCEPT !.user = TRUE, !.attached = {}, !.old = page.doc, !.doc = NewDoc,
                   !.fetching = {[b EXCEPT !.doc = "old"] : b \in @}, !.late = page.mounted] = new
  BY <1>1 DEF Page
<1>4. ASSUME NEW b \in page.fetching
      PROVE  /\ [b EXCEPT !.doc = "old"] \in Bindings
             /\ [b EXCEPT !.doc = "old"].file = page.file
  BY <1>1, PageFields DEF Bindings, OneSetup
<1>5. outdated \in SUBSET Bindings /\ \A b \in outdated : b.file = page.file
  BY <1>4
<1>6. \A b1, b2 \in outdated : b1 = b2
  BY <1>1 DEF OneSetup
<1>7. outdated # {} => page.mounted
  BY <1>1 DEF OneSetup
<1> HIDE DEF outdated, page
<1>8. new \in Page
  BY <1>1, <1>5, PageFields, NewDocSound DEF Page
<1>9. /\ new.doc = NewDoc /\ new.old = page.doc /\ new.attached = {} /\ new.fetching = outdated
      /\ new.file = page.file /\ new.mounted = page.mounted
  BY <1>1 DEF Page
<1> HIDE DEF new
<1>10. PageSound(new, misfiled)
  BY <1>1, <1>5, <1>6, <1>7, <1>8, <1>9, NewDocSound DEF PageSound, OneSetup, Shows
<1>11. QED
  BY <1>2, <1>3, <1>10, PageStep DEF page

\* Inserting words of its file into the text of a binding.
LEMMA InsertSound ==
  ASSUME BindingInv, NEW page \in Page, DocSound(page.doc, misfiled), DocSound(page.old, misfiled),
         NEW b \in Bindings, NEW words \in SUBSET Words, MayInsert(words),
         b.file \notin misfiled => \A w \in words : w[1] = b.file,
         NEW new, new = Insert(page, b, words)
  PROVE  /\ new \in Page /\ DocSound(new.doc, misfiled) /\ DocSound(new.old, misfiled)
         /\ new.mounted = page.mounted /\ new.file = page.file /\ new.model = page.model
         /\ new.attached = page.attached /\ new.fetching = page.fetching
         /\ TextOf(new, b) = [put |-> TextOf(page, b).put \cup Insertion(words),
                              cut |-> TextOf(page, b).cut]
<1>0. PICK put, cut, text : /\ put = TextOf(page, b).put \cup Insertion(words)
                            /\ cut = TextOf(page, b).cut
                            /\ text = [put |-> put, cut |-> cut]
  OBVIOUS
<1>1. new = WithText(page, b, put, cut)
  BY <1>0 DEF Insert
<1>2. TextSound(TextOf(page, b), b.file, misfiled)
  BY TextOfBinding DEF DocSound
<1>3. /\ Insertion(words) \in SUBSET Fragments
      /\ \A fr \in Insertion(words) : fr[1] \in words
  BY InsertionIs
<1>4. put \in SUBSET Fragments /\ cut \in SUBSET Fragments
  BY <1>0, <1>3, TextOfBinding
<1>5. TextSound(text, b.file, misfiled)
  <2>1. cut \subseteq put
    BY <1>0, <1>2 DEF TextSound
  <2>2. ASSUME b.file \notin misfiled, NEW fr \in put PROVE fr[1][1] = b.file
    BY <1>0, <1>2, <1>3, <2>2 DEF TextSound
  <2>3. QED
    BY <1>0, <2>1, <2>2 DEF TextSound
<1>6. /\ new \in Page
      /\ new.mounted = page.mounted /\ new.file = page.file /\ new.model = page.model
      /\ new.attached = page.attached /\ new.fetching = page.fetching
      /\ TextOf(new, b) = text
  <2>1. text = [put |-> put, cut |-> cut]
    BY <1>0
  <2>2. QED
    BY <1>1, <1>4, <2>1, WithTextIs
<1>7. DocSound(new.doc, misfiled) /\ DocSound(new.old, misfiled)
  BY <1>0, <1>1, <1>4, <1>5, WithTextSound
<1>8. QED
  BY <1>0, <1>6, <1>7

\* The answer of the fetch, which binds the text.
LEMMA FetchSteps ==
  ASSUME BindingInv, NEW p \in Pages, FetchAnswers(p) \/ FetchFails(p)
  PROVE  BindingInv'
<1> DEFINE page == pages[p]
<1>1. page \in Page /\ DocSound(page.doc, misfiled) /\ DocSound(page.old, misfiled) /\ OneSetup(page) /\ Shows(page)
  BY PageOf
<1>2. ASSUME NEW b \in page.fetching
      PROVE  /\ b \in Bindings /\ b.file = page.file /\ b.file \in Paths /\ page.mounted
             /\ page.attached = {} /\ page.fetching \subseteq {b}
  BY <1>1, <1>2, PageFields DEF OneSetup, Bindings
<1>3. CASE FetchFails(p)
  <2>1. PICK b \in page.fetching : Becomes(p, Bind(page, b))
    BY <1>3 DEF FetchFails
  <2>2. UNCHANGED <<shared, stored, restored, misfiled>>
    BY <1>3 DEF FetchFails
  <2> HIDE DEF page
  <2>3. PageSound(Bind(page, b), misfiled)
    BY <1>1, <1>2, BindSound
  <2>4. QED
    BY <2>1, <2>2, <2>3, PageStep
<1>4. CASE FetchAnswers(p)
  <2>1. PICK b \in page.fetching :
          LET seeds == stored[b.file] # {} /\ Visible(TextOf(page, b)) = {}
          IN  /\ seeds => MayInsert(stored[b.file])
              /\ Becomes(p, Bind(IF seeds THEN Insert(page, b, stored[b.file]) ELSE page, b))
              /\ UNCHANGED <<shared, stored, restored, misfiled>>
    BY <1>4 DEF FetchAnswers
  <2> DEFINE seeds == stored[b.file] # {} /\ Visible(TextOf(page, b)) = {}
             seeded == Insert(page, b, stored[b.file])
  <2>2. UNCHANGED <<shared, stored, restored, misfiled>>
    BY <2>1
  <2>3. CASE seeds
    <3>1. MayInsert(stored[b.file]) /\ Becomes(p, Bind(seeded, b))
      BY <2>1, <2>3
    <3>2. stored[b.file] \in SUBSET Words
      BY <1>2 DEF BindingInv, TextsOwn
    <3>3. b.file \notin misfiled => \A w \in stored[b.file] : w[1] = b.file
      BY <1>2 DEF BindingInv, SavedOwnText, OwnText
    <3>0. seeded = Insert(page, b, stored[b.file])
      OBVIOUS
    <3> HIDE DEF page, seeded
    <3>4. /\ seeded \in Page /\ DocSound(seeded.doc, misfiled) /\ DocSound(seeded.old, misfiled)
          /\ seeded.mounted = page.mounted /\ seeded.file = page.file
          /\ seeded.attached = page.attached /\ seeded.fetching = page.fetching
      BY <1>1, <1>2, <3>0, <3>1, <3>2, <3>3, InsertSound
    <3>5. PageSound(Bind(seeded, b), misfiled)
      BY <1>2, <3>4, BindSound
    <3>6. QED
      BY <2>2, <3>1, <3>5, PageStep
  <2>4. CASE ~seeds
    <3>1. Becomes(p, Bind(page, b))
      BY <2>1, <2>4
    <3> HIDE DEF page
    <3>2. PageSound(Bind(page, b), misfiled)
      BY <1>1, <1>2, BindSound
    <3>3. QED
      BY <2>2, <3>1, <3>2, PageStep
  <2>5. QED
    BY <2>3, <2>4
<1>5. QED
  BY <1>3, <1>4

\* The page and the server come to the same texts.
LEMMA ExchangeStep ==
  ASSUME BindingInv, NEW p \in Pages, Exchange(p)
  PROVE  BindingInv'
<1> DEFINE page == pages[p]
           both == Merge(shared, page.doc)
           new == [page EXCEPT !.doc = both]
<1>1. page \in Page /\ DocSound(page.doc, misfiled) /\ DocSound(page.old, misfiled) /\ OneSetup(page) /\ Shows(page)
  BY PageOf
<1>2. both \in [Paths -> Text] /\ DocSound(both, misfiled)
  BY <1>1, PageFields, MergeSound DEF BindingInv, TextsOwn
<1>3. shared' = both /\ Becomes(p, Mirror(new)) /\ UNCHANGED <<stored, restored, misfiled>>
  BY DEF Exchange
<1> HIDE DEF both, page
<1>4. new \in Page
  BY <1>1, <1>2 DEF Page
<1>5. /\ new.doc = both /\ new.old = page.old /\ new.attached = page.attached
      /\ new.fetching = page.fetching /\ new.file = page.file /\ new.mounted = page.mounted
  BY <1>1 DEF Page
<1> HIDE DEF new
<1>6. PageSound(Mirror(new), misfiled)
  <2>1. OneSetup(new)
    BY <1>1, <1>5 DEF OneSetup
  <2>2. QED
    BY <1>1, <1>2, <1>4, <1>5, <2>1, MirrorSound
<1>7. pages' \in [Pages -> Page] /\ \A q \in Pages : PageSound(pages'[q], misfiled)
  BY <1>3, <1>6, BecomesSound DEF BindingInv
<1>8. TextsOwn'
  BY <1>2, <1>3 DEF BindingInv, TextsOwn
<1>9. SavedOwnText'
  BY <1>3 DEF BindingInv, SavedOwnText, OwnText
<1>10. QED
  BY <1>3, <1>7, <1>8, <1>9 DEF BindingInv

\* Typing goes into the shared text of the binding, or only into the editor.
LEMMA TypeStep ==
  ASSUME BindingInv, NEW p \in Pages, Type(p)
  PROVE  BindingInv'
<1> DEFINE page == pages[p]
           word == <<page.file, p>>
           typed == [page EXCEPT !.model = @ \cup {word}]
<1>1. page \in Page /\ DocSound(page.doc, misfiled) /\ DocSound(page.old, misfiled) /\ OneSetup(page) /\ Shows(page)
  BY PageOf
<1>2. word \in Words /\ word[1] = page.file
  BY <1>1, PageFields DEF Words
<1>3. UNCHANGED <<shared, stored, restored, misfiled>>
  BY DEF Type
<1>4. typed = [page EXCEPT !.model = page.model \cup {word}] /\ page.model \cup {word} \in SUBSET Words
  BY <1>1, <1>2, PageFields
<1>5. /\ typed \in Page /\ typed.model = page.model \cup {word}
      /\ typed.doc = page.doc /\ typed.old = page.old
      /\ typed.attached = page.attached /\ typed.fetching = page.fetching
      /\ typed.file = page.file /\ typed.mounted = page.mounted
  <2> HIDE DEF page, word
  <2>1. QED
    BY <1>1, <1>4 DEF Page
<1>6. CASE page.attached = {}
  <2>1. Becomes(p, typed)
    BY <1>6 DEF Type
  <2> HIDE DEF page, word, typed
  <2>2. OneSetup(typed)
    BY <1>1, <1>5 DEF OneSetup
  <2>3. PageSound(typed, misfiled)
    BY <1>1, <1>5, <1>6, <2>2 DEF PageSound, Shows
  <2>4. QED
    BY <1>3, <2>1, <2>3, PageStep
<1>7. CASE page.attached # {}
  <2>1. PICK b \in page.attached : Becomes(p, Insert(typed, b, {word}))
    BY <1>7 DEF Type
  <2>2. MayInsert({word})
    BY <1>7 DEF Type
  <2> DEFINE new == Insert(typed, b, {word})
             text == TextOf(page, b)
  <2>3. b \in Bindings /\ b.file = page.file
    BY <1>1, PageFields DEF OneSetup
  <2>4. TextOf(typed, b) = text
    <3> HIDE DEF page, typed
    <3>1. QED
      BY <1>1, <1>5, <2>3, TextOfBinding
  <2>5. /\ WordsOf(Insertion({word})) = {word}
        /\ \A fr \in Insertion({word}) : fr \notin page.doc[b.file].put /\ fr \notin page.old[b.file].put
    BY <1>2, <2>2, <2>3, InsertionIs DEF Bindings
  <2> HIDE DEF word
  <2>6. \A fr \in Insertion({word}) : fr \notin text.put
    BY <1>1, <2>3, <2>5, TextOfBinding
  <2>7. text.cut \subseteq text.put
    BY <1>1, <2>3, TextOfBinding DEF DocSound, TextSound
  <2>8. page.model = WordsOf(Visible(text))
    BY <1>1 DEF Shows
  <2> HIDE DEF page, typed
  <2>9. {word} \in SUBSET Words /\ \A w \in {word} : w[1] = b.file
    BY <1>2, <2>3
  <2>10. /\ new \in Page /\ DocSound(new.doc, misfiled) /\ DocSound(new.old, misfiled)
         /\ new.mounted = page.mounted /\ new.file = page.file /\ new.model = page.model \cup {word}
         /\ new.attached = page.attached /\ new.fetching = page.fetching
         /\ TextOf(new, b) = [put |-> text.put \cup Insertion({word}), cut |-> text.cut]
    <3> HIDE DEF new
    <3>1. new = Insert(typed, b, {word})
      BY DEF new
    <3>2. /\ new \in Page /\ DocSound(new.doc, misfiled) /\ DocSound(new.old, misfiled)
          /\ new.mounted = typed.mounted /\ new.file = typed.file /\ new.model = typed.model
          /\ new.attached = typed.attached /\ new.fetching = typed.fetching
          /\ TextOf(new, b) = [put |-> TextOf(typed, b).put \cup Insertion({word}),
                               cut |-> TextOf(typed, b).cut]
      <4>1. PICK words : words = {word}
        OBVIOUS
      <4>2. words \in SUBSET Words /\ MayInsert(words) /\ \A w \in words : w[1] = b.file
        BY <2>2, <2>9, <4>1
      <4>3. new = Insert(typed, b, words)
        BY <3>1, <4>1
      <4>4. DocSound(typed.doc, misfiled) /\ DocSound(typed.old, misfiled) /\ typed \in Page
        BY <1>1, <1>5
      <4>5. /\ new \in Page /\ DocSound(new.doc, misfiled) /\ DocSound(new.old, misfiled)
            /\ new.mounted = typed.mounted /\ new.file = typed.file /\ new.model = typed.model
            /\ new.attached = typed.attached /\ new.fetching = typed.fetching
            /\ TextOf(new, b) = [put |-> TextOf(typed, b).put \cup Insertion(words),
                                 cut |-> TextOf(typed, b).cut]
        BY <2>3, <4>2, <4>3, <4>4, InsertSound
      <4>6. QED
        BY <4>1, <4>5
    <3>3. QED
      BY <1>5, <2>4, <3>2
  <2> HIDE DEF text
  <2>11. Visible(TextOf(new, b)) = Visible(text) \cup Insertion({word})
    BY <2>6, <2>7, <2>10 DEF Visible
  <2> HIDE DEF new
  <2>12. WordsOf(Visible(TextOf(new, b))) = WordsOf(Visible(text)) \cup WordsOf(Insertion({word}))
    BY <2>11 DEF WordsOf
  <2>13. new.model = WordsOf(Visible(TextOf(new, b)))
    BY <2>5, <2>8, <2>10, <2>12
  <2>14. new.attached = {b}
    BY <1>1, <2>10 DEF OneSetup
  <2>15. OneSetup(new)
    BY <1>1, <2>10 DEF OneSetup
  <2>16. PageSound(new, misfiled)
    BY <2>10, <2>13, <2>14, <2>15 DEF PageSound, Shows
  <2>17. QED
    BY <1>3, <2>1, <2>16, PageStep DEF new
<1>8. QED
  BY <1>6, <1>7

\* The role: what is emptied is the editor and the text it is bound to.
LEMMA RoleSteps ==
  ASSUME BindingInv, NEW p \in Pages, RoleArrives(p) \/ AccessRevoked(p)
  PROVE  BindingInv'
<1> DEFINE page == pages[p]
           wiped == [page EXCEPT !.role = "revoked", !.model = {}]
<1>1. page \in Page /\ DocSound(page.doc, misfiled) /\ DocSound(page.old, misfiled) /\ OneSetup(page) /\ Shows(page)
  BY PageOf
<1>2. UNCHANGED <<shared, stored, restored, misfiled>>
  BY DEF RoleArrives, AccessRevoked
<1>3. CASE RoleArrives(p)
  <2> DEFINE new == [page EXCEPT !.role = "editor"]
  <2>1. Becomes(p, new)
    BY <1>3 DEF RoleArrives
  <2> HIDE DEF page
  <2>2. /\ new \in Page /\ new.model = page.model
        /\ new.doc = page.doc /\ new.old = page.old
        /\ new.attached = page.attached /\ new.fetching = page.fetching
        /\ new.file = page.file /\ new.mounted = page.mounted
    BY <1>1 DEF Page
  <2> HIDE DEF new
  <2>3. OneSetup(new)
    BY <1>1, <2>2 DEF OneSetup
  <2>4. \A b \in new.attached : TextOf(new, b) = TextOf(page, b)
    BY <1>1, <2>2, PageFields, TextOfBinding
  <2>5. PageSound(new, misfiled)
    BY <1>1, <2>2, <2>3, <2>4 DEF PageSound, Shows
  <2>6. QED
    BY <1>2, <2>1, <2>5, PageStep
<1>4. /\ wiped \in Page /\ wiped.model = {}
      /\ wiped.doc = page.doc /\ wiped.old = page.old
      /\ wiped.attached = page.attached /\ wiped.fetching = page.fetching
      /\ wiped.file = page.file /\ wiped.mounted = page.mounted
  <2> HIDE DEF page
  <2>1. QED
    BY <1>1 DEF Page
<1>5. OneSetup(wiped)
  BY <1>1, <1>4 DEF OneSetup
<1>6. CASE AccessRevoked(p) /\ page.attached = {}
  <2>1. Becomes(p, wiped)
    BY <1>6 DEF AccessRevoked
  <2>2. PageSound(wiped, misfiled)
    <3> HIDE DEF page, wiped
    <3>1. QED
      BY <1>1, <1>4, <1>5, <1>6 DEF PageSound, Shows
  <2>3. QED
    BY <1>2, <2>1, <2>2, PageStep
<1>7. CASE AccessRevoked(p) /\ page.attached # {}
  <2>1. page.mounted
    BY <1>1, <1>7 DEF OneSetup
  <2>2. PICK b \in page.attached :
          Becomes(p, WithText(wiped, b, TextOf(page, b).put, TextOf(page, b).put))
    BY <1>7, <2>1 DEF AccessRevoked
  <2>3. PICK put, text, new : /\ put = TextOf(page, b).put
                              /\ text = [put |-> put, cut |-> put]
                              /\ new = WithText(wiped, b, put, put)
    OBVIOUS
  <2>4. b \in Bindings /\ b.file = page.file /\ put \in SUBSET Fragments
    BY <1>1, <2>3, PageFields, TextOfBinding DEF OneSetup
  <2>5. TextSound(text, b.file, misfiled)
    BY <1>1, <2>3, <2>4, TextOfBinding DEF DocSound, TextSound
  <2>6. Becomes(p, new)
    BY <2>2, <2>3
  <2> HIDE DEF page, wiped
  <2>7. /\ new \in Page
        /\ new.mounted = page.mounted /\ new.file = page.file /\ new.model = {}
        /\ new.attached = page.attached /\ new.fetching = page.fetching
        /\ TextOf(new, b) = text
    BY <1>4, <2>3, <2>4, WithTextIs
  <2>8. DocSound(new.doc, misfiled) /\ DocSound(new.old, misfiled)
    BY <1>1, <1>4, <2>3, <2>4, <2>5, WithTextSound
  <2>9. new.model = WordsOf(Visible(TextOf(new, b)))
    BY <2>3, <2>7 DEF WordsOf, Visible
  <2>10. new.attached = {b} /\ OneSetup(new)
    BY <1>1, <2>7 DEF OneSetup
  <2>11. PageSound(new, misfiled)
    BY <2>7, <2>8, <2>9, <2>10 DEF PageSound, Shows
  <2>12. QED
    BY <1>2, <2>6, <2>11, PageStep
<1>8. QED
  BY <1>3, <1>6, <1>7

\* Leaving the page.
LEMMA CloseStep ==
  ASSUME BindingInv, NEW p \in Pages, ClosePage(p)
  PROVE  BindingInv'
<1> DEFINE role == IF pages[p].role = "revoked" THEN "revoked" ELSE "loading"
           new == [ClosedPage EXCEPT !.visits = pages[p].visits, !.role = role]
<1>1. /\ ClosedPage \in Page /\ ClosedPage.attached = {} /\ ClosedPage.fetching = {}
      /\ ClosedPage.doc = NewDoc /\ ClosedPage.old = NewDoc /\ ClosedPage.role = "loading"
  BY NewDocSound, BindingAssumption DEF ClosedPage, Page
<1>2. Becomes(p, new) /\ UNCHANGED <<shared, stored, restored, misfiled>>
  BY <1>1 DEF ClosePage
<1>3. pages[p].visits \in 0..MaxVisits /\ role \in {"loading", "editor", "revoked"}
  BY PageOf, PageFields
<1> HIDE DEF role
<1>4. /\ new \in Page /\ new.doc = NewDoc /\ new.old = NewDoc
      /\ new.attached = {} /\ new.fetching = {}
  BY <1>1, <1>3 DEF Page
<1> HIDE DEF new
<1>5. PageSound(new, misfiled)
  BY <1>4, CleanSound, NewDocSound
<1>6. QED
  BY <1>2, <1>5, PageStep

\* Saving and restoring change what the backend keeps.
LEMMA StoreSteps ==
  ASSUME BindingInv, NEW p \in Pages, Save(p) \/ Restore(p)
  PROVE  BindingInv'
<1> DEFINE page == pages[p]
<1>1. page \in Page /\ DocSound(page.doc, misfiled) /\ DocSound(page.old, misfiled) /\ OneSetup(page) /\ Shows(page)
  BY PageOf
<1>2. UNCHANGED <<shared, pages>> /\ restored' \in BOOLEAN
  BY DEF Save, Restore, BindingInv, TextsOwn
<1>3. CASE Save(p)
  <2>1. /\ stored' = [stored EXCEPT ![page.file] = page.model]
        /\ misfiled' = misfiled \cup (IF page.attached = {} THEN {page.file} ELSE {})
    BY <1>3 DEF Save
  <2> HIDE DEF page
  <2>2. stored' \in [Paths -> SUBSET Words] /\ misfiled' \in SUBSET Paths
    BY <1>1, <2>1, PageFields DEF BindingInv, TextsOwn
  <2>3. ASSUME page.file \notin misfiled', NEW w \in page.model PROVE w[1] = page.file
    <3>1. PICK b \in page.attached : page.file \notin misfiled
      BY <2>1, <2>3
    <3>2. b \in Bindings /\ b.file = page.file /\ page.model = WordsOf(Visible(TextOf(page, b)))
      BY <1>1, PageFields DEF OneSetup, Shows
    <3>3. TextSound(TextOf(page, b), b.file, misfiled)
      BY <1>1, <3>2, TextOfBinding DEF DocSound
    <3>4. PICK fr \in TextOf(page, b).put : w = fr[1]
      BY <2>3, <3>2 DEF WordsOf, Visible
    <3>5. QED
      BY <2>3, <3>1, <3>2, <3>3, <3>4 DEF TextSound
  <2>4. SavedOwnText'
    <3>1. ASSUME NEW f \in Paths \ misfiled', NEW w \in stored'[f] PROVE w[1] = f
      BY <2>1, <2>3, <3>1 DEF BindingInv, TextsOwn, SavedOwnText, OwnText
    <3>2. QED
      BY <3>1 DEF SavedOwnText, OwnText
  <2>5. \A doc : DocSound(doc, misfiled) => DocSound(doc, misfiled')
    BY <2>1 DEF DocSound, TextSound
  <2>6. ASSUME NEW q \in Pages PROVE PageSound(pages'[q], misfiled')
    <3>1. PageSound(pages[q], misfiled) /\ pages'[q] = pages[q]
      BY <1>2 DEF BindingInv
    <3>2. QED
      BY <2>5, <3>1 DEF PageSound
  <2>7. TextsOwn'
    BY <1>2, <2>2, <2>5 DEF BindingInv, TextsOwn
  <2>8. QED
    BY <1>2, <2>4, <2>6, <2>7 DEF BindingInv
<1>4. CASE Restore(p)
  <2>1. stored' = [f \in Paths |-> {<<f, "version">>}] /\ misfiled' = misfiled
    BY <1>4 DEF Restore
  <2>2. stored' \in [Paths -> SUBSET Words] /\ SavedOwnText'
    BY <2>1 DEF Words, SavedOwnText, OwnText
  <2>3. QED
    BY <1>2, <2>1, <2>2 DEF BindingInv, TextsOwn
<1>5. QED
  BY <1>3, <1>4

---------------------------------------------------------------------------
\* The invariant holds in every state.
THEOREM BindingInvariant == BindingSpec => []BindingInv
<1>1. ASSUME BindingInit PROVE BindingInv
  <2>1. PICK held \in {{}, Paths} :
          shared = [f \in Paths |-> [put |-> IF f \in held THEN {<<<<f, "file">>, 1>>} ELSE {}, cut |-> {}]]
    BY <1>1 DEF BindingInit
  <2> DEFINE text(f) == [put |-> IF f \in held THEN {<<<<f, "file">>, 1>>} ELSE {}, cut |-> {}]
  <2>2. ASSUME NEW f \in Paths
        PROVE  text(f) \in Text /\ TextSound(text(f), f, misfiled)
    <3> DEFINE fragment == <<<<f, "file">>, 1>>
    <3>1. fragment \in Fragments /\ fragment[1][1] = f
      BY BindingAssumption DEF Fragments, Words
    <3>2. text(f) = [put |-> IF f \in held THEN {fragment} ELSE {}, cut |-> {}]
      OBVIOUS
    <3> HIDE DEF fragment, text
    <3>3. QED
      BY <3>1, <3>2 DEF Text, TextSound
  <2>3. shared \in [Paths -> Text] /\ DocSound(shared, misfiled)
    <3>1. shared = [f \in Paths |-> text(f)]
      BY <2>1
    <3> HIDE DEF text
    <3>2. QED
      BY <2>2, <3>1 DEF DocSound
  <2>4. stored \in [Paths -> SUBSET Words] /\ SavedOwnText /\ restored \in BOOLEAN /\ misfiled = {}
    <3>1. stored = [f \in Paths |-> {<<f, "file">>}] /\ restored = FALSE /\ misfiled = {}
      BY <1>1 DEF BindingInit
    <3>2. \A f \in Paths : {<<f, "file">>} \in SUBSET Words
      BY DEF Words
    <3>3. stored \in [Paths -> SUBSET Words]
      BY <3>1, <3>2
    <3>4. SavedOwnText
      BY <3>1 DEF SavedOwnText, OwnText
    <3>5. QED
      BY <3>1, <3>3, <3>4
  <2>5. PageSound(ClosedPage, misfiled)
    <3>1. /\ ClosedPage \in Page /\ ClosedPage.attached = {} /\ ClosedPage.fetching = {}
          /\ ClosedPage.doc = NewDoc /\ ClosedPage.old = NewDoc
      BY NewDocSound, BindingAssumption DEF ClosedPage, Page
    <3>2. QED
      BY <3>1, CleanSound, NewDocSound
  <2>6. pages = [p \in Pages |-> ClosedPage]
    BY <1>1 DEF BindingInit
  <2>7. pages \in [Pages -> Page] /\ \A p \in Pages : PageSound(pages[p], misfiled)
    BY <2>5, <2>6 DEF PageSound
  <2>8. QED
    BY <2>3, <2>4, <2>7 DEF BindingInv, TextsOwn
<1>2. BindingInv /\ [BindingNext]_bindingVars => BindingInv'
  <2> SUFFICES ASSUME BindingInv, [BindingNext]_bindingVars PROVE BindingInv'
    OBVIOUS
  <2>1. ASSUME NEW p \in Pages,
               \/ OpenPage(p) \/ UserArrives(p) \/ MountEditor(p) \/ ClosePage(p)
               \/ \E f \in Paths : SelectFile(p, f)
               \/ FetchAnswers(p) \/ FetchFails(p)
               \/ Exchange(p) \/ Type(p)
               \/ RoleArrives(p) \/ AccessRevoked(p)
               \/ Save(p) \/ Restore(p)
        PROVE  BindingInv'
    BY <2>1, SelectSteps, UserStep, FetchSteps, ExchangeStep, TypeStep, RoleSteps, CloseStep, StoreSteps
  <2>2. CASE UNCHANGED bindingVars
    BY <2>2 DEF bindingVars, BindingInv, TextsOwn, SavedOwnText, OwnText
  <2>3. QED
    BY <2>1, <2>2 DEF BindingNext
<1>3. QED
  BY <1>1, <1>2, PTL DEF BindingSpec

(* Every variable of the editor binding keeps its type. The code: the refs *)
(* and the Yjs document of the two effects of EditorPage.                  *)
THEOREM BindingTypesCorrect == BindingSpec => []BindingTypeOK
<1>1. BindingInv => BindingTypeOK
  BY DEF BindingInv, TextsOwn, BindingTypeOK
<1>2. QED
  BY <1>1, BindingInvariant, PTL

(* On any number of pages, an editor that is bound is bound once, to the   *)
(* file that is open, and shows its shared text. The code: cancelled and   *)
(* bindingRef in the per-file effect.                                      *)
THEOREM EditorsShowTheirFile == BindingSpec => []EditorShowsFile
<1>1. ASSUME BindingInv PROVE EditorShowsFile
  <2>1. ASSUME NEW p \in Pages, NEW b \in pages[p].attached
        PROVE  /\ b.file = pages[p].file /\ pages[p].attached = {b}
               /\ pages[p].model = WordsOf(Visible(TextOf(pages[p], b)))
    BY <1>1, PageOf DEF OneSetup, Shows
  <2>2. QED
    BY <2>1 DEF EditorShowsFile
<1>2. QED
  BY <1>1, BindingInvariant, PTL

(* No file whose path was never saved from an unbound editor has text of   *)
(* another file stored or shared under it, however many pages edit, switch *)
(* and save whichever files, and however late their fetches answer. The    *)
(* code: saveFile, which reads path and editor by themselves.              *)
THEOREM SavesAreOfTheFile == BindingSpec => []SavedOwnText
<1>1. BindingInv => SavedOwnText
  BY DEF BindingInv
<1>2. QED
  BY <1>1, BindingInvariant, PTL

---------------------------------------------------------------------------
(* CompilePreview.                                                         *)

\* createJob is called only for a job there is room for.
RoomForJob == jobs + creating <= NJobs

UrlsApart ==
  /\ urls \subseteq 1..urlCount /\ orphans \subseteq urls
  /\ pdfUrl # 0 => pdfUrl \in urls /\ pdfUrl # historyUrl /\ pdfUrl # doomed
  /\ historyUrl # 0 => historyUrl \in urls
  /\ {pdfUrl, historyUrl, doomed} \cap orphans = {}
  /\ urls = ({pdfUrl, historyUrl} \ {0}) \cup orphans
  /\ doomed <= urlCount
  /\ (pdfUrl = 0) = (pdfJob = 0)

Candidates == {jobs} \cup late
Fetching(j, for) == \E c \in calls : c.job = j /\ c.waits = for
Ended(j) == outcome[j] \in {"completed", "failed"}

\* Which jobs are asked about, and when.
AsksCandidates ==
  /\ late \subseteq 1..jobs /\ failed \subseteq 0..jobs /\ polling \subseteq 1..jobs /\ polling \subseteq Candidates
  /\ \A c \in calls : c.job \in Candidates /\ c.job <= jobs
  /\ \A c \in calls : c.waits # "status" => c.job \notin polling /\ Ended(c.job)
  /\ \A c \in calls : c.waits \in {"artifact", "synctex"} => outcome[c.job] = "completed"

\* What is shown may be shown when the last job came last.
PdfFits == \E j \in Candidates : Ended(j) /\ pdfJob = PdfAfter(j)

\* A result of the last job that is not shown yet is being fetched.
ResultsComing ==
  (jobs > 0 /\ jobs \notin failed /\ jobs \notin polling) =>
    /\ Ended(jobs)
    /\ outcome[jobs] = "completed" =>
         \/ Fetching(jobs, "artifact")
         \/ /\ PdfFits
            /\ logsJob \in Candidates \/ Fetching(jobs, "logs") \/ creating > 0
            /\ syncJob \in Candidates \cup {0} \/ Fetching(jobs, "synctex")
    /\ outcome[jobs] = "failed" =>
         PdfFits /\ (logsJob \in Candidates \/ Fetching(jobs, "logs") \/ creating > 0)

PreviewInv ==
  /\ PreviewTypeOK /\ RoomForJob /\ UrlsApart
  /\ AsksCandidates /\ ResultsComing

---------------------------------------------------------------------------
\* Every step keeps the types, and starts a job only where there is room.
LEMMA PreviewTypesStay ==
  ASSUME PreviewTypeOK, RoomForJob, [PreviewNext]_previewVars
  PROVE  PreviewTypeOK' /\ RoomForJob'
<1> USE PreviewAssumption DEF PreviewTypeOK, RoomForJob, CompileJobs, Calls, Urls
<1>1. CASE StartCompile
  BY <1>1 DEF StartCompile, MayCompile, jobVars, urlVars, shownVars, histVars
<1>2. CASE Created
  <2>1. jobs + 1 \in CompileJobs /\ jobs' \in 0..NJobs
    BY <1>2 DEF Created
  <2>2. outcome' \in [CompileJobs -> {"none", "running", "completed", "failed"}]
    BY <1>2 DEF Created
  <2>3. late' \subseteq 0..NJobs
    <3>1. \A c \in calls : c.job \in 0..NJobs
      OBVIOUS
    <3>2. polling \subseteq 0..NJobs
      OBVIOUS
    <3>3. late' = Asked
      BY <1>2 DEF Created
    <3>4. QED
      BY <3>1, <3>2, <3>3 DEF Asked
  <2>4. polling' \subseteq CompileJobs /\ creating' \in 0..NJobs /\ jobs' + creating' <= NJobs
    BY <1>2, <2>1 DEF Created
  <2>5. UNCHANGED <<compiling, calls, pdfUrl, historyUrl, urls, urlCount,
                    pdfJob, logsJob, syncJob, doomed, failed, orphans>>
    BY <1>2 DEF Created, urlVars, shownVars
  <2>6. QED
    BY <2>1, <2>2, <2>3, <2>4, <2>5
<1>3. CASE CreateFails
  <2>0. failed \subseteq 0..NJobs /\ jobs \in 0..NJobs
    OBVIOUS
  <2>1. creating' \in 0..NJobs /\ compiling' \in BOOLEAN /\ jobs' + creating' <= NJobs
    <3>1. creating' = creating - 1 /\ creating > 0 /\ compiling' = FALSE /\ jobs' = jobs
      BY <1>3 DEF CreateFails
    <3>2. jobs \in 0..NJobs /\ creating \in 0..NJobs /\ jobs + creating <= NJobs /\ NJobs \in Nat
      OBVIOUS
    <3>3. creating' \in 0..NJobs /\ jobs' + creating' <= NJobs
      BY <3>1, <3>2
    <3>4. QED
      BY <3>1, <3>3
  <2>2. UNCHANGED <<outcome, jobs, polling, calls, pdfUrl, historyUrl, urls, urlCount,
                    pdfJob, logsJob, syncJob, doomed, late, orphans>>
    BY <1>3 DEF CreateFails, urlVars, shownVars
  <2>3. failed' \subseteq 0..NJobs
    <3>1. failed' = failed \cup {jobs}
      BY <1>3 DEF CreateFails
    <3>2. QED
      BY <2>0, <3>1
  <2>4. QED
    BY <2>1, <2>2, <2>3
<1>4. ASSUME NEW j \in CompileJobs, JobSettles(j) PROVE PreviewTypeOK' /\ RoomForJob'
  BY <1>4 DEF JobSettles, jobVars, urlVars, shownVars, histVars
<1>5. ASSUME NEW j \in CompileJobs, Tick(j) PROVE PreviewTypeOK' /\ RoomForJob'
  <2>1. calls' \subseteq Calls
    BY <1>5 DEF Tick, Free
  <2>2. UNCHANGED <<outcome, compiling, creating, jobs, polling, pdfUrl, historyUrl, urls, urlCount,
                    pdfJob, logsJob, syncJob, doomed, late, failed, orphans>>
    BY <1>5 DEF Tick, urlVars, shownVars, histVars
  <2>3. QED
    BY <2>1, <2>2
<1>6. ASSUME NEW c \in calls, StillRunning(c) PROVE PreviewTypeOK' /\ RoomForJob'
  BY <1>6 DEF StillRunning, Waiting, Continue, jobVars, urlVars, shownVars, histVars
<1>7. ASSUME NEW c \in calls, SaysCompleted(c) PROVE PreviewTypeOK' /\ RoomForJob'
  BY <1>7 DEF SaysCompleted, Waiting, Continue, jobVars, urlVars, shownVars, histVars
<1>8. ASSUME NEW c \in calls, SaysFailed(c) PROVE PreviewTypeOK' /\ RoomForJob'
  <2>1. [c EXCEPT !.waits = "logs"] \in Calls
    OBVIOUS
  <2>2. calls' \subseteq Calls /\ polling' \subseteq CompileJobs
    BY <1>8, <2>1 DEF SaysFailed, Continue
  <2>3. urls' \subseteq Urls /\ urlCount' \in Urls /\ pdfUrl' \in Urls
    BY <1>8 DEF SaysFailed, ReplaceUrl
  <2>4. ({pdfUrl, historyUrl, urlCount, doomed} \cup urls \cup orphans)' \subseteq Urls
    BY <1>8, <2>3 DEF SaysFailed, histVars
  <2>5. ({pdfJob, logsJob, syncJob} \cup late \cup failed)' \subseteq 0..NJobs
    BY <1>8 DEF SaysFailed, histVars
  <2>6. (compiling \in BOOLEAN /\ creating \in 0..NJobs)'
    BY <1>8 DEF SaysFailed
  <2>7. outcome' = outcome /\ jobs' = jobs /\ creating' = creating
    BY <1>8 DEF SaysFailed
  <2>8. QED
    BY <2>2, <2>4, <2>5, <2>6, <2>7
<1>9. ASSUME NEW c \in calls, StatusFails(c) PROVE PreviewTypeOK' /\ RoomForJob'
  <2>1. calls' \subseteq Calls
    BY <1>9 DEF StatusFails, Waiting, Continue
  <2>2. c.job \in 0..NJobs
    OBVIOUS
  <2>3. failed' \subseteq 0..NJobs /\ polling' \subseteq CompileJobs /\ compiling' \in BOOLEAN
    BY <1>9, <2>2 DEF StatusFails
  <2>4. UNCHANGED <<outcome, creating, jobs, pdfUrl, historyUrl, urls, urlCount,
                    pdfJob, logsJob, syncJob, doomed, late, orphans>>
    BY <1>9 DEF StatusFails, urlVars, shownVars
  <2>5. QED
    BY <2>1, <2>3, <2>4
<1>10. ASSUME NEW c \in calls, ArtifactArrives(c) PROVE PreviewTypeOK' /\ RoomForJob'
  <2>1. calls' \subseteq Calls
    BY <1>10 DEF ArtifactArrives, Waiting, Continue
  <2>2. urls' \subseteq Urls /\ urlCount' \in Urls /\ pdfUrl' \in Urls /\ pdfJob' \in 0..NJobs
    BY <1>10 DEF ArtifactArrives, ReplaceUrl
  <2>3. UNCHANGED <<outcome, compiling, creating, jobs, polling, historyUrl, logsJob, syncJob, doomed,
                    late, failed, orphans>>
    BY <1>10 DEF ArtifactArrives, histVars
  <2>4. QED
    BY <2>1, <2>2, <2>3
<1>11. ASSUME NEW c \in calls, ArtifactFails(c) PROVE PreviewTypeOK' /\ RoomForJob'
  <2>1. calls' \subseteq Calls
    BY <1>11 DEF ArtifactFails, Waiting, Continue
  <2>2. c.job \in 0..NJobs
    OBVIOUS
  <2>3. failed' \subseteq 0..NJobs /\ polling' \subseteq CompileJobs /\ compiling' \in BOOLEAN
    BY <1>11, <2>2 DEF ArtifactFails
  <2>4. UNCHANGED <<outcome, creating, jobs, pdfUrl, historyUrl, urls, urlCount,
                    pdfJob, logsJob, syncJob, doomed, late, orphans>>
    BY <1>11 DEF ArtifactFails, urlVars, shownVars
  <2>5. QED
    BY <2>1, <2>3, <2>4
<1>12. ASSUME NEW c \in calls, LogsArrive(c) PROVE PreviewTypeOK' /\ RoomForJob'
  BY <1>12 DEF LogsArrive, Waiting, Continue, jobVars, urlVars, shownVars, histVars
<1>13. ASSUME NEW c \in calls, SyncTeXArrives(c) PROVE PreviewTypeOK' /\ RoomForJob'
  BY <1>13 DEF SyncTeXArrives, Waiting, Continue, jobVars, urlVars, shownVars, histVars
<1>14. CASE ViewVersion
  <2>1. urls' \subseteq Urls /\ urlCount' \in Urls /\ historyUrl' \in Urls
    BY <1>14 DEF ViewVersion
  <2>2. QED
    BY <1>14, <2>1 DEF ViewVersion, jobVars, urlVars, shownVars, histVars
<1>15. CASE BackToCurrent
  BY <1>15 DEF BackToCurrent, jobVars, urlVars, shownVars, histVars
<1>16. CASE AskDeletion
  BY <1>16 DEF AskDeletion, jobVars, urlVars, shownVars, histVars
<1>17. CASE DeletionDone
  BY <1>17 DEF DeletionDone, NoDeletion, jobVars, urlVars, shownVars, histVars
<1>18. CASE DeletionFails
  BY <1>18 DEF DeletionFails, NoDeletion, jobVars, urlVars, shownVars, histVars
<1>19. CASE UNCHANGED previewVars
  BY <1>19 DEF previewVars, jobVars, urlVars, shownVars, histVars
<1>20. QED
  BY <1>1, <1>2, <1>3, <1>4, <1>5, <1>6, <1>7, <1>8, <1>9, <1>10, <1>11, <1>12, <1>13, <1>14, <1>15, <1>16, <1>17, <1>18, <1>19 DEF PreviewNext, Answer

---------------------------------------------------------------------------
\* A URL that is new is none of the others, and one that is revoked is not shown.
LEMMA UrlsStayApart ==
  ASSUME PreviewTypeOK, UrlsApart, [PreviewNext]_previewVars
  PROVE  UrlsApart'
<1> USE PreviewAssumption DEF PreviewTypeOK, UrlsApart, Urls, NoDeletion
<1>1. CASE StartCompile
  BY <1>1 DEF StartCompile, MayCompile, jobVars, urlVars, shownVars, histVars
<1>2. CASE Created
  BY <1>2 DEF Created, jobVars, urlVars, shownVars, histVars
<1>3. CASE CreateFails
  BY <1>3 DEF CreateFails, jobVars, urlVars, shownVars, histVars
<1>4. ASSUME NEW j \in CompileJobs, JobSettles(j) PROVE UrlsApart'
  BY <1>4 DEF JobSettles, jobVars, urlVars, shownVars, histVars
<1>5. ASSUME NEW j \in CompileJobs, Tick(j) PROVE UrlsApart'
  BY <1>5 DEF Tick, jobVars, urlVars, shownVars, histVars
<1>6. ASSUME NEW c \in calls, StillRunning(c) PROVE UrlsApart'
  BY <1>6 DEF StillRunning, Waiting, Continue, jobVars, urlVars, shownVars, histVars
<1>7. ASSUME NEW c \in calls, SaysCompleted(c) PROVE UrlsApart'
  BY <1>7 DEF SaysCompleted, Waiting, Continue, jobVars, urlVars, shownVars, histVars
<1>8. ASSUME NEW c \in calls, SaysFailed(c) PROVE UrlsApart'
  BY <1>8 DEF SaysFailed, Waiting, Continue, ReplaceUrl, jobVars, urlVars, shownVars, histVars
<1>9. ASSUME NEW c \in calls, StatusFails(c) PROVE UrlsApart'
  BY <1>9 DEF StatusFails, Waiting, Continue, jobVars, urlVars, shownVars, histVars
<1>10. ASSUME NEW c \in calls, ArtifactArrives(c) PROVE UrlsApart'
  <2> DEFINE new == urlCount + 1
  <2>1. /\ urlCount' = new /\ urls' = (urls \ {pdfUrl}) \cup {new} /\ pdfUrl' = new
        /\ pdfJob' = c.job /\ UNCHANGED <<historyUrl, doomed, orphans>>
    BY <1>10 DEF ArtifactArrives, ReplaceUrl, histVars
  <2>2. new \notin urls /\ new # doomed /\ new # historyUrl /\ new > 0
    OBVIOUS
  <2>3. c.job # 0
    BY DEF Calls, CompileJobs
  <2>4. pdfUrl \notin orphans /\ (pdfUrl # historyUrl \/ pdfUrl = 0)
    OBVIOUS
  <2>5. urls' = ({pdfUrl', historyUrl'} \ {0}) \cup orphans'
    BY <2>1, <2>2, <2>4
  <2>6. urls' \subseteq 1..urlCount' /\ orphans' \subseteq urls'
    BY <2>1, <2>2, <2>4
  <2>7. {pdfUrl', historyUrl', doomed'} \cap orphans' = {}
    BY <2>1, <2>2
  <2>8. pdfUrl' # 0 => pdfUrl' \in urls' /\ pdfUrl' # historyUrl' /\ pdfUrl' # doomed'
    BY <2>1, <2>2
  <2>9. historyUrl' # 0 => historyUrl' \in urls'
    BY <2>1, <2>5
  <2>10. doomed' <= urlCount' /\ (pdfUrl' = 0) = (pdfJob' = 0)
    BY <2>1, <2>2, <2>3
  <2>11. QED
    BY <2>5, <2>6, <2>7, <2>8, <2>9, <2>10
<1>11. ASSUME NEW c \in calls, ArtifactFails(c) PROVE UrlsApart'
  BY <1>11 DEF ArtifactFails, Waiting, Continue, jobVars, urlVars, shownVars, histVars
<1>12. ASSUME NEW c \in calls, LogsArrive(c) PROVE UrlsApart'
  BY <1>12 DEF LogsArrive, Waiting, Continue, jobVars, urlVars, shownVars, histVars
<1>13. ASSUME NEW c \in calls, SyncTeXArrives(c) PROVE UrlsApart'
  BY <1>13 DEF SyncTeXArrives, Waiting, Continue, jobVars, urlVars, shownVars, histVars
<1>14. CASE ViewVersion
  BY <1>14 DEF ViewVersion, jobVars, urlVars, shownVars, histVars
<1>15. CASE BackToCurrent
  BY <1>15 DEF BackToCurrent, jobVars, urlVars, shownVars, histVars
<1>16. CASE AskDeletion
  BY <1>16 DEF AskDeletion, jobVars, urlVars, shownVars, histVars
<1>17. CASE DeletionDone
  BY <1>17 DEF DeletionDone, NoDeletion, jobVars, urlVars, shownVars, histVars
<1>18. CASE DeletionFails
  BY <1>18 DEF DeletionFails, NoDeletion, jobVars, urlVars, shownVars, histVars
<1>19. CASE UNCHANGED previewVars
  BY <1>19 DEF previewVars, jobVars, urlVars, shownVars, histVars
<1>20. QED
  BY <1>1, <1>2, <1>3, <1>4, <1>5, <1>6, <1>7, <1>8, <1>9, <1>10, <1>11, <1>12, <1>13, <1>14, <1>15, <1>16, <1>17, <1>18, <1>19 DEF PreviewNext, Answer

---------------------------------------------------------------------------
\* Only jobs that may be shown are asked about, in the order of the fetches.
LEMMA AsksStay ==
  ASSUME PreviewTypeOK, RoomForJob, AsksCandidates, [PreviewNext]_previewVars
  PROVE  AsksCandidates'
<1> USE PreviewAssumption DEF PreviewTypeOK, RoomForJob, CompileJobs, Calls, AsksCandidates, Candidates, Ended
<1>1. CASE StartCompile
  BY <1>1 DEF StartCompile, MayCompile, histVars
<1>2. CASE Created
  <2>1. /\ jobs' = jobs + 1 /\ polling' = polling \cup {jobs + 1} /\ late' = Asked
        /\ UNCHANGED <<calls, failed>> /\ outcome' = [outcome EXCEPT ![jobs + 1] = "running"]
    BY <1>2 DEF Created
  <2>2. late' \subseteq 1..jobs'
    <3>1. ASSUME NEW c \in calls PROVE c.job \in 1..jobs
      <4>1. c.job \in 1..NJobs /\ c.job <= jobs
        OBVIOUS
      <4>2. QED
        BY <4>1
    <3>2. Asked \subseteq 1..jobs
      BY <3>1 DEF Asked
    <3>3. QED
      BY <2>1, <3>2
  <2>3. \A c \in calls' : c.job \in late' /\ c.job <= jobs /\ outcome'[c.job] = outcome[c.job]
    BY <2>1 DEF Asked
  <2>4. polling' \subseteq 1..jobs' /\ polling' \subseteq {jobs'} \cup late'
    BY <2>1 DEF Asked
  <2>5. QED
    BY <2>1, <2>2, <2>3, <2>4
<1>3. CASE CreateFails
  BY <1>3 DEF CreateFails
<1>4. ASSUME NEW j \in CompileJobs, JobSettles(j) PROVE AsksCandidates'
  BY <1>4 DEF JobSettles, histVars
<1>5. ASSUME NEW j \in CompileJobs, Tick(j) PROVE AsksCandidates'
  BY <1>5 DEF Tick, Free, histVars
<1>6. ASSUME NEW c \in calls, StillRunning(c) PROVE AsksCandidates'
  BY <1>6 DEF StillRunning, Waiting, Continue, histVars
<1>7. ASSUME NEW c \in calls, SaysCompleted(c) PROVE AsksCandidates'
  BY <1>7 DEF SaysCompleted, Waiting, Continue, histVars
<1>8. ASSUME NEW c \in calls, SaysFailed(c) PROVE AsksCandidates'
  BY <1>8 DEF SaysFailed, Waiting, Continue, histVars
<1>9. ASSUME NEW c \in calls, StatusFails(c) PROVE AsksCandidates'
  BY <1>9 DEF StatusFails, Waiting, Continue
<1>10. ASSUME NEW c \in calls, ArtifactArrives(c) PROVE AsksCandidates'
  BY <1>10 DEF ArtifactArrives, Waiting, Continue, histVars
<1>11. ASSUME NEW c \in calls, ArtifactFails(c) PROVE AsksCandidates'
  BY <1>11 DEF ArtifactFails, Waiting, Continue
<1>12. ASSUME NEW c \in calls, LogsArrive(c) PROVE AsksCandidates'
  BY <1>12 DEF LogsArrive, Waiting, Continue, histVars
<1>13. ASSUME NEW c \in calls, SyncTeXArrives(c) PROVE AsksCandidates'
  BY <1>13 DEF SyncTeXArrives, Waiting, Continue, histVars
<1>14. ASSUME UNCHANGED <<jobVars, late, failed>> PROVE AsksCandidates'
  BY <1>14 DEF jobVars
<1>15. CASE ViewVersion \/ BackToCurrent \/ AskDeletion \/ DeletionDone \/ DeletionFails
  BY <1>14, <1>15 DEF ViewVersion, BackToCurrent, AskDeletion, DeletionDone, DeletionFails, histVars
<1>16. CASE UNCHANGED previewVars
  BY <1>14, <1>16 DEF previewVars, histVars
<1>17. QED
  BY <1>1, <1>2, <1>3, <1>4, <1>5, <1>6, <1>7, <1>8, <1>9, <1>10, <1>11, <1>12, <1>13, <1>15, <1>16 DEF PreviewNext, Answer

\* A call that stays, or the next fetch of one that goes on, is still there.
LEMMA CallsGoOn ==
  ASSUME PreviewTypeOK, NEW c \in calls, NEW next, Continue(c, next), NEW j, NEW w,
         \/ Fetching(j, w) /\ ~(c.job = j /\ c.waits = w)
         \/ c.job = j /\ w \in next
  PROVE  Fetching(j, w)'
<1>1. calls' = (calls \ {c}) \cup {[c EXCEPT !.waits = v] : v \in next}
  BY DEF Continue
<1>2. CASE c.job = j /\ w \in next
  <2>1. [c EXCEPT !.waits = w] \in calls'
    BY <1>1, <1>2
  <2>2. [c EXCEPT !.waits = w].job = j /\ [c EXCEPT !.waits = w].waits = w
    BY <1>2 DEF PreviewTypeOK, Calls
  <2>3. QED
    BY <2>1, <2>2 DEF Fetching
<1>3. CASE Fetching(j, w) /\ ~(c.job = j /\ c.waits = w)
  <2>1. PICK d \in calls : d.job = j /\ d.waits = w
    BY <1>3 DEF Fetching
  <2>2. d \in calls'
    BY <1>1, <1>3, <2>1
  <2>3. QED
    BY <2>1, <2>2 DEF Fetching
<1>4. QED
  BY <1>2, <1>3

\* What is not shown yet stays expected.
LEMMA ResultsStay ==
  ASSUME PreviewTypeOK, RoomForJob, AsksCandidates, ResultsComing, [PreviewNext]_previewVars
  PROVE  ResultsComing'
<1> USE PreviewAssumption DEF PreviewTypeOK, RoomForJob, CompileJobs, Calls, Ended
<1>1. CASE StartCompile
  BY <1>1 DEF StartCompile, MayCompile, histVars, ResultsComing, PdfFits, PdfAfter, Fetching, Candidates
<1>2. CASE Created
  <2>1. jobs' = jobs + 1 /\ jobs' \in polling'
    BY <1>2 DEF Created
  <2>2. QED
    BY <2>1 DEF ResultsComing
<1>3. CASE CreateFails
  <2>1. jobs' \in failed'
    BY <1>3 DEF CreateFails
  <2>2. QED
    BY <2>1 DEF ResultsComing
<1>4. ASSUME NEW j \in CompileJobs, JobSettles(j) PROVE ResultsComing'
  <2>1. /\ \A k \in CompileJobs : Ended(k) => outcome'[k] = outcome[k]
        /\ UNCHANGED <<creating, jobs, polling, calls, pdfJob, logsJob, syncJob, late, failed>>
    BY <1>4 DEF JobSettles, shownVars, histVars
  <2>2. ASSUME jobs > 0, PdfFits PROVE PdfFits'
    <3>1. PICK k \in Candidates : Ended(k) /\ pdfJob = PdfAfter(k)
      BY <2>2 DEF PdfFits
    <3>2. k \in CompileJobs
      BY <2>2, <3>1 DEF Candidates, AsksCandidates
    <3>3. QED
      BY <2>1, <3>1, <3>2 DEF PdfFits, PdfAfter, Candidates
  <2>3. QED
    BY <2>1, <2>2 DEF ResultsComing, Fetching, Candidates
<1>5. ASSUME NEW j \in CompileJobs, Tick(j) PROVE ResultsComing'
  BY <1>5 DEF Tick, shownVars, urlVars, histVars, ResultsComing, PdfFits, PdfAfter, Fetching, Candidates
<1> DEFINE Rest == UNCHANGED <<outcome, creating, jobs, late>>
<1>6. ASSUME Rest, NEW c \in calls, NEW next, Continue(c, next), polling' = polling, failed' = failed,
             c.waits \in {"status", "logs", "synctex"},
             pdfJob' = pdfJob, logsJob' = logsJob \/ logsJob' \in Candidates,
             syncJob' = syncJob \/ syncJob' \in Candidates \cup {0},
             c.waits = "logs" => logsJob' \in Candidates,
             c.waits = "synctex" => syncJob' \in Candidates \cup {0}
      PROVE  ResultsComing'
  <2>1. Candidates' = Candidates /\ PdfFits' = PdfFits
    BY <1>6 DEF Candidates, PdfFits, PdfAfter
  <2>2. Fetching(jobs, "artifact") => Fetching(jobs, "artifact")'
    BY <1>6, CallsGoOn
  <2>3. Fetching(jobs, "logs") => Fetching(jobs, "logs")' \/ logsJob' \in Candidates
    BY <1>6, CallsGoOn
  <2>4. Fetching(jobs, "synctex") => Fetching(jobs, "synctex")' \/ syncJob' \in Candidates \cup {0}
    BY <1>6, CallsGoOn
  <2>5. QED
    BY <1>6, <2>1, <2>2, <2>3, <2>4 DEF ResultsComing
<1>7. ASSUME NEW c \in calls, StillRunning(c) PROVE ResultsComing'
  <2>1. Rest /\ Continue(c, {}) /\ UNCHANGED <<polling, failed, pdfJob, logsJob, syncJob>> /\ c.waits = "status"
    BY <1>7 DEF StillRunning, Waiting, shownVars, histVars
  <2>2. QED
    BY <1>6, <2>1
<1>8. ASSUME NEW c \in calls, LogsArrive(c) PROVE ResultsComing'
  <2>1. /\ Rest /\ Continue(c, {}) /\ UNCHANGED <<polling, failed, pdfJob, syncJob>>
        /\ c.waits = "logs" /\ logsJob' = c.job /\ c.job \in Candidates
    BY <1>8 DEF LogsArrive, Waiting, histVars, AsksCandidates
  <2>2. QED
    BY <1>6, <2>1
<1>9. ASSUME NEW c \in calls, SyncTeXArrives(c) PROVE ResultsComing'
  <2>1. /\ Rest /\ Continue(c, {}) /\ UNCHANGED <<polling, failed, pdfJob, logsJob>>
        /\ c.waits = "synctex" /\ syncJob' \in {c.job, 0} /\ c.job \in Candidates
    BY <1>9 DEF SyncTeXArrives, Waiting, histVars, AsksCandidates
  <2>2. QED
    BY <1>6, <2>1
<1>10. ASSUME NEW c \in calls, SaysCompleted(c) PROVE ResultsComing'
  <2>1. /\ Rest /\ Continue(c, {"artifact"}) /\ polling' = polling \ {c.job}
        /\ UNCHANGED <<failed, pdfJob, logsJob, syncJob>>
        /\ c.waits = "status" /\ outcome[c.job] = "completed"
    BY <1>10 DEF SaysCompleted, Waiting, shownVars, histVars
  <2>2. Candidates' = Candidates /\ PdfFits' = PdfFits
    BY <2>1 DEF Candidates, PdfFits, PdfAfter
  <2>3. \A w \in {"artifact", "logs", "synctex"} : Fetching(jobs, w) => Fetching(jobs, w)'
    BY <2>1, CallsGoOn
  <2>4. CASE c.job = jobs
    <3>1. Fetching(jobs, "artifact")'
      BY <2>1, <2>4, CallsGoOn
    <3>2. QED
      BY <2>1, <2>4, <3>1 DEF ResultsComing
  <2>5. CASE c.job # jobs
    BY <2>1, <2>2, <2>3, <2>5 DEF ResultsComing
  <2>6. QED
    BY <2>4, <2>5
<1>11. ASSUME NEW c \in calls, SaysFailed(c) PROVE ResultsComing'
  <2>1. /\ Rest /\ Continue(c, {"logs"}) /\ polling' = polling \ {c.job}
        /\ UNCHANGED <<failed, logsJob, syncJob>> /\ pdfJob' = 0
        /\ c.waits = "status" /\ outcome[c.job] = "failed" /\ c.job \in Candidates
    BY <1>11 DEF SaysFailed, Waiting, histVars, AsksCandidates
  <2>2. Candidates' = Candidates /\ PdfFits'
    <3>1. PdfAfter(c.job)' = 0 /\ c.job \in Candidates' /\ Ended(c.job)' /\ Candidates' = Candidates
      BY <2>1 DEF PdfAfter, Candidates
    <3>2. QED
      BY <2>1, <3>1 DEF PdfFits
  <2>3. \A w \in {"artifact", "logs", "synctex"} : Fetching(jobs, w) => Fetching(jobs, w)'
    BY <2>1, CallsGoOn
  <2>4. CASE c.job = jobs
    <3>1. Fetching(jobs, "logs")'
      BY <2>1, <2>4, CallsGoOn
    <3>2. QED
      BY <2>1, <2>2, <2>4, <3>1 DEF ResultsComing
  <2>5. CASE c.job # jobs
    BY <2>1, <2>2, <2>3, <2>5 DEF ResultsComing
  <2>6. QED
    BY <2>4, <2>5
<1>12. ASSUME NEW c \in calls, StatusFails(c) PROVE ResultsComing'
  <2>1. /\ Rest /\ Continue(c, {}) /\ polling' = polling \ {c.job}
        /\ failed' = failed \cup (polling \cap {c.job})
        /\ UNCHANGED <<pdfJob, logsJob, syncJob>> /\ c.waits = "status"
    BY <1>12 DEF StatusFails, Waiting, shownVars
  <2>2. CASE jobs \in polling /\ c.job = jobs
    <3>1. jobs' \in failed'
      BY <2>1, <2>2
    <3>2. QED
      BY <3>1 DEF ResultsComing
  <2>3. CASE ~(jobs \in polling /\ c.job = jobs)
    <3>1. (jobs \in polling' <=> jobs \in polling) /\ (jobs \in failed' <=> jobs \in failed)
      BY <2>1, <2>3
    <3>2. Candidates' = Candidates /\ PdfFits' = PdfFits
      BY <2>1 DEF Candidates, PdfFits, PdfAfter
    <3>3. \A w \in {"artifact", "logs", "synctex"} : Fetching(jobs, w) => Fetching(jobs, w)'
      BY <2>1, CallsGoOn
    <3>4. QED
      BY <2>1, <3>1, <3>2, <3>3 DEF ResultsComing
  <2>4. QED
    BY <2>2, <2>3
<1>13. ASSUME NEW c \in calls, ArtifactArrives(c) PROVE ResultsComing'
  <2>1. /\ Rest /\ Continue(c, {"logs", "synctex"})
        /\ UNCHANGED <<polling, failed, logsJob, syncJob>> /\ pdfJob' = c.job
        /\ c.waits = "artifact" /\ outcome[c.job] = "completed" /\ c.job \in Candidates
    BY <1>13 DEF ArtifactArrives, Waiting, histVars, AsksCandidates
  <2>2. Candidates' = Candidates /\ PdfFits'
    <3>1. PdfAfter(c.job)' = c.job /\ c.job \in Candidates' /\ Ended(c.job)' /\ Candidates' = Candidates
      BY <2>1 DEF PdfAfter, Candidates
    <3>2. QED
      BY <2>1, <3>1 DEF PdfFits
  <2>3. \A w \in {"logs", "synctex"} : Fetching(jobs, w) => Fetching(jobs, w)'
    BY <2>1, CallsGoOn
  <2>4. CASE c.job = jobs
    <3>1. Fetching(jobs, "logs")' /\ Fetching(jobs, "synctex")'
      BY <2>1, <2>4, CallsGoOn
    <3>2. QED
      BY <2>1, <2>2, <2>4, <3>1 DEF ResultsComing
  <2>5. CASE c.job # jobs
    <3>1. Fetching(jobs, "artifact") => Fetching(jobs, "artifact")'
      BY <2>1, <2>5, CallsGoOn
    <3>2. QED
      BY <2>1, <2>2, <2>3, <2>5, <3>1 DEF ResultsComing
  <2>6. QED
    BY <2>4, <2>5
<1>14. ASSUME NEW c \in calls, ArtifactFails(c) PROVE ResultsComing'
  <2>1. /\ Rest /\ Continue(c, {"logs", "synctex"})
        /\ UNCHANGED <<polling, pdfJob, logsJob, syncJob>> /\ failed' = failed \cup {c.job}
        /\ c.waits = "artifact"
    BY <1>14 DEF ArtifactFails, Waiting, shownVars
  <2>2. CASE c.job = jobs
    <3>1. jobs' \in failed'
      BY <2>1, <2>2
    <3>2. QED
      BY <3>1 DEF ResultsComing
  <2>3. CASE c.job # jobs
    <3>1. Candidates' = Candidates /\ PdfFits' = PdfFits
      BY <2>1 DEF Candidates, PdfFits, PdfAfter
    <3>2. \A w \in {"artifact", "logs", "synctex"} : Fetching(jobs, w) => Fetching(jobs, w)'
      BY <2>1, <2>3, CallsGoOn
    <3>3. QED
      BY <2>1, <2>3, <3>1, <3>2 DEF ResultsComing
  <2>4. QED
    BY <2>2, <2>3
<1>15. ASSUME UNCHANGED <<jobVars, shownVars, late, failed>> PROVE ResultsComing'
  BY <1>15 DEF jobVars, shownVars, ResultsComing, PdfFits, PdfAfter, Fetching, Candidates
<1>16. CASE ViewVersion \/ BackToCurrent \/ AskDeletion \/ DeletionDone \/ DeletionFails
  BY <1>15, <1>16 DEF ViewVersion, BackToCurrent, AskDeletion, DeletionDone, DeletionFails, histVars, shownVars
<1>17. CASE UNCHANGED previewVars
  BY <1>15, <1>17 DEF previewVars, histVars
<1>18. QED
  BY <1>1, <1>2, <1>3, <1>4, <1>5, <1>7, <1>8, <1>9, <1>10, <1>11, <1>12, <1>13, <1>14, <1>16, <1>17 DEF PreviewNext, Answer

---------------------------------------------------------------------------
\* The invariant holds in every state.
THEOREM PreviewInvariant == PreviewSpec => []PreviewInv
<1>1. PreviewInit => PreviewInv
  <2> SUFFICES ASSUME PreviewInit PROVE PreviewInv
    OBVIOUS
  <2> USE PreviewAssumption DEF PreviewInit
  <2>1. PreviewTypeOK
    <3>1. {pdfUrl, historyUrl, urlCount, doomed} \cup urls \cup orphans \subseteq Urls
      BY DEF Urls, NoDeletion
    <3>2. {pdfJob, logsJob, syncJob} \cup late \cup failed \subseteq 0..NJobs /\ {jobs, creating} \subseteq 0..NJobs
      OBVIOUS
    <3>3. outcome \in [CompileJobs -> {"none", "running", "completed", "failed"}]
      OBVIOUS
    <3>4. QED
      BY <3>1, <3>2, <3>3 DEF PreviewTypeOK
  <2>2. RoomForJob /\ UrlsApart
    BY DEF RoomForJob, UrlsApart, NoDeletion
  <2>3. AsksCandidates /\ ResultsComing
    BY DEF AsksCandidates, ResultsComing
  <2>4. QED
    BY <2>1, <2>2, <2>3 DEF PreviewInv
<1>2. PreviewInv /\ [PreviewNext]_previewVars => PreviewInv'
  BY PreviewTypesStay, UrlsStayApart, AsksStay, ResultsStay DEF PreviewInv
<1>3. QED
  BY <1>1, <1>2, PTL DEF PreviewSpec

(* Every variable of the compile page keeps its type. The code: the state  *)
(* of EditorPage that pollJobStatus and the version buttons set.           *)
THEOREM PreviewTypesCorrect == PreviewSpec => []PreviewTypeOK
<1>1. PreviewInv => PreviewTypeOK
  BY DEF PreviewInv
<1>2. QED
  BY <1>1, PreviewInvariant, PTL

(* However compilations, views of versions and deletions overlap, the PDF  *)
(* tab shows no URL that was revoked, and no URL but the two it may show   *)
(* stays alive, except that of a version opened while another is deleted.  *)
(* The code: the places that call revokeObjectURL.                         *)
THEOREM ShownUrlsAreLive == PreviewSpec => []ShownUrlIsLive
<1>1. PreviewInv => ShownUrlIsLive
  BY DEF PreviewInv, UrlsApart, ShownUrlIsLive, ShownUrl
<1>2. QED
  BY <1>1, PreviewInvariant, PTL

(* However many callbacks and jobs overlap, the page ends up with PDF, log *)
(* and SyncTeX data of the last job or of one whose answers were still     *)
(* expected when the last one came, unless an answer about the last job    *)
(* was missed. The code: pollJobStatus.                                    *)
THEOREM LastJobIsShown == PreviewSpec => []ShowsLastJob
<1>1. ASSUME PreviewInv PROVE ShowsLastJob
  <2> SUFFICES ASSUME jobs > 0, jobs \notin failed, creating = 0, polling = {}, calls = {}
               PROVE  /\ pdfJob \in {PdfAfter(j) : j \in Candidates}
                      /\ logsJob \in Candidates
                      /\ outcome[jobs] = "completed" => syncJob \in Candidates \cup {0}
                      /\ (pdfUrl = 0) = (pdfJob = 0)
    BY DEF ShowsLastJob, Candidates
  <2>1. \A j, w : ~Fetching(j, w)
    BY DEF Fetching
  <2>2. Ended(jobs) /\ PdfFits /\ logsJob \in Candidates
        /\ (outcome[jobs] = "completed" => syncJob \in Candidates \cup {0})
    BY <1>1, <2>1 DEF PreviewInv, ResultsComing, Ended
  <2>3. (pdfUrl = 0) = (pdfJob = 0)
    BY <1>1 DEF PreviewInv, UrlsApart
  <2>4. QED
    BY <2>2, <2>3 DEF PdfFits
<1>2. QED
  BY <1>1, PreviewInvariant, PTL

---------------------------------------------------------------------------
(* PDFViewer.                                                              *)

\* The documents: one at most, that of the URL, and none before it is loaded.
DocumentInv ==
  /\ ViewerTypeOK /\ OneDocument
  /\ loads \subseteq {url} /\ (loads # {} => pdfDoc = NoPdf)
  /\ pdfDoc # NoPdf => numPages = PageCount[pdfDoc]
  /\ \A d \in drawings : d.page <= d.pages

\* The drawings of the document; no other draws any more.
OwnDrawing(d) == d \in drawings /\ d.pdf = url
OthersEnd ==
  /\ \A d \in drawings : d.pdf <= url
  /\ \A d \in drawings : d.busy /\ d.pdf # url => d.cancelled /\ pdfDoc = NoPdf
  /\ \A d \in drawings : d.pdf = url => pdfDoc = url /\ redrawn /\ d.pages = numPages

\* A page that shows another document has a drawing on its way that clears it.
Reaches(d, i) == OwnDrawing(d) /\ (d.page < i \/ (d.page = i /\ ~d.busy))
PagesCleared ==
  (pdfDoc # NoPdf /\ redrawn) =>
    \A i \in 1..numPages : canvas[i].pdf \in {url, NoPdf} \/ \E d \in drawings : Reaches(d, i)

\* The first n pages are drawn, and what is to be counted on them.
DrawnTo(n) == \A i \in 1..n : canvas[i] = [pdf |-> url, scale |-> renderScale, by |-> 0]
CountedTo(n) == IF findQuery = NoQuery THEN {} ELSE (1..n) \X {findQuery}

(* A drawing that nobody disturbed is alone with its document, and has     *)
(* drawn what it passed.                                                   *)
PagesDrawn ==
  ~mixed =>
    /\ \A d, e \in drawings : d.pdf = url /\ e.pdf = url => d = e
    /\ \A d \in drawings : d.pdf = url =>
         /\ ~d.cancelled /\ d.scale = renderScale /\ DrawnTo(d.page - 1)
         /\ d.busy => canvas[d.page] = [pdf |-> NoPdf, scale |-> d.scale, by |-> d.n]
    /\ (pdfDoc # NoPdf /\ redrawn /\ \A d \in drawings : d.pdf # url) => DrawnTo(numPages)

\* A drawing during which nobody searched has counted what it passed.
MarksCounted ==
  ~partial =>
    /\ \A d \in drawings : d.pdf = url => ~mixed /\ d.new = CountedTo(d.page - 1)
    /\ (pdfDoc # NoPdf /\ redrawn /\ \A d \in drawings : d.pdf # url) => found = CountedTo(numPages)

PagesMarked ==
  /\ displayScale = renderScale + cssZoom
  /\ findQuery = NoQuery => found = {}
  /\ \A i \in 1..numPages : marks[i] = findQuery

ShownFits == OthersEnd /\ PagesCleared /\ PagesDrawn /\ MarksCounted /\ PagesMarked
---------------------------------------------------------------------------
(* The drawings.                                                           *)

USE ViewerAssumption

\* Every scale that is asked for is brought between the limits.
LEMMA ClampType == \A s \in Int : Clamp(s) \in Scales
BY DEF Clamp, Scales

\* A drawing that is cancelled is otherwise what it was.
LEMMA CancelledDrawing ==
  ASSUME NEW ds \in SUBSET Drawing, NEW e \in Cancelled(ds)
  PROVE  /\ e \in Drawing /\ e.cancelled
         /\ \E d \in ds : e = [d EXCEPT !.cancelled = TRUE] /\ e.pdf = d.pdf /\ e.busy = d.busy
                          /\ e.page = d.page /\ e.pages = d.pages
<1>1. PICK d \in ds : e = [d EXCEPT !.cancelled = TRUE]
  BY DEF Cancelled
<1>2. d \in Drawing
  OBVIOUS
<1>3. e \in Drawing /\ e.cancelled /\ e.pdf = d.pdf /\ e.busy = d.busy /\ e.page = d.page /\ e.pages = d.pages
  BY <1>1, <1>2 DEF Drawing
<1>4. QED
  BY <1>1, <1>3

\* What a call of renderAll begins with, and what becomes of the others.
LEMMA StartedDrawing ==
  ASSUME drawings \subseteq Drawing, \A d \in drawings : d.page <= d.pages,
         NEW pdf \in Pdfs, NEW count \in PageNumbers, NEW scale \in Scales,
         StartDrawing(pdf, count, scale)
  PROVE  /\ drawings' \subseteq Drawing /\ \A d \in drawings' : d.page <= d.pages
         /\ \E s \in drawings' :
              /\ s.pdf = pdf /\ s.pages = count /\ s.scale = scale /\ s.page = 1
              /\ ~s.busy /\ ~s.cancelled /\ s.new = {}
              /\ \A e \in drawings' : e = s \/ \E d \in drawings :
                   /\ e.pdf = d.pdf /\ e.busy = d.busy /\ e.page = d.page /\ e.pages = d.pages
                   /\ e.cancelled
<1>0. PICK n \in 1..MaxDrawings :
        drawings' = Cancelled(drawings) \cup
          {[n |-> n, pdf |-> pdf, scale |-> scale, pages |-> count, page |-> 1,
            busy |-> FALSE, cancelled |-> FALSE, new |-> {}]}
  BY DEF StartDrawing
<1> DEFINE s == [n |-> n, pdf |-> pdf, scale |-> scale, pages |-> count, page |-> 1,
                 busy |-> FALSE, cancelled |-> FALSE, new |-> {}]
<1>1. drawings' = Cancelled(drawings) \cup {s}
  BY <1>0
<1>2. /\ s \in Drawing /\ s.page <= s.pages /\ s.pdf = pdf /\ s.pages = count /\ s.scale = scale
      /\ s.page = 1 /\ ~s.busy /\ ~s.cancelled /\ s.new = {}
  BY DEF Drawing, PageNumbers
<1>3. ASSUME NEW e \in Cancelled(drawings)
      PROVE  /\ e \in Drawing /\ e.page <= e.pages
             /\ \E d \in drawings :
                  /\ e.pdf = d.pdf /\ e.busy = d.busy /\ e.page = d.page /\ e.pages = d.pages
                  /\ e.cancelled
  BY CancelledDrawing
<1>4. QED
  BY <1>1, <1>2, <1>3

\* The page after the one that is left, of the same drawing.
Follows(e, d, marked) ==
  /\ e.pdf = d.pdf /\ e.scale = d.scale /\ e.pages = d.pages /\ e.page = d.page + 1
  /\ ~e.busy /\ ~e.cancelled /\ e.new = marked

\* A page that is left is the last one, or the drawing goes on with the next.
LEMMA LeftPage ==
  ASSUME drawings \subseteq Drawing, NEW d \in drawings, d.page <= d.pages,
         NEW marked \in SUBSET (PageNumbers \X Queries), LeavePage(d, marked)
  PROVE  \/ /\ d.page = d.pages /\ drawings' = drawings \ {d}
            /\ found' = IF findQuery # NoQuery THEN marked ELSE found
         \/ /\ d.page < d.pages /\ found' = found
            /\ \E e \in Drawing : /\ drawings' = (drawings \ {d}) \cup {e}
                                  /\ Follows(e, d, marked) /\ e.page <= e.pages
<1>1. d \in Drawing /\ d.page \in PageNumbers /\ d.pages \in PageNumbers
  BY DEF Drawing
<1>2. CASE d.page = d.pages
  BY <1>2 DEF LeavePage
<1>3. CASE d.page # d.pages
  <2> DEFINE e == [d EXCEPT !.page = @ + 1, !.busy = FALSE, !.cancelled = FALSE, !.new = marked]
  <2>1. d.page < d.pages /\ d.page + 1 \in PageNumbers
    BY <1>1, <1>3 DEF PageNumbers
  <2>2. e \in Drawing /\ Follows(e, d, marked) /\ e.page <= e.pages
    <3>1. /\ e.pdf = d.pdf /\ e.scale = d.scale /\ e.pages = d.pages /\ e.page = d.page + 1
          /\ e.busy = FALSE /\ e.cancelled = FALSE /\ e.new = marked
      BY <1>1 DEF Drawing
    <3>2. e \in Drawing
      BY <1>1, <2>1 DEF Drawing
    <3>3. d.page + 1 <= d.pages
      BY <1>1, <2>1 DEF PageNumbers
    <3>4. QED
      BY <3>1, <3>2, <3>3 DEF Follows
  <2>3. drawings' = (drawings \ {d}) \cup {e} /\ found' = found
    BY <1>3 DEF LeavePage
  <2>4. QED
    BY <2>1, <2>2, <2>3
<1>4. QED
  BY <1>2, <1>3

\* What is counted on a page is a match of that page.
LEMMA MarkedType ==
  ASSUME NEW d \in Drawing, findQuery \in Queries
  PROVE  Marked(d) \in SUBSET (PageNumbers \X Queries) /\ d.new \in SUBSET (PageNumbers \X Queries)
BY DEF Marked, Drawing

\* Marking all pages marks them all with the query.
LEMMA MarkAllType ==
  ASSUME NEW q \in Queries, NEW count \in 0..MaxPages, MarkAll(q, count),
         marks \in [PageNumbers -> Queries]
  PROVE  /\ marks' \in [PageNumbers -> Queries] /\ found' \subseteq PageNumbers \X Queries
         /\ \A i \in 1..count : marks'[i] = q
         /\ found' = IF q = NoQuery THEN {} ELSE (1..count) \X {q}
BY DEF MarkAll, PageNumbers

---------------------------------------------------------------------------
(* The documents.                                                          *)

\* A step of renderAll.
Draws(d) == EndDrawing(d) \/ BeginPage(d) \/ SkipPage(d) \/ FinishPage(d)

\* Drawings come and go, their types stay.
LEMMA DrawingTypes ==
  ASSUME DocumentInv, NEW d \in drawings, Draws(d)
  PROVE  /\ drawings' \subseteq Drawing /\ \A e \in drawings' : e.page <= e.pages
         /\ found' \subseteq PageNumbers \X Queries
<1> USE DEF DocumentInv, ViewerTypeOK
<1>1. d \in Drawing /\ d.new \in SUBSET (PageNumbers \X Queries) /\ Marked(d) \in SUBSET (PageNumbers \X Queries)
  BY MarkedType
<1>2. ASSUME NEW marked \in SUBSET (PageNumbers \X Queries), LeavePage(d, marked)
      PROVE  /\ drawings' \subseteq Drawing /\ \A e \in drawings' : e.page <= e.pages
             /\ found' \subseteq PageNumbers \X Queries
  BY <1>2, LeftPage
<1>3. CASE BeginPage(d)
  <2>1. [d EXCEPT !.busy = TRUE, !.cancelled = FALSE] \in Drawing
        /\ [d EXCEPT !.busy = TRUE, !.cancelled = FALSE].page = d.page
        /\ [d EXCEPT !.busy = TRUE, !.cancelled = FALSE].pages = d.pages
    BY <1>1 DEF Drawing
  <2>2. QED
    BY <1>1, <1>2, <1>3, <2>1 DEF BeginPage
<1>4. CASE SkipPage(d)
  BY <1>1, <1>2, <1>4 DEF SkipPage
<1>5. CASE FinishPage(d)
  BY <1>1, <1>2, <1>5 DEF FinishPage
<1>6. CASE EndDrawing(d)
  BY <1>6 DEF EndDrawing, findVars
<1>7. QED
  BY <1>3, <1>4, <1>5, <1>6 DEF Draws

\* What is drawn on a canvas is of a document, and of a drawing.
LEMMA CanvasTypes ==
  ASSUME NEW d \in Drawing, canvas \in [PageNumbers -> Canvas]
  PROVE  /\ [canvas EXCEPT ![d.page] = [pdf |-> NoPdf, scale |-> d.scale, by |-> d.n]]
              \in [PageNumbers -> Canvas]
         /\ Drawn(d) => canvas' \in [PageNumbers -> Canvas]
<1>1. d.page \in PageNumbers /\ d.pdf \in Pdfs /\ d.scale \in Scales /\ d.n \in 0..MaxDrawings
  BY DEF Drawing
<1>2. [pdf |-> NoPdf, scale |-> d.scale, by |-> d.n] \in Canvas
  BY <1>1 DEF Canvas
<1>3. canvas[d.page] \in Canvas /\ 0 \in 0..MaxDrawings
  BY <1>1
<1>4. ASSUME NEW p \in Pdfs \cup {NoPdf}
      PROVE  [canvas EXCEPT ![d.page].pdf = p, ![d.page].by = 0] \in [PageNumbers -> Canvas]
  BY <1>1, <1>3 DEF Canvas
<1>5. QED
  BY <1>1, <1>2, <1>4 DEF Drawn

LEMMA DocumentsStay == DocumentInv /\ [ViewerNext]_viewerVars => DocumentInv'
<1> SUFFICES ASSUME DocumentInv, [ViewerNext]_viewerVars PROVE DocumentInv'
  OBVIOUS
<1> USE DEF DocumentInv, docVars, scaleVars, findVars, viewerHistory
<1>i. /\ 1 \in Pdfs /\ NoPdf \notin Pdfs /\ Pdfs \subseteq Nat /\ Scales \subseteq Int
      /\ \A p \in Pdfs : PageCount[p] \in PageNumbers /\ PageCount[p] \in 0..MaxPages
  BY DEF Pdfs, NoPdf, Scales, PageNumbers
<1>d. drawings \subseteq Drawing /\ numPages \in 0..MaxPages /\ cssZoom = cssZoom
  BY DEF ViewerTypeOK
<1>1. CASE NewUrl
  <2>1. drawings' \subseteq Drawing /\ \A d \in drawings' : d.page <= d.pages
    <3>1. drawings' = Cancelled(drawings)
      BY <1>1 DEF NewUrl
    <3>2. QED
      BY <1>d, <3>1, CancelledDrawing
  <2>2. url' \in Pdfs /\ loads' = {url'} /\ pdfDoc' = NoPdf /\ alive' = {}
    BY <1>1 DEF NewUrl, Pdfs, ViewerTypeOK, OneDocument
  <2>3. QED
    BY <1>1, <2>1, <2>2 DEF NewUrl, ViewerTypeOK, OneDocument
<1>2. CASE Loaded
  <2>1. PICK pdf \in loads :
          /\ loads' = loads \ {pdf} /\ pdfDoc' = pdf /\ alive' = alive \cup {pdf}
          /\ numPages' = PageCount[pdf] /\ redrawn' = (numPages' # numPages)
          /\ mixed' = FALSE /\ partial' = FALSE
          /\ IF numPages' = numPages
             THEN UNCHANGED <<drawings, marks, found>>
             ELSE StartDrawing(pdf, numPages', renderScale) /\ MarkAll(findQuery, numPages')
          /\ canvas' = [i \in PageNumbers |-> IF i <= numPages' THEN canvas[i] ELSE Blank]
          /\ UNCHANGED <<url, scaleVars, findQuery>>
    BY <1>2 DEF Loaded
  <2>2. pdf = url /\ url \in Pdfs /\ pdfDoc = NoPdf /\ alive = {}
    BY <2>1 DEF ViewerTypeOK, OneDocument
  <2>3. numPages' \in PageNumbers /\ numPages' \in 0..MaxPages
    BY <1>i, <2>1, <2>2
  <2>4. /\ drawings' \subseteq Drawing /\ \A d \in drawings' : d.page <= d.pages
        /\ marks' \in [PageNumbers -> Queries] /\ found' \subseteq PageNumbers \X Queries
    <3>1. CASE numPages' = numPages
      BY <2>1, <3>1 DEF ViewerTypeOK
    <3>2. CASE numPages' # numPages
      <4>1. renderScale \in Scales /\ findQuery \in Queries /\ marks \in [PageNumbers -> Queries]
        BY DEF ViewerTypeOK
      <4>2. StartDrawing(pdf, numPages', renderScale) /\ MarkAll(findQuery, numPages')
        BY <2>1, <3>2
      <4>3. drawings' \subseteq Drawing /\ \A d \in drawings' : d.page <= d.pages
        BY <1>d, <2>2, <2>3, <4>1, <4>2, StartedDrawing
      <4>4. QED
        BY <2>3, <4>1, <4>2, <4>3, MarkAllType
    <3>3. QED
      BY <3>1, <3>2
  <2>5. canvas' \in [PageNumbers -> Canvas]
    <3>1. Blank \in Canvas
      BY DEF Blank, Canvas
    <3>2. QED
      BY <2>1, <3>1 DEF ViewerTypeOK
  <2>6. loads' = {} /\ pdfDoc' = url' /\ alive' = {url'} /\ url' \in Pdfs
    BY <2>1, <2>2
  <2>7. QED
    BY <1>i, <2>1, <2>2, <2>3, <2>4, <2>5, <2>6 DEF ViewerTypeOK, OneDocument
<1>3. CASE LoadFails
  BY <1>3 DEF LoadFails, ViewerTypeOK, OneDocument
<1>4. ASSUME NEW d \in drawings, Draws(d) PROVE DocumentInv'
  <2>1. /\ drawings' \subseteq Drawing /\ \A e \in drawings' : e.page <= e.pages
        /\ found' \subseteq PageNumbers \X Queries
    BY <1>4, DrawingTypes
  <2>2. UNCHANGED <<docVars, numPages, scaleVars, findQuery, viewerHistory>>
    BY <1>4 DEF Draws, EndDrawing, BeginPage, SkipPage, FinishPage
  <2>3. /\ canvas' \in [PageNumbers -> Canvas] /\ marks' \in [PageNumbers -> Queries]
    <3>1. canvas \in [PageNumbers -> Canvas] /\ marks \in [PageNumbers -> Queries] /\ findQuery \in Queries
      BY DEF ViewerTypeOK
    <3>2. CASE BeginPage(d)
      BY <1>d, <3>1, <3>2, CanvasTypes DEF BeginPage
    <3>3. CASE FinishPage(d)
      BY <1>d, <3>1, <3>3, CanvasTypes DEF FinishPage
    <3>4. QED
      BY <1>4, <3>1, <3>2, <3>3 DEF Draws, EndDrawing, SkipPage
  <2>4. QED
    BY <2>1, <2>2, <2>3 DEF ViewerTypeOK, OneDocument
<1>r. ASSUME NEW s \in Scales, Rescale(s), UNCHANGED <<docVars, numPages, canvas, marks, findVars>>
      PROVE  DocumentInv'
  <2>1. drawings' \subseteq Drawing /\ \A d \in drawings' : d.page <= d.pages
    <3>1. CASE s # renderScale /\ numPages > 0 /\ pdfDoc # NoPdf
      <4>1. pdfDoc \in Pdfs /\ numPages \in PageNumbers /\ StartDrawing(pdfDoc, numPages, s)
        BY <1>r, <1>d, <3>1 DEF Rescale, ViewerTypeOK, PageNumbers
      <4>2. QED
        BY <1>d, <4>1, StartedDrawing
    <3>2. CASE ~(s # renderScale /\ numPages > 0 /\ pdfDoc # NoPdf)
      BY <1>r, <1>d, <3>2 DEF Rescale
    <3>3. QED
      BY <3>1, <3>2
  <2>2. renderScale' = s /\ displayScale' = s /\ cssZoom' = 0 /\ s + 0 = s
    BY <1>r, <1>i DEF Rescale
  <2>3. {redrawn', mixed', partial'} \subseteq BOOLEAN
    BY <1>r DEF Rescale, ViewerTypeOK, BeingDrawn
  <2>4. QED
    BY <1>r, <2>1, <2>2, <2>3 DEF ViewerTypeOK, OneDocument
<1>5. ASSUME NEW s \in Scales, ApplyScale(s) PROVE DocumentInv'
  <2>1. Clamp(s) \in Scales
    BY <1>i, ClampType
  <2>2. QED
    BY <1>5, <1>r, <2>1 DEF ApplyScale
<1>6. ASSUME NEW delta \in {-1, 1}, Wheel(delta) PROVE DocumentInv'
  <2>1. renderScale + cssZoom \in Int /\ renderScale \in Int
    BY <1>i DEF ViewerTypeOK
  <2>2. displayScale' \in Scales
    BY <1>6, <2>1, ClampType DEF Wheel
  <2>3. renderScale' + cssZoom' = displayScale'
    BY <1>6, <1>i, <2>1, <2>2 DEF Wheel
  <2>4. QED
    BY <1>6, <2>2, <2>3 DEF Wheel, ViewerTypeOK, OneDocument
<1>7. CASE CommitZoom
  <2>1. Clamp(renderScale + cssZoom) \in Scales
    BY <1>i, ClampType DEF ViewerTypeOK
  <2>2. QED
    BY <1>7, <1>r, <2>1 DEF CommitZoom
<1>8. ASSUME NEW q \in Queries, Find(q) PROVE DocumentInv'
  <2>1. marks' \in [PageNumbers -> Queries] /\ found' \subseteq PageNumbers \X Queries
    BY <1>8, MarkAllType DEF Find, ViewerTypeOK
  <2>2. partial' \in BOOLEAN
    BY <1>8 DEF Find, BeingDrawn
  <2>3. QED
    BY <1>8, <2>1, <2>2 DEF Find, ViewerTypeOK, OneDocument
<1>9. CASE UNCHANGED viewerVars
  BY <1>9 DEF viewerVars, ViewerTypeOK, OneDocument
<1>10. QED
  BY <1>1, <1>2, <1>3, <1>4, <1>5, <1>6, <1>7, <1>8, <1>9 DEF ViewerNext, Draws

LEMMA DocumentStart == ViewerInit => DocumentInv
<1> SUFFICES ASSUME ViewerInit PROVE DocumentInv
  OBVIOUS
<1>1. 1 \in Pdfs /\ 0 \in 0..MaxPages /\ Scales \subseteq Int
  BY DEF Pdfs, Scales
<1>2. Blank \in Canvas
  BY DEF Blank, Canvas
<1>3. ViewerTypeOK
  <2>1. /\ url \in Pdfs /\ loads \subseteq Pdfs /\ pdfDoc \in Pdfs \cup {NoPdf} /\ alive \subseteq Pdfs
        /\ numPages \in 0..MaxPages /\ drawings \subseteq Drawing
        /\ findQuery \in Queries /\ found \subseteq PageNumbers \X Queries
        /\ {redrawn, mixed, partial} \subseteq BOOLEAN
    BY <1>1 DEF ViewerInit
  <2>2. {renderScale, displayScale, renderScale + cssZoom} \subseteq Scales
    BY <1>1 DEF ViewerInit
  <2>3. canvas \in [PageNumbers -> Canvas] /\ marks \in [PageNumbers -> Queries]
    BY <1>2 DEF ViewerInit
  <2>4. QED
    BY <2>1, <2>2, <2>3 DEF ViewerTypeOK
<1>4. QED
  BY <1>1, <1>3 DEF ViewerInit, DocumentInv, OneDocument

---------------------------------------------------------------------------
(* The drawings, whenever the user zooms and searches.                     *)

\* No pages are drawn, and none is counted.
LEMMA NoPages == DrawnTo(0) /\ CountedTo(0) = {}
BY DEF DrawnTo, CountedTo

\* A step of a drawing, and how the drawing goes on, if it does.
LEMMA DrawingGoesOn ==
  ASSUME DocumentInv, OthersEnd, NEW d \in drawings, Draws(d)
  PROVE  /\ UNCHANGED <<url, loads, pdfDoc, alive, numPages, renderScale, cssZoom, displayScale,
                        findQuery, redrawn, mixed, partial>>
         /\ d \in Drawing /\ d.page \in 1..d.pages /\ d.pages \in 1..MaxPages
         /\ d.new \in SUBSET (PageNumbers \X Queries) /\ Marked(d) \in SUBSET (PageNumbers \X Queries)
         /\ (BeginPage(d) \/ FinishPage(d)) => d.pdf = url
         /\ EndDrawing(d) => d.pdf # url
         /\ drawings \ {d} \subseteq drawings'
         /\ \A x \in drawings' : x \in drawings \ {d} \/
              /\ x.pdf = d.pdf /\ x.pages = d.pages
              /\ x.busy => d.pdf = url /\ x.page = d.page
              /\ ~x.busy => x.page = d.page + 1
         /\ (d.pdf = url /\ d.page < d.pages) => \E x \in drawings' : x.pdf = url /\ x.page <= d.page + 1
                                                   /\ (x.page = d.page + 1 => ~x.busy)
<1> USE DEF DocumentInv, docVars, scaleVars, findVars, viewerHistory
<1>1. /\ d \in Drawing /\ drawings \subseteq Drawing /\ d.page \in 1..d.pages /\ d.pages \in 1..MaxPages
      /\ url \in Pdfs /\ NoPdf \notin Pdfs
  BY DEF ViewerTypeOK, Drawing, PageNumbers, Pdfs, NoPdf
<1>2. UNCHANGED <<url, loads, pdfDoc, alive, numPages, renderScale, cssZoom, displayScale,
                  findQuery, redrawn, mixed, partial>>
  BY DEF Draws, EndDrawing, BeginPage, SkipPage, FinishPage
<1>3. d.new \in SUBSET (PageNumbers \X Queries) /\ Marked(d) \in SUBSET (PageNumbers \X Queries)
  BY <1>1, MarkedType DEF ViewerTypeOK
<1>4. (BeginPage(d) \/ FinishPage(d)) => d.pdf = url
  BY <1>1 DEF BeginPage, FinishPage, OneDocument, OthersEnd
<1>5. EndDrawing(d) => d.pdf # url
  BY <1>1 DEF EndDrawing, OneDocument, OthersEnd
<1> DEFINE Goes ==
      /\ drawings \ {d} \subseteq drawings'
      /\ \A x \in drawings' : x \in drawings \ {d} \/
           /\ x.pdf = d.pdf /\ x.pages = d.pages
           /\ x.busy => d.pdf = url /\ x.page = d.page
           /\ ~x.busy => x.page = d.page + 1
      /\ (d.pdf = url /\ d.page < d.pages) => \E x \in drawings' : x.pdf = url /\ x.page <= d.page + 1
                                                /\ (x.page = d.page + 1 => ~x.busy)
<1>6. ASSUME NEW marked \in SUBSET (PageNumbers \X Queries), LeavePage(d, marked)
      PROVE  Goes
  <2>1. ASSUME d.page = d.pages, drawings' = drawings \ {d} PROVE Goes
    BY <1>1, <2>1
  <2>2. ASSUME NEW e \in Drawing, drawings' = (drawings \ {d}) \cup {e}, Follows(e, d, marked)
        PROVE  Goes
    BY <1>1, <2>2 DEF Follows
  <2>3. QED
    BY <1>1, <1>6, <2>1, <2>2, LeftPage
<1>7. ASSUME EndDrawing(d) PROVE Goes
  BY <1>5, <1>7 DEF EndDrawing
<1>8. ASSUME BeginPage(d) PROVE Goes
  <2>1. ASSUME Taken(d.page) PROVE Goes
    BY <1>3, <1>6, <1>8, <2>1 DEF BeginPage
  <2>2. ASSUME ~Taken(d.page) PROVE Goes
    <3> DEFINE e == [d EXCEPT !.busy = TRUE, !.cancelled = FALSE]
    <3>1. drawings' = (drawings \ {d}) \cup {e}
      BY <1>8, <2>2 DEF BeginPage
    <3>2. e.pdf = d.pdf /\ e.pages = d.pages /\ e.page = d.page /\ e.busy
      BY <1>1 DEF Drawing
    <3>3. e \in drawings' /\ d.pdf = url /\ e.page <= d.page + 1 /\ e.page # d.page + 1
      BY <1>1, <1>4, <1>8, <3>1, <3>2
    <3>4. /\ drawings \ {d} \subseteq drawings'
          /\ \A x \in drawings' : x \in drawings \ {d} \/ x = e
      BY <3>1
    <3> HIDE DEF e
    <3>5. QED
      BY <3>2, <3>3, <3>4
  <2>3. QED
    BY <2>1, <2>2
<1>9. ASSUME SkipPage(d) PROVE Goes
  BY <1>3, <1>6, <1>9 DEF SkipPage
<1>10. ASSUME FinishPage(d) PROVE Goes
  BY <1>3, <1>6, <1>10 DEF FinishPage
<1>11. Goes
  BY <1>7, <1>8, <1>9, <1>10 DEF Draws
<1>12. QED
  BY <1>1, <1>2, <1>3, <1>4, <1>5, <1>11

\* What a call of renderAll for the document finds, and leaves behind.
LEMMA StartedForDocument ==
  ASSUME DocumentInv, OthersEnd, url' = url, NEW count \in PageNumbers, NEW scale \in Scales,
         pdfDoc' = url, redrawn', numPages' = count, StartDrawing(url, count, scale),
         pdfDoc = url \/ \A d \in drawings : d.pdf # url /\ ~d.busy, pdfDoc = url => count = numPages
  PROVE  /\ OthersEnd' /\ PagesCleared'
         /\ \E s \in drawings' :
              /\ s.pdf = url /\ s.scale = scale /\ s.page = 1
              /\ ~s.busy /\ ~s.cancelled /\ s.new = {}
              /\ (\A d \in drawings : d.pdf # url) => \A e \in drawings' : e.pdf = url => e = s
<1> USE DEF DocumentInv
<1>1. url \in Pdfs /\ url <= url /\ drawings \subseteq Drawing
  BY DEF ViewerTypeOK, Pdfs
<1>2. PICK s \in drawings' :
        /\ s.pdf = url /\ s.pages = count /\ s.scale = scale /\ s.page = 1
        /\ ~s.busy /\ ~s.cancelled /\ s.new = {}
        /\ \A e \in drawings' : e = s \/ \E d \in drawings :
             /\ e.pdf = d.pdf /\ e.busy = d.busy /\ e.page = d.page /\ e.pages = d.pages
             /\ e.cancelled
  BY <1>1, StartedDrawing
<1>3. OthersEnd'
  <2>1. ASSUME NEW e \in drawings'
        PROVE  /\ e.pdf <= url /\ (e.busy => e.pdf = url)
               /\ e.pdf = url => e.pages = count
    <3>1. CASE e = s
      BY <1>1, <1>2, <3>1
    <3>2. CASE pdfDoc = url
      BY <1>1, <1>2, <3>1, <3>2 DEF OthersEnd, Pdfs, NoPdf
    <3>3. CASE \A d \in drawings : d.pdf # url /\ ~d.busy
      BY <1>2, <3>1, <3>3 DEF OthersEnd
    <3>4. QED
      BY <3>2, <3>3
  <2>2. QED
    BY <2>1 DEF OthersEnd
<1>4. PagesCleared'
  <2> SUFFICES ASSUME NEW i \in 1..count PROVE Reaches(s, i)'
    BY <1>2 DEF PagesCleared
  <2>1. QED
    BY <1>2 DEF Reaches, OwnDrawing
<1>5. QED
  BY <1>2, <1>3, <1>4

---------------------------------------------------------------------------
(* Only the drawings of the document draw.                                 *)

LEMMA OthersStay ==
  ASSUME DocumentInv, OthersEnd, [ViewerNext]_viewerVars
  PROVE  OthersEnd'
<1> USE DEF DocumentInv, docVars, scaleVars, findVars, viewerHistory
<1>i. drawings \subseteq Drawing /\ url \in Nat /\ url \in Pdfs
  BY DEF ViewerTypeOK, Pdfs
<1>1. CASE NewUrl
  <2>1. url' = url + 1 /\ pdfDoc' = NoPdf /\ drawings' = Cancelled(drawings)
    BY <1>1 DEF NewUrl
  <2>2. \A e \in drawings' : e.cancelled /\ e.pdf <= url /\ e.pdf \in Nat
    BY <1>i, <2>1, CancelledDrawing DEF OthersEnd, Drawing, Pdfs
  <2>3. QED
    BY <1>i, <2>1, <2>2 DEF OthersEnd
<1>2. CASE Loaded
  <2>1. PICK pdf \in loads :
          /\ pdfDoc' = pdf /\ numPages' = PageCount[pdf] /\ redrawn' = (numPages' # numPages)
          /\ IF numPages' = numPages
             THEN UNCHANGED <<drawings, marks, found>>
             ELSE StartDrawing(pdf, numPages', renderScale) /\ MarkAll(findQuery, numPages')
          /\ UNCHANGED url
    BY <1>2 DEF Loaded
  <2>2. pdf = url /\ pdfDoc = NoPdf /\ NoPdf \notin Pdfs /\ numPages' \in PageNumbers
        /\ renderScale \in Scales
    BY <2>1 DEF ViewerTypeOK, Pdfs, NoPdf, PageNumbers
  <2>3. \A d \in drawings : d.pdf # url /\ ~d.busy
    BY <1>i, <1>2, <2>2 DEF OthersEnd, Loaded
  <2>4. CASE numPages' = numPages
    BY <2>1, <2>3, <2>4 DEF OthersEnd
  <2>5. CASE numPages' # numPages
    BY <1>i, <2>1, <2>2, <2>3, <2>5, StartedForDocument
  <2>6. QED
    BY <2>4, <2>5
<1>3. CASE LoadFails
  BY <1>3 DEF LoadFails, OthersEnd
<1>4. ASSUME NEW d \in drawings, Draws(d) PROVE OthersEnd'
  <2>1. /\ UNCHANGED <<url, pdfDoc, numPages, redrawn>>
        /\ \A x \in drawings' : x \in drawings \/
             (x.pdf = d.pdf /\ x.pages = d.pages /\ (x.busy => d.pdf = url))
    BY <1>4, DrawingGoesOn
  <2>2. QED
    BY <2>1 DEF OthersEnd
<1>r. ASSUME NEW s \in Scales, Rescale(s), UNCHANGED <<url, pdfDoc, numPages>>
      PROVE  OthersEnd'
  <2>1. CASE s # renderScale /\ numPages > 0 /\ pdfDoc # NoPdf
    <3>1. StartDrawing(pdfDoc, numPages, s) /\ redrawn' /\ pdfDoc = url /\ numPages \in PageNumbers
      BY <1>r, <2>1 DEF Rescale, ViewerTypeOK, OneDocument, PageNumbers
    <3>2. QED
      BY <1>r, <3>1, StartedForDocument
  <2>2. CASE ~(s # renderScale /\ numPages > 0 /\ pdfDoc # NoPdf)
    BY <1>r, <2>2 DEF Rescale, OthersEnd
  <2>3. QED
    BY <2>1, <2>2
<1>5. ASSUME NEW s \in Scales, ApplyScale(s) PROVE OthersEnd'
  BY <1>5, <1>r, ClampType DEF ApplyScale, Scales
<1>6. ASSUME NEW delta \in {-1, 1}, Wheel(delta) PROVE OthersEnd'
  BY <1>6 DEF Wheel, OthersEnd
<1>7. CASE CommitZoom
  <2>1. Clamp(renderScale + cssZoom) \in Scales
    BY ClampType DEF ViewerTypeOK, Scales
  <2>2. QED
    BY <1>7, <1>r, <2>1 DEF CommitZoom
<1>8. ASSUME NEW q \in Queries, Find(q) PROVE OthersEnd'
  BY <1>8 DEF Find, OthersEnd
<1>9. CASE UNCHANGED viewerVars
  BY <1>9 DEF viewerVars, OthersEnd
<1>10. QED
  BY <1>1, <1>2, <1>3, <1>4, <1>5, <1>6, <1>7, <1>8, <1>9 DEF ViewerNext, Draws

---------------------------------------------------------------------------
(* Every page gets rid of what another document left on it.                *)

LEMMA ClearedStays ==
  ASSUME DocumentInv, OthersEnd, PagesCleared, [ViewerNext]_viewerVars
  PROVE  PagesCleared'
<1> USE DEF DocumentInv, docVars, scaleVars, findVars, viewerHistory
<1>i. drawings \subseteq Drawing /\ url \in Nat /\ url \in Pdfs /\ canvas \in [PageNumbers -> Canvas]
      /\ numPages \in 0..MaxPages /\ MaxPages \in Nat
  BY DEF ViewerTypeOK, Pdfs
<1>1. CASE NewUrl
  BY <1>1 DEF NewUrl, PagesCleared
<1>2. CASE Loaded
  <2>1. PICK pdf \in loads :
          /\ pdfDoc' = pdf /\ numPages' = PageCount[pdf] /\ redrawn' = (numPages' # numPages)
          /\ IF numPages' = numPages
             THEN UNCHANGED <<drawings, marks, found>>
             ELSE StartDrawing(pdf, numPages', renderScale) /\ MarkAll(findQuery, numPages')
          /\ UNCHANGED url
    BY <1>2 DEF Loaded
  <2>2. pdf = url /\ pdfDoc = NoPdf /\ NoPdf \notin Pdfs /\ numPages' \in PageNumbers
        /\ renderScale \in Scales
    BY <2>1 DEF ViewerTypeOK, Pdfs, NoPdf, PageNumbers
  <2>3. \A d \in drawings : d.pdf # url /\ ~d.busy
    BY <1>i, <1>2, <2>2 DEF OthersEnd, Loaded
  <2>4. CASE numPages' = numPages
    BY <2>1, <2>4 DEF PagesCleared
  <2>5. CASE numPages' # numPages
    BY <1>i, <2>1, <2>2, <2>3, <2>5, StartedForDocument
  <2>6. QED
    BY <2>4, <2>5
<1>3. CASE LoadFails
  BY <1>3 DEF LoadFails, PagesCleared, Reaches, OwnDrawing
<1>4. ASSUME NEW d \in drawings, Draws(d) PROVE PagesCleared'
  <2>1. /\ UNCHANGED <<url, pdfDoc, numPages, redrawn>> /\ d \in Drawing
        /\ d.page \in 1..d.pages /\ d.pages \in 1..MaxPages
        /\ (BeginPage(d) \/ FinishPage(d)) => d.pdf = url
        /\ EndDrawing(d) => d.pdf # url
        /\ drawings \ {d} \subseteq drawings'
        /\ (d.pdf = url /\ d.page < d.pages) => \E x \in drawings' : x.pdf = url /\ x.page <= d.page + 1
                                                  /\ (x.page = d.page + 1 => ~x.busy)
        /\ \A x \in drawings' : x \in drawings \ {d} \/
             /\ x.pdf = d.pdf /\ x.pages = d.pages
             /\ x.busy => d.pdf = url /\ x.page = d.page
             /\ ~x.busy => x.page = d.page + 1
    BY <1>4, DrawingGoesOn
  <2> SUFFICES ASSUME pdfDoc # NoPdf, redrawn, NEW i \in 1..numPages
               PROVE  canvas'[i].pdf \in {url, NoPdf} \/ (\E x \in drawings : Reaches(x, i))'
    BY <2>1 DEF PagesCleared
  <2>2. i \in PageNumbers /\ canvas[i] \in Canvas /\ d.page \in PageNumbers
    BY <1>i, <2>1 DEF PageNumbers
  <2>3. canvas'[i].pdf = canvas[i].pdf \/ canvas'[i].pdf \in {url, NoPdf}
    <3>1. CASE BeginPage(d)
      BY <1>i, <2>2, <3>1 DEF BeginPage
    <3>2. CASE FinishPage(d)
      <4>1. canvas' = [canvas EXCEPT ![d.page].pdf = IF canvas[d.page].by = d.n THEN d.pdf ELSE NoPdf,
                                     ![d.page].by = 0]
        BY <3>2 DEF FinishPage, Drawn
      <4>2. canvas[d.page] \in Canvas
        BY <1>i, <2>2
      <4>3. canvas'[d.page].pdf \in {d.pdf, NoPdf}
        BY <1>i, <2>2, <4>1, <4>2 DEF Canvas
      <4>4. i # d.page => canvas'[i] = canvas[i]
        BY <1>i, <2>2, <4>1
      <4>5. QED
        BY <2>1, <3>2, <4>3, <4>4
    <3>3. CASE EndDrawing(d) \/ SkipPage(d)
      BY <3>3 DEF EndDrawing, SkipPage
    <3>4. QED
      BY <1>4, <3>1, <3>2, <3>3 DEF Draws
  <2>4. CASE canvas[i].pdf \in {url, NoPdf}
    BY <2>3, <2>4
  <2>5. ASSUME NEW x \in drawings, x # d, Reaches(x, i)
        PROVE  (\E e \in drawings : Reaches(e, i))'
    BY <2>1, <2>5 DEF Reaches, OwnDrawing
  <2>6. CASE Reaches(d, i)
    <3>1. d.pdf = url /\ d.pages = numPages
      BY <2>6 DEF Reaches, OwnDrawing, OthersEnd
    <3>2. CASE d.page < i
      <4>1. d.page < d.pages
        BY <2>1, <3>1, <3>2
      <4>2. PICK x \in drawings' : x.pdf = url /\ x.page <= d.page + 1
                                   /\ (x.page = d.page + 1 => ~x.busy)
        BY <2>1, <3>1, <4>1
      <4>3. x.page \in Nat
        BY <1>i, <2>1 DEF Drawing, PageNumbers
      <4>4. x.page < i \/ (x.page = i /\ ~x.busy)
        BY <2>1, <3>2, <4>2, <4>3
      <4>5. QED
        BY <2>1, <4>2, <4>4 DEF Reaches, OwnDrawing
    <3>3. CASE d.page = i /\ ~d.busy
      <4>1. BeginPage(d)
        BY <1>4, <2>1, <3>1, <3>3 DEF Draws, SkipPage, FinishPage
      <4>2. canvas'[i].pdf = NoPdf
        BY <1>i, <2>2, <3>3, <4>1 DEF BeginPage
      <4>3. QED
        BY <4>2
    <3>4. QED
      BY <2>6, <3>2, <3>3 DEF Reaches
  <2>7. QED
    BY <2>4, <2>5, <2>6 DEF PagesCleared
<1>r. ASSUME NEW s \in Scales, Rescale(s), UNCHANGED <<url, pdfDoc, numPages, canvas>>
      PROVE  PagesCleared'
  <2>1. CASE s # renderScale /\ numPages > 0 /\ pdfDoc # NoPdf
    <3>1. StartDrawing(pdfDoc, numPages, s) /\ redrawn' /\ pdfDoc = url /\ numPages \in PageNumbers
      BY <1>r, <2>1 DEF Rescale, ViewerTypeOK, OneDocument, PageNumbers
    <3>2. QED
      BY <1>r, <3>1, StartedForDocument
  <2>2. CASE ~(s # renderScale /\ numPages > 0 /\ pdfDoc # NoPdf)
    BY <1>r, <2>2 DEF Rescale, PagesCleared, Reaches, OwnDrawing
  <2>3. QED
    BY <2>1, <2>2
<1>5. ASSUME NEW s \in Scales, ApplyScale(s) PROVE PagesCleared'
  BY <1>5, <1>r, ClampType DEF ApplyScale, Scales
<1>6. ASSUME NEW delta \in {-1, 1}, Wheel(delta) PROVE PagesCleared'
  BY <1>6 DEF Wheel, PagesCleared, Reaches, OwnDrawing
<1>7. CASE CommitZoom
  <2>1. Clamp(renderScale + cssZoom) \in Scales
    BY ClampType DEF ViewerTypeOK, Scales
  <2>2. QED
    BY <1>7, <1>r, <2>1 DEF CommitZoom
<1>8. ASSUME NEW q \in Queries, Find(q) PROVE PagesCleared'
  BY <1>8 DEF Find, PagesCleared, Reaches, OwnDrawing
<1>9. CASE UNCHANGED viewerVars
  BY <1>9 DEF viewerVars, PagesCleared, Reaches, OwnDrawing
<1>10. QED
  BY <1>1, <1>2, <1>3, <1>4, <1>5, <1>6, <1>7, <1>8, <1>9 DEF ViewerNext, Draws

---------------------------------------------------------------------------
(* A drawing that nobody disturbed draws every page.                       *)

\* The drawing of the document, when it is alone.
LEMMA OneDraws ==
  ASSUME DocumentInv, OthersEnd, PagesDrawn, ~mixed, NEW d \in drawings, Draws(d), d.pdf = url
  PROVE  /\ pdfDoc = url /\ redrawn /\ d.pages = numPages /\ ~d.cancelled
         /\ BeginPage(d) =>
              /\ UNCHANGED found
              /\ \E e \in Drawing :
                   /\ drawings' = (drawings \ {d}) \cup {e}
                   /\ e.pdf = url /\ e.scale = d.scale /\ e.page = d.page /\ e.n = d.n
                   /\ e.busy /\ ~e.cancelled /\ e.new = d.new
         /\ BeginPage(d) \/ FinishPage(d)
         /\ FinishPage(d) => canvas' = [canvas EXCEPT ![d.page] = [pdf |-> url, scale |-> renderScale, by |-> 0]]
<1> USE DEF DocumentInv
<1>1. d \in Drawing /\ drawings \subseteq Drawing /\ d.page \in PageNumbers /\ canvas \in [PageNumbers -> Canvas]
  BY DEF ViewerTypeOK, Drawing
<1>2. pdfDoc = url /\ redrawn /\ d.pages = numPages /\ ~d.cancelled
  BY DEF OthersEnd, PagesDrawn
<1>3. BeginPage(d) \/ FinishPage(d)
  BY <1>2, DrawingGoesOn DEF Draws, SkipPage
<1>4. ASSUME BeginPage(d)
      PROVE  /\ UNCHANGED found
             /\ \E e \in Drawing :
                  /\ drawings' = (drawings \ {d}) \cup {e}
                  /\ e.pdf = url /\ e.scale = d.scale /\ e.page = d.page /\ e.n = d.n
                  /\ e.busy /\ ~e.cancelled /\ e.new = d.new
  <2> DEFINE e == [d EXCEPT !.busy = TRUE, !.cancelled = FALSE]
  <2>1. ~Taken(d.page)
    <3> SUFFICES ASSUME NEW x \in drawings, x.busy, ~x.cancelled PROVE FALSE
      BY DEF Taken
    <3>1. x.pdf = url /\ x = d
      BY DEF OthersEnd, PagesDrawn
    <3>2. QED
      BY <1>4, <3>1 DEF BeginPage
  <2>2. drawings' = (drawings \ {d}) \cup {e} /\ UNCHANGED found
    BY <1>4, <2>1 DEF BeginPage
  <2>3. /\ e \in Drawing /\ e.pdf = url /\ e.scale = d.scale /\ e.page = d.page /\ e.n = d.n
        /\ e.busy /\ ~e.cancelled /\ e.new = d.new
    BY <1>1 DEF Drawing
  <2>4. QED
    BY <2>2, <2>3
<1>5. ASSUME FinishPage(d)
      PROVE  canvas' = [canvas EXCEPT ![d.page] = [pdf |-> url, scale |-> renderScale, by |-> 0]]
  <2>1. canvas[d.page] = [pdf |-> NoPdf, scale |-> d.scale, by |-> d.n] /\ d.scale = renderScale
    BY <1>5 DEF PagesDrawn, FinishPage
  <2>2. canvas' = [canvas EXCEPT ![d.page].pdf = IF canvas[d.page].by = d.n THEN d.pdf ELSE NoPdf,
                                 ![d.page].by = 0]
    BY <1>5 DEF FinishPage, Drawn
  <2>3. canvas[d.page].by = d.n /\ canvas[d.page].scale = renderScale
    BY <2>1
  <2>4. canvas' = [canvas EXCEPT ![d.page].pdf = url, ![d.page].by = 0]
    BY <2>2, <2>3
  <2> DEFINE done == [pdf |-> url, scale |-> renderScale, by |-> 0]
  <2>5. canvas' \in [PageNumbers -> Canvas] /\ canvas' = [canvas EXCEPT ![d.page] = canvas'[d.page]]
    BY <1>1, <1>5, <2>4, CanvasTypes DEF FinishPage
  <2>6. canvas'[d.page] = done
    <3>1. canvas[d.page] \in Canvas /\ canvas'[d.page] \in Canvas /\ done \in Canvas
      BY <1>1, <2>5 DEF Canvas, ViewerTypeOK
    <3>2. canvas'[d.page].pdf = url /\ canvas'[d.page].by = 0 /\ canvas'[d.page].scale = renderScale
      BY <1>1, <2>3, <2>4, <3>1 DEF Canvas
    <3>3. QED
      BY <3>1, <3>2 DEF Canvas
  <2>7. QED
    BY <2>5, <2>6
<1>6. QED
  BY <1>2, <1>3, <1>4, <1>5

LEMMA DrawnStays ==
  ASSUME DocumentInv, OthersEnd, PagesDrawn, [ViewerNext]_viewerVars
  PROVE  PagesDrawn'
<1> USE DEF DocumentInv, docVars, scaleVars, findVars, viewerHistory
<1>i. drawings \subseteq Drawing /\ url \in Nat /\ url \in Pdfs /\ canvas \in [PageNumbers -> Canvas]
      /\ numPages \in 0..MaxPages /\ MaxPages \in Nat
  BY DEF ViewerTypeOK, Pdfs
<1>1. CASE NewUrl
  <2>1. url' = url + 1 /\ pdfDoc' = NoPdf /\ drawings' = Cancelled(drawings)
    BY <1>1 DEF NewUrl
  <2>2. \A e \in drawings' : e.pdf <= url /\ e.pdf \in Nat
    BY <1>i, <2>1, CancelledDrawing DEF OthersEnd, Drawing, Pdfs
  <2>3. \A e \in drawings' : e.pdf # url'
    BY <1>i, <2>1, <2>2
  <2>4. QED
    BY <2>1, <2>3 DEF PagesDrawn
<1>2. CASE Loaded
  <2>1. PICK pdf \in loads :
          /\ pdfDoc' = pdf /\ numPages' = PageCount[pdf] /\ redrawn' = (numPages' # numPages)
          /\ IF numPages' = numPages
             THEN UNCHANGED <<drawings, marks, found>>
             ELSE StartDrawing(pdf, numPages', renderScale) /\ MarkAll(findQuery, numPages')
          /\ UNCHANGED <<url, scaleVars>>
    BY <1>2 DEF Loaded
  <2>2. pdf = url /\ pdfDoc = NoPdf /\ NoPdf \notin Pdfs /\ numPages' \in PageNumbers
        /\ renderScale \in Scales
    BY <2>1 DEF ViewerTypeOK, Pdfs, NoPdf, PageNumbers
  <2>3. \A d \in drawings : d.pdf # url /\ ~d.busy
    BY <1>i, <1>2, <2>2 DEF OthersEnd, Loaded
  <2>4. CASE numPages' = numPages
    BY <2>1, <2>3, <2>4 DEF PagesDrawn
  <2>5. CASE numPages' # numPages
    <3>s. /\ StartDrawing(url, numPages', renderScale) /\ url' = url /\ pdfDoc' = url /\ redrawn'
          /\ pdfDoc # url
      BY <1>i, <2>1, <2>2, <2>5
    <3>1. PICK s \in drawings' :
            /\ s.pdf = url /\ s.scale = renderScale /\ s.page = 1 /\ ~s.busy /\ ~s.cancelled
            /\ \A e \in drawings' : e.pdf = url => e = s
      BY <2>2, <2>3, <3>s, StartedForDocument
    <3>2. DrawnTo(s.page - 1)'
      BY <3>1 DEF DrawnTo
    <3>3. QED
      BY <2>1, <3>1, <3>2 DEF PagesDrawn
  <2>6. QED
    BY <2>4, <2>5
<1>3. CASE LoadFails
  BY <1>3 DEF LoadFails, PagesDrawn, DrawnTo
<1>4. ASSUME NEW d \in drawings, Draws(d) PROVE PagesDrawn'
  <2>1. /\ UNCHANGED <<url, pdfDoc, numPages, redrawn, renderScale, mixed>> /\ d \in Drawing
        /\ d.page \in 1..d.pages /\ d.pages \in 1..MaxPages
        /\ Marked(d) \in SUBSET (PageNumbers \X Queries)
        /\ (BeginPage(d) \/ FinishPage(d)) => d.pdf = url
        /\ drawings \ {d} \subseteq drawings'
        /\ \A x \in drawings' : x \in drawings \ {d} \/ x.pdf = d.pdf
    BY <1>4, DrawingGoesOn
  <2> SUFFICES ASSUME ~mixed PROVE PagesDrawn'
    BY <2>1 DEF PagesDrawn
  <2>2. CASE d.pdf # url
    <3>1. UNCHANGED canvas
      BY <1>4, <2>1, <2>2 DEF Draws, EndDrawing, SkipPage
    <3>2. \A x \in drawings' : x.pdf = url => x \in drawings
      BY <2>1, <2>2
    <3>3. (\A x \in drawings' : x.pdf # url) => \A x \in drawings : x.pdf # url
      BY <2>1, <2>2
    <3>4. QED
      BY <2>1, <3>1, <3>2, <3>3 DEF PagesDrawn, DrawnTo
  <2>3. CASE d.pdf = url
    <3>1. /\ pdfDoc = url /\ redrawn /\ d.pages = numPages /\ ~d.cancelled
          /\ d.scale = renderScale /\ DrawnTo(d.page - 1)
          /\ \A x \in drawings : x.pdf = url => x = d
      BY <2>3 DEF OthersEnd, PagesDrawn
    <3>2. d.page \in PageNumbers /\ d.page \in Nat /\ \A i \in 1..d.page : i \in PageNumbers
      BY <2>1 DEF PageNumbers
    <3>3. CASE BeginPage(d)
      <4>1. PICK e \in Drawing :
              /\ drawings' = (drawings \ {d}) \cup {e}
              /\ e.pdf = url /\ e.scale = d.scale /\ e.page = d.page /\ e.n = d.n /\ ~e.cancelled
        BY <1>4, <2>3, <3>3, OneDraws
      <4>2. canvas' = [canvas EXCEPT ![d.page] = [pdf |-> NoPdf, scale |-> d.scale, by |-> d.n]]
        BY <3>3 DEF BeginPage
      <4>3. canvas'[d.page] = [pdf |-> NoPdf, scale |-> d.scale, by |-> d.n]
        BY <1>i, <3>2, <4>2
      <4>4. ASSUME NEW i \in 1..(d.page - 1)
            PROVE  canvas'[i] = [pdf |-> url, scale |-> renderScale, by |-> 0]
        <5>1. i \in PageNumbers /\ i # d.page
          BY <3>2, <2>1 DEF PageNumbers
        <5>2. QED
          BY <1>i, <3>1, <4>2, <5>1 DEF DrawnTo
      <4>5. DrawnTo(e.page - 1)'
        BY <2>1, <4>1, <4>4 DEF DrawnTo
      <4>6. \A x \in drawings' : x.pdf = url => x = e
        BY <3>1, <4>1
      <4>7. e \in drawings'
        BY <4>1
      <4>8. QED
        BY <2>1, <3>1, <4>1, <4>3, <4>5, <4>6, <4>7 DEF PagesDrawn
    <3>4. CASE FinishPage(d)
      <4>1. canvas' = [canvas EXCEPT ![d.page] = [pdf |-> url, scale |-> renderScale, by |-> 0]]
        BY <1>4, <2>3, <3>4, OneDraws
      <4>2. ASSUME NEW i \in 1..d.page
            PROVE  canvas'[i] = [pdf |-> url, scale |-> renderScale, by |-> 0]
        <5>1. CASE i = d.page
          BY <1>i, <3>2, <4>1, <5>1
        <5>2. CASE i # d.page
          <6>1. i \in 1..(d.page - 1) /\ i \in PageNumbers
            BY <3>2, <5>2
          <6>2. QED
            BY <1>i, <3>1, <4>1, <5>2, <6>1 DEF DrawnTo
        <5>3. QED
          BY <5>1, <5>2
      <4>3. DrawnTo(d.page)'
        BY <2>1, <4>2 DEF DrawnTo
      <4>4. LeavePage(d, Marked(d)) /\ drawings \subseteq Drawing /\ d.page <= d.pages
        BY <1>i, <2>1, <3>4 DEF FinishPage
      <4>5. CASE d.page = d.pages /\ drawings' = drawings \ {d}
        <5>1. \A x \in drawings' : x.pdf # url
          BY <3>1, <4>5
        <5>2. DrawnTo(numPages)'
          BY <2>1, <3>1, <4>3, <4>5
        <5>3. QED
          BY <2>1, <5>1, <5>2 DEF PagesDrawn
      <4>6. ASSUME NEW e \in Drawing, drawings' = (drawings \ {d}) \cup {e}, Follows(e, d, Marked(d))
            PROVE  PagesDrawn'
        <5>1. e.pdf = url /\ ~e.cancelled /\ e.scale = renderScale /\ ~e.busy /\ e.page - 1 = d.page
          BY <2>3, <3>1, <3>2, <4>6 DEF Follows
        <5>2. e \in drawings' /\ \A x \in drawings' : x.pdf = url => x = e
          BY <3>1, <4>6
        <5>3. DrawnTo(e.page - 1)'
          BY <4>3, <5>1
        <5>4. QED
          BY <2>1, <5>1, <5>2, <5>3 DEF PagesDrawn
      <4>7. QED
        BY <2>1, <4>4, <4>5, <4>6, LeftPage
    <3>5. QED
      BY <1>4, <2>3, <3>3, <3>4, OneDraws
  <2>4. QED
    BY <2>2, <2>3
<1>r. ASSUME NEW s \in Scales, Rescale(s), UNCHANGED <<url, pdfDoc, numPages, canvas>>
      PROVE  PagesDrawn'
  <2>1. CASE s # renderScale /\ numPages > 0 /\ pdfDoc # NoPdf
    <3>1. /\ StartDrawing(pdfDoc, numPages, s) /\ redrawn' /\ pdfDoc = url /\ numPages \in PageNumbers
          /\ mixed' = BeingDrawn /\ renderScale' = s
      BY <1>r, <2>1 DEF Rescale, ViewerTypeOK, OneDocument, PageNumbers
    <3> SUFFICES ASSUME ~mixed' PROVE PagesDrawn'
      BY DEF PagesDrawn
    <3>2. \A d \in drawings : d.pdf # url
      BY <3>1 DEF BeingDrawn
    <3>3. PICK e \in drawings' :
            /\ e.pdf = url /\ e.scale = s /\ e.page = 1 /\ ~e.busy /\ ~e.cancelled
            /\ \A x \in drawings' : x.pdf = url => x = e
      BY <1>r, <3>1, <3>2, StartedForDocument
    <3>4. DrawnTo(e.page - 1)'
      BY <3>3 DEF DrawnTo
    <3>5. QED
      BY <1>r, <3>1, <3>3, <3>4 DEF PagesDrawn
  <2>2. CASE ~(s # renderScale /\ numPages > 0 /\ pdfDoc # NoPdf)
    <3>1. UNCHANGED <<drawings, redrawn, mixed>> /\ renderScale' = s
      BY <1>r, <2>2 DEF Rescale
    <3>2. CASE pdfDoc = NoPdf
      <4>1. \A d \in drawings : d.pdf # url
        BY <1>i, <3>2 DEF OthersEnd, Pdfs, NoPdf
      <4>2. QED
        BY <1>r, <3>1, <3>2, <4>1 DEF PagesDrawn
    <3>3. CASE pdfDoc # NoPdf
      <4>1. pdfDoc \in Pdfs /\ numPages = PageCount[pdfDoc]
        BY <3>3 DEF ViewerTypeOK
      <4>2. s = renderScale
        BY <2>2, <3>3, <4>1
      <4>3. QED
        BY <1>r, <3>1, <4>2 DEF PagesDrawn, DrawnTo
    <3>4. QED
      BY <3>2, <3>3
  <2>3. QED
    BY <2>1, <2>2
<1>5. ASSUME NEW s \in Scales, ApplyScale(s) PROVE PagesDrawn'
  BY <1>5, <1>r, ClampType DEF ApplyScale, Scales
<1>6. ASSUME NEW delta \in {-1, 1}, Wheel(delta) PROVE PagesDrawn'
  BY <1>6 DEF Wheel, PagesDrawn, DrawnTo
<1>7. CASE CommitZoom
  <2>1. Clamp(renderScale + cssZoom) \in Scales
    BY ClampType DEF ViewerTypeOK, Scales
  <2>2. QED
    BY <1>7, <1>r, <2>1 DEF CommitZoom
<1>8. ASSUME NEW q \in Queries, Find(q) PROVE PagesDrawn'
  BY <1>8 DEF Find, PagesDrawn, DrawnTo
<1>9. CASE UNCHANGED viewerVars
  BY <1>9 DEF viewerVars, PagesDrawn, DrawnTo
<1>10. QED
  BY <1>1, <1>2, <1>3, <1>4, <1>5, <1>6, <1>7, <1>8, <1>9 DEF ViewerNext, Draws

---------------------------------------------------------------------------
(* The marks, and what the find bar counts.                                *)

\* What is counted with one more page.
LEMMA OneMoreCounted ==
  ASSUME NEW d \in Drawing, d.new = CountedTo(d.page - 1)
  PROVE  Marked(d) = CountedTo(d.page)
<1>1. d.page \in Nat \ {0}
  BY DEF Drawing, PageNumbers
<1>2. CASE findQuery = NoQuery
  BY <1>2 DEF Marked, CountedTo
<1>3. CASE findQuery # NoQuery
  <2>1. 1..d.page = (1..(d.page - 1)) \cup {d.page}
    BY <1>1
  <2>2. (1..d.page) \X {findQuery} = ((1..(d.page - 1)) \X {findQuery}) \cup {<<d.page, findQuery>>}
    BY <2>1
  <2>3. QED
    BY <1>3, <2>2 DEF Marked, CountedTo
<1>4. QED
  BY <1>2, <1>3

LEMMA CountStays ==
  ASSUME DocumentInv, OthersEnd, PagesDrawn, MarksCounted, PagesMarked, [ViewerNext]_viewerVars
  PROVE  MarksCounted'
<1> USE DEF DocumentInv, docVars, scaleVars, findVars, viewerHistory
<1>i. drawings \subseteq Drawing /\ url \in Nat /\ url \in Pdfs
      /\ numPages \in 0..MaxPages /\ MaxPages \in Nat
  BY DEF ViewerTypeOK, Pdfs
<1>1. CASE NewUrl
  <2>1. url' = url + 1 /\ pdfDoc' = NoPdf /\ drawings' = Cancelled(drawings)
    BY <1>1 DEF NewUrl
  <2>2. \A e \in drawings' : e.pdf <= url /\ e.pdf \in Nat
    BY <1>i, <2>1, CancelledDrawing DEF OthersEnd, Drawing, Pdfs
  <2>3. \A e \in drawings' : e.pdf # url'
    BY <1>i, <2>1, <2>2
  <2>4. QED
    BY <2>1, <2>3 DEF MarksCounted
<1>2. CASE Loaded
  <2>1. PICK pdf \in loads :
          /\ pdfDoc' = pdf /\ numPages' = PageCount[pdf] /\ redrawn' = (numPages' # numPages)
          /\ mixed' = FALSE
          /\ IF numPages' = numPages
             THEN UNCHANGED <<drawings, marks, found>>
             ELSE StartDrawing(pdf, numPages', renderScale) /\ MarkAll(findQuery, numPages')
          /\ UNCHANGED <<url, scaleVars>>
    BY <1>2 DEF Loaded
  <2>2. pdf = url /\ pdfDoc = NoPdf /\ NoPdf \notin Pdfs /\ numPages' \in PageNumbers
        /\ renderScale \in Scales
    BY <2>1 DEF ViewerTypeOK, Pdfs, NoPdf, PageNumbers
  <2>3. \A d \in drawings : d.pdf # url /\ ~d.busy
    BY <1>i, <1>2, <2>2 DEF OthersEnd, Loaded
  <2>4. CASE numPages' = numPages
    BY <2>1, <2>3, <2>4 DEF MarksCounted
  <2>5. CASE numPages' # numPages
    <3>s. /\ StartDrawing(url, numPages', renderScale) /\ url' = url /\ pdfDoc' = url /\ redrawn'
          /\ pdfDoc # url
      BY <1>i, <2>1, <2>2, <2>5
    <3>1. PICK s \in drawings' :
            /\ s.pdf = url /\ s.page = 1 /\ s.new = {}
            /\ \A e \in drawings' : e.pdf = url => e = s
      BY <2>2, <2>3, <3>s, StartedForDocument
    <3>2. s.new = CountedTo(s.page - 1)'
      BY <3>1 DEF CountedTo
    <3>3. QED
      BY <2>1, <3>1, <3>2 DEF MarksCounted
  <2>6. QED
    BY <2>4, <2>5
<1>3. CASE LoadFails
  BY <1>3 DEF LoadFails, MarksCounted, CountedTo
<1>4. ASSUME NEW d \in drawings, Draws(d) PROVE MarksCounted'
  <2>1. /\ UNCHANGED <<url, pdfDoc, numPages, redrawn, mixed, partial, findQuery>> /\ d \in Drawing
        /\ d.page \in 1..d.pages /\ d.pages \in 1..MaxPages
        /\ Marked(d) \in SUBSET (PageNumbers \X Queries)
        /\ (BeginPage(d) \/ FinishPage(d)) => d.pdf = url
        /\ drawings \ {d} \subseteq drawings'
        /\ \A x \in drawings' : x \in drawings \ {d} \/ x.pdf = d.pdf
    BY <1>4, DrawingGoesOn
  <2> SUFFICES ASSUME ~partial PROVE MarksCounted'
    BY <2>1 DEF MarksCounted
  <2>2. CASE d.pdf # url
    <3>1. EndDrawing(d) \/ SkipPage(d)
      BY <1>4, <2>1, <2>2 DEF Draws
    <3>2. pdfDoc = NoPdf \/ UNCHANGED found
      BY <2>2, <3>1 DEF EndDrawing, SkipPage, OthersEnd
    <3>3. \A x \in drawings' : x.pdf = url => x \in drawings
      BY <2>1, <2>2
    <3>4. (\A x \in drawings' : x.pdf # url) => \A x \in drawings : x.pdf # url
      BY <2>1, <2>2
    <3>5. QED
      BY <2>1, <3>2, <3>3, <3>4 DEF MarksCounted, CountedTo
  <2>3. CASE d.pdf = url
    <3>1. ~mixed /\ d.new = CountedTo(d.page - 1)
      BY <2>3 DEF MarksCounted
    <3>2. /\ pdfDoc = url /\ redrawn /\ d.pages = numPages
          /\ \A x \in drawings : x.pdf = url => x = d
      BY <2>3, <3>1 DEF OthersEnd, PagesDrawn
    <3>3. CASE BeginPage(d)
      <4>1. PICK e \in Drawing :
              /\ drawings' = (drawings \ {d}) \cup {e} /\ e.pdf = url /\ e.page = d.page /\ e.new = d.new
        BY <1>4, <2>3, <3>1, <3>3, OneDraws
      <4>2. e \in drawings' /\ \A x \in drawings' : x.pdf = url => x = e
        BY <3>2, <4>1
      <4>3. e.new = CountedTo(e.page - 1)'
        BY <2>1, <3>1, <4>1 DEF CountedTo
      <4>4. QED
        BY <2>1, <3>1, <4>1, <4>2, <4>3 DEF MarksCounted
    <3>4. CASE FinishPage(d)
      <4>1. LeavePage(d, Marked(d)) /\ drawings \subseteq Drawing /\ d.page <= d.pages
        BY <1>i, <2>1, <3>4 DEF FinishPage
      <4>2. Marked(d) = CountedTo(d.page)
        BY <2>1, <3>1, OneMoreCounted
      <4>3. ASSUME d.page = d.pages, drawings' = drawings \ {d},
                   found' = IF findQuery # NoQuery THEN Marked(d) ELSE found
            PROVE  MarksCounted'
        <5>1. \A x \in drawings' : x.pdf # url
          BY <3>2, <4>3
        <5>2. found' = CountedTo(numPages)'
          <6>1. found' = CountedTo(numPages)
            <7>1. CASE findQuery # NoQuery
              BY <3>2, <4>2, <4>3, <7>1
            <7>2. CASE findQuery = NoQuery
              BY <4>3, <7>2 DEF CountedTo, PagesMarked
            <7>3. QED
              BY <7>1, <7>2
          <6>2. QED
            BY <2>1, <6>1 DEF CountedTo
        <5>3. QED
          BY <5>1, <5>2, <2>1 DEF MarksCounted
      <4>4. ASSUME NEW e \in Drawing, drawings' = (drawings \ {d}) \cup {e}, Follows(e, d, Marked(d))
            PROVE  MarksCounted'
        <5>1. e.pdf = url /\ e.page - 1 = d.page /\ e.new = CountedTo(d.page)
          BY <2>1, <2>3, <4>2, <4>4 DEF Follows
        <5>2. e \in drawings' /\ \A x \in drawings' : x.pdf = url => x = e
          BY <3>2, <4>4
        <5>3. e.new = CountedTo(e.page - 1)'
          BY <2>1, <5>1 DEF CountedTo
        <5>4. QED
          BY <2>1, <3>1, <5>1, <5>2, <5>3 DEF MarksCounted
      <4>5. QED
        BY <2>1, <4>1, <4>3, <4>4, LeftPage
    <3>5. QED
      BY <1>4, <2>3, <3>1, <3>3, <3>4, OneDraws
  <2>4. QED
    BY <2>2, <2>3
<1>r. ASSUME NEW s \in Scales, Rescale(s), UNCHANGED <<url, pdfDoc, numPages, findQuery, found>>
      PROVE  MarksCounted'
  <2>1. CASE s # renderScale /\ numPages > 0 /\ pdfDoc # NoPdf
    <3>1. /\ StartDrawing(pdfDoc, numPages, s) /\ redrawn' /\ pdfDoc = url /\ numPages \in PageNumbers
          /\ mixed' = BeingDrawn /\ partial' = BeingDrawn
      BY <1>r, <2>1 DEF Rescale, ViewerTypeOK, OneDocument, PageNumbers
    <3> SUFFICES ASSUME ~partial' PROVE MarksCounted'
      BY DEF MarksCounted
    <3>2. \A d \in drawings : d.pdf # url
      BY <3>1 DEF BeingDrawn
    <3>3. PICK e \in drawings' :
            /\ e.pdf = url /\ e.page = 1 /\ e.new = {}
            /\ \A x \in drawings' : x.pdf = url => x = e
      BY <1>r, <3>1, <3>2, StartedForDocument
    <3>4. e.new = CountedTo(e.page - 1)' /\ ~mixed'
      BY <3>1, <3>3 DEF CountedTo
    <3>5. QED
      BY <1>r, <3>3, <3>4 DEF MarksCounted
  <2>2. CASE ~(s # renderScale /\ numPages > 0 /\ pdfDoc # NoPdf)
    BY <1>r, <2>2 DEF Rescale, MarksCounted, CountedTo
  <2>3. QED
    BY <2>1, <2>2
<1>5. ASSUME NEW s \in Scales, ApplyScale(s) PROVE MarksCounted'
  BY <1>5, <1>r, ClampType DEF ApplyScale, Scales
<1>6. ASSUME NEW delta \in {-1, 1}, Wheel(delta) PROVE MarksCounted'
  BY <1>6 DEF Wheel, MarksCounted, CountedTo
<1>7. CASE CommitZoom
  <2>1. Clamp(renderScale + cssZoom) \in Scales
    BY ClampType DEF ViewerTypeOK, Scales
  <2>2. QED
    BY <1>7, <1>r, <2>1 DEF CommitZoom
<1>8. ASSUME NEW q \in Queries, Find(q) PROVE MarksCounted'
  <2>1. /\ partial' = BeingDrawn /\ findQuery' = q
        /\ UNCHANGED <<url, pdfDoc, numPages, drawings, redrawn, mixed>>
    BY <1>8 DEF Find
  <2> SUFFICES ASSUME ~partial' PROVE MarksCounted'
    BY DEF MarksCounted
  <2>2. \A d \in drawings : d.pdf # url
    BY <2>1 DEF BeingDrawn, OthersEnd
  <2>3. found' = CountedTo(numPages)'
    BY <1>8, <1>i, <2>1, MarkAllType DEF Find, ViewerTypeOK, CountedTo
  <2>4. QED
    BY <2>1, <2>2, <2>3 DEF MarksCounted
<1>9. CASE UNCHANGED viewerVars
  BY <1>9 DEF viewerVars, MarksCounted, CountedTo
<1>10. QED
  BY <1>1, <1>2, <1>3, <1>4, <1>5, <1>6, <1>7, <1>8, <1>9 DEF ViewerNext, Draws

LEMMA MarksStay ==
  ASSUME DocumentInv, OthersEnd, PagesMarked, [ViewerNext]_viewerVars
  PROVE  PagesMarked'
<1> USE DEF DocumentInv, docVars, scaleVars, findVars, viewerHistory
<1>i. /\ renderScale \in Int /\ Scales \subseteq Int /\ drawings \subseteq Drawing
      /\ numPages \in 0..MaxPages /\ MaxPages \in Nat /\ marks \in [PageNumbers -> Queries]
      /\ renderScale + cssZoom \in Scales /\ findQuery \in Queries
  BY DEF ViewerTypeOK, Scales
<1>1. CASE NewUrl
  BY <1>1 DEF NewUrl, PagesMarked
<1>2. CASE Loaded
  <2>1. PICK pdf \in loads :
          /\ numPages' = PageCount[pdf]
          /\ IF numPages' = numPages
             THEN UNCHANGED <<drawings, marks, found>>
             ELSE StartDrawing(pdf, numPages', renderScale) /\ MarkAll(findQuery, numPages')
          /\ UNCHANGED <<scaleVars, findQuery>>
    BY <1>2 DEF Loaded
  <2>2. numPages' \in 0..MaxPages
    BY <2>1 DEF ViewerTypeOK
  <2>3. CASE numPages' = numPages
    BY <2>1, <2>3 DEF PagesMarked
  <2>4. CASE numPages' # numPages
    BY <1>i, <2>1, <2>2, <2>4, MarkAllType DEF PagesMarked
  <2>5. QED
    BY <2>3, <2>4
<1>3. CASE LoadFails
  BY <1>3 DEF LoadFails, PagesMarked
<1>4. ASSUME NEW d \in drawings, Draws(d) PROVE PagesMarked'
  <2>1. UNCHANGED <<numPages, renderScale, cssZoom, displayScale, findQuery>> /\ d \in Drawing
    BY <1>4, DrawingGoesOn
  <2>2. ASSUME NEW marked, LeavePage(d, marked) PROVE findQuery = NoQuery => found' = found
    BY <2>2 DEF LeavePage
  <2>3. findQuery = NoQuery => found' = found
    BY <1>4, <2>2 DEF Draws, EndDrawing, BeginPage, SkipPage, FinishPage
  <2>4. UNCHANGED marks \/ marks' = [marks EXCEPT ![d.page] = findQuery]
    BY <1>4 DEF Draws, EndDrawing, BeginPage, SkipPage, FinishPage
  <2>5. \A i \in 1..numPages : marks'[i] = findQuery
    BY <1>i, <2>4 DEF PagesMarked, PageNumbers
  <2>6. QED
    BY <2>1, <2>3, <2>5 DEF PagesMarked
<1>r. ASSUME NEW s \in Scales, Rescale(s), UNCHANGED <<numPages, marks, findQuery, found>>
      PROVE  PagesMarked'
  BY <1>r, <1>i DEF Rescale, PagesMarked
<1>5. ASSUME NEW s \in Scales, ApplyScale(s) PROVE PagesMarked'
  BY <1>5, <1>r, ClampType DEF ApplyScale, Scales
<1>6. ASSUME NEW delta \in {-1, 1}, Wheel(delta) PROVE PagesMarked'
  <2>1. renderScale + cssZoom + delta \in Int
    <3>1. renderScale + cssZoom \in Int
      BY <1>i
    <3>2. QED
      BY <3>1
  <2>2. displayScale' \in Int
    BY <1>6, <1>i, <2>1, ClampType DEF Wheel
  <2>3. displayScale' = renderScale' + cssZoom'
    BY <1>6, <1>i, <2>2 DEF Wheel
  <2>4. QED
    BY <1>6, <2>3 DEF Wheel, PagesMarked
<1>7. CASE CommitZoom
  <2>1. Clamp(renderScale + cssZoom) \in Scales
    BY <1>i, ClampType
  <2>2. QED
    BY <1>7, <1>r, <2>1 DEF CommitZoom
<1>8. ASSUME NEW q \in Queries, Find(q) PROVE PagesMarked'
  BY <1>8, <1>i, MarkAllType DEF Find, PagesMarked
<1>9. CASE UNCHANGED viewerVars
  BY <1>9 DEF viewerVars, PagesMarked
<1>10. QED
  BY <1>1, <1>2, <1>3, <1>4, <1>5, <1>6, <1>7, <1>8, <1>9 DEF ViewerNext, Draws

LEMMA ShownStart == ViewerInit => ShownFits
<1> SUFFICES ASSUME ViewerInit PROVE ShownFits
  OBVIOUS
<1>1. renderScale \in Int
  BY DEF ViewerInit, Scales
<1>2. drawings = {} /\ pdfDoc = NoPdf
  BY DEF ViewerInit
<1>3. OthersEnd /\ PagesCleared /\ PagesDrawn /\ MarksCounted
  BY <1>2 DEF OthersEnd, PagesCleared, PagesDrawn, MarksCounted
<1>4. PagesMarked
  BY <1>1 DEF ViewerInit, PagesMarked
<1>5. QED
  BY <1>3, <1>4 DEF ShownFits

---------------------------------------------------------------------------
(* The theorems.                                                           *)

LEMMA DocumentsHold == ViewerSpec => []DocumentInv
<1>1. ViewerInit => DocumentInv
  BY DocumentStart
<1>2. DocumentInv /\ [ViewerNext]_viewerVars => DocumentInv'
  BY DocumentsStay
<1>3. QED
  BY <1>1, <1>2, PTL DEF ViewerSpec

\* The variables of the viewer keep their types, whenever the user acts.
THEOREM ViewerTypesCorrect == ViewerSpec => []ViewerTypeOK
<1>1. DocumentInv => ViewerTypeOK
  BY DEF DocumentInv
<1>2. QED
  BY <1>1, DocumentsHold, PTL

(* However fast URLs follow each other, whatever loads late or fails, the  *)
(* viewer holds no document but that of its URL.                           *)
THEOREM ViewerHoldsOneDocument == ViewerSpec => []OneDocument
<1>1. DocumentInv => OneDocument
  BY DEF DocumentInv
<1>2. QED
  BY <1>1, DocumentsHold, PTL

(* Whenever the user zooms and searches, only the drawings of the document *)
(* draw; every page that shows another document has one of them before it; *)
(* and one that was not disturbed has drawn and counted what it passed.    *)
THEOREM DrawingsHold == ViewerSpec => [](DocumentInv /\ ShownFits)
<1>1. ViewerInit => DocumentInv /\ ShownFits
  BY DocumentStart, ShownStart
<1>2. ASSUME DocumentInv, ShownFits, [ViewerNext]_viewerVars PROVE (DocumentInv /\ ShownFits)'
  <2>1. OthersEnd /\ PagesCleared /\ PagesDrawn /\ MarksCounted /\ PagesMarked
    BY <1>2 DEF ShownFits
  <2>2. DocumentInv' /\ OthersEnd' /\ PagesCleared' /\ PagesDrawn' /\ MarksCounted' /\ PagesMarked'
    BY <1>2, <2>1, DocumentsStay, OthersStay, ClearedStays, DrawnStays, CountStays, MarksStay
  <2>3. QED
    BY <2>2 DEF ShownFits
<1>3. QED
  BY <1>1, <1>2, PTL DEF ViewerSpec

(* When nothing is under way and drawing was started, no page shows another *)
(* document, and every page is drawn at the scale of the toolbar, unless    *)
(* the scale was changed during the drawing.                                *)
THEOREM PagesAreRedrawn == ViewerSpec => []RedrawnPagesFit
<1>1. DocumentInv /\ ShownFits => RedrawnPagesFit
  <2> SUFFICES ASSUME DocumentInv, ShownFits, Quiet, pdfDoc # NoPdf, redrawn, NEW i \in 1..numPages
               PROVE  /\ canvas[i].pdf \in {url, NoPdf}
                      /\ ~mixed /\ cssZoom = 0 => canvas[i] = [pdf |-> url, scale |-> displayScale, by |-> 0]
    BY DEF RedrawnPagesFit
  <2>1. canvas[i].pdf \in {url, NoPdf}
    BY DEF ShownFits, PagesCleared, Quiet
  <2>2. ~mixed => canvas[i] = [pdf |-> url, scale |-> renderScale, by |-> 0]
    BY DEF ShownFits, PagesDrawn, DrawnTo, Quiet
  <2>3. cssZoom = 0 => displayScale = renderScale
    BY DEF DocumentInv, ViewerTypeOK, ShownFits, PagesMarked, Scales
  <2>4. QED
    BY <2>1, <2>2, <2>3
<1>2. QED
  BY <1>1, DrawingsHold, PTL

(* When nothing is under way, every page is marked for the query, and the   *)
(* find bar counts these marks, unless the query or the scale was changed   *)
(* during the drawing.                                                      *)
THEOREM MarksAreOfTheQuery == ViewerSpec => []MarksFitQuery
<1>1. DocumentInv /\ ShownFits => MarksFitQuery
  <2> SUFFICES ASSUME ShownFits, Quiet, pdfDoc # NoPdf, redrawn
               PROVE  /\ \A i \in 1..numPages : marks[i] = findQuery
                      /\ findQuery = NoQuery => found = {}
                      /\ ~partial => found = CountedTo(numPages)
    BY DEF MarksFitQuery, CountedTo
  <2>1. QED
    BY DEF ShownFits, PagesMarked, MarksCounted, Quiet
<1>2. QED
  BY <1>1, DrawingsHold, PTL

---------------------------------------------------------------------------
(* Members.                                                                *)

\* What the handlers under way have read.
HandlersFit ==
  /\ link # NoLink => link.role \in Roles
  /\ change = NoChange \/ change \in [user : Users, op : {"add", "update", "remove"},
                                      role : Roles \cup {NoRole}, found : Roles \cup {NoRole}]
  /\ accepts \in [Users -> {NoAccept} \cup [step : {"commit"}, found : Roles \cup {NoRole},
                                            uses : 0..(MaxUses - 1)]]

MembersInv == MembersTypeOK /\ HandlersFit

\* Every step keeps the types, also when rows have changed since they were read.
LEMMA MembersStay ==
  ASSUME MembersInv, [MembersNext]_memberVars
  PROVE  MembersInv'
<1> USE MembersAssumption DEF MembersInv, MembersTypeOK, HandlersFit, memberVars, memberServerVars,
                              memberPageVars
<1>1. ASSUME NEW u \in Users, NEW op \in {"add", "update", "remove"}, NEW role \in Roles \cup {NoRole},
             ChangeBegins(u, op, role)
      PROVE  MembersInv'
  BY <1>1 DEF ChangeBegins, OwnerActs
<1>2. CASE ChangeCommits
  <2>1. change.user \in Users /\ change.role \in Roles \cup {NoRole}
    BY <1>2 DEF ChangeCommits
  <2>2. perms' \in [Users -> Roles \cup {NoRole}]
    BY <1>2, <2>1 DEF ChangeCommits
  <2>3. QED
    BY <1>2, <2>2 DEF ChangeCommits
<1>3. ASSUME NEW role \in Roles, CreateLink(role) PROVE MembersInv'
  <2>1. link' = [role |-> role, uses |-> 0, expired |-> FALSE]
    BY <1>3 DEF CreateLink, NoLink
  <2>2. QED
    BY <1>3, <2>1 DEF CreateLink
<1>4. CASE RevokeLink
  BY <1>4 DEF RevokeLink, NoLink
<1>5. CASE DeleteProject
  <2>1. perms' \in [Users -> Roles \cup {NoRole}]
    BY <1>5 DEF DeleteProject
  <2>2. /\ link' = NoLink
        /\ link' \in [role : Roles \cup {NoRole}, uses : 0..MaxUses, expired : BOOLEAN]
    BY <1>5 DEF DeleteProject, NoLink
  <2>3. UNCHANGED <<change, accepts, known, status>> /\ project' \in BOOLEAN
    BY <1>5 DEF DeleteProject
  <2>4. QED
    BY <2>1, <2>2, <2>3
<1>6. CASE LinkExpires
  BY <1>6 DEF LinkExpires
<1>7. ASSUME NEW u \in Users, AcceptBegins(u) PROVE MembersInv'
  <2>1. perms[u] \in Roles \cup {NoRole} /\ link.uses \in 0..(MaxUses - 1)
    BY <1>7 DEF AcceptBegins, LinkIsValid
  <2>2. QED
    BY <1>7, <2>1 DEF AcceptBegins
<1>8. ASSUME NEW u \in Users, AcceptCommits(u) PROVE MembersInv'
  <2>1. accepts[u].uses + 1 \in 0..MaxUses
    BY <1>8 DEF AcceptCommits, NoAccept
  <2>2. link # NoLink => link.role \in Roles
    OBVIOUS
  <2>3. perms' \in [Users -> Roles \cup {NoRole}]
    BY <1>8, <2>2 DEF AcceptCommits
  <2>4. /\ link' \in [role : Roles \cup {NoRole}, uses : 0..MaxUses, expired : BOOLEAN]
        /\ link' # NoLink => link'.role \in Roles
    BY <1>8, <2>1, <2>2 DEF AcceptCommits
  <2>5. QED
    BY <1>8, <2>3, <2>4 DEF AcceptCommits
<1>9. ASSUME NEW u \in Users, OpenEditor(u) PROVE MembersInv'
  BY <1>9 DEF OpenEditor
<1>10. ASSUME NEW u \in Users, LeaveEditor(u) PROVE MembersInv'
  BY <1>10 DEF LeaveEditor
<1>11. ASSUME NEW u \in Users, Poll(u) PROVE MembersInv'
  BY <1>11 DEF Poll
<1>12. ASSUME NEW u \in Users, MembersArrive(u) PROVE MembersInv'
  BY <1>12 DEF MembersArrive
<1>13. ASSUME NEW u \in Users, AccessDenied(u) PROVE MembersInv'
  BY <1>13 DEF AccessDenied
<1>14. CASE UNCHANGED memberVars
  BY <1>14
<1>15. QED
  BY <1>1, <1>2, <1>3, <1>4, <1>5, <1>6, <1>7, <1>8, <1>9, <1>10, <1>11, <1>12, <1>13, <1>14
     DEF MembersNext

(* Roles, links and pages keep their types; above all no link is used more *)
(* often than max_uses allows, as far as its counter can tell.             *)
THEOREM MemberTypesCorrect == MembersSpec => []MembersTypeOK
<1>1. MembersInit => MembersInv
  BY MembersAssumption DEF MembersInit, MembersInv, MembersTypeOK, HandlersFit, NoLink
<1>2. MembersInv /\ [MembersNext]_memberVars => MembersInv'
  BY MembersStay
<1>3. MembersInv => MembersTypeOK
  BY DEF MembersInv
<1>4. QED
  BY <1>1, <1>2, <1>3, PTL DEF MembersSpec

---------------------------------------------------------------------------
(* The parts of the editor page side by side.                              *)

\* Whichever part a behaviour plays in, it is a behaviour of each of them.
LEMMA PartsKeepTheirRules == MCSpec => BindingSpec /\ PreviewSpec /\ ViewerSpec /\ MembersSpec
<1>1. MCInit => BindingInit /\ PreviewInit /\ ViewerInit /\ MembersInit
  BY DEF MCInit
<1>2. [MCNext]_<<part, partVars>> => [BindingNext]_bindingVars
  BY DEF MCNext, partVars
<1>3. [MCNext]_<<part, partVars>> => [PreviewNext]_previewVars
  BY DEF MCNext, partVars
<1>4. [MCNext]_<<part, partVars>> => [ViewerNext]_viewerVars
  BY DEF MCNext, partVars
<1>5. [MCNext]_<<part, partVars>> => [MembersNext]_memberVars
  BY DEF MCNext, partVars
<1>6. QED
  BY <1>1, <1>2, <1>3, <1>4, <1>5, PTL DEF MCSpec, BindingSpec, PreviewSpec, ViewerSpec, MembersSpec

(* In every state of every part of the editor page each variable has its   *)
(* type: the editor and its documents, the calls about a compilation, the  *)
(* drawings of the PDF, and the members with their link.                   *)
THEOREM PageTypesCorrect == MCSpec => []TypesOK
<1>1. BindingTypeOK /\ PreviewTypeOK /\ ViewerTypeOK /\ MembersTypeOK => TypesOK
  BY DEF TypesOK
<1>2. QED
  BY <1>1, PartsKeepTheirRules, BindingTypesCorrect, PreviewTypesCorrect, ViewerTypesCorrect,
     MemberTypesCorrect, PTL
=============================================================================
