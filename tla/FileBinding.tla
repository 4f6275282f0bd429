----------------------------- MODULE FileBinding -----------------------------
(***************************************************************************)
(* How the editor page ties the file that is open to the text everybody    *)
(* shares: one Yjs document per page with one text per path, a Monaco      *)
(* binding for the current file, the content that is fetched when a text   *)
(* is empty, saving, and the role that decides who may type.               *)
(*                                                                         *)
(* A text is the set of its fragments: the content a file had, and what    *)
(* somebody typed. A fragment of a shared text is a word with the number   *)
(* of the insertion that put it there, so that one word inserted twice is  *)
(* twice in the text. Pages and the collaboration server exchange all they *)
(* know in one step; CollabServer models that exchange.                    *)
(***************************************************************************)
EXTENDS Integers, FiniteSets

CONSTANTS
  Pages,           \* browser pages that show the project
  Paths,           \* files of the project
  Main,            \* main.tex, the file a page opens first
  Revocable,       \* pages whose user may lose access
  FetchMayFail,    \* whether getFile may fail
  MaxMisfiled,     \* bound on the files saved from an unbound editor
  MaxInserts,      \* bound on the insertions of one word that are told apart
  MaxVisits        \* bound on how often a page is opened

ASSUME BindingAssumption ==
  /\ Main \in Paths /\ Revocable \subseteq Pages
  /\ FetchMayFail \in BOOLEAN
  /\ MaxMisfiled \in Nat /\ MaxInserts \in Nat \ {0} /\ MaxVisits \in Nat

VARIABLES
  shared,     \* the texts of the collaboration server
  stored,     \* the words of each file as the backend has it
  pages,      \* what each page keeps, a record
  restored,   \* whether the files were replaced by those of a version
  misfiled    \* history: the files under whose path an unbound editor was saved

bindingVars == <<shared, stored, pages, restored, misfiled>>

\* A file's own content, its content in the version, what a page typed.
Words == Paths \X ({"file", "version"} \cup Pages)
Fragments == Words \X (1..MaxInserts)

\* A shared text: what was put into it and what was cut again.
Text == [put : SUBSET Fragments, cut : SUBSET Fragments]
NewDoc == [f \in Paths |-> [put |-> {}, cut |-> {}]]
Merge(d1, d2) ==
  [f \in Paths |-> [put |-> d1[f].put \cup d2[f].put, cut |-> d1[f].cut \cup d2[f].cut]]
Visible(text) == text.put \ text.cut
WordsOf(fragments) == {fr[1] : fr \in fragments}

(* "doc" is the page's Yjs document and "old" the one it had before the    *)
(* signed-in user was known; a binding or a pending fetch names the file   *)
(* and the document it was made for.                                        *)
Bindings == [file : Paths, doc : {"doc", "old"}]
Page ==
  [visits : 0..MaxVisits, open : BOOLEAN, user : BOOLEAN, mounted : BOOLEAN, late : BOOLEAN,
   role : {"loading", "editor", "revoked"}, file : Paths, model : SUBSET Words,
   doc : [Paths -> Text], old : [Paths -> Text],
   attached : SUBSET Bindings, fetching : SUBSET Bindings]

ClosedPage ==
  [visits |-> 0, open |-> FALSE, user |-> FALSE, mounted |-> FALSE, late |-> FALSE,
   role |-> "loading", file |-> Main, model |-> {}, doc |-> NewDoc, old |-> NewDoc,
   attached |-> {}, fetching |-> {}]

BindingInit ==
  /\ \E held \in {{}, Paths} :      \* texts that others have open already
       shared = [f \in Paths |->
                  [put |-> IF f \in held THEN {<<<<f, "file">>, 1>>} ELSE {}, cut |-> {}]]
  /\ stored = [f \in Paths |-> {<<f, "file">>}]
  /\ restored = FALSE /\ misfiled = {}
  /\ pages = [p \in Pages |-> ClosedPage]

\* A document nothing refers to any more is forgotten.
Becomes(p, page) ==
  LET used == \E b \in page.attached \cup page.fetching : b.doc = "old"
  IN  pages' = [pages EXCEPT ![p] = [page EXCEPT !.old = IF used THEN @ ELSE NewDoc]]

-----------------------------------------------------------------------------
(* Binding the current file.                                               *)

TextOf(page, b) == page[b.doc][b.file]

\* A page on which the text of a binding is another one.
WithText(page, b, put, cut) ==
  [page EXCEPT ![b.doc] = [@ EXCEPT ![b.file] = [put |-> put, cut |-> cut]]]

\* new MonacoBinding: the editor shows the shared text from now on.
Bind(page, b) ==
  [page EXCEPT !.fetching = @ \ {b}, !.attached = @ \cup {b},
               !.model = WordsOf(Visible(TextOf(page, b)))]

\* Mutant: the answer of a fetch for the previous file is still used.
CleanupKeepsSetup(page) == [page EXCEPT !.attached = {}]
\* The per-file cleanup: the binding is destroyed and the setup cancelled.
Cleanup(page) == [page EXCEPT !.attached = {}, !.fetching = {}]

(* The per-file effect: a text that is empty is fetched from the backend   *)
(* first, without waiting for the first exchange with the server.          *)
Setup(page) ==
  LET clean == Cleanup(page)
      b == [file |-> page.file, doc |-> "doc"]
  IN  IF ~page.mounted THEN clean
      ELSE IF Visible(page.doc[page.file]) = {}
           THEN [clean EXCEPT !.fetching = @ \cup {b}]
           ELSE Bind(clean, b)

\* The page is opened: a Yjs document and a provider are created.
OpenPage(p) ==
  /\ ~pages[p].open /\ pages[p].visits < MaxVisits /\ pages[p].role # "revoked"
  /\ Becomes(p, [pages[p] EXCEPT !.open = TRUE, !.visits = @ + 1])
  /\ UNCHANGED <<shared, stored, restored, misfiled>>

(* fetchUser answers after the page was opened: the project effect runs    *)
(* again with a new document; it destroys the binding, and the per-file    *)
(* effect does not run again.                                              *)
UserArrives(p) ==
  /\ pages[p].open /\ ~pages[p].user
  /\ Becomes(p, [pages[p] EXCEPT !.user = TRUE, !.attached = {},
                                 !.old = pages[p].doc, !.doc = NewDoc,
                                 !.fetching = {[b EXCEPT !.doc = "old"] : b \in @},
                                 !.late = pages[p].mounted])
  /\ UNCHANGED <<shared, stored, restored, misfiled>>

MountEditor(p) ==
  /\ pages[p].open /\ ~pages[p].mounted
  /\ Becomes(p, Setup([pages[p] EXCEPT !.mounted = TRUE]))
  /\ UNCHANGED <<shared, stored, restored, misfiled>>

\* When access is gone, an overlay covers the page.
Covered(p) == pages[p].role = "revoked"

\* Any of the handlers that call setCurrentFile.
SelectFile(p, f) ==
  /\ pages[p].open /\ ~Covered(p) /\ pages[p].file # f
  /\ Becomes(p, Setup([pages[p] EXCEPT !.file = f, !.late = FALSE]))
  /\ UNCHANGED <<shared, stored, restored, misfiled>>

\* A fragment for a word is one that no replica has.
Unused(word) ==
  LET docs == {shared} \cup UNION {{pages[p].doc, pages[p].old} : p \in Pages}
  IN  {n \in 1..MaxInserts : \A d \in docs, f \in Paths : <<word, n>> \notin d[f].put}
MayInsert(words) == \A w \in words : Unused(w) # {}
Insertion(words) == {<<w, CHOOSE n \in Unused(w) : TRUE>> : w \in words}

\* ytext.insert: fragments are added to the text of a binding.
Insert(page, b, words) ==
  WithText(page, b, TextOf(page, b).put \cup Insertion(words), TextOf(page, b).cut)

(* The fetch answers: its content is inserted if the text of this page is  *)
(* still empty, whatever the other pages have inserted meanwhile.          *)
FetchAnswers(p) ==
  \E b \in pages[p].fetching :
    LET page == pages[p]
        seeds == stored[b.file] # {} /\ Visible(TextOf(page, b)) = {}
    IN  /\ seeds => MayInsert(stored[b.file])
        /\ Becomes(p, Bind(IF seeds THEN Insert(page, b, stored[b.file]) ELSE page, b))
        /\ UNCHANGED <<shared, stored, restored, misfiled>>

\* Mutant: an exception leaves the setup before the binding is made.
FetchFailsUnbound(p) ==
  /\ FetchMayFail
  /\ \E b \in pages[p].fetching :
       Becomes(p, [pages[p] EXCEPT !.fetching = @ \ {b}])
  /\ UNCHANGED <<shared, stored, restored, misfiled>>
\* A fetch that fails leaves the text empty, and binds it.
FetchFails(p) ==
  /\ FetchMayFail
  /\ \E b \in pages[p].fetching : Becomes(p, Bind(pages[p], b))
  /\ UNCHANGED <<shared, stored, restored, misfiled>>

-----------------------------------------------------------------------------
(* Text that changes.                                                      *)

\* A binding mirrors its text into the editor.
ShownModel(page) ==
  IF page.attached = {} THEN page.model
  ELSE WordsOf(UNION {Visible(TextOf(page, b)) : b \in page.attached})
Mirror(page) == [page EXCEPT !.model = ShownModel(page)]

\* The provider and the server exchange what they know.
Exchange(p) ==
  LET both == Merge(shared, pages[p].doc)
  IN  /\ pages[p].open
      /\ shared # both \/ pages[p].doc # both
      /\ shared' = both
      /\ Becomes(p, Mirror([pages[p] EXCEPT !.doc = both]))
      /\ UNCHANGED <<stored, restored, misfiled>>

(* An editor types, here one word in all; without a binding the text stays *)
(* in the editor only.                                                     *)
Type(p) ==
  LET page == pages[p]
      word == <<page.file, p>>
      typed == [page EXCEPT !.model = @ \cup {word}]
  IN  /\ page.mounted /\ page.role = "editor"
      /\ \A f \in Paths : <<f, p>> \notin page.model \cup WordsOf(page.doc[f].put)
      /\ IF page.attached = {}
         THEN Becomes(p, typed)
         ELSE MayInsert({word}) /\ \E b \in page.attached : Becomes(p, Insert(typed, b, {word}))
      /\ UNCHANGED <<shared, stored, restored, misfiled>>

\* useProjectRole has its first answer, which needs the user.
RoleArrives(p) ==
  /\ pages[p].user /\ pages[p].role = "loading"
  /\ Becomes(p, [pages[p] EXCEPT !.role = "editor"])
  /\ UNCHANGED <<shared, stored, restored, misfiled>>

(* The members are fetched again and the user is no longer among them: the *)
(* editor is emptied, and a binding that is attached empties the text.     *)
AccessRevoked(p) ==
  LET page == pages[p]
      wiped == [page EXCEPT !.role = "revoked", !.model = {}]
  IN  /\ p \in Revocable /\ page.role = "editor"
      /\ IF page.attached = {} \/ ~page.mounted THEN Becomes(p, wiped)
         ELSE \E b \in page.attached :
                Becomes(p, WithText(wiped, b, TextOf(page, b).put, TextOf(page, b).put))
      /\ UNCHANGED <<shared, stored, restored, misfiled>>

-----------------------------------------------------------------------------
(* Saving: the text the editor shows, under the path that is current. Both *)
(* are read when the request is made; one that fails changes nothing.      *)
(* Between a switch and its binding the editor shows the file before.      *)

\* The button is there for editors; the keys work before the role is known.
SaveButton(p) == pages[p].open /\ pages[p].role = "editor"
SaveKeys(p) == pages[p].open /\ ~Covered(p)

Save(p) ==
  /\ SaveButton(p) \/ SaveKeys(p)
  /\ stored' = [stored EXCEPT ![pages[p].file] = pages[p].model]
  /\ misfiled' = misfiled \cup (IF pages[p].attached = {} THEN {pages[p].file} ELSE {})
  /\ misfiled' = misfiled \/ Cardinality(misfiled') <= MaxMisfiled
  /\ UNCHANGED <<shared, pages, restored>>

\* Leaving the page: both effects clean up.
ClosePage(p) ==
  /\ pages[p].open
  /\ Becomes(p, [ClosedPage EXCEPT
                  !.visits = pages[p].visits,
                  !.role = IF pages[p].role = "revoked" THEN "revoked" ELSE @])
  /\ UNCHANGED <<shared, stored, restored, misfiled>>

(* Restoring a version replaces the files the backend keeps, and the page  *)
(* reloads; the shared texts are not touched.                              *)
Restore(p) ==
  /\ pages[p].role = "editor" /\ ~restored
  /\ restored' = TRUE
  /\ stored' = [f \in Paths |-> {<<f, "version">>}]
  /\ UNCHANGED <<shared, pages, misfiled>>

BindingNext ==
  \E p \in Pages :
    \/ OpenPage(p) \/ UserArrives(p) \/ MountEditor(p) \/ ClosePage(p)
    \/ \E f \in Paths : SelectFile(p, f)
    \/ FetchAnswers(p) \/ FetchFails(p)
    \/ Exchange(p) \/ Type(p)
    \/ RoleArrives(p) \/ AccessRevoked(p)
    \/ Save(p) \/ Restore(p)

\* A request is answered or fails.
BindingFairness ==
  \A p \in Pages : WF_bindingVars(FetchAnswers(p) \/ FetchFails(p))

BindingSpec == BindingInit /\ [][BindingNext]_bindingVars /\ BindingFairness

-----------------------------------------------------------------------------
BindingTypeOK ==
  /\ shared \in [Paths -> Text]
  /\ stored \in [Paths -> SUBSET Words]
  /\ pages \in [Pages -> Page]
  /\ restored \in BOOLEAN /\ misfiled \subseteq Paths

(* Whatever order files are switched, fetches answer and updates arrive    *)
(* in, the editor has at most one binding, for the current file, and shows *)
(* its text. The code: cancelled, and bindingRef, in the per-file effect.  *)
EditorShowsFile ==
  \A p \in Pages : \A b \in pages[p].attached :
    /\ b.file = pages[p].file
    /\ pages[p].attached = {b}
    /\ pages[p].model = WordsOf(Visible(TextOf(pages[p], b)))

(* A page with a mounted editor gets its file bound, unless the user became *)
(* known after the editor was mounted: the project effect then destroys    *)
(* the binding and nothing makes a new one until another file is opened.   *)
PageGetsBound ==
  \A p \in Pages :
    pages[p].mounted ~> (pages[p].attached # {} \/ pages[p].late \/ ~pages[p].mounted)

OwnText(f) == \A w \in stored[f] : w[1] = f

(* What is stored under a path is text of that file, on whatever page and  *)
(* after whatever switches it was saved, unless once an editor that was    *)
(* not bound was saved under it. The code: saveFile takes the path from    *)
(* currentFile and the text from the editor, and both binding and fetch    *)
(* are made for the file that is current.                                  *)
SavedOwnText == \A f \in Paths \ misfiled : OwnText(f)

(* The same of every save, as the comment in saveFile has it: getValue()   *)
(* is always up to date. Between a switch and the answer of the fetch it   *)
(* is the text of the file before.                                         *)
SavesAreOwn == \A f \in Paths : OwnText(f)

(* Every word is in the shared text at most once: the content of a file is *)
(* inserted by one page only. The code: the guard on ytext.length before   *)
(* ytext.insert, "avoid race with another user".                           *)
SeededOnce ==
  \A f \in Paths : \A f1, f2 \in Visible(shared[f]) : f1[1] = f2[1] => f1 = f2
=============================================================================
