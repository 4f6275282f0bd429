------------------------------ MODULE ProjectFiles ------------------------------
(***************************************************************************)
(* The files of a project: a row in the database and a blob in the object  *)
(* store for each path, changed by handlers that call both one after the   *)
(* other, and the editor page with its file tree, its cached list and the  *)
(* file that is open. A task is what one gesture of the user asks for, and *)
(* consists of calls of the API that run side by side.                     *)
(***************************************************************************)
EXTENDS Integers, FiniteSets

CONSTANTS
  FilePaths,     \* paths; one of them is MainFile
  MainFile,      \* main.tex
  Folders,       \* folders other than the root
  InFolder,      \* the paths below each folder
  BaseOf,        \* the base name of each path
  CopyOf,        \* the path the copy of each path gets, for some paths
  MaxGestures    \* bound on the tasks a user asks for

ASSUME FilesAssumption ==
  /\ MainFile \in FilePaths /\ MaxGestures \in Nat
  /\ InFolder \in [Folders -> SUBSET FilePaths] /\ DOMAIN BaseOf = FilePaths
  /\ CopyOf \in [DOMAIN CopyOf -> FilePaths]

VARIABLES
  rows, blobs,           \* project_files; the bucket
  kept,                  \* what each file has to contain, Unknown behind a failed commit
  tasks, gestures,       \* under way; how many there were
  currentFile, files,    \* the open file and the cached list
  refetching, staleList, \* the list is being fetched; a change was not seen
  strayed                \* the open file was removed in a way the page cannot hear of

fileServerVars == <<rows, blobs, kept>>
treeVars == <<currentFile, files, refetching, staleList, strayed>>
fileVars == <<fileServerVars, tasks, gestures, treeVars>>

NoBlob == "no blob"
Unknown == "unknown"
Contents == {"text", "empty"}

\* "source" is the path a call moves or copies, "path" the one it changes.
Call == [op : {"create", "rename", "delete", "copy"}, path : FilePaths,
         source : FilePaths \cup Folders, content : Contents \cup {NoBlob},
         step : {"begin", "upload", "remove", "commit", "done", "lost", "failed"}]
TaskKinds == {"create", "folder", "drop", "rename", "delete", "deleteFolder", "copy"}

FilesInit ==
  /\ rows \in {FilePaths, {MainFile}}
  /\ blobs = [p \in FilePaths |-> IF p \in rows THEN "text" ELSE NoBlob] /\ kept = blobs
  /\ tasks = {} /\ gestures = 0
  /\ currentFile = MainFile /\ files = rows
  /\ refetching = FALSE /\ staleList = FALSE /\ strayed = FALSE

-----------------------------------------------------------------------------
(* Gestures. Nobody works on a file another call is working on.            *)

CallOf(op, path, source, content) ==
  [op |-> op, path |-> path, source |-> source, content |-> content,
   step |-> IF op = "create" THEN "upload" ELSE "begin"]
UsedBy(calls) == UNION {{c.path, c.source} : c \in calls}
\* A deletion or renaming took effect, whether or not its answer arrived.
Removed(c, p) == c.op \in {"delete", "rename"} /\ c.source = p /\ c.step \in {"done", "lost"}
\* The paths a call changes: a copy leaves its source alone.
ChangedBy(c) == IF c.op = "copy" THEN {c.path} ELSE UsedBy({c})
InUse == UNION {UsedBy(t.calls) : t \in tasks}

\* A task remembers the file that was open when it was asked for.
Ask(kind, calls) ==
  /\ gestures < MaxGestures /\ gestures' = gestures + 1 /\ calls # {}
  /\ UsedBy(calls) \cap InUse = {}
  /\ tasks' = tasks \cup {[kind |-> kind, calls |-> calls, was |-> currentFile]}
  /\ UNCHANGED <<fileServerVars, treeVars>>

\* The new-file form; nothing asks whether the path is taken.
AskCreateFile(p) == Ask("create", {CallOf("create", p, p, "empty")})
\* The new-folder form: an empty file is stored that keeps the folder.
AskCreateFolder(p) == Ask("folder", {CallOf("create", p, p, "empty")})

\* handleSidebarDrop: one request per file.
AskDrop(ps) == Ask("drop", {CallOf("create", p, p, "text") : p \in ps})

\* The tree shows the folders of the listed files, innermost or not.
TreeFolders == {d \in Folders : files \cap InFolder[d] # {}}
ParentsOf(p) == {d \in Folders : p \in InFolder[d]}

(* A name is typed for a row of the tree, below the folder it is in; a     *)
(* folder gets the same call as a file.                                    *)
AskRename(p, q) ==
  /\ p \in files \cup TreeFolders /\ p # q
  /\ p \in files => ParentsOf(p) \subseteq ParentsOf(q)
  /\ Ask("rename", {CallOf("rename", q, p, NoBlob)})

\* A row is dragged into a folder it is not in, or to the top.
AskMove(p, q) ==
  /\ p \in files \cup TreeFolders
  /\ p \in files => BaseOf[p] = BaseOf[q] /\ ParentsOf(p) # ParentsOf(q)
  /\ ParentsOf(q) \subseteq TreeFolders \ {p}
  /\ Ask("rename", {CallOf("rename", q, p, NoBlob)})

\* handleDuplicateFile
AskCopy(p) ==
  p \in files \cap DOMAIN CopyOf /\ Ask("copy", {CallOf("copy", CopyOf[p], p, NoBlob)})

\* The menu offers no deletion of main.tex; that of its folder spares nothing.
AskDelete(p) == p \in files \ {MainFile} /\ Ask("delete", {CallOf("delete", p, p, NoBlob)})
AskDeleteFolder(d) ==
  Ask("deleteFolder", {CallOf("delete", p, p, NoBlob) : p \in files \cap InFolder[d]})

(* A file of the list is opened. It may be gone already, by a request that *)
(* has ended or that still has to; or be about to go with its folder, and  *)
(* handleDeleteFolder looks at the file that was open when it was asked.   *)
OpenFile(p) ==
  /\ p \in files /\ p # currentFile
  /\ currentFile' = p
  /\ strayed' = \/ p \notin rows /\ \A t \in tasks : \A c \in t.calls : ~Removed(c, p)
                \/ \E t \in tasks : t.kind = "deleteFolder" /\ p \in UsedBy(t.calls)
  /\ UNCHANGED <<fileServerVars, tasks, gestures, files, refetching, staleList>>

-----------------------------------------------------------------------------
(* The handlers of the API, one call of a store at a time.                 *)

Step(t, c, next) ==
  tasks' = (tasks \ {t}) \cup {[t EXCEPT !.calls = (@ \ {c}) \cup {next}]}
At(c, step) == c.step = step
ToStep(c, step) == [c EXCEPT !.step = step]
Answer(c, result) == [c EXCEPT !.step = result, !.content = NoBlob]

\* getFile before a copy; download_file in rename_file, behind two checks.
ReadsSource(t, c) ==
  /\ c.op \in {"copy", "rename"} /\ At(c, "begin")
  /\ IF c.source \in rows /\ blobs[c.source] # NoBlob /\ (c.op = "rename" => c.path \notin rows)
     THEN Step(t, c, [ToStep(c, "upload") EXCEPT !.content = blobs[c.source]])
     ELSE Step(t, c, Answer(c, "failed"))
  /\ UNCHANGED <<fileServerVars, gestures, treeVars>>

\* Mutant: the blob of the old path goes before its content is stored again.
UploadsLate(t, c) ==
  /\ At(c, "upload")
  /\ blobs' = IF c.op = "rename" THEN [blobs EXCEPT ![c.source] = NoBlob]
              ELSE [blobs EXCEPT ![c.path] = c.content]
  /\ Step(t, c, ToStep(c, IF c.op = "rename" THEN "remove" ELSE "commit"))
  /\ UNCHANGED <<rows, kept, gestures, treeVars>>
Uploads(t, c) ==
  /\ At(c, "upload")
  /\ blobs' = [blobs EXCEPT ![c.path] = c.content]
  /\ Step(t, c, ToStep(c, IF c.op = "rename" THEN "remove" ELSE "commit"))
  /\ UNCHANGED <<rows, kept, gestures, treeVars>>

(* The old blob goes before the row does; delete_file looks for a row, and *)
(* goes on without the removal if that fails.                              *)
Removes(t, c) ==
  /\ \/ c.op = "rename" /\ At(c, "remove")
     \/ c.op = "delete" /\ At(c, "begin") /\ c.path \in rows
  /\ blobs' = [blobs EXCEPT ![c.source] = NoBlob] \/ (c.op = "delete" /\ UNCHANGED blobs)
  /\ Step(t, c, ToStep(c, "commit"))
  /\ UNCHANGED <<rows, kept, gestures, treeVars>>

\* The row follows, and the answer is sent, which may be lost.
Commits(t, c) ==
  /\ At(c, "commit")
  /\ rows' = IF c.op = "delete" THEN rows \ {c.path}
             ELSE (rows \ (IF c.op = "rename" THEN {c.source} ELSE {})) \cup {c.path}
  /\ kept' = [p \in FilePaths |->
                IF p \notin rows' THEN NoBlob
                ELSE IF p = c.path THEN c.content ELSE kept[p]]
  /\ \E result \in {"done", "lost"} : Step(t, c, Answer(c, result))
  /\ UNCHANGED <<blobs, gestures, treeVars>>

(* Any step may fail; what was done to blobs stays done, so that nothing is *)
(* known of a file whose commit failed.                                    *)
CallFails(t, c) ==
  /\ ~(c.step \in {"done", "lost", "failed"})
  /\ kept' = [p \in FilePaths |->
                IF At(c, "commit") /\ p \in rows \cap ChangedBy(c) THEN Unknown ELSE kept[p]]
  /\ Step(t, c, Answer(c, "failed"))
  /\ UNCHANGED <<rows, blobs, gestures, treeVars>>

-----------------------------------------------------------------------------
(* The page hears of it.                                                   *)

Over(t) == \A c \in t.calls : c.step \in {"done", "lost", "failed"}
Succeeded(t) == \A c \in t.calls : At(c, "done")

\* Mutant: the open file stays, whatever became of it.
OpenAfterStays(t) == currentFile
\* The file that is open after a task that succeeded.
OpenAfter(t) ==
  LET c == CHOOSE d \in t.calls : TRUE IN
  CASE t.kind = "create" -> c.path
    [] t.kind = "rename" /\ currentFile = c.source -> c.path
    [] t.kind = "delete" /\ currentFile = c.path -> MainFile
    [] t.kind = "deleteFolder" /\ t.was \in UsedBy(t.calls) -> MainFile
    [] OTHER -> currentFile

(* The list is fetched again after a drop, and after anything that         *)
(* succeeded. A task that fails leaves the page as it is, also if it has    *)
(* removed the open file: its answer was lost, or another of its calls     *)
(* failed.                                                                 *)
TaskEnds(t) ==
  /\ Over(t)
  /\ tasks' = tasks \ {t}
  /\ IF Succeeded(t) THEN currentFile' = OpenAfter(t) /\ strayed' = (strayed /\ OpenAfter(t) = currentFile)
     ELSE /\ UNCHANGED currentFile
          /\ strayed' = (strayed \/ \E c \in t.calls : Removed(c, currentFile))
  /\ IF Succeeded(t) \/ t.kind = "drop" THEN refetching' = TRUE /\ UNCHANGED staleList
     ELSE /\ staleList' = (staleList \/ \E c \in t.calls : c.step \in {"done", "lost"})
          /\ UNCHANGED refetching
  /\ UNCHANGED <<fileServerVars, gestures, files>>

ListArrives ==
  /\ refetching /\ refetching' = FALSE
  /\ files' = rows /\ staleList' = FALSE
  /\ UNCHANGED <<fileServerVars, tasks, gestures, currentFile, strayed>>

FilesNext ==
  \/ \E p \in FilePaths :
       \/ AskCreateFile(p) \/ AskCreateFolder(p) \/ AskCopy(p) \/ AskDelete(p) \/ OpenFile(p)
       \/ \E q \in FilePaths \cup Folders : AskRename(q, p) \/ AskMove(q, p)
  \/ \E ps \in SUBSET FilePaths : AskDrop(ps)
  \/ \E d \in Folders : AskDeleteFolder(d)
  \/ \E t \in tasks :
       \/ TaskEnds(t)
       \/ \E c \in t.calls :
            \/ ReadsSource(t, c) \/ Uploads(t, c) \/ Removes(t, c)
            \/ Commits(t, c) \/ CallFails(t, c)
  \/ ListArrives

FilesSpec == FilesInit /\ [][FilesNext]_fileVars

-----------------------------------------------------------------------------
FilesTypeOK ==
  /\ rows \subseteq FilePaths /\ gestures \in 0..MaxGestures
  /\ {blobs, kept} \subseteq [FilePaths -> Contents \cup {NoBlob, Unknown}]
  /\ \A t \in tasks : t.kind \in TaskKinds /\ t.calls \subseteq Call /\ t.was \in FilePaths
  /\ currentFile \in FilePaths /\ files \subseteq FilePaths
  /\ {refetching, staleList, strayed} \subseteq BOOLEAN

(* Every file that no call is working on has a blob with the content of    *)
(* the last request that changed it, whatever step of which request        *)
(* failed; only a commit that fails behind a changed blob leaves something *)
(* else. The code: the order of upload, removal and commit in create_file, *)
(* rename_file and delete_file, which have no common transaction.          *)
FilesKept == \A p \in rows \ InUse : kept[p] \in {blobs[p], Unknown}

(* When nothing is under way, the list the page shows is that of the       *)
(* project, and the open file is one of the project or main.tex: files are *)
(* created, renamed, moved and deleted under the page, with answers in any *)
(* order and files opened in between. The code: invalidateQueries and      *)
(* setCurrentFile in the handlers, some of which use values of the time    *)
(* they were called. It keeps this only when it hears of what happened.    *)
(* The list is excepted from a change whose task failed or whose answer    *)
(* was lost, until it is fetched again (staleList). The open file is       *)
(* excepted, until another one is opened, if its deletion or renaming took *)
(* effect but the answer was lost, if it went with a folder not all of     *)
(* which could be deleted, or if it was opened from the list when it was   *)
(* gone or its folder was being deleted (strayed).                         *)
PageOnFile ==
  tasks = {} =>
    /\ ~refetching /\ ~staleList => files = rows
    /\ ~strayed => currentFile \in rows \cup {MainFile}
=============================================================================
