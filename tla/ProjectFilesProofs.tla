-------------------------- MODULE ProjectFilesProofs --------------------------
(***************************************************************************)
(* Proofs about ProjectFiles, for any paths, folders, contents and number  *)
(* of requests: the types, that no failure separates a row from its blob,  *)
(* and that the page ends up with the list and an open file of the project. *)
(*                                                                         *)
(* The argument: two calls never work on one path, so that a file is       *)
(* either as the last request left it or one call away from it, and that   *)
(* call is about to commit. A list is out of date by what calls have       *)
(* committed whose task the page still waits for. A file that is open and  *)
(* not there was removed by a call of a task, whose end leads to another   *)
(* file unless the page does not hear of it.                               *)
(***************************************************************************)
EXTENDS ProjectFiles, TLAPS

Tasks == [kind : TaskKinds, calls : SUBSET Call, was : FilePaths]

\* The calls of all tasks.
AllCalls == UNION {t.calls : t \in tasks}

\* What a task calls.
OpOf(kind) ==
  CASE kind \in {"create", "folder", "drop"} -> "create"
    [] kind \in {"delete", "deleteFolder"} -> "delete"
    [] OTHER -> kind

TasksFit ==
  \A t \in tasks :
    /\ t.calls # {} /\ \A c \in t.calls : c.op = OpOf(t.kind)
    /\ t.kind \in {"drop", "deleteFolder"} \/ \E c \in t.calls : t.calls = {c}

\* No two calls work on one path, in one task or in two.
Apart ==
  /\ \A s, t \in tasks : s # t => s.calls \cap t.calls = {}
  /\ \A c, d \in AllCalls : c # d => {c.path, c.source} \cap {d.path, d.source} = {}

\* How far a call is, and what it has done by then.
CallsInStep ==
  \A c \in AllCalls :
    /\ c.op \in {"create", "delete"} => c.path = c.source
    /\ At(c, "remove") => c.op = "rename"
    /\ At(c, "upload") => c.op # "delete"
    /\ c.step \in {"remove", "commit"} /\ c.op # "delete" => blobs[c.path] = c.content
    /\ c.op = "rename" /\ c.step \in {"upload", "remove", "commit"} =>
         c.path \notin rows /\ c.source \in rows
    /\ c.op = "copy" /\ c.step \in {"upload", "commit", "done"} => c.source \in rows
    /\ c.op # "delete" /\ At(c, "done") => c.path \in rows

\* A file is as it should be, or a call is about to commit what it did to it.
KeptOrCommitting ==
  \A p \in rows :
    \/ kept[p] \in {blobs[p], Unknown}
    \/ \E c \in AllCalls : At(c, "commit") /\ p \in {c.path, c.source} /\ (c.op = "copy" => p = c.path)

\* The list lacks what was committed since it was fetched.
ListOrWaiting ==
  ~refetching /\ ~staleList =>
    \A p \in FilePaths : (p \in files) # (p \in rows) =>
      \E c \in AllCalls : c.step \in {"done", "lost"} /\ p \in ChangedBy(c)

\* The open file is there, or was removed by a task that has to end.
OpenOrWaiting ==
  ~strayed =>
    /\ currentFile \in rows \cup {MainFile} \/ \E c \in AllCalls : Removed(c, currentFile)
    /\ \A t \in tasks :
         t.kind = "deleteFolder" /\ currentFile \in UsedBy(t.calls) \ {MainFile} => t.was \in UsedBy(t.calls)

FilesInv ==
  /\ FilesTypeOK /\ tasks \subseteq Tasks /\ blobs \in [FilePaths -> Contents \cup {NoBlob}]
  /\ TasksFit /\ Apart /\ CallsInStep
  /\ KeptOrCommitting /\ ListOrWaiting /\ OpenOrWaiting

---------------------------------------------------------------------------
(* A call takes a step.                                                    *)

Replaced(t, c, next) == [t EXCEPT !.calls = (@ \ {c}) \cup {next}]

LEMMA CallsAre == \A c : c \in AllCalls <=> \E t \in tasks : c \in t.calls
BY DEF AllCalls

LEMMA UsedAre == \A t, p : p \in UsedBy(t.calls) <=> \E c \in t.calls : p \in {c.path, c.source}
BY DEF UsedBy

LEMMA InUseAre == \A p : p \in InUse <=> \E c \in AllCalls : p \in {c.path, c.source}
<1> SUFFICES ASSUME NEW p PROVE p \in InUse <=> \E c \in AllCalls : p \in {c.path, c.source}
  OBVIOUS
<1>1. p \in InUse <=> \E t \in tasks : p \in UsedBy(t.calls)
  BY DEF InUse
<1>2. QED
  BY <1>1, UsedAre, CallsAre

\* The paths of a call and the tasks stay, whichever step the call takes.
LEMMA Stepped ==
  ASSUME tasks \subseteq Tasks, TasksFit, Apart, NEW t \in tasks, NEW c \in t.calls,
         NEW next \in Call, next.op = c.op, next.path = c.path, next.source = c.source,
         Step(t, c, next)
  PROVE  /\ tasks' \subseteq Tasks /\ TasksFit' /\ Apart'
         /\ c \in AllCalls /\ AllCalls' = (AllCalls \ {c}) \cup {next}
         /\ \A u \in tasks' : \E s \in tasks :
              u.kind = s.kind /\ u.was = s.was /\ UsedBy(u.calls) = UsedBy(s.calls)
<1> DEFINE u == Replaced(t, c, next)
<1>1. /\ t \in Tasks /\ u \in Tasks /\ u.kind = t.kind /\ u.was = t.was
      /\ u.calls = (t.calls \ {c}) \cup {next} /\ tasks' = (tasks \ {t}) \cup {u}
  BY DEF Tasks, Step, Replaced
<1>2. tasks' \subseteq Tasks
  BY <1>1
<1>3. c \in AllCalls /\ \A s \in tasks \ {t} : c \notin s.calls
  BY CallsAre DEF Apart
<1>4. AllCalls' = (AllCalls \ {c}) \cup {next}
  <2>1. \A d : d \in AllCalls' <=> \E s \in tasks' : d \in s.calls
    BY DEF AllCalls
  <2>2. \A d : d \in AllCalls' <=> d \in u.calls \/ \E s \in tasks \ {t} : d \in s.calls
    BY <1>1, <2>1
  <2>3. \A d : d \in AllCalls' <=> d \in (AllCalls \ {c}) \cup {next}
    BY <1>1, <1>3, <2>2, CallsAre
  <2>4. QED
    BY <2>3
<1>5. \A d \in AllCalls \ {c} : {d.path, d.source} \cap {c.path, c.source} = {}
  BY <1>3 DEF Apart
<1>6. next \notin AllCalls \ {c}
  BY <1>5
<1>7. TasksFit'
  <2>1. u.calls # {} /\ \A d \in u.calls : d.op = OpOf(u.kind)
    BY <1>1 DEF TasksFit
  <2>2. u.kind \in {"drop", "deleteFolder"} \/ \E d \in u.calls : u.calls = {d}
    <3>1. CASE \E d \in t.calls : t.calls = {d}
      <4>1. u.calls = {next}
        BY <1>1, <3>1
      <4>2. QED
        BY <4>1
    <3>2. CASE t.kind \in {"drop", "deleteFolder"}
      BY <1>1, <3>2
    <3>3. QED
      BY <3>1, <3>2 DEF TasksFit
  <2>3. QED
    BY <1>1, <2>1, <2>2 DEF TasksFit
<1>8. Apart'
  <2>1. \A s, v \in tasks' : s # v => s.calls \cap v.calls = {}
    <3>1. \A s \in tasks \ {t} : s.calls \cap u.calls = {}
      BY <1>1, <1>3, <1>6, CallsAre DEF Apart
    <3>2. QED
      BY <1>1, <3>1 DEF Apart
  <2>2. \A d, e \in AllCalls' : d # e => {d.path, d.source} \cap {e.path, e.source} = {}
    BY <1>4, <1>5 DEF Apart
  <2>3. QED
    BY <2>1, <2>2 DEF Apart
<1>9. UsedBy(u.calls) = UsedBy(t.calls)
  <2>1. \A p : p \in UsedBy(u.calls) <=> \E d \in u.calls : p \in {d.path, d.source}
    BY DEF UsedBy
  <2>2. \A p : p \in UsedBy(t.calls) <=> \E d \in t.calls : p \in {d.path, d.source}
    BY DEF UsedBy
  <2>3. \A p : (\E d \in u.calls : p \in {d.path, d.source}) <=> \E d \in t.calls : p \in {d.path, d.source}
    BY <1>1
  <2>4. \A p : p \in UsedBy(u.calls) <=> p \in UsedBy(t.calls)
    BY <2>1, <2>2, <2>3
  <2>5. QED
    BY <2>4
<1>10. \A v \in tasks' : \E s \in tasks :
         v.kind = s.kind /\ v.was = s.was /\ UsedBy(v.calls) = UsedBy(s.calls)
  BY <1>1, <1>9
<1>11. QED
  BY <1>2, <1>3, <1>4, <1>7, <1>8, <1>10

---------------------------------------------------------------------------
(* Gestures.                                                               *)

LEMMA Asked ==
  ASSUME FilesInv, NEW kind \in TaskKinds, NEW calls \in SUBSET Call, Ask(kind, calls),
         \A c \in calls : /\ c.op = OpOf(kind) /\ c.step = IF c.op = "create" THEN "upload" ELSE "begin"
                          /\ c.op \in {"create", "delete"} => c.path = c.source,
         \A c, d \in calls : c # d => {c.path, c.source} \cap {d.path, d.source} = {},
         kind \in {"drop", "deleteFolder"} \/ \E c \in calls : calls = {c}
  PROVE  FilesInv'
<1> DEFINE t == [kind |-> kind, calls |-> calls, was |-> currentFile]
<1>0. UNCHANGED <<rows, blobs, kept, currentFile, files, refetching, staleList, strayed>>
  BY DEF Ask, fileServerVars, treeVars
<1>1. /\ t \in Tasks /\ tasks' = tasks \cup {t} /\ calls # {} /\ gestures' \in 0..MaxGestures
      /\ t.kind = kind /\ t.calls = calls /\ t.was = currentFile
  BY FilesAssumption DEF Ask, FilesInv, FilesTypeOK, Tasks
<1>2. \A c \in AllCalls, d \in calls : {c.path, c.source} \cap {d.path, d.source} = {}
  <2>1. \A d \in calls : {d.path, d.source} \subseteq UsedBy(calls)
    BY DEF UsedBy
  <2>2. QED
    BY <2>1, InUseAre DEF Ask
<1>3. AllCalls' = AllCalls \cup calls
  <2>1. \A d : d \in AllCalls' <=> \E s \in tasks' : d \in s.calls
    BY DEF AllCalls
  <2>2. \A d : d \in AllCalls' <=> d \in AllCalls \cup calls
    BY <1>1, <2>1, CallsAre
  <2>3. QED
    BY <2>2
<1>4. FilesTypeOK' /\ tasks' \subseteq Tasks /\ (blobs \in [FilePaths -> Contents \cup {NoBlob}])'
  BY <1>0, <1>1 DEF FilesInv, FilesTypeOK, Tasks
<1>5. TasksFit'
  BY <1>1 DEF FilesInv, TasksFit
<1>6. Apart'
  <2>1. \A s \in tasks : s.calls \cap calls = {}
    BY <1>2, CallsAre
  <2>2. \A s, v \in tasks' : s # v => s.calls \cap v.calls = {}
    BY <1>1, <2>1 DEF FilesInv, Apart
  <2>3. \A d, e \in AllCalls' : d # e => {d.path, d.source} \cap {e.path, e.source} = {}
    BY <1>2, <1>3 DEF FilesInv, Apart
  <2>4. QED
    BY <2>2, <2>3 DEF Apart
<1>7. CallsInStep'
  BY <1>0, <1>3 DEF FilesInv, CallsInStep, At
<1>8. KeptOrCommitting'
  BY <1>0, <1>3 DEF FilesInv, KeptOrCommitting, At
<1>9. ListOrWaiting'
  BY <1>0, <1>3 DEF FilesInv, ListOrWaiting, ChangedBy
<1>10. OpenOrWaiting'
  <2>1. UsedBy(t.calls)' = UsedBy(t.calls)
    BY <1>0
  <2>2. \A s \in tasks : UsedBy(s.calls)' = UsedBy(s.calls)
    OBVIOUS
  <2>3. QED
    BY <1>0, <1>1, <1>3 DEF FilesInv, OpenOrWaiting, Removed
<1>11. QED
  BY <1>4, <1>5, <1>6, <1>7, <1>8, <1>9, <1>10 DEF FilesInv

LEMMA AskedOne ==
  ASSUME FilesInv, NEW kind \in TaskKinds, NEW c \in Call, Ask(kind, {c}),
         c.op = OpOf(kind), c.step = IF c.op = "create" THEN "upload" ELSE "begin",
         c.op \in {"create", "delete"} => c.path = c.source
  PROVE  FilesInv'
<1>1. /\ {c} \in SUBSET Call /\ \A d \in {c} : d = c
      /\ \E d \in {c} : {c} = {d}
  OBVIOUS
<1>2. QED
  BY <1>1, Asked

\* Every gesture of the page is such a request.
LEMMA GesturesKeep ==
  ASSUME FilesInv, NEW p \in FilePaths
  PROVE  /\ AskCreateFile(p) \/ AskCreateFolder(p) \/ AskCopy(p) \/ AskDelete(p) => FilesInv'
         /\ \A q \in FilePaths \cup Folders : AskRename(q, p) \/ AskMove(q, p) => FilesInv'
         /\ \A ps \in SUBSET FilePaths : AskDrop(ps) => FilesInv'
         /\ \A d \in Folders : AskDeleteFolder(d) => FilesInv'
<1> USE DEF CallOf, Call, OpOf, Contents, TaskKinds
<1>1. ASSUME NEW kind \in {"create", "folder"}, Ask(kind, {CallOf("create", p, p, "empty")}) PROVE FilesInv'
  <2> DEFINE c == CallOf("create", p, p, "empty")
  <2>1. c \in Call /\ c.op = OpOf(kind) /\ c.step = "upload" /\ c.path = c.source /\ c.op = "create"
    OBVIOUS
  <2>2. kind \in TaskKinds /\ Ask(kind, {c})
    BY <1>1
  <2> HIDE DEF c
  <2>3. QED
    BY <2>1, <2>2, AskedOne
<1>2. ASSUME AskCopy(p) PROVE FilesInv'
  <2> DEFINE c == CallOf("copy", CopyOf[p], p, NoBlob)
  <2>1. CopyOf[p] \in FilePaths /\ Ask("copy", {c})
    BY <1>2, FilesAssumption DEF AskCopy
  <2>2. c \in Call /\ c.op = OpOf("copy") /\ c.step = "begin" /\ c.op = "copy"
    BY <2>1
  <2> HIDE DEF c
  <2>3. QED
    BY <2>1, <2>2, AskedOne
<1>3. ASSUME AskDelete(p) PROVE FilesInv'
  <2> DEFINE c == CallOf("delete", p, p, NoBlob)
  <2>1. c \in Call /\ c.op = OpOf("delete") /\ c.step = "begin" /\ c.path = c.source /\ c.op = "delete"
    OBVIOUS
  <2>2. Ask("delete", {c})
    BY <1>3 DEF AskDelete
  <2> HIDE DEF c
  <2>3. QED
    BY <2>1, <2>2, AskedOne
<1>4. ASSUME NEW q \in FilePaths \cup Folders, AskRename(q, p) \/ AskMove(q, p) PROVE FilesInv'
  <2> DEFINE c == CallOf("rename", p, q, NoBlob)
  <2>1. c \in Call /\ c.op = OpOf("rename") /\ c.step = "begin" /\ c.op = "rename"
    OBVIOUS
  <2>2. Ask("rename", {c})
    BY <1>4 DEF AskRename, AskMove
  <2> HIDE DEF c
  <2>3. QED
    BY <2>1, <2>2, AskedOne
<1>5. ASSUME NEW ps \in SUBSET FilePaths, AskDrop(ps) PROVE FilesInv'
  <2> DEFINE cs == {CallOf("create", q, q, "text") : q \in ps}
  <2>1. \A c \in cs : /\ c \in Call /\ c.op = OpOf("drop") /\ c.step = "upload" /\ c.path = c.source /\ c.op = "create"
                      /\ c = CallOf("create", c.path, c.path, "text")
    OBVIOUS
  <2>2. "drop" \in TaskKinds /\ cs \in SUBSET Call /\ \A c, d \in cs : c # d => c.path # d.path
    BY <2>1
  <2>3. \A c, d \in cs : c # d => {c.path, c.source} \cap {d.path, d.source} = {}
    BY <2>1, <2>2
  <2>4. Ask("drop", cs)
    BY <1>5 DEF AskDrop
  <2>5. QED
    BY <2>1, <2>2, <2>3, <2>4, Asked
<1>6. ASSUME NEW d \in Folders, AskDeleteFolder(d) PROVE FilesInv'
  <2> DEFINE cs == {CallOf("delete", q, q, NoBlob) : q \in files \cap InFolder[d]}
  <2>1. files \subseteq FilePaths
    BY DEF FilesInv, FilesTypeOK
  <2>2. \A c \in cs : /\ c \in Call /\ c.op = OpOf("deleteFolder") /\ c.step = "begin" /\ c.path = c.source
                      /\ c.op = "delete" /\ c = CallOf("delete", c.path, c.path, NoBlob)
    BY <2>1
  <2>3. "deleteFolder" \in TaskKinds /\ cs \in SUBSET Call /\ \A c, e \in cs : c # e => c.path # e.path
    BY <2>2
  <2>4. \A c, e \in cs : c # e => {c.path, c.source} \cap {e.path, e.source} = {}
    BY <2>2, <2>3
  <2>5. Ask("deleteFolder", cs)
    BY <1>6 DEF AskDeleteFolder
  <2>6. QED
    BY <2>2, <2>3, <2>4, <2>5, Asked
<1>7. AskCreateFile(p) \/ AskCreateFolder(p) => FilesInv'
  BY <1>1 DEF AskCreateFile, AskCreateFolder
<1>8. QED
  BY <1>2, <1>3, <1>4, <1>5, <1>6, <1>7

---------------------------------------------------------------------------
(* The handlers.                                                           *)

\* What a step of a handler leaves for the page to hear of.
LEMMA Progressed ==
  ASSUME FilesInv, NEW t \in tasks, NEW c \in t.calls, NEW next \in Call, Step(t, c, next),
         next.op = c.op, next.path = c.path, next.source = c.source,
         c.step \notin {"done", "lost"}, UNCHANGED <<gestures, treeVars>>,
         \A p \in FilePaths :
           (p \in rows) # (p \in rows') => next.step \in {"done", "lost"} /\ p \in ChangedBy(c),
         \A p \in rows \ rows' : c.op \in {"delete", "rename"} /\ c.source = p
  PROVE  /\ tasks' \subseteq Tasks /\ TasksFit' /\ Apart' /\ ListOrWaiting' /\ OpenOrWaiting'
         /\ c \in AllCalls /\ AllCalls' = (AllCalls \ {c}) \cup {next}
         /\ gestures' \in 0..MaxGestures /\ currentFile' \in FilePaths /\ files' \subseteq FilePaths
         /\ ({refetching, staleList, strayed} \subseteq BOOLEAN)'
<1>1. /\ tasks' \subseteq Tasks /\ TasksFit' /\ Apart'
      /\ c \in AllCalls /\ AllCalls' = (AllCalls \ {c}) \cup {next}
      /\ \A u \in tasks' : \E s \in tasks :
           u.kind = s.kind /\ u.was = s.was /\ UsedBy(u.calls) = UsedBy(s.calls)
  BY Stepped DEF FilesInv
<1>2. ChangedBy(next) = ChangedBy(c) /\ ChangedBy(c) \subseteq {c.path, c.source}
  BY DEF ChangedBy, UsedBy
<1>3. ListOrWaiting'
  <2> SUFFICES ASSUME ~refetching, ~staleList, NEW p \in FilePaths, (p \in files) # (p \in rows')
               PROVE  \E d \in AllCalls' : d.step \in {"done", "lost"} /\ p \in ChangedBy(d)
    BY DEF ListOrWaiting, treeVars, ChangedBy, UsedBy
  <2>1. CASE (p \in rows) # (p \in rows')
    BY <1>1, <1>2, <2>1
  <2>2. CASE (p \in rows) = (p \in rows')
    <3>1. PICK d \in AllCalls : d.step \in {"done", "lost"} /\ p \in ChangedBy(d)
      BY <2>2 DEF FilesInv, ListOrWaiting
    <3>2. d \in AllCalls'
      BY <1>1, <3>1
    <3>3. QED
      BY <3>1, <3>2
  <2>3. QED
    BY <2>1, <2>2
<1>4. OpenOrWaiting'
  <2> SUFFICES ASSUME ~strayed PROVE OpenOrWaiting'
    BY DEF OpenOrWaiting, treeVars
  <2>1. currentFile \in FilePaths
    BY DEF FilesInv, FilesTypeOK
  <2>2. currentFile \in rows' \cup {MainFile} \/ \E d \in AllCalls' : Removed(d, currentFile)
    <3>1. CASE currentFile \in rows \ rows'
      BY <1>1, <2>1, <3>1 DEF Removed
    <3>2. CASE \E d \in AllCalls : Removed(d, currentFile)
      BY <1>1, <3>2 DEF Removed
    <3>3. QED
      BY <3>1, <3>2 DEF FilesInv, OpenOrWaiting
  <2>3. \A u \in tasks' :
          u.kind = "deleteFolder" /\ currentFile \in UsedBy(u.calls) \ {MainFile} => u.was \in UsedBy(u.calls)
    BY <1>1 DEF FilesInv, OpenOrWaiting
  <2>4. \A u : UsedBy(u.calls)' = UsedBy(u.calls)
    BY DEF UsedBy
  <2>5. QED
    BY <2>2, <2>3 DEF OpenOrWaiting, treeVars, UsedBy, Removed
<1>5. QED
  BY <1>1, <1>3, <1>4 DEF FilesInv, FilesTypeOK, treeVars

LEMMA ReadsSourceKeeps ==
  ASSUME FilesInv, NEW t \in tasks, NEW c \in t.calls, ReadsSource(t, c)
  PROVE  FilesInv'
<1> DEFINE found == c.source \in rows /\ blobs[c.source] # NoBlob /\ (c.op = "rename" => c.path \notin rows)
           next == IF found THEN [ToStep(c, "upload") EXCEPT !.content = blobs[c.source]]
                   ELSE Answer(c, "failed")
<1>0. c \in Call
  BY DEF FilesInv, Tasks
<1>1. /\ Step(t, c, next) /\ UNCHANGED <<rows, blobs, kept, gestures, treeVars>>
      /\ c.op \in {"copy", "rename"} /\ c.step = "begin"
  BY DEF ReadsSource, At, fileServerVars
<1>2. /\ next \in Call /\ next.op = c.op /\ next.path = c.path /\ next.source = c.source
      /\ next.step = IF found THEN "upload" ELSE "failed"
  BY <1>0 DEF Call, ToStep, Answer, FilesInv, FilesTypeOK
<1>3. /\ tasks' \subseteq Tasks /\ TasksFit' /\ Apart' /\ ListOrWaiting' /\ OpenOrWaiting'
      /\ c \in AllCalls /\ AllCalls' = (AllCalls \ {c}) \cup {next}
      /\ gestures' \in 0..MaxGestures /\ currentFile' \in FilePaths /\ files' \subseteq FilePaths
      /\ ({refetching, staleList, strayed} \subseteq BOOLEAN)'
  BY <1>1, <1>2, Progressed
<1>4. FilesTypeOK' /\ (blobs \in [FilePaths -> Contents \cup {NoBlob}])'
  BY <1>1, <1>3 DEF FilesInv, FilesTypeOK, Tasks
<1>5. CallsInStep'
  <2>1. next.step = "upload" => c.source \in rows /\ (c.op = "rename" => c.path \notin rows)
    BY <1>2
  <2> HIDE DEF next, found
  <2>2. next.step \in {"upload", "failed"}
    BY <1>2
  <2>3. QED
    BY <1>1, <1>2, <1>3, <2>1, <2>2 DEF FilesInv, CallsInStep, At
<1>6. KeptOrCommitting'
  BY <1>1, <1>2, <1>3 DEF FilesInv, KeptOrCommitting, At
<1>7. QED
  BY <1>3, <1>4, <1>5, <1>6 DEF FilesInv

\* Nobody else works on the paths of a call.
LEMMA OwnPaths ==
  ASSUME Apart, NEW c \in AllCalls, NEW d \in AllCalls \ {c}
  PROVE  {d.path, d.source} \cap {c.path, c.source} = {}
BY DEF Apart

LEMMA UploadsKeeps ==
  ASSUME FilesInv, NEW t \in tasks, NEW c \in t.calls, Uploads(t, c)
  PROVE  FilesInv'
<1> DEFINE next == ToStep(c, IF c.op = "rename" THEN "remove" ELSE "commit")
<1>0. c \in Call
  BY DEF FilesInv, Tasks
<1>1. /\ Step(t, c, next) /\ UNCHANGED <<rows, kept, gestures, treeVars>> /\ c.step = "upload"
      /\ blobs' = [blobs EXCEPT ![c.path] = c.content]
  BY DEF Uploads, At
<1>2. /\ next \in Call /\ next.op = c.op /\ next.path = c.path /\ next.source = c.source
      /\ next.content = c.content /\ next.step = IF c.op = "rename" THEN "remove" ELSE "commit"
  BY <1>0 DEF Call, ToStep
<1> HIDE DEF next
<1>3. /\ tasks' \subseteq Tasks /\ TasksFit' /\ Apart' /\ ListOrWaiting' /\ OpenOrWaiting'
      /\ c \in AllCalls /\ AllCalls' = (AllCalls \ {c}) \cup {next}
      /\ gestures' \in 0..MaxGestures /\ currentFile' \in FilePaths /\ files' \subseteq FilePaths
      /\ ({refetching, staleList, strayed} \subseteq BOOLEAN)'
  BY <1>1, <1>2, Progressed
<1>4. (blobs \in [FilePaths -> Contents \cup {NoBlob}])'
  BY <1>0, <1>1 DEF FilesInv, Call
<1>5. FilesTypeOK'
  BY <1>1, <1>3, <1>4 DEF FilesInv, FilesTypeOK, Tasks
<1>6. \A p \in FilePaths : blobs'[p] = IF p = c.path THEN c.content ELSE blobs[p]
  BY <1>1 DEF FilesInv
<1>7. c.path \in FilePaths /\ \A d \in AllCalls : d.path \in FilePaths
  BY <1>0, CallsAre DEF FilesInv, Tasks, Call
<1>8. CallsInStep'
  <2>1. \A d \in AllCalls \ {c} : blobs'[d.path] = blobs[d.path]
    BY <1>3, <1>6, <1>7, OwnPaths DEF FilesInv
  <2>2. blobs'[next.path] = next.content
    BY <1>2, <1>6, <1>7
  <2>3. QED
    BY <1>1, <1>2, <1>3, <2>1, <2>2 DEF FilesInv, CallsInStep, At
<1>9. KeptOrCommitting'
  <2> SUFFICES ASSUME NEW p \in rows
               PROVE  \/ kept[p] \in {blobs'[p], Unknown}
                      \/ \E d \in AllCalls' : /\ At(d, "commit") /\ p \in {d.path, d.source}
                                              /\ d.op = "copy" => p = d.path
    BY <1>1 DEF KeptOrCommitting, At
  <2>1. p \in FilePaths
    BY DEF FilesInv, FilesTypeOK
  <2>2. CASE p = c.path
    <3>1. c.op # "rename"
      BY <1>1, <1>3, <2>2 DEF FilesInv, CallsInStep
    <3>2. QED
      BY <1>2, <1>3, <2>2, <3>1 DEF At
  <2>3. CASE p # c.path
    BY <1>1, <1>3, <1>6, <2>1, <2>3 DEF FilesInv, KeptOrCommitting, At
  <2>4. QED
    BY <2>2, <2>3
<1>10. QED
  BY <1>3, <1>4, <1>5, <1>8, <1>9 DEF FilesInv

LEMMA RemovesKeeps ==
  ASSUME FilesInv, NEW t \in tasks, NEW c \in t.calls, Removes(t, c)
  PROVE  FilesInv'
<1> DEFINE next == ToStep(c, "commit")
<1>0. c \in Call
  BY DEF FilesInv, Tasks
<1>1. /\ Step(t, c, next) /\ UNCHANGED <<rows, kept, gestures, treeVars>>
      /\ \/ c.op = "rename" /\ c.step = "remove"
         \/ c.op = "delete" /\ c.step = "begin" /\ c.path \in rows
      /\ blobs' = [blobs EXCEPT ![c.source] = NoBlob] \/ blobs' = blobs
  BY DEF Removes, At
<1>2. /\ next \in Call /\ next.op = c.op /\ next.path = c.path /\ next.source = c.source
      /\ next.content = c.content /\ next.step = "commit"
  BY <1>0 DEF Call, ToStep
<1> HIDE DEF next
<1>3. /\ tasks' \subseteq Tasks /\ TasksFit' /\ Apart' /\ ListOrWaiting' /\ OpenOrWaiting'
      /\ c \in AllCalls /\ AllCalls' = (AllCalls \ {c}) \cup {next}
      /\ gestures' \in 0..MaxGestures /\ currentFile' \in FilePaths /\ files' \subseteq FilePaths
      /\ ({refetching, staleList, strayed} \subseteq BOOLEAN)'
  BY <1>1, <1>2, Progressed
<1>4. (blobs \in [FilePaths -> Contents \cup {NoBlob}])'
  BY <1>0, <1>1 DEF FilesInv, Call
<1>5. FilesTypeOK'
  BY <1>1, <1>3, <1>4 DEF FilesInv, FilesTypeOK, Tasks
<1>6. \A p \in FilePaths : p # c.source => blobs'[p] = blobs[p]
  BY <1>1 DEF FilesInv
<1>7. \A d \in AllCalls : d.path \in FilePaths
  BY CallsAre DEF FilesInv, Tasks, Call
<1>8. CallsInStep'
  <2>1. \A d \in AllCalls \ {c} : blobs'[d.path] = blobs[d.path]
    BY <1>3, <1>6, <1>7, OwnPaths DEF FilesInv
  <2>2. c.op # "delete" => c.path # c.source /\ blobs[c.path] = c.content
    BY <1>1, <1>3 DEF FilesInv, CallsInStep
  <2>3. next.op # "delete" => blobs'[next.path] = next.content
    BY <1>2, <1>3, <1>6, <1>7, <2>2
  <2>4. QED
    BY <1>1, <1>2, <1>3, <2>1, <2>3 DEF FilesInv, CallsInStep, At
<1>9. KeptOrCommitting'
  <2> SUFFICES ASSUME NEW p \in rows
               PROVE  \/ kept[p] \in {blobs'[p], Unknown}
                      \/ \E d \in AllCalls' : /\ At(d, "commit") /\ p \in {d.path, d.source}
                                              /\ d.op = "copy" => p = d.path
    BY <1>1 DEF KeptOrCommitting, At
  <2>1. p \in FilePaths
    BY DEF FilesInv, FilesTypeOK
  <2>2. CASE p = c.source
    BY <1>1, <1>2, <1>3, <2>2 DEF At
  <2>3. CASE p # c.source
    BY <1>1, <1>3, <1>6, <2>1, <2>3 DEF FilesInv, KeptOrCommitting, At
  <2>4. QED
    BY <2>2, <2>3
<1>10. QED
  BY <1>3, <1>4, <1>5, <1>8, <1>9 DEF FilesInv

LEMMA CommitsKeeps ==
  ASSUME FilesInv, NEW t \in tasks, NEW c \in t.calls, Commits(t, c)
  PROVE  FilesInv'
<1>0. c \in Call
  BY DEF FilesInv, Tasks
<1>1. /\ c.step = "commit" /\ UNCHANGED <<blobs, gestures, treeVars>>
      /\ rows' = IF c.op = "delete" THEN rows \ {c.path}
                 ELSE (rows \ (IF c.op = "rename" THEN {c.source} ELSE {})) \cup {c.path}
      /\ kept' = [p \in FilePaths |-> IF p \notin rows' THEN NoBlob
                                      ELSE IF p = c.path THEN c.content ELSE kept[p]]
      /\ \E result \in {"done", "lost"} : Step(t, c, Answer(c, result))
  BY DEF Commits, At
<1>2. PICK result \in {"done", "lost"} : Step(t, c, Answer(c, result))
  BY <1>1
<1> DEFINE next == Answer(c, result)
<1>a. /\ next \in Call /\ next.op = c.op /\ next.path = c.path /\ next.source = c.source
      /\ next.step = result /\ Step(t, c, next)
  BY <1>0, <1>2 DEF Call, Answer
<1> HIDE DEF next
<1>b. \A p \in FilePaths : (p \in rows) # (p \in rows') => next.step \in {"done", "lost"} /\ p \in ChangedBy(c)
  BY <1>1, <1>a DEF ChangedBy, UsedBy
<1>c. \A p \in rows \ rows' : c.op \in {"delete", "rename"} /\ c.source = p
  <2>1. c.op = "delete" => c.path = c.source
    BY CallsAre DEF FilesInv, CallsInStep
  <2>2. QED
    BY <1>1, <2>1
<1>3. /\ tasks' \subseteq Tasks /\ TasksFit' /\ Apart' /\ ListOrWaiting' /\ OpenOrWaiting'
      /\ c \in AllCalls /\ AllCalls' = (AllCalls \ {c}) \cup {next}
      /\ gestures' \in 0..MaxGestures /\ currentFile' \in FilePaths /\ files' \subseteq FilePaths
      /\ ({refetching, staleList, strayed} \subseteq BOOLEAN)'
  BY <1>1, <1>a, <1>b, <1>c, Progressed
<1>4. rows' \subseteq FilePaths /\ kept' \in [FilePaths -> Contents \cup {NoBlob, Unknown}]
  BY <1>0, <1>1 DEF FilesInv, FilesTypeOK, Call
<1>5. FilesTypeOK' /\ (blobs \in [FilePaths -> Contents \cup {NoBlob}])'
  BY <1>1, <1>3, <1>4 DEF FilesInv, FilesTypeOK, Tasks
<1>6. CallsInStep'
  <2>1. \A d \in AllCalls \ {c} : /\ d.path \in rows' <=> d.path \in rows
                                  /\ d.source \in rows' <=> d.source \in rows
    BY <1>1, <1>3, OwnPaths DEF FilesInv
  <2>2. c.op # "delete" => c.path \in rows'
    BY <1>1
  <2>3. c.op = "copy" => c.source \in rows'
    BY <1>1, <1>3 DEF FilesInv, CallsInStep
  <2>4. c.op \in {"create", "delete"} => c.path = c.source
    BY <1>3 DEF FilesInv, CallsInStep
  <2>5. QED
    BY <1>1, <1>a, <1>3, <2>1, <2>2, <2>3, <2>4 DEF FilesInv, CallsInStep, At
<1>7. KeptOrCommitting'
  <2> SUFFICES ASSUME NEW p \in rows'
               PROVE  \/ kept'[p] \in {blobs[p], Unknown}
                      \/ \E d \in AllCalls' : /\ At(d, "commit") /\ p \in {d.path, d.source}
                                              /\ d.op = "copy" => p = d.path
    BY <1>1 DEF KeptOrCommitting, At
  <2>1. p \in FilePaths
    BY <1>4
  <2>2. CASE p = c.path
    <3>1. c.op # "delete" /\ blobs[c.path] = c.content
      BY <1>1, <1>3, <2>2 DEF FilesInv, CallsInStep
    <3>2. QED
      BY <1>1, <2>1, <2>2, <3>1
  <2>3. CASE p # c.path
    <3>1. p \in rows /\ kept'[p] = kept[p] /\ (c.op = "rename" => p # c.source)
      BY <1>1, <2>1, <2>3
    <3>2. CASE kept[p] \in {blobs[p], Unknown}
      BY <3>1, <3>2
    <3>3. CASE \E d \in AllCalls : At(d, "commit") /\ p \in {d.path, d.source} /\ (d.op = "copy" => p = d.path)
      <4>1. PICK d \in AllCalls : At(d, "commit") /\ p \in {d.path, d.source} /\ (d.op = "copy" => p = d.path)
        BY <3>3
      <4>2. c.op \in {"create", "delete"} => c.path = c.source
        BY <1>3 DEF FilesInv, CallsInStep
      <4>3. c.op \in {"create", "delete", "rename", "copy"}
        BY <1>0 DEF Call
      <4>4. d # c
        BY <2>3, <3>1, <4>1, <4>2, <4>3
      <4>5. QED
        BY <1>3, <4>1, <4>4
    <3>4. QED
      BY <3>1, <3>2, <3>3 DEF FilesInv, KeptOrCommitting
  <2>4. QED
    BY <2>2, <2>3
<1>8. QED
  BY <1>3, <1>5, <1>6, <1>7 DEF FilesInv

LEMMA CallFailsKeeps ==
  ASSUME FilesInv, NEW t \in tasks, NEW c \in t.calls, CallFails(t, c)
  PROVE  FilesInv'
<1> DEFINE next == Answer(c, "failed")
<1>0. c \in Call
  BY DEF FilesInv, Tasks
<1>1. /\ Step(t, c, next) /\ UNCHANGED <<rows, blobs, gestures, treeVars>>
      /\ c.step \notin {"done", "lost", "failed"}
      /\ kept' = [p \in FilePaths |->
                    IF At(c, "commit") /\ p \in rows \cap ChangedBy(c) THEN Unknown ELSE kept[p]]
  BY DEF CallFails
<1>2. /\ next \in Call /\ next.op = c.op /\ next.path = c.path /\ next.source = c.source
      /\ next.step = "failed"
  BY <1>0 DEF Call, Answer
<1> HIDE DEF next
<1>3. /\ tasks' \subseteq Tasks /\ TasksFit' /\ Apart' /\ ListOrWaiting' /\ OpenOrWaiting'
      /\ c \in AllCalls /\ AllCalls' = (AllCalls \ {c}) \cup {next}
      /\ gestures' \in 0..MaxGestures /\ currentFile' \in FilePaths /\ files' \subseteq FilePaths
      /\ ({refetching, staleList, strayed} \subseteq BOOLEAN)'
  BY <1>1, <1>2, Progressed
<1>4. kept' \in [FilePaths -> Contents \cup {NoBlob, Unknown}]
  BY <1>1 DEF FilesInv, FilesTypeOK
<1>5. FilesTypeOK' /\ (blobs \in [FilePaths -> Contents \cup {NoBlob}])'
  BY <1>1, <1>3, <1>4 DEF FilesInv, FilesTypeOK, Tasks
<1>6. CallsInStep'
  BY <1>1, <1>2, <1>3 DEF FilesInv, CallsInStep, At
<1>7. KeptOrCommitting'
  <2> SUFFICES ASSUME NEW p \in rows
               PROVE  \/ kept'[p] \in {blobs[p], Unknown}
                      \/ \E d \in AllCalls' : /\ At(d, "commit") /\ p \in {d.path, d.source}
                                              /\ d.op = "copy" => p = d.path
    BY <1>1 DEF KeptOrCommitting, At
  <2>1. p \in FilePaths
    BY DEF FilesInv, FilesTypeOK
  <2>2. CASE At(c, "commit") /\ p \in ChangedBy(c)
    BY <1>1, <2>1, <2>2
  <2>3. CASE ~(At(c, "commit") /\ p \in ChangedBy(c))
    <3>1. kept'[p] = kept[p]
      BY <1>1, <2>1, <2>3
    <3>2. ~(At(c, "commit") /\ p \in {c.path, c.source} /\ (c.op = "copy" => p = c.path))
      BY <2>3 DEF ChangedBy, UsedBy
    <3>3. QED
      BY <1>3, <3>1, <3>2 DEF FilesInv, KeptOrCommitting
  <2>4. QED
    BY <2>2, <2>3
<1>8. QED
  BY <1>3, <1>5, <1>6, <1>7 DEF FilesInv

---------------------------------------------------------------------------
(* The page.                                                               *)

\* A task that succeeded leaves the page on a file of the project.
LEMMA OpenAfterFits ==
  ASSUME FilesInv, NEW t \in tasks, Succeeded(t)
  PROVE  /\ OpenAfter(t) \in FilePaths
         /\ \/ OpenAfter(t) = currentFile \/ OpenAfter(t) = MainFile
            \/ \E c \in t.calls : OpenAfter(t) = c.path
         /\ OpenAfter(t) # currentFile => OpenAfter(t) \in rows \cup {MainFile}
         /\ ~strayed =>
              \/ OpenAfter(t) \in rows \cup {MainFile}
              \/ OpenAfter(t) = currentFile /\ currentFile \notin UsedBy(t.calls)
<1> DEFINE c == CHOOSE d \in t.calls : TRUE
<1>1. t.calls # {} /\ t.calls \subseteq Call /\ t.kind \in TaskKinds
  BY DEF FilesInv, TasksFit, Tasks
<1>2. c \in t.calls
  BY <1>1
<1>3. OpenAfter(t) =
        CASE t.kind = "create" -> c.path
          [] t.kind = "rename" /\ currentFile = c.source -> c.path
          [] t.kind = "delete" /\ currentFile = c.path -> MainFile
          [] t.kind = "deleteFolder" /\ t.was \in UsedBy(t.calls) -> MainFile
          [] OTHER -> currentFile
  BY DEF OpenAfter
<1> HIDE DEF c
<1>4. c.path \in FilePaths /\ currentFile \in FilePaths
  BY <1>1, <1>2 DEF Call, FilesInv, FilesTypeOK
<1>5. OpenAfter(t) \in {currentFile, MainFile, c.path} /\ OpenAfter(t) \in FilePaths
  BY <1>3, <1>4, FilesAssumption
<1>6. \A d \in t.calls :
        /\ d \in AllCalls /\ d.step = "done" /\ d.op = OpOf(t.kind)
        /\ d.op \in {"create", "delete"} => d.path = d.source
        /\ d.op # "delete" => d.path \in rows
        /\ d.op = "copy" => d.source \in rows
  BY CallsAre DEF FilesInv, CallsInStep, TasksFit, Succeeded, At
<1>7. OpenAfter(t) # currentFile => OpenAfter(t) \in rows \cup {MainFile}
  <2>1. t.kind \in {"create", "rename"} => c.path \in rows
    BY <1>2, <1>6 DEF OpOf
  <2>2. QED
    BY <1>3, <2>1
<1>8. ASSUME ~strayed
      PROVE  \/ OpenAfter(t) \in rows \cup {MainFile}
             \/ OpenAfter(t) = currentFile /\ currentFile \notin UsedBy(t.calls)
  <2>2. t.kind \notin {"drop", "deleteFolder"} => t.calls = {c}
    BY <1>2 DEF FilesInv, TasksFit
  <2>3. currentFile \in UsedBy(t.calls) => \E d \in t.calls : currentFile \in {d.path, d.source}
    BY UsedAre
  <2>4. t.kind = "deleteFolder" /\ currentFile \in UsedBy(t.calls) \ {MainFile} => t.was \in UsedBy(t.calls)
    BY <1>8 DEF FilesInv, OpenOrWaiting
  <2>5. CASE t.kind = "create"
    BY <1>2, <1>3, <1>6, <2>5 DEF OpOf
  <2>6. CASE t.kind \in {"folder", "drop", "copy"}
    <3>1. OpenAfter(t) = currentFile
      BY <1>3, <2>6
    <3>2. \A d \in t.calls : {d.path, d.source} \subseteq rows
      BY <1>6, <2>6 DEF OpOf
    <3>3. QED
      BY <2>3, <3>1, <3>2
  <2>7. CASE t.kind = "rename"
    <3>1. c.path \in rows
      BY <1>2, <1>6, <2>7 DEF OpOf
    <3>2. OpenAfter(t) = IF currentFile = c.source THEN c.path ELSE currentFile
      BY <1>3, <2>7
    <3>3. QED
      BY <2>2, <2>3, <2>7, <3>1, <3>2
  <2>8. CASE t.kind = "delete"
    <3>1. c.path = c.source
      BY <1>2, <1>6, <2>8 DEF OpOf
    <3>2. OpenAfter(t) = IF currentFile = c.path THEN MainFile ELSE currentFile
      BY <1>3, <2>8
    <3>3. QED
      BY <2>2, <2>3, <2>8, <3>1, <3>2
  <2>9. CASE t.kind = "deleteFolder"
    <3>1. OpenAfter(t) = IF t.was \in UsedBy(t.calls) THEN MainFile ELSE currentFile
      BY <1>3, <2>9
    <3>2. QED
      BY <2>4, <2>9, <3>1
  <2>10. QED
    BY <1>1, <2>5, <2>6, <2>7, <2>8, <2>9 DEF TaskKinds
<1>9. QED
  BY <1>2, <1>5, <1>7, <1>8

LEMMA TaskEndsKeeps ==
  ASSUME FilesInv, NEW t \in tasks, TaskEnds(t)
  PROVE  FilesInv'
<1>1. /\ UNCHANGED <<rows, blobs, kept, gestures, files>> /\ tasks' = tasks \ {t}
      /\ \A c \in t.calls : c.step \in {"done", "lost", "failed"}
  BY DEF TaskEnds, Over, fileServerVars
<1>2. AllCalls' = AllCalls \ t.calls
  <2>1. \A d : d \in AllCalls' <=> \E s \in tasks' : d \in s.calls
    BY DEF AllCalls
  <2>2. \A d : d \in AllCalls' <=> d \in AllCalls \ t.calls
    BY <1>1, <2>1, CallsAre DEF FilesInv, Apart
  <2>3. QED
    BY <2>2
<1>3. FilesTypeOK' /\ tasks' \subseteq Tasks /\ (blobs \in [FilePaths -> Contents \cup {NoBlob}])'
  <2>1. currentFile' \in FilePaths
    BY OpenAfterFits DEF TaskEnds, FilesInv, FilesTypeOK
  <2>2. ({refetching, staleList, strayed} \subseteq BOOLEAN)'
    BY DEF TaskEnds, FilesInv, FilesTypeOK
  <2>3. QED
    BY <1>1, <2>1, <2>2 DEF FilesInv, FilesTypeOK, Tasks
<1>4. TasksFit' /\ Apart'
  BY <1>1, <1>2 DEF FilesInv, TasksFit, Apart
<1>5. CallsInStep'
  BY <1>1, <1>2 DEF FilesInv, CallsInStep, At
<1>6. KeptOrCommitting'
  BY <1>1, <1>2 DEF FilesInv, KeptOrCommitting, At
<1>7. ListOrWaiting'
  <2>1. CASE refetching' \/ staleList'
    BY <2>1 DEF ListOrWaiting
  <2>2. CASE ~refetching' /\ ~staleList'
    <3>1. ~refetching /\ ~staleList /\ \A c \in t.calls : c.step \notin {"done", "lost"}
      <4>1. CASE Succeeded(t) \/ t.kind = "drop"
        BY <2>2, <4>1 DEF TaskEnds
      <4>2. CASE ~(Succeeded(t) \/ t.kind = "drop")
        BY <2>2, <4>2 DEF TaskEnds
      <4>3. QED
        BY <4>1, <4>2
    <3>2. QED
      BY <1>1, <1>2, <3>1 DEF FilesInv, ListOrWaiting, ChangedBy
  <2>3. QED
    BY <2>1, <2>2
<1>8. OpenOrWaiting'
  <2> SUFFICES ASSUME ~strayed'
               PROVE  /\ \/ currentFile' \in rows \cup {MainFile}
                         \/ \E c \in AllCalls' : Removed(c, currentFile')
                      /\ \A s \in tasks' : s.kind = "deleteFolder" /\ currentFile' \in UsedBy(s.calls) \ {MainFile} =>
                                             s.was \in UsedBy(s.calls)
    BY <1>1 DEF OpenOrWaiting, UsedBy, Removed
  <2>1. CASE Succeeded(t)
    <3>1. currentFile' = OpenAfter(t) /\ (strayed => OpenAfter(t) # currentFile)
      BY <2>1 DEF TaskEnds
    <3>2. currentFile' \in rows \cup {MainFile} \/ \E c \in AllCalls' : Removed(c, currentFile')
      <4>1. CASE OpenAfter(t) = currentFile /\ currentFile \notin UsedBy(t.calls)
        <5>1. \A c \in t.calls : currentFile \notin {c.path, c.source}
          BY <4>1, UsedAre
        <5>2. QED
          BY <1>2, <3>1, <4>1, <5>1 DEF FilesInv, OpenOrWaiting, Removed
      <4>2. QED
        BY <2>1, <3>1, <4>1, OpenAfterFits
    <3>3. ASSUME NEW s \in tasks', s.kind = "deleteFolder", currentFile' \in UsedBy(s.calls) \ {MainFile}
          PROVE  s.was \in UsedBy(s.calls)
      <4>1. s \in tasks /\ s # t
        BY <1>1
      <4>2. \A c \in t.calls : c.path \notin UsedBy(s.calls)
        <5>1. \A c \in t.calls, d \in s.calls : {c.path, c.source} \cap {d.path, d.source} = {}
          BY <4>1, CallsAre DEF FilesInv, Apart
        <5>2. QED
          BY <5>1, UsedAre
      <4>3. currentFile' = currentFile
        BY <2>1, <3>1, <3>3, <4>2, OpenAfterFits
      <4>4. QED
        BY <3>1, <3>3, <4>1, <4>3 DEF FilesInv, OpenOrWaiting
    <3>4. QED
      BY <3>2, <3>3
  <2>2. CASE ~Succeeded(t)
    <3>1. currentFile' = currentFile /\ ~strayed /\ \A c \in t.calls : ~Removed(c, currentFile)
      BY <2>2 DEF TaskEnds
    <3>2. QED
      BY <1>1, <1>2, <3>1 DEF FilesInv, OpenOrWaiting
  <2>3. QED
    BY <2>1, <2>2
<1>9. QED
  BY <1>3, <1>4, <1>5, <1>6, <1>7, <1>8 DEF FilesInv

LEMMA OpenFileKeeps ==
  ASSUME FilesInv, NEW p \in FilePaths, OpenFile(p)
  PROVE  FilesInv'
<1>1. /\ UNCHANGED <<rows, blobs, kept, tasks, gestures, files, refetching, staleList>> /\ currentFile' = p
      /\ strayed' \in BOOLEAN
      /\ ~strayed' => /\ p \in rows \/ \E t \in tasks : \E c \in t.calls : Removed(c, p)
                      /\ \A t \in tasks : t.kind = "deleteFolder" => p \notin UsedBy(t.calls)
  BY DEF OpenFile, fileServerVars
<1>2. AllCalls' = AllCalls
  BY <1>1 DEF AllCalls
<1>3. FilesTypeOK' /\ tasks' \subseteq Tasks /\ (blobs \in [FilePaths -> Contents \cup {NoBlob}])'
  BY <1>1 DEF FilesInv, FilesTypeOK
<1>4. TasksFit' /\ Apart' /\ CallsInStep' /\ KeptOrCommitting' /\ ListOrWaiting'
  BY <1>1, <1>2 DEF FilesInv, TasksFit, Apart, CallsInStep, KeptOrCommitting, ListOrWaiting, At, ChangedBy
<1>5. OpenOrWaiting'
  BY <1>1, <1>2, CallsAre DEF OpenOrWaiting, UsedBy, Removed
<1>6. QED
  BY <1>3, <1>4, <1>5 DEF FilesInv

LEMMA ListArrivesKeeps ==
  ASSUME FilesInv, ListArrives
  PROVE  FilesInv'
<1>1. /\ UNCHANGED <<rows, blobs, kept, tasks, gestures, currentFile, strayed>>
      /\ files' = rows /\ refetching' = FALSE /\ staleList' = FALSE
  BY DEF ListArrives, fileServerVars
<1>2. AllCalls' = AllCalls
  BY <1>1 DEF AllCalls
<1>3. FilesTypeOK' /\ tasks' \subseteq Tasks /\ (blobs \in [FilePaths -> Contents \cup {NoBlob}])'
  BY <1>1 DEF FilesInv, FilesTypeOK
<1>4. TasksFit' /\ Apart' /\ CallsInStep' /\ KeptOrCommitting'
  BY <1>1, <1>2 DEF FilesInv, TasksFit, Apart, CallsInStep, KeptOrCommitting, At
<1>5. ListOrWaiting' /\ OpenOrWaiting'
  BY <1>1, <1>2 DEF FilesInv, ListOrWaiting, OpenOrWaiting, UsedBy, Removed
<1>6. QED
  BY <1>3, <1>4, <1>5 DEF FilesInv

---------------------------------------------------------------------------
LEMMA FilesStart == FilesInit => FilesInv
<1> SUFFICES ASSUME FilesInit PROVE FilesInv
  OBVIOUS
<1>1. /\ rows \subseteq FilePaths /\ MainFile \in rows /\ tasks = {} /\ gestures = 0 /\ currentFile = MainFile
      /\ blobs = [p \in FilePaths |-> IF p \in rows THEN "text" ELSE NoBlob] /\ kept = blobs
      /\ files = rows /\ refetching = FALSE /\ staleList = FALSE /\ strayed = FALSE
  BY FilesAssumption DEF FilesInit
<1>2. /\ blobs \in [FilePaths -> Contents \cup {NoBlob}]
      /\ {blobs, kept} \subseteq [FilePaths -> Contents \cup {NoBlob, Unknown}]
  BY <1>1 DEF Contents
<1>3. AllCalls = {}
  BY <1>1 DEF AllCalls
<1>4. FilesTypeOK
  <2>1. gestures \in 0..MaxGestures /\ currentFile \in FilePaths
    BY <1>1, FilesAssumption
  <2>2. {refetching, staleList, strayed} \subseteq BOOLEAN
    BY <1>1
  <2>3. QED
    BY <1>1, <1>2, <2>1, <2>2 DEF FilesTypeOK
<1>5. QED
  BY <1>1, <1>2, <1>3, <1>4 DEF FilesInv, TasksFit, Apart, CallsInStep, KeptOrCommitting, ListOrWaiting, OpenOrWaiting

LEMMA FilesStay == FilesInv /\ [FilesNext]_fileVars => FilesInv'
<1> SUFFICES ASSUME FilesInv, [FilesNext]_fileVars PROVE FilesInv'
  OBVIOUS
<1>1. ASSUME NEW p \in FilePaths,
             \/ AskCreateFile(p) \/ AskCreateFolder(p) \/ AskCopy(p) \/ AskDelete(p)
             \/ \E q \in FilePaths \cup Folders : AskRename(q, p) \/ AskMove(q, p)
      PROVE  FilesInv'
  BY <1>1, GesturesKeep
<1>2. ASSUME NEW p \in FilePaths, OpenFile(p) PROVE FilesInv'
  BY <1>2, OpenFileKeeps
<1>3. ASSUME NEW ps \in SUBSET FilePaths, AskDrop(ps) PROVE FilesInv'
  BY <1>3, GesturesKeep, FilesAssumption
<1>4. ASSUME NEW d \in Folders, AskDeleteFolder(d) PROVE FilesInv'
  BY <1>4, GesturesKeep, FilesAssumption
<1>5. ASSUME NEW t \in tasks, TaskEnds(t) PROVE FilesInv'
  BY <1>5, TaskEndsKeeps
<1>6. ASSUME NEW t \in tasks, NEW c \in t.calls,
             ReadsSource(t, c) \/ Uploads(t, c) \/ Removes(t, c) \/ Commits(t, c) \/ CallFails(t, c)
      PROVE  FilesInv'
  BY <1>6, ReadsSourceKeeps, UploadsKeeps, RemovesKeeps, CommitsKeeps, CallFailsKeeps
<1>7. CASE ListArrives
  BY <1>7, ListArrivesKeeps
<1>8. CASE UNCHANGED fileVars
  <2>1. UNCHANGED <<rows, blobs, kept, tasks, gestures, currentFile, files, refetching, staleList, strayed>>
    BY <1>8 DEF fileVars, fileServerVars, treeVars
  <2>2. AllCalls' = AllCalls
    BY <2>1 DEF AllCalls
  <2>3. QED
    BY <2>1, <2>2 DEF FilesInv, FilesTypeOK, TasksFit, Apart, CallsInStep, KeptOrCommitting, ListOrWaiting,
       OpenOrWaiting, At, ChangedBy, UsedBy, Removed
<1>9. QED
  BY <1>1, <1>2, <1>3, <1>4, <1>5, <1>6, <1>7, <1>8 DEF FilesNext

\* What FilesInv says holds from the start and for ever.
THEOREM FilesInvariant == FilesSpec => []FilesInv
BY FilesStart, FilesStay, PTL DEF FilesSpec

(* Rows, blobs, calls and the page's list keep their types, for any paths, *)
(* folders and number of requests.                                         *)
THEOREM FileTypesCorrect == FilesSpec => []FilesTypeOK
<1>1. FilesInv => FilesTypeOK
  BY DEF FilesInv
<1>2. QED
  BY <1>1, FilesInvariant, PTL

(* No step that fails leaves a row whose blob is missing or another's: the *)
(* blob is what the last request made of it, or its commit failed. The     *)
(* code: the order of upload, removal and commit in projects.py.           *)
THEOREM FilesAreKept == FilesSpec => []FilesKept
<1>1. FilesInv => FilesKept
  BY InUseAre DEF FilesInv, KeptOrCommitting, FilesKept
<1>2. QED
  BY <1>1, FilesInvariant, PTL

(* When nothing is under way the page shows the project's list, and a file *)
(* of it or main.tex is open: but for a change whose task failed or whose  *)
(* answer was lost, for a file of a folder that could only be deleted in   *)
(* part, and for one opened when it was gone or its folder was going. The  *)
(* code: the handlers of EditorPage.tsx and their mutations.               *)
THEOREM PageStaysOnFile == FilesSpec => []PageOnFile
<1>1. FilesInv => PageOnFile
  <2> SUFFICES ASSUME FilesInv, tasks = {}
               PROVE  /\ ~refetching /\ ~staleList => files = rows
                      /\ ~strayed => currentFile \in rows \cup {MainFile}
    BY DEF PageOnFile
  <2>1. AllCalls = {}
    BY DEF AllCalls
  <2>2. rows \subseteq FilePaths /\ files \subseteq FilePaths
    BY DEF FilesInv, FilesTypeOK
  <2>3. QED
    BY <2>1, <2>2 DEF FilesInv, ListOrWaiting, OpenOrWaiting
<1>2. QED
  BY <1>1, FilesInvariant, PTL
=============================================================================
