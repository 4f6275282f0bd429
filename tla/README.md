# Underleaf in TLA+

Underleaf is a collaborative LaTeX editor: a FastAPI backend, a compile worker
behind RabbitMQ, PostgreSQL for rows, MinIO for objects, a Yjs collaboration
server with Redis, and a React front end. This directory holds TLA+ models of the
parts whose correctness depends on the order in which several of these act, of the
pure functions that read text for the editor, the TLC configurations that check
them, and theorems about them checked by TLAPS.

- `PROJECT.json` lists the components, runs, mutants, findings, hazards and
  theorems, and maps every definition to the source lines it models.
- `tlc -config X.cfg M` checks a run, `tlapm M.tla` the proofs of a module.

## 1. Inventory

| Component | State | Operations | Interacts with |
|---|---|---|---|
| Job submission, `compile.py` `create_compile_job`, `rabbitmq_service.py` | row of `compile_jobs` | commit a PENDING row, read the files, publish (3 attempts), answer 201 or 503 | PostgreSQL, MinIO, RabbitMQ |
| Queue `compile_jobs` | messages: ready, unacknowledged, gone | enqueue, deliver, ack, nack, requeue | backend, worker threads |
| Compile worker, `compile-worker.py` | thread, channel, delivery; `/sandbox/{project}`, `/output/{job}`, `/logs` | the callback: mark RUNNING, store source, write files, compile, store log, PDF and SyncTeX, record, acknowledge, clean up; reconnect; restart | RabbitMQ, PostgreSQL, MinIO, disk shared by the threads |
| Versions, `compile.py` `get_job_status` and the snapshot router | rows of `snapshots` | create on a status request, list, label, view, compare, restore, delete | job rows, objects, project files |
| Compile page, `EditorPage.tsx` | the interval, overlapping calls, object URLs, what is shown | start a job, poll, fetch PDF, log and SyncTeX data, view and delete versions | status and artifact endpoints |
| Editor binding, `EditorPage.tsx` | one Yjs document per page, one Monaco binding, the role | open a file, seed, bind, type, save, lose access | collaboration server, files, members |
| PDF viewer, `PDFViewer.tsx` | document, scale, canvases, marks | load, draw, zoom, fit, search | compile page |
| Project files, `projects.py`, `minio_service.py`, `FileTree.tsx` | rows of `project_files`, one object each; the page's list | create, upload, rename, move, copy, delete | PostgreSQL, MinIO |
| Members and invites, `members.py`, `invites.py`, `useProjectRole.ts` | permissions, links with a use count, each page's cached role | add, change, remove, link, accept, revoke, poll | PostgreSQL |
| Collaboration server, `server.ts` | documents in memory, counts, subscriptions, Redis snapshots | connect, update, disconnect, relay, save every 60 s, shut down | editors, Redis, other instances |
| Sessions, `auth.py`, `api.ts`, `authStore.ts` | access token, cookie, refresh tokens in Redis, the queue of requests | log in (second factor, OAuth), load, refresh, replay, log out | Redis |
| Spell checker, `spellChecker.ts`, `spellCheckWorker.ts` | text, timer, marks; the worker's dictionary | enable, change language, type, check, add and ignore words | the worker, dictionaries |
| LaTeX text, `latexLanguage.ts`, `latexTextExtractor.ts`, the log parser | none | squiggles, words to check, issues of a log | editor |
| Version browser, `diffUtils.ts`; source map, `synctexParser.ts` | the panel; the parsed records | compare line by line; from a click to a line | versions, PDF viewer |

What is hard, and what makes each part correct:

- **Job submission**: the row, the files and the message are three steps with no
  transaction around them, and a publish attempt may reach the broker although it
  failed. Correct: what was published is a job with a row and files.
- **Queue and worker**: threads share one sandbox per project, messages come back
  when a channel or the process is lost, and a thread that lost its channel goes
  on working. Correct: no queued job is lost, each delivery has one holder, a row
  names only what is stored, a PDF is made from its own job's files, every job
  ends with a result it keeps.
- **Versions**: the handler reads and writes in four transactions, requests
  overlap, and a job may run again under the version made of it. Correct: the page
  that was told "completed" finds its version, the version offers its PDF, no
  version repeats the one before.
- **Compile page**: the interval does not wait for its callback, so that answers
  about one job, or two, arrive in any order; object URLs are revoked by whoever
  replaces them. Correct: what is shown in the end is not older than what was still
  asked about when the last job came, no revoked URL is shown, the spinner goes out.
- **Editor binding**: two effects tie refs to a file that changes while a fetch is
  on its way. Correct: the editor is bound to the file that is open, and to it
  only; what is saved under a path is text of that file, if the editor was bound; a
  page gets bound.
- **PDF viewer**: drawing goes on after it was cancelled, while document, scale and
  query change. Correct: no page of another document, one live document, the scale
  and the count of an undisturbed drawing, marks that are those of the query.
- **Project files**: object and row are written separately. Correct: a file keeps
  what was last written to it, whatever step fails; the page ends up on a file.
- **Members**: check, then write; pages that only poll. Correct: a removed member's
  page notices.
- **Collaboration server**: awaits between lookup and use, several instances over
  one snapshot. Correct: an edit acknowledged to its author survives the last
  disconnect, snapshots grow, what is saved is the live document, nothing leaks.
- **Sessions**: get, delete and set are separate calls, some allowed to fail, and
  requests wait for one refresh. Correct: a user with a valid cookie is not signed
  out, and a request waits only for a refresh that is under way.
- **Spell checker**: answers carry an id nobody compares. Correct: what is marked in
  the end are the wrong words of the chosen language.
- **Text functions**: a line-by-line approximation of LaTeX. Correct: within stated
  limits it agrees with a reference definition on every text.

## 2. Plan

Order of work, most important behaviour first; all of it is done except the last point.

1. The path of a job, with faults: `JobLifecycle` (abstract), `CompileQueue`,
   `CompileWorker`, `CompilePipeline`. Proved: types, four invariants, and that the
   pipeline implements the life cycle.
2. `Snapshots`, on top of `JobLifecycle`. Proved: its safety.
3. `CollabServer`. Proved: its five properties.
4. The editor page: `FileBinding`, `CompilePreview`, `PDFViewer`, `Members`. Proved:
   the safety of the first three, the types of all.
5. The tools of the browser: `ProjectFiles`, `Sessions`, `SpellChecker`, `LatexText`,
   `VersionBrowser`, `SourceMap`, with `EditorJump`. Proved: the properties of each.
6. Left: concurrent requests on one path, once somebody has said what a file should
   contain after them; the steps of `restore_snapshot` in the backend; the use count
   of a link, and single-use tokens, under concurrent requests.

Composition: `CompilePipeline` composes `CompileQueue` and `CompileWorker` and
implements `JobLifecycle`; `Snapshots` takes `JobLifecycle` as its environment, so
what is shown there holds for any executor that implements it. `FileBinding` takes
the exchange with the collaboration server, which `CollabServer` models, as one
step.

## 3. Modules

| Module | Models |
|---|---|
| `JobLifecycle` | what one job promises, whoever executes it: created, started, finished; an object is stored before a row names it |
| `CompileQueue` | `create_compile_job`, `publish_message`, the queue |
| `CompileWorker` | the worker: `callback`, `run_consumer`, the directories and the bucket |
| `CompilePipeline` | both together, fairness, properties, the refinement |
| `Snapshots` | `get_job_status`, `delete_snapshot`, `pollJobStatus` |
| `CollabServer` | `server.ts`, with the pages, y-websocket and Redis as it uses them |
| `FileBinding` | the project effect and the per-file effect of `EditorPage`, saving, the role and its overlay |
| `CompilePreview` | the compile mutation, `pollJobStatus` and what it fetches, the buttons of a version |
| `PDFViewer` | the PDF viewer |
| `Members` | `members.py`, `invites.py`, `useProjectRole`, the owner's dialog |
| `ProjectFiles` | the file handlers of `projects.py`, the file tree, the page's list and open file |
| `Sessions` | `api.ts`, the auth store, login, `/auth/me`, refresh and logout |
| `SpellChecker` | the checker on the page and in its worker |
| `LatexText` | diagnostics, extraction of words, log parser |
| `VersionBrowser` | `computeLineDiff`, `computeFileDiff`, the panel |
| `SourceMap` | the SyncTeX parser, `findSourceFromClick`, the double click |
| `EditorJump` | operators for the jump of the editor that `LatexText` and `SourceMap` share: the file is switched, and 50 ms later the cursor is put on the line |
| `CompilePipelineProofs` | theorems about `CompilePipeline`, the refinement included |
| `SnapshotProofs`, `CollabProofs`, `SessionProofs`, `ProjectFilesProofs` | theorems about `Snapshots`, `CollabServer`, `Sessions`, `ProjectFiles` |
| `EditorPageProofs` | theorems about `FileBinding`, `CompilePreview`, `PDFViewer`, and `MCEditorPage`, where they and `Members` are side by side |
| `TextProofs` | theorems about `LatexText` |
| `BrowserToolProofs` | theorems about `SpellChecker`, `SourceMap`, `VersionBrowser`, and `MCBrowserTools`, where all the tools are side by side |
| `MC...` | small instances for TLC |

Definitions named or commented "Mutant" are not part of a model: each is a
plausible bug of the definition that follows it, used to confirm that a property
notices it.

### The compile pipeline

*Producer.* `CreateRow`, `ReadFiles`, `PublishConfirmed` and `PublishFailed` are the
steps of `create_compile_job` between which another actor may act: the commit, the
reading of the files, each publish attempt. `request[j]` is how far the handler
got. The files of a job are a function from paths to contents; `Captured` says what
the handler does to them: a blob it cannot fetch, or cannot decode as UTF-8, is
sent as `""`. `ApiRestart` ends every running handler.

*Queue.* `queue[m]` is the broker's state of message `m`. The queue is external:
what is modelled is what its two clients rely on (first in first out, prefetch 1,
redelivery of what a lost channel held). `callback` drops a message with
`basic_ack` or with `basic_nack(requeue=False)`; no dead-letter exchange is
declared, so both end it.

*Worker.* Thread `w` is at `pc[w]`, the next call of `callback`. One action is one
call that others can observe: `SetRunning`, `SaveSource`, `WriteFile` (once per
file), `Compile`, `UploadLogs`, `UploadPdf`, `UploadSynctex`, `Record`, `Ack`,
`Cleanup`, and for the except block `RecordError` and `Nack`. The three exits of
the callback (success, failure, PDF not stored) make the same calls in the same
order and share these actions. `open[w]` is the thread's connection: it may be lost
at any moment (`LoseConnection`), which the thread notices at its next `basic_ack`
or `basic_nack`; `Crash` kills the whole process.

*Disk.* `sandbox` is indexed by project, `output` and `logfile` by job, as the
directories are. What a thread leaves in the sandbox when it is done, because the
removal failed or because it had lost its channel and left it out, the next job of the
project compiles with; the history variable `left` says what that was. A PDF is
represented by the tree it was made from, so that "which files is this PDF made of" is a
question the model can answer.

*Faults* are steps of their own kind: `api` (backend restart), `fetch` (a blob
cannot be read), `publish`, `db` (an update of the row fails), `store` (an upload
fails), `io` (a file cannot be written), `rm` (`cleanup_job` removes a part
only, or nothing: its errors are ignored), `conn`, `crash`. A run names the kinds that
may happen (`Faults`) and how many (`MaxFaults`); the theorems hold for
every value of both.

### Versions

`Snapshots` extends `JobLifecycle`: `JobStep` is any step of a job. `Rerun` says
whether finished jobs may be executed again, as the pipeline's `Redelivers` does, and
it is TRUE in the run. `page[j]` is the browser page that polls for `j`, and `sent[j]` its
requests that no handler has read yet: the interval does not wait for answers, and a
request that is on its way is read whatever the page has been told since. `ReadJob`,
`CheckExists`, `CompareHash` and `InsertSnapshot` are the transactions of
`get_job_status`, run by handler threads; an insertion loses to the unique constraint,
or fails for another reason (`CommitsFail`), which the handler swallows too. The jobs
are those of one project, because every query of the handler is restricted to one
project or one job. Three history variables name what the code does not keep:
`relapsed` jobs succeeded and failed later, which clears the row their version refers
to; the version of a `gone` job was deleted, or its commit failed; an `overtaken` job
was compared before the version in front of it was inserted.

### The collaboration server

A Yjs document is the set of edits it has integrated; merging is union. This leaves
out that an edit waits for the earlier edits of its author, which only makes the
divergence of two servers worse. All variables are about one document name, the
project. `doc[i]` is the entry of y-websocket's `docs` at instance `i`, `active[i]`,
`count[i]` and `relayed[i]` are the entries of `activeDocs`, `connectionCounts` and
`subscribedDocs`; a document has an identity because the old one may still be
written while the next is restored.

`calls[i]` are the commands pending on `persistence_redis`, answered in order:
`BindState` and `WriteState` are the continuations of the functions of that name,
`Saved` that of the interval and of the shutdown flush. `GetYDoc` and `CloseConn` are
y-websocket's: the first connection makes the document and calls `bindState` without
waiting for it, the last one takes it out of `docs` and calls `writeState`.
`EnsureDocRelay` adds the publishing handler to whatever document `docs` holds.
`subs`, `outbox`, `inbox` are the relay, which loses updates: pub/sub is at most once,
and `Receive` leaves open whether a message that arrives as a string decodes.

A page keeps its text when its socket is lost (`LoseSocket`) and sends it again when
it reconnects; `ClosePage` destroys it. `accepted` records what a restored document
of a running server has integrated; a crash takes out of it what was not in Redis.

`HastyLeave = FALSE` is an assumption on the environment that the code does not
enforce: the last page leaves only after the GET of its document was answered.
`collab_one_server` needs it and `snapshot_overwritten` shows why.

### The editor page

*Binding.* A text is a set of fragments, a fragment a word with the number of its
insertion, so that a word inserted twice is there twice. `pages[p]` is what the page
`p` keeps: the Yjs document, the editor's text (`model`), the binding (`attached`)
and the seed fetch under way (`fetching`), each with the document and file it was
made for. `Setup` and `Cleanup` are the per-file effect and its cleanup, `UserArrives`
the project effect that runs again when the user becomes known, `FetchAnswers` the
rest of `setup` behind the `await`. `Exchange` is the provider's synchronisation.
`Save` takes the path from `currentFile` and the text from the editor, bound or not;
`misfiled` remembers the paths under which an unbound editor was saved.

*Compilation.* `calls` are the callbacks of the interval that wait for an answer,
with what they wait for, several of one job among them; `polling` the jobs with an
interval. A job can be started while answers about another are awaited, and even while
the request for another one is, since a late answer puts `compiling` out. `urls` are
the object URLs that were not revoked. History: `late` are the jobs that were still
asked about when the last one came, `failed` those of which an answer was missed, and
`orphans` the URLs that a deletion dropped without revoking them.

*PDF viewer.* `drawings` are the calls of `renderAll` under way, cancelled ones
included, which go on to the next page; the user zooms and searches whenever there is
room for another call (`MaxDrawings`). `canvas` says what picture each page has, for
which scale it was sized, and which call has cleared it and not yet drawn it: a second
call clears a canvas before pdf.js refuses to draw on it twice. The text layer is built
in one step with the end of the picture. Scales are numbers on a logarithmic grid from
`MinScale` to `MaxScale`. History: `redrawn`, `mixed` and `partial` say that drawing was
started since the document came, that it was started again while it was being drawn,
and that it was that or searched.

*Members.* `change` and `accepts` are handlers between their read and their commit;
`known`, `status` and `fetching` are the cached query of each page.

### The tools of the browser

*Files.* A task is a gesture (create, drop, rename, move, copy, delete), which makes
calls side by side; `step` is how far a handler got among upload, removal and commit.
`kept` is what a file has to contain, and Unknown once a commit failed behind a blob
that was changed or removed. No two calls work on one path at a time. `staleList` and
`strayed` are history: the page missed a change of the list, until it fetches the list
again; and the open file was removed in a way it cannot hear of, until another is
opened. They are set by what happened (an answer that was lost, a folder deleted in
part, a file that was opened from an old list), never by what the page then shows.

*Sessions.* `handler` is the refresh on the server, between its calls to Redis;
`requests` carry the token they were sent with and the mark `_retry`.

*Spell checker.* `toWorker` and `toMain` are the messages in both directions, `fetches`
the dictionaries being loaded, which end in any order; `timer` is the debounce.

*Text.* `LatexText` and `SourceMap` let a text grow token by token or line by line, and
compare what the functions make of it with definitions of their own: nesting by a
pairing of each `\begin` with its `\end`, prose read token by token, the file a log is
in by counting parentheses, and the place on the page that a record divides as the
click does. A line of a log may open a file, close one, and be something else at the
same time, as the code reads it. Clicks on issues and in the PDF lead through
`EditorJump`: the file is switched at once, its text comes when it comes, and each
click's timer moves the cursor in whatever text is shown when it runs off.
`VersionBrowser` compares the diff with the definition of a longest common
subsequence; the projects and versions it may meet are `FileSets`, and an empty file
has no lines. They declare no RECURSIVE operator, only recursive functions and folds.

## 4. Runs

| Run | Instance | Shows |
|---|---|---|
| `pipeline_connections` | 2 threads, 2 jobs, 3 messages, at most 2 of `conn`, `publish`, `io` | types, `NoLostJob`, `OneHolder`, refinement of `JobLifecycle` |
| `pipeline_one_thread` | 1 thread, 3 jobs, 2 files (one binary), 1 fault of any of the nine kinds | `OwnBuild`, `OfferedIsStored` |
| `pipeline_settles` | 2 threads, 2 jobs, 1 of `conn`, `crash`, `publish`, `api`, with fairness | `EveryJobSettles` |
| `isolation_documented` | 2 threads, 2 jobs, no fault | violates `JobIsolation` |
| `snapshots_race` | 2 jobs, 2 handlers, 1 request under way per page, 1 deletion, 1 step of a finished job, commits may fail, one page may leave, with fairness | types, `VersionKept`, `VersionOffersPdf`, `VersionsDiffer`, `EveryCompileKept` |
| `collab_one_server` | 1 instance, 2 pages, 1 edit, 2 calls pending, 2 of `crash`, `get`, `set` | types, `EditsKept`, `StoredOnlyGrows`, `LiveDocIsActive`, `NothingLeaks` |
| `snapshot_overwritten` | the same, no fault, a page may leave at once | violates `EditsKept` |
| `late_instance` | 2 instances, 2 pages, no fault | violates `EditorsAgree` |
| `editor_page` | `FileBinding`, `CompilePreview`, `PDFViewer`, `Members` side by side, with fairness | `EditorShowsFile`, `SavedOwnText`, `PageGetsBound`; `ShownUrlIsLive`, `ShowsLastJob`, `CompilingEnds`; `OneDocument`, `RedrawnPagesFit`, `MarksFitQuery`; `RemovalIsNoticed`; types |
| `saves_misfiled` | 1 page, 2 files, no fault | violates `SavesAreOwn` |
| `seeded_once` | 1 page and a text that others hold already | violates `SeededOnce` |
| `browser_tools` | `SpellChecker`, `LatexText`, `VersionBrowser`, `ProjectFiles`, `Sessions`, `SourceMap` side by side | `MarksFit`; `LintFitsNesting`, `WordsAreProse`, `IssuesArePlaced`; `DiffIsFaithful`; `FilesKept`, `PageOnFile`; `StaysSignedIn`, `QueueIsServed`; `ClickFindsSource`; types |

`MCEditorPage` and `MCBrowserTools` put components that share no state into one
instance: an initial state chooses the part that the behaviour plays in (`part`,
`tool`), and the others stand still. Nothing is lost by it, and nothing is gained:
the states are the sum of those of the parts, not their product. The PDF tab has two
parts, `preview` (two jobs whose callbacks overlap, no version shown) and `versions` (one
job beside every use of the versions); they meet in the object URLs only, about which
the theorems have no such bound.

**Why the bounds are enough.** All jobs of a pipeline instance belong to one
project, the only case in which they can interfere. Two threads and two jobs give
every pair of them a conflict; three messages leave room for one job published
twice. Two faults of the connection kinds give a job three deliveries, or a
delivery that was lost, taken over and lost again. `MAX_RETRIES` is 3 in the code
and 2 here: what matters is a first, a repeated and a last attempt. Three jobs in
the run of one thread let a job find what the job before left, and what that one left.

Two jobs and two handlers of the versions race in every pair of queries. One request of
a page under way and two in handlers are three of one job, of which the last may be read
after the page was told. One step of a finished job is a redelivered job that runs again,
to either end; one page that may leave stands for either.

The collaboration server never looks at what an edit is, so one edit stands for
each: it is kept or lost whatever others there are. Two pages give a last and a
not last disconnect, a page that stays and one that comes back. Two pending calls
are a write of the old document followed by the read of the new, or a save between
them. A view leaves the contents of unreferenced documents out of the state.

*Editor page.* Two files are the one that is left and the one that is opened, one
page meets every order of its own effects (the theorems are about any number), two
jobs are the older and the newer, and three URLs replace each other twice. Two calls
of each job in flight overlap with each other and with those of the other job. One save
of an unbound editor (`MaxMisfiled`) and two insertions of a word (`MaxInserts`, which
the run reaches) let a text of one file get into another and come back doubled. Three
PDFs, of which the second has another number of pages, two scales and two calls of
`renderAll` tell every result of a drawing from the one wanted, and let a zoom and a
search fall into a drawing. One member and three changes of the owner are a removal and
a return around an accepted link.

*Tools.* One word that is right in one of two languages tells the dictionaries apart,
two messages and two loads let a later one pass an earlier. Texts of four tokens on up
to four lines contain every pair of nested, crossing and unmatched delimiters; logs of
four lines an error, its place, and a file that is opened and closed between them, on
one line too. Two clicks, on two issues or in the PDF, let the timer of one run off in
the file of the other. The tokens include `\begin{document}`, which may stay open
without a mark. The compared texts have up to five lines or none, with lines that repeat
so that the longest common subsequence is not unique; one line of context makes a
separator appear; and a second file stands beside some of them, on one side or on both.
The tools together have 1.44 million states. Three paths, one folder, two gestures: a
file, its copy and a file of the same base name elsewhere. Two requests are the one that
refreshes and the one that waits. Three boxes on a grid of four heights have a lowest, a
highest and one between.

**Fairness.** `CompilePipeline!Fairness`: a handler that was entered runs to its
end (asyncio schedules it) and a thread does not pause for good (every call of
`callback` has a timeout or fails; the engine is killed after `COMPILE_TIMEOUT`).
Nothing is assumed of faults or of the user who presses Compile.
`Snapshots!Fairness`: the answer of `createJob` starts the interval, the interval
keeps firing, requests wait in order for one of the handler threads (hence strong
fairness of `Poll(j)`), and a request that was received is answered.
`BindingFairness`, `PreviewFairness` and `MembersFairness`: a request of the page is
answered or fails (`fetch` and axios settle their promises), timers fire, and the
worker ends a job (which `EveryJobSettles` shows, for faults that interrupt somebody; a
row whose update failed would be polled for ever). Of the callbacks of one job it is
enough that one or another goes on. Nothing is assumed of users.

**Deadlock** is not checked for the pipeline and the versions, which end when their
jobs are done and no fault is left, nor for the browser, whose users may do nothing
more within the bounds; the collaboration server never ends, and it is checked.

### What the violations mean

- `isolation_documented`: `OUTPUT_DIR/{job_id}` is per job, as
  `docs/ARCHITECTURE.md` says, but `SANDBOX_DIR/{project_id}` is not. Two threads
  that compile two jobs of one project write into and remove the same directory.
- `snapshot_overwritten`: a page connects and leaves before Redis has answered the GET;
  the empty document is written over the snapshot.
- `late_instance`: an update relayed before a second server subscribes, and not yet
  saved when it reads the snapshot, never gets there. A second way to the same end:
  a page that connects while the old document is being written gets a document
  without publishing handler, which is then unsubscribed from the relay.
- `saves_misfiled`: a save takes the path of the file that was just opened and the text
  of the one before, because the editor is bound only when its content has come; the
  comment in `saveFile` says that `getValue()` is always up to date.
- `seeded_once`: the guard on `ytext.length` sees the page's own replica only, which
  has not been synchronised when the fetch answers; content others share is
  inserted a second time.

### What the properties leave out, and what happens there

Met while modelling; each is an exception a property names, or a case its module
does not allow.

- *Jobs.* `update_job_status` prints a database error and returns, and the callback
  acknowledges: the result is lost (`ReliableResults`, below). `rmtree` ignores errors:
  files of an earlier job that could not be removed are compiled with the next, and
  `OwnBuild` allows these and no others. Two equal versions may follow each other when
  two status requests race in the dedup (`compile.py:109-117`), which `VersionsDiffer`
  excepts by `overtaken`. A version has no reference of its own to its PDF: a redelivered
  job that fails clears the row it follows (`compile-worker.py:404`, `compile.py:307`),
  which `VersionOffersPdf` excepts by `relapsed`. A commit that fails is rolled back and
  the page told "completed" all the same (`compile.py:131-134`): `VersionKept` and
  `EveryCompileKept` except it by `gone`. A request that comes late makes a version again
  that was deleted since.
- *Versions and pages.* A version is made by polling alone, so that `EveryCompileKept`
  excepts a page that was closed. One failed status request ends the polling for good.
  Late fetches of an older job replace what a newer one shows: `ShowsLastJob` allows what
  was still asked about when the last job came. The URL of a version that is opened while
  another is being deleted is dropped without being revoked.
- *Binding.* When the user becomes known after the editor was mounted, the binding is
  destroyed and not made again. A save before the new file is bound stores the text of
  the file before under its path, which `SavedOwnText` excepts for that path. When
  access is revoked, `setValue('')` goes through a live binding and empties the text for
  everybody. A failed seed fetch binds an empty text, what was typed during the fetch is
  overwritten, and restoring, renaming and deleting files leave the shared texts as they
  were. Ctrl+S saves before the role is known and while a save is under way.
- *PDF viewer.* A new PDF with as many pages as the one before is not drawn again. A zoom
  during a drawing cancels the page that is being drawn and not the call, which goes on to
  the next page at the old scale (`continue`, `PDFViewer.tsx:327`) beside the new one:
  pages may be left at the old scale or cleared (`mixed`). A call that ends replaces the
  count of the find bar by the marks it collected on its way, whatever was searched or
  drawn meanwhile (`partial`).
- *Files.* Creating or copying onto a name that exists overwrites; a folder that is
  deleted in part leaves the list stale; renaming a folder answers 404. A deletion whose
  answer is lost leaves the page on the file, and a list fetched before a change that
  failed on its way back stays as it is. A commit that fails behind a changed or removed
  blob leaves a row whose blob is another's or missing (`Unknown`).
- *Members.* The use count of a link is written from the value read before, so that
  uses of two users may count once. The 404 of a deleted project is retried for ever.
- *Sessions.* A page that loads with an expired access token is signed out although
  the cookie is valid; a reload during the rotation loses the session; logging out
  during a refresh signs in again; two tabs share the cookie, not `_isRefreshing`. When
  a refresh fails, the requests that waited for it are neither replayed nor rejected:
  `QueueIsServed` says that the page is being left then, and no more.
- *Tools.* Asking for the fixes of a word adds it to the personal dictionary. Switching
  the language to another and back during a load leaves the wrong one, and so does a
  load that fails: `MarksFit` excepts both (`confused`). Texts are compared up to 2000
  lines. When the comparison is switched, a file that neither side has any more stays
  selected, and the panel says that there are no differences. A double click opens the
  first path that ends in the base name, which for `main.tex` may be `domain.tex`
  (`endsWith`, `EditorPage.tsx:1281`), and takes the highest and lowest record of a page
  for its edges. `docs/ARCHITECTURE.md:378` says that a click on an issue jumps "to the
  correct file and line"; both kinds of click move the cursor 50 ms later in whatever
  text is shown, so that a file whose content comes later is left at another line, and
  the last of several timers may run off in the wrong file. A line of the log that
  closes one file and opens another leaves the parser in the one before, and an error
  without a line takes that of the next one. `latexLanguage.ts:36` says that processing
  stops after the line of `\end{document}`; the code stops before it (`break`), and what
  ends on that line is marked as not ended.

## 5. Proofs

TLAPS proves for all values of the constants (with the named assumptions of the
modules on their types):

| Theorem | Statement | Assumption |
|---|---|---|
| `TypeCorrect`, `MessagesHaveOneHolder`, `OfferedResultsAreStored` | `TypeOK`, `OneHolder`, `OfferedIsStored` | |
| `NoJobIsLost` | `NoLostJob` | `ReliableResults` |
| `OneThreadBuildsItsJob` | `OwnBuild` | `OneThread` |
| `PipelineImplementsLifecycle` | `ImplementsLifecycle` | |
| `VersionTypesCorrect`, `VersionsAreKept`, `VersionsOfferTheirPdf`, `VersionsAreDistinct` | `TypeOK`, `VersionKept`, `VersionOffersPdf`, `VersionsDiffer` | |
| `CollabTypesCorrect`, `LiveDocStaysActive`, `DocumentsAreReleased` | `TypeOK`, `LiveDocIsActive`, `NothingLeaks` | any number of servers |
| `AcceptedEditsAreKept`, `SnapshotOnlyGrows` | `EditsKept`, `StoredOnlyGrows` | `OneServer` |
| `EditorsShowTheirFile` | `EditorShowsFile` | |
| `SavesAreOfTheFile` | `SavedOwnText` | |
| `ShownUrlsAreLive`, `LastJobIsShown` | `ShownUrlIsLive`, `ShowsLastJob` | |
| `ViewerHoldsOneDocument` | `OneDocument` | |
| `PagesAreRedrawn`, `MarksAreOfTheQuery` | `RedrawnPagesFit`, `MarksFitQuery` | |
| `PageTypesCorrect` | `TypesOK` of `MCEditorPage` | |
| `FilesAreKept`, `PageStaysOnFile` | `FilesKept`, `PageOnFile` | |
| `UsersStaySignedIn`, `QueuesAreServed` | `StaysSignedIn`, `QueueIsServed` | |
| `MarksFitText` | `MarksFit` | |
| `LintMarksBadNesting`, `CheckedWordsAreProse`, `IssuesLeadToTheirPlace` | `LintFitsNesting`, `WordsAreProse`, `IssuesArePlaced` | |
| `DiffsAreFaithful` | `DiffIsFaithful` | |
| `ClicksFindTheirSource` | `ClickFindsSource` | |
| `ToolTypesCorrect` | `TypesOK` of `MCBrowserTools` | |

`ReliableResults` says that row updates take place and that lost channels and
crashes are not combined. Both are needed: with one database fault the result is
lost, and with a lost channel and a crash a late thread may mark a finished job
RUNNING and then die. `OneThread` is one worker thread, whatever happens to it; with
two, `isolation_documented` shows what happens. `OneServer` is one instance and no page
that leaves before its GET was answered; `late_instance` and `snapshot_overwritten` show
why. The theorems without an assumption are about every behaviour of their module; what
a property excepts is written in it, above it, and in section 4.

`PartsKeepTheirRules` and `ToolsKeepTheirRules` connect the two instances that TLC
checks with the theorems: a behaviour of `MCEditorPage` or `MCBrowserTools` is a
behaviour of each of its parts (of `VersionBrowser` only if it plays in it, since the
files that stand still are not an initial state of it).

**The pipeline.** `Structure` relates the three actors: how far a handler is and what
its row and files are (`RequestsInStep`), that a published message has files
(`MessagesHaveFiles`), that a busy thread works on the job of its delivery
(`ThreadsHaveMessages`). None of the properties is inductive without it. `Delivery`
adds which channel holds which message (`ChannelsHold`, `UnackedHeld`): an open
channel that has not reached cleanup has its message unacknowledged, no two have the
same. `OneHolder` follows. `Storage` adds what is stored by the time a thread records
(`ResultsStored`). `NoLostJob` becomes inductive together with `Delivery` and
`ChannelsStayOpen` (without the fault `conn` a busy thread's channel is open): a thread
that sets a row back to RUNNING then holds the message itself, and one that crashes
gives it back. For `OwnBuild` the directory of a project that no thread writes to holds
nothing but what was left in it (`LeftIsKnown`), be it by a removal that failed, by a
thread that lost its channel, or by a crash; what `download_files` has written is the
job's (`DownloadInStep`); and a PDF is stored by the thread that made it, of these files
(`OutputsOwn`). For the refinement every step is shown to map to a step of one job or to
a stutter; where nothing is redelivered, a finished row is not started again, which
rests on a thread having its message for the first time (`Once`).

**The versions.** Files are captured once, so what a request read stays the job's hash,
and stays in the row until the job is executed again and fails (`relapsed`). Hence the
inductive `Agreement`: rows agree with captured files and stored PDFs, a request between
two queries carries the hash of its job, a version's job has files. The dedup can then
only skip in favour of a version with the same sources, as `HasVersion` says of every
page that was told. That no version repeats the one before needs `LastDiffers`: a request
that has compared carries other sources than the last version, unless it was overtaken by
an insertion since, or one of the two rows was cleared, or a version deleted; and the
times of the versions are in the order of their insertion (`StampsOrdered`).

**The collaboration server.** `LiveDocs` says where a document can be: a document in
`docs` is the one in `activeDocs` unless its GET is still pending, and that GET comes
behind every other GET and every write that is pending (`GetsTrail`). It rests on
replies coming in the order of the commands, and holds for any number of servers and
faults. `Tidy` adds that subscriptions are in step with `relayed` (`RelayInStep`) and,
as long as Redis answers, that GETs and writes of one server alternate and the count is
what the next of them will find (`Alternate`, `CountInStep`); when nothing is pending
and no page is connected, nothing is left. `Kepts` is about one server: the only GET
under way is that of the live document (`OneGet`), what the pending SETs carry grows
along the queue (`Growing`), the predecessor's content is in Redis or in a SET before
that GET (`PredecessorWritten`), and an accepted edit is in the live document, in a SET
under way or in Redis (`AcceptedKept`).

**The editor page.** Binding and pending fetch are one thing or none, made for the
file that is open (`OneSetup`), and a bound editor shows its text (`Shows`); switching,
late answers and a document that is replaced can only destroy it. For what is saved,
`TextSound`: nothing gets into a shared text but through a binding or from what is
stored under its path, and nothing of another file is stored under it until an unbound
editor is saved there. For URLs, `UrlsApart`: the URL of the page, of a version and of
a deletion under way are never the same. For results, `AsksCandidates` and
`ResultsComing`: every call is about the last job or one that was still asked about when
it came, and a result of the last job that is not shown yet has a call that will fetch it.

In the viewer only drawings of the document of the URL draw. The others were cancelled
while they drew, go on to the next page and find their document destroyed (`OthersEnd`);
a document is there only when none of them draws any more. So a page that shows another
document has a drawing before it that will clear it (`PagesCleared`). A drawing that
nobody disturbed is alone with its document, and what it passed is drawn at its scale
and counted (`PagesDrawn`, `MarksCounted`); marks are put by whoever builds a text layer
or changes the query, so that they are always those of the query (`PagesMarked`).

**Files.** Two calls never work on one path, so that a file is as its last request left
it or one commit away from it, and the call that will commit is known: that is the
invariant behind `FilesKept`, whichever of the calls to the bucket fails. The
list of the page is out of date only by what calls have committed whose task the page
still waits for, and an open file that is not there any more belongs to a task whose
end leads to another.

**Sessions.** As long as nothing went wrong, a token comes with a refresh token that
is in Redis, be it the cookie's or the one the rotation has just made (`Renewable`,
`RotationSound`); a refresh that is refused leaves a cookie that is good for nothing,
so that a page that is being left gets no other token (`LeavingForGood`).

**The spell checker.** Whatever makes the marks old, a change, a dictionary or a
personal word, starts the timer in the end, if need be by a message that is still to
come (`TimerComes`, `LanguageComes`). When nothing will start it any more, the last
check sent is of the text as it is, and its answer is the last to be shown
(`LastCheckFits`).

**Reading LaTeX.** *Nesting*: for each name count the `\begin`, the `\end` and what is
on the stack. As long as each `\end` finds its name, the stack holds the difference;
in a nested text no prefix has more `\end` than `\begin`, since each has its partner
before it. That a line stacks all its `\begin` first can only put more on the stack.
*Words*: the modes kept from line to line agree with those kept from token to token at
the end of each line, as a line of prose leaves its single dollars paired and a marked
line is one token. *Issues*: in a log whose lines open or close a file, the stack holds
the files that were opened and of which no closing parenthesis is left over, in their
order, so that its top is the file that counting the parentheses gives; no issue is lost
when they are put in one sequence, and of the paths that end in the one of the log the
longest is found. *Jumps*: when no timer is left, the cursor is where the last one has put
it, which is the line of the last click.

**Comparing and clicking.** *Diff*: no common subsequence of two prefixes is longer
than the table says, by induction over the table; the way back drops lines of the base
and adds lines of the other text so that the same lines are left, as many as the table
says, which is thus the most there can be; leaving out context loses no change; and a
line that is not added is found among those left at its place less the additions before
it. *Source map*: the least and the greatest height of a page exist, as those read lie
between two numbers; the record found is a nearest one; one that divides the page as the
click does is at distance 0, and no other height is; and of two clicks the lower is nearer
to whatever lies below.

`LatexText` and `VersionBrowser` compute with recursive functions and folds, about which
these theorems say something for every text, by induction. The library's induction
rules take an operator and cannot be used; the lemmas `Induct` and `TableInduct` take
the set of the numbers for which a fact holds instead, and follow from the existence of
a least number outside it.

**Only model-checked.** The liveness properties `EveryJobSettles`, `EveryCompileKept`,
`PageGetsBound`, `CompilingEnds` and `RemovalIsNoticed`: fairness and ENABLED are out of
the prover's reach. Every other property of a run that passes is a theorem.

## 6. Abstractions and what is not modelled

- `Compile` reads the sandbox in one step, and `Cleanup` removes in one step what it does
  remove, any part of it if it fails.
  The real engine reads files one by one, which only adds mixtures of the same two
  trees; `JobIsolation` is violated already without them.
- `artifact_hash` is injective but for collisions: it is compared as the tree.
- Existence and size of the log file are looked up in one step.
- One worker process. Several processes have separate directories; the queue,
  rows and objects they share behave as with several threads.
- An acknowledgement sent on a connection that the broker has already given up,
  while the client has not noticed, is counted as one on a lost connection.
- `/sandbox`, `/output` and `/logs` are volumes in the compose files and survive a
  restart; with a new pod they are empty. `Crash` allows both.
- A project is not deleted while its jobs run: `delete_project` cascades to the job
  rows, and the worker's updates then match no row.
- In `FileBinding` page and server exchange everything in one step, and a text is a
  set; positions of insertions are left out. Numbers that tell insertions of one word
  apart are bounded by `MaxInserts`, which `editor_page` reaches.
- In `SpellChecker` a text is the set of its words; in `PDFViewer` every page has
  matches for every query, and a text layer is built and marked in one step.
- In `SourceMap` heights are on a grid and the vertical scale of a page is that of its
  records, as in the code. The jump of `EditorJump` leaves out that somebody types or
  scrolls meanwhile; binding and fetch of the file it waits for are `FileBinding`.
- In `Sessions` there is one tab, one refresh handler and a refresh token that nobody
  keeps is used again, so that four suffice.
- Engine, draft mode, error texts, labels and log formatting are left out.

Not modelled, and why:

- Presence and cursors (awareness): last writer wins, nothing depends on it.
- Comments, dashboard, profile, registration and the second factor's set-up: one
  request and one transaction per gesture. E-mail verification and password reset:
  single-use tokens that are read, used and deleted in three calls, of one user.
- AI assistant, e-mail, OAuth provider: external services, no state kept.
- Presigned URL cache, database pool: a clock, and limits set by the deployment.
- Outline, completion, decorations and the search over the project: pure functions
  of the text that is shown.
- The steps of `restore_snapshot` in the backend: uploads and one commit; what the
  page sees of it is `FileBinding`'s `Restore`.
- Two requests that work on one path of the project at once: the code resolves them
  nowhere, and nothing says what the file should contain afterwards.
- Migrations, deployment, monitoring: configuration, read for what survives a restart.
