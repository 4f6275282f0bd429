--------------------------- MODULE CompilePreview ---------------------------
(***************************************************************************)
(* What the editor page does about compilations: it creates a job, asks    *)
(* for its status every two seconds whether or not the previous question   *)
(* was answered, and fetches PDF, log and SyncTeX data one after the other *)
(* when an answer says that the job ended. Every callback of the interval  *)
(* is a call of its own. A PDF is shown through an object URL that has to  *)
(* be revoked by whoever replaces it.                                      *)
(***************************************************************************)
EXTENDS Integers, FiniteSets

CONSTANTS
  NJobs,        \* how often the user compiles
  MaxCalls,     \* bound on the calls of one job that are in flight
  MaxUrls       \* bound on the object URLs that are created

ASSUME PreviewAssumption == NJobs \in Nat /\ MaxCalls \in Nat /\ MaxUrls \in Nat

VARIABLES
  outcome,      \* what became of each job on the server
  compiling, jobs, polling, calls,
  creating,     \* how many requests for a job are on their way
  pdfUrl, historyUrl, urls, urlCount,
  pdfJob, logsJob, syncJob,
  doomed,       \* a version being deleted, and the URL shown at the click
  late,         \* history: jobs still asked about when the last one came
  failed,       \* history: jobs of which an answer was missed
  orphans       \* history: URLs that were dropped and not revoked

jobVars == <<outcome, compiling, creating, jobs, polling, calls>>
urlVars == <<pdfUrl, historyUrl, urls, urlCount>>
shownVars == <<pdfJob, logsJob, syncJob>>
histVars == <<late, failed, orphans>>
previewVars == <<jobVars, urlVars, shownVars, doomed, histVars>>

CompileJobs == 1..NJobs
Urls == 0..MaxUrls        \* 0: null
NoDeletion == 0

\* A callback of the interval and the fetch it waits for.
Calls == [job : CompileJobs, n : 1..MaxCalls,
          waits : {"status", "artifact", "synctex", "logs"}]

PreviewInit ==
  /\ outcome = [j \in CompileJobs |-> "none"]
  /\ compiling = FALSE /\ creating = 0 /\ jobs = 0
  /\ polling = {} /\ calls = {}
  /\ pdfUrl = 0 /\ historyUrl = 0 /\ urls = {} /\ urlCount = 0
  /\ pdfJob = 0 /\ logsJob = 0 /\ syncJob = 0
  /\ doomed = NoDeletion /\ late = {} /\ failed = {} /\ orphans = {}

-----------------------------------------------------------------------------
(* The compile mutation.                                                   *)

\* Draft, Compile and the save that compiles are off while compiling is set.
MayCompile == ~compiling /\ jobs + creating < NJobs

(* Answers about older jobs may still be on their way, and one of them may *)
(* put compiling out while the request for the next job is.                *)
StartCompile ==
  /\ MayCompile
  /\ compiling' = TRUE /\ creating' = creating + 1
  /\ logsJob' = 0
  /\ UNCHANGED <<outcome, jobs, polling, calls, urlVars, pdfJob, syncJob, doomed, histVars>>

Asked == polling \cup {c.job : c \in calls}

Created ==
  /\ creating > 0
  /\ creating' = creating - 1 /\ jobs' = jobs + 1
  /\ outcome' = [outcome EXCEPT ![jobs + 1] = "running"]
  /\ polling' = polling \cup {jobs + 1}
  /\ late' = Asked
  /\ UNCHANGED <<compiling, calls, urlVars, shownVars, doomed, failed, orphans>>

\* The log of the last job was cleared for the one there is not.
CreateFails ==
  /\ creating > 0
  /\ creating' = creating - 1 /\ compiling' = FALSE
  /\ failed' = failed \cup {jobs}
  /\ UNCHANGED <<outcome, jobs, polling, calls, urlVars, shownVars, doomed, late, orphans>>

\* The worker ends the job.
JobSettles(j) ==
  /\ outcome[j] = "running"
  /\ \E o \in {"completed", "failed"} : outcome' = [outcome EXCEPT ![j] = o]
  /\ UNCHANGED <<compiling, creating, jobs, polling, calls, urlVars, shownVars, doomed, histVars>>

-----------------------------------------------------------------------------
(* pollJobStatus.                                                          *)

\* The numbers of the calls of one job that are not in flight.
Free(j) == {n \in 1..MaxCalls : \A c \in calls : c.job = j => c.n # n}

Tick(j) ==
  /\ j \in polling
  /\ \E n \in Free(j) :
       /\ \A m \in Free(j) : n <= m
       /\ calls' = calls \cup {[job |-> j, n |-> n, waits |-> "status"]}
  /\ UNCHANGED <<outcome, compiling, creating, jobs, polling, urlVars, shownVars, doomed, histVars>>

Waiting(c, for) == c \in calls /\ c.waits = for
Continue(c, next) == calls' = (calls \ {c}) \cup {[c EXCEPT !.waits = w] : w \in next}

StillRunning(c) ==
  /\ Waiting(c, "status") /\ outcome[c.job] = "running"
  /\ Continue(c, {})
  /\ UNCHANGED <<outcome, compiling, creating, jobs, polling, urlVars, shownVars, doomed, histVars>>

\* The answer says completed: polling ends and the PDF is fetched.
SaysCompleted(c) ==
  /\ Waiting(c, "status") /\ outcome[c.job] = "completed"
  /\ polling' = polling \ {c.job}
  /\ compiling' = FALSE
  /\ Continue(c, {"artifact"})
  /\ UNCHANGED <<outcome, creating, jobs, urlVars, shownVars, doomed, histVars>>

\* setPdfUrl with an update function: the previous URL is revoked.
ReplaceUrl(new) ==
  /\ urlCount' = IF new = 0 THEN urlCount ELSE new
  /\ urls' = (urls \ {pdfUrl}) \cup ({new} \ {0})
  /\ pdfUrl' = new

\* Mutant: a failed compilation leaves the PDF of an older job.
SaysFailedKeepsPdf(c) ==
  /\ Waiting(c, "status") /\ outcome[c.job] = "failed"
  /\ polling' = polling \ {c.job}
  /\ compiling' = FALSE
  /\ Continue(c, {"logs"})
  /\ UNCHANGED <<outcome, creating, jobs, urlVars, shownVars, doomed, histVars>>
SaysFailed(c) ==
  /\ Waiting(c, "status") /\ outcome[c.job] = "failed"
  /\ polling' = polling \ {c.job}
  /\ compiling' = FALSE
  /\ ReplaceUrl(0) /\ pdfJob' = 0
  /\ Continue(c, {"logs"})
  /\ UNCHANGED <<outcome, creating, jobs, historyUrl, logsJob, syncJob, doomed, histVars>>

\* Mutant: the exception handler leaves the spinner on.
StatusFailsSpinning(c) ==
  /\ Waiting(c, "status")
  /\ polling' = polling \ {c.job}
  /\ Continue(c, {})
  /\ failed' = failed \cup (polling \cap {c.job})
  /\ UNCHANGED <<outcome, compiling, creating, jobs, urlVars, shownVars, doomed, late, orphans>>
\* A status request that fails ends the polling for good.
StatusFails(c) ==
  /\ Waiting(c, "status")
  /\ polling' = polling \ {c.job}
  /\ compiling' = FALSE
  /\ Continue(c, {})
  /\ failed' = failed \cup (polling \cap {c.job})
  /\ UNCHANGED <<outcome, creating, jobs, urlVars, shownVars, doomed, late, orphans>>

\* The PDF, then log and SyncTeX data, whose fetches overlap.
ArtifactArrives(c) ==
  /\ Waiting(c, "artifact") /\ urlCount < MaxUrls
  /\ ReplaceUrl(urlCount + 1) /\ pdfJob' = c.job
  /\ Continue(c, {"logs", "synctex"})
  /\ UNCHANGED <<outcome, compiling, creating, jobs, polling, historyUrl,
                 logsJob, syncJob, doomed, histVars>>

ArtifactFails(c) ==
  /\ Waiting(c, "artifact")
  /\ Continue(c, {"logs", "synctex"})
  /\ failed' = failed \cup {c.job}
  /\ UNCHANGED <<outcome, compiling, creating, jobs, polling, urlVars, shownVars, doomed,
                 late, orphans>>

LogsArrive(c) ==
  /\ Waiting(c, "logs")
  /\ logsJob' = c.job
  /\ Continue(c, {})
  /\ UNCHANGED <<outcome, compiling, creating, jobs, polling, urlVars, pdfJob, syncJob,
                 doomed, histVars>>

\* The SyncTeX data arrives and parses, or there is none.
SyncTeXArrives(c) ==
  /\ Waiting(c, "synctex")
  /\ syncJob' \in {c.job, 0}
  /\ Continue(c, {})
  /\ UNCHANGED <<outcome, compiling, creating, jobs, polling, urlVars, pdfJob, logsJob,
                 doomed, histVars>>

-----------------------------------------------------------------------------
(* The PDF of a version.                                                   *)

ViewVersion ==
  /\ urlCount < MaxUrls
  /\ urlCount' = urlCount + 1
  /\ urls' = (urls \ {historyUrl}) \cup {urlCount'}
  /\ historyUrl' = urlCount'
  /\ UNCHANGED <<jobVars, pdfUrl, pdfJob, logsJob, syncJob, doomed, histVars>>

BackToCurrent ==
  /\ historyUrl # 0
  /\ urls' = urls \ {historyUrl} /\ historyUrl' = 0
  /\ UNCHANGED <<jobVars, pdfUrl, urlCount, pdfJob, logsJob, syncJob, doomed, histVars>>

(* The handler keeps the URL it saw when the deletion was confirmed; with   *)
(* none it changes nothing that is shown.                                  *)
AskDeletion ==
  /\ doomed = NoDeletion /\ historyUrl # 0
  /\ doomed' = historyUrl
  /\ UNCHANGED <<jobVars, urlVars, shownVars, histVars>>

\* Mutant: the URL is revoked and still shown.
DeletionDoneShown ==
  /\ doomed # NoDeletion /\ doomed' = NoDeletion
  /\ urls' = urls \ {doomed}
  /\ UNCHANGED <<historyUrl, jobVars, pdfUrl, urlCount, shownVars, histVars>>
\* A version that was opened since is dropped from the tab, and not revoked.
DeletionDone ==
  /\ doomed # NoDeletion /\ doomed' = NoDeletion
  /\ urls' = urls \ {doomed}
  /\ historyUrl' = 0
  /\ orphans' = orphans \cup ({historyUrl} \ {0, doomed})
  /\ UNCHANGED <<jobVars, pdfUrl, urlCount, shownVars, late, failed>>

DeletionFails ==
  /\ doomed # NoDeletion /\ doomed' = NoDeletion
  /\ UNCHANGED <<jobVars, urlVars, shownVars, histVars>>

Answer(c) ==
  \/ StillRunning(c) \/ SaysCompleted(c) \/ SaysFailed(c) \/ StatusFails(c)
  \/ ArtifactArrives(c) \/ ArtifactFails(c) \/ LogsArrive(c) \/ SyncTeXArrives(c)

PreviewNext ==
  \/ StartCompile \/ Created \/ CreateFails
  \/ \E j \in CompileJobs : JobSettles(j) \/ Tick(j)
  \/ \E c \in calls : Answer(c)
  \/ ViewVersion \/ BackToCurrent \/ AskDeletion \/ DeletionDone \/ DeletionFails

(* Timers fire, the worker ends jobs, and as long as requests about a job   *)
(* wait, some of them are answered or fail.                                *)
PreviewFairness ==
  /\ WF_previewVars(Created \/ CreateFails)
  /\ \A j \in CompileJobs :
       /\ WF_previewVars(JobSettles(j)) /\ WF_previewVars(Tick(j))
       /\ WF_previewVars(\E c \in calls : c.job = j /\ Answer(c))

PreviewSpec == PreviewInit /\ [][PreviewNext]_previewVars /\ PreviewFairness

-----------------------------------------------------------------------------
PreviewTypeOK ==
  /\ outcome \in [CompileJobs -> {"none", "running", "completed", "failed"}]
  /\ compiling \in BOOLEAN /\ creating \in 0..NJobs
  /\ jobs \in 0..NJobs /\ polling \subseteq CompileJobs /\ calls \subseteq Calls
  /\ {pdfUrl, historyUrl, urlCount, doomed} \cup urls \cup orphans \subseteq Urls
  /\ {pdfJob, logsJob, syncJob} \cup late \cup failed \subseteq 0..NJobs

\* What the PDF tab hands to the viewer.
ShownUrl == IF historyUrl # 0 THEN historyUrl ELSE pdfUrl

(* The URLs that are alive are those of the page's PDF and of the version  *)
(* that is shown: neither is revoked while the PDF tab may show it, and    *)
(* one that is replaced keeps no URL. Only a version that is opened while  *)
(* another is being deleted may leave its URL behind. The code:            *)
(* revokeObjectURL in the two setters, in "Back to current" and in the     *)
(* handler that deletes a version and uses the URL it saw before it waited. *)
ShownUrlIsLive ==
  /\ ShownUrl # 0 => ShownUrl \in urls
  /\ urls = ({pdfUrl, historyUrl} \ {0}) \cup orphans

\* The job whose PDF is shown once the results of a job have arrived.
PdfAfter(j) == IF outcome[j] = "completed" THEN j ELSE 0

(* When nothing is on its way, PDF, log and SyncTeX data are each those of  *)
(* the last job, or of one that was still asked about when the last one    *)
(* came; no answer about an older job is shown any more. The last job is   *)
(* excepted if an answer about it was missed, or the next job could not be *)
(* created. The code: the callbacks of pollJobStatus, which do not wait    *)
(* for each other and fetch one after the other.                           *)
ShowsLastJob ==
  LET candidates == {jobs} \cup late
  IN  (jobs > 0 /\ jobs \notin failed /\ creating = 0 /\ polling = {} /\ calls = {}) =>
        /\ pdfJob \in {PdfAfter(j) : j \in candidates}
        /\ logsJob \in candidates
        /\ outcome[jobs] = "completed" => syncJob \in candidates \cup {0}
        /\ (pdfUrl = 0) = (pdfJob = 0)

(* The spinner goes out: the job ends, and the answer that says so, or one *)
(* that fails, clears compiling.                                           *)
CompilingEnds == compiling ~> ~compiling
=============================================================================
