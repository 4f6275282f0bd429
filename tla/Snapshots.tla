----------------------------- MODULE Snapshots -----------------------------
(***************************************************************************)
(* The versions of one project.  A browser page that started a compilation *)
(* polls GET /compile/jobs/{id}/status (frontend/src/pages/EditorPage.tsx),*)
(* and the handler of that request (backend/app/api/v1/compile.py) creates *)
(* a snapshot of a completed job.  What happens to the job meanwhile is    *)
(* whatever its life cycle allows.                                         *)
(***************************************************************************)
EXTENDS JobLifecycle, Naturals

CONSTANTS
  NoJob,
  Handlers,     \* threads of the API, each runs one status request at a time
  MaxDeletes,   \* bound on the snapshots that are deleted
  MaxReruns,    \* bound on the steps of finished jobs that are executed again
  MaxSent,      \* bound on the requests of a page that no handler has read yet
  Leaving,      \* jobs whose page may be closed, or a request of it fail
  CommitsFail   \* BOOLEAN: a commit may fail, whatever is committed

ASSUME NoJobType == NoJob \notin Jobs
ASSUME NoTreeType == NoTree \notin Sources
ASSUME SwitchesType == {Rerun, CommitsFail} \subseteq BOOLEAN
ASSUME LeavingType == Leaving \subseteq Jobs
ASSUME MaxDeletesType == MaxDeletes \in Nat
ASSUME MaxRerunsType == MaxReruns \in Nat
ASSUME MaxSentType == MaxSent \in Nat

VARIABLES
  snapAt,   \* created_at of the job's row in snapshots, 0 where there is none
  clock,    \* the last created_at
  deletes,  \* snapshots deleted so far, at most MaxDeletes
  page,     \* the page that waits for the job, and what it was told
  sent,     \* status requests of the page that no handler has read yet
  at,       \* at[h]: the query of get_job_status that handler h executes next
  polled,   \* polled[h]: the job it was asked for
  hash,     \* hash[h]: artifact_hash of the row it has read
  reruns,   \* steps of finished jobs so far, at most MaxReruns
  \* History variables; no action reads them.
  relapsed,  \* jobs that ended FAILED when they were executed again
  gone,      \* jobs whose version was deleted, or whose commit failed
  overtaken  \* jobs that another version came before, after they were compared

snapshotVars == <<snapAt, clock, deletes>>
handlerVars == <<at, polled, hash>>
pageVars == <<page, sent>>
historyVars == <<relapsed, gone, overtaken>>
vars == <<lifecycleVars, reruns, snapshotVars, pageVars, handlerVars, historyVars>>

Init ==
  /\ LifecycleInit
  /\ snapAt = [j \in Jobs |-> 0]
  /\ clock = 0
  /\ deletes = 0
  /\ page = [j \in Jobs |-> "none"]
  /\ at = [h \in Handlers |-> "idle"]
  /\ polled = [h \in Handlers |-> NoJob]
  /\ hash = [h \in Handlers |-> NoTree]
  /\ sent = [j \in Jobs |-> 0]
  /\ reruns = 0
  /\ relapsed = {} /\ gone = {} /\ overtaken = {}

Snapped == {j \in Jobs : snapAt[j] # 0}

IsLast(k) == k \in Snapped /\ \A j \in Snapped : snapAt[j] <= snapAt[k]

---------------------------------------------------------------------------
(* The page: compile.onSuccess and pollJobStatus.                          *)

OpenPage(j) ==
  /\ source[j] # NoTree /\ page[j] = "none"
  /\ page' = [page EXCEPT ![j] = "polling"]
  /\ UNCHANGED <<lifecycleVars, reruns, snapshotVars, sent, handlerVars, historyVars>>

\* The interval of 2 s does not wait for answers: requests pile up, and those
\* that are on their way are read whatever the page is told meanwhile.
SendPoll(j) ==
  /\ page[j] = "polling"
  /\ sent[j] < MaxSent
  /\ sent' = [sent EXCEPT ![j] = @ + 1]
  /\ UNCHANGED <<lifecycleVars, reruns, snapshotVars, page, handlerVars, historyVars>>

\* The page is closed, or one request fails: the interval is cleared.
StopPolling(j) ==
  /\ j \in Leaving
  /\ page[j] = "polling"
  /\ page' = [page EXCEPT ![j] = "left"]
  /\ UNCHANGED <<lifecycleVars, reruns, snapshotVars, sent, handlerVars, historyVars>>

\* Mutant: the page keeps the name of the status instead of comparing its value.
ToldName(j, answer) ==
  page' = [page EXCEPT ![j] =
             IF @ # "polling" \/ answer \in Unfinished THEN @ ELSE answer]

\* The answer to a request; a page that has gone ignores it.
Told(j, answer) ==
  page' = [page EXCEPT ![j] =
             IF @ # "polling" \/ answer \in Unfinished THEN @
             ELSE IF answer = "COMPLETED" THEN "completed"
             ELSE "failed"]

---------------------------------------------------------------------------
(* get_job_status, one action per query: the job is read once, and what    *)
(* was read decides until the session commits.                             *)

ReturnFrom(h) ==
  /\ at' = [at EXCEPT ![h] = "idle"]
  /\ polled' = [polled EXCEPT ![h] = NoJob]
  /\ hash' = [hash EXCEPT ![h] = NoTree]

Receive(h, j) ==
  /\ at[h] = "idle"
  /\ sent[j] > 0
  /\ sent' = [sent EXCEPT ![j] = @ - 1]

\* Mutant: a snapshot for every finished job, whether it has an artifact or not.
ReadJobFinished(h, j) ==
  /\ status[j] \in Finished
  /\ Receive(h, j)
  /\ at' = [at EXCEPT ![h] = "exists"]
  /\ polled' = [polled EXCEPT ![h] = j]
  /\ hash' = [hash EXCEPT ![h] = result[j].hash]
  /\ UNCHANGED <<lifecycleVars, reruns, snapshotVars, page, historyVars>>

ReadJob(h, j) ==
  /\ Receive(h, j)
  /\ \/ /\ status[j] = "COMPLETED" /\ result[j].artifact
        /\ at' = [at EXCEPT ![h] = "exists"]
        /\ polled' = [polled EXCEPT ![h] = j]
        /\ hash' = [hash EXCEPT ![h] = result[j].hash]
        /\ UNCHANGED page
     \/ /\ ~(status[j] = "COMPLETED" /\ result[j].artifact)
        /\ Told(j, status[j])
        /\ UNCHANGED handlerVars
  /\ UNCHANGED <<lifecycleVars, reruns, snapshotVars, historyVars>>

CheckExists(h) ==
  /\ at[h] = "exists"
  /\ \/ /\ polled[h] \in Snapped
        /\ Told(polled[h], "COMPLETED")
        /\ ReturnFrom(h)
     \/ /\ polled[h] \notin Snapped
        /\ at' = [at EXCEPT ![h] = "compare"]
        /\ UNCHANGED <<page, polled, hash>>
  /\ UNCHANGED <<lifecycleVars, reruns, snapshotVars, sent, historyVars>>

\* Mutants: the most recent job instead of the most recent snapshot; ids
\* instead of hashes.
SameAsJob(h) == \E k \in Jobs : result[k].hash = hash[h]

SameIdAsLast(h) == \E k \in Snapped : IsLast(k) /\ k = polled[h]

\* Hash-based dedup against the most recent snapshot of the project.
SameAsLast(h) == \E k \in Snapped : IsLast(k) /\ result[k].hash = hash[h]

CompareHash(h) ==
  /\ at[h] = "compare"
  /\ \/ /\ hash[h] # NoTree /\ SameAsLast(h)
        /\ Told(polled[h], "COMPLETED")
        /\ ReturnFrom(h)
     \/ /\ ~(hash[h] # NoTree /\ SameAsLast(h))
        /\ at' = [at EXCEPT ![h] = "insert"]
        /\ UNCHANGED <<page, polled, hash>>
  /\ UNCHANGED <<lifecycleVars, reruns, snapshotVars, sent, historyVars>>

\* Other requests that have compared and not yet inserted.
Compared(h) == {polled[g] : g \in {g \in Handlers : at[g] = "insert"}} \ {polled[h]}

\* uq_snapshot_compile_job rejects a second snapshot of the job.  The handler
\* rolls back whatever error a commit raises, and then reads the row again.
InsertSnapshot(h) ==
  /\ at[h] = "insert"
  /\ \/ /\ polled[h] \notin Snapped
        /\ clock' = clock + 1
        /\ snapAt' = [snapAt EXCEPT ![polled[h]] = clock']
        /\ overtaken' = overtaken \cup Compared(h)
        /\ UNCHANGED gone
     \/ /\ polled[h] \in Snapped
        /\ UNCHANGED <<snapAt, clock, gone, overtaken>>
     \/ /\ polled[h] \notin Snapped /\ CommitsFail
        /\ gone' = gone \cup {polled[h]}
        /\ UNCHANGED <<snapAt, clock, overtaken>>
  /\ Told(polled[h], status[polled[h]])
  /\ ReturnFrom(h)
  /\ UNCHANGED <<lifecycleVars, reruns, deletes, sent, relapsed>>

\* delete_snapshot removes the row and leaves the job and its objects alone.
DeleteSnapshot(j) ==
  /\ j \in Snapped
  /\ deletes < MaxDeletes
  /\ deletes' = deletes + 1
  /\ snapAt' = [snapAt EXCEPT ![j] = 0]
  /\ gone' = gone \cup {j}
  /\ UNCHANGED <<lifecycleVars, reruns, clock, pageVars, handlerVars, relapsed, overtaken>>

---------------------------------------------------------------------------
Poll(j) == \E h \in Handlers : ReadJob(h, j)

Answer(h) == CheckExists(h) \/ CompareHash(h) \/ InsertSnapshot(h)

\* A failed execution clears what an earlier one wrote to the row.
Relapsed == {j \in Jobs : result[j].artifact /\ ~result'[j].artifact}

\* What the workers do to the job.  Logs are left out: no version refers to one.
JobStep ==
  /\ \E j \in Jobs :
       /\ Create(j) \/ Capture(j) \/ Start(j) \/ StorePdf(j) \/ Complete(j) \/ Fail(j)
       /\ IF status[j] \in Finished
          THEN reruns < MaxReruns /\ reruns' = reruns + 1
          ELSE UNCHANGED reruns
  /\ relapsed' = relapsed \cup Relapsed
  /\ UNCHANGED <<snapshotVars, pageVars, handlerVars, gone, overtaken>>

Next ==
  \/ JobStep
  \/ \E j \in Jobs :
       OpenPage(j) \/ SendPoll(j) \/ StopPolling(j) \/ Poll(j) \/ DeleteSnapshot(j)
  \/ \E h \in Handlers : Answer(h)

Spec == Init /\ [][Next]_vars

\* createJob's answer starts the interval, the interval keeps firing, and a
\* request is received and answered.
Fairness ==
  /\ \A j \in Jobs : WF_vars(OpenPage(j)) /\ WF_vars(SendPoll(j)) /\ SF_vars(Poll(j))
  /\ \A h \in Handlers : WF_vars(Answer(h))

FairSpec == Spec /\ Fairness

---------------------------------------------------------------------------
TypeOK ==
  /\ status \in [Jobs -> {"none"} \cup Unfinished \cup Finished]
  /\ result \in [Jobs -> Result]
  /\ source \in [Jobs -> Sources \cup {NoTree}]
  /\ logs \subseteq Jobs /\ pdfs \subseteq Jobs
  /\ snapAt \in [Jobs -> Nat]
  /\ clock \in Nat
  /\ deletes \in 0 .. MaxDeletes
  /\ page \in [Jobs -> {"none", "polling", "left", "completed", "failed"}]
  /\ at \in [Handlers -> {"idle", "exists", "compare", "insert"}]
  /\ polled \in [Handlers -> Jobs \cup {NoJob}]
  /\ hash \in [Handlers -> Sources \cup {NoTree}]
  /\ sent \in [Jobs -> 0 .. MaxSent]
  /\ reruns \in 0 .. MaxReruns
  /\ relapsed \subseteq Jobs /\ gone \subseteq Jobs /\ overtaken \subseteq Jobs

\* Every version offers the PDF it was created for: the row of its job names
\* an artifact that is stored, although the row was read three queries before
\* the snapshot was written and the job may have been started again since.
\* (get_snapshot_artifact follows these references.)  The exception is a job
\* that was executed again and failed: that clears the row, and nobody tells
\* its version.
VersionOffersPdf ==
  \A j \in Snapped \ relapsed : result[j].artifact /\ j \in pdfs

\* The page that was told its job is completed finds these sources among the
\* versions, as a snapshot of the job or of one with the same sources: neither
\* the dedup, nor a request that loses a race, nor a second execution of a job
\* drops a version.  What is missing was deleted, or its commit failed, an
\* error the handler swallows.
VersionKept ==
  \A j \in Jobs :
    page[j] = "completed" => \E k \in Snapped \cup gone : source[k] = source[j]

\* No version repeats the one before it ("skip if the PDF is identical to the
\* last snapshot's", decided on sources), unless a version between them was
\* deleted, the row of the earlier one was cleared, or the earlier one was
\* inserted after the later one had been compared: the race that is left open.
VersionsDiffer ==
  \A j, k \in Snapped :
    /\ snapAt[j] < snapAt[k]
    /\ \A l \in Snapped : ~(snapAt[j] < snapAt[l] /\ snapAt[l] < snapAt[k])
    /\ deletes = 0 /\ j \notin relapsed /\ k \notin overtaken
    => source[j] # source[k]

\* Every compilation that stays successful ends up among the versions, unless
\* its page is closed too early or was told of a failed execution before it
\* succeeded, the version is deleted or its commit fails.
EveryCompileKept ==
  \A j \in Jobs :
    <>[](status[j] = "COMPLETED") =>
      <>(page[j] \in {"left", "failed"} \/ \E k \in Snapped \cup gone : source[k] = source[j])

=============================================================================
