-------------------------- MODULE CompilePipeline --------------------------
(***************************************************************************)
(* A compilation from POST /compile/jobs to the finished row: the API and  *)
(* its queue (CompileQueue) composed with the worker (CompileWorker).      *)
(***************************************************************************)
EXTENDS CompileWorker

vars == <<queueVars, workerVars>>

Init == QueueInit /\ WorkerInit

Next ==
  \/ QueueNext /\ UNCHANGED workerVars
  \/ WorkerNext

Spec == Init /\ [][Next]_vars

\* A handler that was entered runs to its end and a thread never pauses for
\* good; nobody has to press Compile, and no fault has to happen.
Fairness ==
  /\ \A j \in Jobs : WF_vars(Submit(j) /\ UNCHANGED workerVars)
  /\ \A w \in Workers : WF_vars(Work(w))

FairSpec == Spec /\ Fairness

---------------------------------------------------------------------------
TypeOK ==
  /\ status \in [Jobs -> {"none"} \cup Unfinished \cup Finished]
  /\ result \in [Jobs -> Result]
  /\ request \in [Jobs -> {"none", "created", "publishing", "accepted", "refused",
                           "aborted"}]
  /\ tries \in [Jobs -> 0 .. MAX_RETRIES]
  /\ source \in [Jobs -> Trees \cup {NoTree}]
  /\ queue \in [Msgs -> {"unpublished", "ready", "unacked", "dropped"}]
  /\ payload \in [Msgs -> Jobs \cup {NoJob}]
  /\ faults \in 0 .. MaxFaults
  /\ pc \in [Workers -> {"idle", "start", "save", "download", "logs", "pdf", "synctex",
                         "record", "ack", "except", "nack", "cleanup"}]
  /\ open \in [Workers -> BOOLEAN]
  /\ tag \in [Workers -> Msgs \cup {NoMsg}]
  /\ job \in [Workers -> Jobs \cup {NoJob}]
  /\ todo \in [Workers -> SUBSET Paths]
  /\ success \in [Workers -> BOOLEAN]
  /\ logged \in [Workers -> BOOLEAN]
  /\ sandbox \in [Projects -> Trees]
  /\ output \in [Jobs -> Trees \cup {NoTree}]
  /\ logfile \subseteq Jobs
  /\ left \in [Projects -> SUBSET Paths]
  /\ sources \in [Jobs -> Trees \cup {NoTree}]
  /\ logs \subseteq Jobs
  /\ pdf \in [Jobs -> Trees \cup {NoTree}]
  /\ synctex \in [Jobs -> Trees \cup {NoTree}]

---------------------------------------------------------------------------
(* Safety.                                                                 *)

\* The calls of callback that come before its update_job_status.
BeforeResult == {"start", "save", "download", "logs", "pdf", "synctex", "record",
                 "except"}

\* Somebody will still write a result for j: its message is waiting in the
\* queue, or a thread is working on it and has not recorded the outcome.
BeingDone(j) ==
  \/ \E m \in Msgs : payload[m] = j /\ queue[m] = "ready"
  \/ \E w \in Workers : job[w] = j /\ pc[w] \in BeforeResult

\* No job is silently lost: once a job has been queued its row shows a result,
\* or somebody will still write one.  (callback: the row is updated before the
\* message is acknowledged, on every path.)
NoLostJob ==
  \A j \in Jobs : Published(j) => status[j] \in Finished \/ BeingDone(j)

\* When that holds: every update of the row takes place, and not both kinds of
\* redelivery occur.  (With both, a thread that lost its channel may mark a job
\* RUNNING that another thread has finished, and then die with the process.)
ReliableResults == "db" \notin Faults /\ ~({"conn", "crash"} \subseteq Faults)

\* What a reader of the API is offered exists: a row that names a PDF, or a log,
\* has that object in the bucket, and the hash it carries is that of the job's
\* own files, in every status and after every rerun.  (get_job_artifact,
\* get_job_logs and the snapshot dedup read these columns without a lock.)
OfferedIsStored ==
  \A j \in Jobs :
    /\ result[j].artifact => pdf[j] # NoTree /\ result[j].hash = source[j]
    /\ result[j].logs => j \in logs
    /\ status[j] = "COMPLETED" => result[j].artifact

\* Thread w has a delivery that it can still acknowledge or reject.
Holds(w) == open[w] /\ pc[w] \notin {"idle", "cleanup"}

\* A message the broker waits for is handled by exactly one thread that can
\* still acknowledge it, whatever threads handled it before on channels they
\* lost; so no message waits for ever and none is acknowledged for another.
OneHolder ==
  \A m \in Msgs :
    queue[m] = "unacked" =>
      \E w \in Workers :
        /\ tag[w] = m /\ Holds(w)
        /\ \A v \in Workers \ {w} : tag[v] = m => ~open[v]

\* The tree is that of the job, but for files the job does not have that were
\* left in the project's directory.
BuiltFrom(tree, j) ==
  \A p \in Paths :
    \/ tree[p] = source[j][p]
    \/ source[j][p] = Absent /\ p \in left[ProjectOf[j]]

\* The PDF that is stored for a job is made from the files of that job, each as
\* the job has it.  Any other file it saw was left there by the thread that used
\* the directory last: it could not be removed, its thread had lost its channel
\* and did not clean up, or its process died.  (One thread compiles a project's
\* jobs one after the other in one directory; cleanup_job empties it in between.)
OwnBuild ==
  [][\A j \in Jobs : pdf'[j] # pdf[j] => BuiltFrom(pdf'[j], j)]_vars

\* The documented per-job isolation, with any number of threads: a file of the
\* job was read as the job has it.  (docs/ARCHITECTURE.md, compile-worker.)
JobIsolation ==
  \A j \in Jobs : \A p \in Paths :
    pdf[j] # NoTree /\ source[j][p] # Absent =>
      pdf[j][p] = source[j][p]

---------------------------------------------------------------------------
(* The pipeline implements the life cycle of a row.  A finished job runs    *)
(* again only when a message can be delivered twice.                       *)

Redelivers == Faults \cap {"publish", "conn", "crash"} # {}

Lifecycle == INSTANCE JobLifecycle WITH
  Sources <- Trees,
  Rerun <- Redelivers,
  pdfs <- {j \in Jobs : pdf[j] # NoTree}

\* Every step of the API, the broker and the threads is one of the steps a row
\* may make: created, started, finished, and finished for good unless messages
\* can be delivered twice; objects are stored before a row names them.
ImplementsLifecycle == Lifecycle!LifecycleSpec

---------------------------------------------------------------------------
(* Liveness.                                                               *)

\* A queued job gets a result and from some point on keeps it, although threads
\* lose connections, results overwrite each other and finished jobs run again.
EveryJobSettles ==
  \A j \in Jobs : <>[](Published(j) => status[j] \in Finished)

=============================================================================
