--------------------------- MODULE CompileWorker ---------------------------
(***************************************************************************)
(* The compile worker (worker/compile-worker.py): one process with a pool  *)
(* of consumer threads, each with its own RabbitMQ connection and          *)
(* prefetch_count=1, that run the same callback on one message at a time.  *)
(*                                                                         *)
(* The threads share the sandbox, one directory per PROJECT, and the       *)
(* output and log directories, one entry per job.  They also share the     *)
(* bucketVars, where each job has up to four objects under artifacts/{job_id}. *)
(* A PDF and its SyncTeX data are identified by the tree they are made of. *)
(***************************************************************************)
EXTENDS CompileQueue

CONSTANTS
  Workers,  \* consumer threads
  TexPaths  \* the top-level paths that match *.tex

ASSUME TexPathsType == TexPaths \subseteq Paths

VARIABLES
  pc,       \* pc[w]: the call of callback that thread w executes next
  open,     \* open[w]: its connection and channel are open
  tag,      \* tag[w]: the delivery it handles
  job,      \* job[w]: the job of that delivery
  todo,     \* todo[w]: paths download_files has still to write
  success,  \* success[w]: run_compile returned success
  logged,   \* logged[w]: logs_ref is set
  sandbox,  \* sandbox[p]: the files in SANDBOX_DIR/{project_id}
  output,   \* output[j]: the tree the PDF in OUTPUT_DIR/{job_id} is made from
  logfile,  \* jobs with a file LOG_DIR/{job_id}.log
  left,     \* left[p]: history, the paths whose files were still in the sandbox
            \* when a thread was last done with it; no action reads it
  sources,  \* the objects artifacts/{job_id}/source.json
  logs,     \* jobs with an object artifacts/{job_id}/compile.log
  pdf,      \* the objects artifacts/{job_id}/output.pdf
  synctex   \* the objects artifacts/{job_id}/output.synctex.gz

threadVars == <<pc, open, tag, job, todo, success, logged>>
diskVars == <<sandbox, output, logfile, left>>
bucketVars == <<sources, logs, pdf, synctex>>
workerVars == <<threadVars, diskVars, bucketVars>>

WorkerInit ==
  /\ pc = [w \in Workers |-> "idle"]
  /\ open = [w \in Workers |-> TRUE]
  /\ tag = [w \in Workers |-> NoMsg]
  /\ job = [w \in Workers |-> NoJob]
  /\ todo = [w \in Workers |-> {}]
  /\ success = [w \in Workers |-> FALSE]
  /\ logged = [w \in Workers |-> FALSE]
  /\ sandbox = [p \in Projects |-> EmptyDir]
  /\ output = [j \in Jobs |-> NoTree]
  /\ logfile = {}
  /\ left = [p \in Projects |-> {}]
  /\ sources = [j \in Jobs |-> NoTree]
  /\ logs = {}
  /\ pdf = [j \in Jobs |-> NoTree]
  /\ synctex = [j \in Jobs |-> NoTree]

Goto(w, label) == pc' = [pc EXCEPT ![w] = label]

Present(dir) == {p \in Paths : dir[p] # Absent}

\* The locals of callback are gone when it returns or raises.
Return(w, dir) ==
  /\ Goto(w, "idle")
  /\ tag' = [tag EXCEPT ![w] = NoMsg]
  /\ job' = [job EXCEPT ![w] = NoJob]
  /\ success' = [success EXCEPT ![w] = FALSE]
  /\ logged' = [logged EXCEPT ![w] = FALSE]
  /\ left' = [left EXCEPT ![ProjectOf[job[w]]] = Present(dir)]

\* The columns of a rowVars, and what belongs to the producer alone.
rowVars == <<status, result>>
requestVars == <<request, tries, source, payload>>

---------------------------------------------------------------------------
(* callback, one action per external call.                                 *)

Deliver(w) ==
  /\ pc[w] = "idle" /\ open[w]
  /\ \E m \in Msgs :
       /\ IsNext(m)
       /\ queue' = [queue EXCEPT ![m] = "unacked"]
       /\ tag' = [tag EXCEPT ![w] = m]
       /\ job' = [job EXCEPT ![w] = payload[m]]
  /\ Goto(w, "start")
  /\ UNCHANGED <<open, todo, success, logged, diskVars, bucketVars, rowVars, faults, requestVars>>

\* Mutant: the value of the enum is written, not the name the column holds.
SetRunningValue(w) ==
  /\ pc[w] = "start"
  /\ status' = [status EXCEPT ![job[w]] = "running"]
  /\ Goto(w, "save")
  /\ UNCHANGED <<open, tag, job, todo, success, logged, diskVars, bucketVars, result,
                 queue, faults, requestVars>>

\* set_job_running: whatever the row says; an error is printed, not raised.
SetRunning(w) ==
  /\ pc[w] = "start"
  /\ \E done \in BOOLEAN :
       /\ Attempt("db", done)
       /\ status' = IF done THEN [status EXCEPT ![job[w]] = "RUNNING"] ELSE status
  /\ Goto(w, "save")
  /\ UNCHANGED <<open, tag, job, todo, success, logged, diskVars, bucketVars, result,
                 queue, requestVars>>

SaveSource(w) ==
  /\ pc[w] = "save"
  /\ \E done \in BOOLEAN :
       /\ Attempt("store", done)
       /\ sources' = IF done THEN [sources EXCEPT ![job[w]] = source[job[w]]]
                             ELSE sources
  /\ todo' = [todo EXCEPT ![w] = Present(source[job[w]])]
  /\ Goto(w, "download")
  /\ UNCHANGED <<open, tag, job, success, logged, diskVars, logs, pdf, synctex,
                 rowVars, queue, requestVars>>

\* download_files writes the job's files over whatever the directory holds.
WriteFile(w) ==
  /\ pc[w] = "download"
  /\ \E p \in todo[w] :
       /\ sandbox' = [sandbox EXCEPT ![ProjectOf[job[w]]][p] = source[job[w]][p]]
       /\ todo' = [todo EXCEPT ![w] = @ \ {p}]
  /\ UNCHANGED <<pc, open, tag, job, success, logged, output, logfile, left, bucketVars,
                 rowVars, queue, faults, requestVars>>

\* run_compile: the engine sees the project's directory, not the job's files.
Compile(w) ==
  LET dir == sandbox[ProjectOf[job[w]]] IN
  /\ pc[w] = "download" /\ todo[w] = {}
  /\ \/ /\ \A p \in TexPaths : dir[p] = Absent       \* "No .tex file found"
        /\ success' = [success EXCEPT ![w] = FALSE]
        /\ UNCHANGED <<output, logfile>>
     \/ /\ \E p \in TexPaths : dir[p] # Absent
        /\ \/ /\ success' = [success EXCEPT ![w] = TRUE]
              /\ output' = [output EXCEPT ![job[w]] = dir]
              /\ logfile' = logfile \cup {job[w]}
           \/ /\ success' = [success EXCEPT ![w] = FALSE]  \* error or timeout
              /\ logfile' \in {logfile, logfile \cup {job[w]}}
              /\ UNCHANGED output
  /\ Goto(w, "logs")
  /\ UNCHANGED <<open, tag, job, todo, logged, sandbox, left, bucketVars, rowVars, queue,
                 faults, requestVars>>

UploadLogs(w) ==
  /\ pc[w] = "logs"
  /\ \E done \in BOOLEAN :
       /\ IF job[w] \in logfile THEN Attempt("store", done) ELSE ~done /\ UNCHANGED faults
       /\ logged' = [logged EXCEPT ![w] = done]
       /\ logs' = IF done THEN logs \cup {job[w]} ELSE logs
  /\ Goto(w, IF success[w] THEN "pdf" ELSE "record")
  /\ UNCHANGED <<open, tag, job, todo, success, diskVars, sources, pdf, synctex,
                 rowVars, queue, requestVars>>

\* Mutant: an upload that fails is only printed, as it is for the logs.
UploadPdfIgnored(w) ==
  /\ pc[w] = "pdf"
  /\ \E done \in BOOLEAN :
       /\ Attempt("store", done)
       /\ pdf' = IF done THEN [pdf EXCEPT ![job[w]] = output[job[w]]] ELSE pdf
  /\ Goto(w, "synctex")
  /\ UNCHANGED <<open, tag, job, todo, success, logged, diskVars, sources, logs, synctex,
                 rowVars, queue, requestVars>>

\* A PDF that cannot be read or stored makes the job a failed one.
UploadPdf(w) ==
  /\ pc[w] = "pdf"
  /\ \E done \in BOOLEAN :
       /\ IF output[job[w]] # NoTree THEN Attempt("store", done) ELSE ~done /\ UNCHANGED faults
       /\ success' = [success EXCEPT ![w] = done]
       /\ pdf' = IF done THEN [pdf EXCEPT ![job[w]] = output[job[w]]] ELSE pdf
       /\ Goto(w, IF done THEN "synctex" ELSE "record")
  /\ UNCHANGED <<open, tag, job, todo, logged, diskVars, sources, logs, synctex,
                 rowVars, queue, requestVars>>

UploadSynctex(w) ==
  /\ pc[w] = "synctex"
  /\ \E done \in BOOLEAN :
       /\ IF output[job[w]] # NoTree THEN Attempt("store", done) ELSE ~done /\ UNCHANGED faults
       /\ synctex' = IF done THEN [synctex EXCEPT ![job[w]] = output[job[w]]]
                             ELSE synctex
  /\ Goto(w, "record")
  /\ UNCHANGED <<open, tag, job, todo, success, logged, diskVars, sources, logs, pdf,
                 rowVars, queue, requestVars>>

\* update_job_status writes every result column; an error is only printed.
UpdateJobStatus(j, ok, haslogs) ==
  \E done \in BOOLEAN :
    /\ Attempt("db", done)
    /\ IF done
       THEN /\ status' = [status EXCEPT ![j] = IF ok THEN "COMPLETED" ELSE "FAILED"]
            /\ result' = [result EXCEPT ![j] =
                            [artifact |-> ok, logs |-> haslogs,
                             hash |-> IF ok THEN source[j] ELSE NoTree]]
       ELSE UNCHANGED rowVars

Record(w) ==
  /\ pc[w] = "record"
  /\ UpdateJobStatus(job[w], success[w], logged[w])
  /\ Goto(w, "ack")
  /\ UNCHANGED <<open, tag, job, todo, success, logged, diskVars, bucketVars, queue,
                 requestVars>>

\* basic_ack raises when the connection was lost in the meantime.
Ack(w) ==
  /\ pc[w] = "ack"
  /\ \/ /\ open[w]
        /\ queue' = [queue EXCEPT ![tag[w]] = "dropped"]
        /\ Goto(w, "cleanup")
     \/ /\ ~open[w]
        /\ Goto(w, "except")
        /\ UNCHANGED queue
  /\ UNCHANGED <<open, tag, job, todo, success, logged, diskVars, bucketVars, rowVars, faults,
                 requestVars>>

\* A file that cannot be written, or an output directory that cannot be made.
Raise(w) ==
  /\ pc[w] = "download"
  /\ Fault("io")
  /\ todo' = [todo EXCEPT ![w] = {}]
  /\ Goto(w, "except")
  /\ UNCHANGED <<open, tag, job, success, logged, diskVars, bucketVars, rowVars, queue,
                 requestVars>>

\* Mutant: the message is rejected and the row is left as it is.
RecordErrorNowhere(w) ==
  /\ pc[w] = "except"
  /\ Goto(w, "nack")
  /\ UNCHANGED <<open, tag, job, todo, success, logged, diskVars, bucketVars, rowVars,
                 queue, faults, requestVars>>

\* Mutant: only the status is written, the other columns stay.
RecordErrorStatusOnly(w) ==
  /\ pc[w] = "except"
  /\ status' = [status EXCEPT ![job[w]] = "FAILED"]
  /\ Goto(w, "nack")
  /\ UNCHANGED <<open, tag, job, todo, success, logged, diskVars, bucketVars, result,
                 queue, faults, requestVars>>

\* The handler of every other exception overwrites what the job has recorded.
RecordError(w) ==
  /\ pc[w] = "except"
  /\ UpdateJobStatus(job[w], FALSE, FALSE)
  /\ Goto(w, "nack")
  /\ UNCHANGED <<open, tag, job, todo, success, logged, diskVars, bucketVars, queue,
                 requestVars>>

\* basic_nack(requeue=False) drops the message.  On a lost connection it raises
\* out of the callback: nothing is cleaned up.
Nack(w) ==
  /\ pc[w] = "nack"
  /\ \/ /\ open[w]
        /\ queue' = [queue EXCEPT ![tag[w]] = "dropped"]
        /\ Goto(w, "cleanup")
        /\ UNCHANGED <<tag, job, success, logged, left>>
     \/ /\ ~open[w]
        /\ Return(w, sandbox[ProjectOf[job[w]]])
        /\ UNCHANGED queue
  /\ UNCHANGED <<open, todo, sandbox, output, logfile, bucketVars, rowVars, faults,
                 requestVars>>

\* Mutant: only what belongs to the job is removed.
CleanupJobOnly(w) ==
  /\ pc[w] = "cleanup"
  /\ output' = [output EXCEPT ![job[w]] = NoTree]
  /\ logfile' = logfile \ {job[w]}
  /\ Goto(w, "idle")
  /\ tag' = [tag EXCEPT ![w] = NoMsg]
  /\ job' = [job EXCEPT ![w] = NoJob]
  /\ success' = [success EXCEPT ![w] = FALSE]
  /\ logged' = [logged EXCEPT ![w] = FALSE]
  /\ UNCHANGED <<open, todo, sandbox, left, bucketVars, rowVars, queue, faults, requestVars>>

Emptied(dir, kept) == [p \in Paths |-> IF p \in kept THEN dir[p] ELSE Absent]

\* cleanup_job removes the project's sandbox, and the job's output and log; what
\* cannot be removed stays, and nobody is told (rmtree with ignore_errors).
Cleanup(w) ==
  LET p == ProjectOf[job[w]] IN
  /\ pc[w] = "cleanup"
  /\ \E done \in BOOLEAN, kept \in SUBSET Present(sandbox[p]) :
       /\ Attempt("rm", done)
       /\ output' \in {output, [output EXCEPT ![job[w]] = NoTree]}
       /\ logfile' \in {logfile, logfile \ {job[w]}}
       /\ done => kept = {} /\ output'[job[w]] = NoTree /\ job[w] \notin logfile'
       /\ sandbox' = [sandbox EXCEPT ![p] = Emptied(@, kept)]
       /\ Return(w, Emptied(sandbox[p], kept))
  /\ UNCHANGED <<open, todo, bucketVars, rowVars, queue, requestVars>>

---------------------------------------------------------------------------
(* The connections and the process.                                        *)

\* The broker gives back what the lost channel had not acknowledged.
Requeued(lost) ==
  [m \in Msgs |-> IF queue[m] = "unacked" /\ \E w \in lost : open[w] /\ tag[w] = m
                  THEN "ready"
                  ELSE queue[m]]

\* The thread does not notice until it next uses the connection.
LoseConnection(w) ==
  /\ open[w]
  /\ Fault("conn")
  /\ open' = [open EXCEPT ![w] = FALSE]
  /\ queue' = Requeued({w})
  /\ UNCHANGED <<pc, tag, job, todo, success, logged, diskVars, bucketVars, rowVars,
                 requestVars>>

\* Mutant: run_consumer returns when its connection is lost.
ReconnectNever(w) ==
  /\ pc[w] = "idle" /\ ~open[w]
  /\ UNCHANGED <<queueVars, workerVars>>

\* run_consumer: start_consuming raises, the thread sleeps and connects again.
Reconnect(w) ==
  /\ pc[w] = "idle" /\ ~open[w]
  /\ open' = [open EXCEPT ![w] = TRUE]
  /\ UNCHANGED <<pc, tag, job, todo, success, logged, diskVars, bucketVars, rowVars, queue,
                 faults, requestVars>>

\* The process dies with all its threads and starts again.  The directories
\* are on volumes: they survive a restart, and are new with a new volume.
Crash ==
  /\ Fault("crash")
  /\ queue' = Requeued(Workers)
  /\ pc' = [w \in Workers |-> "idle"]
  /\ open' = [w \in Workers |-> FALSE]
  /\ tag' = [w \in Workers |-> NoMsg]
  /\ job' = [w \in Workers |-> NoJob]
  /\ todo' = [w \in Workers |-> {}]
  /\ success' = [w \in Workers |-> FALSE]
  /\ logged' = [w \in Workers |-> FALSE]
  /\ \/ UNCHANGED <<sandbox, output, logfile>>
     \/ /\ sandbox' = [p \in Projects |-> EmptyDir]
        /\ output' = [j \in Jobs |-> NoTree]
        /\ logfile' = {}
  /\ left' = [p \in Projects |-> Present(sandbox'[p])]
  /\ UNCHANGED <<bucketVars, rowVars, requestVars>>

Work(w) ==
  \/ Deliver(w) \/ SetRunning(w) \/ SaveSource(w) \/ WriteFile(w) \/ Compile(w)
  \/ UploadLogs(w) \/ UploadPdf(w) \/ UploadSynctex(w) \/ Record(w) \/ Ack(w)
  \/ RecordError(w) \/ Nack(w) \/ Cleanup(w) \/ Reconnect(w)

WorkerNext == Crash \/ \E w \in Workers : Work(w) \/ Raise(w) \/ LoseConnection(w)

=============================================================================
