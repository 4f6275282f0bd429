----------------------- MODULE CompilePipelineProofs -----------------------
(***************************************************************************)
(* Theorems about CompilePipeline, for every number of jobs, projects,     *)
(* paths, threads, messages and faults.                                    *)
(***************************************************************************)
EXTENDS CompilePipeline, TLAPS

---------------------------------------------------------------------------
(* Facts about the operators the actions are built from.                   *)

\* Reading the files of a saved tree gives a tree, whatever could not be read.
LEMMA CapturedType ==
  ASSUME NEW tree \in Trees, NEW lost \in SUBSET Paths
  PROVE  Captured(tree, lost) \in Trees
BY DEF Captured, Trees

\* An empty directory is a tree.
LEMMA EmptyDirType == EmptyDir \in Trees
BY DEF EmptyDir, Trees

\* A call that may fail leaves the count of faults within its bound.
LEMMA AttemptType ==
  ASSUME NEW kind, NEW done \in BOOLEAN,
         faults \in 0 .. MaxFaults, Attempt(kind, done)
  PROVE  faults' \in 0 .. MaxFaults
BY BoundsType DEF Attempt, Fault

\* A call that may fail succeeds when faults of its kind do not happen.
LEMMA AttemptSucceeds ==
  ASSUME NEW kind, kind \notin Faults, NEW done \in BOOLEAN, Attempt(kind, done)
  PROVE  done
BY DEF Attempt, Fault

---------------------------------------------------------------------------
(* The inductive invariant.  TypeOK and the theorems' own properties are    *)
(* not inductive: the first says nothing of which thread holds which        *)
(* message, nor of what has been stored by the time a result is recorded.   *)

Busy(w) == pc[w] # "idle"

\* How far the handler has got, the row it has written and the files it read.
RequestsInStep ==
  \A j \in Jobs :
    /\ request[j] = "none" => status[j] = "none" /\ source[j] = NoTree
    /\ request[j] = "created" => status[j] = "PENDING" /\ source[j] = NoTree
    /\ request[j] = "publishing" => source[j] # NoTree
    /\ source[j] # NoTree => status[j] # "none"

\* A published message is for a job whose files have been read.
MessagesHaveFiles ==
  \A m \in Msgs :
    IF queue[m] = "unpublished"
    THEN payload[m] = NoJob
    ELSE payload[m] \in Jobs /\ source[payload[m]] # NoTree

\* A thread in its callback has a delivery, and works on the job of that message.
ThreadsHaveMessages ==
  \A w \in Workers :
    IF Busy(w)
    THEN /\ tag[w] \in Msgs
         /\ queue[tag[w]] # "unpublished"
         /\ job[w] = payload[tag[w]]
    ELSE tag[w] = NoMsg /\ job[w] = NoJob

\* An open channel keeps its message unacknowledged until the job is done, no
\* two have the same one, and cleanup comes after the acknowledgement.
ChannelsHold ==
  /\ \A w \in Workers : Holds(w) => queue[tag[w]] = "unacked"
  /\ \A w \in Workers : pc[w] = "cleanup" => queue[tag[w]] = "dropped"
  /\ \A v, w \in Workers : Holds(v) /\ Holds(w) /\ tag[v] = tag[w] => v = w

\* Somebody holds each message the broker waits for.
UnackedHeld ==
  \A m \in Msgs : queue[m] = "unacked" => \E w \in Workers : Holds(w) /\ tag[w] = m

Structure ==
  /\ TypeOK
  /\ RequestsInStep
  /\ MessagesHaveFiles
  /\ ThreadsHaveMessages

Delivery == Structure /\ ChannelsHold /\ UnackedHeld

\* What a thread is about to record has been stored.
ResultsStored ==
  \A w \in Workers :
    /\ pc[w] = "synctex" => success[w]
    /\ pc[w] \in {"synctex", "record"} /\ success[w] => pdf[job[w]] # NoTree
    /\ logged[w] => Busy(w) /\ job[w] \in logs

\* A row has a result only for files that have been read.
ResultsHaveFiles == \A j \in Jobs : result[j].artifact => source[j] # NoTree

Storage == Structure /\ ResultsStored /\ ResultsHaveFiles /\ OfferedIsStored

---------------------------------------------------------------------------
(* Type correctness.                                                       *)

\* Steps of the backend and the queue keep the types.
LEMMA QueueTypeOK == TypeOK /\ QueueNext /\ UNCHANGED workerVars => TypeOK'
<1> SUFFICES ASSUME TypeOK, QueueNext, UNCHANGED workerVars PROVE TypeOK'
  OBVIOUS
<1> USE DEF TypeOK, workerVars, threadVars, diskVars, bucketVars
<1>1. CASE ApiRestart
  BY <1>1, BoundsType DEF ApiRestart, Fault
<1>2. ASSUME NEW j \in Jobs, CreateRow(j) PROVE TypeOK'
  BY <1>2 DEF CreateRow, Unfinished
<1>3. ASSUME NEW j \in Jobs, ReadFiles(j) PROVE TypeOK'
  <2>1. PICK tree \in Saved, lost \in SUBSET Paths :
          /\ source' = [source EXCEPT ![j] = Captured(tree, lost)]
          /\ Attempt("fetch", lost = {})
    BY <1>3 DEF ReadFiles
  <2>2. source' \in [Jobs -> Trees \cup {NoTree}]
    BY <2>1, CapturedType, ContentsType
  <2>3. faults' \in 0 .. MaxFaults
    BY <2>1, AttemptType
  <2> QED BY <1>3, <2>2, <2>3 DEF ReadFiles
<1>4. ASSUME NEW j \in Jobs, PublishConfirmed(j) PROVE TypeOK'
  BY <1>4 DEF PublishConfirmed, Enqueue
<1>5. ASSUME NEW j \in Jobs, PublishFailed(j) PROVE TypeOK'
  BY <1>5, BoundsType DEF PublishFailed, Enqueue, Fault
<1> QED BY <1>1, <1>2, <1>3, <1>4, <1>5 DEF QueueNext, Submit


\* Recording a result keeps the two columns well typed.
LEMMA UpdateType ==
  ASSUME TypeOK, NEW j \in Jobs, NEW ok \in BOOLEAN, NEW haslogs \in BOOLEAN,
         UpdateJobStatus(j, ok, haslogs)
  PROVE  /\ status' \in [Jobs -> {"none"} \cup Unfinished \cup Finished]
         /\ result' \in [Jobs -> Result]
         /\ faults' \in 0 .. MaxFaults
<1>1. PICK done \in BOOLEAN :
        /\ Attempt("db", done)
        /\ IF done
           THEN /\ status' = [status EXCEPT ![j] = IF ok THEN "COMPLETED" ELSE "FAILED"]
                /\ result' = [result EXCEPT ![j] =
                                [artifact |-> ok, logs |-> haslogs,
                                 hash |-> IF ok THEN source[j] ELSE NoTree]]
           ELSE UNCHANGED rowVars
  BY DEF UpdateJobStatus
<1>2. faults' \in 0 .. MaxFaults
  BY <1>1, AttemptType DEF TypeOK
<1>3. [artifact |-> ok, logs |-> haslogs, hash |-> IF ok THEN source[j] ELSE NoTree]
        \in Result
  BY DEF TypeOK, Result
<1> QED BY <1>1, <1>2, <1>3 DEF TypeOK, rowVars, Finished

\* A thread in its callback works on a job whose files are known.
LEMMA BusyThread ==
  ASSUME Structure, NEW w \in Workers, Busy(w)
  PROVE  tag[w] \in Msgs /\ job[w] \in Jobs /\ source[job[w]] \in Trees
<1>1. tag[w] \in Msgs /\ queue[tag[w]] # "unpublished" /\ job[w] = payload[tag[w]]
  BY DEF Structure, ThreadsHaveMessages
<1>2. payload[tag[w]] \in Jobs /\ source[payload[tag[w]]] # NoTree
  BY <1>1 DEF Structure, MessagesHaveFiles
<1> QED BY <1>1, <1>2 DEF Structure, TypeOK

\* Steps of a thread that works keep the types.
LEMMA WorkTypeOK ==
  ASSUME Structure, NEW w \in Workers, Work(w)
  PROVE  TypeOK'
<1>0. /\ TypeOK
      /\ pc[w] # "idle" => tag[w] \in Msgs /\ job[w] \in Jobs /\ source[job[w]] \in Trees
  BY BusyThread DEF Structure, Busy
<1> USE <1>0 DEF TypeOK, threadVars, diskVars, bucketVars, rowVars, requestVars, Goto
<1>1. CASE Deliver(w)
  BY <1>1 DEF Deliver
<1>2. CASE SetRunning(w)
  BY <1>2, AttemptType DEF SetRunning, Unfinished
<1>3. CASE SaveSource(w)
  BY <1>3, AttemptType DEF SaveSource, Present
<1>4. CASE WriteFile(w)
  <2>1. PICK p \in todo[w] :
          sandbox' = [sandbox EXCEPT ![ProjectOf[job[w]]][p] = source[job[w]][p]]
    BY <1>4 DEF WriteFile
  <2>2. p \in Paths /\ source[job[w]][p] \in Contents \cup {Blank, Absent}
    BY <1>4 DEF WriteFile, Trees
  <2>3. sandbox' \in [Projects -> Trees]
    BY <2>1, <2>2 DEF Trees
  <2>4. todo' \in [Workers -> SUBSET Paths]
    BY <1>4 DEF WriteFile
  <2> QED BY <1>4, <2>3, <2>4 DEF WriteFile
<1>5. CASE Compile(w)
  <2>1. sandbox[ProjectOf[job[w]]] \in Trees
    BY <1>5, ProjectOfType DEF Compile
  <2>2. /\ output' \in [Jobs -> Trees \cup {NoTree}]
        /\ success' \in [Workers -> BOOLEAN]
        /\ logfile' \subseteq Jobs
    BY <1>5, <2>1 DEF Compile
  <2> QED BY <1>5, <2>2 DEF Compile
<1>6. CASE UploadLogs(w)
  BY <1>6, AttemptType DEF UploadLogs
<1>7. CASE UploadPdf(w)
  BY <1>7, AttemptType DEF UploadPdf
<1>8. CASE UploadSynctex(w)
  BY <1>8, AttemptType DEF UploadSynctex
<1>9. CASE Record(w)
  <2>1. job[w] \in Jobs /\ success[w] \in BOOLEAN /\ logged[w] \in BOOLEAN
    BY <1>9 DEF Record
  <2>2. UpdateJobStatus(job[w], success[w], logged[w])
    BY <1>9 DEF Record
  <2>3. /\ status' \in [Jobs -> {"none"} \cup Unfinished \cup Finished]
        /\ result' \in [Jobs -> Result]
        /\ faults' \in 0 .. MaxFaults
    BY <2>1, <2>2, UpdateType
  <2> QED BY <1>9, <2>3 DEF Record
<1>10. CASE Ack(w)
  BY <1>10 DEF Ack
<1>11. CASE RecordError(w)
  <2>1. job[w] \in Jobs /\ UpdateJobStatus(job[w], FALSE, FALSE)
    BY <1>11 DEF RecordError
  <2>2. /\ status' \in [Jobs -> {"none"} \cup Unfinished \cup Finished]
        /\ result' \in [Jobs -> Result]
        /\ faults' \in 0 .. MaxFaults
    BY <2>1, UpdateType
  <2> QED BY <1>11, <2>2 DEF RecordError
<1>12. CASE Nack(w)
  <2>1. left' \in [Projects -> SUBSET Paths]
    BY <1>12 DEF Nack, Return, Present
  <2> QED BY <1>12, <2>1 DEF Nack, Return
<1>13. CASE Cleanup(w)
  <2>1. PICK done \in BOOLEAN, kept \in SUBSET Present(sandbox[ProjectOf[job[w]]]) :
          /\ Attempt("rm", done)
          /\ output' \in {output, [output EXCEPT ![job[w]] = NoTree]}
          /\ logfile' \in {logfile, logfile \ {job[w]}}
          /\ sandbox' = [sandbox EXCEPT ![ProjectOf[job[w]]] = Emptied(@, kept)]
          /\ Return(w, Emptied(sandbox[ProjectOf[job[w]]], kept))
    BY <1>13 DEF Cleanup
  <2>2. sandbox[ProjectOf[job[w]]] \in Trees /\ ProjectOf[job[w]] \in Projects
    BY <1>13, ProjectOfType DEF Cleanup
  <2>3. Emptied(sandbox[ProjectOf[job[w]]], kept) \in Trees
    BY <2>2 DEF Emptied, Trees
  <2>4. sandbox' \in [Projects -> Trees]
    BY <2>1, <2>2, <2>3
  <2>5. left' \in [Projects -> SUBSET Paths]
    BY <2>1 DEF Return, Present
  <2>6. faults' \in 0 .. MaxFaults
    BY <2>1, AttemptType
  <2>7. output' \in [Jobs -> Trees \cup {NoTree}] /\ logfile' \subseteq Jobs
    BY <2>1
  <2> QED BY <1>13, <2>1, <2>4, <2>5, <2>6, <2>7 DEF Cleanup, Return
<1>14. CASE Reconnect(w)
  BY <1>14 DEF Reconnect
<1> QED BY <1>1, <1>2, <1>3, <1>4, <1>5, <1>6, <1>7, <1>8, <1>9, <1>10, <1>11, <1>12,
           <1>13, <1>14 DEF Work

\* The broker gives messages back, it invents none.
LEMMA RequeuedType ==
  ASSUME TypeOK, NEW lost \in SUBSET Workers
  PROVE  /\ Requeued(lost) \in [Msgs -> {"unpublished", "ready", "unacked", "dropped"}]
         /\ \A m \in Msgs : /\ queue[m] # "unacked" => Requeued(lost)[m] = queue[m]
                            /\ queue[m] = "unacked" =>
                                 Requeued(lost)[m] \in {"unacked", "ready"}
BY DEF Requeued, TypeOK

\* The except block, a lost connection and reconnecting keep the types.
LEMMA FailureTypeOK ==
  /\ Structure /\ Crash => TypeOK'
  /\ \A w \in Workers : Structure /\ (Raise(w) \/ LoseConnection(w)) => TypeOK'
<1> USE BoundsType DEF Structure, threadVars, diskVars, bucketVars, rowVars, requestVars,
                       Goto, Fault
<1>1. ASSUME Structure, Crash PROVE TypeOK'
  <2>1. queue' \in [Msgs -> {"unpublished", "ready", "unacked", "dropped"}]
    BY <1>1, RequeuedType DEF Crash
  <2>2. left' \in [Projects -> SUBSET Paths]
    BY <1>1 DEF Crash, Present
  <2> QED BY <1>1, <2>1, <2>2, EmptyDirType DEF Crash, TypeOK
<1>2. ASSUME NEW w \in Workers, Structure, Raise(w) PROVE TypeOK'
  BY <1>2 DEF Raise, TypeOK
<1>3. ASSUME NEW w \in Workers, Structure, LoseConnection(w) PROVE TypeOK'
  <2>1. queue' \in [Msgs -> {"unpublished", "ready", "unacked", "dropped"}]
    BY <1>3, RequeuedType DEF LoseConnection
  <2>2. open' \in [Workers -> BOOLEAN]
    BY <1>3 DEF LoseConnection, TypeOK
  <2>3. faults' \in 0 .. MaxFaults
    BY <1>3 DEF LoseConnection, TypeOK
  <2> QED BY <1>3, <2>1, <2>2, <2>3 DEF LoseConnection, TypeOK
<1> QED BY <1>1, <1>2, <1>3

---------------------------------------------------------------------------
(* What a step of a thread leaves alone.                                   *)

\* A step of thread w writes the row of its own job only, and never removes it.
LEMMA ThreadRows ==
  ASSUME Structure, NEW w \in Workers, Work(w) \/ Raise(w) \/ LoseConnection(w)
  PROVE  /\ UNCHANGED requestVars
         /\ \A j \in Jobs :
              \/ status'[j] = status[j] /\ result'[j] = result[j]
              \/ Busy(w) /\ j = job[w] /\ status'[j] \in {"RUNNING"} \cup Finished
<1> USE DEF rowVars, requestVars, Busy
<1>0. TypeOK
  BY DEF Structure
<1>1. CASE \/ Deliver(w) \/ SaveSource(w) \/ WriteFile(w) \/ Compile(w) \/ UploadLogs(w)
           \/ UploadPdf(w) \/ UploadSynctex(w) \/ Ack(w) \/ Nack(w) \/ Cleanup(w)
           \/ Reconnect(w) \/ Raise(w) \/ LoseConnection(w)
  BY <1>1 DEF Deliver, SaveSource, WriteFile, Compile, UploadLogs, UploadPdf,
              UploadSynctex, Ack, Nack, Cleanup, Reconnect, Raise, LoseConnection
<1>2. CASE SetRunning(w)
  <2>1. job[w] \in Jobs /\ pc[w] # "idle"
    BY <1>2, BusyThread DEF SetRunning
  <2> QED BY <1>0, <1>2, <2>1 DEF SetRunning, TypeOK
<1>3. CASE Record(w) \/ RecordError(w)
  <2>1. job[w] \in Jobs /\ pc[w] # "idle"
    BY <1>3, BusyThread DEF Record, RecordError
  <2>2. PICK ok \in BOOLEAN, haslogs \in BOOLEAN : UpdateJobStatus(job[w], ok, haslogs)
    BY <1>0, <1>3 DEF Record, RecordError, TypeOK
  <2>3. \A j \in Jobs :
          \/ status'[j] = status[j] /\ result'[j] = result[j]
          \/ j = job[w] /\ status'[j] \in {"COMPLETED", "FAILED"}
    <3>1. CASE UNCHANGED rowVars
      BY <3>1
    <3>2. CASE /\ status' = [status EXCEPT ![job[w]] = IF ok THEN "COMPLETED" ELSE "FAILED"]
               /\ result' = [result EXCEPT ![job[w]] =
                               [artifact |-> ok, logs |-> haslogs,
                                hash |-> IF ok THEN source[job[w]] ELSE NoTree]]
      BY <1>0, <2>1, <3>2 DEF TypeOK
    <3> QED BY <2>2, <3>1, <3>2 DEF UpdateJobStatus
  <2> QED BY <1>3, <2>1, <2>3 DEF Record, RecordError, Finished
<1> QED BY <1>1, <1>2, <1>3 DEF Work

\* A step of thread w publishes nothing; the messages it touches are the next one
\* and its own, and only a lost connection makes a message ready again.
LEMMA ThreadMessages ==
  ASSUME Structure, NEW w \in Workers, Work(w) \/ Raise(w) \/ LoseConnection(w)
  PROVE  \A m \in Msgs :
           \/ queue'[m] = queue[m]
           \/ Deliver(w) /\ queue[m] = "ready" /\ queue'[m] = "unacked" /\ tag'[w] = m
           \/ (Ack(w) \/ Nack(w)) /\ open[w] /\ tag[w] = m /\ queue'[m] = "dropped"
           \/ /\ LoseConnection(w) /\ open[w] /\ tag[w] = m
              /\ queue[m] = "unacked" /\ queue'[m] = "ready"
<1>0. TypeOK
  BY DEF Structure
<1>1. CASE \/ SetRunning(w) \/ SaveSource(w) \/ WriteFile(w) \/ Compile(w) \/ UploadLogs(w)
           \/ UploadPdf(w) \/ UploadSynctex(w) \/ Record(w) \/ RecordError(w)
           \/ Cleanup(w) \/ Reconnect(w) \/ Raise(w)
  BY <1>1 DEF SetRunning, SaveSource, WriteFile, Compile, UploadLogs, UploadPdf,
              UploadSynctex, Record, RecordError, Cleanup, Reconnect, Raise
<1>2. CASE Deliver(w)
  <2>1. PICK n \in Msgs : /\ queue[n] = "ready"
                          /\ queue' = [queue EXCEPT ![n] = "unacked"]
                          /\ tag' = [tag EXCEPT ![w] = n]
    BY <1>2 DEF Deliver, IsNext
  <2>2. tag'[w] = n /\ \A m \in Msgs : queue'[m] = IF m = n THEN "unacked" ELSE queue[m]
    BY <1>0, <2>1 DEF TypeOK
  <2> QED BY <1>2, <2>1, <2>2
<1>3. CASE Ack(w) \/ Nack(w)
  BY <1>0, <1>3 DEF Ack, Nack, TypeOK
<1>4. CASE LoseConnection(w)
  BY <1>0, <1>4 DEF LoseConnection, Requeued, TypeOK
<1> QED BY <1>1, <1>2, <1>3, <1>4 DEF Work

\* A step of thread w leaves the other threads where they are.
LEMMA OtherThreads ==
  ASSUME Structure, NEW w \in Workers, Work(w) \/ Raise(w) \/ LoseConnection(w)
  PROVE  \A v \in Workers \ {w} :
           /\ pc'[v] = pc[v] /\ open'[v] = open[v] /\ tag'[v] = tag[v] /\ job'[v] = job[v]
           /\ todo'[v] = todo[v] /\ success'[v] = success[v] /\ logged'[v] = logged[v]
<1>0. TypeOK
  BY DEF Structure
<1> USE <1>0 DEF TypeOK, Goto, Return, threadVars
<1>1. CASE Deliver(w)
  BY <1>1 DEF Deliver
<1>2. CASE SetRunning(w) \/ SaveSource(w) \/ WriteFile(w) \/ Compile(w)
  BY <1>2 DEF SetRunning, SaveSource, WriteFile, Compile
<1>3. CASE UploadLogs(w) \/ UploadPdf(w) \/ UploadSynctex(w)
  BY <1>3 DEF UploadLogs, UploadPdf, UploadSynctex
<1>4. CASE Record(w) \/ Ack(w) \/ RecordError(w)
  BY <1>4 DEF Record, Ack, RecordError
<1>5. CASE Nack(w) \/ Cleanup(w)
  BY <1>5 DEF Nack, Cleanup
<1>6. CASE Reconnect(w) \/ Raise(w) \/ LoseConnection(w)
  BY <1>6 DEF Reconnect, Raise, LoseConnection
<1> QED BY <1>1, <1>2, <1>3, <1>4, <1>5, <1>6 DEF Work

\* A thread keeps its delivery until the callback is left.
LEMMA OwnDelivery ==
  ASSUME Structure, NEW w \in Workers, Work(w) \/ Raise(w) \/ LoseConnection(w)
  PROVE  \/ Deliver(w)
         \/ \E dir : Return(w, dir)
         \/ UNCHANGED <<tag, job>> /\ (pc'[w] # "idle" <=> pc[w] # "idle")
<1>0. TypeOK
  BY DEF Structure
<1> USE <1>0 DEF TypeOK, Goto, threadVars
<1>1. CASE SetRunning(w) \/ SaveSource(w) \/ WriteFile(w) \/ Compile(w)
  BY <1>1 DEF SetRunning, SaveSource, WriteFile, Compile
<1>2. CASE UploadLogs(w) \/ UploadPdf(w) \/ UploadSynctex(w)
  BY <1>2 DEF UploadLogs, UploadPdf, UploadSynctex
<1>3. CASE Record(w) \/ Ack(w) \/ RecordError(w)
  BY <1>3 DEF Record, Ack, RecordError
<1>4. CASE Nack(w) \/ Cleanup(w)
  BY <1>4 DEF Nack, Cleanup
<1>5. CASE Reconnect(w) \/ Raise(w) \/ LoseConnection(w)
  BY <1>5 DEF Reconnect, Raise, LoseConnection
<1> QED BY <1>1, <1>2, <1>3, <1>4, <1>5 DEF Work

---------------------------------------------------------------------------
(* The structure is preserved.                                             *)

\* Publishing takes a fresh message for a job whose files have been read.
LEMMA EnqueueFresh ==
  ASSUME Structure, NEW j \in Jobs, Enqueue(j)
  PROVE  \E n \in Msgs :
           /\ queue[n] = "unpublished"
           /\ \A m \in Msgs : /\ queue'[m] = IF m = n THEN "ready" ELSE queue[m]
                             /\ payload'[m] = IF m = n THEN j ELSE payload[m]
BY DEF Structure, TypeOK, Enqueue

\* Steps of the backend and the queue keep the structure.
LEMMA QueueStructure == Structure /\ QueueNext /\ UNCHANGED workerVars => Structure'
<1> SUFFICES ASSUME Structure, QueueNext, UNCHANGED workerVars PROVE Structure'
  OBVIOUS
<1>0. TypeOK /\ TypeOK' /\ UNCHANGED <<pc, tag, job>>
  BY QueueTypeOK DEF Structure, workerVars, threadVars
<1> USE <1>0 DEF Structure, TypeOK, RequestsInStep, MessagesHaveFiles, ThreadsHaveMessages, Busy
<1>1. CASE ApiRestart
  BY <1>1 DEF ApiRestart
<1>2. ASSUME NEW j \in Jobs, CreateRow(j) PROVE Structure'
  BY <1>2 DEF CreateRow
<1>3. ASSUME NEW j \in Jobs, ReadFiles(j) PROVE Structure'
  <2>1. PICK tree \in Trees : source' = [source EXCEPT ![j] = tree]
    BY <1>3, CapturedType, ContentsType DEF ReadFiles
  <2>2. tree # NoTree
    BY NullsType
  <2>3. RequestsInStep'
    BY <1>3, <2>1, <2>2 DEF ReadFiles
  <2>4. MessagesHaveFiles'
    BY <1>3, <2>1, <2>2 DEF ReadFiles
  <2>5. ThreadsHaveMessages'
    BY <1>3 DEF ReadFiles
  <2> QED BY <2>3, <2>4, <2>5
<1>4. ASSUME NEW j \in Jobs, PublishConfirmed(j) \/ PublishFailed(j) PROVE Structure'
  <2>1. /\ source[j] # NoTree
        /\ UNCHANGED <<status, result, source>>
        /\ Enqueue(j) \/ UNCHANGED <<queue, payload>>
        /\ \E to \in {"publishing", "accepted", "refused"} :
             request' = [request EXCEPT ![j] = to]
    BY <1>4 DEF PublishConfirmed, PublishFailed
  <2>2. RequestsInStep'
    BY <2>1
  <2>3. CASE UNCHANGED <<queue, payload>>
    BY <2>1, <2>2, <2>3
  <2>4. CASE Enqueue(j)
    <3>1. PICK n \in Msgs :
            /\ queue[n] = "unpublished"
            /\ \A m \in Msgs : /\ queue'[m] = IF m = n THEN "ready" ELSE queue[m]
                              /\ payload'[m] = IF m = n THEN j ELSE payload[m]
      BY <2>4, EnqueueFresh
    <3>2. MessagesHaveFiles'
      BY <2>1, <3>1
    <3>3. ThreadsHaveMessages'
      BY <3>1
    <3> QED BY <2>2, <3>2, <3>3
  <2> QED BY <2>1, <2>3, <2>4
<1> QED BY <1>1, <1>2, <1>3, <1>4 DEF QueueNext, Submit

\* Steps of a thread keep the structure.
LEMMA ThreadStructure ==
  ASSUME Structure, NEW w \in Workers, Work(w) \/ Raise(w) \/ LoseConnection(w)
  PROVE  Structure'
<1>0. TypeOK /\ TypeOK'
  BY WorkTypeOK, FailureTypeOK DEF Structure
<1>1. UNCHANGED <<request, source, payload>>
  BY ThreadRows DEF requestVars
<1>2. RequestsInStep'
  <2>1. \A j \in Jobs :
          \/ status'[j] = status[j]
          \/ source[j] # NoTree /\ status'[j] \in {"RUNNING"} \cup Finished
    BY ThreadRows, BusyThread, NullsType
  <2>2. \A j \in Jobs : request[j] \in {"none", "created"} => source[j] = NoTree
    BY DEF Structure, RequestsInStep
  <2> QED BY <1>1, <2>1, <2>2 DEF Structure, RequestsInStep, Finished
<1>3. \A m \in Msgs : queue'[m] = "unpublished" <=> queue[m] = "unpublished"
  <2>1. \A m \in Msgs : (Ack(w) \/ Nack(w)) /\ tag[w] = m => queue[m] # "unpublished"
    BY DEF Structure, ThreadsHaveMessages, Busy, Ack, Nack
  <2> QED BY <2>1, ThreadMessages
<1>4. MessagesHaveFiles'
  BY <1>1, <1>3 DEF Structure, MessagesHaveFiles
<1>5. ThreadsHaveMessages'
  <2>1. ASSUME NEW v \in Workers \ {w} PROVE ThreadsHaveMessages!(v)'
    BY <1>0, <1>1, <1>3, OtherThreads DEF Structure, ThreadsHaveMessages, Busy
  <2>2. ThreadsHaveMessages!(w)'
    <3>1. CASE Deliver(w)
      <4>1. PICK n \in Msgs : /\ queue[n] = "ready"
                              /\ tag' = [tag EXCEPT ![w] = n]
                              /\ job' = [job EXCEPT ![w] = payload[n]]
        BY <3>1 DEF Deliver, IsNext
      <4>2. pc'[w] = "start"
        BY <1>0, <3>1 DEF Deliver, Goto, TypeOK
      <4> QED BY <1>0, <1>1, <1>3, <4>1, <4>2 DEF TypeOK, Busy
    <3>2. CASE \E dir : Return(w, dir)
      BY <1>0, <3>2 DEF Return, Goto, TypeOK, Busy
    <3>3. CASE UNCHANGED <<tag, job>> /\ (pc'[w] # "idle" <=> pc[w] # "idle")
      BY <1>0, <1>1, <1>3, <3>3 DEF Structure, ThreadsHaveMessages, TypeOK, Busy
    <3> QED BY <3>1, <3>2, <3>3, OwnDelivery
  <2> QED BY <2>1, <2>2 DEF ThreadsHaveMessages
<1> QED BY <1>0, <1>2, <1>4, <1>5 DEF Structure

\* A crash keeps the structure.
LEMMA CrashStructure == Structure /\ Crash => Structure'
<1> SUFFICES ASSUME Structure, Crash PROVE Structure'
  OBVIOUS
<1>0. TypeOK /\ TypeOK'
  BY FailureTypeOK DEF Structure
<1>1. UNCHANGED <<status, request, source, payload>>
  BY DEF Crash, rowVars, requestVars
<1>2. RequestsInStep'
  BY <1>1 DEF Structure, RequestsInStep
<1>3. \A m \in Msgs : queue'[m] = "unpublished" <=> queue[m] = "unpublished"
  BY <1>0, RequeuedType DEF Crash
<1>4. MessagesHaveFiles'
  BY <1>1, <1>3 DEF Structure, MessagesHaveFiles
<1>5. ThreadsHaveMessages'
  BY DEF Crash, ThreadsHaveMessages, Busy
<1> QED BY <1>0, <1>2, <1>4, <1>5 DEF Structure

\* The structure holds initially.
LEMMA InitStructure == Init => Structure
BY EmptyDirType, BoundsType
   DEF Init, QueueInit, WorkerInit, Structure, TypeOK, RequestsInStep, MessagesHaveFiles,
       ThreadsHaveMessages, Busy, Result, NoResult

\* Every variable keeps its type: the pipeline never mixes up jobs, messages and
\* trees, whatever fails.  (callback, create_compile_job, publish_message)
THEOREM TypeCorrect == Spec => []TypeOK
<1>1. Init => Structure
  BY InitStructure
<1>2. Structure /\ [Next]_vars => Structure'
  <2> SUFFICES ASSUME Structure, [Next]_vars PROVE Structure'
    OBVIOUS
  <2>1. CASE QueueNext /\ UNCHANGED workerVars
    BY <2>1, QueueStructure
  <2>2. CASE Crash
    BY <2>2, CrashStructure
  <2>3. ASSUME NEW w \in Workers, Work(w) \/ Raise(w) \/ LoseConnection(w) PROVE Structure'
    BY <2>3, ThreadStructure
  <2>4. CASE UNCHANGED vars
    BY <2>4 DEF vars, queueVars, workerVars, threadVars, diskVars, bucketVars, Structure,
                TypeOK, RequestsInStep, MessagesHaveFiles, ThreadsHaveMessages, Busy
  <2> QED BY <2>1, <2>2, <2>3, <2>4 DEF Next, WorkerNext
<1>3. Structure => TypeOK
  BY DEF Structure
<1> QED BY <1>1, <1>2, <1>3, PTL DEF Spec

---------------------------------------------------------------------------
(* Deliveries.                                                             *)

\* How a step of thread w changes what it holds itself.
LEMMA OwnChannel ==
  ASSUME Structure, ChannelsHold, NEW w \in Workers,
         Work(w) \/ Raise(w) \/ LoseConnection(w)
  PROVE  /\ Holds(w)' => Deliver(w) \/ (Holds(w) /\ tag'[w] = tag[w])
         /\ Holds(w)' => queue'[tag'[w]] = "unacked"
         /\ pc'[w] = "cleanup" => queue'[tag'[w]] = "dropped"
         /\ Holds(w) /\ queue'[tag[w]] = "unacked" => Holds(w)' /\ tag'[w] = tag[w]
<1>0. TypeOK /\ TypeOK' /\ (pc[w] # "idle" => tag[w] \in Msgs)
  BY BusyThread, ThreadStructure DEF Structure, Busy
<1>1. /\ Holds(w) => queue[tag[w]] = "unacked"
      /\ pc[w] = "cleanup" => queue[tag[w]] = "dropped"
  BY DEF ChannelsHold
<1> USE <1>0, <1>1 DEF TypeOK, Goto, Return, threadVars, Holds
<1>2. CASE Deliver(w)
  <2>1. PICK n \in Msgs : /\ queue' = [queue EXCEPT ![n] = "unacked"]
                          /\ tag' = [tag EXCEPT ![w] = n]
    BY <1>2 DEF Deliver
  <2>2. pc[w] = "idle" /\ pc'[w] = "start"
    BY <1>2 DEF Deliver
  <2>3. tag'[w] \in Msgs /\ queue'[tag'[w]] = "unacked"
    BY <2>1
  <2>4. ~Holds(w) /\ pc'[w] # "cleanup"
    BY <2>2
  <2> QED BY <1>2, <2>3, <2>4
<1>3. CASE SetRunning(w) \/ SaveSource(w) \/ WriteFile(w) \/ Compile(w)
  BY <1>3 DEF SetRunning, SaveSource, WriteFile, Compile
<1>4. CASE UploadLogs(w) \/ UploadPdf(w) \/ UploadSynctex(w)
  BY <1>4 DEF UploadLogs, UploadPdf, UploadSynctex
<1>5. CASE Record(w) \/ RecordError(w) \/ Raise(w)
  <2>1. /\ UNCHANGED <<open, tag, queue>>
        /\ pc[w] \notin {"idle", "cleanup"} /\ pc'[w] \notin {"idle", "cleanup"}
    <3>1. CASE Record(w)
      BY <3>1 DEF Record
    <3>2. CASE RecordError(w)
      BY <3>2 DEF RecordError
    <3>3. CASE Raise(w)
      BY <3>3 DEF Raise
    <3> QED BY <1>5, <3>1, <3>2, <3>3
  <2> QED BY <2>1
<1>6. CASE Ack(w)
  BY <1>6 DEF Ack
<1>7. CASE Nack(w)
  BY <1>7 DEF Nack
<1>8. CASE Cleanup(w) \/ Reconnect(w)
  BY <1>8 DEF Cleanup, Reconnect
<1>9. CASE LoseConnection(w)
  BY <1>9 DEF LoseConnection, Requeued
<1> QED BY <1>2, <1>3, <1>4, <1>5, <1>6, <1>7, <1>8, <1>9 DEF Work

\* Steps of a thread keep deliveries and channels in step.
LEMMA ThreadDelivery ==
  ASSUME Delivery, NEW w \in Workers, Work(w) \/ Raise(w) \/ LoseConnection(w)
  PROVE  Delivery'
<1>0. Structure /\ Structure' /\ TypeOK /\ TypeOK' /\ ChannelsHold /\ UnackedHeld
  BY ThreadStructure DEF Delivery, Structure
<1>1. \A v \in Workers \ {w} :
        (Holds(v)' <=> Holds(v)) /\ tag'[v] = tag[v] /\ pc'[v] = pc[v]
  BY <1>0, OtherThreads DEF Holds
<1>2. \A v \in Workers : pc[v] # "idle" => tag[v] \in Msgs
  BY <1>0, BusyThread DEF Busy
\* A message changes hands only between the broker and the thread itself.
<1>3. \A v \in Workers \ {w} : Holds(v) \/ pc[v] = "cleanup" =>
        queue'[tag[v]] = queue[tag[v]]
  <2> SUFFICES ASSUME NEW v \in Workers \ {w}, Holds(v) \/ pc[v] = "cleanup",
                      queue'[tag[v]] # queue[tag[v]]
               PROVE FALSE
    OBVIOUS
  <2>1. tag[v] \in Msgs /\ queue[tag[v]] \in {"unacked", "dropped"}
    BY <1>0, <1>2 DEF Holds, ChannelsHold
  <2>2. tag[w] = tag[v] /\ open[w] /\ (Ack(w) \/ Nack(w) \/ queue[tag[v]] = "unacked")
    BY <1>0, <2>1, ThreadMessages
  <2>3. pc[w] # "idle"
    BY <1>0, <2>1, <2>2, NullsType DEF Structure, ThreadsHaveMessages, Busy
  <2>4. Holds(w)
    BY <1>0, <2>2, <2>3 DEF Holds, ChannelsHold, Ack, Nack
  <2>5. Holds(v)
    BY <1>0, <2>2, <2>4 DEF ChannelsHold, Holds
  <2> QED BY <1>0, <2>2, <2>4, <2>5 DEF ChannelsHold
<1>4. ChannelsHold'
  <2>1. \A v \in Workers : Holds(v)' => queue'[tag'[v]] = "unacked"
    BY <1>0, <1>1, <1>3, OwnChannel DEF ChannelsHold
  <2>2. \A v \in Workers : pc'[v] = "cleanup" => queue'[tag'[v]] = "dropped"
    BY <1>0, <1>1, <1>3, OwnChannel DEF ChannelsHold
  <2>3. ASSUME NEW u \in Workers, NEW v \in Workers, Holds(u)', Holds(v)', tag'[u] = tag'[v],
               u # v
        PROVE FALSE
    <3>1. ASSUME NEW x \in Workers \ {w}, Holds(w)', Holds(x)', tag'[w] = tag'[x] PROVE FALSE
      <4>1. Holds(x) /\ tag[x] = tag'[w] /\ queue[tag[x]] = "unacked"
        BY <1>0, <1>1, <3>1 DEF ChannelsHold
      <4>2. CASE Deliver(w)
        <5>1. tag'[w] \in Msgs /\ queue[tag'[w]] = "ready"
          BY <1>0, <4>2 DEF Deliver, IsNext, TypeOK
        <5> QED BY <4>1, <5>1
      <4>3. CASE Holds(w) /\ tag'[w] = tag[w]
        BY <1>0, <4>1, <4>3 DEF ChannelsHold
      <4> QED BY <1>0, <3>1, <4>2, <4>3, OwnChannel
    <3>2. ASSUME NEW x \in Workers \ {w}, NEW y \in Workers \ {w}, x # y,
                 Holds(x)', Holds(y)', tag'[x] = tag'[y]
          PROVE FALSE
      BY <1>0, <1>1, <3>2 DEF ChannelsHold
    <3> QED BY <2>3, <3>1, <3>2
  <2> QED BY <2>1, <2>2, <2>3 DEF ChannelsHold
<1>5. UnackedHeld'
  <2> SUFFICES ASSUME NEW m \in Msgs, queue'[m] = "unacked"
               PROVE \E v \in Workers : Holds(v)' /\ tag'[v] = m
    BY DEF UnackedHeld
  <2>1. CASE queue[m] = "unacked"
    <3>1. PICK v \in Workers : Holds(v) /\ tag[v] = m
      BY <1>0, <2>1 DEF UnackedHeld
    <3> QED BY <1>0, <1>1, <3>1, OwnChannel
  <2>2. CASE queue[m] # "unacked"
    <3>1. Deliver(w) /\ tag'[w] = m
      BY <1>0, <2>2, ThreadMessages
    <3>2. Holds(w)'
      BY <1>0, <3>1 DEF Deliver, Holds, Goto, TypeOK
    <3> QED BY <3>1, <3>2
  <2> QED BY <2>1, <2>2
<1> QED BY <1>0, <1>4, <1>5 DEF Delivery

\* So do steps of the backend and the queue.
LEMMA QueueDelivery == Delivery /\ QueueNext /\ UNCHANGED workerVars => Delivery'
<1> SUFFICES ASSUME Delivery, QueueNext, UNCHANGED workerVars PROVE Delivery'
  OBVIOUS
<1>0. Structure /\ Structure' /\ TypeOK /\ UNCHANGED <<pc, open, tag>>
  BY QueueStructure DEF Delivery, Structure, workerVars, threadVars
<1>1. \A m \in Msgs : queue'[m] = queue[m] \/ (queue[m] = "unpublished" /\ queue'[m] = "ready")
  <2>1. CASE \E j \in Jobs : Enqueue(j)
    BY <1>0, <2>1, EnqueueFresh
  <2>2. CASE UNCHANGED queue
    BY <2>2
  <2> QED BY <2>1, <2>2 DEF QueueNext, ApiRestart, CreateRow, Submit, ReadFiles,
                            PublishConfirmed, PublishFailed
<1>2. \A v \in Workers : pc[v] # "idle" => tag[v] \in Msgs
  BY <1>0, BusyThread DEF Busy
<1>3. ChannelsHold'
  BY <1>0, <1>1, <1>2 DEF Delivery, ChannelsHold, Holds
<1>4. UnackedHeld'
  BY <1>0, <1>1 DEF Delivery, UnackedHeld, Holds
<1> QED BY <1>0, <1>3, <1>4 DEF Delivery

\* So does a crash.
LEMMA CrashDelivery == Delivery /\ Crash => Delivery'
<1> SUFFICES ASSUME Delivery, Crash PROVE Delivery'
  OBVIOUS
<1>0. Structure /\ Structure' /\ TypeOK /\ UnackedHeld
  BY CrashStructure DEF Delivery, Structure
<1>1. ChannelsHold'
  BY DEF Crash, ChannelsHold, Holds
<1>2. UnackedHeld'
  BY <1>0 DEF Crash, Requeued, UnackedHeld, Holds
<1> QED BY <1>0, <1>1, <1>2 DEF Delivery

\* They are in step initially.
LEMMA InitDelivery == Init => Delivery
BY InitStructure DEF Init, QueueInit, WorkerInit, Delivery, ChannelsHold, UnackedHeld, Holds

\* A waiting message is held by one open channel, and no other open channel has it.
LEMMA DeliveryOneHolder == Delivery => OneHolder
<1> SUFFICES ASSUME Delivery, NEW m \in Msgs, queue[m] = "unacked"
             PROVE \E w \in Workers :
                     /\ tag[w] = m /\ Holds(w)
                     /\ \A v \in Workers \ {w} : tag[v] = m => ~open[v]
  BY DEF OneHolder
<1>1. PICK w \in Workers : Holds(w) /\ tag[w] = m
  BY DEF Delivery, UnackedHeld
<1>2. ASSUME NEW v \in Workers \ {w}, tag[v] = m, open[v] PROVE FALSE
  <2>1. pc[v] # "idle"
    BY <1>2, NullsType DEF Delivery, Structure, ThreadsHaveMessages, Busy
  <2>2. Holds(v)
    BY <1>2, <2>1 DEF Delivery, ChannelsHold, Holds
  <2> QED BY <1>1, <1>2, <2>2 DEF Delivery, ChannelsHold
<1> QED BY <1>1, <1>2

\* Hence they always are.
LEMMA DeliveryInvariant == Spec => []Delivery
<1>1. Init => Delivery
  BY InitDelivery
<1>2. Delivery /\ [Next]_vars => Delivery'
  <2> SUFFICES ASSUME Delivery, [Next]_vars PROVE Delivery'
    OBVIOUS
  <2>1. CASE QueueNext /\ UNCHANGED workerVars
    BY <2>1, QueueDelivery
  <2>2. CASE Crash
    BY <2>2, CrashDelivery
  <2>3. ASSUME NEW w \in Workers, Work(w) \/ Raise(w) \/ LoseConnection(w) PROVE Delivery'
    BY <2>3, ThreadDelivery
  <2>4. CASE UNCHANGED vars
    BY <2>4 DEF vars, queueVars, workerVars, threadVars, diskVars, bucketVars, Delivery,
                Structure, TypeOK, RequestsInStep, MessagesHaveFiles, ThreadsHaveMessages,
                Busy, ChannelsHold, UnackedHeld, Holds
  <2> QED BY <2>1, <2>2, <2>3, <2>4 DEF Next, WorkerNext
<1> QED BY <1>1, <1>2, PTL DEF Spec

\* Every message the broker waits for is handled by exactly one thread that can still
\* settle it, however often threads lose their connection or the process restarts.
THEOREM MessagesHaveOneHolder == Spec => []OneHolder
BY DeliveryInvariant, DeliveryOneHolder, PTL

---------------------------------------------------------------------------
(* Storage: objects come before the rows that name them.                   *)

\* Objects are never removed.
LEMMA ObjectsStay ==
  ASSUME Structure, NEW w \in Workers, Work(w) \/ Raise(w) \/ LoseConnection(w)
  PROVE  /\ logs \subseteq logs'
         /\ \A j \in Jobs : pdf[j] # NoTree => pdf'[j] # NoTree
<1>0. TypeOK
  BY DEF Structure
<1>1. CASE UploadLogs(w)
  BY <1>1 DEF UploadLogs
<1>2. CASE UploadPdf(w)
  BY <1>0, <1>2 DEF UploadPdf, TypeOK
<1>3. CASE ~UploadLogs(w) /\ ~UploadPdf(w)
  BY <1>3 DEF Work, Deliver, SetRunning, SaveSource, WriteFile, Compile, UploadSynctex,
              Record, Ack, RecordError, Nack, Cleanup, Reconnect, Raise, LoseConnection,
              bucketVars
<1> QED BY <1>1, <1>2, <1>3

\* What thread w is about to record has been stored.
LEMMA OwnResult ==
  ASSUME Storage, NEW w \in Workers, Work(w) \/ Raise(w) \/ LoseConnection(w)
  PROVE  ResultsStored!(w)'
<1>0. /\ TypeOK /\ TypeOK'
      /\ pc[w] # "idle" => job[w] \in Jobs
      /\ pc[w] = "synctex" => success[w]
      /\ pc[w] \in {"synctex", "record"} /\ success[w] => pdf[job[w]] # NoTree
      /\ logged[w] => pc[w] # "idle" /\ job[w] \in logs
  BY BusyThread, ThreadStructure DEF Storage, Structure, ResultsStored, Busy
<1> USE <1>0 DEF TypeOK, Goto, Return, Busy, threadVars, bucketVars
<1>1. CASE Deliver(w)
  BY <1>1 DEF Deliver
<1>2. CASE SetRunning(w) \/ SaveSource(w) \/ WriteFile(w) \/ Compile(w)
  BY <1>2 DEF SetRunning, SaveSource, WriteFile, Compile
<1>3. CASE UploadLogs(w)
  BY <1>3 DEF UploadLogs
<1>4. CASE UploadPdf(w)
  BY <1>4 DEF UploadPdf
<1>5. CASE UploadSynctex(w)
  BY <1>5 DEF UploadSynctex
<1>6. CASE Record(w) \/ Ack(w) \/ RecordError(w)
  <2>1. /\ UNCHANGED <<job, success, logged, logs, pdf>>
        /\ pc[w] # "idle" /\ pc'[w] \notin {"idle", "synctex", "record"}
    <3>1. CASE Record(w)
      BY <3>1 DEF Record
    <3>2. CASE Ack(w)
      BY <3>2 DEF Ack
    <3>3. CASE RecordError(w)
      BY <3>3 DEF RecordError
    <3> QED BY <1>6, <3>1, <3>2, <3>3
  <2> QED BY <2>1
<1>7. CASE Nack(w) \/ Cleanup(w)
  BY <1>7 DEF Nack, Cleanup
<1>8. CASE Reconnect(w) \/ Raise(w) \/ LoseConnection(w)
  BY <1>8 DEF Reconnect, Raise, LoseConnection
<1> QED BY <1>1, <1>2, <1>3, <1>4, <1>5, <1>6, <1>7, <1>8 DEF Work

\* What a thread records it has stored.
LEMMA ThreadStorage ==
  ASSUME Storage, NEW w \in Workers, Work(w) \/ Raise(w) \/ LoseConnection(w)
  PROVE  Storage'
<1>0. Structure /\ Structure' /\ TypeOK /\ TypeOK' /\ UNCHANGED source
  BY ThreadStructure, ThreadRows DEF Storage, Structure, requestVars
<1>1. ResultsStored'
  <2>1. ASSUME NEW v \in Workers \ {w} PROVE ResultsStored!(v)'
    <3>1. /\ pc'[v] = pc[v] /\ job'[v] = job[v]
          /\ success'[v] = success[v] /\ logged'[v] = logged[v]
      BY <1>0, <2>1, OtherThreads
    <3>2. pc[v] # "idle" => job[v] \in Jobs
      BY <1>0, BusyThread DEF Busy
    <3>3. /\ logs \subseteq logs'
          /\ \A j \in Jobs : pdf[j] # NoTree => pdf'[j] # NoTree
      BY <1>0, ObjectsStay
    <3> QED BY <3>1, <3>2, <3>3 DEF Storage, ResultsStored, Busy
  <2> QED BY <2>1, OwnResult DEF ResultsStored
\* A row that is written gets a result for objects that are stored.
<1>2. \A j \in Jobs :
        \/ /\ result'[j] = result[j]
           /\ status'[j] \in {status[j], "RUNNING"}
        \/ /\ j = job[w] /\ Busy(w)
           /\ result'[j].artifact => pdf[j] # NoTree /\ result'[j].hash = source[j]
           /\ result'[j].logs => j \in logs
           /\ status'[j] = "COMPLETED" => result'[j].artifact
  <2>1. CASE Record(w) \/ RecordError(w)
    <3>1. PICK ok \in BOOLEAN, haslogs \in BOOLEAN :
            /\ UpdateJobStatus(job[w], ok, haslogs)
            /\ ok => pdf[job[w]] # NoTree
            /\ haslogs => job[w] \in logs
      <4>1. CASE Record(w)
        <5>1. /\ UpdateJobStatus(job[w], success[w], logged[w])
              /\ success[w] \in BOOLEAN /\ logged[w] \in BOOLEAN
          BY <1>0, <4>1 DEF Record, TypeOK
        <5>2. /\ success[w] => pdf[job[w]] # NoTree
              /\ logged[w] => job[w] \in logs
          BY <4>1 DEF Record, Storage, ResultsStored
        <5> QED BY <5>1, <5>2
      <4>2. CASE RecordError(w)
        <5>1. UpdateJobStatus(job[w], FALSE, FALSE)
          BY <4>2 DEF RecordError
        <5> QED BY <5>1
      <4> QED BY <2>1, <4>1, <4>2
    <3>2. Busy(w) /\ job[w] \in Jobs
      BY <1>0, <2>1, BusyThread DEF Record, RecordError, Busy
    <3>3. CASE UNCHANGED rowVars
      BY <3>3 DEF rowVars
    <3>4. CASE /\ status' = [status EXCEPT ![job[w]] = IF ok THEN "COMPLETED" ELSE "FAILED"]
               /\ result' = [result EXCEPT ![job[w]] =
                               [artifact |-> ok, logs |-> haslogs,
                                hash |-> IF ok THEN source[job[w]] ELSE NoTree]]
      <4>1. \A j \in Jobs \ {job[w]} : result'[j] = result[j] /\ status'[j] = status[j]
        BY <1>0, <3>2, <3>4 DEF TypeOK
      <4>2. /\ result'[job[w]].artifact = ok /\ result'[job[w]].logs = haslogs
            /\ ok => result'[job[w]].hash = source[job[w]]
            /\ status'[job[w]] = IF ok THEN "COMPLETED" ELSE "FAILED"
        BY <1>0, <3>2, <3>4 DEF TypeOK
      <4> QED BY <3>1, <3>2, <4>1, <4>2
    <3> QED BY <3>1, <3>3, <3>4 DEF UpdateJobStatus
  <2>2. CASE SetRunning(w)
    BY <1>0, <2>2 DEF SetRunning, TypeOK
  <2>3. CASE ~Record(w) /\ ~RecordError(w) /\ ~SetRunning(w)
    BY <2>3 DEF Work, Deliver, SaveSource, WriteFile, Compile, UploadLogs, UploadPdf,
                UploadSynctex, Ack, Nack, Cleanup, Reconnect, Raise, LoseConnection, rowVars
  <2> QED BY <2>1, <2>2, <2>3
<1>3. Busy(w) => job[w] \in Jobs /\ source[job[w]] # NoTree
  BY <1>0, BusyThread, NullsType
<1>4. ResultsHaveFiles'
  BY <1>0, <1>2, <1>3 DEF Storage, ResultsHaveFiles
<1>5. OfferedIsStored'
  <2>1. /\ logs \subseteq logs'
        /\ \A j \in Jobs : pdf[j] # NoTree => pdf'[j] # NoTree
    BY <1>0, ObjectsStay
  <2> QED BY <1>0, <1>2, <2>1 DEF Storage, OfferedIsStored
<1> QED BY <1>0, <1>1, <1>4, <1>5 DEF Storage

\* Steps of the backend and the queue leave stored objects alone.
LEMMA QueueStorage == Storage /\ QueueNext /\ UNCHANGED workerVars => Storage'
<1> SUFFICES ASSUME Storage, QueueNext, UNCHANGED workerVars PROVE Storage'
  OBVIOUS
<1>0. /\ Structure /\ Structure' /\ TypeOK
      /\ UNCHANGED <<pc, job, success, logged, logs, pdf>>
  BY QueueStructure DEF Storage, Structure, workerVars, threadVars, bucketVars
<1>1. UNCHANGED result
  BY DEF QueueNext, ApiRestart, CreateRow, Submit, ReadFiles, PublishConfirmed, PublishFailed
<1>2. \A j \in Jobs : source[j] # NoTree => source'[j] = source[j]
  BY <1>0 DEF QueueNext, ApiRestart, CreateRow, Submit, ReadFiles, PublishConfirmed,
              PublishFailed, Structure, TypeOK, RequestsInStep
<1>3. \A j \in Jobs : status'[j] \in {status[j], "PENDING"}
  BY <1>0 DEF QueueNext, ApiRestart, CreateRow, Submit, ReadFiles, PublishConfirmed,
              PublishFailed, TypeOK
<1>4. ResultsStored'
  BY <1>0 DEF Storage, ResultsStored, Busy
<1>5. ResultsHaveFiles'
  BY <1>1, <1>2 DEF Storage, ResultsHaveFiles
<1>6. OfferedIsStored'
  BY <1>0, <1>1, <1>2, <1>3 DEF Storage, OfferedIsStored, ResultsHaveFiles
<1> QED BY <1>0, <1>4, <1>5, <1>6 DEF Storage

\* A crash takes no stored object away.
LEMMA CrashStorage == Storage /\ Crash => Storage'
<1> SUFFICES ASSUME Storage, Crash PROVE Storage'
  OBVIOUS
<1>1. Structure'
  BY CrashStructure DEF Storage
<1>2. ResultsStored'
  BY DEF Crash, ResultsStored, Busy
<1>3. ResultsHaveFiles' /\ OfferedIsStored'
  BY DEF Crash, Storage, ResultsHaveFiles, OfferedIsStored, rowVars, requestVars, bucketVars
<1> QED BY <1>1, <1>2, <1>3 DEF Storage

\* Nothing is offered initially.
LEMMA InitStorage == Init => Storage
BY InitStructure DEF Init, QueueInit, WorkerInit, Storage, ResultsStored, ResultsHaveFiles,
                     OfferedIsStored, NoResult, Busy

\* Hence a row only names what is stored.
LEMMA StorageHolds == Spec => []Storage
<1>1. Init => Storage
  BY InitStorage
<1>2. Storage /\ [Next]_vars => Storage'
  <2> SUFFICES ASSUME Storage, [Next]_vars PROVE Storage'
    OBVIOUS
  <2>1. CASE QueueNext /\ UNCHANGED workerVars
    BY <2>1, QueueStorage
  <2>2. CASE Crash
    BY <2>2, CrashStorage
  <2>3. ASSUME NEW w \in Workers, Work(w) \/ Raise(w) \/ LoseConnection(w) PROVE Storage'
    BY <2>3, ThreadStorage
  <2>4. CASE UNCHANGED vars
    <3>1. Structure'
      BY <2>4 DEF vars, queueVars, workerVars, threadVars, diskVars, bucketVars, Storage,
                Structure, TypeOK, RequestsInStep, MessagesHaveFiles, ThreadsHaveMessages,
                Busy
    <3> QED BY <2>4, <3>1 DEF vars, queueVars, workerVars, threadVars, bucketVars, Storage,
                ResultsStored, ResultsHaveFiles, OfferedIsStored, Busy
  <2> QED BY <2>1, <2>2, <2>3, <2>4 DEF Next, WorkerNext
<1> QED BY <1>1, <1>2, PTL DEF Spec

\* Whatever a row offers is stored: the PDF and the log it names exist and its hash is
\* that of the job's own files, in every status, after reruns, failures and restarts.
\* (update_job_status comes after the uploads, and no object is ever removed.)
THEOREM OfferedResultsAreStored == Spec => []OfferedIsStored
<1>1. Storage => OfferedIsStored
  BY DEF Storage
<1> QED BY <1>1, StorageHolds, PTL

---------------------------------------------------------------------------
(* No queued job is lost.                                                  *)

\* Without lost connections a thread in its callback can settle its message.
ChannelsStayOpen ==
  "conn" \notin Faults => \A w \in Workers : Busy(w) => open[w]

Progress == Delivery /\ ChannelsStayOpen /\ NoLostJob

\* A thread goes on to record a result, or has just recorded it.
LEMMA OwnProgress ==
  ASSUME "db" \notin Faults, Structure, NEW w \in Workers, pc[w] \in BeforeResult,
         Work(w) \/ Raise(w) \/ LoseConnection(w)
  PROVE  \/ pc'[w] \in BeforeResult /\ job'[w] = job[w]
         \/ status'[job[w]] \in Finished
<1>0. TypeOK /\ job[w] \in Jobs
  BY BusyThread DEF Structure, Busy, BeforeResult
<1> USE <1>0 DEF TypeOK, BeforeResult, Goto, threadVars
<1>1. CASE SetRunning(w) \/ SaveSource(w) \/ WriteFile(w) \/ Compile(w)
  BY <1>1 DEF SetRunning, SaveSource, WriteFile, Compile
<1>2. CASE UploadLogs(w) \/ UploadPdf(w) \/ UploadSynctex(w)
  BY <1>2 DEF UploadLogs, UploadPdf, UploadSynctex
<1>3. CASE Record(w) \/ RecordError(w)
  <2>1. PICK ok \in BOOLEAN, haslogs \in BOOLEAN : UpdateJobStatus(job[w], ok, haslogs)
    BY <1>3 DEF Record, RecordError
  <2>2. status' = [status EXCEPT ![job[w]] = IF ok THEN "COMPLETED" ELSE "FAILED"]
    BY <2>1, AttemptSucceeds DEF UpdateJobStatus
  <2> QED BY <2>2 DEF Finished
<1>4. CASE Deliver(w) \/ Ack(w) \/ Nack(w) \/ Cleanup(w) \/ Reconnect(w)
  BY <1>4 DEF Deliver, Ack, Nack, Cleanup, Reconnect
<1>5. CASE Raise(w) \/ LoseConnection(w)
  BY <1>5 DEF Raise, LoseConnection
<1> QED BY <1>1, <1>2, <1>3, <1>4, <1>5 DEF Work

\* A thread whose connection is never lost never has a closed one in its callback.
LEMMA OwnChannelOpen ==
  ASSUME "conn" \notin Faults, Structure, NEW w \in Workers, Busy(w) => open[w],
         Work(w) \/ Raise(w) \/ LoseConnection(w)
  PROVE  Busy(w)' => open'[w]
<1>0. TypeOK
  BY DEF Structure
<1> USE <1>0 DEF TypeOK, Goto, Return, Busy
<1>1. CASE Deliver(w) \/ Reconnect(w) \/ LoseConnection(w)
  BY <1>1 DEF Deliver, Reconnect, LoseConnection, Fault
<1>2. CASE SetRunning(w) \/ SaveSource(w) \/ WriteFile(w) \/ Compile(w) \/ Raise(w)
  BY <1>2 DEF SetRunning, SaveSource, WriteFile, Compile, Raise
<1>3. CASE UploadLogs(w) \/ UploadPdf(w) \/ UploadSynctex(w) \/ Record(w) \/ RecordError(w)
  BY <1>3 DEF UploadLogs, UploadPdf, UploadSynctex, Record, RecordError
<1>4. CASE Ack(w) \/ Nack(w) \/ Cleanup(w)
  BY <1>4 DEF Ack, Nack, Cleanup
<1> QED BY <1>1, <1>2, <1>3, <1>4 DEF Work

\* A thread gives a job up only with a result, or gives it back.
LEMMA ThreadProgress ==
  ASSUME ReliableResults, Progress, NEW w \in Workers,
         Work(w) \/ Raise(w) \/ LoseConnection(w)
  PROVE  Progress'
<1>0. Structure /\ TypeOK /\ Delivery' /\ UNCHANGED payload /\ "db" \notin Faults
  BY ThreadDelivery, ThreadRows DEF Progress, Delivery, Structure, requestVars, ReliableResults
<1>1. ChannelsStayOpen'
  BY <1>0, OtherThreads, OwnChannelOpen DEF Progress, ChannelsStayOpen, Busy
<1>2. NoLostJob'
  <2> SUFFICES ASSUME NEW j \in Jobs, Published(j), status'[j] \notin Finished
               PROVE BeingDone(j)'
    BY <1>0 DEF NoLostJob, Published
  <2>1. CASE status[j] \in Finished
    <3>1. SetRunning(w) /\ j = job[w]
      <4>1. j = job[w] /\ status'[j] = "RUNNING" /\ status'[j] # status[j]
        BY <1>0, <2>1, ThreadRows
      <4>2. CASE Record(w) \/ RecordError(w)
        <5>1. pc[w] \in BeforeResult /\ pc'[w] \notin BeforeResult
          BY <1>0, <4>2 DEF Record, RecordError, BeforeResult, Goto, TypeOK
        <5> QED BY <1>0, <4>1, <5>1, OwnProgress
      <4>3. CASE ~Record(w) /\ ~RecordError(w) /\ ~SetRunning(w)
        BY <4>1, <4>3 DEF Work, Deliver, SaveSource, WriteFile, Compile, UploadLogs,
                UploadPdf, UploadSynctex, Ack, Nack, Cleanup, Reconnect, Raise,
                LoseConnection, rowVars
      <4> QED BY <4>1, <4>2, <4>3
    <3>2. pc'[w] = "save" /\ job'[w] = j
      BY <1>0, <3>1 DEF SetRunning, Goto, TypeOK
    <3> QED BY <3>2 DEF BeingDone, BeforeResult
  <2>2. ASSUME NEW m \in Msgs, payload[m] = j, queue[m] = "ready" PROVE BeingDone(j)'
    <3>1. CASE queue'[m] = "ready"
      BY <1>0, <2>2, <3>1 DEF BeingDone
    <3>2. CASE queue'[m] # "ready"
      <4>1. Deliver(w) /\ tag'[w] = m
        <5>1. ~(Ack(w) /\ tag[w] = m /\ open[w]) /\ ~(Nack(w) /\ tag[w] = m /\ open[w])
          BY <2>2 DEF Progress, Delivery, ChannelsHold, Holds, Ack, Nack
        <5> QED BY <1>0, <2>2, <3>2, <5>1, ThreadMessages
      <4>2. pc'[w] = "start"
        BY <1>0, <4>1 DEF Deliver, Goto, TypeOK
      <4>3. job'[w] = j
        BY <1>0, <2>2, <4>1, <4>2 DEF Delivery, Structure, ThreadsHaveMessages, Busy
      <4> QED BY <4>2, <4>3 DEF BeingDone, BeforeResult
    <3> QED BY <3>1, <3>2
  <2>3. ASSUME NEW v \in Workers, job[v] = j, pc[v] \in BeforeResult PROVE BeingDone(j)'
    <3>1. pc'[v] \in BeforeResult /\ job'[v] = j
      BY <1>0, <2>3, OwnProgress, OtherThreads
    <3> QED BY <3>1 DEF BeingDone
  <2> QED BY <2>1, <2>2, <2>3 DEF Progress, NoLostJob, BeingDone
<1> QED BY <1>0, <1>1, <1>2 DEF Progress

\* Steps of the backend and the queue lose no queued job.
LEMMA QueueProgress == Progress /\ QueueNext /\ UNCHANGED workerVars => Progress'
<1> SUFFICES ASSUME Progress, QueueNext, UNCHANGED workerVars PROVE Progress'
  OBVIOUS
<1>0. /\ Structure /\ TypeOK /\ Delivery' /\ UNCHANGED <<pc, open, tag, job>>
  BY QueueDelivery DEF Progress, Delivery, Structure, workerVars, threadVars
<1>1. ChannelsStayOpen'
  BY <1>0 DEF Progress, ChannelsStayOpen, Busy
<1>2. ASSUME NEW j \in Jobs, Published(j)
      PROVE  status'[j] = status[j]
  <2>1. source[j] # NoTree
    BY <1>0, <1>2, NullsType DEF Published, Structure, MessagesHaveFiles
  <2>2. request[j] # "none"
    BY <1>0, <2>1 DEF Structure, RequestsInStep
  <2> QED BY <1>0, <2>2 DEF QueueNext, ApiRestart, CreateRow, Submit, ReadFiles,
                            PublishConfirmed, PublishFailed, TypeOK
<1>3. \A j \in Jobs : BeingDone(j) => BeingDone(j)'
  <2>1. CASE UNCHANGED <<queue, payload>>
    BY <1>0, <2>1 DEF BeingDone
  <2>2. ASSUME NEW i \in Jobs, Enqueue(i) PROVE \A j \in Jobs : BeingDone(j) => BeingDone(j)'
    BY <1>0, <2>2, EnqueueFresh DEF BeingDone
  <2> QED BY <2>1, <2>2 DEF QueueNext, ApiRestart, CreateRow, Submit, ReadFiles,
                            PublishConfirmed, PublishFailed
<1>4. ASSUME NEW j \in Jobs, Published(j)', ~Published(j) PROVE BeingDone(j)'
  <2>1. CASE UNCHANGED <<queue, payload>>
    BY <1>4, <2>1 DEF Published
  <2>2. ASSUME NEW i \in Jobs, Enqueue(i) PROVE BeingDone(j)'
    BY <1>0, <1>4, <2>2, EnqueueFresh DEF BeingDone, Published
  <2> QED BY <2>1, <2>2 DEF QueueNext, ApiRestart, CreateRow, Submit, ReadFiles,
                            PublishConfirmed, PublishFailed
<1>5. NoLostJob'
  BY <1>2, <1>3, <1>4 DEF Progress, NoLostJob
<1> QED BY <1>0, <1>1, <1>5 DEF Progress

\* After a crash the message of every thread that could still settle it is ready.
LEMMA CrashProgress == ReliableResults /\ Progress /\ Crash => Progress'
<1> SUFFICES ASSUME ReliableResults, Progress, Crash PROVE Progress'
  OBVIOUS
<1>0. /\ Structure /\ TypeOK /\ Delivery' /\ "conn" \notin Faults
      /\ UNCHANGED <<status, payload>>
  BY CrashDelivery DEF Progress, Delivery, Structure, Crash, Fault, ReliableResults,
                       rowVars, requestVars
<1>1. ChannelsStayOpen'
  BY DEF Crash, ChannelsStayOpen, Busy
<1>2. ASSUME NEW j \in Jobs, BeingDone(j) PROVE BeingDone(j)'
  <2>1. ASSUME NEW m \in Msgs, payload[m] = j, queue[m] = "ready" PROVE BeingDone(j)'
    BY <1>0, <2>1 DEF Crash, Requeued, BeingDone
  <2>2. ASSUME NEW w \in Workers, job[w] = j, pc[w] \in BeforeResult PROVE BeingDone(j)'
    <3>1. /\ tag[w] \in Msgs /\ payload[tag[w]] = j
      BY <1>0, <2>2, BusyThread DEF Structure, ThreadsHaveMessages, Busy, BeforeResult
    <3>2. open[w] /\ queue[tag[w]] = "unacked"
      BY <1>0, <2>2 DEF Progress, ChannelsStayOpen, Busy, Delivery, ChannelsHold, Holds,
                        BeforeResult
    <3>3. queue'[tag[w]] = "ready"
      BY <3>1, <3>2 DEF Crash, Requeued
    <3> QED BY <1>0, <3>1, <3>3 DEF BeingDone
  <2> QED BY <1>2, <2>1, <2>2 DEF BeingDone
<1>3. NoLostJob'
  BY <1>0, <1>2 DEF Progress, NoLostJob, Published
<1> QED BY <1>0, <1>1, <1>3 DEF Progress

\* Once queued, a job has a result or somebody will still write one, provided that the
\* database takes every update and that connections are lost or the process restarts,
\* but not both.  (callback updates the row before it settles the message.)
THEOREM NoJobIsLost == ASSUME ReliableResults PROVE Spec => []NoLostJob
<1>1. Init => Progress
  <2> SUFFICES ASSUME Init PROVE Progress
    OBVIOUS
  <2>1. ChannelsStayOpen
    BY DEF Init, WorkerInit, ChannelsStayOpen, Busy
  <2>2. NoLostJob
    BY NullsType DEF Init, QueueInit, NoLostJob, Published
  <2> QED BY <2>1, <2>2, InitDelivery DEF Progress
<1>2. Progress /\ [Next]_vars => Progress'
  <2> SUFFICES ASSUME Progress, [Next]_vars PROVE Progress'
    OBVIOUS
  <2>1. CASE QueueNext /\ UNCHANGED workerVars
    BY <2>1, QueueProgress
  <2>2. CASE Crash
    BY <2>2, CrashProgress
  <2>3. ASSUME NEW w \in Workers, Work(w) \/ Raise(w) \/ LoseConnection(w) PROVE Progress'
    BY <2>3, ThreadProgress
  <2>4. CASE UNCHANGED vars
    BY <2>4 DEF vars, queueVars, workerVars, threadVars, diskVars, bucketVars, Progress,
                Delivery, Structure, TypeOK, RequestsInStep, MessagesHaveFiles,
                ThreadsHaveMessages, Busy, ChannelsHold, UnackedHeld, Holds,
                ChannelsStayOpen, NoLostJob, Published, BeingDone
  <2> QED BY <2>1, <2>2, <2>3, <2>4 DEF Next, WorkerNext
<1>3. Progress => NoLostJob
  BY DEF Progress
<1> QED BY <1>1, <1>2, <1>3, PTL DEF Spec


---------------------------------------------------------------------------
(***************************************************************************)
(* What a worker with one consumer thread guarantees: the PDF of a job is  *)
(* made from the files of that job and of what was left in its directory,  *)
(* for any jobs, projects, paths and faults.                               *)
(*                                                                         *)
(* The argument: while no thread uses a directory it holds what the last   *)
(* one left there. So what it holds during download_files is what has been *)
(* written of the job, over what was left; and at the end all of the job.  *)
(***************************************************************************)

OneThread == \A v, w \in Workers : v = w

\* The calls of callback before download_files.
Unwritten == {"idle", "start", "save"}

\* A directory that is not being written holds only what was left there.
LeftIsKnown ==
  \A w \in Workers : \A p \in Projects :
    pc[w] \in Unwritten \/ p # ProjectOf[job[w]] => Present(sandbox[p]) \subseteq left[p]

\* What download_files has already written is the job's.
DownloadInStep ==
  \A w \in Workers :
    pc[w] = "download" => \A p \in Paths \ todo[w] :
      \/ sandbox[ProjectOf[job[w]]][p] = source[job[w]][p]
      \/ source[job[w]][p] = Absent /\ p \in left[ProjectOf[job[w]]]

\* A PDF that is about to be stored is made from these files.
OutputsOwn ==
  \A w \in Workers :
    (pc[w] = "logs" /\ success[w]) \/ pc[w] = "pdf" => BuiltFrom(output[job[w]], job[w])

Builds == Structure /\ LeftIsKnown /\ DownloadInStep /\ OutputsOwn

---------------------------------------------------------------------------
(* The producer.                                                           *)

\* The files of a job are read once.
LEMMA SourcesStay ==
  ASSUME Structure, QueueNext
  PROVE  \A j \in Jobs : source[j] # NoTree => source'[j] = source[j]
BY DEF Structure, TypeOK, RequestsInStep, QueueNext, ApiRestart, CreateRow, Submit, ReadFiles,
       PublishConfirmed, PublishFailed

\* Steps of the backend and the queue leave the directories alone.
LEMMA QueueBuilds == Builds /\ QueueNext /\ UNCHANGED workerVars => Builds'
<1> SUFFICES ASSUME Builds, QueueNext, UNCHANGED workerVars PROVE Builds'
  OBVIOUS
<1>0. /\ Structure /\ Structure'
      /\ UNCHANGED <<pc, job, todo, success, sandbox, output, left>>
      /\ \A j \in Jobs : source[j] # NoTree => source'[j] = source[j]
  BY QueueStructure, SourcesStay DEF Builds, workerVars, threadVars, diskVars, bucketVars
<1>1. \A w \in Workers : pc[w] # "idle" => source'[job[w]] = source[job[w]]
  BY <1>0, BusyThread, NullsType DEF Busy
<1>2. LeftIsKnown'
  BY <1>0 DEF Builds, LeftIsKnown
<1>3. DownloadInStep'
  BY <1>0, <1>1 DEF Builds, DownloadInStep
<1>4. OutputsOwn'
  BY <1>0, <1>1 DEF Builds, OutputsOwn, BuiltFrom
<1>5. QED
  BY <1>0, <1>2, <1>3, <1>4 DEF Builds

---------------------------------------------------------------------------
(* The thread.                                                             *)

\* A step of the only thread, whatever fails in it.
LEMMA ThreadBuilds ==
  ASSUME OneThread, Builds, NEW w \in Workers, Work(w) \/ Raise(w) \/ LoseConnection(w)
  PROVE  Builds'
<1>0. /\ Structure /\ Structure' /\ TypeOK /\ TypeOK' /\ Workers = {w}
      /\ source' = source
      /\ pc[w] # "idle" => job[w] \in Jobs /\ ProjectOf[job[w]] \in Projects /\ source[job[w]] \in Trees
  BY ThreadStructure, ThreadRows, BusyThread, ProjectOfType
     DEF OneThread, Builds, Structure, requestVars, Busy
\* Steps that use no directory.
<1>1. ASSUME UNCHANGED <<sandbox, output, left, job>>,
             pc'[w] \in Unwritten => pc[w] \in Unwritten,
             pc'[w] = "download" => pc[w] = "download" /\ todo' = todo,
             (pc'[w] = "logs" /\ success'[w]) \/ pc'[w] = "pdf" =>
               (pc[w] = "logs" /\ success[w]) \/ pc[w] = "pdf"
      PROVE  Builds'
  <2>1. LeftIsKnown'
    BY <1>0, <1>1 DEF Builds, LeftIsKnown
  <2>2. DownloadInStep'
    BY <1>0, <1>1 DEF Builds, DownloadInStep
  <2>3. OutputsOwn'
    BY <1>0, <1>1 DEF Builds, OutputsOwn, BuiltFrom
  <2>4. QED
    BY <1>0, <2>1, <2>2, <2>3 DEF Builds
<1>2. CASE Deliver(w)
  <2>1. pc[w] = "idle" /\ pc'[w] = "start" /\ UNCHANGED <<sandbox, left>>
    BY <1>0, <1>2 DEF Deliver, Goto, diskVars, TypeOK
  <2>2. LeftIsKnown'
    BY <1>0, <2>1 DEF Builds, LeftIsKnown, Unwritten
  <2>3. QED
    BY <1>0, <2>1, <2>2 DEF Builds, DownloadInStep, OutputsOwn
<1>3. CASE SaveSource(w)
  <2>1. /\ pc[w] = "save" /\ pc'[w] = "download" /\ UNCHANGED <<sandbox, left, job>>
        /\ todo'[w] = Present(source[job[w]])
    BY <1>0, <1>3 DEF SaveSource, Goto, diskVars, TypeOK
  <2>2. LeftIsKnown'
    BY <1>0, <2>1 DEF Builds, LeftIsKnown, Unwritten
  <2>3. DownloadInStep'
    <3> SUFFICES ASSUME NEW p \in Paths, p \notin Present(source[job[w]])
                 PROVE  \/ sandbox[ProjectOf[job[w]]][p] = source[job[w]][p]
                        \/ source[job[w]][p] = Absent /\ p \in left[ProjectOf[job[w]]]
      BY <1>0, <2>1 DEF DownloadInStep
    <3>1. source[job[w]][p] = Absent
      BY DEF Present
    <3>2. Present(sandbox[ProjectOf[job[w]]]) \subseteq left[ProjectOf[job[w]]]
      BY <1>0, <2>1 DEF Builds, LeftIsKnown, Unwritten
    <3>3. QED
      BY <3>1, <3>2 DEF Present
  <2>4. QED
    BY <1>0, <2>1, <2>2, <2>3 DEF Builds, OutputsOwn
<1>4. CASE WriteFile(w)
  <2>1. PICK p \in todo[w] :
          /\ sandbox' = [sandbox EXCEPT ![ProjectOf[job[w]]][p] = source[job[w]][p]]
          /\ todo' = [todo EXCEPT ![w] = @ \ {p}]
    BY <1>4 DEF WriteFile
  <2>2. /\ pc[w] = "download" /\ UNCHANGED <<pc, job, left>>
        /\ job[w] \in Jobs /\ ProjectOf[job[w]] \in Projects
    BY <1>0, <1>4 DEF WriteFile
  <2>3. LeftIsKnown'
    BY <1>0, <2>1, <2>2 DEF Builds, LeftIsKnown, Unwritten, TypeOK
  <2>4. DownloadInStep'
    BY <1>0, <2>1, <2>2 DEF Builds, DownloadInStep, TypeOK, Trees
  <2>5. QED
    BY <1>0, <2>2, <2>3, <2>4 DEF Builds, OutputsOwn
<1>5. CASE Compile(w)
  <2>1. /\ pc[w] = "download" /\ todo[w] = {} /\ pc'[w] = "logs"
        /\ UNCHANGED <<sandbox, left, job>>
        /\ success'[w] => output'[job[w]] = sandbox[ProjectOf[job[w]]]
    BY <1>0, <1>5 DEF Compile, Goto, TypeOK
  <2>2. LeftIsKnown'
    BY <1>0, <2>1 DEF Builds, LeftIsKnown, Unwritten
  <2>3. BuiltFrom(sandbox[ProjectOf[job[w]]], job[w])
    BY <2>1 DEF Builds, DownloadInStep, BuiltFrom
  <2>4. OutputsOwn'
    BY <1>0, <2>1, <2>3 DEF OutputsOwn, BuiltFrom
  <2>5. QED
    BY <1>0, <2>1, <2>2, <2>4 DEF Builds, DownloadInStep
\* Steps that leave the directory of the thread's job, with what is left in it.
<1>6. ASSUME pc'[w] = "idle", pc[w] # "idle", NEW dir,
             sandbox' = [sandbox EXCEPT ![ProjectOf[job[w]]] = dir],
             left' = [left EXCEPT ![ProjectOf[job[w]]] = Present(dir)]
      PROVE  Builds'
  <2>1. LeftIsKnown'
    <3> SUFFICES ASSUME NEW p \in Projects PROVE Present(sandbox'[p]) \subseteq left'[p]
      BY <1>0 DEF LeftIsKnown, Present
    <3>1. p # ProjectOf[job[w]] => Present(sandbox[p]) \subseteq left[p]
      BY DEF Builds, LeftIsKnown
    <3>2. QED
      BY <1>0, <1>6, <3>1 DEF TypeOK
  <2>2. QED
    BY <1>0, <1>6, <2>1 DEF Builds, DownloadInStep, OutputsOwn
<1>7. CASE Cleanup(w)
  <2>1. PICK kept \in SUBSET Present(sandbox[ProjectOf[job[w]]]) :
          /\ sandbox' = [sandbox EXCEPT ![ProjectOf[job[w]]] =
                           Emptied(sandbox[ProjectOf[job[w]]], kept)]
          /\ Return(w, Emptied(sandbox[ProjectOf[job[w]]], kept))
    BY <1>7 DEF Cleanup
  <2>2. pc[w] = "cleanup" /\ pc'[w] = "idle"
    BY <1>0, <1>7, <2>1 DEF Cleanup, Return, Goto, TypeOK
  <2>3. left' = [left EXCEPT ![ProjectOf[job[w]]] =
                   Present(Emptied(sandbox[ProjectOf[job[w]]], kept))]
    BY <2>1 DEF Return
  <2>4. QED
    BY <1>6, <2>1, <2>2, <2>3
<1>8. CASE Nack(w) /\ ~open[w]
  <2>1. /\ pc[w] = "nack" /\ pc'[w] = "idle" /\ sandbox' = sandbox
        /\ left' = [left EXCEPT ![ProjectOf[job[w]]] = Present(sandbox[ProjectOf[job[w]]])]
    BY <1>0, <1>8 DEF Nack, Return, Goto, TypeOK
  <2>2. sandbox' = [sandbox EXCEPT ![ProjectOf[job[w]]] = sandbox[ProjectOf[job[w]]]]
    BY <1>0, <2>1 DEF TypeOK
  <2>3. QED
    BY <1>6, <2>1, <2>2
<1>9. CASE SetRunning(w) \/ UploadLogs(w) \/ UploadPdf(w) \/ UploadSynctex(w)
  BY <1>0, <1>1, <1>9
     DEF SetRunning, UploadLogs, UploadPdf, UploadSynctex, Goto, Unwritten, TypeOK, diskVars
<1>10. CASE Record(w) \/ RecordError(w) \/ Raise(w)
  <2>1. /\ UNCHANGED <<sandbox, output, left, job>>
        /\ pc' \in {[pc EXCEPT ![w] = l] : l \in {"ack", "nack", "except"}}
    BY <1>10 DEF Record, RecordError, Raise, Goto, diskVars
  <2>2. QED
    BY <1>0, <1>1, <2>1 DEF Unwritten, TypeOK
<1>11. CASE Ack(w) \/ (Nack(w) /\ open[w])
  <2>1. /\ UNCHANGED <<sandbox, output, left, job>>
        /\ pc' \in {[pc EXCEPT ![w] = l] : l \in {"cleanup", "except"}}
    BY <1>11 DEF Ack, Nack, Goto, diskVars
  <2>2. QED
    BY <1>0, <1>1, <2>1 DEF Unwritten, TypeOK
<1>12. CASE Reconnect(w) \/ LoseConnection(w)
  BY <1>1, <1>12 DEF Reconnect, LoseConnection, diskVars
<1>13. QED
  BY <1>2, <1>3, <1>4, <1>5, <1>7, <1>8, <1>9, <1>10, <1>11, <1>12 DEF Work

\* With one consumer thread every PDF that is stored is made from the files of its
\* job, each as the job has it, and of nothing else but what an earlier job, a lost
\* channel or a crash left in the directory. (callback and cleanup_job.)
THEOREM OneThreadBuildsItsJob == ASSUME OneThread PROVE Spec => OwnBuild
<1>1. Init => Builds
  <2> SUFFICES ASSUME Init PROVE Builds
    OBVIOUS
  <2>1. Structure
    BY InitStructure
  <2>2. LeftIsKnown /\ DownloadInStep /\ OutputsOwn
    BY DEF Init, WorkerInit, LeftIsKnown, DownloadInStep, OutputsOwn, Present, EmptyDir
  <2>3. QED
    BY <2>1, <2>2 DEF Builds
<1>2. Builds /\ [Next]_vars => Builds'
  <2> SUFFICES ASSUME Builds, [Next]_vars PROVE Builds'
    OBVIOUS
  <2>1. CASE QueueNext /\ UNCHANGED workerVars
    BY <2>1, QueueBuilds
  <2>2. CASE Crash
    <3>1. Structure' /\ (\A w \in Workers : pc'[w] = "idle")
          /\ left' = [p \in Projects |-> Present(sandbox'[p])]
      BY <2>2, CrashStructure DEF Builds, Crash
    <3>2. \A p \in Projects : left'[p] = Present(sandbox'[p])
      BY <3>1
    <3>3. LeftIsKnown'
      BY <3>2 DEF LeftIsKnown, Present
    <3>4. QED
      BY <3>1, <3>3 DEF Builds, DownloadInStep, OutputsOwn
  <2>3. ASSUME NEW w \in Workers, Work(w) \/ Raise(w) \/ LoseConnection(w) PROVE Builds'
    BY <2>3, ThreadBuilds
  <2>4. CASE UNCHANGED vars
    BY <2>4 DEF vars, queueVars, workerVars, threadVars, diskVars, bucketVars, Builds, Structure,
                TypeOK, RequestsInStep, MessagesHaveFiles, ThreadsHaveMessages, Busy,
                LeftIsKnown, DownloadInStep, OutputsOwn, BuiltFrom
  <2>5. QED
    BY <2>1, <2>2, <2>3, <2>4 DEF Next, WorkerNext
<1>3. Builds /\ [Next]_vars => [\A j \in Jobs : pdf'[j] # pdf[j] => BuiltFrom(pdf'[j], j)]_vars
  <2> SUFFICES ASSUME Builds, Next, NEW j \in Jobs, pdf'[j] # pdf[j]
               PROVE  BuiltFrom(pdf'[j], j)
    OBVIOUS
  <2>1. PICK w \in Workers : UploadPdf(w)
    BY DEF Next, WorkerNext, Crash, Work, Deliver, SetRunning, SaveSource, WriteFile, Compile,
           UploadLogs, UploadSynctex, Record, Ack, RecordError, Nack, Cleanup, Reconnect, Raise,
           LoseConnection, workerVars, bucketVars
  <2>2. pc[w] = "pdf" /\ pdf \in [Jobs -> Trees \cup {NoTree}]
    BY <2>1 DEF UploadPdf, Builds, Structure, TypeOK
  <2>3. j = job[w] /\ pdf'[j] = output[job[w]]
    BY <2>1, <2>2 DEF UploadPdf
  <2>4. QED
    BY <2>2, <2>3 DEF Builds, OutputsOwn
<1>4. QED
  BY <1>1, <1>2, <1>3, PTL DEF Spec, OwnBuild

---------------------------------------------------------------------------
(***************************************************************************)
(* The pipeline implements the life cycle of a row, for any jobs, threads, *)
(* messages and faults.                                                    *)
(*                                                                         *)
(* The argument: when nothing redelivers, a job has one message, and one   *)
(* thread handles it once; so the row is unfinished from the moment the    *)
(* message is published until that thread records the result. When         *)
(* something does, the life cycle lets a finished job run again, and what  *)
(* remains to show is that a row is there and names only what is stored.   *)
(***************************************************************************)

\* A job has one message, published by the request that is answered then.
OneMessage ==
  /\ \A m, n \in Msgs : payload[m] = payload[n] /\ payload[m] # NoJob => m = n
  /\ \A m \in Msgs : payload[m] # NoJob => request[payload[m]] = "accepted"

\* A job is unfinished while it is being published, waits, or is worked on.
UnfinishedUntilRecorded ==
  /\ \A j \in Jobs : request[j] = "publishing" => status[j] \in Unfinished
  /\ \A m \in Msgs : queue[m] = "ready" => status[payload[m]] \in Unfinished
  /\ \A w \in Workers : pc[w] \in BeforeResult => status[job[w]] \in Unfinished

Once ==
  /\ Delivery /\ ChannelsStayOpen
  /\ OneMessage /\ UnfinishedUntilRecorded

---------------------------------------------------------------------------
(* Without redelivery every job is executed once.                          *)

\* Steps of the backend and the queue publish a job once.
LEMMA QueueOnce == ~Redelivers /\ Once /\ QueueNext /\ UNCHANGED workerVars => Once'
<1> SUFFICES ASSUME ~Redelivers, Once, QueueNext, UNCHANGED workerVars PROVE Once'
  OBVIOUS
<1>0. /\ Structure /\ TypeOK /\ Delivery' /\ UNCHANGED <<pc, open, tag, job>>
  BY QueueDelivery DEF Once, Delivery, Structure, workerVars, threadVars
<1>1. ChannelsStayOpen'
  BY <1>0 DEF Once, ChannelsStayOpen, Busy
<1>2. \A w \in Workers : pc[w] \in BeforeResult => job[w] \in Jobs /\ request[job[w]] \notin {"none", "created"}
  BY <1>0, BusyThread, NullsType DEF Structure, RequestsInStep, Busy, BeforeResult
<1>3. CASE ApiRestart
  <2>1. \A i \in Jobs : \/ request'[i] = request[i]
                        \/ request[i] \in {"created", "publishing"} /\ request'[i] = "aborted"
    BY <1>0, <1>3 DEF ApiRestart
  <2>2. UNCHANGED <<status, queue, payload>>
    BY <1>3 DEF ApiRestart
  <2>3. \A m \in Msgs : payload[m] # NoJob => payload[m] \in Jobs
    BY <1>0 DEF TypeOK
  <2>4. OneMessage'
    BY <2>1, <2>2, <2>3 DEF Once, OneMessage
  <2>5. UnfinishedUntilRecorded'
    BY <1>0, <2>1, <2>2 DEF Once, UnfinishedUntilRecorded
  <2>6. QED
    BY <1>0, <1>1, <2>4, <2>5 DEF Once
<1>4. ASSUME NEW j \in Jobs, CreateRow(j) PROVE Once'
  <2>1. \A m \in Msgs : payload[m] # j
    BY <1>4, NullsType DEF CreateRow, Once, OneMessage
  <2>2. \A i \in Jobs : status'[i] = IF i = j THEN "PENDING" ELSE status[i]
    BY <1>0, <1>4 DEF CreateRow, TypeOK
  <2>3. \A i \in Jobs : request'[i] = IF i = j THEN "created" ELSE request[i]
    BY <1>0, <1>4 DEF CreateRow, TypeOK
  <2>4. OneMessage'
    BY <1>0, <1>4, <2>1, <2>3 DEF CreateRow, Once, OneMessage, TypeOK
  <2>5. UnfinishedUntilRecorded'
    BY <1>0, <1>2, <1>4, <2>1, <2>2, <2>3 DEF CreateRow, Once, UnfinishedUntilRecorded, Structure,
       MessagesHaveFiles, Unfinished
  <2>6. QED
    BY <1>0, <1>1, <2>4, <2>5 DEF Once
<1>5. ASSUME NEW j \in Jobs, ReadFiles(j) PROVE Once'
  <2>1. \A i \in Jobs : request'[i] = IF i = j THEN "publishing" ELSE request[i]
    BY <1>0, <1>5 DEF ReadFiles, TypeOK
  <2>2. UNCHANGED <<status, queue, payload>> /\ request[j] = "created" /\ status[j] = "PENDING"
    BY <1>0, <1>5 DEF ReadFiles, Structure, RequestsInStep
  <2>3. OneMessage'
    BY <1>0, <2>1, <2>2 DEF Once, OneMessage, TypeOK
  <2>4. UnfinishedUntilRecorded'
    BY <1>0, <2>1, <2>2 DEF Once, UnfinishedUntilRecorded, Unfinished
  <2>5. QED
    BY <1>0, <1>1, <2>3, <2>4 DEF Once
<1>6. ASSUME NEW j \in Jobs, PublishConfirmed(j) PROVE Once'
  <2>1. PICK n \in Msgs :
          /\ queue[n] = "unpublished"
          /\ \A m \in Msgs : /\ queue'[m] = IF m = n THEN "ready" ELSE queue[m]
                            /\ payload'[m] = IF m = n THEN j ELSE payload[m]
    BY <1>0, <1>6, EnqueueFresh DEF PublishConfirmed
  <2>2. /\ \A i \in Jobs : request'[i] = IF i = j THEN "accepted" ELSE request[i]
        /\ UNCHANGED status /\ request[j] = "publishing"
    BY <1>0, <1>6 DEF PublishConfirmed, TypeOK
  <2>3. OneMessage'
    BY <1>0, <2>1, <2>2 DEF Once, OneMessage, TypeOK
  <2>4. UnfinishedUntilRecorded'
    BY <1>0, <2>1, <2>2 DEF Once, UnfinishedUntilRecorded
  <2>5. QED
    BY <1>0, <1>1, <2>3, <2>4 DEF Once
<1>7. ASSUME NEW j \in Jobs, PublishFailed(j) PROVE FALSE
  BY <1>7 DEF PublishFailed, Fault, Redelivers
<1>8. QED
  BY <1>3, <1>4, <1>5, <1>6, <1>7 DEF QueueNext, Submit

\* Steps of a thread finish it once.
LEMMA ThreadOnce ==
  ASSUME ~Redelivers, Once, NEW w \in Workers, Work(w) \/ Raise(w) \/ LoseConnection(w)
  PROVE  Once'
<1>0. /\ Structure /\ TypeOK /\ TypeOK' /\ Delivery' /\ UNCHANGED <<request, source, payload>>
      /\ "conn" \notin Faults /\ ~LoseConnection(w)
  BY ThreadDelivery, ThreadRows
     DEF Once, Delivery, Structure, requestVars, Redelivers, LoseConnection, Fault
<1>1. ChannelsStayOpen'
  BY <1>0, OtherThreads, OwnChannelOpen DEF Once, ChannelsStayOpen, Busy
<1>2. OneMessage'
  BY <1>0 DEF Once, OneMessage
\* A row that is written is that of a message the thread holds, and of no other.
<1>3. \A v \in Workers : pc[v] \in BeforeResult =>
        /\ Holds(v) /\ tag[v] \in Msgs /\ job[v] = payload[tag[v]] /\ job[v] \in Jobs
        /\ queue[tag[v]] = "unacked"
  BY <1>0, BusyThread DEF Once, Delivery, ChannelsStayOpen, ChannelsHold, Holds, Busy, BeforeResult,
     Structure, ThreadsHaveMessages
<1>4. \A v \in Workers \ {w} :
        pc[v] \in BeforeResult /\ pc[w] \in BeforeResult => job[v] # job[w]
  BY <1>0, <1>3, NullsType DEF Once, OneMessage, Delivery, ChannelsHold
<1>5. \A m \in Msgs : queue[m] = "ready" /\ pc[w] \in BeforeResult => payload[m] # job[w]
  BY <1>0, <1>3, NullsType DEF Once, OneMessage
<1>6. \A j \in Jobs : request[j] = "publishing" /\ pc[w] \in BeforeResult => j # job[w]
  BY <1>0, <1>3, NullsType DEF Once, OneMessage
<1>7. /\ \A j \in Jobs : j # job[w] => status'[j] = status[j]
      /\ pc[w] \notin BeforeResult => UNCHANGED status
  <2>1. CASE SetRunning(w) \/ Record(w) \/ RecordError(w)
    <3>1. pc[w] \in BeforeResult
      BY <2>1 DEF SetRunning, Record, RecordError, BeforeResult
    <3>2. QED
      BY <3>1, ThreadRows, <1>0
  <2>2. CASE ~(SetRunning(w) \/ Record(w) \/ RecordError(w))
    BY <1>0, <2>2 DEF Work, Deliver, SaveSource, WriteFile, Compile, UploadLogs, UploadPdf,
       UploadSynctex, Ack, Nack, Cleanup, Reconnect, Raise, rowVars
  <2>3. QED
    BY <2>1, <2>2
<1>8. ASSUME NEW j \in Jobs, request'[j] = "publishing" PROVE status'[j] \in Unfinished
  BY <1>0, <1>6, <1>7, <1>8 DEF Once, UnfinishedUntilRecorded, TypeOK
<1>9. ASSUME NEW m \in Msgs, queue'[m] = "ready" PROVE status'[payload'[m]] \in Unfinished
  <2>1. queue[m] = "ready"
    BY <1>0, <1>9, ThreadMessages
  <2>2. payload[m] \in Jobs
    BY <1>0, <2>1 DEF Structure, MessagesHaveFiles
  <2>3. QED
    BY <1>0, <1>5, <1>7, <2>1, <2>2 DEF Once, UnfinishedUntilRecorded
<1>10. ASSUME NEW v \in Workers \ {w}, pc'[v] \in BeforeResult PROVE status'[job'[v]] \in Unfinished
  <2>1. pc[v] \in BeforeResult /\ job'[v] = job[v]
    BY <1>0, <1>10, OtherThreads
  <2>2. QED
    BY <1>3, <1>4, <1>7, <2>1 DEF Once, UnfinishedUntilRecorded
<1>11. ASSUME pc'[w] \in BeforeResult PROVE status'[job'[w]] \in Unfinished
  <2>1. CASE Deliver(w)
    <3>1. PICK m \in Msgs : queue[m] = "ready" /\ job' = [job EXCEPT ![w] = payload[m]]
      BY <2>1 DEF Deliver, IsNext
    <3>2. job'[w] = payload[m] /\ UNCHANGED status
      BY <1>0, <2>1, <3>1 DEF Deliver, TypeOK, rowVars
    <3>3. QED
      BY <3>1, <3>2 DEF Once, UnfinishedUntilRecorded
  <2>2. CASE SetRunning(w)
    BY <1>0, <1>3, <2>2 DEF SetRunning, Once, UnfinishedUntilRecorded, TypeOK, Unfinished, BeforeResult
  <2>3. CASE SaveSource(w) \/ WriteFile(w) \/ Compile(w) \/ UploadLogs(w) \/ UploadPdf(w)
             \/ UploadSynctex(w) \/ Raise(w)
    <3>1. pc[w] \in BeforeResult /\ UNCHANGED <<job, status>>
      BY <2>3 DEF SaveSource, WriteFile, Compile, UploadLogs, UploadPdf, UploadSynctex, Raise,
         BeforeResult, rowVars
    <3>2. QED
      BY <3>1 DEF Once, UnfinishedUntilRecorded
  <2>4. CASE Record(w)
    BY <1>0, <1>11, <2>4 DEF Record, Goto, BeforeResult, TypeOK
  <2>5. CASE RecordError(w)
    BY <1>0, <1>11, <2>5 DEF RecordError, Goto, BeforeResult, TypeOK
  <2>6. CASE Ack(w)
    <3>1. open[w]
      BY <1>0, <2>6 DEF Ack, Once, ChannelsStayOpen, Busy
    <3>2. QED
      BY <1>0, <1>11, <2>6, <3>1 DEF Ack, Goto, BeforeResult, TypeOK
  <2>7. CASE Nack(w) \/ Cleanup(w)
    BY <1>0, <1>11, <2>7 DEF Nack, Cleanup, Return, Goto, BeforeResult, TypeOK
  <2>8. CASE Reconnect(w)
    BY <1>0, <1>11, <2>8 DEF Reconnect, BeforeResult
  <2>9. QED
    BY <1>0, <2>1, <2>2, <2>3, <2>4, <2>5, <2>6, <2>7, <2>8 DEF Work
<1>12. UnfinishedUntilRecorded'
  BY <1>8, <1>9, <1>10, <1>11 DEF UnfinishedUntilRecorded
<1>13. QED
  BY <1>0, <1>1, <1>2, <1>12 DEF Once

\* Without redelivery a job has one message and one result.
LEMMA OnceHolds == ASSUME ~Redelivers PROVE Spec => []Once
<1>1. Init => Once
  <2> SUFFICES ASSUME Init PROVE Once
    OBVIOUS
  <2>1. ChannelsStayOpen
    BY DEF Init, WorkerInit, ChannelsStayOpen, Busy
  <2>2. OneMessage /\ UnfinishedUntilRecorded
    BY NullsType DEF Init, QueueInit, WorkerInit, OneMessage, UnfinishedUntilRecorded, BeforeResult
  <2>3. QED
    BY <2>1, <2>2, InitDelivery DEF Once
<1>2. Once /\ [Next]_vars => Once'
  <2> SUFFICES ASSUME Once, [Next]_vars PROVE Once'
    OBVIOUS
  <2>1. CASE QueueNext /\ UNCHANGED workerVars
    BY <2>1, QueueOnce
  <2>2. CASE Crash
    BY <2>2 DEF Crash, Fault, Redelivers
  <2>3. ASSUME NEW w \in Workers, Work(w) \/ Raise(w) \/ LoseConnection(w) PROVE Once'
    BY <2>3, ThreadOnce
  <2>4. CASE UNCHANGED vars
    BY <2>4 DEF vars, queueVars, workerVars, threadVars, diskVars, bucketVars, Once,
                Delivery, Structure, TypeOK, RequestsInStep, MessagesHaveFiles,
                ThreadsHaveMessages, Busy, ChannelsHold, UnackedHeld, Holds,
                ChannelsStayOpen, OneMessage, UnfinishedUntilRecorded
  <2>5. QED
    BY <2>1, <2>2, <2>3, <2>4 DEF Next, WorkerNext
<1>3. QED
  BY <1>1, <1>2, PTL DEF Spec

---------------------------------------------------------------------------
(* Every step is a step of the life cycle, or leaves it as it is.          *)

\* A job whose files are known and whose thread has not recorded a result yet
\* may be executed.
LEMMA BusyMayExecute ==
  ASSUME Structure, ~Redelivers => Once, NEW w \in Workers, pc[w] \in BeforeResult
  PROVE  Lifecycle!MayExecute(job[w])
<1>1. CASE ~Redelivers
  BY <1>1 DEF Once, UnfinishedUntilRecorded, Lifecycle!MayExecute, Lifecycle!Unfinished, Unfinished
<1>2. CASE Redelivers
  <2>1. job[w] \in Jobs /\ source[job[w]] # NoTree
    BY BusyThread, NullsType DEF Busy, BeforeResult
  <2>2. status[job[w]] \in Unfinished \cup Finished
    BY <2>1 DEF Structure, RequestsInStep, TypeOK
  <2>3. QED
    BY <1>2, <2>2 DEF Lifecycle!MayExecute, Lifecycle!Unfinished, Lifecycle!Finished, Unfinished, Finished
<1>3. QED
  BY <1>1, <1>2

Pdfs == {j \in Jobs : pdf[j] # NoTree}

\* The steps of the producer: a row, then its files.
LEMMA QueueRefines ==
  ASSUME Structure, QueueNext, UNCHANGED workerVars
  PROVE  [Lifecycle!LifecycleNext]_(Lifecycle!lifecycleVars)
<1>0. TypeOK /\ UNCHANGED <<logs, pdf>>
  BY DEF Structure, workerVars, bucketVars
<1>1. Pdfs' = Pdfs
  BY <1>0 DEF Pdfs
<1>2. ASSUME NEW j \in Jobs, CreateRow(j) PROVE Lifecycle!Create(j)
  BY <1>0, <1>1, <1>2 DEF CreateRow, Structure, RequestsInStep, Lifecycle!Create, Pdfs
<1>3. ASSUME NEW j \in Jobs, ReadFiles(j) PROVE Lifecycle!Capture(j)
  <2>1. PICK tree \in Trees : source' = [source EXCEPT ![j] = tree]
    BY <1>3, CapturedType, ContentsType DEF ReadFiles
  <2>2. status[j] = "PENDING" /\ source[j] = NoTree
    BY <1>3 DEF ReadFiles, Structure, RequestsInStep
  <2>3. QED
    BY <1>0, <1>1, <1>3, <2>1, <2>2 DEF ReadFiles, Lifecycle!Capture, Pdfs
<1>4. CASE ApiRestart \/ \E j \in Jobs : PublishConfirmed(j) \/ PublishFailed(j)
  BY <1>0, <1>1, <1>4 DEF ApiRestart, PublishConfirmed, PublishFailed, Lifecycle!lifecycleVars, Pdfs
<1>5. QED
  BY <1>2, <1>3, <1>4 DEF QueueNext, Submit, Lifecycle!LifecycleNext

\* A result that is recorded names what is stored.
LEMMA UpdateRefines ==
  ASSUME Structure, NEW j \in Jobs, source[j] # NoTree, Lifecycle!MayExecute(j),
         NEW ok \in BOOLEAN, NEW haslogs \in BOOLEAN, UpdateJobStatus(j, ok, haslogs),
         ok => pdf[j] # NoTree, haslogs => j \in logs, UNCHANGED <<source, logs, pdf>>
  PROVE  \/ Lifecycle!Complete(j) \/ Lifecycle!Fail(j)
         \/ UNCHANGED Lifecycle!lifecycleVars
<1>1. Pdfs' = Pdfs
  BY DEF Pdfs
<1>2. CASE UNCHANGED rowVars
  BY <1>1, <1>2 DEF rowVars, Lifecycle!lifecycleVars, Pdfs
<1>3. CASE /\ status' = [status EXCEPT ![j] = IF ok THEN "COMPLETED" ELSE "FAILED"]
           /\ result' = [result EXCEPT ![j] =
                           [artifact |-> ok, logs |-> haslogs,
                            hash |-> IF ok THEN source[j] ELSE NoTree]]
  <2>1. CASE ok
    BY <1>1, <1>3, <2>1 DEF Lifecycle!Complete, Pdfs
  <2>2. CASE ~ok
    BY <1>1, <1>3, <2>2 DEF Lifecycle!Fail, Pdfs
  <2>3. QED
    BY <2>1, <2>2
<1>4. QED
  BY <1>2, <1>3 DEF UpdateJobStatus

\* The steps of a thread: started, objects stored, finished.
LEMMA ThreadRefines ==
  ASSUME Storage, ~Redelivers => Once, NEW w \in Workers, Work(w) \/ Raise(w) \/ LoseConnection(w)
  PROVE  [Lifecycle!LifecycleNext]_(Lifecycle!lifecycleVars)
<1>0. /\ Structure /\ TypeOK /\ UNCHANGED <<request, source>>
      /\ pc[w] # "idle" => job[w] \in Jobs /\ source[job[w]] # NoTree
      /\ pc[w] \in BeforeResult => Lifecycle!MayExecute(job[w])
  BY ThreadRows, BusyThread, NullsType, BusyMayExecute DEF Storage, Structure, requestVars, Busy
<1>1. CASE SetRunning(w)
  <2>1. pc[w] \in BeforeResult /\ pc[w] # "idle"
    BY <1>1 DEF SetRunning, BeforeResult
  <2>2. Pdfs' = Pdfs
    BY <1>1 DEF SetRunning, bucketVars, Pdfs
  <2>3. Lifecycle!Start(job[w]) \/ UNCHANGED Lifecycle!lifecycleVars
    BY <1>0, <1>1, <2>1, <2>2 DEF SetRunning, Lifecycle!Start, Lifecycle!lifecycleVars, bucketVars, Pdfs
  <2>4. QED
    BY <1>0, <2>1, <2>3 DEF Lifecycle!LifecycleNext
<1>2. CASE UploadLogs(w)
  <2>1. pc[w] \in BeforeResult /\ pc[w] # "idle"
    BY <1>2 DEF UploadLogs, BeforeResult
  <2>2. Pdfs' = Pdfs
    BY <1>2 DEF UploadLogs, Pdfs
  <2>3. Lifecycle!StoreLog(job[w]) \/ UNCHANGED Lifecycle!lifecycleVars
    BY <1>0, <1>2, <2>1, <2>2 DEF UploadLogs, Lifecycle!StoreLog, Lifecycle!lifecycleVars, rowVars, Pdfs
  <2>4. QED
    BY <1>0, <2>1, <2>3 DEF Lifecycle!LifecycleNext
<1>3. CASE UploadPdf(w)
  <2>1. pc[w] \in BeforeResult /\ pc[w] # "idle"
    BY <1>3 DEF UploadPdf, BeforeResult
  <2>2. Pdfs' = Pdfs \cup {job[w]} \/ (pdf' = pdf /\ Pdfs' = Pdfs)
    BY <1>0, <1>3, <2>1 DEF UploadPdf, Pdfs, TypeOK
  <2>3. Lifecycle!StorePdf(job[w]) \/ UNCHANGED Lifecycle!lifecycleVars
    BY <1>0, <1>3, <2>1, <2>2 DEF UploadPdf, Lifecycle!StorePdf, Lifecycle!lifecycleVars, rowVars, Pdfs
  <2>4. Lifecycle!StorePdf(job[w]) => Lifecycle!LifecycleNext
    BY <1>0, <2>1 DEF Lifecycle!LifecycleNext, Lifecycle!StorePdf
  <2>5. QED
    BY <2>3, <2>4
<1>4. CASE Record(w)
  <2>1. /\ pc[w] \in BeforeResult /\ pc[w] # "idle" /\ UNCHANGED <<logs, pdf>>
        /\ UpdateJobStatus(job[w], success[w], logged[w])
    BY <1>4 DEF Record, BeforeResult, bucketVars
  <2>2. /\ success[w] \in BOOLEAN /\ logged[w] \in BOOLEAN
        /\ success[w] => pdf[job[w]] # NoTree
        /\ logged[w] => job[w] \in logs
    BY <1>0, <1>4 DEF Record, TypeOK, Storage, ResultsStored
  <2>3. \/ Lifecycle!Complete(job[w]) \/ Lifecycle!Fail(job[w])
        \/ UNCHANGED Lifecycle!lifecycleVars
    BY <1>0, <2>1, <2>2, UpdateRefines
  <2>4. QED
    BY <1>0, <2>1, <2>3 DEF Lifecycle!LifecycleNext
<1>5. CASE RecordError(w)
  <2>1. /\ pc[w] \in BeforeResult /\ pc[w] # "idle" /\ UNCHANGED <<logs, pdf>>
        /\ UpdateJobStatus(job[w], FALSE, FALSE)
    BY <1>5 DEF RecordError, BeforeResult, bucketVars
  <2>2. \/ Lifecycle!Complete(job[w]) \/ Lifecycle!Fail(job[w])
        \/ UNCHANGED Lifecycle!lifecycleVars
    BY <1>0, <2>1, UpdateRefines
  <2>3. QED
    BY <1>0, <2>1, <2>2 DEF Lifecycle!LifecycleNext
<1>6. CASE \/ Deliver(w) \/ SaveSource(w) \/ WriteFile(w) \/ Compile(w) \/ UploadSynctex(w)
           \/ Ack(w) \/ Nack(w) \/ Cleanup(w) \/ Reconnect(w) \/ Raise(w) \/ LoseConnection(w)
  <2>1. UNCHANGED <<status, result, logs, pdf>>
    BY <1>6 DEF Deliver, SaveSource, WriteFile, Compile, UploadSynctex, Ack, Nack, Cleanup, Reconnect,
       Raise, LoseConnection, rowVars, bucketVars
  <2>2. QED
    BY <1>0, <2>1 DEF Lifecycle!lifecycleVars
<1>7. QED
  BY <1>1, <1>2, <1>3, <1>4, <1>5, <1>6 DEF Work

\* The API, the broker and the threads together do to a row and its objects what
\* its life cycle allows: created, started, finished, and finished for good unless
\* messages can be delivered twice. (create_compile_job, publish_message, callback.)
THEOREM PipelineImplementsLifecycle == Spec => ImplementsLifecycle
<1>1. Init => Lifecycle!LifecycleInit
  BY DEF Init, QueueInit, WorkerInit, Lifecycle!LifecycleInit, NoResult, Lifecycle!NoResult
<1>2. Storage /\ (~Redelivers => Once) /\ [Next]_vars => [Lifecycle!LifecycleNext]_(Lifecycle!lifecycleVars)
  <2> SUFFICES ASSUME Storage, ~Redelivers => Once, [Next]_vars
               PROVE [Lifecycle!LifecycleNext]_(Lifecycle!lifecycleVars)
    OBVIOUS
  <2>1. CASE QueueNext /\ UNCHANGED workerVars
    BY <2>1, QueueRefines DEF Storage
  <2>2. CASE Crash
    BY <2>2 DEF Crash, rowVars, requestVars, bucketVars, Lifecycle!lifecycleVars
  <2>3. ASSUME NEW w \in Workers, Work(w) \/ Raise(w) \/ LoseConnection(w)
        PROVE [Lifecycle!LifecycleNext]_(Lifecycle!lifecycleVars)
    BY <2>3, ThreadRefines
  <2>4. CASE UNCHANGED vars
    BY <2>4 DEF vars, queueVars, workerVars, bucketVars, Lifecycle!lifecycleVars
  <2>5. QED
    BY <2>1, <2>2, <2>3, <2>4 DEF Next, WorkerNext
<1>3. Spec => [](~Redelivers => Once)
  <2>1. CASE Redelivers
    BY <2>1, PTL
  <2>2. CASE ~Redelivers
    BY <2>2, OnceHolds, PTL
  <2>3. QED
    BY <2>1, <2>2
<1>4. QED
  BY <1>1, <1>2, <1>3, StorageHolds, PTL DEF Spec, ImplementsLifecycle, Lifecycle!LifecycleSpec
=============================================================================
