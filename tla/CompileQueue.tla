---------------------------- MODULE CompileQueue ----------------------------
(***************************************************************************)
(* The producer side of a compilation: the API handler create_compile_job  *)
(* (backend/app/api/v1/compile.py), the publisher it calls                 *)
(* (backend/app/services/rabbitmq_service.py) and the queue compile_jobs   *)
(* of RabbitMQ, as the publisher and the workers use it.                   *)
(***************************************************************************)
EXTENDS Naturals

CONSTANTS
  Jobs,         \* ids of compile jobs, one per POST /compile/jobs
  Projects,     \* ids of projects
  ProjectOf,    \* the project each job is created for
  Paths,        \* paths of project files
  Contents,     \* contents of project files
  Undecodable,  \* the contents that are not UTF-8 (images, fonts)
  Blank,        \* the content ""
  Absent,       \* no file at this path
  Saved,        \* file trees a project may hold when a job is created
  NoTree, NoJob, NoMsg,
  Msgs,         \* message numbers, in the order of publication
  MAX_RETRIES,  \* publish attempts of publish_message
  Faults,       \* the kinds of fault that may happen
  MaxFaults     \* bound on the faults of one behaviour

\* A file tree maps each path to what the file holds, or to Absent.
Trees == [Paths -> Contents \cup {Blank, Absent}]
EmptyDir == [p \in Paths |-> Absent]

FaultKinds == {"api", "fetch", "publish", "db", "store", "io", "rm", "conn", "crash"}

ASSUME ProjectOfType == ProjectOf \in [Jobs -> Projects]
ASSUME ContentsType == /\ Undecodable \subseteq Contents
                       /\ Absent \notin Contents \cup {Blank}
                       /\ Saved \subseteq Trees
ASSUME NullsType == NoTree \notin Trees /\ NoJob \notin Jobs /\ NoMsg \notin Msgs
ASSUME BoundsType == /\ Msgs \subseteq Nat
                     /\ MAX_RETRIES \in Nat \ {0}
                     /\ MaxFaults \in Nat
ASSUME FaultsType == Faults \subseteq FaultKinds

VARIABLES
  status,   \* column status of compile_jobs, "none" where there is no row
  result,   \* the columns of compile_jobs that update_job_status writes
  request,  \* how far the handler of each POST /compile/jobs has got
  tries,    \* failed publish attempts of that handler
  source,   \* the files of the job's message, NoTree until they are read
  queue,    \* the broker's state of each message
  payload,  \* the job each published message is for
  faults    \* faults so far, at most MaxFaults

queueVars == <<status, result, request, tries, source, queue, payload, faults>>

Unfinished == {"PENDING", "RUNNING"}
Finished == {"COMPLETED", "FAILED"}

\* artifact_ref and logs_ref are fixed names, so only their presence matters;
\* artifact_hash is a hash of the tree, injective but for hash collisions.
Result == [artifact : BOOLEAN, logs : BOOLEAN, hash : Trees \cup {NoTree}]

NoResult == [artifact |-> FALSE, logs |-> FALSE, hash |-> NoTree]

QueueInit ==
  /\ status = [j \in Jobs |-> "none"]
  /\ result = [j \in Jobs |-> NoResult]
  /\ request = [j \in Jobs |-> "none"]
  /\ tries = [j \in Jobs |-> 0]
  /\ source = [j \in Jobs |-> NoTree]
  /\ queue = [m \in Msgs |-> "unpublished"]
  /\ payload = [m \in Msgs |-> NoJob]
  /\ faults = 0

\* One more fault of this kind happens.
Fault(kind) ==
  /\ kind \in Faults
  /\ faults < MaxFaults
  /\ faults' = faults + 1

\* A call that may fail: it does, or it succeeds.
Attempt(kind, done) == (done /\ UNCHANGED faults) \/ (~done /\ Fault(kind))

Published(j) == \E m \in Msgs : payload[m] = j

---------------------------------------------------------------------------
(* The queue: durable, first in first out.  A message that is given back   *)
(* keeps its place; one that is acknowledged or rejected is dropped, since *)
(* no dead-letter exchange is declared for the queue.                      *)

Enqueue(j) ==
  \E m \in Msgs :
    /\ queue[m] = "unpublished"
    /\ \A n \in Msgs : n < m => queue[n] # "unpublished"
    /\ queue' = [queue EXCEPT ![m] = "ready"]
    /\ payload' = [payload EXCEPT ![m] = j]

\* Mutant: a message that is being handled is offered to the next thread too.
IsNextUnlocked(m) == queue[m] \in {"ready", "unacked"}

IsNext(m) ==
  /\ queue[m] = "ready"
  /\ \A n \in Msgs : n < m => queue[n] # "ready"

---------------------------------------------------------------------------
(* create_compile_job                                                      *)

\* The row is committed before the files are read and the job is queued.
CreateRow(j) ==
  /\ request[j] = "none"
  /\ request' = [request EXCEPT ![j] = "created"]
  /\ status' = [status EXCEPT ![j] = "PENDING"]
  /\ UNCHANGED <<result, tries, source, queue, payload, faults>>

\* A blob that cannot be fetched or decoded is compiled as "".
Captured(tree, lost) ==
  [p \in Paths |-> IF tree[p] # Absent /\ (p \in lost \/ tree[p] \in Undecodable)
                   THEN Blank
                   ELSE tree[p]]

ReadFiles(j) ==
  /\ request[j] = "created"
  /\ request' = [request EXCEPT ![j] = "publishing"]
  /\ \E tree \in Saved, lost \in SUBSET Paths :
       /\ source' = [source EXCEPT ![j] = Captured(tree, lost)]
       /\ Attempt("fetch", lost = {})
  /\ UNCHANGED <<status, result, tries, queue, payload>>

PublishConfirmed(j) ==
  /\ request[j] = "publishing" /\ tries[j] < MAX_RETRIES
  /\ Enqueue(j)
  /\ request' = [request EXCEPT ![j] = "accepted"]
  /\ UNCHANGED <<status, result, tries, source, faults>>

\* An attempt raises before the broker has the message or, when only the
\* confirmation is lost, after it.  The last failure is answered 503.
PublishFailed(j) ==
  /\ request[j] = "publishing" /\ tries[j] < MAX_RETRIES
  /\ Fault("publish")
  /\ Enqueue(j) \/ UNCHANGED <<queue, payload>>
  /\ tries' = [tries EXCEPT ![j] = @ + 1]
  /\ request' = [request EXCEPT ![j] = IF tries[j] + 1 < MAX_RETRIES
                                       THEN "publishing"
                                       ELSE "refused"]
  /\ UNCHANGED <<status, result, source>>

\* The backend process restarts: every handler that was running is gone.
ApiRestart ==
  /\ Fault("api")
  /\ request' = [j \in Jobs |-> IF request[j] \in {"created", "publishing"}
                                THEN "aborted"
                                ELSE request[j]]
  /\ UNCHANGED <<status, result, tries, source, queue, payload>>

Submit(j) == ReadFiles(j) \/ PublishConfirmed(j) \/ PublishFailed(j)

QueueNext == ApiRestart \/ \E j \in Jobs : CreateRow(j) \/ Submit(j)

=============================================================================
