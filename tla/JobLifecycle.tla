---------------------------- MODULE JobLifecycle ----------------------------
(***************************************************************************)
(* What the compile service promises about one row of compile_jobs and     *)
(* the objects stored for it, whoever executes it and however often.       *)
(*                                                                         *)
(* The row is created PENDING, is RUNNING while it is executed and ends    *)
(* COMPLETED or FAILED.  A row names a PDF or a log only after that object *)
(* was stored, and carries the hash of the job's own sources with the PDF. *)
(* Rerun says whether a finished job may be executed again, which is what  *)
(* a message broker that delivers at least once implies.                   *)
(***************************************************************************)

CONSTANTS
  Jobs,     \* ids of compile jobs
  Sources,  \* the source trees a job may be created from
  NoTree,   \* the null of every place that holds a tree
  Rerun     \* BOOLEAN: may a finished job be executed again?

VARIABLES
  status,   \* status[j]: the column status of the row, "none" without a row
  result,   \* result[j]: the columns written when the job finishes
  source,   \* source[j]: the files captured for the job, or NoTree
  logs,     \* jobs that have a compile.log object
  pdfs      \* jobs that have an output.pdf object

lifecycleVars == <<status, result, source, logs, pdfs>>

Unfinished == {"PENDING", "RUNNING"}
Finished == {"COMPLETED", "FAILED"}

\* artifact_ref and logs_ref are fixed names, so only their presence matters;
\* artifact_hash is the hash of a tree.
Result == [artifact : BOOLEAN, logs : BOOLEAN, hash : Sources \cup {NoTree}]

NoResult == [artifact |-> FALSE, logs |-> FALSE, hash |-> NoTree]

LifecycleInit ==
  /\ status = [j \in Jobs |-> "none"]
  /\ result = [j \in Jobs |-> NoResult]
  /\ source = [j \in Jobs |-> NoTree]
  /\ logs = {}
  /\ pdfs = {}

MayExecute(j) ==
  \/ status[j] \in Unfinished
  \/ Rerun /\ status[j] \in Finished

Create(j) ==
  /\ status[j] = "none"
  /\ status' = [status EXCEPT ![j] = "PENDING"]
  /\ UNCHANGED <<result, source, logs, pdfs>>

Capture(j) ==
  /\ status[j] = "PENDING"
  /\ source[j] = NoTree
  /\ \E tree \in Sources : source' = [source EXCEPT ![j] = tree]
  /\ UNCHANGED <<status, result, logs, pdfs>>

\* Starting again keeps the columns of the previous execution.
Start(j) ==
  /\ source[j] # NoTree
  /\ MayExecute(j)
  /\ status' = [status EXCEPT ![j] = "RUNNING"]
  /\ UNCHANGED <<result, source, logs, pdfs>>

StoreLog(j) ==
  /\ MayExecute(j)
  /\ logs' = logs \cup {j}
  /\ UNCHANGED <<status, result, source, pdfs>>

StorePdf(j) ==
  /\ MayExecute(j)
  /\ pdfs' = pdfs \cup {j}
  /\ UNCHANGED <<status, result, source, logs>>

\* A row names an object only once it is stored.
Complete(j) ==
  /\ source[j] # NoTree
  /\ MayExecute(j)
  /\ j \in pdfs
  /\ \E logged \in BOOLEAN :
       /\ logged => j \in logs
       /\ result' = [result EXCEPT ![j] = [artifact |-> TRUE, logs |-> logged,
                                           hash |-> source[j]]]
  /\ status' = [status EXCEPT ![j] = "COMPLETED"]
  /\ UNCHANGED <<source, logs, pdfs>>

Fail(j) ==
  /\ source[j] # NoTree
  /\ MayExecute(j)
  /\ \E logged \in BOOLEAN :
       /\ logged => j \in logs
       /\ result' = [result EXCEPT ![j] = [artifact |-> FALSE, logs |-> logged,
                                           hash |-> NoTree]]
  /\ status' = [status EXCEPT ![j] = "FAILED"]
  /\ UNCHANGED <<source, logs, pdfs>>

LifecycleNext ==
  \E j \in Jobs :
    \/ Create(j)
    \/ Capture(j)
    \/ Start(j)
    \/ StoreLog(j)
    \/ StorePdf(j)
    \/ Complete(j)
    \/ Fail(j)

LifecycleSpec == LifecycleInit /\ [][LifecycleNext]_lifecycleVars

=============================================================================
