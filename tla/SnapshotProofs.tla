--------------------------- MODULE SnapshotProofs ---------------------------
(***************************************************************************)
(* Proofs about Snapshots, for any number of jobs and of API threads.      *)
(*                                                                         *)
(* The argument: what a request has read of a row stays true of the files  *)
(* of the job, since they are captured once, and stays true of the row too *)
(* until the job is executed again and fails.                              *)
(***************************************************************************)
EXTENDS Snapshots, TLAPS

\* What a row says about the files of its job and about the stored PDF.
RowsAgree ==
  \A j \in Jobs :
    /\ result[j].hash # NoTree => result[j].hash = source[j]
    /\ result[j].artifact =>
         j \in pdfs /\ source[j] # NoTree /\ result[j].hash = source[j]
    /\ status[j] = "COMPLETED" => result[j].artifact

\* A request between two queries is about a job that was completed when read.
RequestsAgree ==
  \A h \in Handlers :
    at[h] # "idle" =>
      /\ polled[h] \in Jobs
      /\ hash[h] = source[polled[h]] /\ hash[h] # NoTree
      /\ polled[h] \notin relapsed => result[polled[h]].artifact

VersionsAgree ==
  \A j \in Jobs :
    snapAt[j] # 0 =>
      /\ source[j] # NoTree
      /\ j \notin relapsed => result[j].artifact

Agreement == TypeOK /\ RowsAgree /\ RequestsAgree /\ VersionsAgree

\* The agreement holds initially: nothing was created, no version made.
THEOREM InitAgreement == Init => Agreement
BY NoJobType, MaxDeletesType, MaxRerunsType, MaxSentType
   DEF Init, LifecycleInit, Agreement, TypeOK, RowsAgree, RequestsAgree, VersionsAgree,
       NoResult, Result

---------------------------------------------------------------------------
(* What the life cycle of a job leaves alone.                              *)

\* Files that were captured stay, a completed job stays completed unless it may
\* run again, and the rows keep agreeing with files and objects.
LEMMA JobStepKeeps ==
  ASSUME TypeOK, RowsAgree, JobStep
  PROVE  /\ TypeOK' /\ RowsAgree'
         /\ \A j \in Jobs : source[j] # NoTree => source'[j] = source[j]
         /\ \A j \in Jobs : result[j].artifact =>
              result'[j].artifact \/ j \in relapsed'
         /\ relapsed \subseteq relapsed'
<1>0. relapsed \subseteq relapsed'
      /\ \A j \in Jobs : result[j].artifact => result'[j].artifact \/ j \in relapsed'
  BY DEF JobStep, Relapsed
<1>a. /\ reruns' \in 0 .. MaxReruns
      /\ relapsed' \subseteq Jobs
  BY MaxRerunsType DEF JobStep, Relapsed, TypeOK
<1> USE <1>0, <1>a, NoTreeType DEF JobStep, snapshotVars, handlerVars, pageVars
<1>1. PICK j \in Jobs :
        Create(j) \/ Capture(j) \/ Start(j) \/ StorePdf(j) \/ Complete(j) \/ Fail(j)
  OBVIOUS
<1>2. CASE Create(j)
  BY <1>2 DEF Create, TypeOK, RowsAgree, Unfinished
<1>3. CASE Capture(j)
  BY <1>3 DEF Capture, TypeOK, RowsAgree
<1>4. CASE Start(j)
  BY <1>4 DEF Start, MayExecute, TypeOK, RowsAgree, Unfinished, Finished
<1>6. CASE StorePdf(j)
  BY <1>6 DEF StorePdf, TypeOK, RowsAgree
<1>7. CASE Complete(j)
  <2>1. PICK logged \in BOOLEAN :
          result' = [result EXCEPT ![j] = [artifact |-> TRUE, logs |-> logged,
                                           hash |-> source[j]]]
    BY <1>7 DEF Complete
  <2>2. [artifact |-> TRUE, logs |-> logged, hash |-> source[j]] \in Result
    BY DEF TypeOK, Result
  <2>3. QED
    BY <1>7, <2>1, <2>2 DEF Complete, MayExecute, TypeOK, RowsAgree, Unfinished, Finished
<1>8. CASE Fail(j)
  <2>1. PICK logged \in BOOLEAN :
          result' = [result EXCEPT ![j] = [artifact |-> FALSE, logs |-> logged,
                                           hash |-> NoTree]]
    BY <1>8 DEF Fail
  <2>2. [artifact |-> FALSE, logs |-> logged, hash |-> NoTree] \in Result
    BY DEF Result
  <2>3. QED
    BY <1>8, <2>1, <2>2 DEF Fail, MayExecute, TypeOK, RowsAgree, Unfinished, Finished
<1>9. QED
  BY <1>1, <1>2, <1>3, <1>4, <1>6, <1>7, <1>8

\* The requests, the pages and the users write no job.
LEMMA OthersKeepJobs ==
  ASSUME TypeOK, RowsAgree, UNCHANGED lifecycleVars
  PROVE  RowsAgree'
BY DEF RowsAgree, lifecycleVars

---------------------------------------------------------------------------
\* Every step of a job, a status request, a page and a deletion keeps it.
THEOREM StepAgreement == Agreement /\ [Next]_vars => Agreement'
<1> SUFFICES ASSUME Agreement, [Next]_vars
             PROVE  Agreement'
  OBVIOUS
<1> USE DEF Agreement
<1>1. CASE JobStep
  <2>1. RequestsAgree'
    BY <1>1, JobStepKeeps DEF RequestsAgree, JobStep, handlerVars
  <2>2. VersionsAgree'
    BY <1>1, JobStepKeeps DEF VersionsAgree, JobStep, snapshotVars
  <2>3. QED
    BY <1>1, <2>1, <2>2, JobStepKeeps
<1>2. ASSUME NEW j \in Jobs, OpenPage(j) \/ SendPoll(j) \/ StopPolling(j)
      PROVE  Agreement'
  <2>1. UNCHANGED <<lifecycleVars, reruns, snapshotVars, handlerVars, historyVars>>
    BY <1>2 DEF OpenPage, SendPoll, StopPolling
  <2>2. /\ page' \in [Jobs -> {"none", "polling", "left", "completed", "failed"}]
        /\ sent' \in [Jobs -> 0 .. MaxSent]
    BY <1>2, MaxSentType DEF OpenPage, SendPoll, StopPolling, TypeOK
  <2>3. QED
    BY <2>1, <2>2 DEF TypeOK, RowsAgree, RequestsAgree, VersionsAgree, lifecycleVars,
                      snapshotVars, handlerVars, historyVars
<1>3. ASSUME NEW j \in Jobs, NEW h \in Handlers, ReadJob(h, j)
      PROVE  Agreement'
  <2>1. result[j].hash \in Sources \cup {NoTree}
    BY DEF TypeOK, Result
  <2>2. TypeOK'
    BY <1>3, <2>1, MaxSentType
       DEF ReadJob, Receive, Told, TypeOK, lifecycleVars, snapshotVars, handlerVars, historyVars
  <2>3. RequestsAgree'
    BY <1>3 DEF ReadJob, Receive, RequestsAgree, RowsAgree, TypeOK, lifecycleVars, handlerVars,
                historyVars
  <2>4. QED
    BY <1>3, <2>2, <2>3, OthersKeepJobs
       DEF ReadJob, VersionsAgree, lifecycleVars, snapshotVars, historyVars
<1>4. ASSUME NEW h \in Handlers, CheckExists(h) \/ CompareHash(h)
      PROVE  Agreement'
  <2>1. TypeOK'
    BY <1>4 DEF CheckExists, CompareHash, ReturnFrom, Told, TypeOK, lifecycleVars,
                snapshotVars, historyVars
  <2>2. RequestsAgree'
    BY <1>4 DEF CheckExists, CompareHash, ReturnFrom, RequestsAgree, TypeOK, lifecycleVars,
                historyVars
  <2>3. QED
    BY <1>4, <2>1, <2>2, OthersKeepJobs
       DEF CheckExists, CompareHash, VersionsAgree, lifecycleVars, snapshotVars, historyVars
<1>5. ASSUME NEW h \in Handlers, InsertSnapshot(h)
      PROVE  Agreement'
  <2>1. polled[h] \in Jobs
    BY <1>5 DEF InsertSnapshot, RequestsAgree
  <2>2. TypeOK'
    <3>1. gone' \subseteq Jobs
      BY <1>5, <2>1 DEF InsertSnapshot, TypeOK
    <3>2. Compared(h) \subseteq Jobs
      BY DEF Compared, RequestsAgree
    <3>3. overtaken' \subseteq Jobs
      BY <1>5, <3>2 DEF InsertSnapshot, TypeOK
    <3>4. snapAt' \in [Jobs -> Nat] /\ clock' \in Nat
      BY <1>5, <2>1 DEF InsertSnapshot, TypeOK
    <3>5. QED
      BY <1>5, <2>1, <3>1, <3>3, <3>4 DEF InsertSnapshot, ReturnFrom, Told, TypeOK, lifecycleVars
  <2>3. RequestsAgree'
    BY <1>5 DEF InsertSnapshot, ReturnFrom, RequestsAgree, TypeOK, lifecycleVars
  <2>4. VersionsAgree'
    BY <1>5, <2>1 DEF InsertSnapshot, RequestsAgree, VersionsAgree, TypeOK, lifecycleVars
  <2>5. QED
    BY <1>5, <2>2, <2>3, <2>4, OthersKeepJobs DEF InsertSnapshot
<1>6. ASSUME NEW j \in Jobs, DeleteSnapshot(j)
      PROVE  Agreement'
  BY <1>6, MaxDeletesType
     DEF DeleteSnapshot, TypeOK, RowsAgree, RequestsAgree, VersionsAgree, lifecycleVars,
         handlerVars, pageVars
<1>7. CASE UNCHANGED vars
  BY <1>7 DEF vars, TypeOK, RowsAgree, RequestsAgree, VersionsAgree, lifecycleVars,
              snapshotVars, handlerVars, pageVars, historyVars
<1>8. QED
  BY <1>1, <1>2, <1>3, <1>4, <1>5, <1>6, <1>7 DEF Next, Poll, Answer

\* Hence rows, captured files, requests and versions always agree.
THEOREM AgreementHolds == Spec => []Agreement
BY InitAgreement, StepAgreement, PTL DEF Spec

---------------------------------------------------------------------------
\* A version always offers the PDF it was created for, however many requests
\* race to create it and however often the job is executed again, as long as no
\* such execution fails: the query that saw the artifact and the insertion three
\* queries later agree.
THEOREM VersionsOfferTheirPdf == Spec => []VersionOffersPdf
<1>1. Agreement => VersionOffersPdf
  BY DEF Agreement, VersionsAgree, RowsAgree, VersionOffersPdf, Snapped
<1>2. QED
  BY <1>1, AgreementHolds, PTL

---------------------------------------------------------------------------
\* A version with the sources of job j exists, or did and is gone.
HasVersion(j) == \E k \in Jobs : (snapAt[k] # 0 \/ k \in gone) /\ source[k] = source[j]

\* Files that were captured stay.
LEMMA SourcesStay ==
  ASSUME Agreement, [Next]_vars, NEW j \in Jobs, source[j] # NoTree
  PROVE  source'[j] = source[j]
BY JobStepKeeps
   DEF Agreement, Next, OpenPage, SendPoll, StopPolling, Poll, ReadJob, DeleteSnapshot, Answer,
       CheckExists, CompareHash, InsertSnapshot, lifecycleVars, vars

\* A version that exists is there after a step, or gone; and what is gone was captured.
LEMMA VersionsStay ==
  ASSUME Agreement, [Next]_vars, NEW k \in Jobs, snapAt[k] # 0 \/ k \in gone
  PROVE  snapAt'[k] # 0 \/ k \in gone'
<1>1. TypeOK /\ \A h \in Handlers : at[h] # "idle" => polled[h] \in Jobs
  BY DEF Agreement, RequestsAgree
<1>2. CASE \E h \in Handlers : InsertSnapshot(h)
  BY <1>1, <1>2 DEF InsertSnapshot, TypeOK
<1>3. CASE \E j \in Jobs : DeleteSnapshot(j)
  BY <1>1, <1>3 DEF DeleteSnapshot, TypeOK
<1>4. CASE UNCHANGED <<snapAt, gone>>
  BY <1>4
<1>5. QED
  BY <1>2, <1>3, <1>4
     DEF Next, JobStep, OpenPage, SendPoll, StopPolling, Poll, ReadJob, Answer, CheckExists,
         CompareHash, vars, snapshotVars, historyVars

\* The jobs that ever had a version have files.
GoneCaptured == \A k \in gone : k \in Jobs /\ source[k] # NoTree

\* What was deleted, or failed to commit, had files.
LEMMA StepGoneCaptured ==
  ASSUME Agreement, GoneCaptured, [Next]_vars
  PROVE  GoneCaptured'
<1> SUFFICES ASSUME NEW k \in gone' PROVE k \in Jobs /\ source'[k] # NoTree
  BY DEF GoneCaptured
<1>1. k \in Jobs /\ source[k] # NoTree
  <2>1. CASE k \in gone
    BY <2>1 DEF GoneCaptured
  <2>2. CASE \E h \in Handlers : InsertSnapshot(h)
    BY <2>1, <2>2 DEF InsertSnapshot, Agreement, RequestsAgree
  <2>3. CASE \E j \in Jobs : DeleteSnapshot(j)
    BY <2>1, <2>3 DEF DeleteSnapshot, Snapped, Agreement, VersionsAgree
  <2>4. CASE UNCHANGED gone
    BY <2>1, <2>4
  <2>5. QED
    BY <2>2, <2>3, <2>4
       DEF Next, JobStep, OpenPage, SendPoll, StopPolling, Poll, ReadJob, Answer, CheckExists,
           CompareHash, vars, historyVars
<1>2. QED
  BY <1>1, SourcesStay

\* A job that had a version, or one with its sources, still has.
LEMMA HasVersionStays ==
  ASSUME Agreement, GoneCaptured, [Next]_vars, NEW j \in Jobs, HasVersion(j)
  PROVE  HasVersion(j)'
<1>1. PICK k \in Jobs : (snapAt[k] # 0 \/ k \in gone) /\ source[k] = source[j]
  BY DEF HasVersion
<1>2. source[k] # NoTree
  BY <1>1 DEF GoneCaptured, Agreement, VersionsAgree
<1>3. source'[k] = source[k] /\ source'[j] = source[j]
  BY <1>1, <1>2, SourcesStay
<1>4. QED
  BY <1>1, <1>3, VersionsStay DEF HasVersion

\* A step that tells a page its job is completed leaves a version with the
\* job's sources behind, or what became of it.
LEMMA StepKeepsVersions ==
  ASSUME Agreement, GoneCaptured, VersionKept, [Next]_vars
  PROVE  VersionKept'
<1> SUFFICES ASSUME NEW j \in Jobs, page'[j] = "completed"
             PROVE  HasVersion(j)'
  <2>1. GoneCaptured'
    BY StepGoneCaptured
  <2>2. QED
    BY <2>1 DEF VersionKept, Snapped, HasVersion, GoneCaptured
<1>a. TypeOK /\ gone \subseteq Jobs
  BY DEF Agreement, TypeOK
<1>1. CASE page[j] = "completed"
  <2>1. HasVersion(j)
    BY <1>a, <1>1 DEF VersionKept, Snapped, HasVersion
  <2>2. QED
    BY <2>1, HasVersionStays
<1>2. CASE page[j] # "completed" /\ \E h \in Handlers : CheckExists(h) \/ CompareHash(h)
  <2>1. PICK h \in Handlers : CheckExists(h) \/ CompareHash(h)
    BY <1>2
  <2>2. /\ polled[h] \in Jobs /\ hash[h] # NoTree
        /\ hash[h] = source[polled[h]]
    BY <2>1 DEF CheckExists, CompareHash, Agreement, RequestsAgree
  <2>3. j = polled[h]
    BY <1>a, <1>2, <2>1 DEF CheckExists, CompareHash, Told, TypeOK
  <2>4. CASE polled[h] \in Snapped
    BY <2>2, <2>3, <2>4, HasVersionStays DEF HasVersion, Snapped
  <2>5. CASE SameAsLast(h)
    <3>1. PICK k \in Snapped : result[k].hash = hash[h]
      BY <2>5 DEF SameAsLast
    <3>2. source[k] = hash[h]
      BY <2>2, <3>1 DEF Agreement, RowsAgree, Snapped
    <3>3. QED
      BY <2>2, <2>3, <3>1, <3>2, HasVersionStays DEF HasVersion, Snapped
  <2>6. QED
    BY <1>2, <2>1, <2>4, <2>5 DEF CheckExists, CompareHash
<1>3. CASE page[j] # "completed" /\ \E h \in Handlers : InsertSnapshot(h)
  <2>1. PICK h \in Handlers : InsertSnapshot(h)
    BY <1>3
  <2>2. polled[h] \in Jobs
    BY <2>1 DEF InsertSnapshot, Agreement, RequestsAgree
  <2>3. j = polled[h]
    BY <1>a, <1>3, <2>1 DEF InsertSnapshot, Told, TypeOK
  <2>4. snapAt'[j] # 0 \/ j \in gone'
    BY <1>a, <2>1, <2>2, <2>3 DEF InsertSnapshot, Snapped, TypeOK
  <2>5. QED
    BY <2>4 DEF HasVersion
<1>4. CASE page[j] # "completed" /\ \E i \in Jobs : Poll(i)
  <2>1. PICK i \in Jobs, h \in Handlers : ReadJob(h, i)
    BY <1>4 DEF Poll
  <2>2. status[i] # "COMPLETED" \/ result[i].artifact
    BY DEF Agreement, RowsAgree
  <2>3. page'[j] # "completed"
    BY <1>a, <1>4, <2>1, <2>2 DEF ReadJob, Told, TypeOK, Unfinished
  <2>4. QED
    BY <2>3
<1>5. ASSUME page[j] # "completed", NEW i \in Jobs, OpenPage(i) \/ StopPolling(i)
      PROVE  FALSE
  BY <1>a, <1>5 DEF OpenPage, StopPolling, TypeOK
<1>6. CASE UNCHANGED page
  BY <1>1, <1>6
<1>7. QED
  BY <1>1, <1>2, <1>3, <1>4, <1>5, <1>6
     DEF Next, JobStep, SendPoll, Answer, DeleteSnapshot, vars, pageVars

\* A page that was told its job is completed finds the job's sources among the
\* versions, with any number of racing and late requests and reruns; a version
\* that is missing was deleted, or its commit failed.
THEOREM VersionsAreKept == Spec => []VersionKept
<1>1. Init => VersionKept /\ GoneCaptured
  BY DEF Init, VersionKept, GoneCaptured
<1>2. Agreement /\ GoneCaptured /\ VersionKept /\ [Next]_vars => VersionKept' /\ GoneCaptured'
  BY StepKeepsVersions, StepGoneCaptured
<1>3. QED
  BY <1>1, <1>2, AgreementHolds, PTL DEF Spec

---------------------------------------------------------------------------
(* The dedup, with requests that overlap.                                  *)

\* The stamps of versions are in the order of their creation.
StampsOrdered ==
  \A j, k \in Jobs :
    /\ snapAt[j] <= clock
    /\ snapAt[j] = snapAt[k] /\ snapAt[j] # 0 => j = k

\* What a request has compared is still the last version when it inserts, unless
\* another request came between.
LastDiffers ==
  \A h \in Handlers : at[h] = "insert" /\ deletes = 0 =>
    \/ polled[h] \in overtaken
    \/ snapAt[polled[h]] # 0
    \/ \A k \in Jobs \ relapsed : IsLast(k) => source[k] # source[polled[h]]

Distinct == Agreement /\ StampsOrdered /\ LastDiffers /\ VersionsDiffer

\* Every step keeps neighbouring versions distinct.
LEMMA StepKeepsDistinct ==
  ASSUME Distinct, [Next]_vars
  PROVE  Distinct'
<1>0. /\ Agreement /\ Agreement' /\ TypeOK /\ TypeOK'
      /\ \A j \in Jobs : source[j] # NoTree => source'[j] = source[j]
      /\ \A j \in Jobs : snapAt[j] # 0 => source[j] # NoTree
      /\ \A h \in Handlers : at[h] # "idle" => polled[h] \in Jobs /\ source[polled[h]] # NoTree
  <2>1. Agreement /\ Agreement' /\ TypeOK
    BY StepAgreement DEF Distinct, Agreement
  <2>2. \A j \in Jobs : source[j] # NoTree => source'[j] = source[j]
    BY <2>1, SourcesStay
  <2>3. QED
    BY <2>1, <2>2 DEF Agreement, VersionsAgree, RequestsAgree
\* Steps that create and delete no version and begin no insertion.
<1>1. ASSUME UNCHANGED snapshotVars, relapsed \subseteq relapsed', overtaken \subseteq overtaken',
             \A h \in Handlers : at'[h] = "insert" => at[h] = "insert" /\ polled'[h] = polled[h]
      PROVE  Distinct'
  <2>1. StampsOrdered'
    BY <1>1 DEF Distinct, StampsOrdered, snapshotVars
  <2>2. LastDiffers'
    <3> SUFFICES ASSUME NEW h \in Handlers, at'[h] = "insert", deletes' = 0,
                        polled'[h] \notin overtaken', snapAt'[polled'[h]] = 0,
                        NEW k \in Jobs \ relapsed', IsLast(k)'
                 PROVE  source'[k] # source'[polled'[h]]
      BY DEF LastDiffers
    <3>1. /\ at[h] = "insert" /\ polled'[h] = polled[h] /\ deletes = 0 /\ snapAt' = snapAt
          /\ k \in Jobs \ relapsed /\ polled[h] \notin overtaken
      BY <1>1 DEF snapshotVars
    <3>2. IsLast(k) /\ snapAt[k] # 0
      BY <3>1 DEF IsLast, Snapped
    <3>3. source[k] # source[polled[h]]
      BY <3>1, <3>2 DEF Distinct, LastDiffers
    <3>4. QED
      BY <1>0, <3>1, <3>2, <3>3
  <2>3. VersionsDiffer'
    BY <1>0, <1>1 DEF Distinct, VersionsDiffer, Snapped, snapshotVars
  <2>4. QED
    BY <1>0, <2>1, <2>2, <2>3 DEF Distinct
<1>2. ASSUME NEW h \in Handlers, CompareHash(h) PROVE Distinct'
  <2>0. UNCHANGED <<lifecycleVars, snapshotVars, historyVars>> /\ at[h] = "compare"
    BY <1>2 DEF CompareHash
  <2>1. CASE hash[h] # NoTree /\ SameAsLast(h)
    BY <1>0, <1>1, <1>2, <2>0, <2>1 DEF CompareHash, ReturnFrom, TypeOK, historyVars
  <2>2. CASE ~(hash[h] # NoTree /\ SameAsLast(h))
    <3>1. UNCHANGED polled
      BY <1>2, <2>2 DEF CompareHash
    <3>2. hash[h] = source[polled[h]] /\ hash[h] # NoTree
      BY <2>0 DEF Distinct, Agreement, RequestsAgree
    <3>3. \A k \in Jobs \ relapsed : IsLast(k) => source[k] # source[polled[h]]
      <4> SUFFICES ASSUME NEW k \in Jobs \ relapsed, IsLast(k) PROVE source[k] # source[polled[h]]
        OBVIOUS
      <4>1. k \in Snapped /\ result[k].hash # hash[h]
        BY <2>2, <3>2 DEF SameAsLast, IsLast
      <4>2. result[k].hash = source[k]
        BY <1>0, <4>1 DEF Agreement, VersionsAgree, RowsAgree, Snapped
      <4>3. QED
        BY <3>2, <4>1, <4>2
    <3>4. LastDiffers'
      <4> SUFFICES ASSUME NEW g \in Handlers, at'[g] = "insert", deletes' = 0
                   PROVE  \/ polled'[g] \in overtaken'
                          \/ snapAt'[polled'[g]] # 0
                          \/ \A k \in Jobs \ relapsed' : IsLast(k)' => source'[k] # source'[polled'[g]]
        BY DEF LastDiffers
      <4>1. \A k \in Jobs : IsLast(k)' <=> IsLast(k)
        BY <2>0 DEF IsLast, Snapped, snapshotVars
      <4>2. CASE g = h
        BY <2>0, <3>1, <3>3, <4>1, <4>2 DEF lifecycleVars, historyVars
      <4>3. CASE g # h
        <5>1. at[g] = "insert"
          BY <1>0, <1>2, <2>2, <4>3 DEF CompareHash, TypeOK
        <5>2. QED
          BY <2>0, <3>1, <4>1, <5>1
             DEF Distinct, LastDiffers, lifecycleVars, snapshotVars, historyVars
      <4>4. QED
        BY <4>2, <4>3
    <3>5. StampsOrdered' /\ VersionsDiffer'
      BY <2>0 DEF Distinct, StampsOrdered, VersionsDiffer, Snapped, lifecycleVars, snapshotVars,
                  historyVars
    <3>6. QED
      BY <1>0, <3>4, <3>5 DEF Distinct
  <2>3. QED
    BY <2>1, <2>2
<1>3. ASSUME NEW h \in Handlers, InsertSnapshot(h) PROVE Distinct'
  <2>0. /\ polled[h] \in Jobs /\ UNCHANGED <<source, relapsed, deletes>> /\ at[h] = "insert"
        /\ at' = [at EXCEPT ![h] = "idle"] /\ polled' = [polled EXCEPT ![h] = NoJob]
        /\ clock \in Nat
    BY <1>0, <1>3 DEF InsertSnapshot, ReturnFrom, TypeOK, lifecycleVars
  <2>1. CASE UNCHANGED <<snapAt, clock, overtaken>>
    BY <1>0, <1>1, <2>0, <2>1 DEF TypeOK, snapshotVars
  <2>2. CASE /\ polled[h] \notin Snapped /\ clock' = clock + 1
             /\ snapAt' = [snapAt EXCEPT ![polled[h]] = clock']
             /\ overtaken' = overtaken \cup Compared(h)
    <3>1. \A j \in Jobs : /\ snapAt'[j] = IF j = polled[h] THEN clock + 1 ELSE snapAt[j]
                          /\ snapAt[j] \in Nat /\ snapAt[j] <= clock
      BY <1>0, <2>0, <2>2 DEF TypeOK, Distinct, StampsOrdered
    <3>2. StampsOrdered'
      BY <2>2, <2>0, <3>1 DEF Distinct, StampsOrdered
    <3>3. LastDiffers'
      <4> SUFFICES ASSUME NEW g \in Handlers, at'[g] = "insert"
                   PROVE  polled'[g] \in overtaken' \/ snapAt'[polled'[g]] # 0
        BY DEF LastDiffers
      <4>1. g # h /\ at[g] = "insert" /\ polled'[g] = polled[g]
        BY <1>0, <2>0 DEF TypeOK
      <4>2. CASE polled[g] = polled[h]
        BY <2>0, <2>2, <3>1, <4>1, <4>2
      <4>3. CASE polled[g] # polled[h]
        BY <2>2, <4>1, <4>3 DEF Compared
      <4>4. QED
        BY <4>2, <4>3
    <3>4. VersionsDiffer'
      <4> SUFFICES ASSUME NEW j \in Jobs, NEW k \in Jobs, snapAt'[j] # 0, snapAt'[k] # 0,
                          snapAt'[j] < snapAt'[k], deletes' = 0,
                          j \notin relapsed', k \notin overtaken',
                          \A l \in Jobs : snapAt'[l] # 0 =>
                            ~(snapAt'[j] < snapAt'[l] /\ snapAt'[l] < snapAt'[k])
                   PROVE  source'[j] # source'[k]
        BY DEF VersionsDiffer, Snapped
      <4>1. j # polled[h]
        BY <2>0, <3>1
      <4>2. CASE k = polled[h]
        <5>1. IsLast(j)
          <6>1. j \in Snapped
            BY <3>1, <4>1 DEF Snapped
          <6>2. ASSUME NEW l \in Snapped PROVE snapAt[l] <= snapAt[j]
            <7>1. l # polled[h] /\ snapAt'[l] = snapAt[l] /\ snapAt[l] # 0 /\ snapAt[l] < snapAt'[k]
              BY <2>2, <2>0, <3>1, <4>2 DEF Snapped
            <7>2. QED
              BY <3>1, <4>1, <7>1 DEF Snapped
          <6>3. QED
            BY <6>1, <6>2 DEF IsLast
        <5>2. polled[h] \notin overtaken /\ snapAt[polled[h]] = 0
          BY <2>0, <2>2, <4>2 DEF Snapped
        <5>3. QED
          BY <2>0, <4>2, <5>1, <5>2 DEF Distinct, LastDiffers
      <4>3. CASE k # polled[h]
        <5>1. \A l \in Snapped : snapAt'[l] = snapAt[l] /\ snapAt[l] # 0
          BY <2>2, <3>1 DEF Snapped
        <5>2. j \in Snapped /\ k \in Snapped /\ k \notin overtaken
          BY <2>2, <3>1, <4>1, <4>3 DEF Snapped
        <5>3. QED
          BY <2>0, <5>1, <5>2 DEF Distinct, VersionsDiffer, Snapped
      <4>4. QED
        BY <4>2, <4>3
    <3>5. QED
      BY <1>0, <3>2, <3>3, <3>4 DEF Distinct
  <2>3. QED
    BY <1>3, <2>1, <2>2 DEF InsertSnapshot
<1>4. ASSUME NEW j \in Jobs, DeleteSnapshot(j) PROVE Distinct'
  <2>1. StampsOrdered'
    BY <1>0, <1>4 DEF DeleteSnapshot, Distinct, StampsOrdered, TypeOK
  <2>2. deletes' # 0
    BY <1>0, <1>4, MaxDeletesType DEF DeleteSnapshot, TypeOK
  <2>3. QED
    BY <1>0, <2>1, <2>2 DEF Distinct, LastDiffers, VersionsDiffer
<1>5. CASE JobStep
  BY <1>1, <1>5 DEF JobStep, handlerVars
<1>6. ASSUME NEW j \in Jobs, OpenPage(j) \/ SendPoll(j) \/ StopPolling(j) PROVE Distinct'
  BY <1>1, <1>6 DEF OpenPage, SendPoll, StopPolling, handlerVars, historyVars
<1>7. ASSUME NEW j \in Jobs, NEW h \in Handlers, ReadJob(h, j) PROVE Distinct'
  BY <1>0, <1>1, <1>7 DEF ReadJob, Receive, handlerVars, historyVars, TypeOK
<1>8. ASSUME NEW h \in Handlers, CheckExists(h) PROVE Distinct'
  BY <1>0, <1>1, <1>8 DEF CheckExists, ReturnFrom, historyVars, TypeOK
<1>9. CASE UNCHANGED vars
  BY <1>1, <1>9 DEF vars, handlerVars, historyVars
<1>10. QED
  BY <1>2, <1>3, <1>4, <1>5, <1>6, <1>7, <1>8, <1>9 DEF Next, Poll, Answer

\* No version repeats the one before it, however requests overlap and jobs run
\* again, except where another version was inserted after the dedup had compared,
\* one was deleted, or a failed execution cleared the row it was compared with.
\* (get_job_status, the hash comparison.)
THEOREM VersionsAreDistinct == Spec => []VersionsDiffer
<1>1. Init => Distinct
  BY InitAgreement DEF Init, LifecycleInit, Distinct, StampsOrdered, LastDiffers, VersionsDiffer, Snapped
<1>2. Distinct /\ [Next]_vars => Distinct'
  BY StepKeepsDistinct
<1>3. Distinct => VersionsDiffer
  BY DEF Distinct
<1>4. QED
  BY <1>1, <1>2, <1>3, PTL DEF Spec

\* The rows, the versions, the pages and the requests keep their types, whatever overlaps.
THEOREM VersionTypesCorrect == Spec => []TypeOK
<1>1. Agreement => TypeOK
  BY DEF Agreement
<1>2. QED
  BY <1>1, AgreementHolds, PTL

=============================================================================
