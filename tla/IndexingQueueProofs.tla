------------------------ MODULE IndexingQueueProofs ------------------------
(* Proofs about IndexingQueue, for every value of its constants. *)
EXTENDS IndexingQueueInv, TLAPS

USE BoundsAssumption, NullAssumption DEF JobIds, Versions, NoVersion

----------------------------------------------------------------------------
(* Rows *)

\* A claim, a heartbeat, a result write and a reclaim each leave a well-typed
\* row behind.
LEMMA RowTypes ==
  ASSUME NEW j \in Job, NEW n \in Nat
  PROVE  /\ \A w \in Workers, e \in Nat :
              j.attempt < MaxAttempts /\ now \in Nat => Claimed(j, w, e) \in Job
         /\ [j EXCEPT !.lease = n] \in Job
         /\ \A status \in Unfinished \cup Finished,
               outcome \in {"INDEXED", "DELETED", "SKIPPED_DOCUMENT_DELETED",
                            "RETRY_SCHEDULED", "FAILED_PROCESSING"} :
              Released(j, status, outcome, n) \in Job
         /\ Reclaimed(j) \in Job
  <1>1. ASSUME NEW w \in Workers, NEW e \in Nat, j.attempt < MaxAttempts,
               now \in Nat
        PROVE  Claimed(j, w, e) \in Job
    <2>1. j.attempt + 1 \in 0..MaxAttempts /\ now + Lease \in Nat
      BY <1>1 DEF Job
    <2> QED
      BY <2>1 DEF Claimed, Job, Unfinished
  <1>2. [j EXCEPT !.lease = n] \in Job
    BY DEF Job
  <1>3. ASSUME NEW status \in Unfinished \cup Finished,
               NEW outcome \in {"INDEXED", "DELETED",
                 "SKIPPED_DOCUMENT_DELETED", "RETRY_SCHEDULED",
                 "FAILED_PROCESSING"}
        PROVE  Released(j, status, outcome, n) \in Job
    BY DEF Released, Job
  <1>4. Reclaimed(j) \in Job
    BY DEF Reclaimed, Job, Unfinished
  <1> QED
    BY <1>1, <1>2, <1>3, <1>4

LEMMA EnqueueType ==
  ASSUME TypeOK, NEW d \in Docs, NEW v \in Versions \cup {NoVersion},
         Enqueue(d, v)
  PROVE  /\ job' \in [JobIds -> Job]
         /\ nextSeq' \in 1..(MaxJobs + 1)
  <1>1. NewJob(d, v) \in Job
    BY DEF NewJob, Job, Unfinished
  <1> QED
    BY <1>1 DEF TypeOK, Enqueue

\* A result write keeps the types of everything it touches but the document.
LEMMA ResultType ==
  ASSUME TypeOK, NEW r \in runs, NEW n \in Nat,
         NEW status \in Unfinished \cup Finished,
         NEW outcome \in {"INDEXED", "DELETED", "SKIPPED_DOCUMENT_DELETED",
                          "RETRY_SCHEDULED", "FAILED_PROCESSING"},
         job' = [job EXCEPT ![r.seq] = Released(@, status, outcome, n)],
         runs' = runs \ {r}
  PROVE  job' \in [JobIds -> Job] /\ runs' \subseteq Run
  <1>1. r.seq \in JobIds /\ job[r.seq] \in Job
    BY DEF TypeOK, Run
  <1>2. Released(job[r.seq], status, outcome, n) \in Job
    BY <1>1, RowTypes
  <1> QED
    BY <1>1, <1>2 DEF TypeOK

\* The document of a row that exists is a document.
LEMMA RowDoc ==
  ASSUME TypeOK, NEW s \in JobIds
  PROVE  /\ job[s] \in Job
         /\ job[s].doc \in Docs \cup {NoDoc}
         /\ job[s].version \in Versions \cup {NoVersion}
         /\ job[s].attempt \in 0..MaxAttempts
         /\ job[s].epoch \in Nat
         /\ job[s].lease \in Nat
  BY DEF TypeOK, Job

LEMMA DocTypes ==
  ASSUME TypeOK, NEW d \in Docs
  PROVE  /\ latest[d] \in Nat
         /\ epoch[d] \in Nat
         /\ searchable[d] \in Nat
         /\ indexed[d] \subseteq Versions
         /\ chunks[d] \subseteq Versions
  <1>1. latest[d] \in Versions \cup {0} /\ searchable[d] \in Versions \cup {0}
    BY DEF TypeOK
  <1> QED
    BY <1>1 DEF TypeOK

----------------------------------------------------------------------------
(* Type correctness *)

LEMMA InitType == Init => TypeOK
  <1>1. AbsentJob \in Job
    BY DEF AbsentJob, NewJob, Job
  <1>2. nextSeq = 1 => nextSeq \in 1..(MaxJobs + 1)
    OBVIOUS
  <1>3. Init => job \in [JobIds -> Job]
    BY <1>1 DEF Init
  <1>4. Init => /\ latest \in [Docs -> Versions \cup {0}]
               /\ searchable \in [Docs -> Versions \cup {NoVersion}]
               /\ epoch \in [Docs -> Nat]
    BY DEF Init
  <1>5. Init => /\ deleted \in [Docs -> BOOLEAN]
               /\ holder \in [Docs -> {"none", "upload", "reclaim"}]
               /\ indexed \in [Docs -> SUBSET Versions]
               /\ chunks \in [Docs -> SUBSET Versions]
    BY DEF Init
  <1>6. Init => now \in Nat /\ nextSeq \in 1..(MaxJobs + 1)
    BY <1>2 DEF Init
  <1>8. Init => reclaim \in BOOLEAN
    BY Zenon DEF Init
  <1>7. Init => runs \subseteq Run /\ cands \subseteq Candidate /\ taken \subseteq JobIds
    BY DEF Init
  <1> QED
    BY <1>3, <1>4, <1>5, <1>6, <1>7, <1>8 DEF TypeOK

LEMMA ServerType ==
  ASSUME TypeOK, UploadInv, NEW d \in Docs, Server(d)
  PROVE  TypeOK'
  <1>1. CASE CreateDocument(d)
    BY <1>1, EnqueueType DEF CreateDocument, TypeOK, reclaimVars
  <1>2. CASE UploadBegin(d)
    BY <1>2 DEF UploadBegin, TypeOK, docVars, reclaimVars
  <1>3. CASE UploadCommit(d)
    <2>1. latest[d] + 1 \in Versions
      BY <1>3 DEF UploadCommit, UploadInv, TypeOK
    <2> QED
      BY <1>3, <2>1, EnqueueType DEF UploadCommit, TypeOK, reclaimVars
  <1>4. CASE UploadRollback(d)
    BY <1>4 DEF UploadRollback, TypeOK, docVars, reclaimVars
  <1>5. CASE DeleteDocument(d)
    BY <1>5, EnqueueType DEF DeleteDocument, TypeOK, reclaimVars
  <1>6. ASSUME NEW v \in Versions, Retry(d, v) PROVE TypeOK'
    BY <1>6, EnqueueType DEF Retry, TypeOK, docVars, reclaimVars
  <1>7. ASSUME NEW v \in Versions, SetSearchable(d, v) PROVE TypeOK'
    BY <1>7 DEF SetSearchable, TypeOK, reclaimVars
  <1> QED
    BY <1>1, <1>2, <1>3, <1>4, <1>5, <1>6, <1>7 DEF Server

LEMMA ClaimType ==
  ASSUME TypeOK, NEW w \in Workers, NEW s \in JobIds, Claim(w, s),
         job[s].doc \in Docs
  PROVE  TypeOK'
  <1> DEFINE d == job[s].doc
             e == NextEpoch(d)
             r == [seq |-> s, worker |-> w, epoch |-> e,
                   attempt |-> job[s].attempt + 1, beats |-> 0]
  <1>1. job[s] \in Job /\ job[s].attempt < MaxAttempts /\ e \in Nat
    BY RowDoc DEF Claim, Eligible, NextEpoch, TypeOK
  <1>2. Claimed(job[s], w, e) \in Job
    BY <1>1, RowTypes DEF TypeOK
  <1>3. r \in Run
    BY <1>1, RowDoc DEF Run
  <1> QED
    BY <1>1, <1>2, <1>3 DEF Claim, TypeOK, docVars, reclaimVars

LEMMA ExecutionType ==
  ASSUME TypeOK, NEW r \in runs, Execution(r), job[r.seq].doc \in Docs
  PROVE  TypeOK'
  <1>0. r \in Run /\ r.seq \in JobIds /\ job[r.seq] \in Job
    BY DEF TypeOK, Run
  <1>1. CASE Heartbeat(r)
    <2>1. [r EXCEPT !.beats = @ + 1] \in Run
      BY <1>0, <1>1 DEF Heartbeat, Run
    <2>2. now + Lease \in Nat
      BY DEF TypeOK
    <2>3. [job[r.seq] EXCEPT !.lease = now + Lease] \in Job
      BY <1>0, <2>2, RowTypes
    <2> QED
      BY <1>0, <1>1, <2>1, <2>3 DEF Heartbeat, TypeOK, docVars, reclaimVars
  <1>2. CASE FinishIndex(r)
    <2>1. job[r.seq].version \in Versions
      BY <1>0, <1>2, RowDoc DEF FinishIndex
    <2>2. job' \in [JobIds -> Job] /\ runs' \subseteq Run
      BY <1>2, ResultType DEF FinishIndex, Finished
    <2> QED
      BY <1>2, <2>1, <2>2 DEF FinishIndex, TypeOK, Promote, reclaimVars
  <1>3. CASE SkipIndex(r)
    <2>1. job' \in [JobIds -> Job] /\ runs' \subseteq Run
      BY <1>3, ResultType DEF SkipIndex, Finished
    <2> QED
      BY <1>3, <2>1 DEF SkipIndex, TypeOK, docVars, reclaimVars
  <1>4. CASE FinishDelete(r)
    <2>1. Released(job[r.seq], "COMPLETED", "DELETED", 0) \in Job
      BY <1>0, RowTypes DEF Finished
    <2>2. job' \in [JobIds -> Job] /\ runs' \subseteq Run
      BY <1>0, <1>4, <2>1 DEF FinishDelete, TypeOK
    <2> QED
      BY <1>4, <2>2 DEF FinishDelete, TypeOK, RemoveAll, reclaimVars
  <1>5. CASE FailTransient(r)
    <2>1. now + Backoff \in Nat /\ "RETRY_WAIT" \in Unfinished \cup Finished
      BY DEF TypeOK, Unfinished
    <2>2. Released(job[r.seq], "RETRY_WAIT", "RETRY_SCHEDULED", now + Backoff) \in Job
      BY <1>0, <2>1, RowTypes
    <2>3. job' \in [JobIds -> Job] /\ runs' \subseteq Run
      BY <1>0, <1>5, <2>2 DEF FailTransient, TypeOK
    <2> QED
      BY <1>5, <2>3 DEF FailTransient, TypeOK, docVars, reclaimVars
  <1>6. CASE FailFinal(r)
    <2>1. job' \in [JobIds -> Job] /\ runs' \subseteq Run
      BY <1>6, ResultType DEF FailFinal, Finished
    <2> QED
      BY <1>6, <2>1 DEF FailFinal, TypeOK, docVars, reclaimVars
  <1>7. CASE DropRun(r)
    BY <1>7 DEF DropRun, TypeOK, docVars, reclaimVars
  <1> QED
    BY <1>1, <1>2, <1>3, <1>4, <1>5, <1>6, <1>7 DEF Execution

LEMMA ReclaimerType ==
  ASSUME TypeOK, Reclaimer, \A s \in JobIds : LeaseRanOut(s) => job[s].doc \in Docs
  PROVE  TypeOK'
  <1>1. CASE ReclaimScan
    <2>1. ASSUME NEW s \in JobIds, LeaseRanOut(s)
          PROVE  [seq |-> s, doc |-> job[s].doc, worker |-> job[s].worker,
                  epoch |-> job[s].epoch, lease |-> job[s].lease,
                  docEpoch |-> epoch[job[s].doc]] \in Candidate
      <3>1. job[s] \in Job /\ job[s].doc \in Docs /\ epoch[job[s].doc] \in Nat
        BY <2>1 DEF TypeOK
      <3> QED
        BY <3>1 DEF Candidate, Job
    <2>2. Expired \subseteq Candidate
      BY <2>1 DEF Expired
    <2> QED
      BY <1>1, <2>2 DEF ReclaimScan, FirstOf, TypeOK, docVars
  <1>2. ASSUME NEW c \in cands, ReclaimVisit(c) PROVE TypeOK'
    <2>1. c.seq \in JobIds /\ c.doc \in Docs
      BY DEF TypeOK, Candidate
    <2> QED
      BY <1>2, <2>1 DEF ReclaimVisit, TypeOK, docVars
  <1>3. CASE ReclaimCommit
    <2>1. job' \in [JobIds -> Job]
      BY <1>3, RowTypes DEF ReclaimCommit, TypeOK
    <2> QED
      BY <1>3, <2>1 DEF ReclaimCommit, ReleaseReclaimLocks, TypeOK, docVars
  <1>4. CASE ReclaimRollback
    BY <1>4 DEF ReclaimRollback, ReleaseReclaimLocks, TypeOK, docVars
  <1> QED
    BY <1>1, <1>2, <1>3, <1>4 DEF Reclaimer

----------------------------------------------------------------------------
(* The inductive invariant *)

LEMMA InitInv == Init => IInv
  <1> SUFFICES ASSUME Init PROVE IInv
    OBVIOUS
  <1>1. TypeOK
    BY InitType
  <1>2. \A s \in JobIds : job[s] = AbsentJob /\ s >= nextSeq /\ ~(s < nextSeq)
    BY DEF Init
  <1>3. RowsInv /\ LatestActive /\ EpochInv
    BY <1>2 DEF RowsInv, LatestActive, EpochInv
  <1>4. UploadInv /\ ReclaimInv /\ RunsInv
    BY DEF Init, UploadInv, ReclaimInv, RunsInv
  <1>5. InOrder /\ NoChunksAfterDelete
    BY <1>2 DEF InOrder, NoChunksAfterDelete, AbsentJob, NewJob
  <1>6. IndexedInv /\ SearchableIsServable
    BY DEF Init, IndexedInv, SearchableIsServable
  <1> QED
    BY <1>1, <1>3, <1>4, <1>5, <1>6 DEF IInv

\* What RowsInv says of a row that was inserted.
LEMMA RowFacts ==
  ASSUME TypeOK, RowsInv, NEW s \in JobIds
  PROVE  /\ s < nextSeq \/ s >= nextSeq
         /\ job[s].status # "ABSENT" => s < nextSeq
         /\ s < nextSeq =>
              /\ job[s].status # "ABSENT"
              /\ job[s].doc \in Docs
              /\ latest[job[s].doc] > 0
              /\ job[s].version <= latest[job[s].doc]
              /\ job[s].version = NoVersion => deleted[job[s].doc]
              /\ job[s].status = "PROCESSING" => job[s].attempt > 0
              /\ job[s].outcome = "DELETED" => job[s].version = NoVersion
  <1>1. nextSeq \in Nat
    BY DEF TypeOK
  <1>2. s < nextSeq \/ s >= nextSeq
    BY <1>1
  <1>3. s < nextSeq => ~(s >= nextSeq)
    BY <1>1
  <1>4. job[s].status # "ABSENT" => s < nextSeq
    BY <1>2 DEF RowsInv, AbsentJob, NewJob
  <1> QED
    BY <1>2, <1>3, <1>4 DEF RowsInv

\* A new row is unclaimed and the last of its document: nothing that holds of
\* the rows, the executions or an open reclaim transaction is disturbed.
LEMMA EnqueueInv ==
  ASSUME IInv, NEW d \in Docs, NEW v \in Versions \cup {NoVersion},
         Enqueue(d, v),
         latest'[d] > 0, v <= latest'[d], v = NoVersion => deleted'[d],
         \A c \in Docs : latest'[c] >= latest[c] /\ latest'[c] \in Nat,
         \A c \in Docs : deleted[c] => deleted'[c],
         \A c \in Docs : holder'[c] = "reclaim" <=> holder[c] = "reclaim",
         \A s \in JobIds :
           s < nextSeq /\ job[s].doc = d /\ job[s].version = v
             => job[s].status \in Finished,
         UNCHANGED <<now, chunks, epoch, runs, reclaim, cands, taken>>
  PROVE  /\ RowsInv' /\ InOrder' /\ LatestActive' /\ EpochInv'
         /\ RunsInv' /\ ReclaimInv' /\ NoChunksAfterDelete'
  <1> USE DEF IInv
  <1>1. /\ nextSeq \in JobIds /\ nextSeq' = nextSeq + 1
        /\ job'[nextSeq] = NewJob(d, v)
        /\ \A s \in JobIds : s # nextSeq => job'[s] = job[s]
    BY DEF Enqueue, TypeOK
  <1>2. \A s \in JobIds : s < nextSeq' <=> s < nextSeq \/ s = nextSeq
    BY <1>1
  <1>3. /\ job[nextSeq] = AbsentJob
        /\ \A s \in JobIds : s > nextSeq => job[s] = AbsentJob
    BY <1>1 DEF RowsInv
  <1>4. RowsInv'
    <2> SUFFICES ASSUME NEW s \in JobIds
                 PROVE  (IF s >= nextSeq
                         THEN job[s] = AbsentJob
                         ELSE /\ job[s].status # "ABSENT"
                              /\ job[s].doc \in Docs
                              /\ latest[job[s].doc] > 0
                              /\ job[s].version <= latest[job[s].doc]
                              /\ job[s].version = NoVersion => deleted[job[s].doc]
                              /\ job[s].status = "PROCESSING" => job[s].attempt > 0
                              /\ job[s].outcome = "DELETED" => job[s].version = NoVersion)'
      BY DEF RowsInv
    <2>1. CASE s = nextSeq
      BY <1>1, <2>1 DEF NewJob
    <2>2. CASE s > nextSeq
      BY <1>1, <1>3, <2>2
    <2>3. CASE s < nextSeq
      <3>1. job'[s] = job[s] /\ ~(s >= nextSeq)
        BY <1>1, <2>3
      <3>2. /\ job[s].doc \in Docs /\ latest[job[s].doc] > 0
            /\ job[s].version <= latest[job[s].doc]
        BY <3>1 DEF RowsInv
      <3>3. latest'[job[s].doc] > 0 /\ job[s].version <= latest'[job[s].doc]
        <4>1. latest[job[s].doc] \in Nat
          BY <3>2, DocTypes
        <4>2. job[s].version \in Nat
          BY RowDoc
        <4> QED
          BY <3>2, <4>1, <4>2
      <3>4. ~(s >= nextSeq')
        BY <1>1, <2>3
      <3> QED
        BY <3>1, <3>2, <3>3, <3>4 DEF RowsInv
    <2> QED
      BY <1>1, <2>1, <2>2, <2>3
  <1>5. InOrder'
    BY <1>1, <1>3, RowDoc DEF InOrder, NewJob, AbsentJob
  <1>6. LatestActive'
    BY <1>1, <1>2 DEF LatestActive, NewJob
  <1>7. EpochInv'
    BY <1>1, <1>2 DEF EpochInv, NewJob, TypeOK
  <1>8. RunsInv'
    <2>1. \A r \in runs : /\ r.seq \in JobIds /\ r.seq < nextSeq /\ r.seq # nextSeq
                          /\ job'[r.seq] = job[r.seq]
      BY <1>1 DEF RunsInv, TypeOK, Run
    <2> QED
      BY <1>1, <1>2, <2>1 DEF RunsInv
  <1>9. ReclaimInv'
    <2>1. ASSUME NEW s \in taken
          PROVE  /\ job'[s] = job[s] /\ job[s].doc \in Docs
                 /\ holder[job[s].doc] = "reclaim"
      <3>1. s \in JobIds /\ job[s].status = "PROCESSING"
        BY <2>1 DEF ReclaimInv, TypeOK
      <3>2. s < nextSeq
        BY <1>1, <3>1 DEF RowsInv, AbsentJob, NewJob
      <3> QED
        BY <1>1, <2>1, <3>1, <3>2 DEF RowsInv, ReclaimInv
    <2> QED
      BY <2>1 DEF ReclaimInv
  <1>10. NoChunksAfterDelete'
    BY <1>1 DEF NoChunksAfterDelete, NewJob
  <1> QED
    BY <1>4, <1>5, <1>6, <1>7, <1>8, <1>9, <1>10

\* A step that leaves the rows and the clock alone.
LEMMA RowsKept ==
  ASSUME IInv,
         UNCHANGED <<now, nextSeq, job, latest, deleted, chunks, epoch>>,
         runs' \subseteq runs
  PROVE  /\ RowsInv' /\ InOrder' /\ LatestActive' /\ EpochInv'
         /\ RunsInv' /\ NoChunksAfterDelete'
  <1>1. RowsInv' /\ InOrder'
    BY DEF IInv, RowsInv, InOrder
  <1>2. LatestActive' /\ EpochInv'
    BY DEF IInv, LatestActive, EpochInv
  <1>3. RunsInv'
    BY DEF IInv, RunsInv
  <1>4. NoChunksAfterDelete'
    BY DEF IInv, NoChunksAfterDelete
  <1> QED
    BY <1>1, <1>2, <1>3, <1>4

LEMMA ServerInv ==
  ASSUME IInv, NEW d \in Docs, Server(d)
  PROVE  IInv'
  <1> USE DEF IInv
  <1>0. TypeOK'
    BY ServerType
  <1>1. \A c \in Docs : latest[c] \in Nat
    BY DocTypes
  <1>2. CASE CreateDocument(d)
    <2>1. latest'[d] = 1 /\ \A c \in Docs : c # d => latest'[c] = latest[c]
      BY <1>2 DEF CreateDocument, TypeOK
    <2>2. \A s \in JobIds : s < nextSeq => job[s].doc # d
      BY <1>2, RowFacts DEF CreateDocument
    <2>3. \A c \in Docs : latest'[c] >= latest[c] /\ latest'[c] \in Nat
      BY <1>1, <1>2, <2>1 DEF CreateDocument
    <2>4. /\ RowsInv' /\ InOrder' /\ LatestActive' /\ EpochInv'
          /\ RunsInv' /\ ReclaimInv' /\ NoChunksAfterDelete'
      BY <1>2, <2>1, <2>2, <2>3, EnqueueInv DEF CreateDocument, reclaimVars
    <2>5. UploadInv'
      BY <1>2, <2>1 DEF CreateDocument, UploadInv
    <2>6. IndexedInv' /\ SearchableIsServable'
      BY <1>1, <1>2, <2>1, <2>3, DocTypes
         DEF CreateDocument, IndexedInv, SearchableIsServable
    <2> QED
      BY <1>0, <2>4, <2>5, <2>6
  <1>3. CASE UploadBegin(d)
    <2>1. /\ RowsInv' /\ InOrder' /\ LatestActive' /\ EpochInv'
          /\ RunsInv' /\ NoChunksAfterDelete'
      BY <1>3, RowsKept DEF UploadBegin, docVars
    <2>2. UploadInv'
      BY <1>3 DEF UploadBegin, Lockable, UploadInv, docVars, TypeOK
    <2>3. ReclaimInv'
      BY <1>3 DEF UploadBegin, Lockable, ReclaimInv, reclaimVars, TypeOK
    <2>4. IndexedInv' /\ SearchableIsServable'
      BY <1>3 DEF UploadBegin, IndexedInv, SearchableIsServable, docVars
    <2> QED
      BY <1>0, <2>1, <2>2, <2>3, <2>4
  <1>4. CASE UploadCommit(d)
    <2>1. /\ latest'[d] = latest[d] + 1
          /\ \A c \in Docs : c # d => latest'[c] = latest[c]
      BY <1>4 DEF UploadCommit, TypeOK
    <2>2. /\ latest[d] + 1 \in Versions
          /\ latest'[d] > 0 /\ latest[d] + 1 <= latest'[d]
          /\ latest[d] + 1 # NoVersion
      BY <1>1, <1>4, <2>1 DEF UploadCommit, UploadInv
    <2>3. ASSUME NEW s \in JobIds, s < nextSeq, job[s].doc = d
          PROVE  job[s].version # latest[d] + 1
      <3>1. job[s].version <= latest[d]
        BY <2>3, RowFacts
      <3>2. job[s].version \in Nat
        BY RowDoc
      <3> QED
        BY <1>1, <3>1, <3>2
    <2>4. \A c \in Docs : latest'[c] >= latest[c] /\ latest'[c] \in Nat
      BY <1>1, <2>1
    <2>5. \A c \in Docs : holder'[c] = "reclaim" <=> holder[c] = "reclaim"
      BY <1>4 DEF UploadCommit, TypeOK
    <2>6. /\ RowsInv' /\ InOrder' /\ LatestActive' /\ EpochInv'
          /\ RunsInv' /\ ReclaimInv' /\ NoChunksAfterDelete'
      <3> DEFINE v == latest[d] + 1
      <3>1. Enqueue(d, v)
        BY <1>4 DEF UploadCommit
      <3>2. UNCHANGED <<now, deleted, chunks, epoch, runs, reclaim, cands, taken>>
        BY <1>4 DEF UploadCommit, reclaimVars
      <3>3. /\ v \in Versions \cup {NoVersion} /\ v <= latest'[d]
            /\ v # NoVersion
            /\ \A s \in JobIds : s < nextSeq /\ job[s].doc = d => job[s].version # v
        BY <2>2, <2>3
      <3> HIDE DEF v
      <3> QED
        BY <2>2, <2>4, <2>5, <3>1, <3>2, <3>3, EnqueueInv
    <2>7. UploadInv'
      BY <1>4, <2>1 DEF UploadCommit, UploadInv, TypeOK
    <2>8. IndexedInv' /\ SearchableIsServable'
      <3>1. UNCHANGED <<deleted, searchable, indexed, chunks>>
        BY <1>4 DEF UploadCommit
      <3>2. \A c \in Docs, v \in Nat : v <= latest[c] => v <= latest'[c]
        BY <1>1, <2>4
      <3>3. \A c \in Docs : searchable[c] \in Nat /\ indexed[c] \subseteq Nat
        BY DocTypes
      <3> QED
        BY <3>1, <3>2, <3>3 DEF IndexedInv, SearchableIsServable
    <2> QED
      BY <1>0, <2>6, <2>7, <2>8
  <1>5. CASE UploadRollback(d)
    <2>1. /\ RowsInv' /\ InOrder' /\ LatestActive' /\ EpochInv'
          /\ RunsInv' /\ NoChunksAfterDelete'
      BY <1>5, RowsKept DEF UploadRollback, docVars
    <2>2. UploadInv'
      BY <1>5 DEF UploadRollback, UploadInv, docVars, TypeOK
    <2>3. ReclaimInv'
      BY <1>5 DEF UploadRollback, ReclaimInv, reclaimVars, TypeOK
    <2>4. IndexedInv' /\ SearchableIsServable'
      BY <1>5 DEF UploadRollback, IndexedInv, SearchableIsServable, docVars
    <2> QED
      BY <1>0, <2>1, <2>2, <2>3, <2>4
  <1>6. CASE DeleteDocument(d)
    <2>1. /\ latest[d] > 0 /\ ~deleted[d] /\ holder[d] = "none"
          /\ deleted'[d]
          /\ \A c \in Docs : deleted[c] => deleted'[c]
          /\ \A c \in Docs : c # d => deleted'[c] = deleted[c]
      BY <1>6 DEF DeleteDocument, Lockable, TypeOK
    <2>2. UNCHANGED <<now, latest, searchable, indexed, chunks, epoch, holder,
                      runs, reclaim, cands, taken>>
      BY <1>6 DEF DeleteDocument, reclaimVars
    <2>3. \A s \in JobIds :
            s < nextSeq /\ job[s].doc = d => job[s].version # NoVersion
      BY <2>1, RowFacts
    <2>4. Enqueue(d, NoVersion)
      BY <1>6 DEF DeleteDocument
    <2>5. NoVersion <= latest'[d] /\ latest'[d] > 0
      BY <1>1, <2>1, <2>2
    <2>6. \A c \in Docs : latest'[c] >= latest[c] /\ latest'[c] \in Nat
      BY <1>1, <2>2
    <2>7. /\ RowsInv' /\ InOrder' /\ LatestActive' /\ EpochInv'
          /\ RunsInv' /\ ReclaimInv' /\ NoChunksAfterDelete'
      BY <2>1, <2>2, <2>3, <2>4, <2>5, <2>6, EnqueueInv
    <2>8. UploadInv'
      BY <2>1, <2>2 DEF UploadInv
    <2>9. IndexedInv' /\ SearchableIsServable'
      BY <2>1, <2>2 DEF IndexedInv, SearchableIsServable
    <2> QED
      BY <1>0, <2>7, <2>8, <2>9
  <1>7. ASSUME NEW v \in Versions, Retry(d, v) PROVE IInv'
    <2>1. UNCHANGED <<now, docVars, epoch, holder, runs, reclaim, cands, taken>>
      BY <1>7 DEF Retry, reclaimVars
    <2>2. Enqueue(d, v) /\ latest[d] > 0 /\ v <= latest[d] /\ v # NoVersion
      BY <1>7 DEF Retry, Lockable
    <2>3. \A s \in JobIds :
            s < nextSeq /\ job[s].doc = d /\ job[s].version = v
              => job[s].status \in Finished
      <3>1. PICK t \in JobsOf(d, v) :
              (\A s \in JobsOf(d, v) : s <= t) /\ job[t].status = "FAILED"
        BY <1>7 DEF Retry, LatestJobHas
      <3>2. /\ t \in JobIds /\ t < nextSeq
            /\ job[t].doc = d /\ job[t].version = v
        BY <3>1 DEF JobsOf, RowsInv, AbsentJob, NewJob, TypeOK
      <3>3. \A s \in JobIds :
              s < nextSeq /\ job[s].doc = d /\ job[s].version = v
                => s \in JobsOf(d, v)
        BY DEF JobsOf, RowsInv, TypeOK
      <3>4. "FAILED" \in Finished
        BY DEF Finished
      <3> QED
        BY <3>1, <3>2, <3>3, <3>4 DEF LatestActive
    <2>4. \A c \in Docs : latest'[c] >= latest[c] /\ latest'[c] \in Nat
      BY <1>1, <2>1 DEF docVars
    <2>5. /\ RowsInv' /\ InOrder' /\ LatestActive' /\ EpochInv'
          /\ RunsInv' /\ ReclaimInv' /\ NoChunksAfterDelete'
      BY <2>1, <2>2, <2>3, <2>4, EnqueueInv DEF docVars
    <2>6. UploadInv'
      BY <2>1 DEF UploadInv, docVars
    <2>7. IndexedInv' /\ SearchableIsServable'
      BY <2>1 DEF IndexedInv, SearchableIsServable, docVars
    <2> QED
      BY <1>0, <2>5, <2>6, <2>7
  <1>8. ASSUME NEW v \in Versions, SetSearchable(d, v) PROVE IInv'
    <2>1. UNCHANGED <<now, nextSeq, job, latest, deleted, indexed, chunks, epoch,
                      holder, runs, reclaim, cands, taken>>
      BY <1>8 DEF SetSearchable, reclaimVars
    <2>2. /\ RowsInv' /\ InOrder' /\ LatestActive' /\ EpochInv'
          /\ RunsInv' /\ NoChunksAfterDelete'
      BY <2>1, RowsKept
    <2>3. UploadInv' /\ ReclaimInv'
      BY <2>1 DEF UploadInv, ReclaimInv
    <2>4. IndexedInv'
      BY <2>1 DEF IndexedInv
    <2>5. SearchableIsServable'
      BY <1>8, <2>1 DEF SetSearchable, SearchableIsServable, IndexedInv, TypeOK
    <2> QED
      BY <1>0, <2>2, <2>3, <2>4, <2>5
  <1> QED
    BY <1>2, <1>3, <1>4, <1>5, <1>6, <1>7, <1>8 DEF Server

LEMMA ClaimInv ==
  ASSUME IInv, NEW w \in Workers, NEW s \in JobIds, Claim(w, s)
  PROVE  IInv'
  <1> DEFINE d == job[s].doc
             e == NextEpoch(d)
             r == [seq |-> s, worker |-> w, epoch |-> e,
                   attempt |-> job[s].attempt + 1, beats |-> 0]
  <1> USE DEF IInv
  <1>1. /\ job[s].status \in {"PENDING", "RETRY_WAIT"}
        /\ s < nextSeq /\ d \in Docs /\ holder[d] = "none"
    BY RowFacts DEF Claim, Eligible
  <1>2. /\ UNCHANGED <<now, nextSeq, latest, deleted, searchable, indexed, chunks,
                       holder, reclaim, cands, taken>>
        /\ runs' = runs \cup {r}
        /\ epoch'[d] = epoch[d] + 1 /\ epoch[d] \in Nat
        /\ \A c \in Docs : c # d => epoch'[c] = epoch[c]
    BY <1>1 DEF Claim, NextEpoch, TypeOK, docVars, reclaimVars
  <1>3. /\ \A t \in JobIds : t # s => job'[t] = job[t]
        /\ job'[s] = Claimed(job[s], w, e)
    BY DEF Claim, TypeOK
  <1>4. /\ job'[s].doc = d /\ job'[s].version = job[s].version
        /\ job'[s].status = "PROCESSING" /\ job'[s].epoch = epoch[d] + 1
        /\ job'[s].attempt > 0 /\ job'[s].outcome = "NONE"
    BY <1>1, <1>3, RowDoc DEF Claimed, Job, NextEpoch
  <1>5. \A t \in JobIds : job'[t].doc = job[t].doc /\ job'[t].version = job[t].version
    BY <1>3, <1>4
  <1>6. TypeOK'
    BY <1>1, ClaimType
  <1>7. RowsInv'
    <2>1. ASSUME NEW t \in JobIds, t >= nextSeq PROVE job'[t] = AbsentJob
      <3>1. nextSeq \in Nat
        BY DEF TypeOK
      <3>2. t # s
        BY <1>1, <2>1, <3>1
      <3> QED
        BY <1>3, <2>1, <3>2 DEF RowsInv
    <2>2. ASSUME NEW t \in JobIds, t < nextSeq, t # s
          PROVE  job'[t] = job[t]
      BY <1>3, <2>2
    <2> QED
      BY <1>1, <1>2, <1>4, <1>5, <2>1, <2>2, RowFacts DEF RowsInv
  <1>8. InOrder'
    <2> SUFFICES ASSUME NEW t \in JobIds, NEW u \in JobIds, t < u,
                        job'[t].doc = job'[u].doc, job'[u].attempt > 0
                 PROVE  job'[t].status \in Finished
      BY DEF InOrder
    <2>1. CASE u = s
      <3>1. job[t].status \notin Unfinished /\ job'[t] = job[t]
        BY <1>3, <1>5, <2>1 DEF Claim, Eligible, FirstUnfinished
      <3>2. t < nextSeq
        BY <1>1, <2>1, <1>2 DEF TypeOK
      <3> QED
        BY <3>1, <3>2, RowFacts, RowDoc DEF Job
    <2>2. CASE u # s
      <3>1. job[u].attempt > 0 /\ job[t].doc = job[u].doc
        BY <1>3, <1>5, <2>2
      <3>2. job[t].status \in Finished
        BY <3>1 DEF InOrder
      <3>3. t # s
        BY <1>1, <3>2 DEF Finished
      <3> QED
        BY <1>3, <3>2, <3>3
    <2> QED
      BY <2>1, <2>2
  <1>9. LatestActive'
    <2> SUFFICES ASSUME NEW t \in JobIds, NEW u \in JobIds, t < u, u < nextSeq,
                        job[t].doc = job[u].doc, job[t].version = job[u].version
                 PROVE  job'[t].status \in Finished
      BY <1>2, <1>5 DEF LatestActive
    <2>1. job[t].status \in Finished
      BY DEF LatestActive
    <2> QED
      BY <1>1, <1>3, <2>1 DEF Finished
  <1>10. EpochInv'
    <2> SUFFICES ASSUME NEW t \in JobIds, t < nextSeq
                 PROVE  /\ job'[t].epoch <= epoch'[job[t].doc]
                        /\ job'[t].status = "PROCESSING"
                             => job'[t].epoch = epoch'[job[t].doc]
      BY <1>2, <1>5 DEF EpochInv
    <2>1. CASE t = s
      BY <1>2, <1>4, <2>1
    <2>2. CASE t # s /\ job[t].doc # d
      <3>1. job[t].doc \in Docs
        BY RowFacts
      <3> QED
        BY <1>2, <1>3, <2>2, <3>1 DEF EpochInv
    <2>3. CASE t # s /\ job[t].doc = d
      <3>1. job[t].status # "PROCESSING"
        <4>1. ASSUME job[t].status = "PROCESSING" PROVE FALSE
          <5>1. job[t].attempt > 0
            BY <4>1, RowFacts
          <5>2. CASE s < t
            BY <1>1, <2>3, <5>1, <5>2 DEF InOrder, Finished
          <5>3. CASE t < s
            BY <2>3, <4>1, <5>3 DEF Claim, Eligible, FirstUnfinished, Unfinished
          <5> QED
            BY <2>3, <5>2, <5>3
        <4> QED
          BY <4>1
      <3>2. job[t].epoch <= epoch[d] /\ job[t].epoch \in Nat
        BY <2>3, RowDoc DEF EpochInv
      <3> QED
        BY <1>2, <1>3, <2>3, <3>1, <3>2
    <2> QED
      BY <2>1, <2>2, <2>3
  <1>11. RunsInv'
    <2>1. \A a \in runs : /\ a.seq \in JobIds /\ a.seq < nextSeq /\ a.epoch \in Nat
                          /\ job[a.seq].doc \in Docs
                          /\ a.epoch <= epoch[job[a.seq].doc]
      BY RowFacts DEF RunsInv, TypeOK, Run
    <2>2. \A a \in runs : a.epoch <= epoch'[job[a.seq].doc]
      BY <1>2, <2>1
    <2>3. \A a \in runs : job[a.seq].doc = d => a.epoch # e
      BY <1>2, <2>1 DEF NextEpoch
    <2>4. r.seq = s /\ r.epoch = e /\ e = epoch'[d]
      BY <1>2 DEF NextEpoch
    <2>5. \A a \in runs' : a \in runs \/ a = r
      BY <1>2
    <2>6. \A a \in runs' : a.seq \in JobIds /\ a.seq < nextSeq /\ a.epoch <= epoch'[job[a.seq].doc]
      BY <1>1, <1>2, <2>1, <2>2, <2>4, <2>5
    <2>7. ASSUME NEW a \in runs', NEW b \in runs',
                 job[a.seq].doc = job[b.seq].doc, a.epoch = b.epoch
          PROVE  a = b
      BY <2>3, <2>4, <2>5, <2>7 DEF RunsInv
    <2> QED
      BY <1>2, <1>5, <2>6, <2>7 DEF RunsInv
  <1>12. ReclaimInv'
    <2>1. \A t \in taken : t \in JobIds /\ t # s
      BY <1>1 DEF ReclaimInv, TypeOK
    <2> QED
      BY <1>2, <1>3, <2>1 DEF ReclaimInv
  <1>13. UploadInv' /\ IndexedInv' /\ SearchableIsServable'
    BY <1>2 DEF UploadInv, IndexedInv, SearchableIsServable
  <1>14. NoChunksAfterDelete'
    BY <1>2, <1>3, <1>4 DEF NoChunksAfterDelete
  <1> QED
    BY <1>6, <1>7, <1>8, <1>9, <1>10, <1>11, <1>12, <1>13, <1>14

\* A heartbeat or a result write: the owner replaces its row under a free
\* document row lock, keeping the document, version, attempt and epoch.
LEMMA OwnerWrites ==
  ASSUME IInv, NEW r \in runs, Owns(r), holder[job[r.seq].doc] = "none",
         NEW row, job' = [job EXCEPT ![r.seq] = row],
         row.doc = job[r.seq].doc, row.version = job[r.seq].version,
         row.attempt = job[r.seq].attempt, row.epoch = job[r.seq].epoch,
         row.status \in Unfinished \cup Finished,
         row.outcome = "DELETED" => row.version = NoVersion,
         UNCHANGED <<now, nextSeq, latest, deleted, epoch, holder,
                     reclaim, cands, taken>>
  PROVE  /\ \A s \in JobIds : job'[s].doc = job[s].doc
         /\ job[r.seq].doc \in Docs
         /\ RowsInv' /\ InOrder' /\ LatestActive' /\ EpochInv'
         /\ ReclaimInv' /\ UploadInv'
  <1> DEFINE s == r.seq
  <1> USE DEF IInv
  <1>1. /\ s \in JobIds /\ s < nextSeq /\ job[s].status = "PROCESSING"
        /\ job[s].doc \in Docs /\ job[s].attempt > 0
    <2>1. s \in JobIds /\ job[s].status = "PROCESSING"
      BY DEF TypeOK, Run, Owns
    <2> QED
      BY <2>1, RowFacts
  <1>2. job'[s] = row /\ \A t \in JobIds : t # s => job'[t] = job[t]
    BY <1>1 DEF TypeOK
  <1>3. \A t \in JobIds :
          /\ job'[t].doc = job[t].doc /\ job'[t].version = job[t].version
          /\ job'[t].attempt = job[t].attempt /\ job'[t].epoch = job[t].epoch
    BY <1>2
  <1>4. RowsInv'
    <2>1. ASSUME NEW t \in JobIds, t >= nextSeq PROVE job'[t] = AbsentJob
      <3>1. nextSeq \in Nat
        BY DEF TypeOK
      <3>2. t # s
        BY <1>1, <2>1, <3>1
      <3> QED
        BY <1>2, <2>1, <3>2 DEF RowsInv
    <2>2. "ABSENT" \notin Unfinished \cup Finished
      BY DEF Unfinished, Finished
    <2>3. ASSUME NEW t \in JobIds, t < nextSeq
          PROVE  /\ job'[t].status # "ABSENT"
                 /\ job'[t].status = "PROCESSING" => job'[t].attempt > 0
                 /\ job'[t].outcome = "DELETED" => job'[t].version = NoVersion
      BY <1>1, <1>2, <2>2, <2>3, RowFacts
    <2> QED
      BY <1>3, <2>1, <2>3, RowFacts DEF RowsInv
  <1>5. InOrder'
    BY <1>1, <1>2, <1>3 DEF InOrder, Finished
  <1>6. LatestActive'
    BY <1>1, <1>2, <1>3 DEF LatestActive, Finished
  <1>7. EpochInv'
    <2>1. ASSUME NEW t \in JobIds, t < nextSeq
          PROVE  /\ job'[t].epoch <= epoch'[job'[t].doc]
                 /\ job'[t].status = "PROCESSING" => job'[t].epoch = epoch'[job'[t].doc]
      BY <1>1, <1>2, <1>3, <2>1 DEF EpochInv
    <2> QED
      BY <2>1 DEF EpochInv
  <1>8. ReclaimInv'
    <2>1. \A t \in taken : t \in JobIds /\ t # s
      BY DEF ReclaimInv, TypeOK
    <2> QED
      BY <1>2, <2>1 DEF ReclaimInv
  <1>9. UploadInv'
    BY DEF UploadInv
  <1> QED
    BY <1>1, <1>3, <1>4, <1>5, <1>6, <1>7, <1>8, <1>9

\* What a released row keeps.
LEMMA ReleasedRow ==
  ASSUME NEW j \in Job, NEW status, NEW outcome, NEW retryAt
  PROVE  /\ Released(j, status, outcome, retryAt).doc = j.doc
         /\ Released(j, status, outcome, retryAt).version = j.version
         /\ Released(j, status, outcome, retryAt).attempt = j.attempt
         /\ Released(j, status, outcome, retryAt).epoch = j.epoch
         /\ Released(j, status, outcome, retryAt).status = status
         /\ Released(j, status, outcome, retryAt).outcome = outcome
  BY DEF Released, Job

\* An execution ends: the runs that are left keep their epochs.
LEMMA RunEnds ==
  ASSUME RunsInv, runs' \subseteq runs, TypeOK,
         \A s \in JobIds : job'[s].doc = job[s].doc,
         UNCHANGED <<nextSeq, epoch>>
  PROVE  RunsInv'
  <1>1. \A r \in runs' : r \in runs /\ r.seq \in JobIds
    BY DEF TypeOK, Run
  <1> QED
    BY <1>1 DEF RunsInv

\* A result write that touches no document column but its job row.
LEMMA ResultInv ==
  ASSUME IInv, NEW r \in runs, MayWriteResult(r), TypeOK',
         NEW status \in Unfinished \cup Finished, NEW outcome, NEW retryAt,
         outcome # "DELETED",
         job' = [job EXCEPT ![r.seq] = Released(@, status, outcome, retryAt)],
         runs' = runs \ {r},
         UNCHANGED <<now, nextSeq, docVars, epoch, holder, reclaimVars>>
  PROVE  IInv'
  <1> DEFINE row == Released(job[r.seq], status, outcome, retryAt)
  <1>1. r.seq \in JobIds /\ job[r.seq] \in Job
    BY DEF IInv, TypeOK, Run
  <1>2. /\ row.doc = job[r.seq].doc /\ row.version = job[r.seq].version
        /\ row.attempt = job[r.seq].attempt /\ row.epoch = job[r.seq].epoch
        /\ row.status = status /\ row.outcome = outcome
    BY <1>1, ReleasedRow
  <1>3. job' = [job EXCEPT ![r.seq] = row]
    OBVIOUS
  <1>4. UNCHANGED <<now, nextSeq, latest, deleted, searchable, indexed, chunks,
                    epoch, holder, reclaim, cands, taken>>
    BY DEF docVars, reclaimVars
  <1>5. Owns(r) /\ holder[job[r.seq].doc] = "none"
    BY DEF MayWriteResult
  <1> HIDE DEF row
  <1>6. /\ \A s \in JobIds : job'[s].doc = job[s].doc
        /\ RowsInv' /\ InOrder' /\ LatestActive' /\ EpochInv'
        /\ ReclaimInv' /\ UploadInv'
    BY <1>2, <1>3, <1>4, <1>5, OwnerWrites
  <1>7. RunsInv'
    BY <1>4, <1>6, RunEnds DEF IInv
  <1>8. IndexedInv' /\ SearchableIsServable'
    BY <1>4 DEF IInv, IndexedInv, SearchableIsServable
  <1>9. NoChunksAfterDelete'
    <2>1. ASSUME NEW s \in JobIds, job'[s].outcome = "DELETED"
          PROVE  s # r.seq /\ job'[s] = job[s]
      BY <1>1, <1>2, <1>3, <2>1 DEF IInv, TypeOK
    <2> QED
      BY <1>4, <2>1 DEF IInv, NoChunksAfterDelete
  <1> QED
    BY <1>6, <1>7, <1>8, <1>9 DEF IInv

LEMMA FinishIndexInv ==
  ASSUME IInv, NEW r \in runs, FinishIndex(r), TypeOK'
  PROVE  IInv'
  <1> DEFINE d == job[r.seq].doc
             v == job[r.seq].version
             row == Released(job[r.seq], "COMPLETED", "INDEXED", 0)
  <1>1. r.seq \in JobIds /\ job[r.seq] \in Job /\ TypeOK
    BY DEF IInv, TypeOK, Run
  <1>2. /\ row.doc = job[r.seq].doc /\ row.version = job[r.seq].version
        /\ row.attempt = job[r.seq].attempt /\ row.epoch = job[r.seq].epoch
        /\ row.status = "COMPLETED" /\ row.outcome = "INDEXED"
    BY <1>1, ReleasedRow
  <1>3. job' = [job EXCEPT ![r.seq] = row] /\ runs' = runs \ {r}
    BY DEF FinishIndex
  <1>4. UNCHANGED <<now, nextSeq, latest, deleted, epoch, holder, reclaim, cands,
                    taken>>
    BY DEF FinishIndex, reclaimVars
  <1>5. Owns(r) /\ holder[d] = "none" /\ ~deleted[d] /\ v # NoVersion
    BY DEF FinishIndex, MayWriteResult
  <1> HIDE DEF row
  <1>6. /\ \A s \in JobIds : job'[s].doc = job[s].doc
        /\ d \in Docs
        /\ RowsInv' /\ InOrder' /\ LatestActive' /\ EpochInv'
        /\ ReclaimInv' /\ UploadInv'
    BY <1>2, <1>3, <1>4, <1>5, OwnerWrites DEF Finished
  <1>7. RunsInv'
    BY <1>1, <1>3, <1>4, <1>6, RunEnds DEF IInv
  <1>8. /\ chunks'[d] = chunks[d] \cup {v} /\ indexed'[d] = indexed[d] \cup {v}
        /\ searchable'[d] \in {v, searchable[d]}
        /\ \A c \in Docs : c # d => /\ chunks'[c] = chunks[c]
                                    /\ indexed'[c] = indexed[c]
                                    /\ searchable'[c] = searchable[c]
    BY <1>1, <1>6 DEF FinishIndex, TypeOK, Promote
  <1>9. v <= latest[d]
    <2>1. job[r.seq].status # "ABSENT"
      BY <1>5 DEF Owns
    <2> QED
      BY <1>1, <2>1, RowFacts DEF IInv
  <1>10. IndexedInv'
    BY <1>4, <1>8, <1>9 DEF IInv, IndexedInv
  <1>11. SearchableIsServable'
    BY <1>4, <1>5, <1>8, <1>9 DEF IInv, SearchableIsServable
  <1>12. NoChunksAfterDelete'
    <2> SUFFICES ASSUME NEW s \in JobIds, job'[s].outcome = "DELETED"
                 PROVE  chunks'[job'[s].doc] = {}
      BY DEF NoChunksAfterDelete
    <2>1. s # r.seq /\ job'[s] = job[s]
      BY <1>1, <1>2, <1>3 DEF TypeOK
    <2>2. job[s].status # "ABSENT"
      BY <2>1 DEF IInv, RowsInv, AbsentJob, NewJob
    <2>3. job[s].doc \in Docs /\ deleted[job[s].doc]
      BY <1>1, <2>1, <2>2, RowFacts DEF IInv
    <2> QED
      BY <1>5, <1>8, <2>1, <2>3 DEF IInv, NoChunksAfterDelete
  <1> QED
    BY <1>6, <1>7, <1>10, <1>11, <1>12 DEF IInv

LEMMA FinishDeleteInv ==
  ASSUME IInv, NEW r \in runs, FinishDelete(r), TypeOK'
  PROVE  IInv'
  <1> DEFINE d == job[r.seq].doc
             row == Released(job[r.seq], "COMPLETED", "DELETED", 0)
  <1>1. r.seq \in JobIds /\ job[r.seq] \in Job /\ TypeOK
    BY DEF IInv, TypeOK, Run
  <1>2. /\ row.doc = job[r.seq].doc /\ row.version = job[r.seq].version
        /\ row.attempt = job[r.seq].attempt /\ row.epoch = job[r.seq].epoch
        /\ row.status = "COMPLETED" /\ row.outcome = "DELETED"
    BY <1>1, ReleasedRow
  <1>3. job' = [job EXCEPT ![r.seq] = row] /\ runs' = runs \ {r}
    BY DEF FinishDelete
  <1>4. UNCHANGED <<now, nextSeq, latest, deleted, searchable, indexed, epoch,
                    holder, reclaim, cands, taken>>
    BY DEF FinishDelete, reclaimVars
  <1>5. Owns(r) /\ holder[d] = "none" /\ job[r.seq].version = NoVersion
    BY DEF FinishDelete, MayWriteResult
  <1> HIDE DEF row
  <1>6. /\ \A s \in JobIds : job'[s].doc = job[s].doc
        /\ d \in Docs
        /\ RowsInv' /\ InOrder' /\ LatestActive' /\ EpochInv'
        /\ ReclaimInv' /\ UploadInv'
    BY <1>2, <1>3, <1>4, <1>5, OwnerWrites DEF Finished
  <1>7. RunsInv'
    BY <1>1, <1>3, <1>4, <1>6, RunEnds DEF IInv
  <1>8. /\ chunks'[d] = {}
        /\ \A c \in Docs : c # d => chunks'[c] = chunks[c]
    BY <1>1, <1>6 DEF FinishDelete, TypeOK, RemoveAll
  <1>9. deleted[d]
    <2>1. job[r.seq].status # "ABSENT"
      BY <1>5 DEF Owns
    <2> QED
      BY <1>1, <1>5, <2>1, RowFacts DEF IInv
  <1>10. IndexedInv' /\ SearchableIsServable'
    BY <1>4, <1>8, <1>9 DEF IInv, IndexedInv, SearchableIsServable
  <1>11. NoChunksAfterDelete'
    <2> SUFFICES ASSUME NEW s \in JobIds, job'[s].outcome = "DELETED"
                 PROVE  chunks'[job'[s].doc] = {}
      BY DEF NoChunksAfterDelete
    <2>1. CASE s = r.seq
      BY <1>6, <1>8, <2>1
    <2>2. CASE s # r.seq
      <3>1. job'[s] = job[s]
        BY <1>1, <1>3, <2>2 DEF TypeOK
      <3>2. job[s].status # "ABSENT"
        BY <3>1 DEF IInv, RowsInv, AbsentJob, NewJob
      <3>3. job[s].doc \in Docs
        BY <1>1, <3>2, RowFacts DEF IInv
      <3> QED
        BY <1>8, <3>1, <3>3 DEF IInv, NoChunksAfterDelete
    <2> QED
      BY <2>1, <2>2
  <1> QED
    BY <1>6, <1>7, <1>10, <1>11 DEF IInv

LEMMA ExecutionInv ==
  ASSUME IInv, NEW r \in runs, Execution(r)
  PROVE  IInv'
  <1>1. TypeOK /\ r.seq \in JobIds /\ job[r.seq] \in Job
    BY DEF IInv, TypeOK, Run
  <1>2. job[r.seq].doc \in Docs
    BY <1>1, RowFacts DEF IInv, RunsInv
  <1>3. TypeOK'
    BY <1>1, <1>2, ExecutionType
  <1>4. CASE Heartbeat(r)
    <2> DEFINE row == [job[r.seq] EXCEPT !.lease = now + Lease]
               q == [r EXCEPT !.beats = @ + 1]
    <2>1. /\ row.doc = job[r.seq].doc /\ row.version = job[r.seq].version
          /\ row.attempt = job[r.seq].attempt /\ row.epoch = job[r.seq].epoch
          /\ row.status = job[r.seq].status /\ row.outcome = job[r.seq].outcome
      BY <1>1 DEF Job
    <2>2. job' = [job EXCEPT ![r.seq] = row] /\ runs' = (runs \ {r}) \cup {q}
      BY <1>4 DEF Heartbeat
    <2>3. UNCHANGED <<now, nextSeq, latest, deleted, searchable, indexed, chunks,
                      epoch, holder, reclaim, cands, taken>>
      BY <1>4 DEF Heartbeat, docVars, reclaimVars
    <2>4. Owns(r) /\ holder[job[r.seq].doc] = "none"
      BY <1>4 DEF Heartbeat
    <2>5. q.seq = r.seq /\ q.epoch = r.epoch
      BY <1>1 DEF TypeOK, Run
    <2>6. job[r.seq].status \in Unfinished
      BY <2>4 DEF Owns, Unfinished
    <2>7. job[r.seq].outcome = "DELETED" => job[r.seq].version = NoVersion
      BY <1>1, <2>4, RowFacts DEF IInv, Owns
    <2> HIDE DEF row, q
    <2>8. /\ \A s \in JobIds : job'[s].doc = job[s].doc
          /\ RowsInv' /\ InOrder' /\ LatestActive' /\ EpochInv'
          /\ ReclaimInv' /\ UploadInv'
      BY <2>1, <2>2, <2>3, <2>4, <2>6, <2>7, OwnerWrites
    <2>9. RunsInv'
      <3>1. \A a \in runs' : a \in runs \/ a = q
        BY <2>2
      <3>2. \A a \in runs : a.seq \in JobIds
        BY <1>1 DEF TypeOK, Run
      <3>3. \A a \in runs' : a.seq < nextSeq /\ a.epoch <= epoch[job'[a.seq].doc]
        BY <2>5, <2>8, <3>1, <3>2 DEF IInv, RunsInv
      <3>4. ASSUME NEW a \in runs', NEW b \in runs',
                   job'[a.seq].doc = job'[b.seq].doc, a.epoch = b.epoch
            PROVE  a = b
        <4>1. CASE a = q /\ b = q
          BY <4>1
        <4>2. CASE a = q /\ b # q
          <5>1. b \in runs /\ b # r
            BY <2>2, <4>2
          <5>2. job[b.seq].doc = job[r.seq].doc /\ b.epoch = r.epoch
            BY <1>1, <2>5, <2>8, <3>2, <3>4, <4>2, <5>1
          <5> QED
            BY <5>1, <5>2 DEF IInv, RunsInv
        <4>3. CASE a # q /\ b = q
          <5>1. a \in runs /\ a # r
            BY <2>2, <4>3
          <5>2. job[a.seq].doc = job[r.seq].doc /\ a.epoch = r.epoch
            BY <1>1, <2>5, <2>8, <3>2, <3>4, <4>3, <5>1
          <5> QED
            BY <5>1, <5>2 DEF IInv, RunsInv
        <4>4. CASE a # q /\ b # q
          BY <2>8, <3>1, <3>2, <3>4, <4>4 DEF IInv, RunsInv
        <4> QED
          BY <4>1, <4>2, <4>3, <4>4
      <3> QED
        BY <2>3, <3>3, <3>4 DEF RunsInv
    <2>10. IndexedInv' /\ SearchableIsServable'
      BY <2>3 DEF IInv, IndexedInv, SearchableIsServable
    <2>11. NoChunksAfterDelete'
      <3>1. \A s \in JobIds : job'[s].outcome = job[s].outcome
        BY <1>1, <2>1, <2>2 DEF TypeOK
      <3> QED
        BY <2>3, <2>8, <3>1 DEF IInv, NoChunksAfterDelete
    <2> QED
      BY <1>3, <2>8, <2>9, <2>10, <2>11 DEF IInv
  <1>5. CASE FinishIndex(r)
    BY <1>3, <1>5, FinishIndexInv
  <1>6. CASE SkipIndex(r)
    BY <1>3, <1>6, ResultInv DEF SkipIndex, Finished
  <1>7. CASE FinishDelete(r)
    BY <1>3, <1>7, FinishDeleteInv
  <1>8. CASE FailTransient(r)
    BY <1>3, <1>8, ResultInv DEF FailTransient, Unfinished
  <1>9. CASE FailFinal(r)
    BY <1>3, <1>9, ResultInv DEF FailFinal, Finished
  <1>10. CASE DropRun(r)
    <2>1. UNCHANGED <<now, nextSeq, job, latest, deleted, searchable, indexed,
                      chunks, epoch, holder, reclaim, cands, taken>>
      BY <1>10 DEF DropRun, docVars, reclaimVars
    <2>2. /\ RowsInv' /\ InOrder' /\ LatestActive' /\ EpochInv'
          /\ RunsInv' /\ NoChunksAfterDelete'
      BY <1>10, <2>1, RowsKept DEF DropRun
    <2>3. UploadInv' /\ ReclaimInv' /\ IndexedInv' /\ SearchableIsServable'
      BY <2>1 DEF IInv, UploadInv, ReclaimInv, IndexedInv, SearchableIsServable
    <2> QED
      BY <1>3, <2>2, <2>3 DEF IInv
  <1> QED
    BY <1>4, <1>5, <1>6, <1>7, <1>8, <1>9, <1>10 DEF Execution

\* What a reclaimed row keeps.
LEMMA ReclaimedRow ==
  ASSUME NEW j \in Job
  PROVE  /\ Reclaimed(j).doc = j.doc
         /\ Reclaimed(j).version = j.version
         /\ Reclaimed(j).attempt = j.attempt
         /\ Reclaimed(j).epoch = j.epoch
         /\ Reclaimed(j).outcome = j.outcome
         /\ Reclaimed(j).status = "PENDING"
  BY DEF Reclaimed, Job

LEMMA ReclaimCommitInv ==
  ASSUME IInv, ReclaimCommit, TypeOK'
  PROVE  IInv'
  <1>1. TypeOK /\ \A s \in taken : s \in JobIds /\ job[s].status = "PROCESSING"
    BY DEF IInv, TypeOK, ReclaimInv
  <1>2. UNCHANGED <<now, nextSeq, latest, deleted, searchable, indexed, chunks,
                    epoch, runs>>
    BY DEF ReclaimCommit, docVars
  <1>3. \A s \in JobIds :
          job'[s] = IF s \in taken THEN Reclaimed(job[s]) ELSE job[s]
    BY DEF ReclaimCommit
  <1>4. ASSUME NEW s \in JobIds
        PROVE  /\ job'[s].doc = job[s].doc /\ job'[s].version = job[s].version
               /\ job'[s].attempt = job[s].attempt /\ job'[s].epoch = job[s].epoch
               /\ job'[s].outcome = job[s].outcome
               /\ s \notin taken => job'[s] = job[s]
               /\ s \in taken => job'[s].status = "PENDING"
    <2>1. job[s] \in Job
      BY <1>1, RowDoc
    <2> QED
      BY <1>3, <2>1, ReclaimedRow
  <1>5. RowsInv'
    <2>1. ASSUME NEW s \in JobIds, s >= nextSeq PROVE job'[s] = AbsentJob
      BY <1>1, <1>4, <2>1 DEF IInv, RowsInv, AbsentJob, NewJob
    <2>2. ASSUME NEW s \in JobIds, s < nextSeq
          PROVE  /\ job'[s].status # "ABSENT"
                 /\ job'[s].status = "PROCESSING" => job'[s].attempt > 0
      BY <1>1, <1>4, <2>2, RowFacts DEF IInv
    <2> QED
      BY <1>1, <1>2, <1>4, <2>1, <2>2, RowFacts DEF IInv, RowsInv
  <1>6. InOrder'
    BY <1>1, <1>4 DEF IInv, InOrder, Finished
  <1>7. LatestActive'
    BY <1>1, <1>2, <1>4 DEF IInv, LatestActive, Finished
  <1>8. EpochInv'
    <2>1. ASSUME NEW s \in JobIds, s < nextSeq
          PROVE  /\ job'[s].epoch <= epoch'[job'[s].doc]
                 /\ job'[s].status = "PROCESSING" => job'[s].epoch = epoch'[job'[s].doc]
      BY <1>2, <1>4, <2>1 DEF IInv, EpochInv
    <2> QED
      BY <1>2, <2>1 DEF EpochInv
  <1>9. RunsInv'
    BY <1>1, <1>2, <1>4, RunEnds DEF IInv
  <1>10. ReclaimInv' /\ UploadInv'
    BY <1>2 DEF ReclaimCommit, ReleaseReclaimLocks, ReclaimInv, IInv, UploadInv
  <1>11. IndexedInv' /\ SearchableIsServable'
    BY <1>2 DEF IInv, IndexedInv, SearchableIsServable
  <1>12. NoChunksAfterDelete'
    BY <1>2, <1>4 DEF IInv, NoChunksAfterDelete
  <1> QED
    BY <1>5, <1>6, <1>7, <1>8, <1>9, <1>10, <1>11, <1>12 DEF IInv

LEMMA ReclaimVisitInv ==
  ASSUME IInv, NEW c \in cands, ReclaimVisit(c), TypeOK'
  PROVE  IInv'
  <1>1. UNCHANGED <<now, nextSeq, job, latest, deleted, searchable, indexed,
                    chunks, epoch, runs, reclaim>>
    BY DEF ReclaimVisit, docVars
  <1>2. /\ RowsInv' /\ InOrder' /\ LatestActive' /\ EpochInv'
        /\ RunsInv' /\ NoChunksAfterDelete'
    BY <1>1, RowsKept
  <1>3. IndexedInv' /\ SearchableIsServable'
    BY <1>1 DEF IInv, IndexedInv, SearchableIsServable
  <1>4. c.doc \in Docs /\ c.seq \in JobIds /\ reclaim
    BY DEF IInv, TypeOK, Candidate, ReclaimInv
  <1>5. UploadInv'
    BY <1>1, <1>4 DEF ReclaimVisit, IInv, UploadInv, TypeOK
  <1>6. ReclaimInv'
    <2>1. \A d \in Docs : holder[d] = "reclaim" => holder'[d] = "reclaim"
      BY <1>4 DEF ReclaimVisit, IInv, TypeOK
    <2>2. ASSUME NEW s \in taken'
          PROVE  /\ job[s].status = "PROCESSING"
                 /\ job[s].lease <= now
                 /\ holder'[job[s].doc] = "reclaim"
      <3>1. CASE s \in taken
        <4>1. s \in JobIds /\ job[s].status = "PROCESSING"
          BY <3>1 DEF IInv, TypeOK, ReclaimInv
        <4>2. job[s].doc \in Docs
          BY <4>1, RowFacts DEF IInv
        <4> QED
          BY <2>1, <3>1, <4>2 DEF IInv, ReclaimInv
      <3>2. CASE s \notin taken
        <4>1. s = c.seq /\ StillExpired(c) /\ holder'[c.doc] = "reclaim"
          BY <1>4, <3>2 DEF ReclaimVisit, IInv, TypeOK
        <4> QED
          BY <4>1 DEF StillExpired
      <3> QED
        BY <3>1, <3>2
    <2> QED
      BY <1>1, <1>4, <2>2 DEF ReclaimInv
  <1> QED
    BY <1>2, <1>3, <1>5, <1>6 DEF IInv

LEMMA ReclaimerInv ==
  ASSUME IInv, Reclaimer
  PROVE  IInv'
  <1>1. TypeOK'
    <2>1. \A s \in JobIds : LeaseRanOut(s) => job[s].doc \in Docs
      BY RowFacts DEF IInv, LeaseRanOut
    <2> QED
      BY <2>1, ReclaimerType DEF IInv
  <1>2. CASE ReclaimScan
    <2>1. UNCHANGED <<now, nextSeq, job, latest, deleted, searchable, indexed,
                      chunks, epoch, holder, runs, taken>>
      BY <1>2 DEF ReclaimScan, docVars
    <2>2. /\ RowsInv' /\ InOrder' /\ LatestActive' /\ EpochInv'
          /\ RunsInv' /\ NoChunksAfterDelete'
      BY <2>1, RowsKept
    <2>3. IndexedInv' /\ SearchableIsServable' /\ UploadInv'
      BY <2>1 DEF IInv, IndexedInv, SearchableIsServable, UploadInv
    <2>4. ReclaimInv'
      BY <1>2, <2>1 DEF ReclaimScan, IInv, ReclaimInv
    <2> QED
      BY <1>1, <2>2, <2>3, <2>4 DEF IInv
  <1>3. ASSUME NEW c \in cands, ReclaimVisit(c) PROVE IInv'
    BY <1>1, <1>3, ReclaimVisitInv
  <1>4. CASE ReclaimCommit
    BY <1>1, <1>4, ReclaimCommitInv
  <1>5. CASE ReclaimRollback
    <2>1. UNCHANGED <<now, nextSeq, job, latest, deleted, searchable, indexed,
                      chunks, epoch, runs>>
      BY <1>5 DEF ReclaimRollback, docVars
    <2>2. /\ RowsInv' /\ InOrder' /\ LatestActive' /\ EpochInv'
          /\ RunsInv' /\ NoChunksAfterDelete'
      BY <2>1, RowsKept
    <2>3. IndexedInv' /\ SearchableIsServable'
      BY <2>1 DEF IInv, IndexedInv, SearchableIsServable
    <2>4. ReclaimInv' /\ UploadInv'
      BY <1>5, <2>1
         DEF ReclaimRollback, ReleaseReclaimLocks, ReclaimInv, IInv, UploadInv
    <2> QED
      BY <1>1, <2>2, <2>3, <2>4 DEF IInv
  <1> QED
    BY <1>2, <1>3, <1>4, <1>5 DEF Reclaimer

LEMMA TickInv ==
  ASSUME IInv, Tick
  PROVE  IInv'
  <1>1. /\ UNCHANGED <<nextSeq, job, latest, deleted, searchable, indexed, chunks,
                       epoch, holder, runs, reclaim, cands, taken>>
        /\ now' = now + 1 /\ now \in Nat
    BY DEF Tick, docVars, reclaimVars, IInv, TypeOK
  <1>2. TypeOK'
    BY <1>1 DEF IInv, TypeOK
  <1>3. RowsInv' /\ InOrder' /\ LatestActive' /\ EpochInv' /\ RunsInv'
    BY <1>1 DEF IInv, RowsInv, InOrder, LatestActive, EpochInv, RunsInv
  <1>4. ReclaimInv'
    <2>1. \A s \in taken : s \in JobIds /\ job[s].lease \in Nat /\ job[s].lease <= now
      BY RowDoc DEF IInv, TypeOK, ReclaimInv
    <2> QED
      BY <1>1, <2>1 DEF IInv, ReclaimInv
  <1>5. UploadInv' /\ IndexedInv' /\ SearchableIsServable' /\ NoChunksAfterDelete'
    BY <1>1 DEF IInv, UploadInv, IndexedInv, SearchableIsServable, NoChunksAfterDelete
  <1> QED
    BY <1>2, <1>3, <1>4, <1>5 DEF IInv

LEMMA StutterInv ==
  ASSUME IInv, UNCHANGED vars
  PROVE  IInv'
  <1>1. UNCHANGED <<now, nextSeq, job, latest, deleted, searchable, indexed,
                    chunks, epoch, holder, runs, reclaim, cands, taken>>
    BY DEF vars, docVars, reclaimVars
  <1>2. TypeOK'
    BY <1>1 DEF IInv, TypeOK
  <1>3. /\ RowsInv' /\ InOrder' /\ LatestActive' /\ EpochInv'
        /\ RunsInv' /\ NoChunksAfterDelete'
    BY <1>1, RowsKept
  <1>4. UploadInv' /\ ReclaimInv' /\ IndexedInv' /\ SearchableIsServable'
    BY <1>1 DEF IInv, UploadInv, ReclaimInv, IndexedInv, SearchableIsServable
  <1> QED
    BY <1>2, <1>3, <1>4 DEF IInv

\* One step of the queue, whoever takes it, preserves the invariant.
THEOREM StepInv == IInv /\ [Next]_vars => IInv'
  <1> SUFFICES ASSUME IInv, [Next]_vars PROVE IInv'
    OBVIOUS
  <1>1. ASSUME NEW d \in Docs, Server(d) PROVE IInv'
    BY <1>1, ServerInv
  <1>2. ASSUME NEW w \in Workers, NEW s \in JobIds, Claim(w, s) PROVE IInv'
    BY <1>2, ClaimInv
  <1>3. ASSUME NEW r \in runs, Execution(r) PROVE IInv'
    BY <1>3, ExecutionInv
  <1>4. CASE Reclaimer
    BY <1>4, ReclaimerInv
  <1>5. CASE Tick
    BY <1>5, TickInv
  <1>6. CASE UNCHANGED vars
    BY <1>6, StutterInv
  <1> QED
    BY <1>1, <1>2, <1>3, <1>4, <1>5, <1>6 DEF Next

\* The inductive invariant holds in every reachable state.
THEOREM Invariant == Spec => []IInv
  <1>1. Init => IInv
    BY InitInv
  <1>2. IInv /\ [Next]_vars => IInv'
    BY StepInv
  <1> QED
    BY <1>1, <1>2, PTL DEF Spec

----------------------------------------------------------------------------
(* What follows from the invariant *)

\* Every variable of the queue keeps its type, for any number of documents,
\* workers, jobs, versions and attempts.
THEOREM TypeCorrect == Spec => []TypeOK
  <1>1. IInv => TypeOK
    BY DEF IInv
  <1> QED
    BY <1>1, Invariant, PTL

\* The jobs of a document are executed strictly in the order of enqueue_seq,
\* through every expired lease, retry and reclaim.
THEOREM OrderedExecution == Spec => []InOrder
  <1>1. IInv => InOrder
    BY DEF IInv
  <1> QED
    BY <1>1, Invariant, PTL

\* The worker and epoch token fences: of all executions of a document, the
\* zombies of reclaimed jobs included, the database accepts writes of one.
THEOREM Fencing == Spec => []SingleWriter
  <1>1. IInv => SingleWriter
    BY DEF IInv, RunsInv, SingleWriter, Owns
  <1> QED
    BY <1>1, Invariant, PTL

\* The partial unique index on unfinished jobs of a version never rejects what
\* the server enqueues.
THEOREM NoDuplicateJob == Spec => []OneActiveJobPerVersion
  <1>1. IInv => OneActiveJobPerVersion
    <2> SUFFICES ASSUME IInv, NEW s \in JobIds, NEW t \in JobIds, s < t,
                        job[s].status \in Unfinished, job[t].status \in Unfinished,
                        job[s].doc = job[t].doc, job[s].version = job[t].version
                 PROVE  FALSE
      BY DEF OneActiveJobPerVersion
    <2>1. t < nextSeq
      BY RowFacts DEF IInv, Unfinished
    <2>2. job[s].status \in Finished
      BY <2>1 DEF IInv, LatestActive
    <2> QED
      BY <2>2 DEF Unfinished, Finished
  <1> QED
    BY <1>1, Invariant, PTL

\* The searched version is indexed and has its chunks, as long as the document
\* is not deleted.
THEOREM Servable == Spec => []SearchableIsServable
  <1>1. IInv => SearchableIsServable
    BY DEF IInv
  <1> QED
    BY <1>1, Invariant, PTL

\* A deleted document leaves no chunks behind once its DELETE job is done.
THEOREM DeletionIsComplete == Spec => []NoChunksAfterDelete
  <1>1. IInv => NoChunksAfterDelete
    BY DEF IInv
  <1> QED
    BY <1>1, Invariant, PTL

----------------------------------------------------------------------------
(* What a step may do to a row *)

\* A row is inserted once; from then on its document and version are fixed and
\* its status moves along these edges only.
LEMMA RowStep ==
  ASSUME IInv, Next, NEW s \in JobIds
  PROVE  \/ job'[s] = job[s]
         \/ job[s].status = "ABSENT"
         \/ job[s].status \in {"PENDING", "RETRY_WAIT"} /\ job'[s].status = "PROCESSING"
         \/ /\ job[s].status = "PROCESSING"
            /\ job'[s].status \in {"PROCESSING", "RETRY_WAIT", "COMPLETED", "FAILED"}
         \/ /\ job[s].status = "PROCESSING" /\ job[s].lease <= now
            /\ job'[s].status = "PENDING"
  <1>0. TypeOK /\ job \in [JobIds -> Job] /\ job[s] \in Job
    BY RowDoc DEF IInv, TypeOK
  <1>1. ASSUME NEW d \in Docs, Server(d)
        PROVE  job'[s] = job[s] \/ job[s].status = "ABSENT"
    <2>1. job' = job \/ \E v : Enqueue(d, v)
      BY <1>1, Zenon DEF Server, CreateDocument, UploadBegin, UploadCommit,
                  UploadRollback, DeleteDocument, Retry, SetSearchable
    <2>2. ASSUME NEW v, Enqueue(d, v) PROVE job'[s] = job[s] \/ s = nextSeq
      BY <1>0, <2>2 DEF Enqueue
    <2>3. s = nextSeq => job[s].status = "ABSENT"
      BY <1>0 DEF IInv, RowsInv, AbsentJob, NewJob, TypeOK
    <2> QED
      BY <2>1, <2>2, <2>3
  <1>2. ASSUME NEW w \in Workers, NEW t \in JobIds, Claim(w, t)
        PROVE  \/ job'[s] = job[s]
               \/ /\ job[s].status \in {"PENDING", "RETRY_WAIT"}
                  /\ job'[s].status = "PROCESSING"
    <2>1. CASE s = t
      <3>1. job'[s] = Claimed(job[s], w, NextEpoch(job[s].doc))
        BY <1>0, <1>2, <2>1 DEF Claim
      <3>2. job'[s].status = "PROCESSING"
        BY <1>0, <3>1 DEF Claimed, Job
      <3> QED
        BY <1>2, <2>1, <3>2 DEF Claim, Eligible
    <2>2. CASE s # t
      BY <1>0, <1>2, <2>2 DEF Claim
    <2> QED
      BY <2>1, <2>2
  <1>3. ASSUME NEW r \in runs, Execution(r)
        PROVE  \/ job'[s] = job[s]
               \/ /\ job[s].status = "PROCESSING"
                  /\ job'[s].status \in {"PROCESSING", "RETRY_WAIT", "COMPLETED", "FAILED"}
    <2>1. r.seq \in JobIds
      BY <1>0 DEF TypeOK, Run
    <2>2. CASE DropRun(r)
      BY <2>2 DEF DropRun
    <2>3. CASE ~DropRun(r)
      <3>1. Owns(r)
        BY <1>3, <2>3 DEF Execution, Heartbeat, FinishIndex, SkipIndex,
                          FinishDelete, FailTransient, FailFinal, MayWriteResult
      <3>2. \/ job' = [job EXCEPT ![r.seq] = [@ EXCEPT !.lease = now + Lease]]
            \/ \E status \in {"COMPLETED", "FAILED", "RETRY_WAIT"},
                  outcome \in {"INDEXED", "DELETED", "SKIPPED_DOCUMENT_DELETED",
                               "RETRY_SCHEDULED", "FAILED_PROCESSING"},
                  retryAt \in {0, now + Backoff} :
                 job' = [job EXCEPT ![r.seq] = Released(@, status, outcome, retryAt)]
        BY <1>3, <2>3, Zenon
           DEF Execution, Heartbeat, FinishIndex, SkipIndex, FinishDelete,
               FailTransient, FailFinal
      <3>3. CASE s # r.seq
        BY <1>0, <3>2, <3>3
      <3>4. CASE s = r.seq
        <4>1. job[s].status = "PROCESSING"
          BY <3>1, <3>4 DEF Owns
        <4>2. \A status, outcome, retryAt :
                Released(job[s], status, outcome, retryAt).status = status
          BY <1>0, ReleasedRow
        <4>3. [job[s] EXCEPT !.lease = now + Lease].status = "PROCESSING"
          BY <1>0, <4>1 DEF Job
        <4>4. CASE job' = [job EXCEPT ![r.seq] = [@ EXCEPT !.lease = now + Lease]]
          BY <1>0, <2>1, <3>4, <4>1, <4>3, <4>4
        <4>5. ASSUME NEW status \in {"COMPLETED", "FAILED", "RETRY_WAIT"},
                     NEW outcome, NEW retryAt,
                     job' = [job EXCEPT ![r.seq] = Released(@, status, outcome, retryAt)]
              PROVE  job'[s].status = status
          BY <1>0, <2>1, <3>4, <4>2, <4>5
        <4> QED
          BY <3>2, <4>1, <4>4, <4>5
      <3> QED
        BY <3>3, <3>4
    <2> QED
      BY <2>2, <2>3
  <1>4. ASSUME Reclaimer
        PROVE  \/ job'[s] = job[s]
               \/ /\ job[s].status = "PROCESSING" /\ job[s].lease <= now
                  /\ job'[s].status = "PENDING"
    <2>1. CASE ReclaimCommit
      <3>1. job'[s] = IF s \in taken THEN Reclaimed(job[s]) ELSE job[s]
        BY <2>1 DEF ReclaimCommit
      <3> QED
        BY <1>0, <3>1, ReclaimedRow DEF IInv, ReclaimInv
    <2>2. CASE ~ReclaimCommit
      BY <1>4, <2>2 DEF Reclaimer, ReclaimScan, ReclaimVisit, ReclaimRollback
    <2> QED
      BY <2>1, <2>2
  <1>5. CASE Tick
    BY <1>5 DEF Tick
  <1> QED
    BY <1>1, <1>2, <1>3, <1>4, <1>5 DEF Next

\* COMPLETED and FAILED rows never change again.
THEOREM FinalityOfResults == Spec => FinishedIsFinal
  <1>1. IInv /\ [Next]_vars
          => \A s \in JobIds : job[s].status \in Finished => job'[s] = job[s]
    BY RowStep DEF Finished, vars
  <1> QED
    BY <1>1, Invariant, PTL DEF Spec, FinishedIsFinal

\* The reclaim procedure takes no live lease away, although it reads its
\* candidates without a lock and commits much later.
THEOREM ReclaimSafety == Spec => ReclaimsOnlyExpired
  <1>1. IInv /\ [Next]_vars
          => \A s \in JobIds :
               job[s].status = "PROCESSING" /\ job'[s].status = "PENDING"
                 => job[s].lease <= now
    BY RowStep DEF vars
  <1> QED
    BY <1>1, Invariant, PTL DEF Spec, ReclaimsOnlyExpired

\* The rows that a token is compared with.
LEMMA TokenKept ==
  ASSUME NEW r, Owns(r), UNCHANGED job[r.seq],
         epoch'[job[r.seq].doc] = epoch[job[r.seq].doc]
  PROVE  Owns(r)'
  BY DEF Owns

\* A claim draws an epoch for another document: of the same one, a job before
\* the running job is finished, and a job after it is not eligible.
LEMMA ClaimElsewhere ==
  ASSUME IInv, NEW s \in JobIds, job[s].status = "PROCESSING",
         NEW w \in Workers, NEW t \in JobIds, Claim(w, t)
  PROVE  job[t].doc # job[s].doc
  <1>1. Eligible(t) /\ t # s /\ job[t].status \in {"PENDING", "RETRY_WAIT"}
    BY DEF Claim, Eligible
  <1>2. CASE s < t
    BY <1>1, <1>2 DEF Eligible, FirstUnfinished, Unfinished
  <1>3. CASE t < s
    <2>1. job[s].attempt > 0
      BY RowFacts DEF IInv
    <2> QED
      BY <1>1, <1>3, <2>1 DEF IInv, InOrder, Finished
  <1>4. s \in Int /\ t \in Int
    BY DEF JobIds
  <1> QED
    BY <1>1, <1>2, <1>3, <1>4

LEMMA TokenStep ==
  ASSUME IInv, Next, NEW r \in runs, Owns(r), job[r.seq].lease > now, r \in runs'
  PROVE  Owns(r)'
  <1> DEFINE s == r.seq
  <1>0. /\ TypeOK /\ s \in JobIds /\ job[s].status = "PROCESSING" /\ job[s].epoch = r.epoch
        /\ s < nextSeq /\ job[s].doc \in Docs /\ nextSeq \in Nat
    <2>1. TypeOK /\ s \in JobIds /\ job[s].status = "PROCESSING" /\ job[s].epoch = r.epoch
      BY DEF IInv, TypeOK, Run, Owns
    <2> QED
      BY <2>1, RowFacts DEF IInv, TypeOK
  <1>1. ASSUME NEW d \in Docs, Server(d) PROVE Owns(r)'
    <2>1. UNCHANGED epoch /\ (job' = job \/ \E v : Enqueue(d, v))
      BY <1>1, Zenon DEF Server, CreateDocument, UploadBegin, UploadCommit,
                  UploadRollback, DeleteDocument, Retry, SetSearchable
    <2>2. ASSUME NEW v, Enqueue(d, v) PROVE job'[s] = job[s]
      BY <1>0, <2>2 DEF Enqueue, TypeOK
    <2> QED
      BY <2>1, <2>2, TokenKept
  <1>2. ASSUME NEW w \in Workers, NEW t \in JobIds, Claim(w, t) PROVE Owns(r)'
    <2>1. t # s /\ job[t].doc # job[s].doc
      BY <1>0, <1>2, ClaimElsewhere
    <2>2. job'[s] = job[s] /\ epoch'[job[s].doc] = epoch[job[s].doc]
      BY <1>0, <1>2, <2>1 DEF Claim, TypeOK
    <2> QED
      BY <2>2, TokenKept
  <1>3. ASSUME NEW q \in runs, Execution(q) PROVE Owns(r)'
    <2>1. UNCHANGED epoch
      BY <1>3 DEF Execution, Heartbeat, FinishIndex, SkipIndex, FinishDelete,
                  FailTransient, FailFinal, DropRun
    <2>2. CASE DropRun(q)
      BY <2>1, <2>2, TokenKept DEF DropRun
    <2>3. CASE Heartbeat(q)
      <3>1. job' = [job EXCEPT ![q.seq] = [@ EXCEPT !.lease = now + Lease]]
        BY <2>3 DEF Heartbeat
      <3>2. job[s] \in Job /\ job \in [JobIds -> Job]
        BY <1>0 DEF TypeOK
      <3>3. /\ job'[s].status = job[s].status /\ job'[s].worker = job[s].worker
            /\ job'[s].epoch = job[s].epoch /\ job'[s].doc = job[s].doc
        BY <1>0, <3>1, <3>2 DEF Job
      <3> QED
        BY <2>1, <3>3 DEF Owns
    <2>4. CASE ~DropRun(q) /\ ~Heartbeat(q)
      <3>1. Owns(q) /\ runs' = runs \ {q}
        BY <1>3, <2>4 DEF Execution, FinishIndex, SkipIndex, FinishDelete,
                          FailTransient, FailFinal, MayWriteResult
      <3>2. q.seq # s
        <4>1. q # r
          BY <3>1
        <4> QED
          BY <1>0, <3>1, <4>1 DEF Owns, IInv, RunsInv
      <3>3. \E row : job' = [job EXCEPT ![q.seq] = row]
        BY <1>3, <2>4, Zenon
           DEF Execution, FinishIndex, SkipIndex, FinishDelete, FailTransient, FailFinal
      <3>4. job'[s] = job[s]
        BY <1>0, <3>2, <3>3 DEF TypeOK
      <3> QED
        BY <2>1, <3>4, TokenKept
    <2> QED
      BY <2>2, <2>3, <2>4
  <1>4. ASSUME Reclaimer PROVE Owns(r)'
    <2>1. UNCHANGED epoch
      BY <1>4 DEF Reclaimer, ReclaimScan, ReclaimVisit, ReclaimCommit, ReclaimRollback
    <2>2. CASE ReclaimCommit
      <3>1. s \notin taken
        <4>1. job[s].lease \in Nat /\ now \in Nat
          BY <1>0 DEF TypeOK, Job
        <4> QED
          BY <4>1 DEF IInv, ReclaimInv
      <3>2. job'[s] = job[s]
        BY <1>0, <2>2, <3>1 DEF ReclaimCommit
      <3> QED
        BY <2>1, <3>2, TokenKept
    <2>3. CASE ~ReclaimCommit
      <3>1. UNCHANGED job
        BY <1>4, <2>3 DEF Reclaimer, ReclaimScan, ReclaimVisit, ReclaimRollback
      <3> QED
        BY <2>1, <3>1, TokenKept
    <2> QED
      BY <2>2, <2>3
  <1>5. CASE Tick
    BY <1>5, TokenKept DEF Tick
  <1> QED
    BY <1>1, <1>2, <1>3, <1>4, <1>5 DEF Next

\* While its lease runs, no step of anybody else makes the database refuse the
\* token of an execution: not the claims of the other jobs of its document,
\* nor a reclaim transaction that is open.
THEOREM TokenStability == Spec => LiveTokenStands
  <1>1. IInv /\ [Next]_vars
          => \A r \in runs :
               Owns(r) /\ job[r.seq].lease > now => Owns(r)' \/ r \notin runs'
    <2> SUFFICES ASSUME IInv, [Next]_vars, NEW r \in runs,
                        Owns(r), job[r.seq].lease > now, r \in runs'
                 PROVE  Owns(r)'
      OBVIOUS
    <2>1. CASE Next
      BY <2>1, TokenStep
    <2>2. CASE UNCHANGED vars
      BY <2>2, TokenKept DEF vars
    <2> QED
      BY <2>1, <2>2
  <1> QED
    BY <1>1, Invariant, PTL DEF Spec, LiveTokenStands

----------------------------------------------------------------------------
(* The refinement of OrderedJobs *)

\* Replacing one row changes one entry of the abstract state.
LEMMA PhaseChange ==
  ASSUME TypeOK, NEW s \in JobIds, NEW row, job' = [job EXCEPT ![s] = row]
  PROVE  /\ Phase' = [Phase EXCEPT ![s] = PhaseOf(row.status)]
         /\ Owner' = [Owner EXCEPT ![s] = row.doc]
         /\ row.doc = job[s].doc => UNCHANGED Owner
  <1>1. job'[s] = row /\ \A t \in JobIds : t # s => job'[t] = job[t]
    BY DEF TypeOK
  <1>2. \A t \in JobIds :
          /\ t = s => /\ PhaseOf(job'[t].status) = PhaseOf(row.status)
                     /\ job'[t].doc = row.doc
          /\ t # s => /\ PhaseOf(job'[t].status) = PhaseOf(job[t].status)
                     /\ job'[t].doc = job[t].doc
    BY <1>1
  <1>3. Phase' = [Phase EXCEPT ![s] = PhaseOf(row.status)]
    BY <1>2 DEF Phase
  <1>4. Owner' = [Owner EXCEPT ![s] = row.doc]
    BY <1>2 DEF Owner
  <1>5. row.doc = job[s].doc => UNCHANGED Owner
    BY <1>2 DEF Owner
  <1> QED
    BY <1>3, <1>4, <1>5

LEMMA EnqueueSubmits ==
  ASSUME IInv, NEW d \in Docs, NEW v, Enqueue(d, v)
  PROVE  Ordered!Submit(nextSeq, d) /\ nextSeq \in Ordered!JobIds
  <1>1. nextSeq \in JobIds /\ job' = [job EXCEPT ![nextSeq] = NewJob(d, v)] /\ TypeOK
    BY DEF Enqueue, IInv
  <1>2. NewJob(d, v).status = "PENDING" /\ NewJob(d, v).doc = d
    BY DEF NewJob
  <1>3. /\ Phase' = [Phase EXCEPT ![nextSeq] = "waiting"]
        /\ Owner' = [Owner EXCEPT ![nextSeq] = d]
    BY <1>1, <1>2, PhaseChange DEF PhaseOf
  <1>4. ASSUME NEW t \in JobIds PROVE Phase[t] = "none" <=> t >= nextSeq
    <2>1. job[t].status = "ABSENT" <=> t >= nextSeq
      BY <1>1, RowFacts DEF IInv, RowsInv, AbsentJob, NewJob
    <2>2. PhaseOf(job[t].status) = "none" <=> job[t].status = "ABSENT"
      BY DEF PhaseOf
    <2> QED
      BY <2>1, <2>2 DEF Phase
  <1> QED
    BY <1>1, <1>3, <1>4 DEF Ordered!Submit, Ordered!JobIds

LEMMA ClaimStarts ==
  ASSUME IInv, NEW w \in Workers, NEW s \in JobIds, Claim(w, s)
  PROVE  Ordered!Start(s)
  <1> DEFINE row == Claimed(job[s], w, NextEpoch(job[s].doc))
  <1>1. TypeOK /\ job[s] \in Job /\ job' = [job EXCEPT ![s] = row]
    BY RowDoc DEF IInv, Claim
  <1>2. row.status = "PROCESSING" /\ row.doc = job[s].doc
    BY <1>1 DEF Claimed, Job
  <1>3. job[s].status \in {"PENDING", "RETRY_WAIT"} /\ FirstUnfinished(s)
    BY DEF Claim, Eligible
  <1> HIDE DEF row
  <1>4. Phase' = [Phase EXCEPT ![s] = "running"] /\ UNCHANGED Owner
    BY <1>1, <1>2, PhaseChange DEF PhaseOf
  <1>5. Phase[s] = "waiting"
    BY <1>3 DEF Phase, PhaseOf
  <1>6. ASSUME NEW t \in JobIds, t < s, Owner[t] = Owner[s]
        PROVE  Phase[t] = "done"
    <2>1. job[t].doc = job[s].doc
      BY <1>6 DEF Owner
    <2>2. job[t].status \notin Unfinished
      BY <1>3, <1>6, <2>1 DEF FirstUnfinished
    <2>3. t < nextSeq
      BY <1>1, <1>3, <1>6, RowFacts DEF IInv, TypeOK
    <2>4. job[t].status \notin {"ABSENT", "PENDING", "RETRY_WAIT", "PROCESSING"}
      BY <1>1, <2>2, <2>3, RowFacts DEF IInv, Unfinished
    <2> QED
      BY <2>4 DEF Phase, PhaseOf
  <1> QED
    BY <1>4, <1>5, <1>6 DEF Ordered!Start, Ordered!JobIds

\* A result write ends the execution or, for a later retry, loses it.
LEMMA ResultRefines ==
  ASSUME IInv, NEW r \in runs, Owns(r),
         NEW status \in {"COMPLETED", "FAILED", "RETRY_WAIT"}, NEW outcome,
         NEW retryAt,
         job' = [job EXCEPT ![r.seq] = Released(@, status, outcome, retryAt)]
  PROVE  Ordered!Next
  <1> DEFINE s == r.seq
             row == Released(job[s], status, outcome, retryAt)
  <1>1. TypeOK /\ s \in JobIds /\ job[s] \in Job
    BY DEF IInv, TypeOK, Run
  <1>2. row.status = status /\ row.doc = job[s].doc
    BY <1>1, ReleasedRow
  <1>3. job' = [job EXCEPT ![s] = row]
    OBVIOUS
  <1>4. job[s].status = "PROCESSING"
    BY DEF Owns
  <1> HIDE DEF row
  <1>5. Phase' = [Phase EXCEPT ![s] = PhaseOf(status)] /\ UNCHANGED Owner
    BY <1>1, <1>2, <1>3, PhaseChange
  <1>6. Phase[s] = "running" /\ s \in Ordered!JobIds
    BY <1>1, <1>4 DEF Phase, PhaseOf, Ordered!JobIds
  <1>7. CASE status = "RETRY_WAIT"
    <2>1. Phase' = [t \in JobIds |-> IF t \in {s} THEN "waiting" ELSE Phase[t]]
      BY <1>1, <1>5, <1>7 DEF PhaseOf, Phase
    <2>2. Ordered!Lose({s})
      BY <1>5, <1>6, <2>1 DEF Ordered!Lose, Ordered!JobIds
    <2> QED
      BY <1>6, <2>2 DEF Ordered!Next
  <1>8. CASE status # "RETRY_WAIT"
    <2>1. PhaseOf(status) = "done"
      BY <1>8 DEF PhaseOf
    <2> QED
      BY <1>5, <1>6, <2>1 DEF Ordered!Finish, Ordered!Next
  <1> QED
    BY <1>7, <1>8

LEMMA ReclaimLoses ==
  ASSUME IInv, ReclaimCommit
  PROVE  Ordered!Lose(taken) /\ taken \in SUBSET Ordered!JobIds
  <1>1. TypeOK /\ taken \subseteq JobIds
    BY DEF IInv, TypeOK
  <1>2. \A s \in taken : job[s].status = "PROCESSING"
    BY DEF IInv, ReclaimInv
  <1>3. ASSUME NEW s \in JobIds
        PROVE  /\ job'[s] = IF s \in taken THEN Reclaimed(job[s]) ELSE job[s]
               /\ Reclaimed(job[s]).status = "PENDING"
               /\ Reclaimed(job[s]).doc = job[s].doc
    BY <1>1, RowDoc, ReclaimedRow DEF ReclaimCommit
  <1>4. UNCHANGED Owner
    BY <1>3 DEF Owner
  <1>5. \A s \in taken : Phase[s] = "running"
    BY <1>1, <1>2 DEF Phase, PhaseOf
  <1>6. PhaseOf("PENDING") = "waiting"
    BY DEF PhaseOf
  <1>7. Phase' = [s \in JobIds |-> IF s \in taken THEN "waiting" ELSE Phase[s]]
    BY <1>3, <1>6 DEF Phase
  <1> QED
    BY <1>1, <1>4, <1>5, <1>7 DEF Ordered!Lose, Ordered!JobIds

LEMMA JobKeptStutters ==
  ASSUME UNCHANGED job
  PROVE  UNCHANGED Ordered!vars
  BY DEF Ordered!vars, Phase, Owner

LEMMA RefinementStep ==
  ASSUME IInv, [Next]_vars
  PROVE  [Ordered!Next]_Ordered!vars
  <1>1. ASSUME NEW d \in Docs, Server(d) PROVE [Ordered!Next]_Ordered!vars
    <2>1. job' = job \/ \E v : Enqueue(d, v)
      BY <1>1, Zenon DEF Server, CreateDocument, UploadBegin, UploadCommit,
                  UploadRollback, DeleteDocument, Retry, SetSearchable, docVars
    <2>2. ASSUME NEW v, Enqueue(d, v) PROVE Ordered!Next
      BY <2>2, EnqueueSubmits DEF Ordered!Next
    <2> QED
      BY <2>1, <2>2, JobKeptStutters
  <1>2. ASSUME NEW w \in Workers, NEW s \in JobIds, Claim(w, s)
        PROVE  Ordered!Next
    BY <1>2, ClaimStarts DEF Ordered!Next, Ordered!JobIds
  <1>3. ASSUME NEW r \in runs, Execution(r) PROVE [Ordered!Next]_Ordered!vars
    <2>0. TypeOK /\ r.seq \in JobIds /\ job[r.seq] \in Job
      BY DEF IInv, TypeOK, Run
    <2>1. CASE Heartbeat(r)
      <3> DEFINE row == [job[r.seq] EXCEPT !.lease = now + Lease]
      <3>1. row.status = job[r.seq].status /\ row.doc = job[r.seq].doc
        BY <2>0 DEF Job
      <3>2. job' = [job EXCEPT ![r.seq] = row]
        BY <2>1 DEF Heartbeat
      <3> HIDE DEF row
      <3>3. /\ Phase' = [Phase EXCEPT ![r.seq] = PhaseOf(job[r.seq].status)]
            /\ UNCHANGED Owner
        BY <2>0, <3>1, <3>2, PhaseChange
      <3>4. UNCHANGED Phase
        BY <2>0, <3>3 DEF Phase
      <3> QED
        BY <3>3, <3>4 DEF Ordered!vars
    <2>2. CASE FinishIndex(r)
      BY <2>2, ResultRefines DEF FinishIndex, MayWriteResult
    <2>3. CASE SkipIndex(r)
      BY <2>3, ResultRefines DEF SkipIndex, MayWriteResult
    <2>4. CASE FinishDelete(r)
      BY <2>4, ResultRefines DEF FinishDelete, MayWriteResult
    <2>5. CASE FailTransient(r)
      BY <2>5, ResultRefines DEF FailTransient, MayWriteResult
    <2>6. CASE FailFinal(r)
      BY <2>6, ResultRefines DEF FailFinal, MayWriteResult
    <2>7. CASE DropRun(r)
      BY <2>7, JobKeptStutters DEF DropRun
    <2> QED
      BY <1>3, <2>1, <2>2, <2>3, <2>4, <2>5, <2>6, <2>7 DEF Execution
  <1>4. CASE Reclaimer
    <2>1. CASE ReclaimCommit
      BY <2>1, ReclaimLoses DEF Ordered!Next
    <2>2. CASE ~ReclaimCommit
      <3>1. UNCHANGED job
        BY <1>4, <2>2 DEF Reclaimer, ReclaimScan, ReclaimVisit, ReclaimRollback
      <3> QED
        BY <3>1, JobKeptStutters
    <2> QED
      BY <2>1, <2>2
  <1>5. CASE Tick
    BY <1>5, JobKeptStutters DEF Tick
  <1>6. CASE UNCHANGED vars
    BY <1>6, JobKeptStutters DEF vars
  <1> QED
    BY <1>1, <1>2, <1>3, <1>4, <1>5, <1>6 DEF Next

\* The queue with its leases, epochs, locks and reclaims implements the plain
\* ordered execution of each document's jobs.
THEOREM Refinement == Spec => ImplementsOrderedJobs
  <1>1. Init => Ordered!Init
    <2>1. AbsentJob.status = "ABSENT" /\ AbsentJob.doc = NoDoc
      BY DEF AbsentJob, NewJob
    <2>2. PhaseOf("ABSENT") = "none"
      BY DEF PhaseOf
    <2> QED
      BY <2>1, <2>2 DEF Init, Ordered!Init, Ordered!JobIds, Phase, Owner
  <1>2. IInv /\ [Next]_vars => [Ordered!Next]_Ordered!vars
    BY RefinementStep
  <1> QED
    BY <1>1, <1>2, Invariant, PTL DEF Spec, ImplementsOrderedJobs, Ordered!Spec

=============================================================================
