--------------------------- MODULE IndexingQueue ---------------------------
(***************************************************************************)
(* The indexing job queue that lives in the indexing_job table.            *)
(*                                                                         *)
(* Four parties write to it.  The API server enqueues: a version insert    *)
(* and a document deletion enqueue through triggers, a manual reindex      *)
(* enqueues directly.  Workers (another repository, whose transactions are *)
(* reproduced by IndexingJobRecoveryTest and listed in docs/SCHEMA) claim  *)
(* a job, renew its lease and write its result.  The reclaim procedure,    *)
(* scheduled by pg_cron, puts jobs with an expired lease back to PENDING.  *)
(*                                                                         *)
(* Every transaction takes the document row lock before the job row.  Two  *)
(* of them hold that lock while others run and are modelled in steps: the  *)
(* upload of a new version (the object is stored under the lock) and the   *)
(* reclaim procedure (it keeps every row lock until it commits).  All the  *)
(* others are one step each.                                               *)
(***************************************************************************)
EXTENDS Integers, FiniteSets

CONSTANTS
  Docs,         \* documents that may come to exist
  Workers,      \* worker ids
  NoWorker,     \* worker_id IS NULL
  NoDoc,        \* the document of a job row that does not exist yet
  MaxJobs,      \* bound: how many job rows are ever enqueued
  MaxVersions,  \* bound: how many versions one document gets
  MaxAttempts,  \* attempt limit of the worker (5)
  MaxBeats,     \* bound: heartbeats of one execution
  Lease,        \* lease length, in ticks (60 s)
  Backoff,      \* wait before an automatic retry, in ticks
  Batch         \* p_batch_size of the reclaim procedure (100)

ASSUME BoundsAssumption ==
  /\ MaxJobs \in Nat \ {0}
  /\ MaxVersions \in Nat \ {0}
  /\ MaxAttempts \in Nat \ {0}
  /\ MaxBeats \in Nat
  /\ Lease \in Nat \ {0}
  /\ Backoff \in Nat \ {0}
  /\ Batch \in Nat \ {0}

ASSUME NullAssumption == NoWorker \notin Workers /\ NoDoc \notin Docs

VARIABLES
  now,          \* the database clock
  nextSeq,      \* the enqueue_seq the next job row gets
  job,          \* the indexing_job rows, by enqueue_seq
  latest,       \* document.latest_upload_version_no; 0: no such document
  deleted,      \* document.deleted_at IS NOT NULL
  searchable,   \* version_no of document.searchable_version_id; 0: NULL
  epoch,        \* document.execution_epoch
  indexed,      \* versions whose document_version.indexed_at is set
  chunks,       \* versions that have rows in document_chunk
  holder,       \* who holds the document row lock across steps
  runs,         \* executions in progress in the memory of the workers
  reclaim,      \* is a reclaim transaction open
  cands,        \* the candidate rows it has read and not yet visited
  taken         \* the jobs it has updated and not yet committed

docVars == <<latest, deleted, searchable, indexed, chunks>>
reclaimVars == <<reclaim, cands, taken>>
vars == <<now, nextSeq, job, docVars, epoch, holder, runs, reclaimVars>>

----------------------------------------------------------------------------
(* Rows *)

JobIds   == 1..MaxJobs
Versions == 1..MaxVersions

\* The version of a DELETE job: document_version_id IS NULL.
NoVersion == 0

Unfinished == {"PENDING", "PROCESSING", "RETRY_WAIT"}
Finished   == {"COMPLETED", "FAILED"}

\* ABSENT is a job row not inserted yet.  A lease or a retry time of 0 is NULL.
Job ==
  [doc     : Docs \cup {NoDoc},
   version : Versions \cup {NoVersion},
   status  : Unfinished \cup Finished \cup {"ABSENT"},
   worker  : Workers \cup {NoWorker},
   lease   : Nat,
   attempt : 0..MaxAttempts,
   epoch   : Nat,
   retryAt : Nat,
   outcome : {"NONE", "INDEXED", "DELETED", "SKIPPED_DOCUMENT_DELETED",
              "RETRY_SCHEDULED", "FAILED_PROCESSING"}]

NewJob(d, v) ==
  [doc |-> d, version |-> v, status |-> "PENDING", worker |-> NoWorker,
   lease |-> 0, attempt |-> 0, epoch |-> 0, retryAt |-> 0, outcome |-> "NONE"]

AbsentJob == [NewJob(NoDoc, NoVersion) EXCEPT !.status = "ABSENT"]

\* What a worker remembers of one execution: the job and the token (worker id
\* and epoch) it got from the claim.  The attempt only tells executions apart.
Run ==
  [seq : JobIds, worker : Workers, epoch : Nat, attempt : 1..MaxAttempts,
   beats : 0..MaxBeats]

\* A row of the reclaim procedure's candidate query.
Candidate ==
  [seq : JobIds, doc : Docs, worker : Workers \cup {NoWorker}, epoch : Nat,
   lease : Nat, docEpoch : Nat]

TypeOK ==
  /\ now \in Nat
  /\ nextSeq \in 1..(MaxJobs + 1)
  /\ job \in [JobIds -> Job]
  /\ latest \in [Docs -> Versions \cup {0}]
  /\ deleted \in [Docs -> BOOLEAN]
  /\ searchable \in [Docs -> Versions \cup {NoVersion}]
  /\ epoch \in [Docs -> Nat]
  /\ indexed \in [Docs -> SUBSET Versions]
  /\ chunks \in [Docs -> SUBSET Versions]
  /\ holder \in [Docs -> {"none", "upload", "reclaim"}]
  /\ runs \subseteq Run
  /\ reclaim \in BOOLEAN
  /\ cands \subseteq Candidate
  /\ taken \subseteq JobIds

Init ==
  /\ now = 0
  /\ nextSeq = 1
  /\ job = [s \in JobIds |-> AbsentJob]
  /\ latest = [d \in Docs |-> 0]
  /\ deleted = [d \in Docs |-> FALSE]
  /\ searchable = [d \in Docs |-> NoVersion]
  /\ epoch = [d \in Docs |-> 0]
  /\ indexed = [d \in Docs |-> {}]
  /\ chunks = [d \in Docs |-> {}]
  /\ holder = [d \in Docs |-> "none"]
  /\ runs = {}
  /\ reclaim = FALSE
  /\ cands = {}
  /\ taken = {}

----------------------------------------------------------------------------
(* The API server and its triggers *)

Enqueue(d, v) ==
  /\ nextSeq \in JobIds
  /\ job' = [job EXCEPT ![nextSeq] = NewJob(d, v)]
  /\ nextSeq' = nextSeq + 1

\* A write needs a document that exists, is not deleted, and whose row lock
\* can be taken.
Lockable(d) == latest[d] > 0 /\ ~deleted[d] /\ holder[d] = "none"

\* createDocument: the row is not visible to anyone before the commit, so the
\* whole transaction is one step.
CreateDocument(d) ==
  /\ latest[d] = 0
  /\ latest' = [latest EXCEPT ![d] = 1]
  /\ Enqueue(d, 1)
  /\ UNCHANGED <<now, deleted, searchable, indexed, chunks, epoch, holder,
                 runs, reclaimVars>>

\* addVersion up to the upload: the row is locked and the object is stored
\* while the lock is held.
UploadBegin(d) ==
  /\ Lockable(d)
  /\ latest[d] < MaxVersions
  /\ holder' = [holder EXCEPT ![d] = "upload"]
  /\ UNCHANGED <<now, nextSeq, job, docVars, epoch, runs, reclaimVars>>

\* addVersion from the upload to the commit, the INDEX job included.
UploadCommit(d) ==
  /\ holder[d] = "upload"
  /\ latest' = [latest EXCEPT ![d] = @ + 1]
  /\ Enqueue(d, latest[d] + 1)
  /\ holder' = [holder EXCEPT ![d] = "none"]
  /\ UNCHANGED <<now, deleted, searchable, indexed, chunks, epoch, runs,
                 reclaimVars>>

\* The upload or the insert failed: the transaction is rolled back.
UploadRollback(d) ==
  /\ holder[d] = "upload"
  /\ holder' = [holder EXCEPT ![d] = "none"]
  /\ UNCHANGED <<now, nextSeq, job, docVars, epoch, runs, reclaimVars>>

\* deleteDocument, with the DELETE job its trigger enqueues.
DeleteDocument(d) ==
  /\ Lockable(d)
  /\ deleted' = [deleted EXCEPT ![d] = TRUE]
  /\ Enqueue(d, NoVersion)
  /\ UNCHANGED <<now, latest, searchable, indexed, chunks, epoch, holder, runs,
                 reclaimVars>>

JobsOf(d, v) ==
  {s \in JobIds :
     job[s].status # "ABSENT" /\ job[s].doc = d /\ job[s].version = v}

\* Mutant: any job of the version, not the latest one.
AnyJobHas(d, v, status) == \E s \in JobsOf(d, v) : job[s].status = status

\* The status of the job of a version with the greatest enqueue_seq.
LatestJobHas(d, v, status) ==
  \E s \in JobsOf(d, v) :
    /\ \A t \in JobsOf(d, v) : t <= s
    /\ job[s].status = status

\* IndexingService.retry: only when the latest job of the version is FAILED.
Retry(d, v) ==
  /\ Lockable(d)
  /\ v <= latest[d]
  /\ LatestJobHas(d, v, "FAILED")
  /\ Enqueue(d, v)
  /\ UNCHANGED <<now, docVars, epoch, holder, runs, reclaimVars>>

\* Mutant: the indexed_at check is missing.
SetSearchableUnchecked(d, v) ==
  /\ Lockable(d)
  /\ v <= latest[d]
  /\ searchable' = [searchable EXCEPT ![d] = v]
  /\ UNCHANGED <<now, nextSeq, job, latest, deleted, indexed, chunks, epoch,
                 holder, runs, reclaimVars>>

\* updateSearchableVersion: any indexed version, older ones included.
SetSearchable(d, v) ==
  /\ Lockable(d)
  /\ v \in indexed[d]
  /\ searchable' = [searchable EXCEPT ![d] = v]
  /\ UNCHANGED <<now, nextSeq, job, latest, deleted, indexed, chunks, epoch,
                 holder, runs, reclaimVars>>

----------------------------------------------------------------------------
(* The workers *)

\* Mutant: a predecessor that waits for its retry does not block.
FirstRunnable(s) ==
  \A t \in JobIds :
    t < s /\ job[t].doc = job[s].doc
      => job[t].status \notin {"PENDING", "PROCESSING"}

\* No earlier job of the same document is unfinished.
FirstUnfinished(s) ==
  \A t \in JobIds :
    t < s /\ job[t].doc = job[s].doc => job[t].status \notin Unfinished

\* Mutant: attempts are not limited.
EligibleUnlimited(s) ==
  /\ \/ job[s].status = "PENDING"
     \/ job[s].status = "RETRY_WAIT" /\ job[s].retryAt <= now
  /\ FirstUnfinished(s)

\* Which rows a claim may take.
Eligible(s) ==
  /\ \/ job[s].status = "PENDING"
     \/ job[s].status = "RETRY_WAIT" /\ job[s].retryAt <= now
  /\ job[s].attempt < MaxAttempts
  /\ FirstUnfinished(s)

NextEpoch(d) == epoch[d] + 1

Claimed(j, w, e) ==
  [j EXCEPT !.status = "PROCESSING", !.worker = w, !.epoch = e,
            !.attempt = @ + 1, !.lease = now + Lease, !.retryAt = 0,
            !.outcome = "NONE"]

\* The claim takes the eligible job with the least enqueue_seq among those
\* whose document row is not locked, and draws a new epoch for its document.
Claim(w, s) ==
  LET d == job[s].doc
      e == NextEpoch(d)
  IN
  /\ Eligible(s)
  /\ holder[d] = "none"
  /\ \A t \in JobIds : t < s /\ Eligible(t) => holder[job[t].doc] # "none"
  /\ epoch' = [epoch EXCEPT ![d] = e]
  /\ job' = [job EXCEPT ![s] = Claimed(@, w, e)]
  /\ runs' = runs \cup
       {[seq |-> s, worker |-> w, epoch |-> e,
         attempt |-> job[s].attempt + 1, beats |-> 0]}
  /\ UNCHANGED <<now, nextSeq, docVars, holder, reclaimVars>>

\* Mutant: the token is the worker id alone.
OwnsByWorker(r) ==
  /\ job[r.seq].status = "PROCESSING"
  /\ job[r.seq].worker = r.worker

\* The token of an execution still matches the job and document rows.
Owns(r) ==
  /\ job[r.seq].status = "PROCESSING"
  /\ job[r.seq].worker = r.worker
  /\ job[r.seq].epoch = r.epoch
  /\ epoch[job[r.seq].doc] = r.epoch

\* Any write but a heartbeat also needs a lease that has not expired.
MayWriteResult(r) ==
  /\ holder[job[r.seq].doc] = "none"
  /\ Owns(r)
  /\ job[r.seq].lease > now

\* A heartbeat is accepted on an expired lease as well.
Heartbeat(r) ==
  /\ r.beats < MaxBeats
  /\ holder[job[r.seq].doc] = "none"
  /\ Owns(r)
  /\ job' = [job EXCEPT ![r.seq] = [@ EXCEPT !.lease = now + Lease]]
  /\ runs' = (runs \ {r}) \cup {[r EXCEPT !.beats = @ + 1]}
  /\ UNCHANGED <<now, nextSeq, docVars, epoch, holder, reclaimVars>>

\* A result write releases the job row: worker_id and lease_until are NULL in
\* every status but PROCESSING.
Released(j, status, outcome, retryAt) ==
  [j EXCEPT !.status = status, !.worker = NoWorker, !.lease = 0,
            !.retryAt = retryAt, !.outcome = outcome]

Promote(current, v) == IF v > current THEN v ELSE current

\* INDEX of a live document: chunks, indexed_at, promotion and the job in one
\* transaction.  Promotion only moves searchable_version_id forward.
FinishIndex(r) ==
  LET d == job[r.seq].doc
      v == job[r.seq].version
  IN
  /\ MayWriteResult(r)
  /\ v # NoVersion
  /\ ~deleted[d]
  /\ chunks' = [chunks EXCEPT ![d] = @ \cup {v}]
  /\ indexed' = [indexed EXCEPT ![d] = @ \cup {v}]
  /\ searchable' = [searchable EXCEPT ![d] = Promote(@, v)]
  /\ job' = [job EXCEPT ![r.seq] = Released(@, "COMPLETED", "INDEXED", 0)]
  /\ runs' = runs \ {r}
  /\ UNCHANGED <<now, nextSeq, latest, deleted, epoch, holder, reclaimVars>>

\* INDEX of a document deleted meanwhile: nothing is written but the job.
SkipIndex(r) ==
  /\ MayWriteResult(r)
  /\ job[r.seq].version # NoVersion
  /\ deleted[job[r.seq].doc]
  /\ job' = [job EXCEPT ![r.seq] =
               Released(@, "COMPLETED", "SKIPPED_DOCUMENT_DELETED", 0)]
  /\ runs' = runs \ {r}
  /\ UNCHANGED <<now, nextSeq, docVars, epoch, holder, reclaimVars>>

\* Mutant: only the chunks of the searchable version are removed.
RemoveSearched(d) == chunks[d] \ {searchable[d]}

RemoveAll(d) == {}

\* DELETE removes every chunk of the document.
FinishDelete(r) ==
  /\ MayWriteResult(r)
  /\ job[r.seq].version = NoVersion
  /\ chunks' = [chunks EXCEPT ![job[r.seq].doc] = RemoveAll(job[r.seq].doc)]
  /\ job' = [job EXCEPT ![r.seq] = Released(@, "COMPLETED", "DELETED", 0)]
  /\ runs' = runs \ {r}
  /\ UNCHANGED <<now, nextSeq, latest, deleted, searchable, indexed, epoch,
                 holder, reclaimVars>>

\* A transient failure schedules a retry while attempts are left.
FailTransient(r) ==
  /\ MayWriteResult(r)
  /\ job[r.seq].attempt < MaxAttempts
  /\ job' = [job EXCEPT ![r.seq] =
               Released(@, "RETRY_WAIT", "RETRY_SCHEDULED", now + Backoff)]
  /\ runs' = runs \ {r}
  /\ UNCHANGED <<now, nextSeq, docVars, epoch, holder, reclaimVars>>

\* A permanent failure, or a transient one at the attempt limit.
FailFinal(r) ==
  /\ MayWriteResult(r)
  /\ job' = [job EXCEPT ![r.seq] = Released(@, "FAILED", "FAILED_PROCESSING", 0)]
  /\ runs' = runs \ {r}
  /\ UNCHANGED <<now, nextSeq, docVars, epoch, holder, reclaimVars>>

\* The worker crashed, or gave the execution up after a write matched no row.
DropRun(r) ==
  /\ runs' = runs \ {r}
  /\ UNCHANGED <<now, nextSeq, job, docVars, epoch, holder, reclaimVars>>

----------------------------------------------------------------------------
(* reclaim_expired_indexing_jobs *)

\* Mutant: DELETE jobs, which have no version row to join, are left out.
LeaseRanOutIndexOnly(s) ==
  /\ job[s].status = "PROCESSING"
  /\ job[s].lease <= now
  /\ job[s].version # NoVersion

LeaseRanOut(s) == job[s].status = "PROCESSING" /\ job[s].lease <= now

Expired ==
  {[seq |-> s, doc |-> job[s].doc, worker |-> job[s].worker,
    epoch |-> job[s].epoch, lease |-> job[s].lease,
    docEpoch |-> epoch[job[s].doc]] : s \in {t \in JobIds : LeaseRanOut(t)}}

\* ORDER BY lease_until, enqueue_seq
Before(a, b) == a.lease < b.lease \/ (a.lease = b.lease /\ a.seq < b.seq)

\* LIMIT n
FirstOf(S, n) == {c \in S : Cardinality({b \in S : Before(b, c)}) < n}

\* The candidate query: a snapshot, read without any lock.
ReclaimScan ==
  /\ ~reclaim
  /\ Expired # {}
  /\ reclaim' = TRUE
  /\ cands' = FirstOf(Expired, Batch)
  /\ UNCHANGED <<now, nextSeq, job, docVars, epoch, holder, runs, taken>>

\* Mutant: ownership is checked again, the lease is not.
StillOwned(c) ==
  /\ job[c.seq].status = "PROCESSING"
  /\ job[c.seq].doc = c.doc
  /\ job[c.seq].worker = c.worker
  /\ job[c.seq].epoch = c.epoch
  /\ epoch[c.doc] = c.docEpoch

\* What is checked again after both row locks are held.
StillExpired(c) ==
  /\ job[c.seq].status = "PROCESSING"
  /\ job[c.seq].doc = c.doc
  /\ job[c.seq].worker = c.worker
  /\ job[c.seq].epoch = c.epoch
  /\ epoch[c.doc] = c.docEpoch
  /\ job[c.seq].lease = c.lease
  /\ job[c.seq].lease <= now

\* One turn of the loop: skip a document someone else has locked, else lock it
\* and take the job if it is still the one that was read.
ReclaimVisit(c) ==
  /\ c \in cands
  /\ \A b \in cands : b = c \/ Before(c, b)
  /\ cands' = cands \ {c}
  /\ \/ /\ holder[c.doc] = "upload"
        /\ UNCHANGED <<holder, taken>>
     \/ /\ holder[c.doc] # "upload"
        /\ holder' = [holder EXCEPT ![c.doc] = "reclaim"]
        /\ taken' = IF StillExpired(c) THEN taken \cup {c.seq} ELSE taken
  /\ UNCHANGED <<now, nextSeq, job, docVars, epoch, runs, reclaim>>

ReleaseReclaimLocks ==
  /\ holder' = [d \in Docs |-> IF holder[d] = "reclaim" THEN "none"
                                                        ELSE holder[d]]
  /\ reclaim' = FALSE
  /\ cands' = {}
  /\ taken' = {}

Reclaimed(j) ==
  [j EXCEPT !.status = "PENDING", !.worker = NoWorker, !.lease = 0,
            !.retryAt = 0]

\* The commit makes every taken job PENDING again, attempt and epoch kept.
ReclaimCommit ==
  /\ reclaim
  /\ cands = {}
  /\ job' = [s \in JobIds |->
               IF s \in taken THEN Reclaimed(job[s]) ELSE job[s]]
  /\ ReleaseReclaimLocks
  /\ UNCHANGED <<now, nextSeq, docVars, epoch, runs>>

\* The session is lost or cancelled: the transaction is rolled back.
ReclaimRollback ==
  /\ reclaim
  /\ ReleaseReclaimLocks
  /\ UNCHANGED <<now, nextSeq, job, docVars, epoch, runs>>

----------------------------------------------------------------------------

\* Time is compared with leases and retry times only, so it advances while one
\* of them lies in the future.
Tick ==
  /\ \E s \in JobIds : job[s].lease > now \/ job[s].retryAt > now
  /\ now' = now + 1
  /\ UNCHANGED <<nextSeq, job, docVars, epoch, holder, runs, reclaimVars>>

Server(d) ==
  \/ CreateDocument(d)
  \/ UploadBegin(d)
  \/ UploadCommit(d)
  \/ UploadRollback(d)
  \/ DeleteDocument(d)
  \/ \E v \in Versions : Retry(d, v) \/ SetSearchable(d, v)

Execution(r) ==
  \/ Heartbeat(r)
  \/ FinishIndex(r)
  \/ SkipIndex(r)
  \/ FinishDelete(r)
  \/ FailTransient(r)
  \/ FailFinal(r)
  \/ DropRun(r)

Reclaimer ==
  \/ ReclaimScan
  \/ \E c \in cands : ReclaimVisit(c)
  \/ ReclaimCommit
  \/ ReclaimRollback

Next ==
  \/ \E d \in Docs : Server(d)
  \/ \E w \in Workers, s \in JobIds : Claim(w, s)
  \/ \E r \in runs : Execution(r)
  \/ Reclaimer
  \/ Tick

Spec == Init /\ [][Next]_vars

----------------------------------------------------------------------------
(* Safety *)

\* A job that has ever been claimed has no unfinished predecessor of the same
\* document: a document's jobs run strictly in enqueue order, whatever leases
\* expire, and a reclaimed job goes back in front of its successors.
InOrder ==
  \A s, t \in JobIds :
    s < t /\ job[s].doc = job[t].doc /\ job[t].attempt > 0
      => job[s].status \in Finished

\* Of all executions still in the memory of any worker, zombies of reclaimed
\* jobs included, at most one per document has a token the database accepts.
SingleWriter ==
  \A a, b \in runs :
    Owns(a) /\ Owns(b) /\ job[a.seq].doc = job[b.seq].doc => a = b

\* The server never enqueues a second unfinished job for a version, so
\* uq_indexing_job_active_version never has to reject a transaction.
OneActiveJobPerVersion ==
  \A s, t \in JobIds :
    /\ s # t
    /\ job[s].status \in Unfinished /\ job[t].status \in Unfinished
    /\ job[s].doc = job[t].doc
    => job[s].version # job[t].version

\* Whatever version is searched has been indexed, and its chunks are there as
\* long as the document is not deleted.
SearchableIsServable ==
  \A d \in Docs :
    searchable[d] # NoVersion =>
      /\ searchable[d] \in indexed[d]
      /\ searchable[d] <= latest[d]
      /\ deleted[d] \/ searchable[d] \in chunks[d]

\* Once the DELETE job of a document has completed no chunk of the document is
\* left, and no execution that was under way brings one back.
NoChunksAfterDelete ==
  \A s \in JobIds :
    job[s].outcome = "DELETED" => chunks[job[s].doc] = {}

\* Only an expired lease is taken away: the procedure never returns a job to
\* PENDING whose worker has renewed the lease since the candidates were read.
ReclaimsOnlyExpired ==
  [][\A s \in JobIds :
       job[s].status = "PROCESSING" /\ job'[s].status = "PENDING"
         => job[s].lease <= now]_vars

\* COMPLETED and FAILED are final: no late write, retry or reclaim revives the
\* row.  A manual reindex makes a new one.
FinishedIsFinal ==
  [][\A s \in JobIds : job[s].status \in Finished => job'[s] = job[s]]_vars

\* While the lease of an execution runs, nobody can take its token away: not a
\* claim of another job, which draws a new epoch for the same document, nor a
\* reclaim that read an older row, a zombie, an upload or a deletion.  The
\* execution itself ends it, by its result or by a crash.
LiveTokenStands ==
  [][\A r \in runs :
       Owns(r) /\ job[r.seq].lease > now => Owns(r)' \/ r \notin runs']_vars

\* README.en.md: "a job that automatic retries could not recover can be
\* retried by hand from a button".  A PENDING job at the attempt limit is never
\* claimed again; the statement says the server accepts a retry of it.
UnrecoveredIsRetryable ==
  \A s \in JobIds :
    /\ job[s].status = "PENDING" /\ job[s].attempt = MaxAttempts
    /\ job[s].version # NoVersion /\ ~deleted[job[s].doc]
    => LatestJobHas(job[s].doc, job[s].version, "FAILED")

----------------------------------------------------------------------------
(* Refinement *)

PhaseOf(status) ==
  CASE status = "ABSENT" -> "none"
    [] status \in {"PENDING", "RETRY_WAIT"} -> "waiting"
    [] status = "PROCESSING" -> "running"
    [] OTHER -> "done"

Phase == [s \in JobIds |-> PhaseOf(job[s].status)]
Owner == [s \in JobIds |-> job[s].doc]

Ordered == INSTANCE OrderedJobs WITH phase <- Phase, owner <- Owner

\* The queue implements the ordered execution of each document's jobs: claims,
\* retries, lost executions and reclaims never let a job run next to or ahead
\* of an earlier one, and never reopen a finished one.
ImplementsOrderedJobs == Ordered!Spec

----------------------------------------------------------------------------
(* Liveness *)

\* A job that was reclaimed at the attempt limit: PENDING, but never eligible.
Exhausted(s) == job[s].status = "PENDING" /\ job[s].attempt = MaxAttempts

BlockedForever(s) ==
  \E t \in JobIds : t <= s /\ job[t].doc = job[s].doc /\ Exhausted(t)

\* Workers keep polling, and an execution ends one way or the other; an upload
\* ends; pg_cron keeps calling the procedure, whose transactions are not rolled
\* back for ever; time goes on.  A claim or a reclaim that meets a locked
\* document skips it, so both need strong fairness: uploads that hold the lock
\* at every single attempt are ruled out, uploads that come again and again are
\* not.
Fairness ==
  /\ WF_vars(Tick)
  /\ \A s \in JobIds : SF_vars(\E w \in Workers : Claim(w, s))
  /\ WF_vars(\E r \in runs : Execution(r) /\ ~Heartbeat(r))
  /\ \A d \in Docs : WF_vars(UploadCommit(d) \/ UploadRollback(d))
  /\ WF_vars(ReclaimScan)
  /\ WF_vars(\E c \in cands : ReclaimVisit(c))
  /\ \A d \in Docs :
       SF_vars(\E c \in cands :
                 ReclaimVisit(c) /\ c.doc = d /\ holder[d] # "upload")
  /\ WF_vars(ReclaimCommit)
  /\ <>[][~ReclaimRollback]_vars

FairSpec == Spec /\ Fairness

\* Every job that is enqueued finishes, unless it or an earlier job of its
\* document is reclaimed at the attempt limit.
JobsFinish ==
  \A s \in JobIds :
    job[s].status \in Unfinished
      ~> job[s].status \in Finished \/ BlockedForever(s)

=============================================================================
