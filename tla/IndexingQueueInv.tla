-------------------------- MODULE IndexingQueueInv --------------------------
(***************************************************************************)
(* The inductive invariant of the indexing queue: what the safety          *)
(* properties of IndexingQueue rest on, one part per reason.               *)
(***************************************************************************)
EXTENDS IndexingQueue

\* Rows are inserted in the order of enqueue_seq and belong to a document that
\* exists; only a deleted document has DELETE jobs.
RowsInv ==
  \A s \in JobIds :
    IF s >= nextSeq
    THEN job[s] = AbsentJob
    ELSE /\ job[s].status # "ABSENT"
         /\ job[s].doc \in Docs
         /\ latest[job[s].doc] > 0
         /\ job[s].version <= latest[job[s].doc]
         /\ job[s].version = NoVersion => deleted[job[s].doc]
         /\ job[s].status = "PROCESSING" => job[s].attempt > 0
         /\ job[s].outcome = "DELETED" => job[s].version = NoVersion

\* The document row lock protects what addVersion has checked.
UploadInv ==
  \A d \in Docs :
    holder[d] = "upload" =>
      latest[d] > 0 /\ latest[d] < MaxVersions /\ ~deleted[d]

\* Only the latest job of a version can be unfinished.
LatestActive ==
  \A s, t \in JobIds :
    /\ s < t
    /\ t < nextSeq
    /\ job[s].doc = job[t].doc
    /\ job[s].version = job[t].version
    => job[s].status \in Finished

\* Every claim draws an epoch of its own, and the running job has the last one.
EpochInv ==
  \A s \in JobIds :
    s < nextSeq =>
      /\ job[s].epoch <= epoch[job[s].doc]
      /\ job[s].status = "PROCESSING" => job[s].epoch = epoch[job[s].doc]

\* No two executions, zombies included, hold the same epoch of a document.
RunsInv ==
  /\ \A r \in runs : r.seq < nextSeq /\ r.epoch <= epoch[job[r.seq].doc]
  /\ \A a, b \in runs :
       job[a.seq].doc = job[b.seq].doc /\ a.epoch = b.epoch => a = b

\* What an open reclaim transaction has taken stays expired until it commits,
\* because it holds the document row locks.
ReclaimInv ==
  /\ \A s \in taken :
       /\ job[s].status = "PROCESSING"
       /\ job[s].lease <= now
       /\ holder[job[s].doc] = "reclaim"
  /\ ~reclaim =>
       /\ cands = {}
       /\ taken = {}
       /\ \A d \in Docs : holder[d] # "reclaim"

\* What is indexed was uploaded, and is in document_chunk until the deletion.
IndexedInv ==
  \A d \in Docs :
    /\ \A v \in indexed[d] : v <= latest[d]
    /\ deleted[d] \/ indexed[d] \subseteq chunks[d]

\* Inductive: it holds initially and every step of Next preserves it.
IInv ==
  /\ TypeOK
  /\ RowsInv
  /\ UploadInv
  /\ InOrder
  /\ LatestActive
  /\ EpochInv
  /\ RunsInv
  /\ ReclaimInv
  /\ IndexedInv
  /\ SearchableIsServable
  /\ NoChunksAfterDelete

=============================================================================
