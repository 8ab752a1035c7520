---------------------------- MODULE DocumentStore ----------------------------
(***************************************************************************)
(* The transactions of the document service on the document and            *)
(* document_version tables and on the object storage.                      *)
(*                                                                         *)
(* A request loads the document row with FOR UPDATE, changes the entity in *)
(* the memory of the server, for an upload stores the object, and commits: *)
(* Hibernate then writes every mapped column of a changed entity.  The     *)
(* object storage takes no part in the transaction, and the database may   *)
(* drop the session, and with it the lock, while an upload goes on.        *)
(* Meanwhile workers set the searched version of the same row.             *)
(***************************************************************************)
EXTENDS Integers, Sequences

CONSTANTS
  Docs,         \* document ids
  Clients,      \* requests that may be under way together
  Titles,
  Contents,     \* what may be uploaded; stands for its hash as well
  NoDoc, NoClient, NoTitle, NoContent,
  MaxVersions,  \* bound: versions of one document
  MaxUploads    \* bound: objects put

ASSUME BoundsAssumption == MaxVersions \in Nat \ {0} /\ MaxUploads \in Nat

ASSUME NullAssumption ==
  /\ NoDoc \notin Docs
  /\ NoClient \notin Clients
  /\ NoTitle \notin Titles
  /\ NoContent \notin Contents

VARIABLES
  row,       \* the document rows
  version,   \* the document_version rows, by version_no
  indexed,   \* versions whose indexed_at is set
  jobs,      \* what the triggers enqueued: a version_no, or 0 for DELETE
  drawn,     \* document ids taken from the identity sequence
  lock,      \* who holds the lock of a document row
  tx,        \* the transaction of each request
  store,     \* the objects in the storage
  uuid,      \* how many random object names were drawn
  reported   \* duplicateOfVersionNo in the response to an upload; 0: null

tables == <<row, version, indexed, jobs, reported>>
objects == <<store, uuid>>
vars == <<tables, objects, drawn, lock, tx>>

Versions == 1..MaxVersions
MaybeVersion == 0..MaxVersions

\* latest = 0: there is no such row.
Row ==
  [latest : MaybeVersion, title : Titles \cup {NoTitle}, deleted : BOOLEAN,
   searchable : MaybeVersion]

NoRow == [latest |-> 0, title |-> NoTitle, deleted |-> FALSE, searchable |-> 0]
NewRow(t) == [latest |-> 1, title |-> t, deleted |-> FALSE, searchable |-> 0]

ObjectKeys == Docs \X Versions \X Nat
NoKey == <<>>

Version == [key : ObjectKeys \cup {NoKey}, content : Contents \cup {NoContent}]
NoVersion == [key |-> NoKey, content |-> NoContent]

\* A transaction: the entity as loaded and as changed, and for an upload the
\* object.  alive: the database still has the session.
Tx ==
  [pc : {"idle", "loaded", "upload", "stored", "ready"}, alive : BOOLEAN,
   doc : Docs \cup {NoDoc}, loaded : Row, entity : Row, object : Version]

Started(pc, d, loaded, entity) ==
  [pc |-> pc, alive |-> TRUE, doc |-> d, loaded |-> loaded, entity |-> entity,
   object |-> NoVersion]

NoTx == Started("idle", NoDoc, NoRow, NoRow)

TypeOK ==
  /\ row \in [Docs -> Row]
  /\ version \in [Docs -> [Versions -> Version]]
  /\ indexed \in [Docs -> SUBSET Versions]
  /\ jobs \in [Docs -> Seq(MaybeVersion)]
  /\ drawn \subseteq Docs
  /\ lock \in [Docs -> Clients \cup {NoClient}]
  /\ tx \in [Clients -> Tx]
  /\ store \subseteq [key : ObjectKeys, content : Contents]
  /\ uuid \in 0..MaxUploads
  /\ reported \in [Docs -> [Versions -> MaybeVersion]]

Init ==
  /\ row = [d \in Docs |-> NoRow]
  /\ version = [d \in Docs |-> [n \in Versions |-> NoVersion]]
  /\ indexed = [d \in Docs |-> {}]
  /\ jobs = [d \in Docs |-> <<>>]
  /\ drawn = {}
  /\ lock = [d \in Docs |-> NoClient]
  /\ tx = [c \in Clients |-> NoTx]
  /\ store = {}
  /\ uuid = 0
  /\ reported = [d \in Docs |-> [n \in Versions |-> 0]]

----------------------------------------------------------------------------
(* Requests *)

\* createDocument up to the upload.  Nobody else can see the row.
StartCreate(c, d, t) ==
  /\ tx[c].pc = "idle"
  /\ d \notin drawn
  /\ drawn' = drawn \cup {d}
  /\ tx' = [tx EXCEPT ![c] = Started("upload", d, NoRow, NewRow(t))]
  /\ UNCHANGED <<tables, objects, lock>>

Visible(d) == row[d].latest > 0 /\ ~row[d].deleted

\* Mutant: the row is read without FOR UPDATE.
LoadUnlocked(c, d) ==
  /\ tx[c].pc = "idle"
  /\ Visible(d)
  /\ lock' = [lock EXCEPT ![d] = c]
  /\ tx' = [tx EXCEPT ![c] = Started("loaded", d, row[d], row[d])]
  /\ UNCHANGED <<tables, objects, drawn>>

\* findActiveForUpdate: the database waits for the lock, then reads the row as
\* it is by then and applies the condition to it.
Load(c, d) ==
  /\ tx[c].pc = "idle"
  /\ lock[d] = NoClient
  /\ Visible(d)
  /\ lock' = [lock EXCEPT ![d] = c]
  /\ tx' = [tx EXCEPT ![c] = Started("loaded", d, row[d], row[d])]
  /\ UNCHANGED <<tables, objects, drawn>>

\* The handlers change the entity only.
Change(c, pc, entity) ==
  /\ tx[c].pc = "loaded"
  /\ tx' = [tx EXCEPT ![c] = [@ EXCEPT !.pc = pc, !.entity = entity]]
  /\ UNCHANGED <<tables, objects, drawn, lock>>

UpdateTitle(c, t) == Change(c, "ready", [tx[c].entity EXCEPT !.title = t])

Delete(c) == Change(c, "ready", [tx[c].entity EXCEPT !.deleted = TRUE])

UpdateSearchable(c, n) ==
  /\ tx[c].pc = "loaded" /\ tx[c].alive
  /\ n \in indexed[tx[c].doc]
  /\ Change(c, "ready", [tx[c].entity EXCEPT !.searchable = n])

\* addVersion takes the next number before it uploads.
TakeNumber(c) ==
  /\ tx[c].entity.latest < MaxVersions
  /\ Change(c, "upload", [tx[c].entity EXCEPT !.latest = @ + 1])

\* Mutant: the object is named by the version alone.
KeyByNumber(d, n, u) == <<d, n, 0>>

ObjectKey(d, n, u) == <<d, n, u>>

\* The upload.  It needs no database session, so it also completes after the
\* session is lost.
Put(c, x) ==
  LET key == ObjectKey(tx[c].doc, tx[c].entity.latest, uuid + 1)
  IN
  /\ tx[c].pc = "upload"
  /\ uuid < MaxUploads
  /\ uuid' = uuid + 1
  /\ store' = {o \in store : o.key # key} \cup {[key |-> key, content |-> x]}
  /\ tx' = [tx EXCEPT ![c] = [@ EXCEPT !.pc = "stored",
                                       !.object = [key |-> key, content |-> x]]]
  /\ UNCHANGED <<tables, drawn, lock>>

\* Mutant: the content is compared with the version before only.
EarliestIsPrevious(d, x) ==
  IF \E n \in Versions : version[d][n].content = x /\ n = row[d].latest
  THEN row[d].latest
  ELSE 0

\* The earliest version with this content hash, 0 if there is none.
Earliest(d, x) ==
  IF \E n \in Versions : version[d][n].content = x
  THEN CHOOSE n \in Versions :
         /\ version[d][n].content = x
         /\ \A m \in Versions : version[d][m].content = x => n <= m
  ELSE 0

Ended(c) ==
  /\ tx' = [tx EXCEPT ![c] = NoTx]
  /\ lock' = [d \in Docs |-> IF lock[d] = c THEN NoClient ELSE lock[d]]

\* A changed entity is written with all its columns, an unchanged one not at
\* all.
Flushed(c) ==
  IF tx[c].entity = tx[c].loaded THEN row[tx[c].doc] ELSE tx[c].entity

\* The commit of a request without a new version, and the DELETE trigger.
Commit(c) ==
  LET d == tx[c].doc
      new == Flushed(c)
  IN
  /\ tx[c].pc = "ready"
  /\ tx[c].alive
  /\ row' = [row EXCEPT ![d] = new]
  /\ jobs' = IF ~row[d].deleted /\ new.deleted
             THEN [jobs EXCEPT ![d] = Append(@, 0)]
             ELSE jobs
  /\ Ended(c)
  /\ UNCHANGED <<version, indexed, reported, objects, drawn>>

\* The commit of an upload: the version row and the INDEX trigger as well.
\* uk_document_version admits each number once.
CommitVersion(c) ==
  LET d == tx[c].doc
      n == tx[c].entity.latest
  IN
  /\ tx[c].pc = "stored"
  /\ tx[c].alive
  /\ version[d][n] = NoVersion
  /\ row' = [row EXCEPT ![d] = Flushed(c)]
  /\ version' = [version EXCEPT ![d] = [@ EXCEPT ![n] = tx[c].object]]
  /\ jobs' = [jobs EXCEPT ![d] = Append(@, n)]
  /\ reported' = [reported EXCEPT ![d] =
                    [@ EXCEPT ![n] = Earliest(d, tx[c].object.content)]]
  /\ Ended(c)
  /\ UNCHANGED <<indexed, objects, drawn>>

\* Refused, not ready, a failed upload or statement, a crash: rolled back.  An
\* object that was stored stays.
Fail(c) ==
  /\ tx[c].pc # "idle"
  /\ Ended(c)
  /\ UNCHANGED <<tables, objects, drawn>>

\* The database drops the session and the lock; the server has not noticed.
LoseSession(c) ==
  /\ tx[c].pc # "idle"
  /\ tx[c].alive
  /\ tx' = [tx EXCEPT ![c] = [@ EXCEPT !.alive = FALSE]]
  /\ lock' = [d \in Docs |-> IF lock[d] = c THEN NoClient ELSE lock[d]]
  /\ UNCHANGED <<tables, objects, drawn>>

----------------------------------------------------------------------------
(* The workers *)

\* The promotion moves the searched version forward only.
Promoted(r, n) == [r EXCEPT !.searchable = IF n > @ THEN n ELSE @]

\* An INDEX job of a live document completes: see IndexingQueue.FinishIndex.
FinishIndex(d, n) ==
  /\ lock[d] = NoClient
  /\ Visible(d)
  /\ n <= row[d].latest
  /\ n \notin indexed[d]
  /\ indexed' = [indexed EXCEPT ![d] = @ \cup {n}]
  /\ row' = [row EXCEPT ![d] = Promoted(@, n)]
  /\ UNCHANGED <<version, jobs, reported, objects, drawn, lock, tx>>

----------------------------------------------------------------------------

Request(c) ==
  \/ \E d \in Docs : Load(c, d) \/ \E t \in Titles : StartCreate(c, d, t)
  \/ \E t \in Titles : UpdateTitle(c, t)
  \/ Delete(c)
  \/ \E n \in Versions : UpdateSearchable(c, n)
  \/ TakeNumber(c)
  \/ \E x \in Contents : Put(c, x)
  \/ Commit(c)
  \/ CommitVersion(c)
  \/ Fail(c)
  \/ LoseSession(c)

Next ==
  \/ \E c \in Clients : Request(c)
  \/ \E d \in Docs, n \in Versions : FinishIndex(d, n)

Spec == Init /\ [][Next]_vars

----------------------------------------------------------------------------
(* Safety *)

\* Every version can be downloaded, and what is downloaded has the hash in its
\* row: no upload that failed, or that went on after its session was lost,
\* replaces or removes the object of a committed version.
StoredAsHashed ==
  \A d \in Docs, n \in Versions :
    n <= row[d].latest =>
      \E o \in store :
        /\ o = version[d][n]
        /\ \A p \in store : p.key = o.key => p = o

\* The jobs of a document are its versions in the order of their numbers, then
\* its deletion: no flush of an old entity repeats or leaves out a trigger.
JobsFollowVersions ==
  \A d \in Docs :
    /\ Len(jobs[d]) = row[d].latest + (IF row[d].deleted THEN 1 ELSE 0)
    /\ \A i \in 1..Len(jobs[d]) :
         jobs[d][i] = IF i <= row[d].latest THEN i ELSE 0

\* The response to an upload names the earliest version with the same content,
\* among all versions, and every later read of the version agrees with it.
DuplicatesAgree ==
  \A d \in Docs, n \in Versions :
    n <= row[d].latest =>
      \A m \in 1..n :
        version[d][m].content = version[d][n].content
          => IF reported[d][n] = 0 THEN m = n
             ELSE /\ reported[d][n] <= m
                  /\ version[d][reported[d][n]].content = version[d][n].content

----------------------------------------------------------------------------
(* Refinement *)

Content    == [d \in Docs |-> [n \in Versions |-> version[d][n].content]]
Title      == [d \in Docs |-> row[d].title]
Deleted    == [d \in Docs |-> row[d].deleted]
Searchable == [d \in Docs |-> row[d].searchable]

Abstract == INSTANCE VersionedDocuments
  WITH content <- Content, title <- Title, deleted <- Deleted,
       searched <- Searchable

\* Each request changes its own column of the row it saw, all at once, and a
\* deleted document never changes, although every flush writes all columns and
\* the workers write to the same row.
ImplementsVersionedDocuments == Abstract!Spec

=============================================================================
