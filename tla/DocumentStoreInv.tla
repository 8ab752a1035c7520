--------------------------- MODULE DocumentStoreInv ---------------------------
(***************************************************************************)
(* The inductive invariant of DocumentStore, one part per reason.          *)
(***************************************************************************)
EXTENDS DocumentStore

\* A request that creates a document has loaded no row.
Creates(c) == tx[c].pc # "idle" /\ tx[c].loaded = NoRow

\* The version rows are numbered from 1 to latest, and nothing else of the
\* document refers to a number beyond.
NumbersInv ==
  \A d \in Docs :
    /\ \A n \in Versions : version[d][n].content = NoContent <=> n > row[d].latest
    /\ \A n \in Versions : n > row[d].latest => version[d][n] = NoVersion
    /\ indexed[d] \subseteq 1..row[d].latest
    /\ row[d].searchable <= row[d].latest
    /\ row[d].latest = 0 => row[d] = NoRow
    /\ row[d].latest > 0 => d \in drawn

\* A row lock belongs to one live request, and the row is still the one that
\* request has loaded: the lock protects what the entity was read from.
LockInv ==
  /\ \A d \in Docs, c \in Clients :
       lock[d] = c =>
         tx[c].pc # "idle" /\ tx[c].alive /\ tx[c].doc = d /\ ~Creates(c)
  /\ \A c \in Clients :
       tx[c].pc # "idle" /\ tx[c].alive /\ ~Creates(c) =>
         /\ lock[tx[c].doc] = c
         /\ tx[c].loaded = row[tx[c].doc]
         /\ Visible(tx[c].doc)

\* A document id belongs to one creation, and no row has it before the commit.
CreateInv ==
  /\ \A c \in Clients :
       Creates(c) =>
         /\ tx[c].doc \in drawn
         /\ row[tx[c].doc] = NoRow
  /\ \A a, b \in Clients :
       Creates(a) /\ Creates(b) /\ tx[a].doc = tx[b].doc => a = b

\* The entity differs from the row it was loaded from in what the request
\* changes and in nothing else.
EntityInv ==
  \A c \in Clients :
    LET l == tx[c].loaded
        e == tx[c].entity
    IN
    /\ tx[c].pc # "idle" => tx[c].doc \in Docs
    /\ tx[c].pc = "loaded" => e = l
    /\ tx[c].pc = "ready" =>
         \/ \E t \in Titles : e = [l EXCEPT !.title = t]
         \/ e = [l EXCEPT !.deleted = TRUE]
         \/ \E n \in 1..l.latest : e = [l EXCEPT !.searchable = n]
    /\ tx[c].pc \in {"loaded", "ready"} => l # NoRow
    /\ tx[c].pc \in {"upload", "stored"} =>
         IF Creates(c)
         THEN \E t \in Titles : e = NewRow(t)
         ELSE l.latest < MaxVersions /\ e = [l EXCEPT !.latest = l.latest + 1]

\* Every object has a random name of its own, so none is ever overwritten, and
\* a request that has stored its object finds it there.
StoreInv ==
  /\ \A o \in store : o.key[3] \in 1..uuid
  /\ \A o, p \in store : o.key[3] = p.key[3] => o = p
  /\ \A c \in Clients : tx[c].pc = "stored" => tx[c].object \in store
  /\ \A d \in Docs, n \in Versions :
       n <= row[d].latest => version[d][n] \in store

\* Inductive: it holds initially and every step of Next preserves it.
IInv ==
  /\ TypeOK
  /\ NumbersInv
  /\ LockInv
  /\ CreateInv
  /\ EntityInv
  /\ StoreInv
  /\ JobsFollowVersions
  /\ DuplicatesAgree

=============================================================================
