------------------------- MODULE VersionedDocuments -------------------------
(***************************************************************************)
(* What the document service promises about a document, without sessions,  *)
(* locks, entities or objects: its versions are numbered without a gap,    *)
(* each one keeps its content, each request changes one thing, and after   *)
(* the deletion nothing changes.                                           *)
(***************************************************************************)
EXTENDS Integers

CONSTANTS Docs, Titles, Contents, NoTitle, NoContent, MaxVersions

Versions == 1..MaxVersions

VARIABLES
  content,   \* what was uploaded as each version
  title,
  deleted,
  searched   \* the version that search serves; 0: none

vars == <<content, title, deleted, searched>>

Exists(d) == content[d][1] # NoContent
Live(d)   == Exists(d) /\ ~deleted[d]

Init ==
  /\ content = [d \in Docs |-> [n \in Versions |-> NoContent]]
  /\ title = [d \in Docs |-> NoTitle]
  /\ deleted = [d \in Docs |-> FALSE]
  /\ searched = [d \in Docs |-> 0]

Create(d, t, x) ==
  /\ ~Exists(d)
  /\ content' = [content EXCEPT ![d] = [@ EXCEPT ![1] = x]]
  /\ title' = [title EXCEPT ![d] = t]
  /\ UNCHANGED <<deleted, searched>>

\* The next version is the first that has no content.
AddVersion(d, n, x) ==
  /\ Live(d)
  /\ \A m \in Versions : content[d][m] = NoContent <=> m >= n
  /\ content' = [content EXCEPT ![d] = [@ EXCEPT ![n] = x]]
  /\ UNCHANGED <<title, deleted, searched>>

Rename(d, t) ==
  /\ Live(d)
  /\ title' = [title EXCEPT ![d] = t]
  /\ UNCHANGED <<content, deleted, searched>>

Delete(d) ==
  /\ Live(d)
  /\ deleted' = [deleted EXCEPT ![d] = TRUE]
  /\ UNCHANGED <<content, title, searched>>

\* By hand or by the promotion of an indexed version.
Search(d, n) ==
  /\ Live(d)
  /\ content[d][n] # NoContent
  /\ searched' = [searched EXCEPT ![d] = n]
  /\ UNCHANGED <<content, title, deleted>>

Next ==
  \E d \in Docs :
    \/ \E t \in Titles : Rename(d, t) \/ \E x \in Contents : Create(d, t, x)
    \/ \E n \in Versions : Search(d, n) \/ \E x \in Contents : AddVersion(d, n, x)
    \/ Delete(d)

Spec == Init /\ [][Next]_vars

=============================================================================
