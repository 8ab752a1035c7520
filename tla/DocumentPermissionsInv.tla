----------------------- MODULE DocumentPermissionsInv -----------------------
(* The inductive invariant of DocumentPermissions, in named parts. *)
EXTENDS DocumentPermissions

\* Rows have an id and a name of their own.
IdsInv ==
  /\ \A s \in scopes : s.id < nextId
  /\ \A s, t \in scopes : s.id = t.id \/ s.name = t.name => s = t

\* The row that the creation of the document gave its owner.
OwnerInv == \E s \in scopes : s.id = 1 /\ s.name = Owner

\* What a request has checked and loaded: ids are not used again, so that a
\* loaded row that is still there is the row of the same name.
Loaded(t) ==
  /\ t.op = "grant" => t.name \in Names /\ t.permission \in Permission
  /\ t.op = "revoke" /\ t.pc \in {"allowed", "located"} => t.name # Owner
  /\ t.op = "revoke" /\ t.pc = "located" => t.row # NoScope
  /\ t.row # NoScope => t.row.name = t.name /\ t.row.id < nextId
  /\ \A s \in scopes : s.id = t.row.id => s.name = t.row.name

LoadedInv == \A c \in Clients : Loaded(tx[c])

IInv == TypeOK /\ IdsInv /\ OwnerInv /\ LoadedInv

\* What the refinement needs besides: how far a request of each kind can be.
Progress(t) ==
  /\ t.op = "none" => t.pc = "idle"
  /\ t.op = "list" => t.pc \in {"listed", "ok"}
  /\ t.op \in {"grant", "revoke"} =>
       /\ t.pc \in {"found", "allowed", "located", "ok"}
       /\ t.name \in Names /\ t.permission \in Permission
  /\ t.op = "delete" => t.pc \in {"found", "allowed", "ok"}

ProgressInv == \A c \in Clients : Progress(tx[c])

\* A request that is about to delete the document has locked it, and nobody
\* has deleted it since.
LockInv ==
  \A c \in Clients :
    tx[c].op = "delete" /\ tx[c].pc \in {"found", "allowed"} =>
      lock = c /\ ~deleted

RefInv == IInv /\ ProgressInv /\ LockInv

=============================================================================
