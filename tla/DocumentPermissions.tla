------------------------- MODULE DocumentPermissions -------------------------
(***************************************************************************)
(* Granting, revoking and using the permissions of one document.           *)
(*                                                                         *)
(* A request is a transaction of several statements under READ COMMITTED:  *)
(* it finds the document, then reads the permissions of its user, then the *)
(* row it is about, and writes at the end.  Only requests that change the  *)
(* document lock a row.  Between two statements the rows may change.       *)
(***************************************************************************)
EXTENDS Integers

CONSTANTS
  Users,        \* users of the document's tenant
  Owner,        \* the user who created the document
  Tenant,       \* the tenant as a principal
  Respellings,  \* principal ids that parse as a number of the tenant or of one
                \* of its users, but are not how that number is written
  Strangers,    \* principal ids that name nobody in the tenant
  Clients,      \* requests that may be under way together
  NoClient, NoName,
  MaxIds        \* bound: rows ever inserted

Principals == Users \cup {Tenant}
Names == Principals \cup Respellings \cup Strangers

ASSUME NamesAssumption ==
  /\ Owner \in Users
  /\ Tenant \notin Users
  /\ Respellings \cap Principals = {}
  /\ Strangers \cap (Principals \cup Respellings) = {}
  /\ NoName \notin Names
  /\ NoClient \notin Clients

ASSUME IdsAssumption == MaxIds \in Nat /\ MaxIds >= 2

VARIABLES
  scopes,   \* the committed rows of document_access_scope
  nextId,   \* the identity sequence of their ids
  deleted,  \* document.deleted_at is set
  lock,     \* who holds the lock of the document row
  tx        \* the request of each client

vars == <<scopes, nextId, deleted, lock, tx>>

READ == 1
WRITE == 2
ADMIN == 3
Permission == {READ, WRITE, ADMIN}

Scope == [id : 1..MaxIds, name : Names, permission : Permission]
NoScope == [id |-> 0, name |-> NoName, permission |-> 0]

\* A request: what it asks for, and the row it has loaded.
Tx ==
  [pc : {"idle", "found", "allowed", "located", "listed", "ok"},
   op : {"none", "grant", "revoke", "delete", "list"},
   user : Users, name : Names \cup {NoName}, permission : Permission \cup {0},
   row : Scope \cup {NoScope}]

Idle ==
  [pc |-> "idle", op |-> "none", user |-> Owner, name |-> NoName,
   permission |-> 0, row |-> NoScope]

TypeOK ==
  /\ scopes \subseteq Scope
  /\ nextId \in 1..MaxIds + 1
  /\ deleted \in BOOLEAN
  /\ lock \in Clients \cup {NoClient}
  /\ tx \in [Clients -> Tx]

\* createDocument grants ADMIN to its user and READ to the tenant.
Init ==
  /\ scopes = {[id |-> 1, name |-> Owner, permission |-> ADMIN],
               [id |-> 2, name |-> Tenant, permission |-> READ]}
  /\ nextId = 3
  /\ deleted = FALSE
  /\ lock = NoClient
  /\ tx = [c \in Clients |-> Idle]

----------------------------------------------------------------------------
(* Reading permissions *)

\* The rows that count for a user: his own and his tenant's.
GrantedTo(u) == {s \in scopes : s.name \in {u, Tenant}}

\* The highest of them satisfies what is required; the owner needs none.
Permits(u, required) ==
  u = Owner \/ \E s \in GrantedTo(u) : s.permission >= required

\* The condition of lists, and the one of searches, which has no owner in it.
Listed(u) == u = Owner \/ GrantedTo(u) # {}
Searched(u) == GrantedTo(u) # {}

----------------------------------------------------------------------------
(* Requests *)

Step(c, pc) == tx' = [tx EXCEPT ![c] = [@ EXCEPT !.pc = pc]]

End(c) == tx' = [tx EXCEPT ![c] = Idle]

Begin(c, op, u, n, p) ==
  tx' = [tx EXCEPT ![c] =
           [pc |-> "found", op |-> op, user |-> u, name |-> n,
            permission |-> p, row |-> NoScope]]

\* findActive
Find(c, op, u, n, p) ==
  /\ tx[c].pc = "idle"
  /\ op \in {"grant", "revoke"}
  /\ ~deleted
  /\ Begin(c, op, u, n, p)
  /\ UNCHANGED <<scopes, nextId, deleted, lock>>

\* findActiveForUpdate
FindLocked(c, u) ==
  /\ tx[c].pc = "idle"
  /\ lock = NoClient
  /\ ~deleted
  /\ lock' = c
  /\ Begin(c, "delete", u, NoName, 0)
  /\ UNCHANGED <<scopes, nextId, deleted>>

\* Mutant: every administrator may take the owner's row away.
AuthorizeAny(c) ==
  /\ tx[c].pc = "found"
  /\ Permits(tx[c].user, IF tx[c].op = "delete" THEN WRITE ELSE ADMIN)
  /\ Step(c, "allowed")
  /\ UNCHANGED <<scopes, nextId, deleted, lock>>

\* require, then validatePrincipal or the check that keeps the owner's row.
Authorize(c) ==
  /\ tx[c].pc = "found"
  /\ Permits(tx[c].user, IF tx[c].op = "delete" THEN WRITE ELSE ADMIN)
  /\ tx[c].op = "grant" => tx[c].name \notin Strangers
  /\ tx[c].op = "revoke" => tx[c].name # Owner
  /\ Step(c, "allowed")
  /\ UNCHANGED <<scopes, nextId, deleted, lock>>

\* Loading the row of the name, if there is one.  A revocation needs it.
Locate(c) ==
  LET rows == {s \in scopes : s.name = tx[c].name}
  IN
  /\ tx[c].pc = "allowed"
  /\ tx[c].op # "delete"
  /\ rows = {} => tx[c].op = "grant"
  /\ \E r \in IF rows = {} THEN {NoScope} ELSE rows :
       tx' = [tx EXCEPT ![c] = [@ EXCEPT !.pc = "located", !.row = r]]
  /\ UNCHANGED <<scopes, nextId, deleted, lock>>

\* A new row; uk_document_access_scope refuses a second one of the name.
Insert(c) ==
  /\ tx[c].pc = "located" /\ tx[c].op = "grant"
  /\ tx[c].row = NoScope
  /\ \A s \in scopes : s.name # tx[c].name
  /\ nextId <= MaxIds
  /\ scopes' = scopes \cup {[id |-> nextId, name |-> tx[c].name,
                             permission |-> tx[c].permission]}
  /\ nextId' = nextId + 1
  /\ Step(c, "ok")
  /\ UNCHANGED <<deleted, lock>>

\* Mutant: an UPDATE that matches no row is taken for a success.
UpdateAny(c) ==
  /\ tx[c].pc = "located" /\ tx[c].op = "grant"
  /\ tx[c].row # NoScope
  /\ scopes' = {IF s.id = tx[c].row.id
                THEN [s EXCEPT !.permission = tx[c].permission] ELSE s : s \in scopes}
  /\ Step(c, "ok")
  /\ UNCHANGED <<nextId, deleted, lock>>

\* The loaded row is written when its permission changes, and must still be
\* there then.  Otherwise nothing is written.
Update(c) ==
  /\ tx[c].pc = "located" /\ tx[c].op = "grant"
  /\ tx[c].row # NoScope
  /\ IF tx[c].permission = tx[c].row.permission
     THEN UNCHANGED scopes
     ELSE \E s \in scopes :
            /\ s.id = tx[c].row.id
            /\ scopes' = (scopes \ {s})
                 \cup {[s EXCEPT !.permission = tx[c].permission]}
  /\ Step(c, "ok")
  /\ UNCHANGED <<nextId, deleted, lock>>

\* Mutant: the row is deleted by its name.
RemoveByName(c) ==
  /\ tx[c].pc = "located" /\ tx[c].op = "revoke"
  /\ \E s \in scopes : s.name = tx[c].name /\ scopes' = scopes \ {s}
  /\ Step(c, "ok")
  /\ UNCHANGED <<nextId, deleted, lock>>

\* The loaded row is deleted by its id, and must still be there.
Remove(c) ==
  /\ tx[c].pc = "located" /\ tx[c].op = "revoke"
  /\ \E s \in scopes : s.id = tx[c].row.id /\ scopes' = scopes \ {s}
  /\ Step(c, "ok")
  /\ UNCHANGED <<nextId, deleted, lock>>

Unlock(c) == lock' = IF lock = c THEN NoClient ELSE lock

\* deleteDocument; updateTitle and addVersion have the same shape.
Delete(c) ==
  /\ tx[c].pc = "allowed" /\ tx[c].op = "delete"
  /\ deleted' = TRUE
  /\ Unlock(c)
  /\ Step(c, "ok")
  /\ UNCHANGED <<scopes, nextId>>

\* A list or a detail: the documents of the user, then their permissions.
List(c, u) ==
  /\ tx[c].pc = "idle"
  /\ ~deleted
  /\ Listed(u)
  /\ tx' = [tx EXCEPT ![c] = [Idle EXCEPT !.pc = "listed", !.op = "list", !.user = u]]
  /\ UNCHANGED <<scopes, nextId, deleted, lock>>

Respond(c) ==
  /\ tx[c].pc = "listed"
  /\ IF Permits(tx[c].user, READ) THEN Step(c, "ok") ELSE End(c)
  /\ UNCHANGED <<scopes, nextId, deleted, lock>>

\* An error response: a refusal, a constraint or a row count that does not
\* match, a lost session.
Fail(c) ==
  /\ tx[c].pc \in {"found", "allowed", "located", "listed"}
  /\ Unlock(c)
  /\ End(c)
  /\ UNCHANGED <<scopes, nextId, deleted>>

\* The success has been reported.
Leave(c) ==
  /\ tx[c].pc = "ok"
  /\ End(c)
  /\ UNCHANGED <<scopes, nextId, deleted, lock>>

Administer(c) ==
  \/ \E u \in Users, n \in Names :
       \/ Find(c, "revoke", u, n, READ)
       \/ \E p \in Permission : Find(c, "grant", u, n, p)
  \/ Locate(c)
  \/ Insert(c)
  \/ Update(c)
  \/ Remove(c)

Use(c) ==
  \/ \E u \in Users : FindLocked(c, u) \/ List(c, u)
  \/ Delete(c)
  \/ Respond(c)

Next ==
  \E c \in Clients :
    Administer(c) \/ Use(c) \/ Authorize(c) \/ Fail(c) \/ Leave(c)

Spec == Init /\ [][Next]_vars

----------------------------------------------------------------------------
(* Properties *)

\* What a user may read he also finds by searching, although the search has no
\* exception for the owner: whatever is granted and revoked in whatever order,
\* the owner's row stays.
SearchedAsReadable == \A u \in Users : Searched(u) <=> Permits(u, READ)

\* A revocation takes away the row it has read and no later grant of the same
\* principal.
RevokesWhatItRead ==
  [][\A s \in scopes :
       (\A t \in scopes' : t.id # s.id) =>
         \E c \in Clients : tx[c].op = "revoke" /\ tx[c].row.id = s.id]_vars

\* Claimed at DocumentService.kt:371: whoever got the document from the list
\* has a permission when the permissions are read.
ListedHavePermission ==
  \A c \in Clients : tx[c].pc = "listed" => Permits(tx[c].user, READ)

\* Claimed at DocumentPermissionService.kt:97: every grant names a principal
\* that exists, so that it reaches somebody.
GrantsReachPrincipals == \A s \in scopes : s.name \in Principals

----------------------------------------------------------------------------
(* Refinement *)

Level ==
  [n \in Names |->
     IF \E s \in scopes : s.name = n
     THEN (CHOOSE s \in scopes : s.name = n).permission
     ELSE 0]

\* A grant of the permission that is already there takes effect when the row
\* is read.
StateOf(t) ==
  CASE t.pc = "found" -> "asked"
    [] t.pc = "allowed" -> "allowed"
    [] t.pc = "located" ->
         IF t.op = "grant" /\ t.permission = t.row.permission
         THEN "applied" ELSE "allowed"
    [] t.pc = "ok" -> "applied"

CallOf(t) ==
  IF t.op \in {"grant", "revoke", "delete"}
  THEN [op |-> t.op, user |-> t.user,
        name |-> IF t.op = "delete" THEN Owner ELSE t.name,
        permission |-> IF t.op = "delete" THEN READ ELSE t.permission,
        st |-> StateOf(t)]
  ELSE [st |-> "idle"]

Call == [c \in Clients |-> CallOf(tx[c])]

Abstract == INSTANCE AccessList WITH level <- Level, call <- Call

\* Each request is allowed by the permissions of one moment and takes effect at
\* one later moment; success is never reported without the effect.
ImplementsAccessList == Abstract!Spec

=============================================================================
