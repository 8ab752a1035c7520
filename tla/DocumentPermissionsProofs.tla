---------------------- MODULE DocumentPermissionsProofs ----------------------
(* Proofs about DocumentPermissions, for every value of its constants. *)
EXTENDS DocumentPermissionsInv, TLAPS

USE NamesAssumption, IdsAssumption DEF READ, WRITE, ADMIN, Permission

----------------------------------------------------------------------------
(* Types *)

LEMMA NoScopeIsNone == NoScope \notin Scope /\ NoScope.id = 0
  BY DEF NoScope, Scope

LEMMA IdleFacts ==
  /\ Idle \in Tx
  /\ Idle.op = "none"
  /\ Idle.pc = "idle"
  /\ Idle.row = NoScope
  BY DEF Idle, Tx, Names, Principals

LEMMA TxFacts ==
  ASSUME TypeOK, NEW c \in Clients
  PROVE  /\ tx[c] \in Tx
         /\ tx[c].name \in Names \cup {NoName}
         /\ tx[c].permission \in 0..3
         /\ tx[c].row \in Scope \cup {NoScope}
  BY DEF TypeOK, Tx

\* The state of a request that goes one step further.
LEMMA Moved ==
  ASSUME TypeOK, NEW c \in Clients,
         NEW pc \in {"idle", "found", "allowed", "located", "listed", "ok"}
  PROVE  /\ [tx[c] EXCEPT !.pc = pc] \in Tx
         /\ [tx[c] EXCEPT !.pc = pc].pc = pc
         /\ [tx[c] EXCEPT !.pc = pc].op = tx[c].op
         /\ [tx[c] EXCEPT !.pc = pc].name = tx[c].name
         /\ [tx[c] EXCEPT !.pc = pc].permission = tx[c].permission
         /\ [tx[c] EXCEPT !.pc = pc].row = tx[c].row
  BY TxFacts DEF Tx

----------------------------------------------------------------------------
(* The invariant *)

LEMMA InitIInv == Init => IInv
  <1> SUFFICES ASSUME Init PROVE IInv
    OBVIOUS
  <1>1. TypeOK
    <2>1. scopes \subseteq Scope /\ nextId \in 1..MaxIds + 1
      BY DEF Init, Scope, Names, Principals
    <2> QED
      BY <2>1, IdleFacts DEF Init, TypeOK
  <1>2. IdsInv
    BY DEF Init, IdsInv
  <1>3. OwnerInv
    BY DEF Init, OwnerInv
  <1>4. LoadedInv
    BY IdleFacts, NoScopeIsNone DEF Init, LoadedInv, Loaded
  <1> QED
    BY <1>1, <1>2, <1>3, <1>4 DEF IInv

\* A step that writes no row keeps the invariant if the request does.
LEMMA RequestStep ==
  ASSUME IInv, UNCHANGED <<scopes, nextId>>,
         deleted' \in BOOLEAN, lock' \in Clients \cup {NoClient},
         NEW c \in Clients, NEW t \in Tx, Loaded(t),
         tx' = [tx EXCEPT ![c] = t]
  PROVE  IInv'
  <1>1. TypeOK'
    BY DEF IInv, TypeOK
  <1>2. IdsInv' /\ OwnerInv'
    BY DEF IInv, IdsInv, OwnerInv
  <1>3. LoadedInv'
    <2> SUFFICES ASSUME NEW d \in Clients PROVE Loaded(tx[d])'
      BY DEF LoadedInv
    <2>1. tx'[d] = IF d = c THEN t ELSE tx[d]
      BY DEF IInv, TypeOK
    <2>2. Loaded(tx'[d])
      BY <2>1 DEF IInv, LoadedInv
    <2> QED
      BY <2>2 DEF Loaded
  <1> QED
    BY <1>1, <1>2, <1>3 DEF IInv

\* A request that goes on without loading anything keeps what it has.
LEMMA StillLoaded ==
  ASSUME IInv, NEW c \in Clients, NEW pc \in {"allowed", "listed", "ok"},
         tx[c].op = "revoke" /\ pc = "allowed" => tx[c].name # Owner
  PROVE  /\ [tx[c] EXCEPT !.pc = pc] \in Tx
         /\ Loaded([tx[c] EXCEPT !.pc = pc])
  <1> DEFINE t == [tx[c] EXCEPT !.pc = pc]
  <1>1. /\ t \in Tx /\ t.pc = pc /\ t.op = tx[c].op /\ t.name = tx[c].name
        /\ t.permission = tx[c].permission /\ t.row = tx[c].row
    <2>1. TypeOK /\ pc \in {"idle", "found", "allowed", "located", "listed", "ok"}
      BY DEF IInv
    <2> QED
      BY ONLY <2>1, Moved, c \in Clients
  <1>2. Loaded(tx[c])
    BY DEF IInv, LoadedInv
  <1>3. pc # "located"
    OBVIOUS
  <1> HIDE DEF t
  <1>4. Loaded(t)
    BY <1>1, <1>2, <1>3 DEF Loaded
  <1> QED
    BY <1>1, <1>4 DEF t

\* A request that begins, and one that has ended, has nothing loaded.
LEMMA NothingLoaded ==
  ASSUME IInv, NEW t \in Tx, t.row = NoScope,
         t.pc \in {"idle", "found", "listed"},
         t.op = "grant" => t.name \in Names /\ t.permission \in Permission
  PROVE  Loaded(t)
  BY NoScopeIsNone DEF Loaded, IInv, TypeOK, Scope

LEMMA UnlockType ==
  ASSUME TypeOK, NEW c \in Clients, Unlock(c)
  PROVE  lock' \in Clients \cup {NoClient}
  BY DEF TypeOK, Unlock

LEMMA FindIInv ==
  ASSUME IInv, NEW c \in Clients, NEW op, NEW u \in Users, NEW n \in Names,
         NEW p \in Permission, Find(c, op, u, n, p)
  PROVE  IInv'
  <1> DEFINE t == [pc |-> "found", op |-> op, user |-> u, name |-> n,
                   permission |-> p, row |-> NoScope]
  <1>1. t \in Tx /\ Loaded(t)
    BY NothingLoaded DEF Tx, Find
  <1> QED
    BY <1>1, RequestStep DEF Find, Begin, IInv, TypeOK

LEMMA FindLockedIInv ==
  ASSUME IInv, NEW c \in Clients, NEW u \in Users, FindLocked(c, u)
  PROVE  IInv'
  <1> DEFINE t == [pc |-> "found", op |-> "delete", user |-> u, name |-> NoName,
                   permission |-> 0, row |-> NoScope]
  <1>1. t \in Tx /\ Loaded(t)
    BY NothingLoaded DEF Tx
  <1> QED
    BY <1>1, RequestStep DEF FindLocked, Begin, IInv, TypeOK

LEMMA AuthorizeIInv ==
  ASSUME IInv, NEW c \in Clients, Authorize(c)
  PROVE  IInv'
  <1> DEFINE t == [tx[c] EXCEPT !.pc = "allowed"]
  <1>1. t \in Tx /\ Loaded(t)
    BY StillLoaded DEF Authorize
  <1> QED
    BY <1>1, RequestStep DEF Authorize, Step, IInv, TypeOK

LEMMA LocateIInv ==
  ASSUME IInv, NEW c \in Clients, Locate(c)
  PROVE  IInv'
  <1> DEFINE rows == {s \in scopes : s.name = tx[c].name}
  <1>1. PICK r \in IF rows = {} THEN {NoScope} ELSE rows :
          tx' = [tx EXCEPT ![c] = [@ EXCEPT !.pc = "located", !.row = r]]
    BY DEF Locate
  <1> DEFINE t == [tx[c] EXCEPT !.pc = "located", !.row = r]
  <1>2. /\ r \in Scope \cup {NoScope}
        /\ tx[c].op = "revoke" => r # NoScope
        /\ r # NoScope => r \in scopes /\ r.name = tx[c].name
    BY <1>1, NoScopeIsNone DEF Locate, IInv, TypeOK
  <1>3. /\ t \in Tx /\ t.row = r /\ t.op = tx[c].op /\ t.name = tx[c].name
        /\ t.permission = tx[c].permission
    BY <1>2, TxFacts DEF Tx, IInv
  <1>4. tx[c].op = "revoke" => tx[c].name # Owner
    BY DEF Locate, IInv, LoadedInv, Loaded
  <1>5. \A s \in scopes : s.id = r.id => s.name = r.name
    BY <1>2, NoScopeIsNone DEF IInv, IdsInv, TypeOK, Scope
  <1>6. Loaded(t)
    BY <1>2, <1>3, <1>4, <1>5 DEF Loaded, IInv, IdsInv, LoadedInv
  <1> QED
    BY <1>1, <1>3, <1>6, RequestStep DEF Locate, IInv, TypeOK

LEMMA DeleteIInv ==
  ASSUME IInv, NEW c \in Clients, Delete(c)
  PROVE  IInv'
  <1> DEFINE t == [tx[c] EXCEPT !.pc = "ok"]
  <1>1. t \in Tx /\ Loaded(t)
    BY StillLoaded
  <1> QED
    BY <1>1, RequestStep, UnlockType DEF Delete, Step, IInv

LEMMA ListIInv ==
  ASSUME IInv, NEW c \in Clients, NEW u \in Users, List(c, u)
  PROVE  IInv'
  <1> DEFINE t == [Idle EXCEPT !.pc = "listed", !.op = "list", !.user = u]
  <1>1. t \in Tx /\ t.row = NoScope /\ t.pc = "listed" /\ t.op = "list"
    BY DEF Idle, Tx, Names, Principals
  <1>2. Loaded(t)
    BY <1>1, NothingLoaded
  <1> QED
    BY <1>1, <1>2, RequestStep DEF List, IInv, TypeOK

\* A request that ends holds nothing.
LEMMA EndIInv ==
  ASSUME IInv, NEW c \in Clients, End(c), UNCHANGED <<scopes, nextId, deleted>>,
         lock' \in Clients \cup {NoClient}
  PROVE  IInv'
  <1>1. Loaded(Idle)
    BY NothingLoaded, IdleFacts
  <1> QED
    BY <1>1, RequestStep, IdleFacts DEF End, IInv, TypeOK

LEMMA RespondIInv ==
  ASSUME IInv, NEW c \in Clients, Respond(c)
  PROVE  IInv'
  <1>1. CASE Permits(tx[c].user, READ)
    <2> DEFINE t == [tx[c] EXCEPT !.pc = "ok"]
    <2>1. t \in Tx /\ Loaded(t)
      BY StillLoaded
    <2> QED
      BY <1>1, <2>1, RequestStep DEF Respond, Step, IInv, TypeOK
  <1>2. CASE ~Permits(tx[c].user, READ)
    BY <1>2, EndIInv DEF Respond, IInv, TypeOK
  <1> QED
    BY <1>1, <1>2

LEMMA FailIInv ==
  ASSUME IInv, NEW c \in Clients, Fail(c)
  PROVE  IInv'
  BY EndIInv, UnlockType DEF Fail, IInv

LEMMA LeaveIInv ==
  ASSUME IInv, NEW c \in Clients, Leave(c)
  PROVE  IInv'
  BY EndIInv DEF Leave, IInv, TypeOK

----------------------------------------------------------------------------
(* Steps that write rows *)

\* The request that wrote has succeeded; what every request has loaded keeps
\* its meaning when no id is given to another name.
LEMMA WriteStep ==
  ASSUME IInv, NEW c \in Clients, Step(c, "ok"), UNCHANGED <<deleted, lock>>,
         scopes' \subseteq Scope, nextId' \in 1..MaxIds + 1, nextId <= nextId',
         \A s \in scopes' :
           s.id >= nextId \/ \E r \in scopes : r.id = s.id /\ r.name = s.name,
         IdsInv', OwnerInv'
  PROVE  IInv'
  <1> DEFINE t == [tx[c] EXCEPT !.pc = "ok"]
  <1>1. t \in Tx /\ Loaded(t)
    BY StillLoaded
  <1>2. TypeOK'
    BY <1>1 DEF Step, IInv, TypeOK
  <1>3. LoadedInv'
    <2> SUFFICES ASSUME NEW d \in Clients PROVE Loaded(tx[d])'
      BY DEF LoadedInv
    <2>1. tx'[d] = IF d = c THEN t ELSE tx[d]
      BY DEF Step, IInv, TypeOK
    <2>2. Loaded(tx'[d]) /\ tx'[d].row \in Scope \cup {NoScope}
      BY <1>1, <2>1, Moved, TxFacts DEF IInv, LoadedInv
    <2>3. ASSUME NEW s \in scopes', s.id = tx'[d].row.id
          PROVE  s.name = tx'[d].row.name
      <3>1. s.id \in 1..MaxIds
        BY DEF Scope
      <3>2. tx'[d].row # NoScope /\ tx'[d].row.id < nextId
        BY <2>2, <2>3, <3>1, NoScopeIsNone DEF Loaded
      <3>3. PICK r \in scopes : r.id = s.id /\ r.name = s.name
        BY <2>3, <3>1, <3>2 DEF IInv, TypeOK
      <3> QED
        BY <2>2, <2>3, <3>3 DEF Loaded
    <2>4. tx'[d].row # NoScope => tx'[d].row.id < nextId'
      <3>1. tx'[d].row # NoScope => tx'[d].row.id \in 1..MaxIds
        BY <2>2 DEF Scope
      <3> QED
        BY <2>2, <3>1 DEF Loaded, IInv, TypeOK
    <2> QED
      BY <2>2, <2>3, <2>4 DEF Loaded
  <1> QED
    BY <1>2, <1>3 DEF IInv

LEMMA InsertIInv ==
  ASSUME IInv, NEW c \in Clients, Insert(c)
  PROVE  IInv'
  <1> DEFINE new == [id |-> nextId, name |-> tx[c].name,
                     permission |-> tx[c].permission]
  <1>1. nextId \in 1..MaxIds /\ nextId' = nextId + 1
    BY DEF Insert, IInv, TypeOK
  <1>2. new \in Scope
    BY <1>1 DEF Scope, Insert, IInv, LoadedInv, Loaded
  <1>3. IdsInv'
    BY <1>1 DEF Insert, IInv, IdsInv, TypeOK, Scope
  <1>4. OwnerInv'
    BY DEF Insert, IInv, OwnerInv
  <1> QED
    BY <1>1, <1>2, <1>3, <1>4, WriteStep DEF Insert, IInv, TypeOK

LEMMA UpdateIInv ==
  ASSUME IInv, NEW c \in Clients, Update(c)
  PROVE  IInv'
  <1>1. CASE UNCHANGED scopes
    <2>1. IdsInv' /\ OwnerInv'
      BY <1>1 DEF Update, IInv, IdsInv, OwnerInv
    <2> QED
      BY <1>1, <2>1, WriteStep DEF Update, IInv, TypeOK
  <1>2. CASE \E s \in scopes :
               /\ s.id = tx[c].row.id
               /\ scopes' = (scopes \ {s})
                    \cup {[s EXCEPT !.permission = tx[c].permission]}
    <2>1. PICK s \in scopes :
            scopes' = (scopes \ {s})
               \cup {[s EXCEPT !.permission = tx[c].permission]}
      BY <1>2
    <2> DEFINE new == [s EXCEPT !.permission = tx[c].permission]
    <2>2. new \in Scope /\ new.id = s.id /\ new.name = s.name
      BY DEF Update, Scope, IInv, TypeOK, LoadedInv, Loaded
    <2> HIDE DEF new
    <2>3. scopes' = (scopes \ {s}) \cup {new}
      BY <2>1 DEF new
    <2>4. IdsInv' /\ OwnerInv'
      BY <2>2, <2>3 DEF Update, IInv, IdsInv, OwnerInv
    <2>5. \A q \in scopes' : \E r \in scopes : r.id = q.id /\ r.name = q.name
      BY <2>2, <2>3
    <2> QED
      BY <2>2, <2>3, <2>4, <2>5, WriteStep DEF Update, IInv, TypeOK
  <1> QED
    BY <1>1, <1>2 DEF Update

\* The row that is revoked is not the owner's, whose name was refused.
LEMMA RemoveIInv ==
  ASSUME IInv, NEW c \in Clients, Remove(c)
  PROVE  IInv'
  <1>1. PICK s \in scopes : s.id = tx[c].row.id /\ scopes' = scopes \ {s}
    BY DEF Remove
  <1>2. s.name # Owner
    BY <1>1 DEF Remove, IInv, LoadedInv, Loaded
  <1>3. IdsInv' /\ OwnerInv'
    BY <1>1, <1>2 DEF Remove, IInv, IdsInv, OwnerInv
  <1> QED
    BY <1>1, <1>3, WriteStep DEF Remove, IInv, TypeOK

LEMMA StepIInv == IInv /\ [Next]_vars => IInv'
  <1> SUFFICES ASSUME IInv, [Next]_vars PROVE IInv'
    OBVIOUS
  <1>1. CASE UNCHANGED vars
    BY <1>1 DEF vars, IInv, TypeOK, IdsInv, OwnerInv, LoadedInv, Loaded
  <1>2. ASSUME NEW c \in Clients, Administer(c) PROVE IInv'
    BY <1>2, FindIInv, LocateIInv, InsertIInv, UpdateIInv, RemoveIInv
    DEF Administer
  <1>3. ASSUME NEW c \in Clients, Use(c) PROVE IInv'
    BY <1>3, FindLockedIInv, ListIInv, DeleteIInv, RespondIInv DEF Use
  <1> QED
    BY <1>1, <1>2, <1>3, AuthorizeIInv, FailIInv, LeaveIInv DEF Next

----------------------------------------------------------------------------
(* Theorems *)

\* The invariant holds in every reachable state, for any users and requests.
THEOREM Invariant == Spec => []IInv
  BY InitIInv, StepIInv, PTL DEF Spec

\* Whoever may read the document finds it by searching, the owner included,
\* whom the search treats like everybody: his row cannot be revoked.
THEOREM OwnersFindTheirs == Spec => []SearchedAsReadable
  <1>1. IInv => SearchedAsReadable
    BY DEF IInv, TypeOK, OwnerInv, SearchedAsReadable, Searched, Permits,
           GrantedTo, Scope
  <1> QED
    BY <1>1, Invariant, PTL

\* A row goes away only by a revocation that has loaded that very row, not by
\* one that has loaded an earlier row of the same principal.
THEOREM RevocationsAreExact == Spec => RevokesWhatItRead
  <1> DEFINE Exact ==
        \A s \in scopes :
          (\A t \in scopes' : t.id # s.id) =>
            \E c \in Clients : tx[c].op = "revoke" /\ tx[c].row.id = s.id
  <1>1. IInv /\ [Next]_vars => [Exact]_vars
    <2> SUFFICES ASSUME IInv, Next, NEW s \in scopes,
                        \A t \in scopes' : t.id # s.id
                 PROVE  \E c \in Clients :
                          tx[c].op = "revoke" /\ tx[c].row.id = s.id
      OBVIOUS
    <2>1. scopes' # scopes
      OBVIOUS
    <2>2. PICK c \in Clients :
            Administer(c) \/ Use(c) \/ Authorize(c) \/ Fail(c) \/ Leave(c)
      BY DEF Next
    <2>3. Insert(c) \/ Update(c) \/ Remove(c)
      BY <2>1, <2>2
      DEF Administer, Use, Find, FindLocked, Authorize, Locate, Delete, List,
          Respond, Fail, Leave
    <2>4. CASE Insert(c)
      BY <2>4 DEF Insert
    <2>5. CASE Update(c)
      <3>1. PICK r \in scopes :
              scopes' = (scopes \ {r})
                 \cup {[r EXCEPT !.permission = tx[c].permission]}
        BY <2>1, <2>5 DEF Update
      <3>2. [r EXCEPT !.permission = tx[c].permission].id = r.id
        BY DEF IInv, TypeOK, Scope
      <3> QED
        BY <3>1, <3>2
    <2>6. CASE Remove(c)
      BY <2>6 DEF Remove
    <2> QED
      BY <2>3, <2>4, <2>5, <2>6
  <1> QED
    BY <1>1, Invariant, PTL DEF Spec, RevokesWhatItRead

----------------------------------------------------------------------------
(* The refinement of AccessList: what it needs to know of the requests *)

LEMMA InitRefInv == Init => RefInv
  <1> SUFFICES ASSUME Init PROVE RefInv
    OBVIOUS
  <1>1. ProgressInv /\ LockInv
    BY IdleFacts DEF Init, ProgressInv, Progress, LockInv
  <1> QED
    BY <1>1, InitIInv DEF RefInv

\* A step of one request, which takes the lock only when it is free, keeps
\* what is known of the requests if it holds of that one.
LEMMA RequestsProgress ==
  ASSUME RefInv, NEW c \in Clients, NEW t, Progress(t),
         tx' = [tx EXCEPT ![c] = t],
         t.op = "delete" /\ t.pc \in {"found", "allowed"} =>
           lock' = c /\ ~deleted',
         \A d \in Clients \ {c} : lock = d => lock' = d /\ deleted' = deleted
  PROVE  (ProgressInv /\ LockInv)'
  <1> SUFFICES ASSUME NEW d \in Clients
               PROVE  /\ Progress(tx'[d])
                      /\ tx'[d].op = "delete" /\ tx'[d].pc \in {"found", "allowed"}
                           => lock' = d /\ ~deleted'
    BY DEF ProgressInv, LockInv, Progress
  <1>1. tx'[d] = IF d = c THEN t ELSE tx[d]
    BY DEF RefInv, IInv, TypeOK
  <1> QED
    BY <1>1 DEF RefInv, ProgressInv, LockInv

LEMMA IdleProgress == Progress(Idle) /\ Idle.op # "delete"
  BY IdleFacts DEF Progress

\* The state of a request that goes on.
LEMMA MovedProgress ==
  ASSUME RefInv, NEW c \in Clients, NEW pc \in {"allowed", "ok"},
         pc = "allowed" => tx[c].op \in {"grant", "revoke", "delete"},
         tx[c].op # "none"
  PROVE  /\ Progress([tx[c] EXCEPT !.pc = pc])
         /\ [tx[c] EXCEPT !.pc = pc].op = tx[c].op
         /\ [tx[c] EXCEPT !.pc = pc].pc = pc
  BY Moved DEF RefInv, IInv, ProgressInv, Progress

LEMMA BeginProgress ==
  ASSUME RefInv, NEW c \in Clients, NEW op \in {"grant", "revoke"},
         NEW u \in Users, NEW n \in Names, NEW p \in Permission, Find(c, op, u, n, p)
  PROVE  (ProgressInv /\ LockInv)'
  <1> DEFINE t == [pc |-> "found", op |-> op, user |-> u, name |-> n,
                   permission |-> p, row |-> NoScope]
  <1>1. Progress(t)
    BY DEF Progress
  <1> QED
    BY <1>1, RequestsProgress DEF Find, Begin

LEMMA FindLockedProgress ==
  ASSUME RefInv, NEW c \in Clients, NEW u \in Users, FindLocked(c, u)
  PROVE  (ProgressInv /\ LockInv)'
  <1> DEFINE t == [pc |-> "found", op |-> "delete", user |-> u, name |-> NoName,
                   permission |-> 0, row |-> NoScope]
  <1>1. Progress(t)
    BY DEF Progress
  <1> QED
    BY <1>1, RequestsProgress DEF FindLocked, Begin

LEMMA AuthorizeProgress ==
  ASSUME RefInv, NEW c \in Clients, Authorize(c)
  PROVE  (ProgressInv /\ LockInv)'
  <1>1. tx[c].pc = "found" /\ tx[c].op \in {"grant", "revoke", "delete"}
    BY TxFacts DEF Authorize, RefInv, IInv, ProgressInv, Progress, Tx
  <1> QED
    BY <1>1, MovedProgress, RequestsProgress
    DEF Authorize, Step, RefInv, LockInv

LEMMA LocateProgress ==
  ASSUME RefInv, NEW c \in Clients, Locate(c)
  PROVE  (ProgressInv /\ LockInv)'
  <1>1. PICK r : tx' = [tx EXCEPT ![c] = [@ EXCEPT !.pc = "located", !.row = r]]
    BY DEF Locate
  <1> DEFINE t == [tx[c] EXCEPT !.pc = "located", !.row = r]
  <1>2. tx[c].op \in {"grant", "revoke"}
    BY TxFacts DEF Locate, RefInv, IInv, ProgressInv, Progress, Tx
  <1>3. /\ t.pc = "located" /\ t.op = tx[c].op /\ t.name = tx[c].name
        /\ t.permission = tx[c].permission
    BY TxFacts DEF RefInv, IInv, Tx
  <1>4. Progress(t) /\ t.op # "delete"
    BY <1>2, <1>3 DEF RefInv, ProgressInv, Progress
  <1> QED
    BY <1>1, <1>4, RequestsProgress DEF Locate

\* A request that has written, deleted or read what it wanted.
LEMMA OkProgress ==
  ASSUME RefInv, NEW c \in Clients, Step(c, "ok"), tx[c].op # "none",
         \A d \in Clients \ {c} : lock = d => lock' = d /\ deleted' = deleted
  PROVE  (ProgressInv /\ LockInv)'
  BY MovedProgress, RequestsProgress DEF Step

\* A request that has ended.
LEMMA EndProgress ==
  ASSUME RefInv, NEW c \in Clients, End(c),
         \A d \in Clients \ {c} : lock = d => lock' = d /\ deleted' = deleted
  PROVE  (ProgressInv /\ LockInv)'
  BY IdleProgress, RequestsProgress DEF End

LEMMA DeleteProgress ==
  ASSUME RefInv, NEW c \in Clients, Delete(c)
  PROVE  (ProgressInv /\ LockInv)'
  <1>1. lock = c
    BY DEF Delete, RefInv, LockInv
  <1> QED
    BY <1>1, OkProgress DEF Delete

LEMMA ListProgress ==
  ASSUME RefInv, NEW c \in Clients, NEW u \in Users, List(c, u)
  PROVE  (ProgressInv /\ LockInv)'
  <1> DEFINE t == [Idle EXCEPT !.pc = "listed", !.op = "list", !.user = u]
  <1>1. t.pc = "listed" /\ t.op = "list"
    BY DEF Idle
  <1>2. Progress(t) /\ t.op # "delete"
    BY <1>1 DEF Progress
  <1> QED
    BY <1>2, RequestsProgress DEF List

LEMMA RespondProgress ==
  ASSUME RefInv, NEW c \in Clients, Respond(c)
  PROVE  (ProgressInv /\ LockInv)'
  <1>1. tx[c].op # "none"
    BY DEF Respond, RefInv, ProgressInv, Progress
  <1> QED
    BY <1>1, OkProgress, EndProgress DEF Respond

LEMMA FailProgress ==
  ASSUME RefInv, NEW c \in Clients, Fail(c)
  PROVE  (ProgressInv /\ LockInv)'
  BY EndProgress DEF Fail, Unlock

LEMMA StepRefInv == RefInv /\ [Next]_vars => RefInv'
  <1> SUFFICES ASSUME RefInv, [Next]_vars PROVE (ProgressInv /\ LockInv)'
    BY StepIInv DEF RefInv
  <1>1. CASE UNCHANGED vars
    BY <1>1 DEF vars, RefInv, ProgressInv, Progress, LockInv
  <1>2. ASSUME NEW c \in Clients, Administer(c) PROVE (ProgressInv /\ LockInv)'
    <2>1. ASSUME NEW u \in Users, NEW n \in Names,
                 \/ Find(c, "revoke", u, n, READ)
                 \/ \E p \in Permission : Find(c, "grant", u, n, p)
          PROVE  (ProgressInv /\ LockInv)'
      BY <2>1, BeginProgress
    <2>2. ASSUME Insert(c) \/ Update(c) \/ Remove(c)
          PROVE  (ProgressInv /\ LockInv)'
      BY <2>2, OkProgress DEF Insert, Update, Remove
    <2> QED
      BY <1>2, <2>1, <2>2, LocateProgress DEF Administer
  <1>3. ASSUME NEW c \in Clients, Use(c) PROVE (ProgressInv /\ LockInv)'
    BY <1>3, FindLockedProgress, ListProgress, DeleteProgress, RespondProgress
    DEF Use
  <1>4. ASSUME NEW c \in Clients, Leave(c) PROVE (ProgressInv /\ LockInv)'
    BY <1>4, EndProgress DEF Leave
  <1> QED
    BY <1>1, <1>2, <1>3, <1>4, AuthorizeProgress, FailProgress DEF Next

----------------------------------------------------------------------------
(* The refinement of AccessList: the levels *)

LevelsIn(S) ==
  [n \in Names |->
     IF \E s \in S : s.name = n THEN (CHOOSE s \in S : s.name = n).permission
     ELSE 0]

OnePerName(S) == \A s, t \in S : s.name = t.name => s = t

LEMMA LevelIsOfRows == Level = LevelsIn(scopes) /\ Level' = LevelsIn(scopes')
  BY DEF Level, LevelsIn

LEMMA LevelOfRow ==
  ASSUME NEW S \in SUBSET Scope, OnePerName(S), NEW s \in S
  PROVE  LevelsIn(S)[s.name] = s.permission
  <1>1. s.name \in Names
    BY DEF Scope
  <1>2. (CHOOSE t \in S : t.name = s.name) = s
    BY DEF OnePerName
  <1> QED
    BY <1>1, <1>2 DEF LevelsIn

LEMMA LevelOfNoRow ==
  ASSUME NEW S, NEW n \in Names, \A s \in S : s.name # n
  PROVE  LevelsIn(S)[n] = 0
  BY DEF LevelsIn

\* A write to the row of one name changes the level of no other.
LEMMA OneLevelChanges ==
  ASSUME NEW S \in SUBSET Scope, NEW T \in SUBSET Scope,
         OnePerName(S), OnePerName(T), NEW n \in Names,
         \A s \in Scope : s.name # n => (s \in S <=> s \in T)
  PROVE  LevelsIn(T) = [LevelsIn(S) EXCEPT ![n] = LevelsIn(T)[n]]
  <1>1. ASSUME NEW m \in Names, m # n
        PROVE  LevelsIn(T)[m] = LevelsIn(S)[m]
    <2>1. CASE \E s \in S : s.name = m
      <3>1. PICK s \in S : s.name = m
        BY <2>1
      <3>2. s \in T
        BY <1>1, <3>1
      <3> QED
        BY <3>1, <3>2, LevelOfRow
    <2>2. CASE \A s \in S : s.name # m
      <3>1. \A s \in T : s.name # m
        BY <1>1, <2>2
      <3> QED
        BY <2>2, <3>1, LevelOfNoRow
    <2> QED
      BY <2>1, <2>2
  <1>2. \A U : LevelsIn(U) = [m \in Names |-> LevelsIn(U)[m]]
    BY DEF LevelsIn
  <1> QED
    BY <1>1, <1>2

LEMMA RowsFacts == IInv => scopes \in SUBSET Scope /\ OnePerName(scopes)
  BY DEF IInv, TypeOK, IdsInv, OnePerName

LEMMA RowsFactsNext == IInv' => scopes' \in SUBSET Scope /\ OnePerName(scopes')
  BY DEF IInv, TypeOK, IdsInv, OnePerName

----------------------------------------------------------------------------
(* The refinement of AccessList: the calls *)

LEMMA OnlyOneCallChanges ==
  ASSUME TypeOK, NEW c \in Clients, NEW t, tx' = [tx EXCEPT ![c] = t]
  PROVE  Call' = [Call EXCEPT ![c] = CallOf(t)]
  <1>1. /\ \A d \in Clients \ {c} : tx'[d] = tx[d]
        /\ tx'[c] = t
    BY DEF TypeOK
  <1>2. \A d \in Clients :
          Call'[d] = CallOf(tx'[d]) /\ Call[d] = CallOf(tx[d])
    BY DEF Call
  <1>3. Call = [d \in Clients |-> Call[d]] /\ Call' = [d \in Clients |-> Call'[d]]
    BY DEF Call
  <1>4. \A d \in Clients : Call'[d] = [Call EXCEPT ![c] = CallOf(t)][d]
    <2> TAKE d \in Clients
    <2>1. CASE d = c
      BY <1>1, <1>2, <1>3, <2>1
    <2>2. CASE d # c
      BY <1>1, <1>2, <1>3, <2>2
    <2> QED
      BY <2>1, <2>2
  <1> QED
    BY <1>3, <1>4

\* A request goes on with what it asks for.
LEMMA CallMoves ==
  ASSUME NEW t, NEW u, t.op \in {"grant", "revoke", "delete"},
         u.op = t.op, u.user = t.user, u.name = t.name,
         u.permission = t.permission
  PROVE  CallOf(u) = [CallOf(t) EXCEPT !.st = StateOf(u)]
  BY DEF CallOf

LEMMA CallFacts ==
  ASSUME NEW t \in Tx, Progress(t)
  PROVE  /\ t.op \in {"grant", "revoke", "delete"} =>
              /\ CallOf(t) \in Abstract!Calls
              /\ CallOf(t) # Abstract!NoCall
              /\ CallOf(t).op = t.op
              /\ CallOf(t).user = t.user
              /\ CallOf(t).st = StateOf(t)
              /\ t.op # "delete" =>
                   /\ CallOf(t).name = t.name
                   /\ CallOf(t).permission = t.permission
         /\ t.op \in {"none", "list"} => CallOf(t) = Abstract!NoCall
  <1>1. ASSUME t.op \in {"grant", "revoke", "delete"}
        PROVE  StateOf(t) \in {"asked", "allowed", "applied"}
    BY <1>1 DEF StateOf, Progress
  <1>2. Owner \in Names
    BY DEF Names, Principals
  <1>3. t.user \in Users
    BY DEF Tx
  <1> QED
    BY <1>1, <1>2, <1>3 DEF CallOf, Progress, Abstract!Calls, Abstract!NoCall

\* A step that the list does not see.
LEMMA SameCall ==
  ASSUME TypeOK, NEW c \in Clients, NEW t, tx' = [tx EXCEPT ![c] = t],
         CallOf(t) = CallOf(tx[c]), UNCHANGED <<scopes, deleted>>
  PROVE  UNCHANGED Abstract!vars
  <1>1. Call' = [Call EXCEPT ![c] = Call[c]]
    BY OnlyOneCallChanges DEF Call
  <1>2. Call' = Call
    BY <1>1 DEF Call
  <1> QED
    BY <1>2, LevelIsOfRows DEF Abstract!vars

\* A request of the document's permissions ends: it has been answered.
LEMMA EndMaps ==
  ASSUME RefInv, NEW c \in Clients, End(c), UNCHANGED <<scopes, deleted>>
  PROVE  Abstract!Answer(c) \/ UNCHANGED Abstract!vars
  <1>1. tx[c] \in Tx /\ Progress(tx[c]) /\ TypeOK
    BY TxFacts DEF RefInv, IInv, ProgressInv
  <1>2. CallOf(Idle) = Abstract!NoCall
    BY IdleFacts, IdleProgress, CallFacts
  <1>3. Call' = [Call EXCEPT ![c] = Abstract!NoCall]
    BY <1>1, <1>2, OnlyOneCallChanges DEF End
  <1>4. CASE CallOf(tx[c]) # Abstract!NoCall
    <2>1. Call[c] # Abstract!NoCall
      BY <1>4 DEF Call
    <2> QED
      BY <1>3, <2>1, LevelIsOfRows DEF Abstract!Answer
  <1>5. CASE CallOf(tx[c]) = Abstract!NoCall
    BY <1>1, <1>2, <1>5, SameCall DEF End
  <1> QED
    BY <1>4, <1>5

LEMMA BeginMaps ==
  ASSUME RefInv, NEW c \in Clients, tx[c].pc = "idle", ~deleted,
         NEW t \in Tx, Progress(t), t.op \in {"grant", "revoke", "delete"},
         t.pc = "found", tx' = [tx EXCEPT ![c] = t], UNCHANGED <<scopes, deleted>>
  PROVE  Abstract!Ask(c)
  <1>1. tx[c] \in Tx /\ Progress(tx[c]) /\ TypeOK
    BY TxFacts DEF RefInv, IInv, ProgressInv
  <1>2. tx[c].op \in {"none", "list"}
    BY <1>1 DEF Tx, Progress
  <1>3. Call[c] = Abstract!NoCall
    BY <1>1, <1>2, CallFacts DEF Call
  <1>4. Call' = [Call EXCEPT ![c] = CallOf(t)] /\ c \in DOMAIN Call
    BY <1>1, OnlyOneCallChanges DEF Call
  <1>5. CallOf(t) \in Abstract!Calls /\ CallOf(t).st = "asked"
    BY CallFacts DEF StateOf
  <1> QED
    BY <1>3, <1>4, <1>5, LevelIsOfRows DEF Abstract!Ask

LEMMA FindMaps ==
  ASSUME RefInv, NEW c \in Clients, NEW op \in {"grant", "revoke"},
         NEW u \in Users, NEW n \in Names, NEW p \in Permission, Find(c, op, u, n, p)
  PROVE  Abstract!Ask(c)
  <1> DEFINE t == [pc |-> "found", op |-> op, user |-> u, name |-> n,
                   permission |-> p, row |-> NoScope]
  <1>1. t \in Tx /\ Progress(t) /\ t.op = op /\ t.pc = "found"
    BY DEF Tx, Progress
  <1> QED
    BY <1>1, BeginMaps DEF Find, Begin

LEMMA FindLockedMaps ==
  ASSUME RefInv, NEW c \in Clients, NEW u \in Users, FindLocked(c, u)
  PROVE  Abstract!Ask(c)
  <1> DEFINE t == [pc |-> "found", op |-> "delete", user |-> u, name |-> NoName,
                   permission |-> 0, row |-> NoScope]
  <1>1. t \in Tx /\ Progress(t) /\ t.op = "delete" /\ t.pc = "found"
    BY DEF Tx, Progress
  <1> QED
    BY <1>1, BeginMaps DEF FindLocked, Begin

\* The rows that permit a request are levels that entitle it.
LEMMA PermitsMaps ==
  ASSUME IInv, NEW u \in Users, NEW k \in 1..3, Permits(u, k)
  PROVE  Abstract!Entitled(u, k)
  <1>1. CASE u # Owner
    <2>1. PICK s \in scopes : s.name \in {u, Tenant} /\ s.permission >= k
      BY <1>1 DEF Permits, GrantedTo
    <2>2. Level[s.name] = s.permission
      BY RowsFacts, LevelOfRow, LevelIsOfRows
    <2> QED
      BY <2>1, <2>2 DEF Abstract!Entitled
  <1> QED
    BY <1>1 DEF Abstract!Entitled

\* What a step of a request does to its call.
LEMMA CallStep ==
  ASSUME RefInv, NEW c \in Clients, tx[c].op \in {"grant", "revoke", "delete"},
         NEW pc \in {"allowed", "ok"}, Step(c, pc)
  PROVE  Abstract!To(c, IF pc = "ok" THEN "applied" ELSE "allowed")
  <1> DEFINE t == [tx[c] EXCEPT !.pc = pc]
  <1>1. TypeOK /\ tx[c] \in Tx
    BY TxFacts DEF RefInv, IInv
  <1>2. /\ t.pc = pc /\ t.op = tx[c].op /\ t.user = tx[c].user
        /\ t.name = tx[c].name /\ t.permission = tx[c].permission
    BY <1>1 DEF Tx
  <1>3. StateOf(t) = IF pc = "ok" THEN "applied" ELSE "allowed"
    BY <1>2 DEF StateOf
  <1>4. tx' = [tx EXCEPT ![c] = t]
    BY DEF Step
  <1> HIDE DEF t
  <1>5. CallOf(t) = [CallOf(tx[c]) EXCEPT !.st = StateOf(t)]
    BY <1>2, CallMoves
  <1>6. Call' = [Call EXCEPT ![c] = CallOf(t)]
    BY <1>1, <1>4, OnlyOneCallChanges
  <1>7. Call[c] = CallOf(tx[c])
    BY DEF Call
  <1> QED
    BY <1>3, <1>5, <1>6, <1>7 DEF Abstract!To

LEMMA AuthorizeMaps ==
  ASSUME RefInv, NEW c \in Clients, Authorize(c)
  PROVE  Abstract!Allow(c)
  <1>1. tx[c] \in Tx /\ Progress(tx[c]) /\ IInv /\ tx[c].pc = "found"
    BY TxFacts DEF RefInv, IInv, ProgressInv, Authorize
  <1>2. tx[c].op \in {"grant", "revoke", "delete"}
    BY <1>1 DEF Tx, Progress
  <1>3. Call[c] = CallOf(tx[c])
    BY DEF Call
  <1>4. /\ Call[c].op = tx[c].op
        /\ Call[c].user = tx[c].user
        /\ Call[c].st = "asked"
    BY <1>1, <1>2, <1>3, CallFacts DEF StateOf
  <1>5. Abstract!Entitled(tx[c].user, Abstract!Need(tx[c].op))
    <2>1. tx[c].user \in Users
      BY <1>1 DEF Tx
    <2>2. Permits(tx[c].user, Abstract!Need(tx[c].op))
      BY <1>2 DEF Authorize, Abstract!Need
    <2>3. Abstract!Need(tx[c].op) \in 1..3
      BY DEF Abstract!Need
    <2> QED
      BY <1>1, <2>1, <2>2, <2>3, PermitsMaps
  <1>6. Abstract!To(c, "allowed")
    BY <1>2, CallStep DEF Authorize
  <1> QED
    BY <1>4, <1>5, <1>6, LevelIsOfRows DEF Abstract!Allow, Authorize

\* What a request that may write has asked for, as the list sees it.
LEMMA AllowedCall ==
  ASSUME RefInv, NEW c \in Clients,
         tx[c].pc \in {"allowed", "located"}, tx[c].op \in {"grant", "revoke"}
  PROVE  /\ Call[c].op = tx[c].op
         /\ Call[c].name = tx[c].name
         /\ Call[c].permission = tx[c].permission
         /\ tx[c].name \in Names /\ tx[c].permission \in 1..3
         /\ Call[c].st = IF tx[c].pc = "located" /\ tx[c].op = "grant"
                            /\ tx[c].permission = tx[c].row.permission
                         THEN "applied" ELSE "allowed"
  <1>1. tx[c] \in Tx /\ Progress(tx[c])
    BY TxFacts DEF RefInv, IInv, ProgressInv
  <1>2. Call[c] = CallOf(tx[c])
    BY DEF Call
  <1>3. tx[c].name \in Names /\ tx[c].permission \in 1..3
    BY <1>1 DEF Progress
  <1> QED
    BY <1>1, <1>2, <1>3, CallFacts DEF StateOf

\* Reading the row of a name that already has the permission it is to get is
\* the moment of that grant.
LEMMA LocateMaps ==
  ASSUME RefInv, NEW c \in Clients, Locate(c)
  PROVE  Abstract!Grant(c) \/ UNCHANGED Abstract!vars
  <1> DEFINE rows == {s \in scopes : s.name = tx[c].name}
  <1>1. PICK r \in IF rows = {} THEN {NoScope} ELSE rows :
          tx' = [tx EXCEPT ![c] = [@ EXCEPT !.pc = "located", !.row = r]]
    BY DEF Locate
  <1> DEFINE t == [tx[c] EXCEPT !.pc = "located", !.row = r]
  <1>2. TypeOK /\ tx[c] \in Tx /\ Progress(tx[c])
    BY TxFacts DEF RefInv, IInv, ProgressInv
  <1>3. /\ t.pc = "located" /\ t.op = tx[c].op /\ t.user = tx[c].user
        /\ t.name = tx[c].name /\ t.permission = tx[c].permission /\ t.row = r
    BY <1>2 DEF Tx
  <1>4. tx[c].op \in {"grant", "revoke"} /\ tx[c].pc = "allowed"
    BY <1>2 DEF Locate, Tx, Progress
  <1>5. tx' = [tx EXCEPT ![c] = t]
    BY <1>1
  <1> HIDE DEF t
  <1>6. CallOf(t) = [CallOf(tx[c]) EXCEPT !.st = StateOf(t)]
    BY <1>3, <1>4, CallMoves
  <1>7. Call' = [Call EXCEPT ![c] = CallOf(t)] /\ Call[c] = CallOf(tx[c])
    BY <1>2, <1>5, OnlyOneCallChanges DEF Call
  <1>8. UNCHANGED <<scopes, deleted>>
    BY DEF Locate
  <1>9. CASE t.op = "grant" /\ t.permission = r.permission
    <2>1. r \in scopes /\ r.name = tx[c].name
      <3>1. tx[c].permission \in 1..3
        BY <1>4, AllowedCall
      <3>2. r # NoScope
        BY <1>3, <1>9, <3>1 DEF NoScope
      <3> QED
        BY <3>2
    <2>2. Level[tx[c].name] = tx[c].permission
      BY <1>3, <1>9, <2>1, RowsFacts, LevelOfRow, LevelIsOfRows DEF RefInv
    <2>3. Level' = [Level EXCEPT ![tx[c].name] = tx[c].permission]
      BY <1>8, <2>2 DEF Level
    <2>4. StateOf(t) = "applied"
      BY <1>3, <1>9 DEF StateOf
    <2>5. Abstract!To(c, "applied")
      BY <1>6, <1>7, <2>4 DEF Abstract!To
    <2> QED
      BY <1>3, <1>4, <1>8, <1>9, <2>3, <2>5, AllowedCall DEF Abstract!Grant
  <1>10. CASE ~(t.op = "grant" /\ t.permission = r.permission)
    <2>1. StateOf(t) = "allowed" /\ StateOf(tx[c]) = "allowed"
      BY <1>3, <1>4, <1>10 DEF StateOf
    <2>2. CallOf(t) = CallOf(tx[c])
      BY <1>3, <1>4, <2>1 DEF CallOf
    <2> QED
      BY <1>2, <1>5, <1>8, <2>2, SameCall
  <1> QED
    BY <1>9, <1>10

\* A written row is the level of its name, and of no other.
LEMMA WrittenLevel ==
  ASSUME RefInv, IInv', NEW n \in Names, NEW s \in scopes', s.name = n,
         \A r \in Scope : r.name # n => (r \in scopes <=> r \in scopes')
  PROVE  Level' = [Level EXCEPT ![n] = s.permission]
  <1>1. /\ scopes \in SUBSET Scope /\ OnePerName(scopes)
        /\ scopes' \in SUBSET Scope /\ OnePerName(scopes')
    BY RowsFacts, RowsFactsNext DEF RefInv
  <1>2. LevelsIn(scopes')[n] = s.permission
    BY <1>1, LevelOfRow
  <1>3. LevelsIn(scopes') = [LevelsIn(scopes) EXCEPT ![n] = LevelsIn(scopes')[n]]
    BY ONLY <1>1, OneLevelChanges, n \in Names,
            \A r \in Scope : r.name # n => (r \in scopes <=> r \in scopes')
  <1> QED
    BY <1>2, <1>3, LevelIsOfRows

LEMMA InsertMaps ==
  ASSUME RefInv, NEW c \in Clients, Insert(c)
  PROVE  Abstract!Grant(c)
  <1> DEFINE new == [id |-> nextId, name |-> tx[c].name,
                     permission |-> tx[c].permission]
  <1>1. IInv' /\ IInv
    BY InsertIInv DEF RefInv
  <1>2. /\ tx[c].pc = "located" /\ tx[c].op = "grant"
        /\ tx[c].row = NoScope /\ scopes' = scopes \cup {new}
    BY DEF Insert
  <1>3. Call[c].st = "allowed"
    BY <1>2, AllowedCall DEF NoScope
  <1>4. new.name = tx[c].name /\ new.permission = tx[c].permission
    OBVIOUS
  <1> HIDE DEF new
  <1>5. Level' = [Level EXCEPT ![tx[c].name] = tx[c].permission]
    BY <1>1, <1>2, <1>4, WrittenLevel, AllowedCall
  <1>6. Abstract!To(c, "applied")
    BY <1>2, CallStep DEF Insert
  <1> QED
    BY <1>2, <1>3, <1>5, <1>6, AllowedCall DEF Abstract!Grant, Insert

LEMMA UpdateMaps ==
  ASSUME RefInv, NEW c \in Clients, Update(c)
  PROVE  Abstract!Grant(c) \/ UNCHANGED Abstract!vars
  <1>1. IInv' /\ IInv
    BY UpdateIInv DEF RefInv
  <1>2. /\ tx[c].pc = "located" /\ tx[c].op = "grant" /\ tx[c].row # NoScope
        /\ Step(c, "ok") /\ UNCHANGED deleted
    BY DEF Update
  <1>3. Abstract!To(c, "applied")
    BY <1>2, CallStep
  <1>4. CASE tx[c].permission = tx[c].row.permission
    <2>1. Call[c].st = "applied"
      BY <1>2, <1>4, AllowedCall
    <2>2. Call[c] = CallOf(tx[c])
      BY DEF Call
    <2>3. [Call[c] EXCEPT !.st = "applied"] = Call[c]
      BY <1>2, <2>1, <2>2 DEF CallOf
    <2>4. Call' = Call
      BY <1>3, <2>3 DEF Abstract!To, Call
    <2> QED
      BY <1>2, <1>4, <2>4, LevelIsOfRows DEF Update, Abstract!vars
  <1>5. CASE tx[c].permission # tx[c].row.permission
    <2>1. PICK s \in scopes :
            /\ s.id = tx[c].row.id
            /\ scopes' = (scopes \ {s})
                 \cup {[s EXCEPT !.permission = tx[c].permission]}
      BY <1>5 DEF Update
    <2> DEFINE new == [s EXCEPT !.permission = tx[c].permission]
    <2>2. s.name = tx[c].name
      BY <1>1, <1>2, <2>1 DEF IInv, LoadedInv, Loaded
    <2>3. new.name = tx[c].name /\ new.permission = tx[c].permission
      BY <1>1, <2>2 DEF IInv, TypeOK, Scope
    <2>4. scopes' = (scopes \ {s}) \cup {new}
      BY <2>1
    <2> HIDE DEF new
    <2>5. Level' = [Level EXCEPT ![tx[c].name] = tx[c].permission]
      BY <1>1, <1>2, <2>2, <2>3, <2>4, WrittenLevel, AllowedCall
    <2> QED
      BY <1>2, <1>3, <1>5, <2>5, AllowedCall DEF Abstract!Grant
  <1> QED
    BY <1>4, <1>5

LEMMA RemoveMaps ==
  ASSUME RefInv, NEW c \in Clients, Remove(c)
  PROVE  Abstract!Revoke(c)
  <1>1. IInv' /\ IInv
    BY RemoveIInv DEF RefInv
  <1>2. /\ tx[c].pc = "located" /\ tx[c].op = "revoke"
        /\ Step(c, "ok") /\ UNCHANGED deleted
    BY DEF Remove
  <1>3. PICK s \in scopes : s.id = tx[c].row.id /\ scopes' = scopes \ {s}
    BY DEF Remove
  <1>4. s.name = tx[c].name /\ tx[c].name # Owner
    BY <1>1, <1>2, <1>3 DEF IInv, LoadedInv, Loaded
  <1>5. /\ scopes \in SUBSET Scope /\ OnePerName(scopes)
        /\ scopes' \in SUBSET Scope /\ OnePerName(scopes')
    BY <1>1, RowsFacts, RowsFactsNext
  <1>6. Level[tx[c].name] > 0
    <2>1. Level[tx[c].name] = s.permission
      BY <1>4, <1>5, LevelOfRow, LevelIsOfRows
    <2> QED
      BY <1>5, <2>1 DEF Scope
  <1>7. Level' = [Level EXCEPT ![tx[c].name] = 0]
    <2>1. \A r \in scopes' : r.name # tx[c].name
      BY <1>3, <1>4, <1>5 DEF OnePerName
    <2>2. LevelsIn(scopes')[tx[c].name] = 0
      BY <1>2, <2>1, AllowedCall, LevelOfNoRow
    <2>3. tx[c].name \in Names
          /\ \A r \in Scope : r.name # tx[c].name => (r \in scopes <=> r \in scopes')
      BY <1>2, <1>3, <1>4, AllowedCall
    <2>4. LevelsIn(scopes') =
            [LevelsIn(scopes) EXCEPT ![tx[c].name] = LevelsIn(scopes')[tx[c].name]]
      BY ONLY <1>5, <2>3, OneLevelChanges
    <2> QED
      BY <2>2, <2>4, LevelIsOfRows
  <1>8. Abstract!To(c, "applied")
    BY <1>2, CallStep
  <1> QED
    BY <1>2, <1>4, <1>6, <1>7, <1>8, AllowedCall DEF Abstract!Revoke

LEMMA DeleteMaps ==
  ASSUME RefInv, NEW c \in Clients, Delete(c)
  PROVE  Abstract!Delete(c)
  <1>1. /\ tx[c].pc = "allowed" /\ tx[c].op = "delete" /\ Step(c, "ok")
        /\ deleted' = TRUE /\ UNCHANGED scopes
    BY DEF Delete
  <1>2. ~deleted
    BY <1>1 DEF RefInv, LockInv
  <1>3. Call[c].st = "allowed" /\ Call[c].op = "delete"
    <2>1. tx[c] \in Tx /\ Progress(tx[c]) /\ Call[c] = CallOf(tx[c])
      BY TxFacts DEF RefInv, IInv, ProgressInv, Call
    <2> QED
      BY <1>1, <2>1, CallFacts DEF StateOf
  <1>4. Abstract!To(c, "applied")
    BY <1>1, CallStep
  <1> QED
    BY <1>1, <1>2, <1>3, <1>4, LevelIsOfRows DEF Abstract!Delete

\* The list knows nothing of those who read.
LEMMA ListMaps ==
  ASSUME RefInv, NEW c \in Clients, NEW u \in Users, List(c, u)
  PROVE  UNCHANGED Abstract!vars
  <1> DEFINE t == [Idle EXCEPT !.pc = "listed", !.op = "list", !.user = u]
  <1>1. tx[c] \in Tx /\ Progress(tx[c]) /\ TypeOK /\ tx[c].pc = "idle"
    BY TxFacts DEF RefInv, IInv, ProgressInv, List
  <1>2. tx[c].op \in {"none", "list"}
    BY <1>1 DEF Tx, Progress
  <1>3. t.op = "list" /\ t \in Tx /\ t.pc = "listed"
    BY DEF Idle, Tx, Names, Principals
  <1>4. Progress(t)
    BY <1>3 DEF Progress
  <1>5. CallOf(t) = CallOf(tx[c])
    BY <1>1, <1>2, <1>3, <1>4, CallFacts
  <1> QED
    BY <1>1, <1>5, SameCall DEF List

LEMMA RespondMaps ==
  ASSUME RefInv, NEW c \in Clients, Respond(c)
  PROVE  Abstract!Answer(c) \/ UNCHANGED Abstract!vars
  <1>1. tx[c] \in Tx /\ Progress(tx[c]) /\ TypeOK /\ tx[c].pc = "listed"
    BY TxFacts DEF RefInv, IInv, ProgressInv, Respond
  <1>2. tx[c].op = "list"
    BY <1>1 DEF Tx, Progress
  <1>3. CASE Step(c, "ok")
    <2> DEFINE t == [tx[c] EXCEPT !.pc = "ok"]
    <2>1. t.op = "list"
      BY <1>1, <1>2 DEF Tx
    <2>2. CallOf(t) = CallOf(tx[c])
      BY <1>2, <2>1 DEF CallOf
    <2> QED
      BY <1>1, <1>3, <2>2, SameCall DEF Step, Respond
  <1>4. CASE End(c)
    BY <1>4, EndMaps DEF Respond
  <1> QED
    BY <1>3, <1>4 DEF Respond

\* How far each request is, and that only the one that holds the lock can be
\* about to delete the document.
THEOREM RequestsInvariant == Spec => []RefInv
  BY InitRefInv, StepRefInv, PTL DEF Spec

\* Whatever the transactions of any number of clients interleave to, each
\* request is allowed by the permissions of one moment, takes effect at one
\* later moment, and is answered with success only after that.
THEOREM Refinement == Spec => ImplementsAccessList
  <1>1. Init => Abstract!Init
    <2> SUFFICES ASSUME Init PROVE Abstract!Init
      OBVIOUS
    <2>1. IInv
      BY InitIInv
    <2>2. \A n \in Names :
            Level[n] = IF n = Owner THEN 3 ELSE IF n = Tenant THEN 1 ELSE 0
      <3> DEFINE own == [id |-> 1, name |-> Owner, permission |-> ADMIN]
                 all == [id |-> 2, name |-> Tenant, permission |-> READ]
      <3>1. scopes = {own, all}
        BY DEF Init
      <3>2. LevelsIn(scopes)[Owner] = 3
        BY <2>1, <3>1, RowsFacts, LevelOfRow, own.name = Owner, own.permission = 3
      <3>3. LevelsIn(scopes)[Tenant] = 1
        BY <2>1, <3>1, RowsFacts, LevelOfRow, all.name = Tenant, all.permission = 1
      <3>4. \A n \in Names \ {Owner, Tenant} : LevelsIn(scopes)[n] = 0
        BY <3>1, LevelOfNoRow
      <3> QED
        BY <3>2, <3>3, <3>4, LevelIsOfRows
    <2>3. Level = [n \in Names |-> Level[n]]
      BY DEF Level
    <2>4. Call = [c \in Clients |-> Abstract!NoCall]
      <3>1. CallOf(Idle) = Abstract!NoCall
        BY IdleFacts, IdleProgress, CallFacts
      <3> QED
        BY <3>1 DEF Call, Init
    <2> QED
      BY <2>2, <2>3, <2>4 DEF Abstract!Init, Init
  <1>2. RefInv /\ [Next]_vars => [Abstract!Next]_Abstract!vars
    <2> SUFFICES ASSUME RefInv, [Next]_vars
                 PROVE  [Abstract!Next]_Abstract!vars
      OBVIOUS
    <2>1. CASE UNCHANGED vars
      BY <2>1 DEF vars, Abstract!vars, Level, Call
    <2>2. ASSUME NEW c \in Clients, Administer(c)
          PROVE  [Abstract!Next]_Abstract!vars
      <3>1. ASSUME NEW u \in Users, NEW n \in Names,
                   \/ Find(c, "revoke", u, n, READ)
                   \/ \E p \in Permission : Find(c, "grant", u, n, p)
            PROVE  Abstract!Ask(c)
        BY <3>1, FindMaps
      <3> QED
        BY <2>2, <3>1, LocateMaps, InsertMaps, UpdateMaps, RemoveMaps
        DEF Administer, Abstract!Next
    <2>3. ASSUME NEW c \in Clients, Use(c)
          PROVE  [Abstract!Next]_Abstract!vars
      BY <2>3, FindLockedMaps, ListMaps, DeleteMaps, RespondMaps
      DEF Use, Abstract!Next
    <2>4. ASSUME NEW c \in Clients, Authorize(c)
          PROVE  [Abstract!Next]_Abstract!vars
      BY <2>4, AuthorizeMaps DEF Abstract!Next
    <2>5. ASSUME NEW c \in Clients, Fail(c) \/ Leave(c)
          PROVE  [Abstract!Next]_Abstract!vars
      BY <2>5, EndMaps DEF Fail, Leave, Abstract!Next
    <2> QED
      BY <2>1, <2>2, <2>3, <2>4, <2>5 DEF Next
  <1> QED
    BY <1>1, <1>2, RequestsInvariant, PTL
    DEF Spec, ImplementsAccessList, Abstract!Spec

=============================================================================
