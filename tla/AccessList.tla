----------------------------- MODULE AccessList -----------------------------
(***************************************************************************)
(* What the permission requests of one document promise: each is allowed   *)
(* by the permissions of one moment, takes effect at one later moment, and *)
(* is answered with success only after that.                               *)
(***************************************************************************)
EXTENDS Integers

CONSTANTS Users, Owner, Tenant, Names, Clients

VARIABLES
  level,    \* the permission of each name: 0 none, 1 READ, 2 WRITE, 3 ADMIN
  deleted,  \* whether the document was deleted
  call      \* the request of each client

vars == <<level, deleted, call>>

Calls ==
  [op : {"grant", "revoke", "delete"}, user : Users, name : Names,
   permission : 1..3, st : {"asked", "allowed", "applied"}]
NoCall == [st |-> "idle"]

Need(op) == IF op = "delete" THEN 2 ELSE 3

Entitled(u, need) == u = Owner \/ \E n \in {u, Tenant} : level[n] >= need

Init ==
  /\ level = [n \in Names |-> IF n = Owner THEN 3 ELSE IF n = Tenant THEN 1 ELSE 0]
  /\ deleted = FALSE
  /\ call = [c \in Clients |-> NoCall]

To(c, st) == call' = [call EXCEPT ![c] = [@ EXCEPT !.st = st]]

Ask(c) ==
  /\ call[c] = NoCall
  /\ ~deleted
  /\ call'[c] \in Calls
  /\ call'[c].st = "asked"
  /\ call' = [call EXCEPT ![c] = call'[c]]
  /\ UNCHANGED <<level, deleted>>

Allow(c) ==
  /\ call[c].st = "asked"
  /\ Entitled(call[c].user, Need(call[c].op))
  /\ To(c, "allowed")
  /\ UNCHANGED <<level, deleted>>

Grant(c) ==
  /\ call[c].st = "allowed" /\ call[c].op = "grant"
  /\ level' = [level EXCEPT ![call[c].name] = call[c].permission]
  /\ To(c, "applied")
  /\ UNCHANGED deleted

\* The owner's permission cannot be revoked, and there must be one to revoke.
Revoke(c) ==
  /\ call[c].st = "allowed" /\ call[c].op = "revoke"
  /\ call[c].name # Owner
  /\ level[call[c].name] > 0
  /\ level' = [level EXCEPT ![call[c].name] = 0]
  /\ To(c, "applied")
  /\ UNCHANGED deleted

\* Only one request deletes the document.
Delete(c) ==
  /\ call[c].st = "allowed" /\ call[c].op = "delete"
  /\ ~deleted
  /\ deleted' = TRUE
  /\ To(c, "applied")
  /\ UNCHANGED level

\* The answer: of an applied request its success, of any other an error.
Answer(c) ==
  /\ call[c] # NoCall
  /\ call' = [call EXCEPT ![c] = NoCall]
  /\ UNCHANGED <<level, deleted>>

Next ==
  \E c \in Clients :
    Ask(c) \/ Allow(c) \/ Grant(c) \/ Revoke(c) \/ Delete(c) \/ Answer(c)

Spec == Init /\ [][Next]_vars

=============================================================================
