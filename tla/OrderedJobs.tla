---------------------------- MODULE OrderedJobs ----------------------------
(***************************************************************************)
(* What the indexing queue promises to a document, without leases, epochs, *)
(* attempts, locks or time: the jobs of a document run one at a time, in   *)
(* the order they were submitted; an execution may be lost and its job     *)
(* wait again, but what is done stays done and nothing overtakes it.       *)
(***************************************************************************)
EXTENDS Integers

CONSTANTS Docs, NoDoc, MaxJobs

JobIds == 1..MaxJobs

VARIABLES
  phase,  \* the state of each job
  owner   \* the document each job belongs to

vars == <<phase, owner>>

Init ==
  /\ phase = [s \in JobIds |-> "none"]
  /\ owner = [s \in JobIds |-> NoDoc]

\* Jobs are numbered in the order of submission.
Submit(s, d) ==
  /\ \A t \in JobIds : phase[t] = "none" <=> t >= s
  /\ phase' = [phase EXCEPT ![s] = "waiting"]
  /\ owner' = [owner EXCEPT ![s] = d]

\* All earlier jobs of the document are done.
Start(s) ==
  /\ phase[s] = "waiting"
  /\ \A t \in JobIds : t < s /\ owner[t] = owner[s] => phase[t] = "done"
  /\ phase' = [phase EXCEPT ![s] = "running"]
  /\ UNCHANGED owner

\* Executions are lost together when one transaction reclaims several jobs.
Lose(S) ==
  /\ \A s \in S : phase[s] = "running"
  /\ phase' = [s \in JobIds |-> IF s \in S THEN "waiting" ELSE phase[s]]
  /\ UNCHANGED owner

Finish(s) ==
  /\ phase[s] = "running"
  /\ phase' = [phase EXCEPT ![s] = "done"]
  /\ UNCHANGED owner

Next ==
  \/ \E s \in JobIds, d \in Docs : Submit(s, d)
  \/ \E s \in JobIds : Start(s) \/ Finish(s)
  \/ \E S \in SUBSET JobIds : Lose(S)

Spec == Init /\ [][Next]_vars

=============================================================================
