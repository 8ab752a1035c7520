-------------------------- MODULE RecoveryPrimary --------------------------
(***************************************************************************)
(* When the reclaim procedure may run: the recovery primary marker.        *)
(*                                                                         *)
(* After a restart or a promotion the leases in the database say little:   *)
(* they ran out while no heartbeat could be written, or the heartbeats     *)
(* were lost with the old primary, because replication is asynchronous.    *)
(* So a callback of Patroni records, on the primary itself, the start and  *)
(* the timeline in which it became writable, and the procedure reclaims    *)
(* only when that record is of the present start and timeline and a grace  *)
(* period has passed.  The record is a row like any other: it is           *)
(* replicated, and a new primary begins with the row of an older one.      *)
(*                                                                         *)
(* One indexing job stands for all.  Its copy on each node is what that    *)
(* node has replayed.                                                      *)
(***************************************************************************)
EXTENDS Integers, FiniteSets

CONSTANTS
  Nodes,      \* the database nodes
  Workers,    \* the indexing workers
  NoWorker,   \* worker_id IS NULL
  Grace,      \* ticks from becoming writable to the first reclaim (30 s)
  Lease,      \* length of a lease, in ticks (60 s)
  Beat,       \* a worker that reaches a primary renews within so many ticks
  Tries,      \* attempts of the callback script (10)
  MaxStarts,  \* bound: how often a server process is started
  Busy        \* bound: after this moment nothing stops, starts, claims or
              \* renews; callbacks, reclaims and the clock go on

\* A worker renews well within its lease and within the grace period.
ASSUME TimesAssumption ==
  /\ Grace \in Nat /\ Lease \in Nat /\ Beat \in Nat
  /\ Beat < Grace
  /\ Beat < Lease

ASSUME NodesAssumption ==
  /\ IsFiniteSet(Nodes)
  /\ NoWorker \notin Workers
  /\ Tries \in Nat /\ MaxStarts \in Nat /\ Busy \in Nat

VARIABLES
  now,         \* the clock
  starts,      \* server processes started so far
  up,          \* is the node's PostgreSQL running
  role,        \* what it is, or was when it stopped
  started,     \* pg_postmaster_start_time of the node's last start
  timeline,    \* the timeline it writes or follows
  leader,      \* the last holder of Patroni's leader key
  writableAt,  \* when the node became writable, 0 while it is not (not
               \* stored anywhere)
  marker,      \* its copy of the row of indexing_recovery_primary
  job,         \* its copy of the job
  callback,    \* the callback script on the node: attempts left, 0 when it
               \* does not run, Failed when its last run ended with exit 1
  run          \* the execution that each worker believes to have

serverVars == <<starts, up, role, started, timeline, leader, writableAt>>
vars == <<now, serverVars, marker, job, callback, run>>

----------------------------------------------------------------------------
(* State *)

\* "starting" is a primary still in recovery, after a start or a promotion.
Roles == {"standby", "starting", "primary"}

Marker == [started : Nat, timeline : Nat, since : Nat]

Job == [status : {"PENDING", "PROCESSING", "COMPLETED"},
        worker : Workers \cup {NoWorker}, epoch : Nat, lease : Nat]

\* The epoch of the claim, 0 for no execution, and the last renewal.
Run == [epoch : Nat, beat : Nat]
NoRun == [epoch |-> 0, beat |-> 0]

Failed == -1

TypeOK ==
  /\ now \in Nat /\ starts \in Nat
  /\ up \in [Nodes -> BOOLEAN]
  /\ role \in [Nodes -> Roles]
  /\ started \in [Nodes -> Nat]
  /\ timeline \in [Nodes -> Nat]
  /\ leader \in Nodes
  /\ writableAt \in [Nodes -> Nat]
  /\ marker \in [Nodes -> Marker]
  /\ job \in [Nodes -> Job]
  /\ callback \in [Nodes -> Failed..Tries]
  /\ run \in [Workers -> Run]

Primary(n) == up[n] /\ role[n] = "primary"

\* Is the job, as n has it, held by w's present execution?
Holds(n, w) ==
  /\ job[n].status = "PROCESSING"
  /\ job[n].worker = w
  /\ job[n].epoch = run[w].epoch
  /\ run[w].epoch # 0

\* The migration is applied on a running primary and calls mark at its end.
\* The start times of different servers differ.
Init ==
  /\ now = 0
  /\ starts = Cardinality(Nodes)
  /\ up = [n \in Nodes |-> TRUE]
  /\ leader \in Nodes
  /\ role = [n \in Nodes |-> IF n = leader THEN "primary" ELSE "standby"]
  /\ started \in [Nodes -> 1..Cardinality(Nodes)]
  /\ \A m, n \in Nodes : started[m] = started[n] => m = n
  /\ timeline = [n \in Nodes |-> 1]
  /\ writableAt = [n \in Nodes |-> 0]
  /\ marker = [n \in Nodes |->
                 [started |-> started[leader], timeline |-> 1, since |-> 0]]
  /\ job = [n \in Nodes |-> [status |-> "PENDING", worker |-> NoWorker,
                             epoch |-> 0, lease |-> 0]]
  /\ callback = [n \in Nodes |-> 0]
  /\ run = [w \in Workers |-> NoRun]

----------------------------------------------------------------------------
(* The servers, driven by Patroni: external *)

\* A script that still runs fails until the next start, which runs it anew.
Stop(n) ==
  /\ up[n] /\ now <= Busy
  /\ up' = [up EXCEPT ![n] = FALSE]
  /\ writableAt' = [writableAt EXCEPT ![n] = 0]
  /\ callback' = [callback EXCEPT ![n] = 0]
  /\ UNCHANGED <<now, starts, role, started, timeline, leader, marker, job, run>>

\* on_start, on_restart and on_role_change run the script with the new role.
StartCallback(n) == callback' = [callback EXCEPT ![n] = Tries]

StartedAs(n, r) ==
  /\ ~up[n] /\ now <= Busy /\ starts < MaxStarts
  /\ starts' = starts + 1
  /\ up' = [up EXCEPT ![n] = TRUE]
  /\ role' = [role EXCEPT ![n] = r]
  /\ started' = [started EXCEPT ![n] = starts + 1]
  /\ UNCHANGED <<now, timeline, leader, writableAt, marker, job, run>>

\* Only the last leader is started again as a primary, on its timeline.
Restart(n) ==
  /\ leader = n /\ role[n] # "standby"
  /\ StartedAs(n, "starting")
  /\ StartCallback(n)

\* For a standby the script exits at once.
Follow(n) ==
  /\ StartedAs(n, "standby")
  /\ callback' = [callback EXCEPT ![n] = 0]

\* The leader key lets one node at a time be a primary.
Promote(n) ==
  /\ up[n] /\ role[n] = "standby" /\ now <= Busy
  /\ \A m \in Nodes : up[m] => role[m] = "standby"
  /\ leader' = n
  /\ role' = [role EXCEPT ![n] = "starting"]
  /\ timeline' = [timeline EXCEPT ![n] = @ + 1]
  /\ StartCallback(n)
  /\ UNCHANGED <<now, starts, up, started, writableAt, marker, job, run>>

\* The end of recovery: the first writable connection.
Open(n) ==
  /\ up[n] /\ role[n] = "starting"
  /\ role' = [role EXCEPT ![n] = "primary"]
  /\ writableAt' = [writableAt EXCEPT ![n] = now]
  /\ UNCHANGED <<now, starts, up, started, timeline, leader, marker, job,
                 callback, run>>

\* A standby catches up with the primary, after a rewind if it has to.
Replicate(m, n) ==
  /\ Primary(m)
  /\ up[n] /\ role[n] = "standby"
  /\ timeline' = [timeline EXCEPT ![n] = timeline[m]]
  /\ marker' = [marker EXCEPT ![n] = marker[m]]
  /\ job' = [job EXCEPT ![n] = job[m]]
  /\ UNCHANGED <<now, starts, up, role, started, leader, writableAt,
                 callback, run>>

----------------------------------------------------------------------------
(* The marker *)

\* The two comparisons of the upsert, and those of the reclaim procedure.
\* Mutant: only the timeline is compared.
RecordedByTimeline(n) == marker[n].timeline = timeline[n]
Recorded(n) ==
  /\ marker[n].started = started[n]
  /\ marker[n].timeline = timeline[n]

OwnByTimeline(n) == marker[n].timeline = timeline[n]
Own(n) ==
  /\ marker[n].started = started[n]
  /\ marker[n].timeline = timeline[n]

\* mark_indexing_recovery_primary, called on a writable node.
\* Mutant: the time of the old record stays.
MarkSameTime(n) ==
  marker' = [marker EXCEPT ![n].started = started[n],
                           ![n].timeline = timeline[n]]
Mark(n) ==
  marker' = IF Recorded(n) THEN marker
            ELSE [marker EXCEPT ![n] = [started |-> started[n],
                                        timeline |-> timeline[n],
                                        since |-> now]]

\* An attempt of the script that reaches the writable server ends the script.
CallbackSucceeds(n) ==
  /\ callback[n] > 0
  /\ Primary(n)
  /\ Mark(n)
  /\ callback' = [callback EXCEPT ![n] = 0]
  /\ UNCHANGED <<now, serverVars, job, run>>

\* Any other attempt fails: no connection, a timeout, a server in recovery.
\* After the last one the script gives up and nothing records this start.
CallbackFails(n) ==
  /\ callback[n] > 0
  /\ callback' = [callback EXCEPT ![n] = IF @ = 1 THEN Failed ELSE @ - 1]
  /\ UNCHANGED <<now, serverVars, marker, job, run>>

\* Patroni runs the script again, for the same start.
CallbackAgain(n) ==
  /\ up[n] /\ role[n] # "standby" /\ now < Busy
  /\ StartCallback(n)
  /\ UNCHANGED <<now, serverVars, marker, job, run>>

----------------------------------------------------------------------------
(* The procedure, and the workers *)

\* Mutant: no grace period.
MayReclaimAtOnce(n) == Primary(n) /\ Own(n)
MayReclaim(n) ==
  /\ Primary(n)
  /\ Own(n)
  /\ now >= marker[n].since + Grace

\* One call, with the one job as its batch.
Reclaim(n) ==
  /\ MayReclaim(n)
  /\ job[n].status = "PROCESSING"
  /\ job[n].lease <= now
  /\ job' = [job EXCEPT ![n].status = "PENDING", ![n].worker = NoWorker,
                        ![n].lease = 0]
  /\ UNCHANGED <<now, serverVars, marker, callback, run>>

Claim(n, w) ==
  /\ Primary(n) /\ now <= Busy
  /\ run[w] = NoRun
  /\ job[n].status = "PENDING"
  /\ job' = [job EXCEPT ![n] = [status |-> "PROCESSING", worker |-> w,
                                epoch |-> @.epoch + 1, lease |-> now + Lease]]
  /\ run' = [run EXCEPT ![w] = [epoch |-> job[n].epoch + 1, beat |-> now]]
  /\ UNCHANGED <<now, serverVars, marker, callback>>

Heartbeat(n, w) ==
  /\ Primary(n) /\ now <= Busy
  /\ Holds(n, w)
  /\ job' = [job EXCEPT ![n].lease = now + Lease]
  /\ run' = [run EXCEPT ![w].beat = now]
  /\ UNCHANGED <<now, serverVars, marker, callback>>

\* A result needs the token and a lease that has not run out.
Finish(n, w) ==
  /\ Primary(n)
  /\ Holds(n, w)
  /\ job[n].lease > now
  /\ job' = [job EXCEPT ![n].status = "COMPLETED", ![n].worker = NoWorker,
                        ![n].lease = 0]
  /\ run' = [run EXCEPT ![w] = NoRun]
  /\ UNCHANGED <<now, serverVars, marker, callback>>

\* The worker is lost, or gives up after a write that matched no row.
DropRun(w) ==
  /\ run[w] # NoRun
  /\ run' = [run EXCEPT ![w] = NoRun]
  /\ UNCHANGED <<now, serverVars, marker, job, callback>>

----------------------------------------------------------------------------
(* The clock *)

Later(s, t) == IF s < t THEN t ELSE s

\* A worker that can reach a primary does not let Beat ticks go by without a
\* renewal; one that does is lost (DropRun).
RenewalDue(w) ==
  /\ run[w] # NoRun
  /\ \E n \in Nodes :
       Primary(n) /\ now >= Later(run[w].beat, writableAt[n]) + Beat

\* Times are compared with now only; when none lies ahead, a later tick would
\* show nothing new.
Ahead ==
  \/ now < Busy
  \/ \E n \in Nodes :
       Primary(n) /\ (now < marker[n].since + Grace \/ now < job[n].lease)

Tick ==
  /\ Ahead
  /\ \A w \in Workers : ~RenewalDue(w)
  /\ now' = now + 1
  /\ UNCHANGED <<serverVars, marker, job, callback, run>>

Next ==
  \/ \E n \in Nodes : Stop(n) \/ Restart(n) \/ Follow(n) \/ Promote(n) \/ Open(n)
  \/ \E m, n \in Nodes : Replicate(m, n)
  \/ \E n \in Nodes : CallbackSucceeds(n) \/ CallbackFails(n) \/ CallbackAgain(n)
  \/ \E n \in Nodes : Reclaim(n)
  \/ \E n \in Nodes, w \in Workers :
       Claim(n, w) \/ Heartbeat(n, w) \/ Finish(n, w)
  \/ \E w \in Workers : DropRun(w)
  \/ Tick

Spec == Init /\ [][Next]_vars

\* pg_cron calls the procedure every 30 seconds, a script makes its attempts
\* one after the other, the clock goes on.
FairSpec ==
  /\ Spec
  /\ WF_vars(Tick)
  /\ \A n \in Nodes :
       /\ WF_vars(Reclaim(n))
       /\ WF_vars(CallbackSucceeds(n) \/ CallbackFails(n))

----------------------------------------------------------------------------
(* Properties *)

\* The primary n puts the job back.
Reclaimed(n) ==
  /\ Primary(n)
  /\ job[n].status = "PROCESSING"
  /\ job'[n].status = "PENDING"

\* After it became writable, a primary leaves every lease alone for the whole
\* grace period, whatever marker it began with or was given by a callback of
\* an earlier start.
ReclaimsAfterGrace ==
  [][\A n \in Nodes : Reclaimed(n) => now >= writableAt[n] + Grace]_vars

\* A worker that renews in time never loses its job to the procedure, over
\* restarts, promotions and heartbeats that were lost with a primary.
LiveWorkerKeepsItsJob ==
  [][\A n \in Nodes, w \in Workers : Reclaimed(n) => ~Holds(n, w)]_vars

\* A job whose worker is lost on a primary is put back, unless the primary
\* stops before, or the script has reported that recovery stays disabled: it
\* never happens that nothing recovers the job and nobody is told.
ReclaimedOrAlerted ==
  \A n \in Nodes :
    (/\ Primary(n)
     /\ job[n].status = "PROCESSING"
     /\ \A w \in Workers : run[w] = NoRun)
    ~> (\/ ~Primary(n)
        \/ job[n].status # "PROCESSING"
        \/ \E w \in Workers : run[w] # NoRun
        \/ callback[n] = Failed)

=============================================================================
