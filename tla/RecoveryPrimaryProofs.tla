------------------------ MODULE RecoveryPrimaryProofs ------------------------
(* Proofs about RecoveryPrimary, for every value of its constants. *)
EXTENDS RecoveryPrimaryInv, FiniteSetTheorems, TLAPS

USE TimesAssumption, NodesAssumption DEF NoRun, Failed

----------------------------------------------------------------------------
(* The invariant *)

LEMMA InitIInv == Init => IInv
  <1> SUFFICES ASSUME Init PROVE IInv
    OBVIOUS
  <1>1. Cardinality(Nodes) \in Nat
    BY FS_CardinalityType
  <1>2. TypeOK /\ LeaderInv
    BY <1>1 DEF LeaderInv, Init, TypeOK, Roles, Marker, Job, Run
  <1>3. StartsInv
    BY <1>1 DEF Init, StartsInv
  <1>4. MarkerInv
    BY <1>1 DEF Init, MarkerInv
  <1>5. PastInv /\ RenewalInv /\ LeaseInv
    BY DEF Init, PastInv, RenewalInv, LeaseInv, Holds
  <1> QED
    BY <1>2, <1>3, <1>4, <1>5 DEF IInv

\* The steps that stop, start and promote servers.
LEMMA ServerSteps ==
  ASSUME IInv, NEW n \in Nodes,
         Stop(n) \/ Restart(n) \/ Follow(n) \/ Promote(n) \/ Open(n)
  PROVE  IInv'
  <1> USE DEF IInv, TypeOK, Roles, Marker, Job, Run
  <1>1. CASE Stop(n)
    <2>1. TypeOK' /\ StartsInv' /\ LeaderInv' /\ MarkerInv' /\ PastInv'
      BY <1>1 DEF Stop, StartsInv, LeaderInv, MarkerInv, PastInv
    <2>2. \A m \in Nodes : Primary(m)' => Primary(m) /\ m # n
      BY <1>1 DEF Stop, Primary
    <2>3. RenewalInv' /\ LeaseInv'
      BY <1>1, <2>2 DEF Stop, RenewalInv, LeaseInv, Holds, Later
    <2> QED
      BY <2>1, <2>3
  <1>2. ASSUME NEW r \in {"starting", "standby"}, StartedAs(n, r),
               r = "standby" \/ leader = n,
               callback' \in [Nodes -> Failed..Tries]
        PROVE  IInv'
    <2>1. TypeOK'
      BY <1>2 DEF StartedAs
    <2>2. StartsInv' /\ LeaderInv'
      BY <1>2 DEF StartedAs, StartsInv, LeaderInv
    <2>3. MarkerInv'
      BY <1>2 DEF StartedAs, MarkerInv, StartsInv
    <2>4. PastInv'
      BY <1>2 DEF StartedAs, PastInv
    <2>5. \A m \in Nodes : Primary(m)' => Primary(m) /\ m # n
      BY <1>2 DEF StartedAs, Primary
    <2>6. RenewalInv' /\ LeaseInv'
      BY <1>2, <2>5 DEF StartedAs, RenewalInv, LeaseInv, Holds, Later
    <2> QED
      BY <2>1, <2>2, <2>3, <2>4, <2>6
  <1>3. CASE Restart(n)
    BY <1>2, <1>3 DEF Restart, StartCallback
  <1>4. CASE Follow(n)
    BY <1>2, <1>4 DEF Follow
  <1>5. CASE Promote(n)
    <2>1. TypeOK' /\ StartsInv' /\ LeaderInv' /\ PastInv'
      BY <1>5 DEF Promote, StartCallback, StartsInv, LeaderInv, PastInv
    <2>2. MarkerInv'
      BY <1>5 DEF Promote, MarkerInv
    <2>3. \A m \in Nodes : Primary(m)' => Primary(m) /\ m # n
      BY <1>5 DEF Promote, Primary
    <2>4. RenewalInv' /\ LeaseInv'
      BY <1>5, <2>3 DEF Promote, RenewalInv, LeaseInv, Holds, Later
    <2> QED
      BY <2>1, <2>2, <2>4
  <1>6. CASE Open(n)
    <2>1. TypeOK' /\ StartsInv' /\ LeaderInv' /\ PastInv'
      BY <1>6 DEF Open, StartsInv, LeaderInv, PastInv
    <2>2. MarkerInv'
      BY <1>6 DEF Open, MarkerInv, StartsInv
    <2>3. \A m \in Nodes : Primary(m)' => m = n
      BY <1>6 DEF Open, Primary, LeaderInv
    <2>4. RenewalInv'
      BY <1>6, <2>3 DEF Open, RenewalInv, PastInv, Later
    <2>5. writableAt'[n] = now /\ \A w \in Workers : run'[w].beat <= now
      BY <1>6 DEF Open, PastInv
    <2>6. LeaseInv'
      BY <2>3, <2>5, <1>6 DEF Open, LeaseInv
    <2> QED
      BY <2>1, <2>2, <2>4, <2>6
  <1> QED
    BY <1>1, <1>3, <1>4, <1>5, <1>6

\* A standby is no primary, and the marker it takes over is checked against
\* every server already.
LEMMA ReplicationStep ==
  ASSUME IInv, NEW m \in Nodes, NEW n \in Nodes, Replicate(m, n)
  PROVE  IInv'
  <1> USE DEF IInv, TypeOK, Roles, Marker, Job, Run, Replicate
  <1>1. TypeOK' /\ StartsInv' /\ LeaderInv' /\ PastInv'
    BY DEF StartsInv, LeaderInv, PastInv
  <1>2. MarkerInv'
    BY DEF MarkerInv
  <1>3. \A k \in Nodes : Primary(k)' => Primary(k) /\ k # n
    BY DEF Primary
  <1>4. RenewalInv' /\ LeaseInv'
    BY <1>3 DEF RenewalInv, LeaseInv, Holds, Later
  <1> QED
    BY <1>1, <1>2, <1>4

LEMMA CallbackSteps ==
  ASSUME IInv, NEW n \in Nodes,
         CallbackSucceeds(n) \/ CallbackFails(n) \/ CallbackAgain(n)
  PROVE  IInv'
  <1> USE DEF IInv, TypeOK, Roles, Marker, Job, Run, serverVars
  <1>1. /\ UNCHANGED <<now, starts, up, role, started, timeline, leader,
                       writableAt, job, run>>
        /\ callback' \in [Nodes -> Failed..Tries]
    BY DEF CallbackSucceeds, CallbackFails, CallbackAgain, StartCallback
  <1>2. StartsInv' /\ LeaderInv' /\ PastInv' /\ RenewalInv' /\ LeaseInv'
    BY <1>1 DEF StartsInv, LeaderInv, PastInv, RenewalInv, LeaseInv, Holds, Primary, Later
  <1>3. CASE CallbackSucceeds(n) /\ ~Recorded(n)
    <2>1. marker' = [marker EXCEPT ![n] = [started |-> started[n],
                                           timeline |-> timeline[n],
                                           since |-> now]]
      BY <1>3 DEF CallbackSucceeds, Mark
    <2>2. TypeOK'
      BY <1>1, <2>1
    <2>3. MarkerInv'
      BY <1>1, <1>3, <2>1
      DEF MarkerInv, StartsInv, PastInv, CallbackSucceeds, Primary
    <2> QED
      BY <1>2, <2>2, <2>3
  <1>4. CASE marker' = marker
    BY <1>1, <1>2, <1>4 DEF MarkerInv
  <1> QED
    BY <1>3, <1>4 DEF CallbackSucceeds, CallbackFails, CallbackAgain, Mark

LEMMA ReclaimStep ==
  ASSUME IInv, NEW n \in Nodes, Reclaim(n)
  PROVE  IInv'
  <1> USE DEF IInv
  <1>1. UNCHANGED <<now, starts, up, role, started, timeline, leader,
                    writableAt, marker, callback, run>>
    BY DEF Reclaim, serverVars
  <1>2. /\ job' \in [Nodes -> Job]
        /\ job'[n].status = "PENDING"
        /\ \A m \in Nodes : m # n => job'[m] = job[m]
    BY DEF Reclaim, TypeOK, Job
  <1>3. TypeOK' /\ StartsInv' /\ LeaderInv' /\ MarkerInv' /\ PastInv'
    BY <1>1, <1>2 DEF TypeOK, StartsInv, LeaderInv, MarkerInv, PastInv
  <1>4. RenewalInv'
    BY <1>1 DEF RenewalInv, Primary, Later
  <1>5. LeaseInv'
    BY <1>1, <1>2 DEF LeaseInv, Holds, Primary
  <1> QED
    BY <1>3, <1>4, <1>5

\* The steps that change the job of the one primary, or a worker's execution.
LEMMA JobSteps ==
  ASSUME IInv, NEW n \in Nodes, NEW w \in Workers,
         Claim(n, w) \/ Heartbeat(n, w) \/ Finish(n, w) \/ DropRun(w)
  PROVE  IInv'
  <1> USE DEF IInv
  <1>1. UNCHANGED <<now, starts, up, role, started, timeline, leader,
                    writableAt, marker, callback>>
    BY DEF Claim, Heartbeat, Finish, DropRun, serverVars
  <1>2. StartsInv' /\ LeaderInv' /\ MarkerInv'
    BY <1>1 DEF StartsInv, LeaderInv, MarkerInv
  <1>3. \A m \in Nodes : Primary(m)' = Primary(m)
    BY <1>1 DEF Primary
  <1>4. \A m, k \in Nodes : Primary(m) /\ Primary(k) => m = k
    BY DEF Primary, LeaderInv
  <1>5. TypeOK'
    <2> USE DEF TypeOK, Job, Run
    <2>1. CASE Claim(n, w)
      <3>1. job[n].epoch + 1 \in Nat /\ now + Lease \in Nat
        OBVIOUS
      <3>2. job' \in [Nodes -> Job]
        BY <2>1, <3>1 DEF Claim
      <3>3. run' \in [Workers -> Run]
        BY <2>1, <3>1 DEF Claim
      <3> QED
        BY <1>1, <3>2, <3>3
    <2>2. CASE Heartbeat(n, w)
      <3>1. now + Lease \in Nat
        OBVIOUS
      <3>2. job' \in [Nodes -> Job]
        BY <2>2, <3>1 DEF Heartbeat
      <3>3. run' \in [Workers -> Run]
        BY <2>2 DEF Heartbeat
      <3> QED
        BY <1>1, <3>2, <3>3
    <2>3. CASE Finish(n, w)
      <3>1. job' \in [Nodes -> Job]
        BY <2>3 DEF Finish
      <3>2. run' \in [Workers -> Run]
        BY <2>3 DEF Finish
      <3> QED
        BY <1>1, <3>1, <3>2
    <2>4. CASE DropRun(w)
      <3>1. run' \in [Workers -> Run]
        BY <2>4 DEF DropRun
      <3> QED
        BY <1>1, <2>4, <3>1 DEF DropRun
    <2> QED
      BY <2>1, <2>2, <2>3, <2>4
  <1>6. \A v \in Workers :
          \/ run'[v] = run[v]
          \/ run'[v] = NoRun
          \/ v = w /\ run'[v].beat = now /\ Primary(n)
               /\ job'[n].lease = now + Lease
    BY DEF TypeOK, Job, Run, Claim, Heartbeat, Finish, DropRun
  <1>7. PastInv'
    BY <1>1, <1>6 DEF PastInv, TypeOK, Run
  <1>8. RenewalInv'
    <2> SUFFICES ASSUME NEW m \in Nodes, NEW v \in Workers,
                        Primary(m), run'[v] # NoRun
                 PROVE  now <= Later(run'[v].beat, writableAt[m]) + Beat
      BY <1>1, <1>3 DEF RenewalInv
    <2>1. CASE run'[v] = run[v]
      BY <2>1 DEF RenewalInv
    <2>2. CASE run'[v].beat = now
      BY <2>2 DEF Later, PastInv, TypeOK
    <2> QED
      BY <1>6, <2>1, <2>2
  <1>9. LeaseInv'
    <2> SUFFICES ASSUME NEW m \in Nodes, NEW v \in Workers,
                        Primary(m), Holds(m, v)', run'[v].beat > writableAt[m]
                 PROVE  job'[m].lease >= run'[v].beat + Lease
      BY <1>1, <1>3 DEF LeaseInv
    <2>1. run'[v].epoch # 0
      BY DEF Holds
    <2>2. CASE run'[v].beat = now /\ Primary(n) /\ job'[n].lease = now + Lease
      BY <2>2, <1>4 DEF TypeOK
    <2>3. CASE run'[v] = run[v] /\ job'[m] = job[m]
      BY <2>3 DEF Holds, LeaseInv
    <2>4. CASE run'[v] = run[v] /\ job'[m] # job[m]
      <3>1. m = n
        BY <2>4 DEF TypeOK, Claim, Heartbeat, Finish, DropRun
      <3>2. ~Finish(n, w) /\ ~DropRun(w)
        BY <3>1, <2>4 DEF Holds, Finish, DropRun, TypeOK, Job
      <3>3. job'[n].worker = w /\ job'[n].lease = now + Lease
        BY <3>2 DEF Claim, Heartbeat, Holds, TypeOK, Job
      <3>4. run[v].beat <= now
        BY DEF PastInv
      <3> QED
        BY <2>4, <3>1, <3>3, <3>4 DEF TypeOK, Run
    <2> QED
      BY <1>6, <2>1, <2>2, <2>3, <2>4
  <1> QED
    BY <1>2, <1>5, <1>7, <1>8, <1>9

\* Time passes only while no worker is late.
LEMMA TickStep == IInv /\ Tick => IInv'
  <1> SUFFICES ASSUME IInv, Tick PROVE IInv'
    OBVIOUS
  <1> USE DEF IInv
  <1>1. /\ now' = now + 1 /\ now \in Nat
        /\ UNCHANGED <<starts, up, role, started, timeline, leader, writableAt,
                       marker, job, callback, run>>
    BY DEF Tick, serverVars, TypeOK
  <1>2. TypeOK' /\ StartsInv' /\ LeaderInv' /\ MarkerInv'
    BY <1>1 DEF TypeOK, StartsInv, LeaderInv, MarkerInv
  <1>3. PastInv'
    BY <1>1 DEF PastInv, TypeOK, Run
  <1>4. LeaseInv'
    BY <1>1 DEF LeaseInv, Holds, Primary
  <1>5. RenewalInv'
    <2> SUFFICES ASSUME NEW n \in Nodes, NEW w \in Workers,
                        Primary(n), run[w] # NoRun
                 PROVE  now + 1 <= Later(run[w].beat, writableAt[n]) + Beat
      BY <1>1 DEF RenewalInv, Primary, Later
    <2>1. ~(now >= Later(run[w].beat, writableAt[n]) + Beat)
      BY DEF Tick, RenewalDue
    <2>2. Later(run[w].beat, writableAt[n]) \in Nat
      BY DEF Later, TypeOK, Run
    <2> QED
      BY <1>1, <2>1, <2>2
  <1> QED
    BY <1>2, <1>3, <1>4, <1>5

LEMMA StepIInv == IInv /\ [Next]_vars => IInv'
  <1> SUFFICES ASSUME IInv, [Next]_vars PROVE IInv'
    OBVIOUS
  <1>1. ASSUME NEW n \in Nodes,
               Stop(n) \/ Restart(n) \/ Follow(n) \/ Promote(n) \/ Open(n)
        PROVE  IInv'
    BY <1>1, ServerSteps
  <1>2. ASSUME NEW m \in Nodes, NEW n \in Nodes, Replicate(m, n)
        PROVE  IInv'
    BY <1>2, ReplicationStep
  <1>3. ASSUME NEW n \in Nodes,
               CallbackSucceeds(n) \/ CallbackFails(n) \/ CallbackAgain(n)
        PROVE  IInv'
    BY <1>3, CallbackSteps
  <1>4. ASSUME NEW n \in Nodes, NEW w \in Workers,
               Claim(n, w) \/ Heartbeat(n, w) \/ Finish(n, w)
        PROVE  IInv'
    BY <1>4, JobSteps
  <1>5. ASSUME NEW n \in Nodes, Reclaim(n)
        PROVE  IInv'
    BY <1>5, ReclaimStep
  <1>6. ASSUME NEW w \in Workers, DropRun(w)
        PROVE  IInv'
    BY <1>6, JobSteps DEF IInv, TypeOK
  <1>7. CASE Tick
    BY <1>7, TickStep
  <1>8. CASE UNCHANGED vars
    BY <1>8 DEF vars, serverVars, IInv, TypeOK, StartsInv, LeaderInv, MarkerInv,
       PastInv, RenewalInv, LeaseInv, Holds, Primary, Later
  <1> QED
    BY <1>1, <1>2, <1>3, <1>4, <1>5, <1>6, <1>7, <1>8 DEF Next

\* The named parts of the invariant hold in every reachable state: server
\* processes differ in their start times, only the holder of the leader key is
\* more than a standby, every record of a start was written after that start
\* had become writable, and a renewal under the present primary is in its lease.
THEOREM Invariant == Spec => []IInv
  <1> QED
    BY InitIInv, StepIInv, PTL DEF Spec

----------------------------------------------------------------------------
(* The procedure *)

\* Only a call of the procedure puts the job of a primary back.
LEMMA OnlyReclaim ==
  ASSUME IInv, [Next]_vars, NEW n \in Nodes, Reclaimed(n)
  PROVE  MayReclaim(n) /\ job[n].lease <= now
  <1>1. job'[n] # job[n] /\ job'[n].status = "PENDING" /\ role[n] = "primary"
    BY DEF Reclaimed, Primary
  <1>2. job'[n] # job[n] => job' # job
    OBVIOUS
  <1>3. PICK m \in Nodes :
          \/ Reclaim(m)
          \/ \E k \in Nodes : Replicate(k, m)
          \/ \E w \in Workers : Claim(m, w) \/ Heartbeat(m, w) \/ Finish(m, w)
    BY <1>1, <1>2 DEF Next, vars, serverVars, Stop, Restart, Follow, StartedAs,
       Promote, Open, CallbackSucceeds, CallbackFails, CallbackAgain, DropRun, Tick
  <1>4. m = n
    BY <1>1, <1>3 DEF Reclaim, Replicate, Claim, Heartbeat, Finish, IInv, TypeOK
  <1> QED
    BY <1>1, <1>3, <1>4
    DEF Reclaim, Replicate, Claim, Heartbeat, Finish, Reclaimed, Holds,
        IInv, TypeOK, Job

\* A record that the procedure takes for its own is not older than the moment
\* at which its server became writable.
LEMMA OwnMarker ==
  ASSUME IInv, NEW n \in Nodes, MayReclaim(n)
  PROVE  now >= writableAt[n] + Grace
  BY DEF MayReclaim, Own, IInv, MarkerInv, TypeOK, Marker

\* A primary leaves every lease alone for the whole grace period after it has
\* become writable, whatever record it inherited (the gate of
\* reclaim_expired_indexing_jobs).
THEOREM GracePeriod == Spec => ReclaimsAfterGrace
  <1>1. IInv /\ [Next]_vars
          => [\A n \in Nodes : Reclaimed(n) => now >= writableAt[n] + Grace]_vars
    BY OnlyReclaim, OwnMarker
  <1> QED
    BY <1>1, Invariant, PTL DEF Spec, ReclaimsAfterGrace

\* The procedure never takes the job of a worker that renews in time, over
\* restarts, promotions and renewals lost with a primary.
THEOREM RenewalsAreRespected == Spec => LiveWorkerKeepsItsJob
  <1>1. ASSUME IInv, [Next]_vars, NEW n \in Nodes, NEW w \in Workers,
               Reclaimed(n), Holds(n, w)
        PROVE  FALSE
    <2>1. Primary(n) /\ run[w] # NoRun
      BY <1>1 DEF Reclaimed, Holds
    <2>2. now <= Later(run[w].beat, writableAt[n]) + Beat
      BY <1>1, <2>1 DEF IInv, RenewalInv
    <2>3. now >= writableAt[n] + Grace /\ job[n].lease <= now
      BY <1>1, OnlyReclaim, OwnMarker
    <2>4. /\ now \in Nat /\ run[w].beat \in Nat
          /\ writableAt[n] \in Nat /\ job[n].lease \in Nat
      BY <1>1 DEF IInv, TypeOK, Run, Job
    <2>5. run[w].beat > writableAt[n]
      BY <2>2, <2>3, <2>4 DEF Later
    <2>6. job[n].lease >= run[w].beat + Lease
      BY <1>1, <2>1, <2>5 DEF IInv, LeaseInv
    <2> QED
      BY <2>2, <2>3, <2>4, <2>5, <2>6 DEF Later
  <1>2. IInv /\ [Next]_vars
          => [\A n \in Nodes, w \in Workers : Reclaimed(n) => ~Holds(n, w)]_vars
    BY <1>1
  <1> QED
    BY <1>2, Invariant, PTL DEF Spec, LiveWorkerKeepsItsJob

=============================================================================
