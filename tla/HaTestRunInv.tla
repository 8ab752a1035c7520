---------------------------- MODULE HaTestRunInv ----------------------------
(* The inductive invariant of HaTestRun, in named parts. *)
EXTENDS HaTestRun

\* A run that has touched the cluster and goes on owns the lock.
LockInv ==
  \A r \in Runs :
    /\ Busy(r) => lock = r
    /\ locked[r] => touched[r]
    /\ touched[r] => pc[r] \notin {"idle", "check", "confirm", "lock"}
    /\ pc[r] \in (Trying \cup Ending) \ {"check", "confirm", "lock", "finally", "release"}
         => touched[r]

\* An unfed watchdog is that of the Primary, after it was killed and before
\* the node reboots; if Patroni runs there again, it is a replica.
WatchdogInv ==
  \A n \in Nodes : armed[n] => n = Primary /\ ssh[n] /\ ~(leader = n /\ patroni[n])

\* A run that is about to give the lock back has restored or told.
ReleaseInv ==
  \A r \in Runs : Busy(r) /\ At(r, "release") => AtBase \/ told

IInv == TypeOK /\ LockInv /\ WatchdogInv /\ ReleaseInv /\ NoSilentFault

=============================================================================
