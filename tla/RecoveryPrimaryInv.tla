------------------------- MODULE RecoveryPrimaryInv -------------------------
(* The inductive invariant of RecoveryPrimary, in named parts. *)
EXTENDS RecoveryPrimary

\* Server processes are told apart by their start times.
StartsInv ==
  /\ \A n \in Nodes : started[n] <= starts
  /\ \A m, n \in Nodes : started[m] = started[n] => m = n

\* Whatever runs and is no standby holds the leader key.
LeaderInv ==
  \A n \in Nodes : up[n] /\ role[n] # "standby" => n = leader

\* A marker with the start time of a server, on whatever node, was written by
\* that server after it had become writable.
MarkerInv ==
  \A m, n \in Nodes :
    /\ marker[m].started <= starts
    /\ marker[m].started = started[n] =>
         role[n] = "primary" /\ marker[m].since >= writableAt[n]

\* Nothing has happened later than now.
PastInv ==
  /\ \A n \in Nodes : writableAt[n] <= now
  /\ \A w \in Workers : run[w].beat <= now

\* A worker that reaches a primary is not late.
RenewalInv ==
  \A n \in Nodes, w \in Workers :
    Primary(n) /\ run[w] # NoRun
      => now <= Later(run[w].beat, writableAt[n]) + Beat

\* A renewal made under the present primary is in its lease.
LeaseInv ==
  \A n \in Nodes, w \in Workers :
    Primary(n) /\ Holds(n, w) /\ run[w].beat > writableAt[n]
      => job[n].lease >= run[w].beat + Lease

IInv ==
  /\ TypeOK /\ StartsInv /\ LeaderInv /\ MarkerInv
  /\ PastInv /\ RenewalInv /\ LeaseInv

=============================================================================
