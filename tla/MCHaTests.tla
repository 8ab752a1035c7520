----------------------------- MODULE MCHaTests -----------------------------
(* What goes on inside a run of the HA test tool, for TLC.  A behaviour      *)
(* shows one of: a run of the tool as a whole (HaTestRun), the client of H-2  *)
(* (ReadLoad), the measurement of H-3 and H-4 (WriteRecord), or a test in     *)
(* --simulate mode (Simulation).                                             *)
EXTENDS ReadLoad, WriteRecord, Simulation

CONSTANTS r1, Runs, NoRun, Tests, Nodes, Primary, VipOwner, Standby, H6Node

VARIABLES leader, ssh, patroni, enabled, dropIn, streaming, armed, proxy, vip, lock,
          told, test, pc, locked, touched, down, todo, pgpass, warned, part

H == INSTANCE HaTestRun

runOnly == <<leader, ssh, patroni, enabled, dropIn, streaming, armed, proxy, vip, lock,
             told, test, pc, locked, touched, down, todo, pgpass, warned>>

InitTests ==
  /\ part \in {"run", "load", "record", "simulation"}
  /\ H!Init /\ LoadInit /\ RecInit /\ SimInit
  /\ part # "record" => healthy
  /\ part # "run" => \A r \in Runs : test[r] = "H-1"

RunPart(step) ==
  /\ part = "run" /\ step
  /\ UNCHANGED <<part, loadVars, recVars, simVars>>

NextTests ==
  \/ part = "run" /\ H!Next /\ UNCHANGED <<part, loadVars, recVars, simVars>>
  \/ part = "load" /\ LoadNext /\ UNCHANGED <<part, runOnly, recVars, simVars>>
  \/ part = "record" /\ RecNext /\ UNCHANGED <<part, runOnly, loadVars, simVars>>
  \/ part = "simulation" /\ SimNext /\ UNCHANGED <<part, runOnly, loadVars, recVars>>

testsVars == <<part, runOnly, loadVars, recVars, simVars>>

TestsSpec ==
  /\ InitTests /\ [][NextTests]_testsVars
  /\ \A r \in Runs : WF_testsVars(RunPart(H!RunStep(r)))

\* Every run of the tool ends, even when a node never comes back and nothing
\* recovers.
EveryRunEnds == H!EveryRunEnds

----------------------------------------------------------------------------
(* Scripts: the default and values around every limit *)

MCScripts ==
  [t \in {"H-1", "H-2", "H-3", "H-4", "H-5", "H-6"} |->
     CASE t = "H-1" -> {[DefaultScript EXCEPT !.lag_within_limit = b] : b \in BOOLEAN}
       [] t = "H-2" -> {[DefaultScript EXCEPT !.primary_queried = q, !.primary_busy = c,
                                        !.write_reaches_primary = w] :
                          q, c, w \in BOOLEAN}
       [] t = "H-3" -> {[DefaultScript EXCEPT !.reboot_after = a, !.reboot_duration = b,
                                        !.promote_after = p, !.write_resume_after = w,
                                        !.rejoin_after_revive = r] :
                          a \in {36, 100}, b \in {90, 518, 519}, p \in {60, 94, 95, 130},
                          w \in {66, 89, 90}, r \in {30, 356, 357, 720}}
       [] t = "H-4" -> {[DefaultScript EXCEPT !.reboot_after = a, !.reboot_duration = b,
                                        !.promote_after = p, !.write_resume_after = w,
                                        !.drop_acked = d, !.rejoin_after_revive = r] :
                          a \in {36, 100}, b \in {90, 560}, p \in {60, 128, 129},
                          w \in {66, 110}, d \in {0, 1}, r \in {30, 360}}
       [] t = "H-5" -> {[DefaultScript EXCEPT !.vip_move_after = m, !.vip_write_gap = g] :
                          m \in {4, 20, 60, 70}, g \in {5, 9, 10, 30}}
       [] t = "H-6" -> {[DefaultScript EXCEPT !.patroni_stop_after = m, !.patroni_start_after = g] :
                          m \in {3, 119, 120, 140}, g \in {8, 119, 120, 480}}]

\* The configuration of cluster.conf, and two that put the VIP and H-6 elsewhere.
MCConfigs ==
  {[owner |-> "db2", standby |-> "db3", h6 |-> "db3", promoteTo |-> "db2"],
   [owner |-> "db1", standby |-> "db2", h6 |-> "db2", promoteTo |-> "db3"],
   [owner |-> "db3", standby |-> "db1", h6 |-> "db2", promoteTo |-> "db2"]}

=============================================================================
