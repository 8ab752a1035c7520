----------------------------- MODULE Simulation -----------------------------
(* A test in --simulate mode: the simulated cluster of                       *)
(* ha-test/hatest/simulated.py, whose script makes changes at set times, and  *)
(* the loops of scenarios.py and restore_cluster that poll it on a fake       *)
(* clock.  Time is in half seconds; a step is one turn of a loop.             *)
(* SimulatedCluster._advance makes the changes that are due before anything   *)
(* is observed; here Sleep makes them, since nothing else moves the clock.    *)
EXTENDS Integers, Sequences, FiniteSets, FiniteSetsExt, SequencesExt

CONSTANTS Members,      \* Config.node_names
          BasePrimary,  \* Config.primary
          Scripts,      \* for each test, the scripts (SimScript) to try
          Configs       \* the configurations to try

SimTests == {"H-1", "H-2", "H-3", "H-4", "H-5", "H-6"}

ScriptType ==
  [lag_within_limit : BOOLEAN, reboot_after : Nat, reboot_duration : Nat,
   promote_after : Nat, write_resume_after : Nat, rejoin_after_revive : Nat,
   patroni_stop_after : Nat, patroni_start_after : Nat, vip_move_after : Nat,
   vip_write_gap : Nat, drop_acked : Nat, primary_queried : BOOLEAN,
   primary_busy : BOOLEAN, write_reaches_primary : BOOLEAN]

\* What config.py accepts: two proxy nodes, and a replica for H-6; and a replica
\* to promote, as SimScript.on_kill picks one.
ConfigType ==
  {c \in [owner : Members, standby : Members, h6 : Members, promoteTo : Members] :
     c.owner # c.standby /\ BasePrimary \notin {c.h6, c.promoteTo}}

ASSUME SimAssumption ==
  /\ BasePrimary \in Members
  /\ DOMAIN Scripts \subseteq SimTests
  /\ \A t \in DOMAIN Scripts : Scripts[t] \subseteq ScriptType
  /\ Configs \subseteq ConfigType

VARIABLES
  simTest,   \* the test
  script,    \* SimScript
  conf,      \* Config: VIP owner, standby, H-6's node; and SimScript.promote_to
  node,      \* SimulatedCluster.nodes
  events,    \* SimScript._events, in order of insertion
  done,      \* SimScript._done
  clock,     \* FakeClock
  since,     \* when the loop at hand began
  injected,  \* SimScript._injection_at
  simPc,     \* the loop or call at hand
  seen,      \* FailoverScenario: the new Leader; NodeStatusScenario: the stop
  outcome,   \* of the scenario: "Pass", "Fail" or "NT"
  restored   \* did the restoration end in the base state

simVars == <<simTest, script, conf, node, events, done, clock, since, injected, simPc,
             seen, outcome, restored>>

Seconds(n) == 2 * n
PROMOTE_LIMIT    == Seconds(45)
FOLLOW_MARGIN    == Seconds(20)
REBOOT_WAIT      == Seconds(240)
REJOIN_LIMIT     == Seconds(180)
VIP_WRITE_LIMIT  == Seconds(5)
VIP_FOLLOW_LIMIT == Seconds(30)
H6_LIMIT         == Seconds(60)
HEALTHY_WAIT     == Seconds(180)
VIP_RETURN_WAIT  == Seconds(30)
ROLE_LOG         == Seconds(47)  \* the last entry of _role_log after the injection

\* SimScript as it is constructed.  A lag, queries and a load are within their
\* limits or not.
DefaultScript ==
  [lag_within_limit |-> TRUE, reboot_after |-> Seconds(18), reboot_duration |-> Seconds(45),
   promote_after |-> Seconds(30), write_resume_after |-> Seconds(33),
   rejoin_after_revive |-> Seconds(15), patroni_stop_after |-> 3,
   patroni_start_after |-> Seconds(4), vip_move_after |-> Seconds(2), vip_write_gap |-> 5,
   drop_acked |-> 0, primary_queried |-> FALSE, primary_busy |-> FALSE,
   write_reaches_primary |-> TRUE]

Old == BasePrimary
Replicas == Members \ {BasePrimary}
Waited == clock - since

----------------------------------------------------------------------------
(* The simulated cluster *)

FreshNode(n) ==
  [role |-> IF n = BasePrimary THEN "primary" ELSE "replica",
   state |-> IF n = BasePrimary THEN "running" ELSE "streaming",
   service |-> "active", enabled |-> TRUE, proxy |-> "active",
   watchdog |-> n = BasePrimary, vip |-> n = conf'.owner,
   reachable |-> TRUE, answers |-> TRUE]

SetRole(ns, n, role, state) ==
  [ns EXCEPT ![n].role = role, ![n].state = state, ![n].watchdog = (role = "primary")]

GiveVip(ns, to) == [n \in Members |-> [ns[n] EXCEPT !.vip = (n = to)]]

\* One scheduled change.
Change(ns, e) ==
  CASE e.change = "reboot start" -> [ns EXCEPT ![e.at].reachable = FALSE]
    [] e.change = "reboot end"   -> [ns EXCEPT ![e.at].reachable = TRUE,
                                               ![e.at].service = "inactive",
                                               ![e.at].watchdog = FALSE]
    [] e.change = "promote"      -> SetRole(ns, e.at, "primary", "running")
    [] e.change = "streaming"    -> SetRole(ns, e.at, "replica", "streaming")
    [] e.change = "stopped"      -> [ns EXCEPT ![e.at].answers = FALSE,
                                               ![e.at].state = "stopped"]
    [] e.change = "vip"          -> GiveVip(ns, e.at)

After(delay, change, n) == [due |-> clock + delay, change |-> change, at |-> n]

\* SimScript.apply: the changes that are due, in order of insertion.
Applied(due) ==
  MapThenFoldSet(LAMBDA e, ns : Change(ns, e), node, LAMBDA i : events[i],
                 LAMBDA s : Max(s), due)

\* FakeClock.sleep, and the changes up to then.
Sleep(d) ==
  LET now == clock + d
      due == {i \in DOMAIN events \ done : events[i].due <= now}
  IN /\ clock' = now
     /\ node' = Applied(due)
     /\ done' = done \cup due
     /\ events' = events

\* Patroni's answer, as Member reads it.
Answering(n) == node[n].reachable /\ node[n].answers
IsLeader(n) == Answering(n) /\ node[n].role = "primary"
IsStreaming(n) == Answering(n) /\ node[n].role = "replica" /\ node[n].state = "streaming"
IsRunning(n) == Answering(n) /\ node[n].state \in {"running", "streaming"}
Leaders == {n \in Members : IsLeader(n)}
VipHolders == {n \in {conf.owner, conf.standby} : node[n].reachable /\ node[n].vip}

\* SimScript._probe_log: an attempt each half second from two seconds before
\* the injection to three after writing resumes; a failed one takes a second.
ResumeAt == injected + (IF simTest = "H-5" THEN script.vip_write_gap
                                           ELSE script.write_resume_after)
WriteOk(t) == t < injected \/ t >= ResumeAt

\* Scenario._write_state: the attempts from a time on that have ended.
Recent(from) == {t \in from .. ResumeAt + 5 : IF WriteOk(t) THEN t < clock ELSE t + 2 <= clock}
Writing(from) == Recent(from) # {} /\ WriteOk(Max(Recent(from)))
WriteResumed(from) == Writing(from) /\ \E t \in Recent(from) : ~WriteOk(t)

\* Mutant: the stop is measured from the injection.
StoppedSinceInjection == ResumeAt - injected

\* measure.write_stop on this log: the last success is half a second before
\* the injection.
WriteStopped == ResumeAt - injected + 1

\* baseline.evaluate.
SimAtBase ==
  /\ Leaders = {BasePrimary} /\ node[BasePrimary].watchdog
  /\ \A n \in Replicas : IsStreaming(n)
  /\ {n \in Members : node[n].reachable /\ node[n].vip} = {conf.owner}
  /\ \A n \in Members : node[n].reachable /\ node[n].service = "active" /\ node[n].enabled
  /\ \A n \in {conf.owner, conf.standby} : node[n].proxy = "active"

----------------------------------------------------------------------------
(* Beginning *)

SimInit ==
  /\ simTest = "none" /\ script = <<>> /\ conf = <<>> /\ node = <<>> /\ events = <<>>
  /\ done = {} /\ clock = 0 /\ since = 0 /\ injected = 0 /\ simPc = "choose" /\ seen = FALSE
  /\ outcome = "NT" /\ restored = FALSE

ChooseScript ==
  /\ simPc = "choose"
  /\ simTest' \in DOMAIN Scripts
  /\ script' \in Scripts[simTest']
  /\ conf' \in Configs
  /\ node' = [n \in Members |-> FreshNode(n)]
  /\ simPc' = "inject"
  /\ UNCHANGED <<events, done, clock, since, injected, seen, outcome, restored>>

\* The loop or call that follows, which begins now.
Goto(pc) == simPc' = pc /\ since' = clock'

\* The criteria of the scenario are evaluated, and the restoration begins.
Judge(passed) == outcome' = (IF passed THEN "Pass" ELSE "Fail") /\ Goto("ssh")

Still == UNCHANGED <<clock, node, events, done>>
Same == UNCHANGED <<simTest, script, conf>>

----------------------------------------------------------------------------
(* H-1 and H-2 change nothing *)

\* replica_visibility: the row is seen one lag later.
SeenInTime == script.lag_within_limit

\* replication: the rows of pg_stat_replication.
ReplicationRows == {n \in Members : node[n].role = "replica" /\ node[n].state = "streaming"}

H1Holds == SeenInTime /\ Cardinality(ReplicationRows) = Cardinality(Replicas)

\* activity, cpu, and the row of add_document.
SearchedReplicasOnly == ~script.primary_queried
PrimaryIdle == ~script.primary_busy
DocumentOnPrimary == script.write_reaches_primary

ReadOnlyTest ==
  /\ simPc = "inject" /\ simTest \in {"H-1", "H-2"}
  /\ Still
  /\ Judge(IF simTest = "H-1" THEN H1Holds
           ELSE SearchedReplicasOnly /\ PrimaryIdle /\ DocumentOnPrimary)
  /\ UNCHANGED <<injected, seen, restored>> /\ Same

----------------------------------------------------------------------------
(* H-3 and H-4: on_kill, follow, on_revive, rejoin *)

Kill ==
  /\ simPc = "inject" /\ simTest \in {"H-3", "H-4"}
  /\ node' = [node EXCEPT ![Old].answers = FALSE, ![Old].state = "stopped",
                          ![Old].service = "failed", ![Old].enabled = FALSE,
                          ![Old].watchdog = TRUE]
  /\ events' = <<After(script.reboot_after, "reboot start", Old),
                 After(script.reboot_after + script.reboot_duration, "reboot end", Old),
                 After(script.promote_after, "promote", conf.promoteTo)>>
  /\ injected' = clock /\ clock' = clock /\ Goto("follow")
  /\ UNCHANGED <<done, seen, outcome, restored>> /\ Same

\* H-4 ends here: without a new Leader it cannot be judged.
FollowEnds ==
  /\ Still
  /\ IF simTest = "H-3" THEN Goto("wait ssh") /\ UNCHANGED outcome
     ELSE IF seen' THEN Judge(script.drop_acked = 0)
     ELSE Goto("ssh") /\ UNCHANGED outcome

FollowKill ==
  /\ simPc = "follow"
  /\ IF Waited >= PROMOTE_LIMIT + FOLLOW_MARGIN
       THEN UNCHANGED seen /\ FollowEnds
       ELSE /\ seen' = (seen \/ Leaders \ {Old} # {})
            /\ IF seen' /\ WriteResumed(injected)
                 THEN FollowEnds
                 ELSE Sleep(Seconds(2)) /\ UNCHANGED <<since, simPc, outcome>>
  /\ UNCHANGED <<injected, restored>> /\ Same

WaitSsh ==
  /\ simPc = "wait ssh"
  /\ IF node[Old].reachable THEN Still /\ Goto("revive")
     ELSE IF Waited > REBOOT_WAIT THEN Still /\ Goto("ssh")
     ELSE Sleep(Seconds(3)) /\ UNCHANGED <<since, simPc>>
  /\ UNCHANGED <<injected, seen, outcome, restored>> /\ Same

Revived(ns, n) ==
  [ns EXCEPT ![n].service = "active", ![n].enabled = TRUE, ![n].answers = TRUE,
             ![n].role = "replica", ![n].state = "starting"]

Revive ==
  /\ simPc = "revive"
  /\ node' = Revived(node, Old)
  /\ events' = Append(events, After(script.rejoin_after_revive, "streaming", Old))
  /\ clock' = clock /\ Goto("rejoin")
  /\ UNCHANGED <<done, injected, seen, outcome, restored>> /\ Same

\* _role_log has an entry of the new Leader: it ends 47 seconds after the
\* injection, whenever that was.
PromotionLogged == script.promote_after <= ROLE_LOG

H3Holds(rejoined) ==
  /\ PromotionLogged /\ seen
  /\ WriteStopped <= PROMOTE_LIMIT
  /\ rejoined

FollowRejoin ==
  /\ simPc = "rejoin"
  /\ IF Waited < REJOIN_LIMIT /\ ~IsStreaming(Old)
       THEN Sleep(Seconds(2)) /\ UNCHANGED <<since, simPc, outcome>>
       ELSE Still /\ Judge(H3Holds(Waited < REJOIN_LIMIT))
  /\ UNCHANGED <<injected, seen, restored>> /\ Same

----------------------------------------------------------------------------
(* H-5: OpenProxy stops, and starts again *)

StopProxy ==
  /\ simPc = "inject" /\ simTest = "H-5"
  /\ node' = [node EXCEPT ![conf.owner].proxy = "inactive"]
  /\ events' = Append(events, After(script.vip_move_after, "vip", conf.standby))
  /\ injected' = clock /\ clock' = clock /\ Goto("takeover")
  /\ UNCHANGED <<done, seen, outcome, restored>> /\ Same

\* _follow_vip
VipFollowed(target) == Waited >= VIP_FOLLOW_LIMIT \/ (VipHolders = {target} /\ Writing(since))

FollowTakeover ==
  /\ simPc = "takeover"
  /\ IF ~VipFollowed(conf.standby)
       THEN Sleep(Seconds(1)) /\ UNCHANGED <<since, simPc>>
       ELSE /\ node' = [node EXCEPT ![conf.owner].proxy = "active"]
            /\ events' = Append(events, After(script.vip_move_after, "vip", conf.owner))
            /\ clock' = clock /\ Goto("return") /\ UNCHANGED done
  /\ UNCHANGED <<injected, seen, outcome, restored>> /\ Same

\* Both VIP watches report a move whatever the VIP has done: SimScript.vip_move
\* finds the event that the injection has scheduled.
FollowReturn ==
  /\ simPc = "return"
  /\ IF ~VipFollowed(conf.owner)
       THEN Sleep(Seconds(1)) /\ UNCHANGED <<since, simPc, outcome>>
       ELSE Sleep(Seconds(3)) /\ Judge(WriteStopped <= VIP_WRITE_LIMIT)
  /\ UNCHANGED <<injected, seen, restored>> /\ Same

----------------------------------------------------------------------------
(* H-6: Patroni of a replica stops, and starts again *)

StopPatroni ==
  /\ simPc = "inject" /\ simTest = "H-6"
  /\ node' = [node EXCEPT ![conf.h6].service = "inactive"]
  /\ events' = Append(events, After(script.patroni_stop_after, "stopped", conf.h6))
  /\ clock' = clock /\ Goto("stopping")
  /\ UNCHANGED <<done, injected, seen, outcome, restored>> /\ Same

FollowStop ==
  /\ simPc = "stopping"
  /\ IF Waited < H6_LIMIT /\ IsRunning(conf.h6)
       THEN Sleep(1) /\ UNCHANGED <<since, simPc, seen>>
       ELSE /\ seen' = (Waited < H6_LIMIT)
            /\ node' = [node EXCEPT ![conf.h6].service = "active", ![conf.h6].answers = TRUE,
                                    ![conf.h6].state = "starting"]
            /\ events' = Append(events, After(script.patroni_start_after, "streaming", conf.h6))
            /\ clock' = clock /\ Goto("starting") /\ UNCHANGED done
  /\ UNCHANGED <<injected, outcome, restored>> /\ Same

FollowStart ==
  /\ simPc = "starting"
  /\ IF Waited < H6_LIMIT /\ ~IsStreaming(conf.h6)
       THEN Sleep(1) /\ UNCHANGED <<since, simPc, outcome>>
       ELSE Still /\ Judge(seen /\ Waited < H6_LIMIT)
  /\ UNCHANGED <<injected, seen, restored>> /\ Same

----------------------------------------------------------------------------
(* restore_cluster *)

GiveUp == Still /\ Goto("over") /\ restored' = FALSE

\* At most one node reboots, so the order of the nodes makes no difference.
AwaitSsh ==
  /\ simPc = "ssh"
  /\ IF \A n \in Members : node[n].reachable
       THEN Still /\ Goto("services") /\ UNCHANGED restored
     ELSE IF Waited > REBOOT_WAIT THEN GiveUp
     ELSE Sleep(Seconds(3)) /\ UNCHANGED <<since, simPc, restored>>
  /\ UNCHANGED <<injected, seen, outcome>> /\ Same

Down(n) ==
  \/ ~Answering(n) \/ node[n].state = "stopped"
  \/ node[n].service # "active" \/ ~node[n].enabled

\* Everything is asked and started at one time of the fake clock.
RestoreServices ==
  /\ simPc = "services"
  /\ LET down == {n \in Members : Down(n)}
         off == {n \in {conf.owner, conf.standby} : node[n].proxy # "active"}
         revived == FoldLeft(Revived, node, SetToSeq(down))
         rejoin == [i \in 1 .. Cardinality(down) |->
                      After(script.rejoin_after_revive, "streaming", SetToSeq(down)[i])]
     IN /\ node' = [n \in Members |-> IF n \in off THEN [revived[n] EXCEPT !.proxy = "active"]
                                      ELSE revived[n]]
        /\ events' = events \o rejoin
             \o [i \in 1 .. Cardinality(off) |-> After(script.vip_move_after, "vip", conf.owner)]
  /\ clock' = clock /\ Goto("healthy")
  /\ UNCHANGED <<done, injected, seen, outcome, restored>> /\ Same

\* Mutant: a Leader is enough to go on.
HasLeader == Cardinality(Leaders) = 1

SimAllStreaming ==
  /\ Cardinality(Leaders) = 1
  /\ \A n \in Members \ Leaders : IsStreaming(n)

\* The simulated switchover takes no time, so the wait after it ends at once.
SwitchedBack ==
  LET leader == CHOOSE n \in Leaders : TRUE IN
  IF leader = BasePrimary THEN node
  ELSE SetRole(SetRole(node, leader, "replica", "streaming"), BasePrimary, "primary", "running")

AwaitHealthy ==
  /\ simPc = "healthy"
  /\ IF SimAllStreaming
       THEN /\ node' = SwitchedBack
            /\ UNCHANGED <<clock, events, done, restored>> /\ Goto("vip")
     ELSE IF Waited >= HEALTHY_WAIT THEN GiveUp
     ELSE Sleep(Seconds(2)) /\ UNCHANGED <<since, simPc, restored>>
  /\ UNCHANGED <<injected, seen, outcome>> /\ Same

AwaitVip ==
  /\ simPc = "vip"
  /\ IF VipHolders = {conf.owner}
       THEN Still /\ Goto("over") /\ restored' = SimAtBase
     ELSE IF Waited >= VIP_RETURN_WAIT THEN GiveUp
     ELSE Sleep(Seconds(2)) /\ UNCHANGED <<since, simPc, restored>>
  /\ UNCHANGED <<injected, seen, outcome>> /\ Same

SimNext ==
  \/ ChooseScript \/ ReadOnlyTest
  \/ Kill \/ FollowKill \/ WaitSsh \/ Revive \/ FollowRejoin
  \/ StopProxy \/ FollowTakeover \/ FollowReturn
  \/ StopPatroni \/ FollowStop \/ FollowStart
  \/ AwaitSsh \/ RestoreServices \/ AwaitHealthy \/ AwaitVip

SimSpec == SimInit /\ [][SimNext]_simVars

----------------------------------------------------------------------------
(* Property *)

\* A loop that looks every two seconds looks for the last time before its
\* limit, and notices a change with its first look from then on.
LastLook(limit) == ((limit - 1) \div Seconds(2)) * Seconds(2)
NextLook(t) == LastLook(t) + Seconds(2)

\* When H-3 stops following: it has seen a Leader, and writing.
FollowEnd ==
  NextLook(Max({script.promote_after, script.write_resume_after + 1}))

\* The times within which each test passes.
WithinLimits ==
  CASE simTest = "H-1" -> script.lag_within_limit
    [] simTest = "H-2" -> ~script.primary_queried /\ ~script.primary_busy
                            /\ script.write_reaches_primary
    [] simTest = "H-3" -> /\ script.write_resume_after < PROMOTE_LIMIT
                          /\ script.promote_after <= ROLE_LOG
                          /\ script.reboot_after + script.reboot_duration
                               <= FollowEnd + REBOOT_WAIT + Seconds(3)
                          /\ script.rejoin_after_revive <= LastLook(REJOIN_LIMIT)
    [] simTest = "H-4" -> /\ script.drop_acked = 0
                          /\ script.promote_after <= LastLook(PROMOTE_LIMIT + FOLLOW_MARGIN)
    [] simTest = "H-5" -> script.vip_write_gap < VIP_WRITE_LIMIT
    [] simTest = "H-6" -> /\ script.patroni_stop_after < H6_LIMIT
                          /\ script.patroni_start_after < H6_LIMIT

\* No change is later than the waits for it.
WithinWaits ==
  /\ simTest \in {"H-3", "H-4"} =>
       /\ script.reboot_after < script.promote_after
       /\ script.promote_after <= PROMOTE_LIMIT + FOLLOW_MARGIN
       /\ script.reboot_duration <= REBOOT_WAIT
  /\ simTest = "H-3" => script.rejoin_after_revive <= REJOIN_LIMIT + HEALTHY_WAIT
  /\ simTest = "H-4" => script.rejoin_after_revive <= HEALTHY_WAIT
  /\ simTest = "H-5" => script.vip_move_after <= VIP_FOLLOW_LIMIT
  /\ simTest = "H-6" => /\ script.patroni_stop_after < H6_LIMIT
                        /\ script.patroni_start_after <= H6_LIMIT + HEALTHY_WAIT

\* A comment of simulated.py: the default script passes every test.  More than
\* that, a test passes in every configuration exactly when its script keeps the
\* limits of the test procedure, and when no change comes later than the waits
\* for it, the cluster ends in its base state with no change still to come.
ScriptDecides ==
  simPc = "over" =>
    /\ outcome = "Pass" <=> WithinLimits
    /\ WithinWaits => restored /\ done = DOMAIN events

=============================================================================
