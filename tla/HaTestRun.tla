----------------------------- MODULE HaTestRun -----------------------------
(***************************************************************************)
(* Runs of the HA test tool on the shared database cluster.                *)
(*                                                                         *)
(* A run checks that the cluster is in its base state, asks, takes a lock  *)
(* on the observer node, starts a recorder, injects the fault of its test, *)
(* follows what happens, and then, whatever went wrong, stops the          *)
(* recorder, restores the base state and gives the lock back.  Each of     *)
(* these is a script sent over SSH, which may fail before, after or in the *)
(* middle of its effect.  The user may press Ctrl-C, and the process may   *)
(* be killed.  What was measured and the verdict are left out.             *)
(***************************************************************************)
EXTENDS Naturals, FiniteSets

CONSTANTS
  Runs,       \* executions of the tool; each takes one test
  NoRun,      \* the lock directory does not exist
  Tests,      \* the tests that are run, of AllTests
  Nodes,      \* NODES of the configuration
  Primary,    \* PRIMARY: the Leader of the base state
  VipOwner,   \* VIP_OWNER: the OpenProxy node with the VIP in the base state
  Standby,    \* STANDBY_PROXY
  H6Node      \* H6_STOP_NODE

AllTests == {"H-1", "H-2", "H-3", "H-4", "H-5", "H-6"}

ProxyNodes == {VipOwner, Standby}

\* What the configuration is checked for when it is read.
ASSUME ConfigAssumption ==
  /\ NoRun \notin Runs
  /\ Tests \subseteq AllTests
  /\ {Primary, H6Node} \cup ProxyNodes \subseteq Nodes
  /\ VipOwner # Standby
  /\ H6Node # Primary

VARIABLES
  leader,     \* the node with Patroni's leader key
  ssh,        \* can the node be reached
  patroni,    \* does Patroni run there, and PostgreSQL with it
  enabled,    \* is Patroni started at boot
  dropIn,     \* is the tool's drop-in there, which forbids systemd to restart it
  streaming,  \* is it a replica that streams
  armed,      \* its watchdog runs and nobody feeds it
  proxy,      \* does OpenProxy run there
  vip,        \* the last node that took the VIP
  lock,       \* owner of the lock directory on the observer node
  told,       \* a person has been told to look after the cluster
  test,       \* the test of each run
  pc,         \* what each run does next
  locked,     \* locals of TestRunner.run
  touched,
  down,       \* restore_cluster: nodes that were not running when it looked
  todo,       \* restore_cluster: nodes it has not come to yet
  pgpass,     \* is the run's password file on the observer node
  warned      \* the user was told to delete it

clusterVars == <<leader, ssh, patroni, enabled, dropIn, streaming, armed, proxy, vip>>
runVars == <<test, pc, locked, touched, down, todo, pgpass, warned>>
vars == <<clusterVars, lock, told, runVars>>

----------------------------------------------------------------------------
(* State *)

Trying == {"check", "confirm", "lock", "record", "inject", "follow", "revive", "back"}
Ending == {"finally", "reach", "look", "patroni", "proxies", "streaming",
           "switch", "leader", "vip", "evaluate", "release"}
Ended == {"done", "killed"}

TypeOK ==
  /\ leader \in Nodes
  /\ {ssh, patroni, enabled, dropIn, streaming, armed} \subseteq [Nodes -> BOOLEAN]
  /\ proxy \in [ProxyNodes -> BOOLEAN]
  /\ vip \in ProxyNodes
  /\ lock \in Runs \cup {NoRun}
  /\ told \in BOOLEAN
  /\ test \in [Runs -> AllTests]
  /\ pc \in [Runs -> {"idle"} \cup Trying \cup Ending \cup Ended]
  /\ {locked, touched, pgpass, warned} \subseteq [Runs -> BOOLEAN]
  /\ {down, todo} \subseteq [Runs -> SUBSET Nodes]

\* Between taking the lock and giving it back.
Busy(r) == touched[r] /\ pc[r] \notin Ended

\* Replicas stream only from a Leader that runs.
AllStreaming ==
  /\ patroni[leader] /\ ssh[leader]
  /\ \A n \in Nodes \ {leader} : ssh[n] /\ patroni[n] /\ streaming[n]

\* The items of the checklist.  The watchdog of the Primary is active because
\* it is the Leader and runs.
AtBase ==
  /\ \A n \in Nodes : ssh[n]
  /\ leader = Primary
  /\ AllStreaming
  /\ vip = VipOwner
  /\ \A n \in ProxyNodes : proxy[n]
  /\ \A n \in Nodes : patroni[n] /\ enabled[n]

Init ==
  /\ leader = Primary
  /\ ssh = [n \in Nodes |-> TRUE]
  /\ patroni = [n \in Nodes |-> TRUE]
  /\ enabled = [n \in Nodes |-> TRUE]
  /\ dropIn = [n \in Nodes |-> FALSE]
  /\ streaming = [n \in Nodes |-> n # Primary]
  /\ armed = [n \in Nodes |-> FALSE]
  /\ proxy = [n \in ProxyNodes |-> TRUE]
  /\ vip = VipOwner
  /\ lock = NoRun
  /\ told = FALSE
  /\ test \in [Runs -> Tests]
  /\ pc = [r \in Runs |-> "idle"]
  /\ locked = [r \in Runs |-> FALSE]
  /\ touched = [r \in Runs |-> FALSE]
  /\ down = [r \in Runs |-> {}]
  /\ todo = [r \in Runs |-> {}]
  /\ pgpass = [r \in Runs |-> FALSE]
  /\ warned = [r \in Runs |-> FALSE]

----------------------------------------------------------------------------
(* Patroni, the watchdog and OpenProxy: external *)

\* The key of a dead Leader runs out and a replica is promoted.
Failover(n) ==
  /\ ~patroni[leader] /\ patroni[n] /\ streaming[n]
  /\ leader' = n
  /\ streaming' = [m \in Nodes |-> FALSE]
  /\ armed' = [armed EXCEPT ![n] = FALSE]
  /\ UNCHANGED <<ssh, patroni, enabled, dropIn, proxy, vip, lock, told, runVars>>

\* A replica follows the Leader, after a rewind if it has to.
Follow(n) ==
  /\ n # leader /\ patroni[n] /\ patroni[leader] /\ ~streaming[n]
  /\ streaming' = [streaming EXCEPT ![n] = TRUE]
  /\ UNCHANGED <<leader, ssh, patroni, enabled, dropIn, armed, proxy, vip, lock,
                 told, runVars>>

\* The drop-in lies under /run and does not survive.
Reboot(n) ==
  /\ armed[n]
  /\ ssh' = [ssh EXCEPT ![n] = FALSE]
  /\ patroni' = [patroni EXCEPT ![n] = FALSE]
  /\ streaming' = [streaming EXCEPT ![n] = FALSE]
  /\ dropIn' = [dropIn EXCEPT ![n] = FALSE]
  /\ armed' = [armed EXCEPT ![n] = FALSE]
  /\ UNCHANGED <<leader, enabled, proxy, vip, lock, told, runVars>>

BootUp(n) ==
  /\ ~ssh[n]
  /\ ssh' = [ssh EXCEPT ![n] = TRUE]
  /\ patroni' = [patroni EXCEPT ![n] = enabled[n]]
  /\ UNCHANGED <<leader, enabled, dropIn, streaming, armed, proxy, vip, lock,
                 told, runVars>>

\* OpenProxy gives the VIP up when it stops; its first owner takes it back.
MoveVip ==
  /\ \E n \in ProxyNodes \ {vip} : proxy[n] /\ vip' = n /\ (proxy[vip] => n = VipOwner)
  /\ UNCHANGED <<leader, ssh, patroni, enabled, dropIn, streaming, armed, proxy,
                 lock, told, runVars>>

----------------------------------------------------------------------------
(* Scripts sent to a node.  One that is cut off ran up to some step. *)

\* Forbid the restart, disable, then kill.
KillDbStack(steps) ==
  /\ steps > 0 => ssh[Primary]
  /\ dropIn' = [dropIn EXCEPT ![Primary] = @ \/ steps >= 1]
  /\ enabled' = [enabled EXCEPT ![Primary] = @ /\ steps < 2]
  /\ patroni' = [patroni EXCEPT ![Primary] = @ /\ steps < 3]
  /\ streaming' = [streaming EXCEPT ![Primary] = @ /\ steps < 3]
  /\ armed' = [armed EXCEPT ![Primary] =
                 @ \/ (steps = 3 /\ leader = Primary /\ patroni[Primary])]
  /\ UNCHANGED <<leader, ssh, proxy, vip>>

\* Allow the restart, enable, then start.
ReviveDbStack(n, steps) ==
  /\ steps > 0 => ssh[n]
  /\ dropIn' = [dropIn EXCEPT ![n] = @ /\ steps < 1]
  /\ enabled' = [enabled EXCEPT ![n] = @ \/ steps >= 2]
  /\ patroni' = [patroni EXCEPT ![n] = @ \/ steps = 3]
  /\ armed' = [armed EXCEPT ![n] = @ /\ ~(steps = 3 /\ leader = n)]
  /\ UNCHANGED <<leader, ssh, streaming, proxy, vip>>

SetPatroni(n, on) ==
  /\ ssh[n]
  /\ patroni' = [patroni EXCEPT ![n] = on]
  /\ streaming' = [streaming EXCEPT ![n] = @ /\ on]
  /\ UNCHANGED <<leader, ssh, enabled, dropIn, armed, proxy, vip>>

SetProxy(n, on) ==
  /\ ssh[n]
  /\ proxy' = [proxy EXCEPT ![n] = on]
  /\ UNCHANGED <<leader, ssh, patroni, enabled, dropIn, streaming, armed, vip>>

\* From the Leader to the Primary of the base state.
Switchover ==
  /\ AllStreaming /\ leader # Primary
  /\ leader' = Primary
  /\ streaming' = [n \in Nodes |-> FALSE]
  /\ armed' = [armed EXCEPT ![Primary] = FALSE]
  /\ UNCHANGED <<ssh, patroni, enabled, dropIn, proxy, vip>>

----------------------------------------------------------------------------
(* TestRunner.run, up to the injection *)

Goto(r, next) == pc' = [pc EXCEPT ![r] = next]

At(r, here) == pc[r] = here

Begin(r) ==
  /\ At(r, "idle") /\ Goto(r, "check")
  /\ UNCHANGED <<clusterVars, lock, told, test, locked, touched, down, todo,
                 pgpass, warned>>

\* Another state, or a snapshot that fails, aborts the run.
CheckBaseline(r) ==
  /\ At(r, "check")
  /\ \/ AtBase /\ Goto(r, "confirm")
     \/ Goto(r, "finally")
  /\ UNCHANGED <<clusterVars, lock, told, test, locked, touched, down, todo,
                 pgpass, warned>>

Disruptive == {"H-3", "H-4", "H-5"}

ConfirmInjection(r) ==
  /\ At(r, "confirm")
  /\ \/ Goto(r, "lock")
     \/ test[r] \in Disruptive /\ Goto(r, "finally")
  /\ UNCHANGED <<clusterVars, lock, told, test, locked, touched, down, todo,
                 pgpass, warned>>

NeedsRecorder == {"H-1", "H-3", "H-4", "H-5"}

\* The lock is taken and nothing is wrong: only now the cluster is touched.
Enters(r) ==
  /\ locked' = [locked EXCEPT ![r] = TRUE]
  /\ touched' = [touched EXCEPT ![r] = TRUE]
  /\ told' = FALSE
  /\ Goto(r, IF test[r] \in NeedsRecorder THEN "record" ELSE "inject")

\* mkdir creates the lock unless it is there.
\* Mutant: mkdir -p, which is content with the directory as it is.
MayLockAlways == TRUE
MayLock == lock = NoRun

\* The run gets the lock or finds it there.  If its answer is lost the run
\* does not start and leaves the lock.
AcquireLock(r) ==
  /\ At(r, "lock")
  /\ \/ MayLock /\ lock' = r /\ Enters(r)
     \/ MayLock /\ lock' = r /\ Goto(r, "finally")
          /\ UNCHANGED <<told, locked, touched>>
     \/ Goto(r, "finally") /\ UNCHANGED <<lock, told, locked, touched>>
  /\ UNCHANGED <<clusterVars, test, down, todo, pgpass, warned>>

\* Prepare writes the password file; start starts the loops.
StartRecorder(r) ==
  /\ At(r, "record")
  /\ \/ pgpass' = [pgpass EXCEPT ![r] = TRUE] /\ Goto(r, "inject")
     \/ \E prepared \in BOOLEAN :
          pgpass' = [pgpass EXCEPT ![r] = prepared] /\ Goto(r, "finally")
  /\ UNCHANGED <<clusterVars, lock, told, test, locked, touched, down, todo, warned>>

----------------------------------------------------------------------------
(* The scenarios *)

\* A step of a scenario changes no local of the runner and no lock.
InScenario(r, tests, here) ==
  /\ At(r, here) /\ test[r] \in tests
  /\ UNCHANGED <<lock, told, test, locked, touched, down, todo, pgpass, warned>>

\* A scenario returns its outcome or raises: the finally block is next.
Leave(r) == Goto(r, "finally")

\* A script that had its effect may still be reported as failed.
Attempt(r, Script, next) ==
  \/ Script /\ (Goto(r, next) \/ Leave(r))
  \/ UNCHANGED clusterVars /\ Leave(r)

\* H-1 and H-2 only observe; so do the searches for the outcome of the others.
Observe(r) ==
  /\ InScenario(r, {"H-1", "H-2"}, "inject")
  /\ Leave(r)
  /\ UNCHANGED clusterVars

\* The time is printed before the kill: with it the script counts as done.
InjectKill(r) ==
  /\ InScenario(r, {"H-3", "H-4"}, "inject")
  /\ \E steps \in 0..3 :
       /\ KillDbStack(steps)
       /\ \/ steps >= 2 /\ Goto(r, "follow")
          \/ Leave(r)

\* Until there is a new Leader and writes succeed, or for 65 seconds.
FollowPromotion(r) ==
  /\ InScenario(r, {"H-3", "H-4"}, "follow")
  /\ Goto(r, "revive") \/ Leave(r)
  /\ UNCHANGED clusterVars

\* Waits for the node, at most 240 seconds, revives it and follows it.
ReviveOldPrimary(r) ==
  /\ InScenario(r, {"H-3"}, "revive")
  /\ \/ ~ssh[Primary] /\ UNCHANGED clusterVars
     \/ \E steps \in 0..3 : ReviveDbStack(Primary, steps)
  /\ Leave(r)

\* H-4 leaves the old Primary as it is.
CompareRows(r) ==
  /\ InScenario(r, {"H-4"}, "revive")
  /\ Leave(r)
  /\ UNCHANGED clusterVars

InjectProxyStop(r) ==
  /\ InScenario(r, {"H-5"}, "inject")
  /\ Attempt(r, SetProxy(VipOwner, FALSE), "follow")

\* Without a row through the VIP the scenario ends here.
FollowTakeover(r) ==
  /\ InScenario(r, {"H-5"}, "follow")
  /\ Goto(r, "back") \/ Leave(r)
  /\ UNCHANGED clusterVars

StartProxyAgain(r) ==
  /\ InScenario(r, {"H-5"}, "back")
  /\ Attempt(r, SetProxy(VipOwner, TRUE), "finally")

InjectPatroniStop(r) ==
  /\ InScenario(r, {"H-6"}, "inject")
  /\ Attempt(r, SetPatroni(H6Node, FALSE), "follow")

FollowStop(r) ==
  /\ InScenario(r, {"H-6"}, "follow")
  /\ Goto(r, "back") \/ Leave(r)
  /\ UNCHANGED clusterVars

StartPatroniAgain(r) ==
  /\ InScenario(r, {"H-6"}, "back")
  /\ Attempt(r, SetPatroni(H6Node, TRUE), "finally")

----------------------------------------------------------------------------
(* The finally block *)

\* recorder_close drops the result of its script and raises nothing.
CloseRaises(removed) == FALSE

\* Without the cluster touched there is nothing to stop or to restore.
StopRecording(r) ==
  /\ At(r, "finally")
  /\ IF ~touched[r]
       THEN Goto(r, "release") /\ UNCHANGED <<pgpass, warned>>
       ELSE /\ Goto(r, "reach")
            /\ IF test[r] \in NeedsRecorder
                 THEN \E removed \in BOOLEAN :
                        /\ pgpass' = [pgpass EXCEPT ![r] = @ /\ ~removed]
                        /\ warned' = [warned EXCEPT ![r] = CloseRaises(removed)]
                 ELSE UNCHANGED <<pgpass, warned>>
  /\ UNCHANGED <<clusterVars, lock, told, test, locked, touched, down, todo>>

\* A step of restore_cluster.
InRestore(r, here) ==
  /\ At(r, here)
  /\ UNCHANGED <<lock, test, locked, touched, pgpass, warned>>

\* A failure shows the commands to type and ends the restoration.
\* Mutant: it ends without them.
GivesUpSilently(r) == Goto(r, "release") /\ told' = told
GivesUp(r) == Goto(r, "release") /\ told' = TRUE

\* Goes on when the condition holds, gives up when it does not in time.
Await(r, condition, next) ==
  \/ condition /\ Goto(r, next) /\ told' = told
  \/ ~condition /\ GivesUp(r)

\* Mutant: waits without a limit.
AwaitNodesForever(r) ==
  /\ InRestore(r, "reach")
  /\ (\A n \in Nodes : ssh[n]) /\ Goto(r, "look") /\ told' = told
  /\ UNCHANGED <<clusterVars, down, todo>>
AwaitNodes(r) ==
  /\ InRestore(r, "reach")
  /\ Await(r, \A n \in Nodes : ssh[n], "look")
  /\ UNCHANGED <<clusterVars, down, todo>>

\* One query of all members for the whole loop.
LookAtMembers(r) ==
  /\ InRestore(r, "look")
  /\ Goto(r, "patroni")
  /\ down' = [down EXCEPT ![r] = {n \in Nodes : ~(ssh[n] /\ patroni[n])}]
  /\ todo' = [todo EXCEPT ![r] = Nodes]
  /\ UNCHANGED <<clusterVars, told>>

\* What the node tells of its services is asked anew.
NeedsRevival(r, n) == n \in down[r] \/ ~ssh[n] \/ ~patroni[n] \/ ~enabled[n]

RestorePatroni(r) ==
  /\ InRestore(r, "patroni") /\ down' = down
  /\ \E n \in todo[r] :
       \/ /\ ~NeedsRevival(r, n)
          /\ todo' = [todo EXCEPT ![r] = @ \ {n}]
          /\ UNCHANGED <<clusterVars, told, pc>>
       \/ /\ NeedsRevival(r, n) /\ ReviveDbStack(n, 3)
          /\ todo' = [todo EXCEPT ![r] = @ \ {n}]
          /\ UNCHANGED <<told, pc>>
       \/ /\ NeedsRevival(r, n)
          /\ \E steps \in 0..3 : ReviveDbStack(n, steps)
          /\ GivesUp(r) /\ todo' = todo

PatroniRestored(r) ==
  /\ InRestore(r, "patroni") /\ todo[r] = {}
  /\ Goto(r, "proxies")
  /\ todo' = [todo EXCEPT ![r] = ProxyNodes]
  /\ UNCHANGED <<clusterVars, told, down>>

RestoreProxies(r) ==
  /\ InRestore(r, "proxies") /\ down' = down
  /\ \E n \in todo[r] :
       \/ /\ ssh[n] /\ proxy[n]
          /\ todo' = [todo EXCEPT ![r] = @ \ {n}]
          /\ UNCHANGED <<clusterVars, told, pc>>
       \/ /\ ~(ssh[n] /\ proxy[n]) /\ SetProxy(n, TRUE)
          /\ todo' = [todo EXCEPT ![r] = @ \ {n}]
          /\ UNCHANGED <<told, pc>>
       \/ /\ ~(ssh[n] /\ proxy[n])
          /\ SetProxy(n, TRUE) \/ UNCHANGED clusterVars
          /\ GivesUp(r) /\ todo' = todo

ProxiesRestored(r) ==
  /\ InRestore(r, "proxies") /\ todo[r] = {}
  /\ Goto(r, "streaming")
  /\ UNCHANGED <<clusterVars, told, down, todo>>

AwaitStreaming(r) ==
  /\ InRestore(r, "streaming")
  /\ Await(r, AllStreaming, "switch")
  /\ UNCHANGED <<clusterVars, down, todo>>

SwitchBack(r) ==
  /\ InRestore(r, "switch")
  /\ \/ leader = Primary /\ Goto(r, "vip") /\ UNCHANGED <<clusterVars, told>>
     \/ leader # Primary /\ Switchover /\ Goto(r, "leader") /\ told' = told
     \/ leader # Primary /\ (Switchover \/ UNCHANGED clusterVars) /\ GivesUp(r)
  /\ UNCHANGED <<down, todo>>

AwaitLeader(r) ==
  /\ InRestore(r, "leader")
  /\ Await(r, leader = Primary /\ AllStreaming, "vip")
  /\ UNCHANGED <<clusterVars, down, todo>>

\* vip_holders asks who has the address on its interface.
AwaitVip(r) ==
  /\ InRestore(r, "vip")
  /\ Await(r, vip = VipOwner /\ proxy[VipOwner], "evaluate")
  /\ UNCHANGED <<clusterVars, down, todo>>

EvaluateRestore(r) ==
  /\ InRestore(r, "evaluate")
  /\ Await(r, AtBase, "release")
  /\ UNCHANGED <<clusterVars, down, todo>>

\* No node answers the query of the members.
NobodyAnswers(r) ==
  /\ \E here \in {"look", "streaming", "switch", "leader", "evaluate"} : InRestore(r, here)
  /\ GivesUp(r)
  /\ UNCHANGED <<clusterVars, down, todo>>

\* Only the run that took the lock removes it.
\* Mutant: every run does.
MayUnlockAlways(r) == TRUE
MayUnlock(r) == locked[r]

\* An unlock that fails leaves the lock for the next run to complain of.
ReleaseLock(r) ==
  /\ At(r, "release") /\ Goto(r, "done")
  /\ \/ MayUnlock(r) /\ lock' = NoRun
     \/ lock' = lock
  /\ UNCHANGED <<clusterVars, told, test, locked, touched, down, todo, pgpass, warned>>

----------------------------------------------------------------------------
(* Interruptions, and people *)

\* Ctrl-C is no Exception, but the finally block runs.
Interrupt(r) ==
  /\ pc[r] \in Trying /\ Goto(r, "finally")
  /\ UNCHANGED <<clusterVars, lock, told, test, locked, touched, down, todo,
                 pgpass, warned>>

\* The process is killed, or a Ctrl-C hits the finally block.
Kill(r) ==
  /\ pc[r] \in Trying \cup Ending /\ Goto(r, "killed")
  /\ UNCHANGED <<clusterVars, lock, told, test, locked, touched, down, todo,
                 pgpass, warned>>

\* ha-test unlock, after a run that was cut off, while nobody else is testing.
Unlock ==
  /\ lock # NoRun /\ \A r \in Runs : ~Busy(r)
  /\ lock' = NoRun /\ told' = TRUE
  /\ UNCHANGED <<clusterVars, runVars>>

\* A person brings the base state back.
Repair ==
  /\ told /\ \A r \in Runs : ~Busy(r)
  /\ told' = FALSE
  /\ leader' = Primary
  /\ ssh' = [n \in Nodes |-> TRUE]
  /\ patroni' = [n \in Nodes |-> TRUE]
  /\ enabled' = [n \in Nodes |-> TRUE]
  /\ streaming' = [n \in Nodes |-> n # Primary]
  /\ armed' = [n \in Nodes |-> FALSE]
  /\ proxy' = [n \in ProxyNodes |-> TRUE]
  /\ vip' = VipOwner
  /\ UNCHANGED <<dropIn, lock, runVars>>

----------------------------------------------------------------------------

Scenario(r) ==
  \/ Observe(r) \/ InjectKill(r) \/ FollowPromotion(r) \/ ReviveOldPrimary(r)
  \/ CompareRows(r)
  \/ InjectProxyStop(r) \/ FollowTakeover(r) \/ StartProxyAgain(r)
  \/ InjectPatroniStop(r) \/ FollowStop(r) \/ StartPatroniAgain(r)

Restore(r) ==
  \/ AwaitNodes(r) \/ LookAtMembers(r) \/ RestorePatroni(r) \/ PatroniRestored(r)
  \/ RestoreProxies(r) \/ ProxiesRestored(r) \/ AwaitStreaming(r) \/ SwitchBack(r)
  \/ AwaitLeader(r) \/ AwaitVip(r) \/ EvaluateRestore(r) \/ NobodyAnswers(r)

RunStep(r) ==
  \/ CheckBaseline(r) \/ ConfirmInjection(r) \/ AcquireLock(r) \/ StartRecorder(r)
  \/ Scenario(r) \/ StopRecording(r) \/ Restore(r) \/ ReleaseLock(r)

Next ==
  \/ \E n \in Nodes : Failover(n) \/ Follow(n) \/ Reboot(n) \/ BootUp(n)
  \/ MoveVip
  \/ \E r \in Runs : Begin(r) \/ RunStep(r) \/ Interrupt(r) \/ Kill(r)
  \/ Unlock \/ Repair

Spec == Init /\ [][Next]_vars

\* A run goes on: scripts and waits have time limits, the user answers.
FairSpec == Spec /\ \A r \in Runs : WF_vars(RunStep(r))

----------------------------------------------------------------------------
(* Properties *)

\* Two tests never have the cluster at the same time, whatever scripts fail
\* or processes are killed, as long as the lock is removed by hand only while
\* nobody is testing.
Exclusive == \A r, s \in Runs : Busy(r) /\ Busy(s) => r = s

\* While nobody has the lock, the cluster is in its base state or a person
\* has been told: no test leaves a fault behind silently.
NoSilentFault == lock = NoRun => AtBase \/ told

\* Every run ends, even when a node never comes back and nothing recovers.
EveryRunEnds == \A r \in Runs : At(r, "check") ~> pc[r] \in Ended

\* The README: a test does not start when one item of the base state differs.
\* Nobody is to blame for killing a process here.
StartsAtBase ==
  [][\A r \in Runs :
       touched'[r] /\ ~touched[r] /\ (\A s \in Runs : ~At(s, "killed")) => AtBase]_vars

\* A comment of the runner: when the password file may have been left, the
\* user is told to delete it.
PasswordFileKnown ==
  \A r \in Runs : At(r, "done") /\ pgpass[r] => warned[r]

\* The README: the next test starts under the same conditions.  After a
\* restoration that finds nothing wrong, systemd may restart Patroni again.
NextStartsAlike ==
  [][\A r \in Runs :
       At(r, "evaluate") /\ pc'[r] = "release" /\ ~told' => \A n \in Nodes : ~dropIn[n]]_vars

=============================================================================
