--------------------------- MODULE HaTestRunProofs ---------------------------
(* Proofs about HaTestRun, for any nodes, runs and tests. *)
EXTENDS HaTestRunInv, TLAPS

\* TypeOK in two parts: the cluster, and the runs with their lock.
ClusterOK ==
  /\ leader \in Nodes
  /\ ssh \in [Nodes -> BOOLEAN]
  /\ patroni \in [Nodes -> BOOLEAN]
  /\ enabled \in [Nodes -> BOOLEAN]
  /\ dropIn \in [Nodes -> BOOLEAN]
  /\ streaming \in [Nodes -> BOOLEAN]
  /\ armed \in [Nodes -> BOOLEAN]
  /\ proxy \in [ProxyNodes -> BOOLEAN]
  /\ vip \in ProxyNodes

Places == {"idle"} \cup Trying \cup Ending \cup Ended

LocalsOK ==
  /\ test \in [Runs -> AllTests]
  /\ locked \in [Runs -> BOOLEAN]
  /\ touched \in [Runs -> BOOLEAN]
  /\ pgpass \in [Runs -> BOOLEAN]
  /\ warned \in [Runs -> BOOLEAN]
  /\ down \in [Runs -> SUBSET Nodes]
  /\ todo \in [Runs -> SUBSET Nodes]

RunsOK ==
  /\ lock \in Runs \cup {NoRun}
  /\ told \in BOOLEAN
  /\ pc \in [Runs -> Places]
  /\ LocalsOK

\* Where a run may be that has touched the cluster and goes on.
Active == (Trying \cup Ending) \ {"check", "confirm", "lock"}

LEMMA TypeOKParts == TypeOK <=> ClusterOK /\ RunsOK
  BY DEF TypeOK, ClusterOK, RunsOK, LocalsOK, Places

LEMMA TypeOKPartsNext == TypeOK' <=> ClusterOK' /\ RunsOK'
  BY DEF TypeOK, ClusterOK, RunsOK, LocalsOK, Places

\* The nodes that tests act on are nodes of the cluster.
LEMMA Members ==
  /\ Primary \in Nodes /\ H6Node \in Nodes /\ H6Node # Primary
  /\ VipOwner \in ProxyNodes /\ ProxyNodes \subseteq Nodes
  /\ NoRun \notin Runs
  BY ConfigAssumption DEF ProxyNodes

----------------------------------------------------------------------------
(* What scripts and the cluster itself do to the cluster *)

\* The steps that scripts may take, in some tests or in the restoration.
ScriptRan ==
  \/ \E steps \in 0..3 : KillDbStack(steps)
  \/ \E n \in Nodes, steps \in 0..3 : ReviveDbStack(n, steps)
  \/ \E on \in BOOLEAN : SetPatroni(H6Node, on)
  \/ \E n \in Nodes, on \in BOOLEAN : SetProxy(n, on)
  \/ Switchover
  \/ UNCHANGED clusterVars

\* No script disturbs the watchdog invariant.
LEMMA Scripts ==
  ASSUME ClusterOK, WatchdogInv, ScriptRan
  PROVE  ClusterOK' /\ WatchdogInv'
<1>1. CASE \E steps \in 0..3 : KillDbStack(steps)
  BY <1>1, Members, SMTT(30) DEF KillDbStack, ClusterOK, WatchdogInv
<1>2. CASE \E n \in Nodes, steps \in 0..3 : ReviveDbStack(n, steps)
  BY <1>2, Members, SMTT(30) DEF ReviveDbStack, ClusterOK, WatchdogInv
<1>3. CASE \E on \in BOOLEAN : SetPatroni(H6Node, on)
  BY <1>3, Members, SMTT(30) DEF SetPatroni, ClusterOK, WatchdogInv
<1>4. CASE \E n \in Nodes, on \in BOOLEAN : SetProxy(n, on)
  <2>1. PICK n \in Nodes, on \in BOOLEAN : SetProxy(n, on)
    BY <1>4
  <2>2. proxy' \in [ProxyNodes -> BOOLEAN]
    BY <2>1 DEF SetProxy, ClusterOK
  <2> QED BY <2>1, <2>2 DEF SetProxy, ClusterOK, WatchdogInv
<1>5. CASE Switchover
  BY <1>5, Members, SMTT(30) DEF Switchover, ClusterOK, WatchdogInv
<1>6. CASE UNCHANGED clusterVars
  BY <1>6 DEF clusterVars, ClusterOK, WatchdogInv
<1> QED BY <1>1, <1>2, <1>3, <1>4, <1>5, <1>6 DEF ScriptRan

\* Nor do Patroni, the watchdog and OpenProxy; and they rest in the base state.
LEMMA Environment ==
  ASSUME ClusterOK, WatchdogInv,
         \/ \E n \in Nodes : Failover(n) \/ Follow(n) \/ Reboot(n) \/ BootUp(n)
         \/ MoveVip
  PROVE  ClusterOK' /\ WatchdogInv' /\ ~AtBase /\ UNCHANGED <<lock, told, runVars>>
<1>1. CASE \E n \in Nodes : Failover(n)
  BY <1>1, SMTT(30) DEF Failover, ClusterOK, WatchdogInv, AtBase, AllStreaming
<1>2. CASE \E n \in Nodes : Follow(n)
  BY <1>2, SMTT(30) DEF Follow, ClusterOK, WatchdogInv, AtBase, AllStreaming
<1>3. CASE \E n \in Nodes : Reboot(n)
  BY <1>3, SMTT(30) DEF Reboot, ClusterOK, WatchdogInv, AtBase, AllStreaming
<1>4. CASE \E n \in Nodes : BootUp(n)
  BY <1>4, SMTT(30) DEF BootUp, ClusterOK, WatchdogInv, AtBase, AllStreaming
<1>5. CASE MoveVip
  BY <1>5, SMTT(30) DEF MoveVip, ClusterOK, WatchdogInv, AtBase, AllStreaming
<1> QED BY <1>1, <1>2, <1>3, <1>4, <1>5

----------------------------------------------------------------------------
(* The lock *)

\* A run that goes on is the only one.
LEMMA Owner ==
  ASSUME IInv, NEW r \in Runs, touched[r], pc[r] \notin Ended
  PROVE  lock = r /\ lock # NoRun /\ \A s \in Runs : Busy(s) => s = r
  BY Members DEF IInv, LockInv, Busy

\* Whatever the owner does, as long as it keeps the lock and reaches the
\* release only with the cluster restored or a person told, the invariants of
\* the lock hold.
LEMMA OwnerMoves ==
  ASSUME IInv, NEW r \in Runs, pc[r] \in Active, touched[r], NEW x \in Active,
         pc' = [pc EXCEPT ![r] = x], UNCHANGED <<lock, locked, touched>>,
         x = "release" => AtBase' \/ told'
  PROVE  LockInv' /\ ReleaseInv' /\ NoSilentFault'
<1> USE DEF IInv
<1>1. pc \in [Runs -> Places] /\ x \in Places /\ pc[r] \notin Ended /\ x \notin Ended
  BY TypeOKParts DEF RunsOK, Active, Places, Trying, Ending, Ended
<1>2. lock = r /\ lock # NoRun /\ \A s \in Runs : Busy(s) => s = r
  BY <1>1, Owner
<1>3. LockInv'
  <2>1. \A s \in Runs : s # r => pc'[s] = pc[s]
    BY <1>1
  <2>2. pc'[r] = x
    BY <1>1
  <2> QED BY <1>1, <1>2, <2>1, <2>2 DEF LockInv, Busy, At, Active, Trying, Ending, Ended
<1>4. ReleaseInv'
  <2> SUFFICES ASSUME NEW s \in Runs, Busy(s)', At(s, "release")'
               PROVE  AtBase' \/ told'
    BY DEF ReleaseInv
  <2>1. CASE s = r
    BY <1>1, <2>1 DEF At
  <2>2. CASE s # r
    BY <1>1, <1>2, <2>2 DEF Busy
  <2> QED BY <2>1, <2>2
<1>5. NoSilentFault'
  BY <1>2 DEF NoSilentFault
<1> QED BY <1>3, <1>4, <1>5

----------------------------------------------------------------------------
(* The runs *)

LEMMA InitIInv == Init => IInv
<1> SUFFICES ASSUME Init PROVE IInv
  OBVIOUS
<1>1. ClusterOK /\ RunsOK /\ WatchdogInv
  <2>1. Tests \subseteq AllTests
    BY ConfigAssumption
  <2>2. ClusterOK /\ WatchdogInv
    BY Members DEF Init, ClusterOK, WatchdogInv
  <2>3. LocalsOK
    BY <2>1 DEF Init, LocalsOK
  <2> QED BY <2>2, <2>3 DEF Init, RunsOK, Places
<1>2. LockInv /\ ReleaseInv
  BY SMTT(30) DEF Init, LockInv, ReleaseInv, Busy, At, Trying, Ending, Ended
<1>3. AtBase
  BY Members DEF Init, AtBase, AllStreaming
<1> QED
  BY <1>1, <1>2, <1>3, TypeOKParts DEF IInv, NoSilentFault

\* A scenario changes the cluster by its scripts, and is not over before the
\* finally block.
LEMMA ScenarioSteps ==
  ASSUME IInv, NEW r \in Runs, Scenario(r)
  PROVE  IInv'
<1> USE DEF IInv
<1>0. ClusterOK /\ RunsOK
  BY TypeOKParts
<1>1. /\ pc[r] \in {"inject", "follow", "revive", "back"}
      /\ UNCHANGED <<lock, told, test, locked, touched, down, todo, pgpass, warned>>
  <2>1. CASE Observe(r) \/ InjectKill(r) \/ InjectProxyStop(r) \/ InjectPatroniStop(r)
    BY <2>1 DEF Observe, InjectKill, InjectProxyStop, InjectPatroniStop, InScenario, At
  <2>2. CASE FollowPromotion(r) \/ CompareRows(r) \/ FollowTakeover(r) \/ FollowStop(r)
    BY <2>2 DEF FollowPromotion, CompareRows, FollowTakeover, FollowStop, InScenario, At
  <2>3. CASE ReviveOldPrimary(r) \/ StartProxyAgain(r) \/ StartPatroniAgain(r)
    BY <2>3 DEF ReviveOldPrimary, StartProxyAgain, StartPatroniAgain, InScenario, At
  <2> QED BY <2>1, <2>2, <2>3 DEF Scenario
<1>2. /\ Goto(r, "follow") \/ Goto(r, "revive") \/ Goto(r, "back") \/ Goto(r, "finally")
      /\ ScriptRan
  <2>1. CASE \/ Observe(r) \/ FollowPromotion(r) \/ CompareRows(r)
             \/ FollowTakeover(r) \/ FollowStop(r)
    BY <2>1 DEF Observe, FollowPromotion, CompareRows, FollowTakeover, FollowStop, Leave, ScriptRan
  <2>2. CASE InjectKill(r)
    BY <2>2 DEF InjectKill, Leave, ScriptRan
  <2>3. CASE ReviveOldPrimary(r)
    BY <2>3, Members DEF ReviveOldPrimary, Leave, ScriptRan
  <2>4. CASE InjectProxyStop(r)
    BY <2>4, Members DEF InjectProxyStop, Attempt, Leave, ScriptRan
  <2>5. CASE StartProxyAgain(r)
    BY <2>5, Members DEF StartProxyAgain, Attempt, Leave, ScriptRan
  <2>6. CASE InjectPatroniStop(r)
    BY <2>6, Members DEF InjectPatroniStop, Attempt, Leave, ScriptRan
  <2>7. CASE StartPatroniAgain(r)
    BY <2>7, Members DEF StartPatroniAgain, Attempt, Leave, ScriptRan
  <2> QED BY <2>1, <2>2, <2>3, <2>4, <2>5, <2>6, <2>7 DEF Scenario
<1>3. ClusterOK' /\ WatchdogInv'
  BY <1>0, <1>2, Scripts
<1>4. PICK x \in {"follow", "revive", "back", "finally"} : pc' = [pc EXCEPT ![r] = x]
  BY <1>2 DEF Goto
<1>5. RunsOK'
  <2>1. x \in Places
    BY DEF Places, Trying, Ending
  <2>2. LocalsOK'
    BY <1>0, <1>1 DEF RunsOK, LocalsOK
  <2> QED BY <1>0, <1>1, <1>4, <2>1, <2>2 DEF RunsOK
<1>6. LockInv' /\ ReleaseInv' /\ NoSilentFault'
  <2>1. pc[r] \in Active /\ x \in Active /\ x # "release" /\ touched[r]
    BY <1>1, SMTT(30) DEF LockInv, Active, Trying, Ending
  <2> QED BY <1>1, <1>4, <2>1, OwnerMoves
<1> QED BY <1>3, <1>5, <1>6, TypeOKPartsNext

\* A restoration either goes on, or ends in the base state, or tells a person.
LEMMA RestoreSteps ==
  ASSUME IInv, NEW r \in Runs, Restore(r)
  PROVE  IInv'
<1> USE DEF IInv
<1>0. ClusterOK /\ RunsOK
  BY TypeOKParts
<1>1. /\ pc[r] \in Ending \ {"finally", "release"}
      /\ UNCHANGED <<lock, test, locked, touched, pgpass, warned>>
  <2>1. CASE AwaitNodes(r) \/ AwaitStreaming(r) \/ AwaitLeader(r) \/ AwaitVip(r)
    BY <2>1 DEF AwaitNodes, AwaitStreaming, AwaitLeader, AwaitVip, InRestore, At, Ending
  <2>2. CASE LookAtMembers(r) \/ PatroniRestored(r) \/ ProxiesRestored(r)
    BY <2>2 DEF LookAtMembers, PatroniRestored, ProxiesRestored, InRestore, At, Ending
  <2>3. CASE RestorePatroni(r) \/ RestoreProxies(r) \/ SwitchBack(r)
    BY <2>3 DEF RestorePatroni, RestoreProxies, SwitchBack, InRestore, At, Ending
  <2>4. CASE EvaluateRestore(r) \/ NobodyAnswers(r)
    BY <2>4 DEF EvaluateRestore, NobodyAnswers, InRestore, At, Ending
  <2> QED BY <2>1, <2>2, <2>3, <2>4 DEF Restore
<1>2. \/ \E x \in Ending \ {"finally", "release"} : Goto(r, x) /\ told' = told
      \/ pc' = pc /\ told' = told
      \/ GivesUp(r)
      \/ Goto(r, "release") /\ told' = told /\ AtBase'
  <2>1. CASE AwaitNodes(r)
    BY <2>1 DEF AwaitNodes, Await, Ending
  <2>2. CASE AwaitStreaming(r)
    BY <2>2 DEF AwaitStreaming, Await, Ending
  <2>3. CASE AwaitLeader(r)
    BY <2>3 DEF AwaitLeader, Await, Ending
  <2>4. CASE AwaitVip(r)
    BY <2>4 DEF AwaitVip, Await, Ending
  <2>5. CASE EvaluateRestore(r)
    <3>1. AtBase => AtBase'
      BY <2>5 DEF EvaluateRestore, clusterVars, AtBase, AllStreaming
    <3> QED BY <2>5, <3>1 DEF EvaluateRestore, Await
  <2>6. CASE RestorePatroni(r)
    BY <2>6 DEF RestorePatroni
  <2>7. CASE RestoreProxies(r)
    BY <2>7 DEF RestoreProxies
  <2>8. CASE LookAtMembers(r) \/ PatroniRestored(r) \/ ProxiesRestored(r)
    BY <2>8 DEF LookAtMembers, PatroniRestored, ProxiesRestored, Ending
  <2>9. CASE SwitchBack(r)
    BY <2>9 DEF SwitchBack, Ending
  <2>10. CASE NobodyAnswers(r)
    BY <2>10 DEF NobodyAnswers
  <2> QED
    BY <2>1, <2>2, <2>3, <2>4, <2>5, <2>6, <2>7, <2>8, <2>9, <2>10 DEF Restore
<1>3. ClusterOK' /\ WatchdogInv'
  <2>1. todo[r] \subseteq Nodes
    BY <1>0 DEF RunsOK, LocalsOK
  <2>2. ScriptRan
    <3>1. CASE RestorePatroni(r)
      BY <2>1, <3>1 DEF RestorePatroni, ScriptRan
    <3>2. CASE RestoreProxies(r)
      BY <2>1, <3>2 DEF RestoreProxies, ScriptRan
    <3>3. CASE SwitchBack(r)
      BY <3>3 DEF SwitchBack, ScriptRan
    <3>4. CASE \/ AwaitNodes(r) \/ LookAtMembers(r) \/ PatroniRestored(r)
               \/ ProxiesRestored(r) \/ AwaitStreaming(r) \/ AwaitLeader(r)
               \/ AwaitVip(r) \/ EvaluateRestore(r) \/ NobodyAnswers(r)
      BY <3>4 DEF AwaitNodes, LookAtMembers, PatroniRestored, ProxiesRestored,
         AwaitStreaming, AwaitLeader, AwaitVip, EvaluateRestore, NobodyAnswers, ScriptRan
    <3> QED BY <3>1, <3>2, <3>3, <3>4 DEF Restore
  <2> QED BY <1>0, <2>2, Scripts
<1>4. down' \in [Runs -> SUBSET Nodes] /\ todo' \in [Runs -> SUBSET Nodes]
  <2> USE <1>0 DEF RunsOK, LocalsOK
  <2>1. CASE LookAtMembers(r)
    BY <2>1 DEF LookAtMembers
  <2>2. CASE RestorePatroni(r) \/ RestoreProxies(r)
    <3>1. todo' = todo \/ \E n \in todo[r] : todo' = [todo EXCEPT ![r] = @ \ {n}]
      BY <2>2 DEF RestorePatroni, RestoreProxies
    <3> QED BY <2>2, <3>1 DEF RestorePatroni, RestoreProxies
  <2>3. CASE PatroniRestored(r)
    BY <2>3, Members DEF PatroniRestored
  <2>4. CASE \/ AwaitNodes(r) \/ ProxiesRestored(r) \/ AwaitStreaming(r)
             \/ SwitchBack(r) \/ AwaitLeader(r) \/ AwaitVip(r)
             \/ EvaluateRestore(r) \/ NobodyAnswers(r)
    BY <2>4 DEF AwaitNodes, ProxiesRestored, AwaitStreaming, SwitchBack,
         AwaitLeader, AwaitVip, EvaluateRestore, NobodyAnswers
  <2> QED BY <2>1, <2>2, <2>3, <2>4 DEF Restore
<1>5. PICK x \in Ending \ {"finally"} :
        pc' = [pc EXCEPT ![r] = x] /\ (x = "release" => AtBase' \/ told')
  <2>1. pc = [pc EXCEPT ![r] = pc[r]] /\ pc[r] # "release"
    BY <1>0, <1>1 DEF RunsOK
  <2>2. "release" \in Ending
    BY DEF Ending
  <2>3. "release" \notin Ending \ {"finally", "release"}
    OBVIOUS
  <2> QED BY <1>1, <1>2, <2>1, <2>2, <2>3 DEF Goto, GivesUp
<1>6. RunsOK'
  <2>1. x \in Places
    BY DEF Places, Trying, Ending
  <2>2. LocalsOK'
    BY <1>0, <1>1, <1>4 DEF RunsOK, LocalsOK
  <2>3. told' \in BOOLEAN
    BY <1>0, <1>2 DEF RunsOK, GivesUp
  <2> QED BY <1>0, <1>1, <1>5, <2>1, <2>2, <2>3 DEF RunsOK
<1>7. LockInv' /\ ReleaseInv' /\ NoSilentFault'
  <2>1. pc[r] \in Active /\ x \in Active /\ touched[r]
    BY <1>1, SMTT(30) DEF LockInv, Active, Trying, Ending
  <2> QED BY <1>1, <1>5, <2>1, OwnerMoves
<1> QED BY <1>3, <1>6, <1>7, TypeOKPartsNext

\* A run that has touched nothing takes steps that leave the cluster alone;
\* and so do an interruption and the end of a recording.
LEMMA OtherSteps ==
  ASSUME IInv, NEW r \in Runs,
         \/ Begin(r) \/ CheckBaseline(r) \/ ConfirmInjection(r) \/ AcquireLock(r)
         \/ StartRecorder(r) \/ StopRecording(r) \/ ReleaseLock(r)
         \/ Interrupt(r) \/ Kill(r)
  PROVE  IInv'
<1> USE DEF IInv
<1>0. ClusterOK /\ RunsOK
  BY TypeOKParts
<1>1. UNCHANGED clusterVars
  BY DEF Begin, CheckBaseline, ConfirmInjection, AcquireLock, StartRecorder,
     StopRecording, ReleaseLock, Interrupt, Kill
<1>2. ClusterOK' /\ WatchdogInv' /\ (AtBase => AtBase')
  BY <1>0, <1>1, Scripts DEF ScriptRan, clusterVars, AtBase, AllStreaming
<1>3. ASSUME UNCHANGED <<lock, told, locked, touched>>, LocalsOK', NEW x \in Places,
             pc' = [pc EXCEPT ![r] = x], pc[r] \notin Ended,
             \/ x \in Ended
             \/ ~touched[r] /\ x \in {"check", "confirm", "lock", "finally", "release"}
             \/ touched[r] /\ x \in Active /\ x # "release"
      PROVE  IInv'
  <2>1. RunsOK'
    BY <1>0, <1>3 DEF RunsOK
  <2>2. /\ pc'[r] = x /\ \A s \in Runs : s # r => pc'[s] = pc[s]
        /\ \A s \in Runs : Busy(s)' => Busy(s)
    BY <1>0, <1>3 DEF RunsOK, Busy, Active
  <2>3. LockInv'
    <3>1. touched[r] => x \notin {"idle", "check", "confirm", "lock"}
      <4>1. Ended \cup Active \subseteq Places \ {"idle", "check", "confirm", "lock"}
        BY SMTT(30) DEF Active, Places, Trying, Ending, Ended
      <4>2. CASE touched[r] /\ x \in {"check", "confirm", "lock", "finally", "release"}
        BY <1>3, <4>1, <4>2
      <4> QED BY <1>3, <4>1, <4>2
    <3>2. x \in Active \ {"finally", "release"} => touched[r]
      <4>1. x \in Ended => x \notin Active
        BY SMTT(30) DEF Active, Trying, Ending, Ended
      <4> QED BY <1>3, <4>1 DEF Active
    <3> QED BY <1>3, <2>2, <3>1, <3>2 DEF LockInv, Active
  <2>4. ReleaseInv'
    BY <1>2, <1>3, <2>2, SMTT(30) DEF ReleaseInv, At, Busy, Ended
  <2>5. NoSilentFault'
    BY <1>2, <1>3 DEF NoSilentFault
  <2> QED BY <1>2, <2>1, <2>3, <2>4, <2>5, TypeOKPartsNext
<1>4. CASE Begin(r) \/ CheckBaseline(r) \/ ConfirmInjection(r)
  <2>1. UNCHANGED <<lock, told, test, locked, touched, down, todo, pgpass, warned>>
    BY <1>4 DEF Begin, CheckBaseline, ConfirmInjection
  <2>2. LocalsOK'
    BY <1>0, <2>1 DEF RunsOK, LocalsOK
  <2>3. pc[r] \in {"idle", "check", "confirm"}
    BY <1>4 DEF Begin, CheckBaseline, ConfirmInjection, At
  <2>4. ~touched[r] /\ pc[r] \notin Ended
    BY <2>3, SMTT(30) DEF LockInv, Ended
  <2>5. PICK x \in {"check", "confirm", "lock", "finally"} : pc' = [pc EXCEPT ![r] = x]
    BY <1>4 DEF Begin, CheckBaseline, ConfirmInjection, Goto
  <2>6. x \in Places
    BY DEF Places, Trying, Ending
  <2> QED BY <1>3, <2>1, <2>2, <2>4, <2>5, <2>6
<1>5. CASE AcquireLock(r)
  <2>1. pc[r] = "lock" /\ UNCHANGED <<test, down, todo, pgpass, warned>>
    BY <1>5 DEF AcquireLock, At
  <2>2. ~touched[r] /\ ~locked[r]
    BY <2>1 DEF LockInv
  <2>3. CASE lock = NoRun /\ lock' = r /\ Enters(r)
    <3>1. PICK x \in {"record", "inject"} : pc' = [pc EXCEPT ![r] = x]
      BY <2>3 DEF Enters, Goto
    <3>2. LocalsOK' /\ RunsOK'
      BY <1>0, <2>1, <2>3, <3>1 DEF RunsOK, LocalsOK, Enters, Places, Trying
    <3>3. \A s \in Runs : ~Busy(s)
      BY <2>3, Members DEF LockInv
    <3>4. /\ \A s \in Runs : s # r => /\ pc'[s] = pc[s] /\ touched'[s] = touched[s]
                                      /\ locked'[s] = locked[s]
          /\ pc'[r] = x /\ touched'[r] /\ locked'[r]
      BY <1>0, <2>3, <3>1 DEF RunsOK, LocalsOK, Enters
    <3>5. \A s \in Runs : s # r => ~Busy(s)'
      BY <3>3, <3>4 DEF Busy
    <3>6. LockInv'
      BY <2>3, <3>1, <3>4, <3>5, SMTT(30) DEF LockInv
    <3>7. ReleaseInv' /\ NoSilentFault'
      BY <2>3, <3>1, <3>4, <3>5, Members DEF ReleaseInv, NoSilentFault, At
    <3> QED BY <1>2, <3>2, <3>6, <3>7, TypeOKPartsNext
  <2>4. CASE /\ (lock = NoRun /\ lock' = r) \/ lock' = lock
             /\ Goto(r, "finally") /\ UNCHANGED <<told, locked, touched>>
    <3>1. LocalsOK' /\ RunsOK'
      BY <1>0, <2>1, <2>4 DEF RunsOK, LocalsOK, Goto, Places, Ending
    <3>2. /\ pc'[r] = "finally" /\ \A s \in Runs : s # r => pc'[s] = pc[s]
          /\ \A s \in Runs : Busy(s)' => Busy(s) /\ lock' = lock
      <4>1. pc'[r] = "finally" /\ \A s \in Runs : s # r => pc'[s] = pc[s]
        BY <1>0, <2>4 DEF RunsOK, Goto
      <4>2. \A s \in Runs : Busy(s)' => Busy(s)
        BY <2>2, <2>4, <4>1 DEF Busy
      <4>3. \A s \in Runs : Busy(s) => lock = s /\ lock # NoRun
        BY Members DEF LockInv
      <4> QED BY <2>4, <4>1, <4>2, <4>3
    <3>3. LockInv'
      BY <2>2, <2>4, <3>2, SMTT(30) DEF LockInv
    <3>4. ReleaseInv'
      BY <1>2, <2>4, <3>2, SMTT(30) DEF ReleaseInv, At
    <3>5. NoSilentFault'
      BY <1>2, <2>4, Members DEF NoSilentFault
    <3> QED BY <1>2, <3>1, <3>3, <3>4, <3>5, TypeOKPartsNext
  <2> QED BY <1>5, <2>3, <2>4 DEF AcquireLock, MayLock
<1>6. CASE StartRecorder(r)
  <2>1. /\ pc[r] = "record"
        /\ UNCHANGED <<lock, told, test, locked, touched, down, todo, warned>>
        /\ \E b \in BOOLEAN : pgpass' = [pgpass EXCEPT ![r] = b]
        /\ Goto(r, "inject") \/ Goto(r, "finally")
    BY <1>6 DEF StartRecorder, At
  <2>2. LocalsOK'
    BY <1>0, <2>1 DEF RunsOK, LocalsOK
  <2>3. PICK x \in {"inject", "finally"} : pc' = [pc EXCEPT ![r] = x]
    BY <2>1 DEF Goto
  <2>4. x \in Places /\ x \in Active /\ touched[r] /\ pc[r] \notin Ended /\ x # "release"
    BY <2>1, SMTT(30) DEF LockInv, Places, Trying, Ending, Ended, Active
  <2> QED BY <1>3, <2>1, <2>2, <2>3, <2>4
<1>7. CASE StopRecording(r)
  <2>1. /\ pc[r] = "finally"
        /\ UNCHANGED <<lock, told, test, locked, touched, down, todo>>
        /\ \/ ~touched[r] /\ Goto(r, "release")
           \/ touched[r] /\ Goto(r, "reach")
    BY <1>7 DEF StopRecording, At
  <2>2. pgpass' \in [Runs -> BOOLEAN] /\ warned' \in [Runs -> BOOLEAN]
    BY <1>0, <1>7 DEF StopRecording, CloseRaises, RunsOK, LocalsOK
  <2>3. LocalsOK'
    BY <1>0, <2>1, <2>2 DEF RunsOK, LocalsOK
  <2>4. PICK x \in {"release", "reach"} :
          pc' = [pc EXCEPT ![r] = x] /\ (x = "reach" <=> touched[r])
    BY <2>1 DEF Goto
  <2>5. x \in Places /\ x \in Active /\ pc[r] \notin Ended
    BY <2>1, SMTT(30) DEF Places, Trying, Ending, Ended, Active
  <2> QED BY <1>3, <2>1, <2>3, <2>4, <2>5
<1>8. CASE ReleaseLock(r)
  <2>1. /\ pc[r] = "release" /\ Goto(r, "done")
        /\ UNCHANGED <<told, test, locked, touched, down, todo, pgpass, warned>>
        /\ (locked[r] /\ lock' = NoRun) \/ lock' = lock
    BY <1>8 DEF ReleaseLock, At, MayUnlock
  <2>2. LocalsOK' /\ RunsOK'
    BY <1>0, <2>1 DEF RunsOK, LocalsOK, Goto, Places, Ended
  <2>3. pc'[r] = "done" /\ \A s \in Runs : s # r => pc'[s] = pc[s]
    BY <1>0, <2>1 DEF RunsOK, Goto
  <2>4. \A s \in Runs : Busy(s)' => Busy(s) /\ s # r
    BY <2>1, <2>3 DEF Busy, Ended
  <2>5. locked[r] => Busy(r)
    BY <2>1 DEF LockInv, Busy, Ended
  <2>6. LockInv'
    <3>1. \A s \in Runs : Busy(s)' => lock' = s
      BY <2>1, <2>4, <2>5 DEF LockInv
    <3>2. "done" \notin {"idle", "check", "confirm", "lock"} /\ "done" \notin Trying \cup Ending
      BY SMTT(30) DEF Trying, Ending
    <3> QED BY <2>1, <2>3, <3>1, <3>2 DEF LockInv
  <2>7. ReleaseInv'
    BY <1>2, <2>1, <2>3, <2>4 DEF ReleaseInv, At
  <2>8. NoSilentFault'
    BY <1>2, <2>1, <2>5 DEF ReleaseInv, NoSilentFault, At
  <2> QED BY <1>2, <2>2, <2>6, <2>7, <2>8, TypeOKPartsNext
<1>9. CASE Interrupt(r) \/ Kill(r)
  <2>1. /\ pc[r] \in Trying \cup Ending
        /\ (pc[r] \in Trying /\ Goto(r, "finally")) \/ Goto(r, "killed")
        /\ UNCHANGED <<lock, told, test, locked, touched, down, todo, pgpass, warned>>
    BY <1>9 DEF Interrupt, Kill
  <2>2. LocalsOK'
    BY <1>0, <2>1 DEF RunsOK, LocalsOK
  <2>3. PICK x \in {"finally", "killed"} :
          pc' = [pc EXCEPT ![r] = x] /\ (x = "finally" => pc[r] \in Trying)
    BY <2>1 DEF Goto
  <2>4. x \in Places /\ pc[r] \notin Ended
    BY <2>1, SMTT(30) DEF Places, Trying, Ending, Ended
  <2>5. \/ x \in Ended
        \/ ~touched[r] /\ x = "finally"
        \/ touched[r] /\ x \in Active /\ x # "release"
    BY <2>3, SMTT(30) DEF LockInv, Trying, Ending, Ended, Active
  <2> QED BY <1>3, <2>1, <2>2, <2>3, <2>4, <2>5
<1> QED BY <1>4, <1>5, <1>6, <1>7, <1>8, <1>9

\* People act while nobody is testing.
LEMMA PeopleSteps ==
  ASSUME IInv, Unlock \/ Repair
  PROVE  IInv'
<1> USE DEF IInv
<1>0. ClusterOK /\ RunsOK
  BY TypeOKParts
<1>1. /\ UNCHANGED runVars /\ told' \in BOOLEAN /\ lock' \in {lock, NoRun}
      /\ \A r \in Runs : ~Busy(r)
  BY DEF Unlock, Repair
<1>2. RunsOK'
  BY <1>0, <1>1 DEF RunsOK, LocalsOK, runVars
<1>3. LockInv' /\ ReleaseInv'
  BY <1>1 DEF LockInv, ReleaseInv, Busy, At, runVars
<1>4. CASE Unlock
  <2>1. ClusterOK' /\ WatchdogInv' /\ NoSilentFault'
    BY <1>0, <1>4, Scripts DEF Unlock, ScriptRan, NoSilentFault
  <2> QED BY <1>2, <1>3, <2>1, TypeOKPartsNext
<1>5. CASE Repair
  <2>1. ClusterOK' /\ WatchdogInv'
    BY <1>0, <1>5, Members DEF Repair, ClusterOK, WatchdogInv
  <2>2. AtBase'
    BY <1>5, Members DEF Repair, AtBase, AllStreaming
  <2> QED BY <1>2, <1>3, <2>1, <2>2, TypeOKPartsNext DEF NoSilentFault
<1> QED BY <1>4, <1>5

LEMMA NextIInv ==
  ASSUME IInv, [Next]_vars
  PROVE  IInv'
<1> USE DEF IInv
<1>0. ClusterOK /\ RunsOK
  BY TypeOKParts
<1>1. CASE (\E n \in Nodes : Failover(n) \/ Follow(n) \/ Reboot(n) \/ BootUp(n)) \/ MoveVip
  <2>1. ClusterOK' /\ WatchdogInv' /\ ~AtBase /\ UNCHANGED <<lock, told, runVars>>
    BY <1>0, <1>1, Environment
  <2>2. RunsOK' /\ LockInv'
    BY <1>0, <2>1 DEF RunsOK, LocalsOK, LockInv, Busy, runVars
  <2>3. ReleaseInv' /\ NoSilentFault'
    BY <2>1 DEF ReleaseInv, NoSilentFault, Busy, At, runVars
  <2> QED BY <2>1, <2>2, <2>3, TypeOKPartsNext
<1>2. CASE \E r \in Runs : Begin(r) \/ RunStep(r) \/ Interrupt(r) \/ Kill(r)
  BY <1>2, ScenarioSteps, RestoreSteps, OtherSteps DEF RunStep
<1>3. CASE Unlock \/ Repair
  BY <1>3, PeopleSteps
<1>4. CASE UNCHANGED vars
  <2>1. ClusterOK' /\ RunsOK'
    BY <1>0, <1>4 DEF vars, clusterVars, runVars, ClusterOK, RunsOK, LocalsOK
  <2>2. WatchdogInv' /\ LockInv' /\ ReleaseInv' /\ NoSilentFault'
    BY <1>4 DEF vars, clusterVars, runVars, WatchdogInv, LockInv, ReleaseInv,
       NoSilentFault, Busy, At, AtBase, AllStreaming
  <2> QED BY <2>1, <2>2, TypeOKPartsNext
<1> QED BY <1>1, <1>2, <1>3, <1>4 DEF Next

\* The invariant holds in every reachable state: a run at work owns the lock,
\* an unfed watchdog is that of a killed Primary, and the lock is given back
\* only with the cluster restored or a person told.
THEOREM Invariant == Spec => []IInv
<1>1. Init => IInv
  BY InitIInv
<1>2. IInv /\ [Next]_vars => IInv'
  BY NextIInv
<1> QED BY <1>1, <1>2, PTL DEF Spec

----------------------------------------------------------------------------
(* The promises *)

\* Two tests never have the cluster at the same time.
THEOREM MutualExclusion == Spec => []Exclusive
<1>1. IInv => Exclusive
  BY DEF IInv, LockInv, Exclusive
<1> QED BY <1>1, Invariant, PTL

\* While nobody has the lock, the cluster is in its base state or a person has
\* been told.
THEOREM FaultsAreReported == Spec => []NoSilentFault
<1>1. IInv => NoSilentFault
  BY DEF IInv
<1> QED BY <1>1, Invariant, PTL

=============================================================================
