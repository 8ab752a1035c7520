--------------------------- MODULE HaTestsProofs ---------------------------
(* Proofs about the client of test H-2 (ReadLoad), the measurement of tests   *)
(* H-3 and H-4 (WriteRecord) and the scripted tests of --simulate mode        *)
(* (Simulation), for every value of their constants.                          *)
EXTENDS ReadLoad, WriteRecord, Simulation, FiniteSetTheorems, SequenceTheorems, TLAPS

LEMMA MinOfNaturals ==
  ASSUME NEW S \in SUBSET Nat, S # {}
  PROVE  Min(S) \in S /\ \A x \in S : Min(S) <= x
  <1> DEFINE T == {0..x : x \in S}
             R == StrictSubsetOrdering(Nat)
  <1>1. T \subseteq FiniteSubsetsOf(Nat) /\ T # {}
    <2>1. \A x \in S : 0..x \in SUBSET Nat /\ IsFiniteSet(0..x)
      BY FS_Interval
    <2> QED
      BY <2>1 DEF FiniteSubsetsOf
  <1>2. IsWellFoundedOn(R, FiniteSubsetsOf(Nat))
    BY FS_StrictSubsetOrderingWellFounded
  <1> HIDE DEF T, R
  <1>3. PICK U \in T : \A V \in T : <<V, U>> \notin R
    BY <1>1, <1>2, WFMin
  <1>4. PICK m \in S : U = 0..m
    BY DEF T
  <1>5. ASSUME NEW x \in S PROVE m <= x
    <2>1. <<0..x, 0..m>> \notin R
      BY <1>3, <1>4 DEF T
    <2>2. CASE x < m
      <3>1. 0..x \in SUBSET Nat /\ 0..m \in SUBSET Nat /\ 0..x \subseteq 0..m
        BY <2>2
      <3>2. m \in 0..m /\ m \notin 0..x
        BY <2>2
      <3> QED
        BY <2>1, <3>1, <3>2 DEF R, StrictSubsetOrdering
    <2> QED
      BY <2>2
  <1> QED
    BY <1>5 DEF Min

LEMMA MaxOfBounded ==
  ASSUME NEW S \in SUBSET Nat, S # {}, NEW n \in Nat, \A x \in S : x <= n
  PROVE  Max(S) \in S /\ \A x \in S : x <= Max(S)
  <1> DEFINE T == {n - x : x \in S}
  <1>1. T \in SUBSET Nat /\ T # {}
    <2>1. ASSUME NEW x \in S PROVE n - x \in Nat
      OBVIOUS
    <2>2. PICK y \in S : TRUE
      OBVIOUS
    <2>3. n - y \in T
      OBVIOUS
    <2>4. \A z \in T : z \in Nat
      BY <2>1
    <2> QED
      BY <2>3, <2>4
  <1>2. Min(T) \in T /\ \A y \in T : Min(T) <= y
    BY <1>1, MinOfNaturals
  <1>3. PICK m \in S : Min(T) = n - m
    BY <1>2
  <1>4. ASSUME NEW x \in S PROVE x <= m
    <2>1. n - x \in T
      OBVIOUS
    <2>2. n - m <= n - x
      BY <1>2, <1>3, <2>1
    <2> QED
      BY <2>2
  <1> QED
    BY <1>4 DEF Max

----------------------------------------------------------------------------
(* The client of H-2 *)

\* A session the client goes on in is its own, and has been initialized unless
\* it was just opened.
SessionInv ==
  /\ issued \in Nat
  /\ session \in 0..issued
  /\ loadPc = "initialize" => session = NoSession
  /\ loadPc \in {"initialized", "call"} => session # NoSession
  /\ session # NoSession /\ loadPc # "initialized" => session \in initialized

\* Every search in a forgotten session answers for one expiry: the one the
\* client has not noticed yet has not been paid for.
Unnoticed == IF session # NoSession /\ session \notin alive THEN 1 ELSE 0

ExpiryInv ==
  /\ alive \subseteq 1..issued
  /\ expired \in Nat /\ stale \in Nat
  /\ stale + Unnoticed <= expired

\* The row is counted once, right before the deletion.
LeftoverInv ==
  /\ found => loadPc \in {"delete", "done"}
  /\ loadPc = "done" /\ doc = "stored" => documentTold \/ ~found

ClientInv == SessionInv /\ ExpiryInv /\ LeftoverInv

LEMMA ClientInit == LoadInit => ClientInv
  BY DEF LoadInit, ClientInv, SessionInv, ExpiryInv, Unnoticed, LeftoverInv,
         NoSession

\* The end of a search that failed: the client has no session any more.
LEMMA FailedSearch ==
  ASSUME ClientInv, McpFails, issued' \in {issued, issued + 1},
         alive' \subseteq 1..issued', UNCHANGED <<expired, found>>, ~found,
         stale' = stale + Unnoticed
  PROVE  ClientInv'
  <1>1. session' = NoSession /\ loadPc' \in {"web", "upload"}
    BY DEF McpFails, DropSession, AfterRound
  <1>2. SessionInv'
    BY <1>1 DEF ClientInv, SessionInv, NoSession
  <1>3. ExpiryInv'
    BY <1>1 DEF ClientInv, ExpiryInv, Unnoticed
  <1>4. LeftoverInv'
    BY <1>1 DEF LeftoverInv
  <1> QED
    BY <1>2, <1>3, <1>4 DEF ClientInv

LEMMA WebSearchKeeps ==
  ASSUME ClientInv, WebSearch PROVE ClientInv'
  <1>1. /\ UNCHANGED <<session, issued, alive, initialized, expired, stale, found>>
        /\ loadPc = "web" /\ ~found
    BY DEF WebSearch, ClientInv, LeftoverInv
  <1>2. loadPc' = IF session = NoSession THEN "initialize" ELSE "call"
    BY DEF WebSearch, McpBegins
  <1> QED
    BY <1>1, <1>2 DEF ClientInv, SessionInv, ExpiryInv, Unnoticed, LeftoverInv

LEMMA OpenSessionKeeps ==
  ASSUME ClientInv, OpenSession PROVE ClientInv'
  <1>1. /\ UNCHANGED <<initialized, expired, stale, found>>
        /\ loadPc = "initialize" /\ session = NoSession /\ ~found
        /\ Unnoticed = 0 /\ issued \in Nat /\ alive \subseteq 1..issued
        /\ stale \in Nat /\ expired \in Nat /\ stale <= expired
    BY DEF OpenSession, ClientInv, SessionInv, ExpiryInv, LeftoverInv, Unnoticed
  <1>2. PICK fate \in Fates :
          /\ IF Handled(fate)
               THEN issued' = issued + 1 /\ alive' = alive \union {issued + 1}
               ELSE UNCHANGED <<issued, alive>>
          /\ IF fate = "answered"
               THEN session' = issued + 1 /\ loadPc' = "initialized"
               ELSE McpFails
    BY DEF OpenSession
  <1>3. issued' \in {issued, issued + 1} /\ alive' \subseteq 1..issued'
    <2>1. CASE Handled(fate)
      <3>1. issued' = issued + 1 /\ alive' = alive \union {issued + 1}
        BY <1>2, <2>1
      <3>2. 1..issued \subseteq 1..(issued + 1) /\ issued + 1 \in 1..(issued + 1)
        BY <1>1
      <3> QED
        BY <1>1, <3>1, <3>2
    <2>2. CASE ~Handled(fate)
      BY <1>1, <1>2, <2>2
    <2> QED
      BY <2>1, <2>2
  <1>4. CASE fate = "answered"
    <2>1. /\ issued' = issued + 1 /\ session' = issued + 1
          /\ session' \in alive' /\ loadPc' = "initialized"
      BY <1>2, <1>4 DEF Handled
    <2>2. SessionInv'
      BY <1>1, <2>1 DEF SessionInv, NoSession
    <2>3. ExpiryInv'
      BY <1>1, <1>3, <2>1 DEF ExpiryInv, Unnoticed
    <2> QED
      BY <1>1, <2>1, <2>2, <2>3 DEF ClientInv, LeftoverInv
  <1>5. CASE fate # "answered"
    BY <1>1, <1>2, <1>3, <1>5, FailedSearch
  <1> QED
    BY <1>4, <1>5

LEMMA NotifyKeeps ==
  ASSUME ClientInv, NotifyInitialized PROVE ClientInv'
  <1>1. /\ UNCHANGED <<issued, alive, expired, found>>
        /\ loadPc = "initialized" /\ session # NoSession /\ ~found
        /\ alive \subseteq 1..issued
    BY DEF NotifyInitialized, ClientInv, SessionInv, ExpiryInv, LeftoverInv
  <1>2. stale' = IF session \in alive THEN stale ELSE stale + 1
    BY DEF NotifyInitialized
  <1>3. PICK fate \in Fates :
          /\ initialized' = IF Handled(fate) /\ session \in alive
                              THEN initialized \union {session} ELSE initialized
          /\ IF fate = "answered" /\ session \in alive
               THEN loadPc' = "call" /\ UNCHANGED session
               ELSE McpFails
    BY DEF NotifyInitialized
  <1>4. CASE fate = "answered" /\ session \in alive
    <2>1. session \in initialized' /\ stale' = stale /\ UNCHANGED session
      BY <1>2, <1>3, <1>4 DEF Handled
    <2> QED
      BY <1>1, <1>3, <1>4, <2>1
      DEF ClientInv, SessionInv, ExpiryInv, Unnoticed, LeftoverInv
  <1>5. CASE ~(fate = "answered" /\ session \in alive)
    <2>1. stale' = stale + Unnoticed
      BY <1>1, <1>2 DEF Unnoticed, ClientInv, ExpiryInv
    <2> QED
      BY <1>1, <1>3, <1>5, <2>1, FailedSearch
  <1> QED
    BY <1>4, <1>5

LEMMA CallToolKeeps ==
  ASSUME ClientInv, CallTool PROVE ClientInv'
  <1>1. /\ UNCHANGED <<issued, alive, initialized, expired, found>>
        /\ loadPc = "call" /\ session # NoSession /\ ~found
        /\ alive \subseteq 1..issued
    BY DEF CallTool, ClientInv, SessionInv, ExpiryInv, LeftoverInv
  <1>2. stale' = stale + Unnoticed
    BY <1>1 DEF CallTool, Unnoticed, ClientInv, ExpiryInv
  <1>3. CASE session \in alive /\ UNCHANGED session /\ loadPc' \in AfterRound
    <2>1. loadPc' \in {"web", "upload"} /\ stale' = stale
      BY <1>2, <1>3 DEF AfterRound, Unnoticed, ClientInv, ExpiryInv
    <2> QED
      BY <1>1, <1>3, <2>1
      DEF ClientInv, SessionInv, ExpiryInv, Unnoticed, LeftoverInv
  <1>4. CASE McpFails
    BY <1>1, <1>2, <1>4, FailedSearch
  <1> QED
    BY <1>3, <1>4 DEF CallTool

\* The server forgets a session, perhaps the one in use.
LEMMA ExpireKeeps ==
  ASSUME ClientInv, Expire PROVE ClientInv'
  <1>1. PICK s \in alive : alive' = alive \ {s}
    BY DEF Expire
  <1>2. expired' = expired + 1
        /\ UNCHANGED <<loadPc, session, issued, initialized, stale, doc, found,
                       documentTold>>
    BY DEF Expire
  <1>3. stale \in Nat /\ expired \in Nat
        /\ stale <= expired
        /\ (session # NoSession /\ session \notin alive => stale + 1 <= expired)
    BY DEF Unnoticed, ClientInv, ExpiryInv
  <1>4. stale' + Unnoticed' <= expired'
    BY <1>2, <1>3 DEF Unnoticed
  <1>5. ExpiryInv'
    BY <1>1, <1>2, <1>3, <1>4 DEF ClientInv, ExpiryInv
  <1> QED
    BY <1>2, <1>5 DEF ClientInv, SessionInv, LeftoverInv

\* The steps that leave the sessions alone.
LEMMA DocumentKeeps ==
  ASSUME ClientInv,
         Reachable \/ Upload \/ CountRows \/ DeleteDocument \/ UNCHANGED loadVars
  PROVE  ClientInv'
  <1>1. UNCHANGED <<session, issued, alive, initialized, expired, stale>>
    BY DEF Reachable, Upload, CountRows, DeleteDocument, loadVars
  <1>2. SessionInv'
    BY <1>1 DEF ClientInv, SessionInv, Reachable, Upload, CountRows,
                DeleteDocument, loadVars
  <1>3. ExpiryInv'
    BY <1>1 DEF ClientInv, ExpiryInv, Unnoticed
  <1>4. LeftoverInv'
    <2>1. CASE Reachable
      BY <2>1 DEF Reachable, ClientInv, LeftoverInv
    <2>2. CASE Upload
      BY <2>2 DEF Upload, ClientInv, LeftoverInv
    <2>3. CASE CountRows
      <3>1. ~found
        BY <2>3 DEF CountRows, ClientInv, LeftoverInv
      <3>2. loadPc' = "delete" \/ (loadPc' = "not tested" /\ found' = found)
        BY <2>3 DEF CountRows
      <3>3. CASE loadPc' = "delete"
        BY <3>3 DEF LeftoverInv
      <3>4. CASE loadPc' = "not tested" /\ found' = found
        <4>1. ~found'
          BY <3>1, <3>4
        <4> QED
          BY <3>4, <4>1 DEF LeftoverInv
      <3> QED
        BY <3>2, <3>3, <3>4
    <2>4. CASE DeleteDocument
      BY <2>4 DEF DeleteDocument, ClientInv, LeftoverInv, Fates, Handled, TellIfLeft
    <2>5. CASE UNCHANGED loadVars
      BY <2>5 DEF loadVars, ClientInv, LeftoverInv
    <2> QED
      BY <2>1, <2>2, <2>3, <2>4, <2>5
  <1> QED
    BY <1>2, <1>3, <1>4 DEF ClientInv

LEMMA ClientStep == ClientInv /\ [LoadNext]_loadVars => ClientInv'
  BY WebSearchKeeps, OpenSessionKeeps, NotifyKeeps, CallToolKeeps, ExpireKeeps,
     DocumentKeeps
  DEF LoadNext

\* What the client knows of its session and of the document it wrote, whatever
\* requests are lost and sessions forgotten.
THEOREM ClientInvariant == LoadSpec => []ClientInv
  BY ClientInit, ClientStep, PTL DEF LoadSpec

\* For any number of rounds, lost requests and expiries: no tool is called in a
\* session that was not initialized, and a forgotten session costs one search.
THEOREM SessionsStayFresh == LoadSpec => []SessionsAreFresh
  <1>1. ClientInv => SessionsAreFresh
    BY DEF ClientInv, SessionInv, ExpiryInv, Unnoticed, SessionsAreFresh
  <1> QED
    BY <1>1, ClientInvariant, PTL

\* A test document that was counted on the Primary is deleted in the end, or
\* its number was told.
THEOREM NoUnknownLeftover == LoadSpec => []LeftoverKnown
  <1>1. ClientInv => LeftoverKnown
    BY DEF ClientInv, LeftoverInv, LeftoverKnown, Over
  <1> QED
    BY <1>1, ClientInvariant, PTL

----------------------------------------------------------------------------
(* The measurement of H-3 and H-4 *)

Attempts == [result : {"pending", "ok", "fail"}, end : Nat, on : {"none", "old", "new"}]

RecTypes ==
  /\ now \in Nat
  /\ attempt \in Seq(Attempts)
  /\ Len(attempt) = now
  /\ db \in {"up", "down", "promoted"}
  /\ healthy \in BOOLEAN
  /\ injectedAt \in Nat /\ killedAt \in Nat
  /\ recPc \in {"record", "kill", "follow", "first read", "second read",
                "compared", "no leader"}

\* The scenario and the cluster go together; the time that is printed is not
\* later than the kill.
PhaseInv ==
  /\ db = "up" <=> recPc \in {"record", "kill"}
  /\ recPc \in {"first read", "second read", "compared"} => db = "promoted"
  /\ recPc # "record" => injectedAt <= Instant(now)
  /\ db # "up" => killedAt <= now /\ injectedAt <= Instant(killedAt)

\* What is known of one attempt: the new Primary answers only long after the
\* kill, the old one answers nothing that started after it.
OneAttempt(a) ==
  /\ attempt[a].result = "ok" => attempt[a].on # "none" /\ attempt[a].end <= Instant(now)
  /\ Pending(a) => now - a <= AttemptTimeout
  /\ attempt[a].on = "new" => db = "promoted"
  /\ db # "up" /\ a > killedAt => attempt[a].on # "old"
  /\ attempt[a].result = "ok" /\ attempt[a].on = "new" =>
       attempt[a].end >= Instant(killedAt + AttemptTimeout + 2)
  /\ healthy => /\ db = "up" => attempt[a].result # "fail" /\ (a < now => ~Pending(a))
                /\ db # "up" /\ a < killedAt => attempt[a].result = "ok"

\* The attempt that started first after the kill has failed before a replica is
\* promoted.
OutageInv ==
  db = "promoted" =>
    /\ killedAt + AttemptTimeout + 2 <= now
    /\ attempt[killedAt + 1].result = "fail"

\* The log holds attempts as they are, and every answer that came before the
\* injection; the rows are those of the new Primary.
ReadInv ==
  /\ recPc \in {"second read", "compared"} =>
       /\ DOMAIN probeLog \subseteq Ended
       /\ \A a \in DOMAIN probeLog : probeLog[a] = attempt[a]
       /\ killedAt + 1 \in DOMAIN probeLog
       /\ \A a \in Ended \ DOMAIN probeLog :
            attempt[a].result = "ok" => attempt[a].end >= injectedAt
  /\ recPc = "compared" => present = Range(wal)

RecInv ==
  /\ RecTypes /\ PhaseInv /\ OutageInv /\ ReadInv
  /\ \A a \in DOMAIN attempt : OneAttempt(a)

LEMMA RecordFacts == AttemptTimeout \in Nat
  BY RecordAssumption

LEMMA RecInitInv == RecInit => RecInv
  BY DEF RecInit, RecInv, RecTypes, PhaseInv, OutageInv, ReadInv, OneAttempt

LEMMA AttemptFields ==
  ASSUME NEW r \in Attempts
  PROVE  /\ r.result \in {"pending", "ok", "fail"}
         /\ r.end \in Nat
         /\ r.on \in {"none", "old", "new"}
  BY DEF Attempts

LEMMA TypeFacts ==
  ASSUME RecTypes
  PROVE  /\ now \in Nat /\ killedAt \in Nat /\ injectedAt \in Nat
         /\ DOMAIN attempt = 1..now
         /\ \A a \in 1..now : attempt[a] \in Attempts
  <1>1. now \in Nat /\ attempt \in Seq(Attempts) /\ Len(attempt) = now
    BY DEF RecTypes
  <1>2. DOMAIN attempt = 1..now /\ \A a \in 1..now : attempt[a] \in Attempts
    BY <1>1
  <1> QED
    BY <1>1, <1>2 DEF RecTypes

\* The steps of the recorder keep the types.
LEMMA TypesKept ==
  ASSUME RecTypes, now' \in Nat, attempt' \in Seq(Attempts), Len(attempt') = now',
         UNCHANGED <<db, injectedAt, killedAt, recPc, healthy>>
  PROVE  RecTypes'
  BY DEF RecTypes

\* Time passes.
LEMMA InstantsGrow ==
  ASSUME NEW m \in Nat, NEW n \in Nat, NEW i \in Int, m <= n, i <= Instant(m)
  PROVE  i <= Instant(n)
  BY DEF Instant

LEMMA PhaseLasts ==
  ASSUME PhaseInv, RecTypes, now' = now \/ now' = now + 1,
         UNCHANGED <<db, injectedAt, killedAt, recPc>>
  PROVE  PhaseInv'
  <1>1. now \in Nat /\ injectedAt \in Nat /\ killedAt \in Nat
    BY DEF RecTypes
  <1>2. now' \in Nat /\ now <= now'
    BY <1>1
  <1>3. recPc # "record" => injectedAt <= Instant(now')
    <2>1. recPc # "record" => injectedAt <= Instant(now)
      BY DEF PhaseInv
    <2> QED
      BY <1>1, <1>2, <2>1, InstantsGrow
  <1>4. db # "up" => killedAt <= now'
    <2>1. db # "up" => killedAt <= now
      BY DEF PhaseInv
    <2> QED
      BY <1>1, <1>2, <2>1
  <1> QED
    BY <1>3, <1>4 DEF PhaseInv, Instant

LEMMA KilledBefore ==
  ASSUME RecTypes, PhaseInv, db # "up"
  PROVE  killedAt <= now /\ injectedAt <= Instant(killedAt)
  BY DEF PhaseInv

LEMMA OutageFacts ==
  ASSUME RecTypes, OutageInv, db = "promoted"
  PROVE  /\ killedAt + AttemptTimeout + 2 <= now
         /\ killedAt + 1 \in 1..now
         /\ attempt[killedAt + 1].result = "fail"
  <1>1. now \in Nat /\ killedAt \in Nat
    BY DEF RecTypes
  <1>2. killedAt + AttemptTimeout + 2 <= now /\ attempt[killedAt + 1].result = "fail"
    BY DEF OutageInv
  <1> QED
    BY <1>1, <1>2, RecordFacts

LEMMA StartAttemptKeeps ==
  ASSUME RecInv, StartAttempt PROVE RecInv'
  <1> USE RecordFacts
  <1> DEFINE new == [result |-> "pending", end |-> 0, on |-> "none"]
  <1>1. /\ now' = now + 1 /\ attempt' = Append(attempt, new)
        /\ UNCHANGED <<wal, db, injectedAt, killedAt, recPc, probeLog, present, healthy>>
    BY DEF StartAttempt
  <1>2. /\ now \in Nat /\ killedAt \in Nat /\ injectedAt \in Nat
        /\ DOMAIN attempt = 1..now
        /\ \A a \in 1..now : attempt[a] \in Attempts
    BY TypeFacts DEF RecInv
  <1>3. new \in Attempts
    BY DEF Attempts
  <1> HIDE DEF new
  <1>4. /\ attempt' \in Seq(Attempts) /\ Len(attempt') = now + 1
        /\ DOMAIN attempt' = 1..(now + 1)
        /\ \A a \in 1..now : attempt'[a] = attempt[a]
        /\ attempt'[now + 1] = new
    <2>1. attempt \in Seq(Attempts) /\ Len(attempt) = now
      BY DEF RecInv, RecTypes
    <2> QED
      BY <1>1, <1>2, <1>3, <2>1
  <1>5. RecTypes'
    <2>1. now' \in Nat /\ Len(attempt') = now'
      BY <1>1, <1>2, <1>4
    <2>2. RecTypes
      BY DEF RecInv
    <2> QED
      BY <1>1, <1>4, <2>1, <2>2, TypesKept
  <1>6. PhaseInv'
    <2>1. PhaseInv /\ RecTypes
      BY DEF RecInv
    <2>2. now' = now + 1 /\ UNCHANGED <<db, injectedAt, killedAt, recPc>>
      BY <1>1
    <2> QED
      BY <2>1, <2>2, PhaseLasts
  <1>7. OutageInv'
    <2>1. OutageInv /\ RecTypes
      BY DEF RecInv
    <2>2. db = "promoted" =>
            killedAt + 1 \in 1..now /\ killedAt + AttemptTimeout + 2 <= now + 1
      BY <1>2, <2>1, OutageFacts, RecordFacts
    <2> QED
      BY <1>1, <1>4, <2>1, <2>2 DEF OutageInv
  <1>8. ReadInv'
    <2>1. Ended' = Ended
      BY <1>2, <1>4 DEF Ended, Pending, new
    <2>2. \A a \in Ended : a \in 1..now
      BY <1>2 DEF Ended
    <2> QED
      BY <1>1, <1>4, <2>1, <2>2 DEF RecInv, ReadInv
  <1>9. ASSUME NEW a \in DOMAIN attempt' PROVE OneAttempt(a)'
    <2>1. CASE a = now + 1
      <3>1. /\ attempt'[a].result = "pending" /\ attempt'[a].on = "none"
            /\ a = now'
        BY <1>1, <1>4, <2>1 DEF new
      <3>2. db # "up" => killedAt < a
        <4>1. PhaseInv /\ RecTypes
          BY DEF RecInv
        <4>2. db # "up" => killedAt <= now
          BY <4>1, KilledBefore
        <4> QED
          BY <1>2, <2>1, <4>2
      <3> QED
        BY <1>1, <1>2, <3>1, <3>2 DEF OneAttempt, Pending
    <2>2. CASE a \in 1..now
      <3>1. attempt'[a] = attempt[a] /\ OneAttempt(a) /\ attempt[a].end \in Nat
        BY <1>2, <1>4, <2>2, AttemptFields DEF RecInv
      <3>2. Pending(a) => ~Answers /\ now - a < AttemptTimeout
        BY <1>2, <2>2 DEF StartAttempt
      <3>3. attempt[a].result = "ok" =>
              attempt[a].on # "none" /\ attempt[a].end <= Instant(now')
        BY <1>1, <1>2, <3>1 DEF OneAttempt, Instant
      <3>4. Pending(a) => now' - a <= AttemptTimeout
        BY <1>1, <1>2, <2>2, <3>2
      <3>5. healthy => /\ db = "up" => attempt[a].result # "fail" /\ ~Pending(a)
                       /\ db # "up" /\ a < killedAt => attempt[a].result = "ok"
        BY <3>1, <3>2 DEF OneAttempt, Answers
      <3>6. Pending(a)' <=> Pending(a)
        BY <3>1 DEF Pending
      <3> QED
        BY <1>1, <3>1, <3>3, <3>4, <3>5, <3>6 DEF OneAttempt
    <2> QED
      BY <1>2, <1>4, <2>1, <2>2
  <1> QED
    BY <1>5, <1>6, <1>7, <1>8, <1>9 DEF RecInv

\* A step that changes one attempt which has not ended.
LEMMA OneChanges ==
  ASSUME RecInv, NEW a \in DOMAIN attempt, Pending(a), NEW r \in Attempts,
         attempt' = [attempt EXCEPT ![a] = r],
         r.result = "ok" => r.end = Instant(now),
         OneAttempt(a)', recPc \notin {"compared", "no leader"},
         UNCHANGED <<now, db, injectedAt, killedAt, recPc, probeLog, healthy>>
  PROVE  RecInv'
  <1> USE RecordFacts
  <1>1. /\ now \in Nat /\ killedAt \in Nat /\ injectedAt \in Nat
        /\ DOMAIN attempt = 1..now
        /\ \A b \in 1..now : attempt[b] \in Attempts
        /\ attempt \in Seq(Attempts) /\ Len(attempt) = now
    BY TypeFacts DEF RecInv, RecTypes
  <1>2. /\ DOMAIN attempt' = 1..now
        /\ \A b \in 1..now : b # a => attempt'[b] = attempt[b]
        /\ attempt'[a] = r
        /\ attempt' \in Seq(Attempts) /\ Len(attempt') = now
    <2>1. attempt' \in Seq(Attempts) /\ Len(attempt') = Len(attempt)
          /\ DOMAIN attempt' = DOMAIN attempt
      BY <1>1, ExceptSeq
    <2>2. attempt'[a] = r
      OBVIOUS
    <2>3. \A b \in DOMAIN attempt : b # a => attempt'[b] = attempt[b]
      OBVIOUS
    <2> QED
      BY <1>1, <2>1, <2>2, <2>3
  <1>3. RecTypes'
    <2>1. RecTypes
      BY DEF RecInv
    <2> QED
      BY <1>1, <1>2, <2>1, TypesKept
  <1>4. PhaseInv'
    BY DEF RecInv, PhaseInv, Instant
  <1>5. OutageInv'
    <2>1. attempt[killedAt + 1].result = "fail" => killedAt + 1 # a
      BY DEF Pending
    <2>2. OutageInv /\ RecTypes
      BY DEF RecInv
    <2>3. db = "promoted" => killedAt + 1 \in 1..now
      BY <2>2, OutageFacts
    <2> QED
      BY <1>2, <2>1, <2>2, <2>3 DEF OutageInv
  <1>6. ReadInv'
    <2>1. recPc \in {"second read", "compared"} => a \notin DOMAIN probeLog
      BY DEF RecInv, ReadInv, Ended
    <2>2. Ended \subseteq Ended' /\ Ended' \subseteq Ended \cup {a}
          /\ Ended \subseteq 1..now
      BY <1>1, <1>2 DEF Ended, Pending
    <2>3. recPc # "record" => injectedAt <= Instant(now)
      BY DEF RecInv, PhaseInv
    <2>4. recPc \in {"second read", "compared"} =>
            \A b \in DOMAIN probeLog : probeLog[b] = attempt'[b]
      BY <1>2, <2>1, <2>2 DEF RecInv, ReadInv
    <2>5. recPc \in {"second read", "compared"} =>
            \A b \in Ended' \ DOMAIN probeLog :
              attempt'[b].result = "ok" => attempt'[b].end >= injectedAt
      <3> SUFFICES ASSUME recPc \in {"second read", "compared"},
                          NEW b \in Ended' \ DOMAIN probeLog,
                          attempt'[b].result = "ok"
                   PROVE  attempt'[b].end >= injectedAt
        OBVIOUS
      <3>1. CASE b = a
        BY <1>1, <1>2, <2>3, <3>1 DEF Instant
      <3>2. CASE b # a
        BY <1>2, <2>2, <3>2 DEF RecInv, ReadInv
      <3> QED
        BY <3>1, <3>2
    <2> QED
      BY <2>2, <2>4, <2>5 DEF RecInv, ReadInv
  <1>7. ASSUME NEW b \in DOMAIN attempt' PROVE OneAttempt(b)'
    <2>1. CASE b # a
      <3>1. attempt'[b] = attempt[b] /\ OneAttempt(b)
        BY <1>1, <1>2, <2>1 DEF RecInv
      <3> QED
        BY <3>1 DEF OneAttempt, Pending, Instant
    <2> QED
      BY <2>1
  <1> QED
    BY <1>3, <1>4, <1>5, <1>6, <1>7 DEF RecInv
LEMMA CommitKeeps ==
  ASSUME RecInv, RecNext, NEW a \in DOMAIN attempt, Commit(a) PROVE RecInv'
  <1> DEFINE r == [attempt[a] EXCEPT !.on = IF db = "up" THEN "old" ELSE "new"]
  <1>1. RecTypes /\ OneAttempt(a) /\ attempt[a] \in Attempts
    BY TypeFacts DEF RecInv
  <1>2. /\ Pending(a) /\ db # "down" /\ attempt' = [attempt EXCEPT ![a] = r]
        /\ UNCHANGED <<now, db, injectedAt, killedAt, recPc, probeLog, healthy>>
    BY DEF Commit
  <1>3. r \in Attempts /\ r.result = "pending" /\ r.on = (IF db = "up" THEN "old" ELSE "new")
    BY <1>1, <1>2 DEF Attempts, Pending
  <1>4. attempt'[a] = r
    BY <1>2
  <1> HIDE DEF r
  <1>5. db \in {"up", "promoted"}
    BY <1>1, <1>2 DEF RecTypes
  <1>6. OneAttempt(a)'
    BY <1>1, <1>2, <1>3, <1>4, <1>5 DEF OneAttempt, Pending
  <1>7. recPc \notin {"compared", "no leader"}
    BY DEF RecNext
  <1> QED
    BY <1>2, <1>3, <1>6, <1>7, OneChanges

LEMMA EndAttemptKeeps ==
  ASSUME RecInv, RecNext, NEW a \in DOMAIN attempt, NEW result \in {"ok", "fail"},
         EndAttempt(a, result)
  PROVE  RecInv'
  <1> DEFINE r == IF result = "ok"
                  THEN [attempt[a] EXCEPT !.result = "ok", !.end = Instant(now)]
                  ELSE Failed
  <1>1. /\ RecTypes /\ OutageInv /\ OneAttempt(a) /\ attempt[a] \in Attempts
        /\ now \in Nat /\ killedAt \in Nat
    BY TypeFacts DEF RecInv
  <1>2. /\ Pending(a) /\ attempt' = [attempt EXCEPT ![a] = r]
        /\ result = "ok" => attempt[a].on # "none"
        /\ result = "fail" => ~Answers
        /\ UNCHANGED <<now, db, injectedAt, killedAt, recPc, probeLog, healthy>>
    BY DEF EndAttempt
  <1>3. Instant(now) \in Nat
    BY <1>1 DEF Instant
  <1>4. /\ r \in Attempts /\ r.result = result
        /\ result = "ok" => r.end = Instant(now) /\ r.on = attempt[a].on
        /\ result = "fail" => r.on = "none"
    <2>1. CASE result = "ok"
      BY <1>1, <1>3, <2>1 DEF Attempts
    <2>2. CASE result = "fail"
      BY <2>2 DEF Attempts, Failed
    <2> QED
      BY <2>1, <2>2
  <1>5. attempt'[a] = r
    BY <1>2
  <1> HIDE DEF r
  <1>6. OneAttempt(a)'
    <2>1. Instant(now)' = Instant(now)
          /\ Instant(killedAt + AttemptTimeout + 2)' = Instant(killedAt + AttemptTimeout + 2)
      BY <1>2 DEF Instant
    <2>2. CASE result = "ok"
      <3>1. attempt[a].on = "new" =>
              Instant(now) >= Instant(killedAt + AttemptTimeout + 2)
        <4>1. attempt[a].on = "new" => killedAt + AttemptTimeout + 2 <= now
          BY <1>1, OutageFacts DEF OneAttempt
        <4> QED
          BY <1>1, <4>1, RecordFacts DEF Instant
      <3>2. Instant(now) <= Instant(now)
        BY <1>3
      <3> QED
        BY <1>1, <1>2, <1>4, <1>5, <2>1, <2>2, <3>1, <3>2 DEF OneAttempt, Pending
    <2>3. CASE result = "fail"
      <3>1. healthy => db # "up" /\ ~(a < killedAt)
        BY <1>1, <1>2, <2>3 DEF RecTypes, OneAttempt, Answers, Pending
      <3> QED
        BY <1>2, <1>4, <1>5, <2>3, <3>1 DEF OneAttempt, Pending
    <2> QED
      BY <2>2, <2>3
  <1>7. recPc \notin {"compared", "no leader"}
    BY DEF RecNext
  <1> QED
    BY <1>2, <1>4, <1>6, <1>7, OneChanges

LEMMA PrintTimeKeeps == ASSUME RecInv, PrintTime PROVE RecInv'
  <1>1. RecTypes /\ PhaseInv /\ now \in Nat
    BY TypeFacts DEF RecInv
  <1>2. /\ recPc = "record" /\ recPc' = "kill" /\ injectedAt' = Instant(now)
        /\ UNCHANGED <<now, attempt, wal, db, killedAt, probeLog, present, healthy>>
    BY DEF PrintTime
  <1>3. db = "up" /\ Instant(now) \in Nat /\ Instant(now) <= Instant(now)
    BY <1>1, <1>2 DEF PhaseInv, Instant
  <1>4. RecTypes'
    BY <1>1, <1>2, <1>3 DEF RecTypes
  <1>5. PhaseInv'
    <2>1. Instant(now)' = Instant(now)
      BY <1>2 DEF Instant
    <2> QED
      BY <1>2, <1>3, <2>1 DEF PhaseInv
  <1>6. OutageInv' /\ ReadInv'
    BY <1>2, <1>3 DEF OutageInv, ReadInv
  <1>7. ASSUME NEW a \in DOMAIN attempt PROVE OneAttempt(a)'
    BY <1>2 DEF RecInv, OneAttempt, Pending, Instant
  <1> QED
    BY <1>2, <1>4, <1>5, <1>6, <1>7 DEF RecInv

LEMMA KillPrimaryKeeps == ASSUME RecInv, KillPrimary PROVE RecInv'
  <1>1. /\ RecTypes /\ PhaseInv /\ now \in Nat /\ DOMAIN attempt = 1..now
        /\ \A a \in 1..now : OneAttempt(a) /\ attempt[a] \in Attempts
    BY TypeFacts DEF RecInv
  <1>2. /\ recPc = "kill" /\ recPc' = "follow" /\ db' = "down" /\ killedAt' = now
        /\ UNCHANGED <<now, attempt, wal, injectedAt, probeLog, present, healthy>>
    BY DEF KillPrimary
  <1>3. db = "up" /\ injectedAt <= Instant(now)
    BY <1>1, <1>2 DEF PhaseInv
  <1>4. RecTypes'
    BY <1>1, <1>2 DEF RecTypes
  <1>5. PhaseInv'
    <2>1. Instant(killedAt)' = Instant(now) /\ Instant(now)' = Instant(now) /\ now <= now
      BY <1>1, <1>2 DEF Instant
    <2> QED
      BY <1>2, <1>3, <2>1 DEF PhaseInv
  <1>6. OutageInv' /\ ReadInv'
    BY <1>2 DEF OutageInv, ReadInv
  <1>7. ASSUME NEW a \in DOMAIN attempt' PROVE OneAttempt(a)'
    <2>1. a \in 1..now /\ OneAttempt(a) /\ attempt[a].result \in {"pending", "ok", "fail"}
      BY <1>1, <1>2, AttemptFields
    <2>2. ~(a > now) /\ attempt[a].on # "new"
      BY <1>3, <2>1, <1>1 DEF OneAttempt
    <2>3. healthy => (a < now => attempt[a].result = "ok")
      BY <1>3, <2>1 DEF OneAttempt, Pending
    <2>4. Instant(now)' = Instant(now)
      BY <1>2 DEF Instant
    <2> QED
      BY <1>2, <2>1, <2>2, <2>3, <2>4 DEF OneAttempt, Pending
  <1> QED
    BY <1>4, <1>5, <1>6, <1>7 DEF RecInv

\* The attempt of the interval after the kill has timed out by now: a replica is
\* promoted only then.
LEMMA PromoteKeeps == ASSUME RecInv, Promote PROVE RecInv'
  <1>1. /\ RecTypes /\ PhaseInv /\ now \in Nat /\ killedAt \in Nat
        /\ DOMAIN attempt = 1..now
        /\ \A a \in 1..now : OneAttempt(a) /\ attempt[a] \in Attempts
    BY TypeFacts DEF RecInv
  <1>2. /\ db = "down" /\ db' = "promoted" /\ now - killedAt > AttemptTimeout + 1
        /\ UNCHANGED <<now, attempt, injectedAt, killedAt, recPc, probeLog, present,
                       healthy>>
    BY DEF Promote
  <1>3. RecTypes'
    BY <1>1, <1>2 DEF RecTypes
  <1>4. PhaseInv'
    <2>1. Instant(killedAt)' = Instant(killedAt) /\ Instant(now)' = Instant(now)
      BY <1>2 DEF Instant
    <2> QED
      BY <1>1, <1>2, <2>1 DEF PhaseInv
  <1>5. OutageInv'
    <2>1. killedAt + AttemptTimeout + 2 <= now /\ killedAt + 1 \in 1..now
          /\ killedAt + 1 > killedAt /\ ~(now - (killedAt + 1) <= AttemptTimeout)
      BY <1>1, <1>2, RecordFacts
    <2>2. OneAttempt(killedAt + 1)
          /\ attempt[killedAt + 1].result \in {"pending", "ok", "fail"}
          /\ attempt[killedAt + 1].on \in {"none", "old", "new"}
      BY <1>1, <2>1, AttemptFields
    <2>3. attempt[killedAt + 1].result = "fail"
      BY <1>2, <2>1, <2>2 DEF OneAttempt, Pending
    <2> QED
      BY <1>2, <2>1, <2>3 DEF OutageInv
  <1>6. ReadInv'
    BY <1>1, <1>2 DEF PhaseInv, ReadInv
  <1>7. ASSUME NEW a \in DOMAIN attempt' PROVE OneAttempt(a)'
    BY <1>1, <1>2 DEF OneAttempt, Pending, Instant
  <1> QED
    BY <1>3, <1>4, <1>5, <1>6, <1>7 DEF RecInv

LEMMA FollowWritesKeeps == ASSUME RecInv, FollowWrites PROVE RecInv'
  <1>1. RecTypes /\ PhaseInv /\ OutageInv
    BY DEF RecInv
  <1>2. /\ recPc = "follow"
        /\ \/ db = "promoted" /\ recPc' = "first read"
           \/ db = "down" /\ recPc' = "no leader"
        /\ UNCHANGED <<now, attempt, wal, db, injectedAt, killedAt, probeLog, present,
                       healthy>>
    BY DEF FollowWrites
  <1>3. RecTypes'
    BY <1>1, <1>2 DEF RecTypes
  <1>4. PhaseInv'
    BY <1>1, <1>2 DEF PhaseInv, Instant
  <1>5. OutageInv' /\ ReadInv'
    BY <1>1, <1>2 DEF OutageInv, ReadInv
  <1>6. ASSUME NEW a \in DOMAIN attempt PROVE OneAttempt(a)'
    BY <1>2 DEF RecInv, OneAttempt, Pending, Instant
  <1> QED
    BY <1>2, <1>3, <1>4, <1>5, <1>6 DEF RecInv

\* The log is read before the rows.
LEMMA ReadsKeep == ASSUME RecInv, ReadLogs \/ ReadTags PROVE RecInv'
  <1>1. RecTypes /\ PhaseInv /\ OutageInv /\ ReadInv /\ DOMAIN attempt = 1..now
    BY TypeFacts DEF RecInv
  <1>2. UNCHANGED <<now, attempt, wal, db, injectedAt, killedAt, healthy>>
    BY DEF ReadLogs, ReadTags
  <1>3. \/ recPc = "first read" /\ recPc' = "second read"
           /\ probeLog' = Restrict(attempt, Ended)
        \/ recPc = "second read" /\ recPc' = "compared"
           /\ present' = Range(wal) /\ probeLog' = probeLog
    BY DEF ReadLogs, ReadTags, AfterRead, ReadOrder
  <1>4. RecTypes'
    BY <1>1, <1>2, <1>3 DEF RecTypes
  <1>5. PhaseInv'
    BY <1>1, <1>2, <1>3 DEF PhaseInv, Instant
  <1>6. OutageInv'
    BY <1>1, <1>2 DEF OutageInv
  <1>7. ReadInv'
    <2>1. Ended' = Ended
      BY <1>2 DEF Ended, Pending
    <2>2. CASE recPc = "first read"
      <3>1. recPc' = "second read" /\ probeLog' = [a \in Ended |-> attempt[a]]
        BY <1>3, <2>2 DEF Restrict
      <3>2. killedAt + 1 \in Ended
        <4>1. db = "promoted"
          BY <1>1, <2>2 DEF PhaseInv
        <4>2. killedAt + 1 \in 1..now /\ attempt[killedAt + 1].result = "fail"
          BY <1>1, <4>1, OutageFacts
        <4> QED
          BY <1>1, <4>2 DEF Ended, Pending
      <3> QED
        BY <1>2, <2>1, <3>1, <3>2 DEF ReadInv
    <2>3. CASE recPc = "second read"
      <3>1. recPc' = "compared" /\ present' = Range(wal) /\ probeLog' = probeLog
        BY <1>3, <2>3
      <3>2. Range(wal)' = Range(wal)
        BY <1>2
      <3> QED
        BY <1>1, <1>2, <2>1, <2>3, <3>1, <3>2 DEF ReadInv
    <2> QED
      BY <1>3, <2>2, <2>3
  <1>8. ASSUME NEW a \in DOMAIN attempt PROVE OneAttempt(a)'
    BY <1>2 DEF RecInv, OneAttempt, Pending, Instant
  <1> QED
    BY <1>2, <1>4, <1>5, <1>6, <1>7, <1>8 DEF RecInv

LEMMA RecordStutters == ASSUME RecInv, UNCHANGED recVars PROVE RecInv'
  BY DEF recVars, RecInv, RecTypes, PhaseInv, OutageInv, ReadInv, OneAttempt, Pending,
         Ended, Instant, Range

LEMMA RecStep == RecInv /\ [RecNext]_recVars => RecInv'
  <1> SUFFICES ASSUME RecInv, [RecNext]_recVars PROVE RecInv'
    OBVIOUS
  <1>1. CASE UNCHANGED recVars
    BY <1>1, RecordStutters
  <1>2. CASE RecNext
    <2>1. CASE StartAttempt
      BY <2>1, StartAttemptKeeps
    <2>2. ASSUME NEW a \in DOMAIN attempt,
                 Commit(a) \/ EndAttempt(a, "ok") \/ EndAttempt(a, "fail")
          PROVE  RecInv'
      BY <1>2, <2>2, CommitKeeps, EndAttemptKeeps
    <2>3. CASE PrintTime \/ KillPrimary \/ Promote
      BY <2>3, PrintTimeKeeps, KillPrimaryKeeps, PromoteKeeps
    <2>4. CASE FollowWrites \/ ReadLogs \/ ReadTags
      BY <2>4, FollowWritesKeeps, ReadsKeep
    <2> QED
      BY <1>2, <2>1, <2>2, <2>3, <2>4 DEF RecNext
  <1> QED
    BY <1>1, <1>2

\* What the recorder, the old Primary and the new one may have done to an attempt,
\* for every timeout and every length of the outage.
THEOREM RecordInvariant == RecSpec => []RecInv
  BY RecInitInv, RecStep, PTL DEF RecSpec
\* For any timing of the recorder, the kill and the two reads: H-4 reports as lost
\* only rows that were answered and are not on the new Primary, and when it
\* passes, no row answered before the injection is missing.
THEOREM LossesAreReal == RecSpec => []LossIsReal
  <1>1. ASSUME RecInv, recPc = "compared" PROVE LossIsReal
    <2>1. /\ DOMAIN probeLog \subseteq Ended
          /\ \A a \in DOMAIN probeLog : probeLog[a] = attempt[a]
          /\ \A a \in Ended \ DOMAIN probeLog :
               attempt[a].result = "ok" => attempt[a].end >= injectedAt
          /\ present = Range(wal)
      BY <1>1 DEF RecInv, ReadInv
    <2>2. ASSUME NEW a \in Lost(Acked)
          PROVE  attempt[a].result = "ok" /\ a \notin Range(wal)
      BY <2>1 DEF Lost, Acked, Logged, ProbeRows
    <2>3. ASSUME H4Passes, NEW a \in Ended,
                 attempt[a].result = "ok", attempt[a].end < injectedAt
          PROVE  a \in Range(wal)
      <3>1. attempt[a].end \in Nat /\ injectedAt \in Nat
        BY <1>1, TypeFacts, AttemptFields DEF RecInv, Ended
      <3>2. a \in Acked
        BY <2>1, <2>3, <3>1 DEF Acked, Logged
      <3> QED
        BY <2>1, <2>3, <3>2 DEF H4Passes, Lost, ProbeRows
    <2> QED
      BY <2>2, <2>3 DEF LossIsReal
  <1>2. RecInv => LossIsReal
    BY <1>1 DEF LossIsReal
  <1> QED
    BY <1>2, RecordInvariant, PTL

Answered(on) ==
  {attempt[a].end : a \in {b \in Ended : attempt[b].result = "ok" /\ attempt[b].on = on}}

\* The failure that write_stop counts from is of the interval of the kill or of
\* the next one.
LEMMA FirstFailure ==
  ASSUME RecInv, recPc = "compared", healthy
  PROVE  /\ Min(Failures) \in Failures
         /\ killedAt <= Min(Failures) /\ Min(Failures) <= killedAt + 1
  <1>1. /\ RecTypes /\ PhaseInv /\ OutageInv /\ ReadInv
        /\ now \in Nat /\ killedAt \in Nat /\ injectedAt \in Nat
        /\ DOMAIN attempt = 1..now
        /\ \A a \in 1..now : OneAttempt(a)
    BY TypeFacts DEF RecInv
  <1>2. /\ db = "promoted" /\ DOMAIN probeLog \subseteq 1..now
        /\ \A a \in DOMAIN probeLog : probeLog[a] = attempt[a]
        /\ killedAt + 1 \in DOMAIN probeLog
    BY <1>1 DEF PhaseInv, ReadInv, Ended
  <1>3. killedAt + 1 \in Failures
    <2>1. attempt[killedAt + 1].result = "fail" /\ injectedAt <= Instant(killedAt)
      BY <1>1, <1>2, OutageFacts, KilledBefore
    <2>2. StartOf(killedAt + 1) >= injectedAt
      BY <1>1, <2>1 DEF StartOf, Instant
    <2> QED
      BY <1>2, <2>1, <2>2 DEF Failures, Window, Logged
  <1>4. Failures \in SUBSET Nat /\ Failures # {}
    BY <1>1, <1>2, <1>3 DEF Failures, Window, Logged
  <1>5. Min(Failures) \in Failures /\ Min(Failures) <= killedAt + 1
    BY <1>3, <1>4, MinOfNaturals
  <1>6. ASSUME NEW a \in Failures PROVE killedAt <= a
    <2>1. a \in 1..now /\ attempt[a].result = "fail" /\ OneAttempt(a)
      BY <1>1, <1>2 DEF Failures, Window, Logged
    <2> QED
      BY <1>1, <1>2, <2>1 DEF OneAttempt
  <1> QED
    BY <1>5, <1>6

\* Attempts answered after that failure were answered by the new Primary, answers
\* that came before it are of the old one.
LEMMA WhoAnswered ==
  ASSUME RecInv, recPc = "compared", healthy, NEW a \in Acked
  PROVE  /\ a \in Ended /\ attempt[a].result = "ok" /\ probeLog[a].end = attempt[a].end
         /\ StartOf(a) >= StartOf(Min(Failures)) => attempt[a].on = "new"
         /\ attempt[a].end <= StartOf(Min(Failures)) => attempt[a].on = "old"
  <1> DEFINE f == Min(Failures)
  <1>1. /\ RecTypes /\ PhaseInv /\ ReadInv
        /\ now \in Nat /\ killedAt \in Nat /\ DOMAIN attempt = 1..now
        /\ \A b \in 1..now : OneAttempt(b) /\ attempt[b] \in Attempts
    BY TypeFacts DEF RecInv
  <1>2. /\ db = "promoted" /\ DOMAIN probeLog \subseteq Ended
        /\ \A b \in DOMAIN probeLog : probeLog[b] = attempt[b]
    BY <1>1 DEF PhaseInv, ReadInv
  <1>3. f \in Failures /\ killedAt <= f /\ f <= killedAt + 1
    BY FirstFailure
  <1>4. f \in 1..now /\ attempt[f].result = "fail"
    BY <1>1, <1>2, <1>3 DEF Failures, Window, Logged, Ended
  <1> HIDE DEF f
  <1>5. a \in Ended /\ attempt[a].result = "ok" /\ probeLog[a].end = attempt[a].end
    BY <1>2 DEF Acked, Logged
  <1>6. /\ a \in 1..now /\ OneAttempt(a) /\ attempt[a].end \in Nat
        /\ attempt[a].on \in {"none", "old", "new"}
    BY <1>1, <1>5, AttemptFields DEF Ended
  <1>7. attempt[a].on \in {"old", "new"}
    BY <1>5, <1>6 DEF OneAttempt
  <1>8. StartOf(a) >= StartOf(f) => attempt[a].on = "new"
    <2>1. a # f
      BY <1>4, <1>5
    <2>2. StartOf(a) >= StartOf(f) => a > killedAt
      BY <1>1, <1>3, <1>4, <1>6, <2>1 DEF StartOf
    <2> QED
      BY <1>2, <1>6, <1>7, <2>2 DEF OneAttempt
  <1>9. attempt[a].end <= StartOf(f) => attempt[a].on = "old"
    <2>1. attempt[a].on = "new" => attempt[a].end >= Instant(killedAt + AttemptTimeout + 2)
      BY <1>5, <1>6 DEF OneAttempt
    <2>2. attempt[a].on = "new" => ~(attempt[a].end <= StartOf(f))
      BY <1>1, <1>3, <1>4, <1>6, <2>1, RecordFacts DEF StartOf, Instant
    <2> QED
      BY <1>7, <2>2
  <1> QED
    BY <1>5, <1>8, <1>9 DEF f

\* For any timing: the stop that H-3 measures is at least the time from the last
\* answer of a healthy old Primary to the first answer of the new one.
THEOREM StopIsNotUnderstated == RecSpec => []StopCoversOutage
  <1>1. ASSUME RecInv, recPc = "compared", healthy, NEW stop \in WriteStop
        PROVE  /\ Answered("new") # {}
               /\ Answered("old") # {} => stop >= Min(Answered("new")) - Max(Answered("old"))
    <2> DEFINE f == Min(Failures)
               ended == Ends(StartedSince(f))
               before == {e \in Ends(Acked) : e <= StartOf(f)}
               origin == IF before = {} THEN injectedAt ELSE Max(before)
    <2>1. ended # {} /\ stop = Min(ended) - origin
      BY <1>1 DEF WriteStop, Ends
    <2>2. /\ now \in Nat /\ injectedAt \in Nat /\ ReadInv
          /\ \A a \in Ended : /\ attempt[a].end \in Nat
                              /\ attempt[a].result = "ok" => attempt[a].end <= Instant(now)
          /\ \A a \in Acked : a \in Nat
      BY <1>1, TypeFacts, AttemptFields, WhoAnswered DEF RecInv, Ended, OneAttempt
    <2>3. Answered("new") \in SUBSET Nat /\ Answered("old") \in SUBSET Nat
          /\ (\A e \in Answered("old") : e <= Instant(now))
          /\ Instant(now) \in Nat
      BY <2>2 DEF Answered, Instant
    <2>4. ended \subseteq Answered("new")
      BY <1>1, WhoAnswered DEF StartedSince, Ends, Answered
    <2>5. before \subseteq Answered("old")
      BY <1>1, WhoAnswered DEF Ends, Answered
    <2>6. f \in Failures /\ f \in Nat /\ StartOf(f) >= injectedAt /\ StartOf(f) \in Nat
      <3>1. f \in Failures
        BY <1>1, FirstFailure
      <3>2. f \in Nat /\ StartOf(f) >= injectedAt
        BY <1>1, <2>2, <3>1, TypeFacts DEF Failures, Window, Logged, ReadInv, Ended, RecInv
      <3> QED
        BY <3>1, <3>2 DEF StartOf
    <2>7. ASSUME NEW e \in Answered("old"), before = {} PROVE injectedAt <= e
      <3>1. PICK b \in Ended : e = attempt[b].end /\ attempt[b].result = "ok"
        BY DEF Answered
      <3>2. CASE b \in DOMAIN probeLog
        <4>1. b \in Acked /\ probeLog[b] = attempt[b]
          BY <1>1, <2>2, <3>1, <3>2 DEF Acked, Logged, ReadInv
        <4>2. e \in Ends(Acked)
          BY <3>1, <4>1 DEF Ends
        <4>3. ~(e <= StartOf(f))
          BY <2>7, <4>2
        <4> QED
          BY <2>2, <2>3, <2>6, <4>3
      <3>3. CASE b \notin DOMAIN probeLog
        BY <1>1, <2>2, <3>1, <3>3 DEF ReadInv
      <3> QED
        BY <3>2, <3>3
    <2> HIDE DEF f, ended, before
    <2>8. /\ Min(ended) \in Nat /\ Min(Answered("new")) \in Nat
          /\ Min(Answered("new")) <= Min(ended)
      BY <2>1, <2>3, <2>4, MinOfNaturals
    <2>9. ASSUME Answered("old") # {}
          PROVE  /\ origin \in Nat /\ Max(Answered("old")) \in Nat
                 /\ origin <= Max(Answered("old"))
      <3>1. Max(Answered("old")) \in Answered("old")
            /\ \A e \in Answered("old") : e <= Max(Answered("old"))
        BY <2>3, <2>9, MaxOfBounded
      <3>2. CASE before = {}
        BY <2>2, <2>3, <2>7, <3>1, <3>2
      <3>3. CASE before # {}
        <4>1. before \in SUBSET Nat /\ \A e \in before : e <= Instant(now)
          BY <2>3, <2>5
        <4>2. Max(before) \in before
          BY <2>3, <3>3, <4>1, MaxOfBounded
        <4> QED
          BY <2>3, <2>5, <3>1, <3>3, <4>2
      <3> QED
        BY <3>2, <3>3
    <2> HIDE DEF origin
    <2> QED
      BY <2>1, <2>3, <2>4, <2>8, <2>9
  <1>2. RecInv => StopCoversOutage
    BY <1>1 DEF StopCoversOutage, Answered
  <1> QED
    BY <1>2, RecordInvariant, PTL

-----------------------------------------------------------------------------
(* The simulation.  A fold is a function on the subsets of its domain; two    *)
(* functions that obey the same recursion there agree.                        *)

LEMMA FoldsAgree ==
  ASSUME NEW S, IsFiniteSet(S), NEW f, NEW g, f[{}] = g[{}],
         \A s \in SUBSET S : s # {} =>
            \E x \in s : f[s \ {x}] = g[s \ {x}] => f[s] = g[s]
  PROVE  f[S] = g[S]
<1> DEFINE R   == StrictSubsetOrdering(S)
           Bad == {s \in SUBSET S : f[s] # g[s]}
<1>1. Bad \subseteq FiniteSubsetsOf(S)
  BY FS_Subset DEF FiniteSubsetsOf
<1>2. IsWellFoundedOn(R, FiniteSubsetsOf(S))
  BY FS_StrictSubsetOrderingWellFounded
<1>3. SUFFICES ASSUME Bad # {} PROVE FALSE
  OBVIOUS
<1> HIDE DEF R, Bad
<1>4. PICK s \in Bad : \A t \in Bad : <<t, s>> \notin R
  BY <1>1, <1>2, <1>3, WFMin
<1>5. s \in SUBSET S /\ f[s] # g[s]
  BY <1>4 DEF Bad
<1>6. PICK x \in s : f[s \ {x}] = g[s \ {x}] => f[s] = g[s]
  BY <1>5
<1>7. s \ {x} \in Bad
  BY <1>5, <1>6 DEF Bad
<1>8. <<s \ {x}, s>> \in R
  BY <1>5, <1>6 DEF R, StrictSubsetOrdering
<1> QED
  BY <1>4, <1>7, <1>8

LEMMA MaxOfOne == ASSUME NEW n \in Nat PROVE Max({n}) = n
  BY MaxOfBounded, {n} \in SUBSET Nat

\* The function of Applied's fold.
IsApplying(f, due) ==
  f = [s \in SUBSET due |-> IF s = {} THEN node
                            ELSE Change(f[s \ {Max(s)}], events[Max(s)])]

LEMMA AppliedIsFold ==
  ASSUME NEW due
  PROVE  Applied(due) = (CHOOSE f : IsApplying(f, due))[due]
  BY DEF Applied, MapThenFoldSet, IsApplying

\* The changes of at most three due entries, one after the other.
With(ns, due, i) == IF i \in due THEN Change(ns, events[i]) ELSE ns
InTurn(due) == With(With(With(node, due, 1), due, 2), due, 3)

LEMMA LastOfThree ==
  ASSUME NEW s \in SUBSET (1..3), s # {}
  PROVE  \/ 3 \in s /\ Max(s) = 3
         \/ 2 \in s /\ 3 \notin s /\ Max(s) = 2
         \/ 1 \in s /\ 2 \notin s /\ 3 \notin s /\ Max(s) = 1
  <1>1. s \in SUBSET Nat /\ \A x \in s : x <= 3
    OBVIOUS
  <1>2. Max(s) \in s /\ \A x \in s : x <= Max(s)
    BY <1>1, MaxOfBounded
  <1>3. \A x \in s : x = 1 \/ x = 2 \/ x = 3
    BY <1>1
  <1>4. Max(s) = 1 \/ Max(s) = 2 \/ Max(s) = 3
    BY <1>2, <1>3
  <1>5. CASE Max(s) = 1
    <2>1. 2 \notin s /\ 3 \notin s
      BY <1>2, <1>5
    <2> QED
      BY <1>2, <1>5, <2>1
  <1>6. CASE Max(s) = 2
    <2>1. 3 \notin s
      BY <1>2, <1>6
    <2> QED
      BY <1>2, <1>6, <2>1
  <1>7. CASE Max(s) = 3
    BY <1>2, <1>7
  <1> QED
    BY <1>4, <1>5, <1>6, <1>7

LEMMA InTurnStep ==
  ASSUME NEW s \in SUBSET (1..3), s # {}
  PROVE  InTurn(s) = Change(InTurn(s \ {Max(s)}), events[Max(s)])
  <1>1. CASE 3 \in s /\ Max(s) = 3
    BY <1>1 DEF InTurn, With
  <1>2. CASE 2 \in s /\ 3 \notin s /\ Max(s) = 2
    BY <1>2 DEF InTurn, With
  <1>3. CASE 1 \in s /\ 2 \notin s /\ 3 \notin s /\ Max(s) = 1
    BY <1>3 DEF InTurn, With
  <1> QED
    BY <1>1, <1>2, <1>3, LastOfThree

LEMMA AppliedInTurn ==
  ASSUME NEW due \in SUBSET (1..3)
  PROVE  Applied(due) = InTurn(due)
  <1> DEFINE g == [s \in SUBSET due |-> InTurn(s)]
             f == CHOOSE h : IsApplying(h, due)
  <1>1. IsApplying(g, due)
    <2>1. InTurn({}) = node
      BY DEF InTurn, With
    <2>2. ASSUME NEW s \in SUBSET due, s # {}
          PROVE  g[s] = Change(g[s \ {Max(s)}], events[Max(s)])
      BY <2>2, InTurnStep
    <2>3. g = [s \in SUBSET due |-> IF s = {} THEN node
                                   ELSE Change(g[s \ {Max(s)}], events[Max(s)])]
      BY <2>1, <2>2
    <2> HIDE DEF g
    <2> QED
      BY <2>3 DEF IsApplying
  <1> HIDE DEF g
  <1>2. IsApplying(f, due)
    BY <1>1
  <1> HIDE DEF f
  <1>3. ASSUME NEW s \in SUBSET due
        PROVE  /\ f[s] = IF s = {} THEN node ELSE Change(f[s \ {Max(s)}], events[Max(s)])
               /\ g[s] = IF s = {} THEN node ELSE Change(g[s \ {Max(s)}], events[Max(s)])
    BY <1>1, <1>2 DEF IsApplying
  <1>4. f[{}] = g[{}]
    BY <1>3
  <1>5. ASSUME NEW s \in SUBSET due, s # {}
        PROVE  \E x \in s : f[s \ {x}] = g[s \ {x}] => f[s] = g[s]
    <2>1. Max(s) \in s
      BY <1>5, LastOfThree
    <2> QED
      BY <1>3, <1>5, <2>1
  <1>6. IsFiniteSet(due)
    <2>1. IsFiniteSet(1..3)
      <3>1. 1 \in Int /\ 3 \in Int
        OBVIOUS
      <3> QED
        BY ONLY <3>1, FS_Interval
    <2> QED
      BY <2>1, FS_Subset
  <1>7. f[due] = g[due]
    BY <1>4, <1>5, <1>6, FoldsAgree
  <1>8. g[due] = InTurn(due)
    BY DEF g
  <1>9. Applied(due) = f[due]
    BY AppliedIsFold DEF f
  <1> QED
    BY <1>7, <1>8, <1>9

LEMMA AppliedOne ==
  ASSUME NEW i \in Nat
  PROVE  Applied({i}) = Change(node, events[i])
  <1> DEFINE g == [s \in SUBSET {i} |-> IF s = {} THEN node ELSE Change(node, events[i])]
             f == CHOOSE h : IsApplying(h, {i})
  <1>0. \A s \in SUBSET {i} : s # {} => s = {i} /\ Max(s) = i /\ s \ {Max(s)} = {}
    BY MaxOfOne
  <1>1. IsApplying(g, {i})
    <2>1. ASSUME NEW s \in SUBSET {i}, s # {}
          PROVE  g[s] = Change(g[s \ {Max(s)}], events[Max(s)])
      BY <1>0, <2>1
    <2>2. g = [s \in SUBSET {i} |-> IF s = {} THEN node
                                   ELSE Change(g[s \ {Max(s)}], events[Max(s)])]
      BY <2>1
    <2> HIDE DEF g
    <2> QED
      BY <2>2 DEF IsApplying
  <1> HIDE DEF g
  <1>2. IsApplying(f, {i})
    BY <1>1
  <1> HIDE DEF f
  <1>3. f[{}] = node
    BY <1>2 DEF IsApplying
  <1>4. f[{i}] = Change(f[{}], events[i])
    BY <1>0, <1>2 DEF IsApplying
  <1>5. Applied({i}) = f[{i}]
    BY AppliedIsFold DEF f
  <1> QED
    BY <1>3, <1>4, <1>5

LEMMA AppliedNone == Applied({}) = node
  BY AppliedInTurn DEF InTurn, With

\* The folds of the restoration, which revives one node at most.
LEMMA RevivedNone == ASSUME NEW ns PROVE FoldLeft(Revived, ns, SetToSeq({})) = ns
  <1> DEFINE sq == SetToSeq({})
             IsF(f) == f = [s \in SUBSET DOMAIN sq |->
                              IF s = {} THEN ns ELSE Revived(f[s \ {Max(s)}], sq[Max(s)])]
             f0 == CHOOSE f : IsF(f)
  <1>1. DOMAIN sq = {}
    <2>1. Cardinality({}) = 0
      BY FS_EmptySet
    <2>2. \E f \in [1..0 -> {}] : IsInjective(f)
      <3>1. [i \in 1..0 |-> i] \in [1..0 -> {}]
        OBVIOUS
      <3> QED
        BY <3>1 DEF IsInjective
    <2>3. sq \in [1..0 -> {}]
      BY <2>1, <2>2 DEF SetToSeq
    <2> QED
      BY <2>3
  <1>2. FoldLeft(Revived, ns, sq) = f0[DOMAIN sq]
    BY DEF FoldLeft, MapThenFoldSet
  <1> HIDE DEF sq
  <1>3. IsF([s \in SUBSET DOMAIN sq |-> ns])
    BY <1>1
  <1>4. IsF(f0)
    BY <1>3
  <1> HIDE DEF f0
  <1>5. f0[{}] = ns
    BY <1>4
  <1> QED
    BY <1>1, <1>2, <1>5 DEF sq

LEMMA SeqOfOne ==
  ASSUME NEW n PROVE SetToSeq({n}) = <<n>> /\ Cardinality({n}) = 1
  <1>1. Cardinality({n}) = 1
    BY FS_Singleton
  <1>2. \E f \in [1..1 -> {n}] : IsInjective(f)
    <2>1. [i \in 1..1 |-> n] \in [1..1 -> {n}] /\ IsInjective([i \in 1..1 |-> n])
      BY DEF IsInjective
    <2> QED
      BY <2>1
  <1>3. SetToSeq({n}) \in [1..1 -> {n}]
    BY <1>1, <1>2 DEF SetToSeq
  <1> QED
    BY <1>1, <1>3

LEMMA RevivedOne ==
  ASSUME NEW ns, NEW n PROVE FoldLeft(Revived, ns, <<n>>) = Revived(ns, n)
  <1> DEFINE IsF(f) == f = [s \in SUBSET DOMAIN <<n>> |->
                              IF s = {} THEN ns ELSE Revived(f[s \ {Max(s)}], <<n>>[Max(s)])]
             f0 == CHOOSE f : IsF(f)
             g == [s \in SUBSET {1} |-> IF s = {} THEN ns ELSE Revived(ns, n)]
  <1>1. DOMAIN <<n>> = {1} /\ <<n>>[1] = n
    OBVIOUS
  <1>2. FoldLeft(Revived, ns, <<n>>) = f0[DOMAIN <<n>>]
    BY DEF FoldLeft, MapThenFoldSet
  <1>3. \A s \in SUBSET {1} : s # {} => s = {1} /\ Max(s) = 1 /\ s \ {Max(s)} = {}
    BY MaxOfOne
  <1>4. IsF(g)
    <2>1. ASSUME NEW s \in SUBSET {1}, s # {}
          PROVE  g[s] = Revived(g[s \ {Max(s)}], <<n>>[Max(s)])
      BY <1>1, <1>3, <2>1
    <2>2. g = [s \in SUBSET {1} |->
                 IF s = {} THEN ns ELSE Revived(g[s \ {Max(s)}], <<n>>[Max(s)])]
      BY <2>1
    <2> HIDE DEF g
    <2> QED
      BY <1>1, <2>2
  <1> HIDE DEF g
  <1>5. IsF(f0)
    BY <1>4
  <1> HIDE DEF f0
  <1>6. f0[{}] = ns
    BY <1>1, <1>5
  <1>7. f0[{1}] = Revived(f0[{}], n)
    <2>1. \A s \in SUBSET {1} :
            f0[s] = IF s = {} THEN ns ELSE Revived(f0[s \ {Max(s)}], <<n>>[Max(s)])
      BY <1>1, <1>5
    <2>2. f0[{1}] = Revived(f0[{1} \ {Max({1})}], <<n>>[Max({1})])
      BY <2>1
    <2> QED
      BY <1>1, <1>3, <2>2
  <1> QED
    BY <1>1, <1>2, <1>6, <1>7

-----------------------------------------------------------------------------
(* The nodes, in each part of a test.                                         *)

NodeType ==
  [role : {"primary", "replica"}, state : {"running", "streaming", "starting", "stopped"},
   service : {"active", "inactive", "failed"}, enabled : BOOLEAN,
   proxy : {"active", "inactive"}, watchdog : BOOLEAN, vip : BOOLEAN,
   reachable : BOOLEAN, answers : BOOLEAN]

Looks(r, role, state, service, enabled, proxy, watchdog, vip, reachable, answers) ==
  /\ r \in NodeType
  /\ r.role = role /\ r.state = state /\ r.service = service /\ r.proxy = proxy
  /\ (r.enabled <=> enabled) /\ (r.watchdog <=> watchdog) /\ (r.vip <=> vip)
  /\ (r.reachable <=> reachable) /\ (r.answers <=> answers)

\* All is well, or the late node is still starting.
IsSteady(ns, c, lead, late, starting) ==
  /\ ns \in [Members -> NodeType]
  /\ \A n \in Members :
       Looks(ns[n], IF n = lead THEN "primary" ELSE "replica",
             IF n = lead THEN "running"
             ELSE IF starting /\ n = late THEN "starting" ELSE "streaming",
             "active", TRUE, "active", n = lead, n = c.owner, TRUE, TRUE)

\* The old Primary is killed; d holds which of its reboot, its boot and the
\* promotion have happened.
IsKilled(ns, c, d) ==
  /\ ns \in [Members -> NodeType]
  /\ Looks(ns[Old], "primary", "stopped", IF 2 \in d THEN "inactive" ELSE "failed", FALSE,
           "active", 2 \notin d, Old = c.owner, 2 \in d \/ 1 \notin d, FALSE)
  /\ \A n \in Members \ {Old} :
       LET promoted == n = c.promoteTo /\ 3 \in d
       IN  Looks(ns[n], IF promoted THEN "primary" ELSE "replica",
                 IF promoted THEN "running" ELSE "streaming", "active", TRUE, "active",
                 promoted, n = c.owner, TRUE, TRUE)

\* The VIP is at a node, and the owner's proxy may be off.
IsMoved(ns, c, off, holder) ==
  /\ ns \in [Members -> NodeType]
  /\ \A n \in Members :
       Looks(ns[n], IF n = Old THEN "primary" ELSE "replica",
             IF n = Old THEN "running" ELSE "streaming", "active", TRUE,
             IF off /\ n = c.owner THEN "inactive" ELSE "active", n = Old, n = holder,
             TRUE, TRUE)

\* Patroni of H-6's node has been told to stop, and may have stopped.
IsHalting(ns, c, stopped) ==
  /\ ns \in [Members -> NodeType]
  /\ \A n \in Members :
       Looks(ns[n], IF n = Old THEN "primary" ELSE "replica",
             IF n = Old THEN "running"
             ELSE IF stopped /\ n = c.h6 THEN "stopped" ELSE "streaming",
             IF n = c.h6 THEN "inactive" ELSE "active", TRUE, "active", n = Old,
             n = c.owner, TRUE, ~(stopped /\ n = c.h6))

KillEvents ==
  << [due |-> script.reboot_after, change |-> "reboot start", at |-> Old],
     [due |-> script.reboot_after + script.reboot_duration, change |-> "reboot end",
      at |-> Old],
     [due |-> script.promote_after, change |-> "promote", at |-> conf.promoteTo] >>

Chosen ==
  /\ simTest \in DOMAIN Scripts /\ script \in Scripts[simTest] /\ conf \in Configs

LEMMA ChosenType ==
  ASSUME Chosen
  PROVE  /\ simTest \in SimTests /\ script \in ScriptType
         /\ conf.owner \in Members /\ conf.standby \in Members /\ conf.h6 \in Members
         /\ conf.promoteTo \in Members /\ conf.owner # conf.standby
         /\ conf.h6 # Old /\ conf.promoteTo # Old /\ Old \in Members
  <1>1. conf \in ConfigType
    BY SimAssumption DEF Chosen
  <1>2. script \in ScriptType /\ simTest \in SimTests
    BY SimAssumption DEF Chosen
  <1> QED
    BY <1>1, <1>2, SimAssumption DEF ConfigType, Old

LEMMA ScriptFields ==
  ASSUME Chosen
  PROVE  /\ script.reboot_after \in Nat /\ script.reboot_duration \in Nat
         /\ script.promote_after \in Nat /\ script.write_resume_after \in Nat
         /\ script.rejoin_after_revive \in Nat /\ script.patroni_stop_after \in Nat
         /\ script.patroni_start_after \in Nat /\ script.vip_move_after \in Nat
         /\ script.vip_write_gap \in Nat /\ script.drop_acked \in Nat
         /\ script.lag_within_limit \in BOOLEAN /\ script.primary_queried \in BOOLEAN
         /\ script.primary_busy \in BOOLEAN /\ script.write_reaches_primary \in BOOLEAN
  BY ChosenType DEF ScriptType

\* Each change of a node turns one description into the next.
LEMMA OldRecordKept ==
  ASSUME NEW ns, NEW ms, NEW d, NEW x \in {1, 2}, IsKilled(ns, conf, d), Old \in Members,
         NEW r, ms = [n \in Members |-> IF n = Old THEN r ELSE ns[n]],
         LET c == d \cup {x} IN
           Looks(r, "primary", "stopped", IF 2 \in c THEN "inactive" ELSE "failed", FALSE,
                 "active", 2 \notin c, Old = conf.owner, 2 \in c \/ 1 \notin c, FALSE)
  PROVE  IsKilled(ms, conf, d \cup {x})
  <1>1. 3 \in d \cup {x} <=> 3 \in d
    OBVIOUS
  <1>2. r \in NodeType
    BY DEF Looks
  <1>3. ms \in [Members -> NodeType] /\ ms[Old] = r
    BY <1>2 DEF IsKilled
  <1>4. ASSUME NEW n \in Members \ {Old}
        PROVE  LET promoted == n = conf.promoteTo /\ 3 \in d \cup {x}
               IN  Looks(ms[n], IF promoted THEN "primary" ELSE "replica",
                         IF promoted THEN "running" ELSE "streaming", "active", TRUE,
                         "active", promoted, n = conf.owner, TRUE, TRUE)
    <2>1. ms[n] = ns[n]
      OBVIOUS
    <2> QED
      BY <1>1, <2>1 DEF IsKilled, Looks
  <1> QED
    BY <1>3, <1>4 DEF IsKilled

LEMMA RebootChanges ==
  ASSUME Chosen, NEW ns, NEW d, IsKilled(ns, conf, d), 1 \notin d, 2 \notin d
  PROVE  IsKilled([ns EXCEPT ![Old].reachable = FALSE], conf, d \cup {1})
  <1> DEFINE r == [ns[Old] EXCEPT !.reachable = FALSE]
             ms == [ns EXCEPT ![Old].reachable = FALSE]
  <1>1. Old \in Members
    BY ChosenType
  <1>2. ms = [n \in Members |-> IF n = Old THEN r ELSE ns[n]]
    BY <1>1 DEF IsKilled
  <1>3. Looks(r, "primary", "stopped", "failed", FALSE, "active", TRUE, Old = conf.owner,
              FALSE, FALSE)
    BY DEF IsKilled, Looks, NodeType
  <1> HIDE DEF r, ms
  <1>4. LET c == d \cup {1} IN
        Looks(r, "primary", "stopped", IF 2 \in c THEN "inactive" ELSE "failed", FALSE,
              "active", 2 \notin c, Old = conf.owner, 2 \in c \/ 1 \notin c, FALSE)
    BY <1>3 DEF Looks
  <1>5. IsKilled(ms, conf, d \cup {1})
    BY <1>1, <1>2, <1>4, OldRecordKept
  <1> QED
    BY <1>5 DEF ms

LEMMA BootChanges ==
  ASSUME Chosen, NEW ns, NEW d, IsKilled(ns, conf, d), NEW ms,
         ms = [ns EXCEPT ![Old].reachable = TRUE, ![Old].service = "inactive",
                         ![Old].watchdog = FALSE]
  PROVE  IsKilled(ms, conf, d \cup {2})
  <1> DEFINE r == [ns[Old] EXCEPT !.reachable = TRUE, !.service = "inactive",
                                  !.watchdog = FALSE]
  <1>1. Old \in Members
    BY ChosenType
  <1>2. ms = [n \in Members |-> IF n = Old THEN r ELSE ns[n]]
    BY <1>1 DEF IsKilled
  <1>3. Looks(r, "primary", "stopped", "inactive", FALSE, "active", FALSE, Old = conf.owner,
              TRUE, FALSE)
    BY DEF IsKilled, Looks, NodeType
  <1> HIDE DEF r
  <1>4. LET c == d \cup {2} IN
        Looks(r, "primary", "stopped", IF 2 \in c THEN "inactive" ELSE "failed", FALSE,
              "active", 2 \notin c, Old = conf.owner, 2 \in c \/ 1 \notin c, FALSE)
    BY <1>3 DEF Looks
  <1>5. IsKilled(ns, conf, d) /\ 2 \in {1, 2}
    OBVIOUS
  <1> QED
    BY ONLY <1>1, <1>2, <1>4, <1>5, OldRecordKept

LEMMA PromotionChanges ==
  ASSUME Chosen, NEW ns, NEW d, IsKilled(ns, conf, d)
  PROVE  IsKilled(SetRole(ns, conf.promoteTo, "primary", "running"), conf, d \cup {3})
  <1> DEFINE p == conf.promoteTo
             r == [ns[p] EXCEPT !.role = "primary", !.state = "running",
                                !.watchdog = ("primary" = "primary")]
             ms == SetRole(ns, p, "primary", "running")
             c == d \cup {3}
  <1>1. Old \in Members /\ p \in Members /\ p # Old
    BY ChosenType
  <1>2. ms = [n \in Members |-> IF n = p THEN r ELSE ns[n]]
    BY <1>1 DEF IsKilled, SetRole
  <1>3. ns[p] \in NodeType /\ ns[p].service = "active" /\ ns[p].enabled
        /\ ns[p].proxy = "active" /\ (ns[p].vip <=> p = conf.owner)
        /\ ns[p].reachable /\ ns[p].answers
    BY <1>1 DEF IsKilled, Looks
  <1>4. Looks(r, "primary", "running", "active", TRUE, "active", TRUE, p = conf.owner,
              TRUE, TRUE)
    BY <1>3 DEF Looks, NodeType
  <1>5. r \in NodeType
    BY <1>4 DEF Looks
  <1> HIDE DEF r, ms, p
  <1>6. ms \in [Members -> NodeType] /\ ms[p] = r /\ ms[Old] = ns[Old]
    BY <1>1, <1>2, <1>5 DEF IsKilled
  <1>7. Looks(ms[Old], "primary", "stopped", IF 2 \in c THEN "inactive" ELSE "failed",
              FALSE, "active", 2 \notin c, Old = conf.owner, 2 \in c \/ 1 \notin c, FALSE)
    BY <1>6 DEF IsKilled, Looks
  <1>8. ASSUME NEW n \in Members \ {Old}
        PROVE  LET promoted == n = p /\ 3 \in c
               IN  Looks(ms[n], IF promoted THEN "primary" ELSE "replica",
                         IF promoted THEN "running" ELSE "streaming", "active", TRUE,
                         "active", promoted, n = conf.owner, TRUE, TRUE)
    <2>1. CASE n = p
      BY <1>4, <1>6, <2>1 DEF Looks
    <2>2. CASE n # p
      <3>1. ms[n] = ns[n]
        BY <1>2, <2>2
      <3> QED
        BY <2>2, <3>1 DEF IsKilled, Looks, p
    <2> QED
      BY <2>1, <2>2
  <1> QED
    BY <1>6, <1>7, <1>8 DEF IsKilled, ms, p

LEMMA StreamingChanges ==
  ASSUME Chosen, NEW ns, NEW lead, NEW late \in Members, late # lead,
         IsSteady(ns, conf, lead, late, TRUE)
  PROVE  IsSteady(SetRole(ns, late, "replica", "streaming"), conf, lead, late, FALSE)
  <1> DEFINE r == [ns[late] EXCEPT !.role = "replica", !.state = "streaming",
                                   !.watchdog = ("replica" = "primary")]
             ms == SetRole(ns, late, "replica", "streaming")
  <1>1. ms = [n \in Members |-> IF n = late THEN r ELSE ns[n]]
    BY DEF IsSteady, SetRole
  <1>2. ns[late] \in NodeType /\ ns[late].service = "active" /\ ns[late].enabled
        /\ ns[late].proxy = "active" /\ (ns[late].vip <=> late = conf.owner)
        /\ ns[late].reachable /\ ns[late].answers
    BY DEF IsSteady, Looks
  <1>3. Looks(r, "replica", "streaming", "active", TRUE, "active", FALSE, late = conf.owner,
              TRUE, TRUE)
    BY <1>2 DEF Looks, NodeType
  <1>4. r \in NodeType
    BY <1>3 DEF Looks
  <1> HIDE DEF r, ms
  <1>5. ms \in [Members -> NodeType] /\ ms[late] = r
    BY <1>1, <1>4 DEF IsSteady
  <1>6. ASSUME NEW n \in Members
        PROVE  Looks(ms[n], IF n = lead THEN "primary" ELSE "replica",
                     IF n = lead THEN "running"
                     ELSE IF FALSE /\ n = late THEN "starting" ELSE "streaming",
                     "active", TRUE, "active", n = lead, n = conf.owner, TRUE, TRUE)
    <2>1. CASE n = late
      BY <1>3, <1>5, <2>1 DEF Looks
    <2>2. CASE n # late
      <3>1. ms[n] = ns[n]
        BY <1>1, <2>2
      <3> QED
        BY <2>2, <3>1 DEF IsSteady, Looks
    <2> QED
      BY <2>1, <2>2
  <1> QED
    BY <1>5, <1>6 DEF IsSteady, ms

LEMMA VipChanges ==
  ASSUME Chosen, NEW ns, NEW off, NEW from, NEW to, IsMoved(ns, conf, off, from)
  PROVE  IsMoved(GiveVip(ns, to), conf, off, to)
  <1> DEFINE r(n) == [ns[n] EXCEPT !.vip = (n = to)]
             ms == GiveVip(ns, to)
  <1>1. ms = [n \in Members |-> r(n)]
    BY DEF GiveVip
  <1>2. ASSUME NEW n \in Members
        PROVE  Looks(r(n), IF n = Old THEN "primary" ELSE "replica",
                     IF n = Old THEN "running" ELSE "streaming", "active", TRUE,
                     IF off /\ n = conf.owner THEN "inactive" ELSE "active", n = Old,
                     n = to, TRUE, TRUE)
    <2>1. Looks(ns[n], IF n = Old THEN "primary" ELSE "replica",
                IF n = Old THEN "running" ELSE "streaming", "active", TRUE,
                IF off /\ n = conf.owner THEN "inactive" ELSE "active", n = Old,
                n = from, TRUE, TRUE)
      BY DEF IsMoved
    <2>2. \A x \in BOOLEAN : Looks([ns[n] EXCEPT !.vip = x],
                IF n = Old THEN "primary" ELSE "replica",
                IF n = Old THEN "running" ELSE "streaming", "active", TRUE,
                IF off /\ n = conf.owner THEN "inactive" ELSE "active", n = Old,
                x, TRUE, TRUE)
      BY <2>1 DEF Looks, NodeType
    <2> QED
      BY <2>2
  <1>3. \A n \in Members : r(n) \in NodeType
    BY <1>2 DEF Looks
  <1> HIDE DEF r, ms
  <1>4. ms \in [Members -> NodeType] /\ \A n \in Members : ms[n] = r(n)
    BY <1>1, <1>3
  <1>5. IsMoved(ms, conf, off, to)
    BY <1>2, <1>4 DEF IsMoved
  <1> QED
    BY <1>5 DEF ms

LEMMA StopChanges ==
  ASSUME Chosen, NEW ns, IsHalting(ns, conf, FALSE), NEW ms,
         ms = [ns EXCEPT ![conf.h6].answers = FALSE, ![conf.h6].state = "stopped"]
  PROVE  IsHalting(ms, conf, TRUE)
  <1> DEFINE h == conf.h6
             r == [ns[h] EXCEPT !.answers = FALSE, !.state = "stopped"]
  <1>1. h \in Members /\ h # Old
    BY ChosenType
  <1>2. ms = [n \in Members |-> IF n = h THEN r ELSE ns[n]]
    BY <1>1 DEF IsHalting
  <1>3. ns[h] \in NodeType /\ ns[h].role = "replica" /\ ns[h].service = "inactive"
        /\ ns[h].enabled /\ ns[h].proxy = "active" /\ ~ns[h].watchdog
        /\ (ns[h].vip <=> h = conf.owner) /\ ns[h].reachable
    BY <1>1 DEF IsHalting, Looks
  <1>4. Looks(r, "replica", "stopped", "inactive", TRUE, "active", FALSE, h = conf.owner,
              TRUE, FALSE)
    BY <1>3 DEF Looks, NodeType
  <1>5. r \in NodeType
    BY <1>4 DEF Looks
  <1> HIDE DEF r, h
  <1>6. ms \in [Members -> NodeType] /\ ms[h] = r
    BY <1>1, <1>2, <1>5 DEF IsHalting
  <1>7. ASSUME NEW n \in Members
        PROVE  Looks(ms[n], IF n = Old THEN "primary" ELSE "replica",
                     IF n = Old THEN "running"
                     ELSE IF TRUE /\ n = h THEN "stopped" ELSE "streaming",
                     IF n = h THEN "inactive" ELSE "active", TRUE, "active", n = Old,
                     n = conf.owner, TRUE, ~(TRUE /\ n = h))
    <2>1. CASE n = h
      BY <1>1, <1>4, <1>6, <2>1 DEF Looks
    <2>2. CASE n # h
      <3>1. ms[n] = ns[n]
        BY <1>2, <2>2
      <3> QED
        BY <2>2, <3>1 DEF IsHalting, Looks, h
    <2> QED
      BY <2>1, <2>2
  <1> QED
    BY <1>6, <1>7 DEF IsHalting, h

LEMMA KillingChanges ==
  ASSUME Chosen, NEW ns, NEW late, IsSteady(ns, conf, Old, late, FALSE), NEW ms,
         ms = [ns EXCEPT ![Old].answers = FALSE, ![Old].state = "stopped",
                         ![Old].service = "failed", ![Old].enabled = FALSE,
                         ![Old].watchdog = TRUE]
  PROVE  IsKilled(ms, conf, {})
  <1> DEFINE r == [ns[Old] EXCEPT !.answers = FALSE, !.state = "stopped",
                                  !.service = "failed", !.enabled = FALSE,
                                  !.watchdog = TRUE]
  <1>1. Old \in Members
    BY ChosenType
  <1>2. ms = [n \in Members |-> IF n = Old THEN r ELSE ns[n]]
    BY <1>1 DEF IsSteady
  <1>3. ns[Old] \in NodeType /\ ns[Old].role = "primary" /\ ns[Old].proxy = "active"
        /\ (ns[Old].vip <=> Old = conf.owner) /\ ns[Old].reachable
    BY <1>1 DEF IsSteady, Looks
  <1>4. Looks(r, "primary", "stopped", "failed", FALSE, "active", TRUE, Old = conf.owner,
              TRUE, FALSE)
    BY <1>3 DEF Looks, NodeType
  <1>5. r \in NodeType
    BY <1>4 DEF Looks
  <1> HIDE DEF r
  <1>6. ms \in [Members -> NodeType] /\ ms[Old] = r
    <2>1. ns \in [Members -> NodeType]
      BY DEF IsSteady
    <2> QED
      BY ONLY <1>1, <1>2, <1>5, <2>1
  <1>7. Looks(ms[Old], "primary", "stopped", IF 2 \in {} THEN "inactive" ELSE "failed",
              FALSE, "active", 2 \notin {}, Old = conf.owner, 2 \in {} \/ 1 \notin {}, FALSE)
    BY <1>4, <1>6 DEF Looks
  <1>8. ASSUME NEW n \in Members \ {Old}
        PROVE  LET promoted == n = conf.promoteTo /\ 3 \in {}
               IN  Looks(ms[n], IF promoted THEN "primary" ELSE "replica",
                         IF promoted THEN "running" ELSE "streaming", "active", TRUE,
                         "active", promoted, n = conf.owner, TRUE, TRUE)
    <2>1. ms[n] = ns[n]
      BY <1>2
    <2> QED
      BY <2>1 DEF IsSteady, Looks
  <1> QED
    BY <1>6, <1>7, <1>8 DEF IsKilled

LEMMA RevivalChanges ==
  ASSUME Chosen, NEW ns, NEW d, IsKilled(ns, conf, d), 2 \in d, 3 \in d
  PROVE  IsSteady(Revived(ns, Old), conf, conf.promoteTo, Old, TRUE)
  <1> DEFINE r == [ns[Old] EXCEPT !.service = "active", !.enabled = TRUE, !.answers = TRUE,
                                  !.role = "replica", !.state = "starting"]
             ms == Revived(ns, Old)
  <1>1. Old \in Members /\ conf.promoteTo # Old
    BY ChosenType
  <1>2. ms = [n \in Members |-> IF n = Old THEN r ELSE ns[n]]
    BY <1>1 DEF IsKilled, Revived
  <1>3. ns[Old] \in NodeType /\ ~ns[Old].watchdog /\ ns[Old].proxy = "active"
        /\ (ns[Old].vip <=> Old = conf.owner) /\ ns[Old].reachable
    BY <1>1 DEF IsKilled, Looks
  <1>4. Looks(r, "replica", "starting", "active", TRUE, "active", FALSE, Old = conf.owner,
              TRUE, TRUE)
    BY <1>3 DEF Looks, NodeType
  <1>5. r \in NodeType
    BY <1>4 DEF Looks
  <1> HIDE DEF r, ms
  <1>6. ms \in [Members -> NodeType] /\ ms[Old] = r
    BY <1>1, <1>2, <1>5 DEF IsKilled
  <1>7. ASSUME NEW n \in Members
        PROVE  Looks(ms[n], IF n = conf.promoteTo THEN "primary" ELSE "replica",
                     IF n = conf.promoteTo THEN "running"
                     ELSE IF TRUE /\ n = Old THEN "starting" ELSE "streaming",
                     "active", TRUE, "active", n = conf.promoteTo, n = conf.owner,
                     TRUE, TRUE)
    <2>1. CASE n = Old
      BY <1>1, <1>4, <1>6, <2>1 DEF Looks
    <2>2. CASE n # Old
      <3>1. ms[n] = ns[n]
        BY <1>2, <2>2
      <3> QED
        BY <2>2, <3>1 DEF IsKilled, Looks
    <2> QED
      BY <2>1, <2>2
  <1> QED
    BY <1>6, <1>7 DEF IsSteady, ms

LEMMA ProxyStops ==
  ASSUME Chosen, NEW ns, NEW late, IsSteady(ns, conf, Old, late, FALSE)
  PROVE  IsMoved([ns EXCEPT ![conf.owner].proxy = "inactive"], conf, TRUE, conf.owner)
  <1> DEFINE o == conf.owner
             r == [ns[o] EXCEPT !.proxy = "inactive"]
             ms == [ns EXCEPT ![o].proxy = "inactive"]
  <1>1. o \in Members
    BY ChosenType
  <1>2. ms = [n \in Members |-> IF n = o THEN r ELSE ns[n]]
    BY <1>1 DEF IsSteady
  <1>3. Looks(r, IF o = Old THEN "primary" ELSE "replica",
              IF o = Old THEN "running" ELSE "streaming", "active", TRUE, "inactive",
              o = Old, TRUE, TRUE, TRUE)
    <2>1. /\ ns[o] \in NodeType /\ ns[o].role = (IF o = Old THEN "primary" ELSE "replica")
          /\ ns[o].state = (IF o = Old THEN "running" ELSE "streaming")
          /\ ns[o].service = "active" /\ ns[o].enabled /\ (ns[o].watchdog <=> o = Old)
          /\ ns[o].vip /\ ns[o].reachable /\ ns[o].answers
      BY <1>1 DEF IsSteady, Looks
    <2> QED
      BY <2>1 DEF Looks, NodeType
  <1>4. r \in NodeType
    BY <1>3 DEF Looks
  <1> HIDE DEF r, ms, o
  <1>5. ms \in [Members -> NodeType] /\ ms[o] = r
    BY <1>1, <1>2, <1>4 DEF IsSteady
  <1>6. ASSUME NEW n \in Members
        PROVE  Looks(ms[n], IF n = Old THEN "primary" ELSE "replica",
                     IF n = Old THEN "running" ELSE "streaming", "active", TRUE,
                     IF TRUE /\ n = o THEN "inactive" ELSE "active", n = Old, n = o,
                     TRUE, TRUE)
    <2>1. CASE n = o
      BY <1>3, <1>5, <2>1 DEF Looks
    <2>2. CASE n # o
      <3>1. ms[n] = ns[n]
        BY <1>2, <2>2
      <3> QED
        BY <2>2, <3>1 DEF IsSteady, Looks, o
    <2> QED
      BY <2>1, <2>2
  <1> QED
    BY <1>5, <1>6 DEF IsMoved, ms, o

LEMMA ProxyStarts ==
  ASSUME Chosen, NEW ns, NEW holder, IsMoved(ns, conf, TRUE, holder)
  PROVE  IsMoved([ns EXCEPT ![conf.owner].proxy = "active"], conf, FALSE, holder)
  <1> DEFINE o == conf.owner
             r == [ns[o] EXCEPT !.proxy = "active"]
             ms == [ns EXCEPT ![o].proxy = "active"]
  <1>1. o \in Members
    BY ChosenType
  <1>2. ms = [n \in Members |-> IF n = o THEN r ELSE ns[n]]
    BY <1>1 DEF IsMoved
  <1>3. Looks(r, IF o = Old THEN "primary" ELSE "replica",
              IF o = Old THEN "running" ELSE "streaming", "active", TRUE, "active",
              o = Old, o = holder, TRUE, TRUE)
    <2>1. /\ ns[o] \in NodeType /\ ns[o].role = (IF o = Old THEN "primary" ELSE "replica")
          /\ ns[o].state = (IF o = Old THEN "running" ELSE "streaming")
          /\ ns[o].service = "active" /\ ns[o].enabled /\ (ns[o].watchdog <=> o = Old)
          /\ (ns[o].vip <=> o = holder) /\ ns[o].reachable /\ ns[o].answers
      BY <1>1 DEF IsMoved, Looks
    <2> QED
      BY <2>1 DEF Looks, NodeType
  <1>4. r \in NodeType
    BY <1>3 DEF Looks
  <1> HIDE DEF r, ms, o
  <1>5. ms \in [Members -> NodeType] /\ ms[o] = r
    BY <1>1, <1>2, <1>4 DEF IsMoved
  <1>6. ASSUME NEW n \in Members
        PROVE  Looks(ms[n], IF n = Old THEN "primary" ELSE "replica",
                     IF n = Old THEN "running" ELSE "streaming", "active", TRUE,
                     IF FALSE /\ n = o THEN "inactive" ELSE "active", n = Old, n = holder,
                     TRUE, TRUE)
    <2>1. CASE n = o
      BY <1>3, <1>5, <2>1 DEF Looks
    <2>2. CASE n # o
      <3>1. ms[n] = ns[n]
        BY <1>2, <2>2
      <3> QED
        BY <2>2, <3>1 DEF IsMoved, Looks, o
    <2> QED
      BY <2>1, <2>2
  <1> QED
    BY <1>5, <1>6 DEF IsMoved, ms, o

LEMMA MovedBack ==
  ASSUME Chosen, NEW ns, NEW late, IsMoved(ns, conf, FALSE, conf.owner)
  PROVE  IsSteady(ns, conf, Old, late, FALSE)
  <1>1. ASSUME NEW n \in Members
        PROVE  Looks(ns[n], IF n = Old THEN "primary" ELSE "replica",
                     IF n = Old THEN "running"
                     ELSE IF FALSE /\ n = late THEN "starting" ELSE "streaming",
                     "active", TRUE, "active", n = Old, n = conf.owner, TRUE, TRUE)
    BY DEF IsMoved, Looks
  <1> QED
    BY <1>1 DEF IsMoved, IsSteady

LEMMA HaltingBegins ==
  ASSUME Chosen, NEW ns, NEW late, IsSteady(ns, conf, Old, late, FALSE)
  PROVE  IsHalting([ns EXCEPT ![conf.h6].service = "inactive"], conf, FALSE)
  <1> DEFINE h == conf.h6
             r == [ns[h] EXCEPT !.service = "inactive"]
             ms == [ns EXCEPT ![h].service = "inactive"]
  <1>1. h \in Members /\ h # Old
    BY ChosenType
  <1>2. ms = [n \in Members |-> IF n = h THEN r ELSE ns[n]]
    BY <1>1 DEF IsSteady
  <1>3. ns[h] \in NodeType /\ ns[h].role = "replica" /\ ns[h].state = "streaming"
        /\ ns[h].enabled /\ ns[h].proxy = "active" /\ ~ns[h].watchdog
        /\ (ns[h].vip <=> h = conf.owner) /\ ns[h].reachable /\ ns[h].answers
    BY <1>1 DEF IsSteady, Looks
  <1>4. Looks(r, "replica", "streaming", "inactive", TRUE, "active", FALSE, h = conf.owner,
              TRUE, TRUE)
    BY <1>3 DEF Looks, NodeType
  <1>5. r \in NodeType
    BY <1>4 DEF Looks
  <1> HIDE DEF r, ms, h
  <1>6. ms \in [Members -> NodeType] /\ ms[h] = r
    BY <1>1, <1>2, <1>5 DEF IsSteady
  <1>7. ASSUME NEW n \in Members
        PROVE  Looks(ms[n], IF n = Old THEN "primary" ELSE "replica",
                     IF n = Old THEN "running"
                     ELSE IF FALSE /\ n = h THEN "stopped" ELSE "streaming",
                     IF n = h THEN "inactive" ELSE "active", TRUE, "active", n = Old,
                     n = conf.owner, TRUE, ~(FALSE /\ n = h))
    <2>1. CASE n = h
      BY <1>1, <1>4, <1>6, <2>1 DEF Looks
    <2>2. CASE n # h
      <3>1. ms[n] = ns[n]
        BY <1>2, <2>2
      <3> QED
        BY <2>2, <3>1 DEF IsSteady, Looks
    <2> QED
      BY <2>1, <2>2
  <1> QED
    BY <1>6, <1>7 DEF IsHalting, ms, h

LEMMA HaltingEnds ==
  ASSUME Chosen, NEW ns, IsHalting(ns, conf, TRUE), NEW ms,
         ms = [ns EXCEPT ![conf.h6].service = "active", ![conf.h6].answers = TRUE,
                         ![conf.h6].state = "starting"]
  PROVE  IsSteady(ms, conf, Old, conf.h6, TRUE)
  <1> DEFINE h == conf.h6
             r == [ns[h] EXCEPT !.service = "active", !.answers = TRUE, !.state = "starting"]
  <1>1. h \in Members /\ h # Old
    BY ChosenType
  <1>2. ms = [n \in Members |-> IF n = h THEN r ELSE ns[n]]
    BY <1>1 DEF IsHalting
  <1>3. ns[h] \in NodeType /\ ns[h].role = "replica" /\ ns[h].enabled
        /\ ns[h].proxy = "active" /\ ~ns[h].watchdog
        /\ (ns[h].vip <=> h = conf.owner) /\ ns[h].reachable
    BY <1>1 DEF IsHalting, Looks
  <1>4. Looks(r, "replica", "starting", "active", TRUE, "active", FALSE, h = conf.owner,
              TRUE, TRUE)
    BY <1>3 DEF Looks, NodeType
  <1>5. r \in NodeType
    BY <1>4 DEF Looks
  <1> HIDE DEF r, h
  <1>6. ms \in [Members -> NodeType] /\ ms[h] = r
    BY <1>1, <1>2, <1>5 DEF IsHalting
  <1>7. ASSUME NEW n \in Members
        PROVE  Looks(ms[n], IF n = Old THEN "primary" ELSE "replica",
                     IF n = Old THEN "running"
                     ELSE IF TRUE /\ n = h THEN "starting" ELSE "streaming",
                     "active", TRUE, "active", n = Old, n = conf.owner, TRUE, TRUE)
    <2>1. CASE n = h
      BY <1>1, <1>4, <1>6, <2>1 DEF Looks
    <2>2. CASE n # h
      <3>1. ms[n] = ns[n]
        BY <1>2, <2>2
      <3> QED
        BY <2>2, <3>1 DEF IsHalting, Looks, h
    <2> QED
      BY <2>1, <2>2
  <1> QED
    BY <1>6, <1>7 DEF IsSteady, h

\* The switchover back.
LEMMA SwitchoverChanges ==
  ASSUME Chosen, NEW ns, NEW lead \in Members, NEW late, lead # Old,
         IsSteady(ns, conf, lead, late, FALSE)
  PROVE  IsSteady(SetRole(SetRole(ns, lead, "replica", "streaming"), Old, "primary",
                          "running"),
                  conf, Old, late, FALSE)
  <1> DEFINE q == [ns[lead] EXCEPT !.role = "replica", !.state = "streaming",
                                   !.watchdog = ("replica" = "primary")]
             r == [ns[Old] EXCEPT !.role = "primary", !.state = "running",
                                  !.watchdog = ("primary" = "primary")]
             ks == SetRole(ns, lead, "replica", "streaming")
             ms == SetRole(ks, Old, "primary", "running")
  <1>1. Old \in Members
    BY ChosenType
  <1>2. ks = [n \in Members |-> IF n = lead THEN q ELSE ns[n]]
    BY DEF IsSteady, SetRole
  <1>3. ks[Old] = ns[Old]
    BY <1>1, <1>2
  <1>4. ms = [n \in Members |-> IF n = Old THEN r ELSE ks[n]]
    <2> HIDE DEF ks
    <2> QED
      BY <1>1, <1>2, <1>3 DEF SetRole
  <1>5. \A m \in {Old, lead} :
          /\ ns[m] \in NodeType /\ ns[m].service = "active" /\ ns[m].enabled
          /\ ns[m].proxy = "active" /\ (ns[m].vip <=> m = conf.owner)
          /\ ns[m].reachable /\ ns[m].answers
    BY <1>1 DEF IsSteady, Looks
  <1>6. Looks(q, "replica", "streaming", "active", TRUE, "active", FALSE, lead = conf.owner,
              TRUE, TRUE)
    BY <1>5 DEF Looks, NodeType
  <1>7. Looks(r, "primary", "running", "active", TRUE, "active", TRUE, Old = conf.owner,
              TRUE, TRUE)
    BY <1>5 DEF Looks, NodeType
  <1>8. q \in NodeType /\ r \in NodeType
    BY <1>6, <1>7 DEF Looks
  <1> HIDE DEF q, r, ks, ms
  <1>9. ms \in [Members -> NodeType] /\ ms[Old] = r /\ ms[lead] = q
    <2>1. ks \in [Members -> NodeType] /\ ks[lead] = q
      BY <1>2, <1>8 DEF IsSteady
    <2> QED
      BY <1>1, <1>4, <1>8, <2>1
  <1>10. ASSUME NEW n \in Members
        PROVE  Looks(ms[n], IF n = Old THEN "primary" ELSE "replica",
                     IF n = Old THEN "running"
                     ELSE IF FALSE /\ n = late THEN "starting" ELSE "streaming",
                     "active", TRUE, "active", n = Old, n = conf.owner, TRUE, TRUE)
    <2>1. CASE n = Old
      BY <1>7, <1>9, <2>1 DEF Looks
    <2>2. CASE n = lead
      BY <1>6, <1>9, <2>2 DEF Looks
    <2>3. CASE n # Old /\ n # lead
      <3>1. ms[n] = ns[n]
        BY <1>2, <1>4, <2>3
      <3> QED
        BY <2>3, <3>1 DEF IsSteady, Looks
    <2> QED
      BY <2>1, <2>2, <2>3
  <1> QED
    BY <1>9, <1>10 DEF IsSteady, ms, ks

\* A late node matters only while it starts.
LEMMA NobodyLate ==
  ASSUME NEW ns, NEW lead, NEW late, NEW other, IsSteady(ns, conf, lead, late, FALSE)
  PROVE  IsSteady(ns, conf, lead, other, FALSE)
  <1>1. ASSUME NEW n \in Members
        PROVE  Looks(ns[n], IF n = lead THEN "primary" ELSE "replica",
                     IF n = lead THEN "running"
                     ELSE IF FALSE /\ n = other THEN "starting" ELSE "streaming",
                     "active", TRUE, "active", n = lead, n = conf.owner, TRUE, TRUE)
    BY DEF IsSteady, Looks
  <1> QED
    BY <1>1 DEF IsSteady

-----------------------------------------------------------------------------
(* What the loops see of them.                                                *)

LEMMA SeesKilled ==
  ASSUME Chosen, NEW d, IsKilled(node, conf, d)
  PROVE  /\ Leaders \ {Old} # {} <=> 3 \in d
         /\ node[Old].reachable <=> (2 \in d \/ 1 \notin d)
         /\ \A n \in Members : node[n].reachable <=> (n = Old => 2 \in d \/ 1 \notin d)
         /\ \A n \in Members : node[n].proxy = "active"
         /\ 3 \in d => {n \in Members : Down(n)} = {Old}
  <1>1. Old \in Members /\ conf.promoteTo \in Members /\ conf.promoteTo # Old
    BY ChosenType
  <1>2. node[Old].reachable <=> (2 \in d \/ 1 \notin d)
    BY DEF IsKilled, Looks
  <1>3. ASSUME NEW n \in Members \ {Old}
        PROVE  /\ node[n].reachable /\ node[n].answers /\ node[n].proxy = "active"
               /\ node[n].service = "active" /\ node[n].enabled /\ node[n].state # "stopped"
               /\ node[n].role = "primary" <=> (n = conf.promoteTo /\ 3 \in d)
    BY DEF IsKilled, Looks
  <1>4. ~node[Old].answers /\ node[Old].proxy = "active"
    BY DEF IsKilled, Looks
  <1>5. \A n \in Members \ {Old} : n \in Leaders <=> (n = conf.promoteTo /\ 3 \in d)
    BY <1>3 DEF Leaders, IsLeader, Answering
  <1>6. Leaders \ {Old} # {} <=> 3 \in d
    BY <1>1, <1>5 DEF Leaders
  <1>7. \A n \in Members : Down(n) <=> n = Old
    BY <1>3, <1>4 DEF Down, Answering
  <1>8. {n \in Members : Down(n)} = {Old}
    BY <1>1, <1>7
  <1> QED
    BY <1>1, <1>2, <1>3, <1>4, <1>6, <1>8

LEMMA SeesSteady ==
  ASSUME Chosen, NEW lead \in Members, NEW late \in Members, late # lead,
         NEW starting \in BOOLEAN, IsSteady(node, conf, lead, late, starting)
  PROVE  /\ Leaders = {lead}
         /\ IsStreaming(late) <=> ~starting
         /\ SimAllStreaming <=> ~starting
         /\ \A n \in Members : node[n].reachable /\ node[n].proxy = "active"
         /\ {n \in Members : Down(n)} = {}
         /\ VipHolders = {conf.owner}
  <1>1. ASSUME NEW n \in Members
        PROVE  /\ node[n].reachable /\ node[n].answers /\ node[n].proxy = "active"
               /\ node[n].service = "active" /\ node[n].enabled /\ node[n].state # "stopped"
               /\ (node[n].role = "primary" <=> n = lead)
               /\ (node[n].role = "replica" <=> n # lead)
               /\ (n # lead => (node[n].state = "streaming" <=> ~(starting /\ n = late)))
               /\ (node[n].vip <=> n = conf.owner)
    BY DEF IsSteady, Looks
  <1>2. Leaders = {lead}
    BY <1>1 DEF Leaders, IsLeader, Answering
  <1>3. \A n \in Members : IsStreaming(n) <=> (n # lead /\ ~(starting /\ n = late))
    BY <1>1 DEF IsStreaming, Answering
  <1>4. Cardinality(Leaders) = 1
    BY <1>2, FS_Singleton
  <1>5. SimAllStreaming <=> ~starting
    BY <1>2, <1>3, <1>4 DEF SimAllStreaming
  <1>6. {n \in Members : Down(n)} = {}
    BY <1>1 DEF Down, Answering
  <1>7. VipHolders = {conf.owner}
    BY <1>1, ChosenType DEF VipHolders
  <1> QED
    BY <1>1, <1>2, <1>3, <1>5, <1>6, <1>7

LEMMA SeesBase ==
  ASSUME Chosen, NEW late, IsSteady(node, conf, Old, late, FALSE)
  PROVE  SimAtBase /\ ReplicationRows = Replicas
  <1>1. Old \in Members /\ conf.owner \in Members /\ conf.standby \in Members
    BY ChosenType
  <1>2. ASSUME NEW n \in Members
        PROVE  /\ node[n].reachable /\ node[n].answers /\ node[n].proxy = "active"
               /\ node[n].service = "active" /\ node[n].enabled
               /\ (node[n].role = "primary" <=> n = Old)
               /\ (node[n].role = "replica" <=> n # Old)
               /\ (n # Old => node[n].state = "streaming")
               /\ (node[n].watchdog <=> n = Old)
               /\ (node[n].vip <=> n = conf.owner)
    BY DEF IsSteady, Looks
  <1>3. Leaders = {Old}
    BY <1>1, <1>2 DEF Leaders, IsLeader, Answering
  <1>4. \A n \in Replicas : IsStreaming(n)
    BY <1>2 DEF Replicas, IsStreaming, Answering, Old
  <1>5. {n \in Members : node[n].reachable /\ node[n].vip} = {conf.owner}
    BY <1>1, <1>2
  <1>6. SimAtBase
    BY <1>1, <1>2, <1>3, <1>4, <1>5 DEF SimAtBase, Old
  <1>7. ReplicationRows = Replicas
    BY <1>2 DEF ReplicationRows, Replicas, Old
  <1> QED
    BY <1>6, <1>7

LEMMA SeesMoved ==
  ASSUME Chosen, NEW off, NEW holder \in {conf.owner, conf.standby},
         IsMoved(node, conf, off, holder)
  PROVE  VipHolders = {holder}
  <1>1. conf.owner \in Members /\ conf.standby \in Members
    BY ChosenType
  <1>2. \A n \in Members : node[n].reachable /\ (node[n].vip <=> n = holder)
    BY DEF IsMoved, Looks
  <1> QED
    BY <1>1, <1>2 DEF VipHolders

LEMMA SeesHalting ==
  ASSUME Chosen, NEW stopped \in BOOLEAN, IsHalting(node, conf, stopped)
  PROVE  IsRunning(conf.h6) <=> ~stopped
  <1>1. conf.h6 \in Members /\ conf.h6 # Old
    BY ChosenType
  <1>2. /\ node[conf.h6].reachable /\ (node[conf.h6].answers <=> ~stopped)
        /\ (~stopped => node[conf.h6].state = "streaming")
    BY <1>1 DEF IsHalting, Looks
  <1> QED
    BY <1>2 DEF IsRunning, Answering

-----------------------------------------------------------------------------
(* What is known in each loop.                                                *)

\* Following H-3 and H-4, the new Leader has come.
Followed == script.promote_after <= PROMOTE_LIMIT + FOLLOW_MARGIN

\* Writing and promotion are in time for H-3.
Early == script.write_resume_after < PROMOTE_LIMIT /\ script.promote_after <= ROLE_LOG

RebootEnd == script.reboot_after + script.reboot_duration

Falling ==
  /\ events = KillEvents
  /\ done = {i \in 1..3 : clock > 0 /\ KillEvents[i].due <= clock}
  /\ IsKilled(node, conf, done)

Lead == IF simTest \in {"H-3", "H-4"} THEN conf.promoteTo ELSE Old
Late == IF simTest \in {"H-3", "H-4"} THEN Old ELSE conf.h6

\* At most one change is to come, by the limit: the late node streams.
OneToCome(k, limit) ==
  /\ DOMAIN events \ done = {k} /\ done \subseteq DOMAIN events
  /\ events[k].change = "streaming" /\ events[k].at = Late
  /\ events[k].due \in Nat /\ events[k].due <= limit
  /\ clock = since \/ events[k].due > clock
  /\ IsSteady(node, conf, Lead, Late, TRUE)

EventType ==
  [due : Nat, at : Members,
   change : {"reboot start", "reboot end", "promote", "streaming", "stopped", "vip"}]

Settled(limit) ==
  /\ events \in Seq(EventType)
  /\ \/ done = DOMAIN events /\ IsSteady(node, conf, Lead, Late, FALSE)
     \/ \E k \in Nat : OneToCome(k, limit)

Decided == outcome = "Pass" <=> WithinLimits

InInject ==
  /\ IsSteady(node, conf, Old, conf.h6, FALSE) /\ events = <<>> /\ done = {}
  /\ clock = 0 /\ since = 0 /\ injected = 0 /\ seen = FALSE /\ outcome = "NT"

InFollow ==
  /\ simTest \in {"H-3", "H-4"} /\ outcome = "NT" /\ injected = 0 /\ since = 0
  /\ clock <= 132 /\ \E k \in Nat : clock = 4 * k
  /\ Falling
  /\ seen \in BOOLEAN
  /\ seen <=> (clock > 4 /\ script.promote_after <= clock - 4)
  /\ simTest = "H-3" /\ seen => clock - 4 <= script.write_resume_after

InWaitSsh ==
  /\ simTest = "H-3" /\ outcome = "NT" /\ injected = 0
  /\ Followed =>
       /\ Falling /\ since > 0 /\ script.promote_after <= since
       /\ Waited <= 486 /\ \E k \in Nat : Waited = 6 * k
       /\ Early => since = FollowEnd /\ seen

InRevive ==
  /\ simTest = "H-3" /\ outcome = "NT" /\ injected = 0
  /\ Followed =>
       /\ Falling /\ done = {1, 2, 3}
       /\ Early => seen /\ RebootEnd <= FollowEnd + 486

InRejoin ==
  /\ simTest = "H-3" /\ outcome = "NT" /\ injected = 0
  /\ Followed =>
       /\ events = Append(KillEvents, [due |-> since + script.rejoin_after_revive,
                                       change |-> "streaming", at |-> Old])
       /\ done = {1, 2, 3} \cup {i \in {4} : clock > since
                                  /\ since + script.rejoin_after_revive <= clock}
       /\ IsSteady(node, conf, conf.promoteTo, Old, 4 \notin done)
       /\ Waited <= 360 /\ \E k \in Nat : Waited = 4 * k
       /\ Waited > 4 => script.rejoin_after_revive > Waited - 4
       /\ Early => seen /\ RebootEnd <= FollowEnd + 486

InTakeover ==
  /\ simTest = "H-5" /\ outcome = "NT" /\ injected = 0
  /\ WithinWaits =>
       /\ events = << [due |-> script.vip_move_after, change |-> "vip", at |-> conf.standby] >>
       /\ since = 0
       /\ done = {i \in {1} : clock > 0 /\ script.vip_move_after <= clock}
       /\ IsMoved(node, conf, TRUE, IF 1 \in done THEN conf.standby ELSE conf.owner)

InReturn ==
  /\ simTest = "H-5" /\ outcome = "NT" /\ injected = 0
  /\ WithinWaits =>
       /\ events = << [due |-> script.vip_move_after, change |-> "vip", at |-> conf.standby],
                      [due |-> since + script.vip_move_after, change |-> "vip",
                       at |-> conf.owner] >>
       /\ done = {1} \cup {i \in {2} : clock > since /\ since + script.vip_move_after <= clock}
       /\ IsMoved(node, conf, FALSE, IF 2 \in done THEN conf.owner ELSE conf.standby)

InStopping ==
  /\ simTest = "H-6" /\ outcome = "NT" /\ since = 0 /\ clock <= 120
  /\ events = << [due |-> script.patroni_stop_after, change |-> "stopped", at |-> conf.h6] >>
  /\ done = {i \in {1} : clock > 0 /\ script.patroni_stop_after <= clock}
  /\ IsHalting(node, conf, 1 \in done)
  /\ clock > 1 => script.patroni_stop_after > clock - 1

InStarting ==
  /\ simTest = "H-6" /\ outcome = "NT"
  /\ seen <=> script.patroni_stop_after < 120
  /\ script.patroni_stop_after < 120 =>
       /\ events = << [due |-> script.patroni_stop_after, change |-> "stopped",
                       at |-> conf.h6],
                      [due |-> since + script.patroni_start_after, change |-> "streaming",
                       at |-> conf.h6] >>
       /\ done = {1} \cup {i \in {2} : clock > since
                                        /\ since + script.patroni_start_after <= clock}
       /\ IsSteady(node, conf, Old, conf.h6, 2 \notin done)
       /\ Waited <= 120
       /\ Waited > 1 => script.patroni_start_after > Waited - 1

InSsh ==
  /\ Decided
  /\ WithinWaits => IF simTest = "H-4" THEN /\ Falling /\ since > 0
                                            /\ script.promote_after <= since
                    ELSE clock = since /\ Settled(clock + 360)

InServices ==
  /\ Decided
  /\ WithinWaits => IF simTest = "H-4" THEN Falling /\ done = {1, 2, 3}
                    ELSE clock = since /\ Settled(clock + 360)

InHealthy == Decided /\ (WithinWaits => Settled(since + 360))

InVip ==
  /\ Decided
  /\ WithinWaits => done = DOMAIN events /\ IsSteady(node, conf, Old, conf.h6, FALSE)

SimInv ==
  /\ simPc \in {"choose", "inject", "follow", "wait ssh", "revive", "rejoin", "takeover",
                "return", "stopping", "starting", "ssh", "services", "healthy", "vip", "over"}
  /\ clock \in Nat /\ since \in Nat /\ since <= clock
  /\ IF simPc = "choose"
       THEN /\ events = <<>> /\ done = {} /\ clock = 0 /\ since = 0 /\ injected = 0
            /\ seen = FALSE /\ outcome = "NT"
       ELSE Chosen
  /\ simPc = "inject" => InInject
  /\ simPc = "follow" => InFollow
  /\ simPc = "wait ssh" => InWaitSsh
  /\ simPc = "revive" => InRevive
  /\ simPc = "rejoin" => InRejoin
  /\ simPc = "takeover" => InTakeover
  /\ simPc = "return" => InReturn
  /\ simPc = "stopping" => InStopping
  /\ simPc = "starting" => InStarting
  /\ simPc = "ssh" => InSsh
  /\ simPc = "services" => InServices
  /\ simPc = "healthy" => InHealthy
  /\ simPc = "vip" => InVip
  /\ ScriptDecides

-----------------------------------------------------------------------------
(* Sleeping                                                                   *)

KillDues == <<script.reboot_after, RebootEnd, script.promote_after>>

LEMMA DueOfKill ==
  /\ DOMAIN KillEvents = 1..3
  /\ \A i \in 1..3 : KillEvents[i].due = KillDues[i]
  <1>1. DOMAIN KillEvents = 1..3
    BY DEF KillEvents
  <1>2. /\ KillEvents[1].due = KillDues[1] /\ KillEvents[2].due = KillDues[2]
        /\ KillEvents[3].due = KillDues[3]
    BY DEF KillEvents, KillDues, RebootEnd
  <1>3. \A i \in 1..3 : i = 1 \/ i = 2 \/ i = 3
    OBVIOUS
  <1> QED
    BY <1>1, <1>2, <1>3

LEMMA SleepFacts ==
  ASSUME NEW d \in Nat, Sleep(d), clock \in Nat,
         NEW due, due = {i \in DOMAIN events \ done : events[i].due <= clock + d}
  PROVE  /\ clock' = clock + d /\ clock' \in Nat /\ events' = events
         /\ done' = done \cup due /\ node' = Applied(due)
  BY DEF Sleep

\* The changes of Kill, in their order.
LEMMA FallInTurn ==
  ASSUME Chosen, events = KillEvents, NEW due \in SUBSET (1..3), NEW d \in SUBSET (1..3),
         d \cap due = {}, IsKilled(node, conf, d), 2 \in d => 1 \in d
  PROVE  IsKilled(InTurn(due), conf, d \cup due)
  <1> DEFINE n1 == With(node, due, 1)
             n2 == With(n1, due, 2)
             n3 == With(n2, due, 3)
             d1 == d \cup (due \cap {1})
             d2 == d1 \cup (due \cap {2})
             d3 == d2 \cup (due \cap {3})
  <1>1. /\ Change(node, events[1]) = [node EXCEPT ![Old].reachable = FALSE]
        /\ Change(n1, events[2]) = [n1 EXCEPT ![Old].reachable = TRUE,
                                      ![Old].service = "inactive", ![Old].watchdog = FALSE]
        /\ Change(n2, events[3]) = SetRole(n2, conf.promoteTo, "primary", "running")
    <2> HIDE DEF n1, n2
    <2> QED
      BY DEF Change, KillEvents
  <1>2. IsKilled(n1, conf, d1)
    <2>1. CASE 1 \in due
      <3>1. 1 \notin d /\ 2 \notin d /\ d1 = d \cup {1}
        BY <2>1
      <3> HIDE DEF d1
      <3>2. n1 = [node EXCEPT ![Old].reachable = FALSE]
        BY <1>1, <2>1 DEF With
      <3> QED
        BY <3>1, <3>2, RebootChanges
    <2>2. CASE 1 \notin due
      <3>1. d1 = d /\ n1 = node
        BY <2>2 DEF With
      <3> HIDE DEF d1, n1
      <3> QED
        BY <3>1
    <2> QED
      BY <2>1, <2>2
  <1> HIDE DEF n1, d1
  <1>3. IsKilled(n2, conf, d2)
    <2>1. CASE 2 \in due
      <3>1. d2 = d1 \cup {2}
        BY <2>1
      <3> HIDE DEF d2
      <3>2. n2 = [n1 EXCEPT ![Old].reachable = TRUE, ![Old].service = "inactive",
                            ![Old].watchdog = FALSE]
        BY <1>1, <2>1 DEF With
      <3> QED
        BY <1>2, <3>1, <3>2, BootChanges
    <2>2. CASE 2 \notin due
      <3>1. d2 = d1 /\ n2 = n1
        BY <2>2 DEF With
      <3> HIDE DEF d2, n2
      <3> QED
        BY <1>2, <3>1
    <2> QED
      BY <2>1, <2>2
  <1> HIDE DEF n2, d2
  <1>4. IsKilled(n3, conf, d3)
    <2>1. CASE 3 \in due
      <3>1. d3 = d2 \cup {3}
        BY <2>1
      <3> HIDE DEF d3
      <3>2. n3 = SetRole(n2, conf.promoteTo, "primary", "running")
        BY <1>1, <2>1 DEF With
      <3> QED
        BY <1>3, <3>1, <3>2, PromotionChanges
    <2>2. CASE 3 \notin due
      <3>1. d3 = d2 /\ n3 = n2
        BY <2>2 DEF With
      <3> HIDE DEF d3, n3
      <3> QED
        BY <1>3, <3>1
    <2> QED
      BY <2>1, <2>2
  <1>5. d3 = d \cup due
    <2>1. \A i \in due : i = 1 \/ i = 2 \/ i = 3
      OBVIOUS
    <2> QED
      BY <2>1 DEF d1, d2
  <1>6. n3 = InTurn(due)
    BY DEF n1, n2, InTurn
  <1> HIDE DEF n3, d3
  <1> QED
    BY <1>4, <1>5, <1>6

LEMMA FallingSleeps ==
  ASSUME Chosen, Falling, NEW t \in Nat, t > 0, Sleep(t), clock \in Nat,
         script' = script, conf' = conf
  PROVE  Falling' /\ clock' = clock + t
  <1> DEFINE due == {i \in DOMAIN events \ done : events[i].due <= clock + t}
             ds == KillDues
  <1>1. script.reboot_after \in Nat /\ RebootEnd \in Nat /\ script.promote_after \in Nat
        /\ script.reboot_after <= RebootEnd
    BY ScriptFields DEF RebootEnd
  <1>2. /\ events = KillEvents /\ DOMAIN events = 1..3
        /\ \A i \in 1..3 : events[i].due = ds[i] /\ ds[i] \in Nat
    <2>1. ds[1] \in Nat /\ ds[2] \in Nat /\ ds[3] \in Nat
      BY <1>1 DEF KillDues
    <2>2. \A i \in 1..3 : i = 1 \/ i = 2 \/ i = 3
      OBVIOUS
    <2> QED
      BY <2>1, <2>2, DueOfKill DEF Falling
  <1>3. done = {i \in 1..3 : clock > 0 /\ ds[i] <= clock}
    BY <1>2 DEF Falling
  <1>4. ds[1] = script.reboot_after /\ ds[2] = RebootEnd
    BY DEF KillDues
  <1> HIDE DEF ds
  <1>5. 2 \in done => 1 \in done
    BY <1>1, <1>3, <1>4
  <1>6. due = {i \in (1..3) \ done : ds[i] <= clock + t}
    BY <1>2
  <1>7. clock' = clock + t /\ events' = events /\ done' = done \cup due /\ node' = Applied(due)
    BY SleepFacts
  <1> HIDE DEF due
  <1>8. due \in SUBSET (1..3) /\ done \in SUBSET (1..3) /\ done \cap due = {}
    BY <1>3, <1>6
  <1>9. IsKilled(node', conf, done')
    BY <1>2, <1>5, <1>7, <1>8, AppliedInTurn, FallInTurn DEF Falling
  <1>10. done' = {i \in 1..3 : clock' > 0 /\ ds[i] <= clock'}
    <2>1. \A i \in 1..3 : clock > 0 /\ ds[i] <= clock => ds[i] <= clock + t
      BY <1>2
    <2>2. clock' > 0
      BY <1>7
    <2> QED
      BY <1>3, <1>6, <1>7, <2>1, <2>2
  <1>11. KillEvents' = KillEvents
    BY DEF KillEvents, Old
  <1>12. IsKilled(node, conf, done)'
    BY <1>9 DEF IsKilled
  <1>13. \A i \in 1..3 : KillEvents[i].due = ds[i]
    BY <1>2
  <1>14. done' = {i \in 1..3 : clock' > 0 /\ KillEvents[i].due <= clock'}
    BY <1>10, <1>13
  <1> QED
    BY <1>2, <1>7, <1>11, <1>12, <1>14 DEF Falling

LEMMA SleepsOn ==
  ASSUME NEW t \in Nat, Sleep(t), clock \in Nat,
         \A i \in DOMAIN events \ done : ~(events[i].due <= clock + t)
  PROVE  node' = node /\ done' = done /\ events' = events /\ clock' = clock + t
  <1>1. {i \in DOMAIN events \ done : events[i].due <= clock + t} = {}
    OBVIOUS
  <1> QED
    BY <1>1, SleepFacts, AppliedNone

LEMMA SleepsToChange ==
  ASSUME NEW t \in Nat, Sleep(t), clock \in Nat, NEW k \in Nat,
         DOMAIN events \ done = {k}, events[k].due <= clock + t
  PROVE  /\ node' = Change(node, events[k]) /\ done' = done \cup {k}
         /\ events' = events /\ clock' = clock + t
  <1>1. {i \in DOMAIN events \ done : events[i].due <= clock + t} = {k}
    OBVIOUS
  <1> QED
    BY <1>1, SleepFacts, AppliedOne

-----------------------------------------------------------------------------
(* Every step                                                                 *)

LEMMA Arrives ==
  ASSUME clock' \in Nat, since' \in Nat, since' <= clock', Chosen',
         \/ simPc' = "inject" /\ InInject'
         \/ simPc' = "follow" /\ InFollow'
         \/ simPc' = "wait ssh" /\ InWaitSsh'
         \/ simPc' = "revive" /\ InRevive'
         \/ simPc' = "rejoin" /\ InRejoin'
         \/ simPc' = "takeover" /\ InTakeover'
         \/ simPc' = "return" /\ InReturn'
         \/ simPc' = "stopping" /\ InStopping'
         \/ simPc' = "starting" /\ InStarting'
         \/ simPc' = "ssh" /\ InSsh'
         \/ simPc' = "services" /\ InServices'
         \/ simPc' = "healthy" /\ InHealthy'
         \/ simPc' = "vip" /\ InVip'
         \/ simPc' = "over" /\ ScriptDecides'
  PROVE  SimInv'
  BY DEF SimInv, ScriptDecides

LEMMA ChosenStays == ASSUME Chosen, Same PROVE Chosen'
  BY DEF Chosen, Same

LEMMA ChoosesKeep == ASSUME SimInv, ChooseScript PROVE SimInv'
  <1>1. Chosen' /\ simPc' = "inject"
    BY DEF ChooseScript, Chosen
  <1>2. node' = [n \in Members |-> FreshNode(n)]
    BY DEF ChooseScript
  <1>3. IsSteady(node', conf', Old, conf'.h6, FALSE)
    <2>1. ASSUME NEW n \in Members
          PROVE  Looks(FreshNode(n), IF n = Old THEN "primary" ELSE "replica",
                       IF n = Old THEN "running"
                       ELSE IF FALSE /\ n = conf'.h6 THEN "starting" ELSE "streaming",
                       "active", TRUE, "active", n = Old, n = conf'.owner, TRUE, TRUE)
      BY DEF Looks, FreshNode, NodeType, Old
    <2>2. \A n \in Members : FreshNode(n) \in NodeType
      BY <2>1 DEF Looks
    <2>3. node' \in [Members -> NodeType] /\ \A n \in Members : node'[n] = FreshNode(n)
      BY <1>2, <2>2
    <2> QED
      BY <2>1, <2>3 DEF IsSteady
  <1>4. InInject'
    BY <1>3 DEF InInject, ChooseScript, SimInv
  <1>5. clock' = 0 /\ since' = 0
    BY DEF ChooseScript, SimInv
  <1> QED
    BY <1>1, <1>4, <1>5, Arrives

LEMMA ReadsOnly == ASSUME SimInv, ReadOnlyTest PROVE SimInv'
  <1>1. Chosen /\ InInject /\ Chosen' /\ clock' = clock /\ clock = 0 /\ since' = clock'
        /\ simPc' = "ssh" /\ events' = events /\ done' = done /\ node' = node /\ conf' = conf
        /\ script' = script /\ simTest' = simTest
    BY ChosenStays DEF SimInv, ReadOnlyTest, Judge, Goto, Still, Same, InInject
  <1>2. IsSteady(node, conf, Old, conf.h6, FALSE) /\ events = <<>> /\ done = {}
    BY <1>1 DEF InInject
  <1>3. ReplicationRows = Replicas
    BY <1>1, <1>2, SeesBase
  <1>4. H1Holds <=> script.lag_within_limit
    BY <1>3 DEF H1Holds, SeenInTime
  <1>5. Decided'
    <2>1. CASE simTest = "H-1"
      <3>1. WithinLimits' <=> script.lag_within_limit
        BY <1>1, <2>1 DEF WithinLimits
      <3>2. outcome' = IF H1Holds THEN "Pass" ELSE "Fail"
        BY <2>1 DEF ReadOnlyTest, Judge
      <3> QED
        BY <1>4, <3>1, <3>2 DEF Decided
    <2>2. CASE simTest = "H-2"
      <3>1. WithinLimits' <=> ~script.primary_queried /\ ~script.primary_busy
                                /\ script.write_reaches_primary
        BY <1>1, <2>2 DEF WithinLimits
      <3>2. outcome' = IF SearchedReplicasOnly /\ PrimaryIdle /\ DocumentOnPrimary
                         THEN "Pass" ELSE "Fail"
        BY <2>2 DEF ReadOnlyTest, Judge
      <3> QED
        BY <3>1, <3>2 DEF Decided, SearchedReplicasOnly, PrimaryIdle, DocumentOnPrimary
    <2> QED
      BY <2>1, <2>2 DEF ReadOnlyTest
  <1>6. simTest' # "H-4" /\ Lead' = Old /\ Late' = conf.h6
    BY <1>1 DEF Lead, Late, ReadOnlyTest, Old
  <1>7. (Settled(clock + 360))'
    <2>1. done' = DOMAIN events'
      BY <1>1, <1>2
    <2>2. IsSteady(node', conf', Lead', Late', FALSE)
      BY <1>1, <1>2, <1>6
    <2>3. events' \in Seq(EventType)
      BY <1>1, <1>2
    <2> QED
      BY <2>1, <2>2, <2>3 DEF Settled
  <1>8. InSsh'
    BY <1>1, <1>5, <1>6, <1>7 DEF InSsh
  <1> QED
    BY <1>1, <1>8, Arrives

LEMMA KillKeeps == ASSUME SimInv, Kill PROVE SimInv'
  <1>1. Chosen /\ InInject /\ Chosen' /\ clock' = clock /\ clock = 0 /\ since' = clock'
        /\ simPc' = "follow" /\ done' = done /\ injected' = clock /\ seen' = seen
        /\ outcome' = outcome /\ conf' = conf /\ script' = script /\ simTest' = simTest
    BY ChosenStays DEF SimInv, Kill, Goto, Same, InInject
  <1>2. IsSteady(node, conf, Old, conf.h6, FALSE) /\ done = {} /\ seen = FALSE
        /\ outcome = "NT"
    BY <1>1 DEF InInject
  <1>3. IsKilled(node', conf, {})
    BY <1>1, <1>2, KillingChanges DEF Kill
  <1>4. events' = KillEvents'
    <2>1. script.reboot_after \in Nat /\ script.reboot_duration \in Nat
          /\ script.promote_after \in Nat
      BY <1>1, ScriptFields
    <2>2. /\ clock + script.reboot_after = script.reboot_after
          /\ clock + (script.reboot_after + script.reboot_duration)
               = script.reboot_after + script.reboot_duration
          /\ clock + script.promote_after = script.promote_after
      BY <1>1, <2>1
    <2>3. events' = <<After(script.reboot_after, "reboot start", Old),
                 After(script.reboot_after + script.reboot_duration, "reboot end", Old),
                 After(script.promote_after, "promote", conf.promoteTo)>>
      BY DEF Kill
    <2>4. events' = KillEvents
      BY <2>2, <2>3 DEF KillEvents, After
    <2> QED
      BY <1>1, <2>4 DEF KillEvents, Old
  <1>5. Falling'
    <2>1. done' = {i \in 1..3 : clock' > 0 /\ KillEvents'[i].due <= clock'}
      BY <1>1, <1>2
    <2> QED
      BY <1>1, <1>2, <1>3, <1>4, <2>1 DEF Falling
  <1>6. \E k \in Nat : clock' = 4 * k
    <2>1. 0 \in Nat /\ clock' = 4 * 0
      BY <1>1
    <2> QED
      BY <2>1
  <1>7. simTest' \in {"H-3", "H-4"}
    BY <1>1 DEF Kill
  <1>8. InFollow'
    <2>1. clock' <= 132 /\ ~(clock' > 4) /\ seen' = FALSE /\ outcome' = "NT"
          /\ injected' = 0 /\ since' = 0
      BY <1>1, <1>2
    <2> QED
      BY <1>5, <1>6, <1>7, <2>1 DEF InFollow
  <1> QED
    BY <1>1, <1>8, Arrives

LEMMA StopProxyKeeps == ASSUME SimInv, StopProxy PROVE SimInv'
  <1>1. Chosen /\ InInject /\ Chosen' /\ clock' = clock /\ clock = 0 /\ since' = clock'
        /\ simPc' = "takeover" /\ done' = done /\ injected' = clock
        /\ outcome' = outcome /\ conf' = conf /\ script' = script /\ simTest' = "H-5"
    BY ChosenStays DEF SimInv, StopProxy, Goto, Same, InInject
  <1>2. IsSteady(node, conf, Old, conf.h6, FALSE) /\ done = {} /\ events = <<>>
        /\ outcome = "NT"
    BY <1>1 DEF InInject
  <1>3. IsMoved(node', conf, TRUE, conf.owner)
    BY <1>1, <1>2, ProxyStops DEF StopProxy
  <1>4. events' = << [due |-> script.vip_move_after, change |-> "vip", at |-> conf.standby] >>
    <2>1. script.vip_move_after \in Nat
      BY <1>1, ScriptFields
    <2> QED
      BY <1>1, <1>2, <2>1 DEF StopProxy, After
  <1>5. done' = {i \in {1} : clock' > 0 /\ script'.vip_move_after <= clock'}
    BY <1>1, <1>2
  <1>6. 1 \notin done'
    BY <1>1, <1>2
  <1>7. InTakeover'
    BY <1>1, <1>2, <1>3, <1>4, <1>5, <1>6 DEF InTakeover
  <1> QED
    BY <1>1, <1>7, Arrives

LEMMA StopPatroniKeeps == ASSUME SimInv, StopPatroni PROVE SimInv'
  <1>1. Chosen /\ InInject /\ Chosen' /\ clock' = clock /\ clock = 0 /\ since' = clock'
        /\ simPc' = "stopping" /\ done' = done
        /\ outcome' = outcome /\ conf' = conf /\ script' = script /\ simTest' = "H-6"
    BY ChosenStays DEF SimInv, StopPatroni, Goto, Same, InInject
  <1>2. IsSteady(node, conf, Old, conf.h6, FALSE) /\ done = {} /\ events = <<>>
        /\ outcome = "NT"
    BY <1>1 DEF InInject
  <1>3. IsHalting(node', conf, FALSE)
    BY <1>1, <1>2, HaltingBegins DEF StopPatroni
  <1>4. events' = << [due |-> script.patroni_stop_after, change |-> "stopped",
                      at |-> conf.h6] >>
    <2>1. script.patroni_stop_after \in Nat
      BY <1>1, ScriptFields
    <2> QED
      BY <1>1, <1>2, <2>1 DEF StopPatroni, After
  <1>5. done' = {i \in {1} : clock' > 0 /\ script'.patroni_stop_after <= clock'}
    BY <1>1, <1>2
  <1>6. IsHalting(node', conf', 1 \in done')
    <2>1. 1 \notin done'
      BY <1>1, <1>2
    <2>2. conf' = conf
      BY <1>1
    <2> QED
      BY <1>3, <2>1, <2>2 DEF IsHalting, Looks
  <1>7. InStopping'
    BY <1>1, <1>2, <1>3, <1>4, <1>5, <1>6 DEF InStopping
  <1> QED
    BY <1>1, <1>7, Arrives

\* The order SimScript states for H-3: the watchdog reboots the old Primary, then
\* another is promoted.  And writing stops, if only for half a second.
ScriptsInOrder ==
  \A t \in DOMAIN Scripts : t = "H-3" =>
    \A s \in Scripts[t] : s.reboot_after < s.promote_after /\ s.write_resume_after >= 1

LEMMA InOrder ==
  ASSUME ScriptsInOrder, Chosen, simTest = "H-3"
  PROVE  script.reboot_after < script.promote_after /\ script.write_resume_after >= 1
  BY DEF ScriptsInOrder, Chosen

LEMMA Limits ==
  /\ PROMOTE_LIMIT = 90 /\ FOLLOW_MARGIN = 40 /\ REBOOT_WAIT = 480 /\ REJOIN_LIMIT = 360
  /\ VIP_WRITE_LIMIT = 10 /\ VIP_FOLLOW_LIMIT = 60 /\ H6_LIMIT = 120 /\ HEALTHY_WAIT = 360
  /\ ROLE_LOG = 94 /\ Seconds(1) = 2 /\ Seconds(2) = 4 /\ Seconds(3) = 6
  /\ LastLook(PROMOTE_LIMIT + FOLLOW_MARGIN) = 128 /\ LastLook(REJOIN_LIMIT) = 356
  <1>1. /\ PROMOTE_LIMIT = 90 /\ FOLLOW_MARGIN = 40 /\ REBOOT_WAIT = 480
        /\ REJOIN_LIMIT = 360 /\ VIP_WRITE_LIMIT = 10 /\ VIP_FOLLOW_LIMIT = 60
        /\ H6_LIMIT = 120 /\ HEALTHY_WAIT = 360 /\ ROLE_LOG = 94
        /\ Seconds(1) = 2 /\ Seconds(2) = 4 /\ Seconds(3) = 6
    BY DEF PROMOTE_LIMIT, FOLLOW_MARGIN, REBOOT_WAIT, REJOIN_LIMIT, VIP_WRITE_LIMIT,
           VIP_FOLLOW_LIMIT, H6_LIMIT, HEALTHY_WAIT, ROLE_LOG, Seconds
  <1>2. 129 \div 4 = 32 /\ 359 \div 4 = 89
    OBVIOUS
  <1> QED
    BY <1>1, <1>2 DEF LastLook

LEMMA NextLookIs ==
  ASSUME NEW k \in Nat, NEW x \in Nat, x >= 1, x <= 4 * k, 4 * k - 4 < x
  PROVE  NextLook(x) = 4 * k
  <1>1. (x - 1) \div 4 = k - 1
    OBVIOUS
  <1> QED
    BY <1>1, Limits DEF NextLook, LastLook

LEMMA MaxOfTwo ==
  ASSUME NEW a \in Nat, NEW b \in Nat
  PROVE  Max({a, b}) = IF a >= b THEN a ELSE b
  <1>1. {a, b} \in SUBSET Nat /\ {a, b} # {} /\ \A x \in {a, b} : x <= a + b
    OBVIOUS
  <1>2. Max({a, b}) \in {a, b} /\ \A x \in {a, b} : x <= Max({a, b})
    <2>1. a + b \in Nat
      OBVIOUS
    <2> QED
      BY <1>1, <2>1, MaxOfBounded
  <1> QED
    BY <1>2

LEMMA FollowEndIs ==
  ASSUME Chosen, NEW k \in Nat, clock = 4 * k,
         script.promote_after <= clock, script.write_resume_after < clock,
         clock - 4 < script.promote_after \/ clock - 4 <= script.write_resume_after
  PROVE  FollowEnd = clock
  <1> DEFINE x == Max({script.promote_after, script.write_resume_after + 1})
  <1>1. script.promote_after \in Nat /\ script.write_resume_after + 1 \in Nat
    BY ScriptFields
  <1>2. x = IF script.promote_after >= script.write_resume_after + 1
              THEN script.promote_after ELSE script.write_resume_after + 1
    BY <1>1, MaxOfTwo
  <1> HIDE DEF x
  <1>3. x \in Nat /\ x >= 1 /\ x <= 4 * k /\ 4 * k - 4 < x
    BY <1>1, <1>2, ScriptFields
  <1> QED
    BY <1>3, NextLookIs DEF FollowEnd, x

\* The recorder's log shows that writing works again from the moment it does.
LEMMA WritingResumes ==
  ASSUME Chosen, clock \in Nat, injected = 0, simTest # "H-5"
  PROVE  /\ WriteResumed(injected) => clock > script.write_resume_after
         /\ script.write_resume_after >= 1 /\ clock > script.write_resume_after
              => WriteResumed(injected)
  <1> DEFINE w == script.write_resume_after
             R == Recent(injected)
  <1>1. w \in Nat /\ ResumeAt = w
    BY ScriptFields DEF ResumeAt
  <1>2. \A t \in Nat : WriteOk(t) <=> t >= w
    BY <1>1 DEF WriteOk
  <1>3. R = {t \in 0 .. w + 5 : IF t >= w THEN t < clock ELSE t + 2 <= clock}
    BY <1>1, <1>2 DEF Recent
  <1> HIDE DEF R, w
  <1>4. R # {} => Max(R) \in R /\ \A t \in R : t <= Max(R)
    <2>1. R \in SUBSET Nat /\ \A t \in R : t <= w + 5
      BY <1>1, <1>3
    <2>2. w + 5 \in Nat
      BY <1>1
    <2> QED
      BY <2>1, <2>2, MaxOfBounded
  <1>5. ASSUME WriteResumed(injected) PROVE clock > w
    <2>1. R # {} /\ WriteOk(Max(R))
      BY <1>5 DEF WriteResumed, Writing, R
    <2>2. Max(R) \in R
      BY <1>4, <2>1
    <2>3. Max(R) \in Nat /\ Max(R) >= w
      BY <1>1, <1>2, <1>3, <2>1, <2>2
    <2> QED
      BY <1>1, <1>3, <2>2, <2>3
  <1>6. ASSUME w >= 1, clock > w PROVE WriteResumed(injected)
    <2>1. w \in R /\ 0 \in R
      BY <1>1, <1>3, <1>6
    <2>2. Max(R) \in Nat /\ Max(R) >= w
      BY <1>1, <1>3, <1>4, <2>1
    <2>3. WriteOk(Max(R))
      BY <1>2, <2>2
    <2>4. ~WriteOk(0)
      BY <1>1, <1>2, <1>6
    <2> QED
      BY <2>1, <2>3, <2>4 DEF WriteResumed, Writing, R
  <1> QED
    BY <1>5, <1>6 DEF w


-----------------------------------------------------------------------------
(* The steps of H-3 and H-4                                                   *)

\* The test, its script and its configuration are chosen once.
LEMMA ScriptStays ==
  ASSUME Same
  PROVE  /\ script' = script /\ conf' = conf /\ simTest' = simTest
         /\ (Followed' <=> Followed) /\ (Early' <=> Early)
         /\ FollowEnd' = FollowEnd /\ RebootEnd' = RebootEnd
         /\ (WithinWaits' <=> WithinWaits) /\ (WithinLimits' <=> WithinLimits)
         /\ Lead' = Lead /\ Late' = Late /\ KillEvents' = KillEvents
  <1>1. script' = script /\ conf' = conf /\ simTest' = simTest
    BY DEF Same
  <1>2. (Followed' <=> Followed) /\ (Early' <=> Early) /\ RebootEnd' = RebootEnd
    BY <1>1 DEF Followed, Early, RebootEnd
  <1>3. FollowEnd' = FollowEnd
    BY <1>1 DEF FollowEnd
  <1>4. WithinWaits' <=> WithinWaits
    BY <1>1 DEF WithinWaits
  <1>5. WithinLimits' <=> WithinLimits
    BY <1>1, <1>3 DEF WithinLimits
  <1>6. Lead' = Lead /\ Late' = Late /\ KillEvents' = KillEvents
    BY <1>1 DEF Lead, Late, KillEvents, Old
  <1> QED
    BY <1>1, <1>2, <1>3, <1>4, <1>5, <1>6

LEMMA FallingStays ==
  ASSUME Same, Falling, clock' = clock, node' = node, events' = events, done' = done
  PROVE  Falling'
  <1>1. KillEvents' = KillEvents /\ conf' = conf
    BY ScriptStays
  <1> QED
    BY <1>1 DEF Falling

LEMMA FollowEndsKeeps ==
  ASSUME Chosen, InFollow, FollowEnds, Same, clock \in Nat, clock > 0, injected' = injected,
         Followed => script.promote_after <= clock,
         simTest = "H-4" => (seen' <=> script.promote_after <= 128),
         simTest = "H-3" /\ Followed /\ Early => clock = FollowEnd /\ seen'
  PROVE  SimInv'
  <1>1. Chosen' /\ script' = script /\ simTest' = simTest /\ clock' = clock /\ since' = clock
        /\ (Followed' <=> Followed) /\ (Early' <=> Early) /\ FollowEnd' = FollowEnd
        /\ (WithinWaits' <=> WithinWaits) /\ (WithinLimits' <=> WithinLimits)
    BY ScriptStays, ChosenStays DEF FollowEnds, Still, Goto, Judge
  <1>2. Falling' /\ outcome = "NT" /\ simTest \in {"H-3", "H-4"} /\ injected' = 0
    BY FallingStays DEF InFollow, FollowEnds, Still
  <1>3. CASE simTest = "H-3"
    <2>1. simPc' = "wait ssh" /\ outcome' = "NT"
      BY <1>2, <1>3 DEF FollowEnds, Goto
    <2>2. Waited' = 0 /\ Waited' = 6 * 0 /\ 0 \in Nat
      BY <1>1 DEF Waited
    <2>3. \E k \in Nat : Waited' = 6 * k
      BY <2>2
    <2>4. InWaitSsh'
      <3>1. Followed' => since' > 0 /\ script'.promote_after <= since' /\ Waited' <= 486
        BY <1>1, <2>2
      <3>2. Followed' => (Early' => since' = FollowEnd' /\ seen')
        BY <1>1, <1>3
      <3>3. simTest' = "H-3"
        BY <1>1, <1>3
      <3> QED
        BY <1>2, <2>1, <2>3, <3>1, <3>2, <3>3 DEF InWaitSsh
    <2>5. clock' \in Nat /\ since' \in Nat /\ since' <= clock'
      BY <1>1
    <2> QED
      BY <1>1, <2>1, <2>4, <2>5, Arrives
  <1>4. CASE simTest = "H-4"
    <2>1. simPc' = "ssh" /\ (outcome' = "Pass" <=> seen' /\ script.drop_acked = 0)
      BY <1>2, <1>4 DEF FollowEnds, Goto, Judge
    <2>2. WithinLimits <=> script.drop_acked = 0 /\ script.promote_after <= 128
      BY <1>4, Limits DEF WithinLimits
    <2>3. Decided'
      BY <1>1, <1>4, <2>1, <2>2 DEF Decided
    <2>4. WithinWaits => Followed
      BY <1>4 DEF WithinWaits, Followed
    <2>5. InSsh'
      BY <1>1, <1>2, <1>4, <2>3, <2>4 DEF InSsh
    <2> QED
      BY <1>1, <2>1, <2>5, Arrives
  <1> QED
    BY <1>2, <1>3, <1>4

LEMMA FollowKillKeeps == ASSUME ScriptsInOrder, SimInv, FollowKill PROVE SimInv'
  <1>1. Chosen /\ InFollow /\ clock \in Nat /\ Same /\ injected = 0 /\ since = 0
        /\ injected' = injected
        /\ Waited = clock /\ simTest \in {"H-3", "H-4"}
    BY DEF SimInv, FollowKill, InFollow, Waited
  <1> DEFINE pa == script.promote_after
             w == script.write_resume_after
  <1>2. pa \in Nat /\ w \in Nat
    BY <1>1, ScriptFields
  <1>3. PICK j \in Nat : clock = 4 * j
    BY <1>1 DEF InFollow
  <1>4. /\ clock <= 132 /\ (seen <=> (clock > 4 /\ pa <= clock - 4))
        /\ (simTest = "H-3" /\ seen => clock - 4 <= w) /\ seen \in BOOLEAN
    BY <1>1 DEF InFollow
  <1>5. Early => w < 90 /\ pa <= 94
    BY Limits DEF Early
  <1>6. Followed => pa <= 130
    BY Limits DEF Followed
  <1> HIDE DEF pa, w
  <1>7. CASE clock >= 130
    <2>1. seen' = seen /\ FollowEnds
      BY <1>1, <1>7, Limits DEF FollowKill
    <2>2. clock = 132
      BY <1>3, <1>4, <1>7
    <2>3. seen' <=> pa <= 128
      BY <1>2, <1>4, <2>1, <2>2
    <2>4. ~(simTest = "H-3" /\ Early)
      BY <1>2, <1>4, <1>5, <2>2
    <2>5. Followed => pa <= clock
      BY <1>2, <1>6, <2>2
    <2> QED
      BY <1>1, <2>1, <2>2, <2>3, <2>4, <2>5, FollowEndsKeeps DEF pa
  <1>8. CASE ~(clock >= 130)
    <2>1. clock <= 128
      BY <1>3, <1>8
    <2>2. /\ (seen' <=> seen \/ Leaders \ {Old} # {})
          /\ IF seen' /\ WriteResumed(injected)
               THEN FollowEnds
               ELSE Sleep(Seconds(2)) /\ UNCHANGED <<since, simPc, outcome>>
      <3>1. ~(Waited >= PROMOTE_LIMIT + FOLLOW_MARGIN)
        BY <1>1, <1>8, Limits
      <3>2. seen' = (seen \/ Leaders \ {Old} # {})
        BY <3>1 DEF FollowKill
      <3> QED
        BY <3>1, <3>2 DEF FollowKill
    <2>3. Leaders \ {Old} # {} <=> (clock > 0 /\ pa <= clock)
      <3>1. Falling
        BY <1>1 DEF InFollow
      <3>2. 3 \in done <=> (clock > 0 /\ pa <= clock)
        BY <3>1, DueOfKill DEF Falling, KillDues, pa
      <3> QED
        BY <1>1, <3>1, <3>2, SeesKilled DEF Falling
    <2>4. seen' <=> (clock > 0 /\ pa <= clock)
      BY <1>1, <1>2, <1>4, <2>2, <2>3
    <2>5. CASE seen' /\ WriteResumed(injected)
      <3>1. clock > 0 /\ pa <= clock /\ pa <= 128 /\ clock > w /\ FollowEnds
        BY <1>1, <1>2, <2>1, <2>2, <2>4, <2>5, WritingResumes DEF w
      <3>2. simTest = "H-3" => clock - 4 < pa \/ clock - 4 <= w
        BY <1>1, <1>2, <1>4
      <3>3. simTest = "H-3" => FollowEnd = clock
        BY <1>1, <1>3, <3>1, <3>2, FollowEndIs DEF pa, w
      <3> QED
        BY <1>1, <2>5, <3>1, <3>3, FollowEndsKeeps DEF pa
    <2>6. CASE ~(seen' /\ WriteResumed(injected))
      <3>1. Sleep(4) /\ since' = since /\ simPc' = simPc /\ outcome' = outcome
            /\ injected' = injected
        BY <2>2, <2>6, Limits DEF FollowKill
      <3>2. Falling' /\ clock' = clock + 4 /\ Chosen' /\ simTest' = simTest /\ script' = script
        BY <1>1, <3>1, FallingSleeps, ScriptStays, ChosenStays DEF InFollow
      <3>3. j + 1 \in Nat /\ clock' = 4 * (j + 1) /\ clock' <= 132 /\ clock' \in Nat
        BY <1>3, <2>1, <3>2
      <3>4. \E k \in Nat : clock' = 4 * k
        BY <3>3
      <3>5. seen' <=> (clock' > 4 /\ script'.promote_after <= clock' - 4)
        BY <1>1, <1>2, <2>4, <3>2 DEF pa
      <3>6. simTest = "H-3" /\ seen' => clock <= w
        <4>1. simTest = "H-3" => w >= 1
          BY <1>1, InOrder DEF w
        <4> QED
          BY <1>1, <1>2, <2>6, <4>1, WritingResumes DEF w
      <3>7. simTest' = "H-3" /\ seen' => clock' - 4 <= script'.write_resume_after
        BY <1>1, <1>2, <3>2, <3>6 DEF w
      <3>8. seen' \in BOOLEAN
        BY <1>1, <1>4, <1>8, Limits DEF FollowKill
      <3>9. InFollow'
        BY <1>1, <3>1, <3>2, <3>3, <3>4, <3>5, <3>7, <3>8 DEF InFollow
      <3>10. simPc' = "follow" /\ since' \in Nat /\ since' <= clock'
        BY <1>1, <3>1, <3>3 DEF FollowKill
      <3> QED
        BY <3>2, <3>3, <3>9, <3>10, Arrives
    <2> QED
      BY <2>5, <2>6
  <1> QED
    BY <1>7, <1>8

LEMMA WaitSshKeeps == ASSUME ScriptsInOrder, SimInv, WaitSsh PROVE SimInv'
  <1>1. Chosen /\ InWaitSsh /\ clock \in Nat /\ since \in Nat /\ since <= clock /\ Same
        /\ injected' = injected /\ seen' = seen /\ outcome' = outcome
    BY DEF SimInv, WaitSsh
  <1>2. Chosen' /\ script' = script /\ simTest' = simTest
        /\ (Followed' <=> Followed) /\ (Early' <=> Early) /\ FollowEnd' = FollowEnd
        /\ (WithinWaits' <=> WithinWaits) /\ (WithinLimits' <=> WithinLimits)
        /\ RebootEnd' = RebootEnd
    BY <1>1, ScriptStays, ChosenStays
  <1>3. simTest = "H-3" /\ outcome = "NT" /\ injected = 0
    BY <1>1 DEF InWaitSsh
  <1>4. script.reboot_after \in Nat /\ script.reboot_duration \in Nat
        /\ script.promote_after \in Nat /\ script.reboot_after < script.promote_after
        /\ RebootEnd = script.reboot_after + script.reboot_duration
    BY <1>1, <1>3, ScriptFields, InOrder DEF RebootEnd
  <1>5. ASSUME Followed
        PROVE  /\ Falling /\ since > 0 /\ script.promote_after <= since
               /\ Waited <= 486 /\ (Early => since = FollowEnd /\ seen)
               /\ 1 \in done /\ 3 \in done /\ done \subseteq 1..3
               /\ 2 \in done <=> RebootEnd <= clock
               /\ node[Old].reachable <=> 2 \in done
    <2>1. /\ Falling /\ since > 0 /\ script.promote_after <= since
          /\ Waited <= 486 /\ (Early => since = FollowEnd /\ seen)
      BY <1>1, <1>5 DEF InWaitSsh
    <2>2. done = {i \in 1..3 : KillDues[i] <= clock}
      BY <1>1, <2>1, DueOfKill DEF Falling
    <2>3. 1 \in done /\ 3 \in done /\ done \subseteq 1..3
          /\ (2 \in done <=> RebootEnd <= clock)
      BY <1>1, <1>4, <2>1, <2>2 DEF KillDues
    <2>4. node[Old].reachable <=> 2 \in done
      BY <1>1, <2>1, <2>3, SeesKilled DEF Falling
    <2> QED
      BY <2>1, <2>3, <2>4
  <1>6. ~Followed => ~WithinLimits /\ ~WithinWaits
    BY <1>3, <1>4, Limits DEF Followed, WithinLimits, WithinWaits
  <1>7. CASE node[Old].reachable
    <2>1. Still /\ simPc' = "revive" /\ since' = clock' /\ clock' = clock
      BY <1>7 DEF WaitSsh, Goto, Still
    <2>2. ASSUME Followed
          PROVE  Falling' /\ done' = {1, 2, 3}
                 /\ (Early => seen /\ RebootEnd <= FollowEnd + 486)
      <3>1. Falling'
        BY <1>1, <1>5, <2>1, <2>2, FallingStays DEF Still
      <3>2. 2 \in done /\ done' = done
        BY <1>5, <1>7, <2>1, <2>2 DEF Still
      <3>3. done = {1, 2, 3}
        <4>1. \A i \in 1..3 : i = 1 \/ i = 2 \/ i = 3
          OBVIOUS
        <4> QED
          BY <1>5, <2>2, <3>2, <4>1
      <3>4. Early => RebootEnd <= FollowEnd + 486
        BY <1>1, <1>4, <1>5, <2>2, <3>2 DEF Waited
      <3> QED
        BY <1>5, <2>2, <3>1, <3>2, <3>3, <3>4
    <2>3. InRevive'
      BY <1>1, <1>2, <1>3, <2>2 DEF InRevive
    <2> QED
      BY <1>1, <1>2, <2>1, <2>3, Arrives
  <1>8. CASE ~node[Old].reachable /\ Waited > REBOOT_WAIT
    <2>1. simPc' = "ssh" /\ since' = clock' /\ clock' = clock
      BY <1>8 DEF WaitSsh, Goto, Still
    <2>2. ~WithinLimits /\ ~WithinWaits
      <3>1. CASE Followed
        <4>1. ~(RebootEnd <= clock) /\ clock - since > 480
          BY <1>5, <1>8, <3>1, Limits DEF Waited
        <4>2. ~WithinWaits
          <5>1. WithinWaits => script.reboot_duration <= 480
            BY <1>3, Limits DEF WithinWaits
          <5> QED
            BY <1>1, <1>4, <1>5, <3>1, <4>1, <5>1
        <4>3. ~WithinLimits
          <5>1. WithinLimits => Early /\ RebootEnd <= FollowEnd + 480 + 6
            BY <1>3, Limits DEF WithinLimits, Early, RebootEnd
          <5>2. PICK k \in Nat : Waited = 6 * k
            BY <1>1, <3>1 DEF InWaitSsh
          <5>3. clock - since >= 486
            BY <1>1, <4>1, <5>2 DEF Waited
          <5> QED
            BY <1>1, <1>4, <1>5, <3>1, <4>1, <5>1, <5>3
        <4> QED
          BY <4>2, <4>3
      <3> QED
        BY <1>6, <3>1
    <2>3. InSsh'
      BY <1>1, <1>2, <1>3, <2>2 DEF InSsh, Decided
    <2> QED
      BY <1>1, <1>2, <2>1, <2>3, Arrives
  <1>9. CASE ~node[Old].reachable /\ ~(Waited > REBOOT_WAIT)
    <2>1. Sleep(6) /\ since' = since
      BY <1>1, <1>9, Limits DEF WaitSsh
    <2>0. simPc' = "wait ssh"
      BY <1>9 DEF WaitSsh
    <2>2. clock' = clock + 6 /\ Waited' = Waited + 6 /\ Waited <= 480
      BY <1>1, <1>9, <2>1, Limits DEF Sleep, Waited
    <2>3. ASSUME Followed
          PROVE  Falling' /\ Waited' <= 486 /\ \E k \in Nat : Waited' = 6 * k
      <3>1. Falling'
        BY <1>1, <1>2, <1>5, <2>1, <2>3, FallingSleeps, ScriptStays
      <3>2. PICK k \in Nat : Waited = 6 * k
        BY <1>1, <2>3 DEF InWaitSsh
      <3>3. k + 1 \in Nat /\ Waited' = 6 * (k + 1) /\ Waited' <= 486
        BY <1>1, <2>2, <3>2
      <3> QED
        BY <3>1, <3>3
    <2>4. Followed => since' > 0 /\ script'.promote_after <= since'
                      /\ (Early' => since' = FollowEnd' /\ seen')
      BY <1>1, <1>2, <1>5, <2>1
    <2>5. InWaitSsh'
      BY <1>1, <1>2, <1>3, <2>3, <2>4 DEF InWaitSsh
    <2>6. clock' \in Nat /\ since' \in Nat /\ since' <= clock'
      BY <1>1, <2>1, <2>2
    <2> QED
      BY <1>2, <2>0, <2>5, <2>6, Arrives
  <1> QED
    BY <1>7, <1>8, <1>9

LEMMA ReviveKeeps == ASSUME SimInv, Revive PROVE SimInv'
  <1>1. Chosen /\ InRevive /\ clock \in Nat /\ Same /\ simPc' = "rejoin" /\ clock' = clock
        /\ since' = clock /\ done' = done /\ injected' = injected /\ seen' = seen
        /\ outcome' = outcome /\ node' = Revived(node, Old)
        /\ events' = Append(events, After(script.rejoin_after_revive, "streaming", Old))
    BY DEF SimInv, Revive, Goto
  <1>2. Chosen' /\ script' = script /\ simTest' = simTest /\ conf' = conf
        /\ (Followed' <=> Followed) /\ (Early' <=> Early) /\ FollowEnd' = FollowEnd
        /\ RebootEnd' = RebootEnd /\ KillEvents' = KillEvents
    BY <1>1, ScriptStays, ChosenStays
  <1>3. simTest = "H-3" /\ outcome = "NT" /\ injected = 0
    BY <1>1 DEF InRevive
  <1>4. ASSUME Followed PROVE Falling /\ done = {1, 2, 3}
                              /\ (Early => seen /\ RebootEnd <= FollowEnd + 486)
    BY <1>1, <1>4 DEF InRevive
  <1>5. Waited' = 0 /\ \E k \in Nat : Waited' = 4 * k
    <2>1. Waited' = 0 /\ 0 \in Nat /\ 0 = 4 * 0
      BY <1>1 DEF Waited
    <2> QED
      BY <2>1
  <1>6. ASSUME Followed
        PROVE  /\ events' = Append(KillEvents', [due |-> since' + script'.rejoin_after_revive,
                                                 change |-> "streaming", at |-> Old])
               /\ done' = {1, 2, 3}
               /\ IsSteady(node', conf', conf'.promoteTo, Old, TRUE)
    <2>1. events = KillEvents /\ IsKilled(node, conf, done)
      BY <1>4, <1>6 DEF Falling
    <2>2. IsSteady(node', conf, conf.promoteTo, Old, TRUE)
      BY <1>1, <1>4, <1>6, <2>1, RevivalChanges
    <2>3. events' = Append(KillEvents, [due |-> since' + script'.rejoin_after_revive,
                                        change |-> "streaming", at |-> Old])
      BY <1>1, <1>2, <2>1 DEF After
    <2> QED
      BY <1>1, <1>2, <1>4, <1>6, <2>2, <2>3 DEF Old
  <1>7. ASSUME Followed
        PROVE  /\ done' = {1, 2, 3} \cup {i \in {4} : clock' > since'
                                  /\ since' + script'.rejoin_after_revive <= clock'}
               /\ IsSteady(node', conf', conf'.promoteTo, Old, 4 \notin done')
    <2>1. {i \in {4} : clock' > since' /\ since' + script'.rejoin_after_revive <= clock'} = {}
      BY <1>1
    <2>2. 4 \notin done'
      BY <1>6, <1>7
    <2>3. IsSteady(node', conf', conf'.promoteTo, Old, 4 \notin done')
      BY <1>6, <1>7, <2>2 DEF IsSteady, Looks
    <2> QED
      BY <1>6, <1>7, <2>1, <2>3
  <1>8. Early /\ Followed => seen' /\ RebootEnd' <= FollowEnd' + 486
    BY <1>1, <1>2, <1>4
  <1>9. InRejoin'
    <2>1. Waited' <= 360 /\ ~(Waited' > 4) /\ injected' = 0 /\ outcome' = "NT"
          /\ simTest' = "H-3"
      BY <1>1, <1>2, <1>3, <1>5
    <2> QED
      BY <1>2, <1>5, <1>6, <1>7, <1>8, <2>1 DEF InRejoin, Old
  <1> QED
    BY <1>1, <1>2, <1>9, Arrives

LEMMA FourthEvent ==
  ASSUME NEW a, NEW b, NEW c, NEW e
  PROVE  DOMAIN Append(<<a, b, c>>, e) = 1..4 /\ Append(<<a, b, c>>, e)[4] = e
  OBVIOUS

LEMMA RejoinEvents ==
  ASSUME NEW e, events = Append(KillEvents, e)
  PROVE  DOMAIN events = 1..4 /\ events[4] = e
  <1>1. PICK a, b, c : KillEvents = <<a, b, c>>
    BY DEF KillEvents
  <1>2. events = Append(<<a, b, c>>, e)
    BY <1>1
  <1> QED
    BY <1>2, FourthEvent

LEMMA FollowEndType == ASSUME Chosen PROVE FollowEnd \in Int
  <1> DEFINE a == script.promote_after
             b == script.write_resume_after + 1
             x == Max({a, b})
  <1>1. a \in Nat /\ b \in Nat
    BY ScriptFields
  <1> HIDE DEF a, b
  <1>2. x \in Int
    BY <1>1, MaxOfTwo
  <1> HIDE DEF x
  <1>3. ((x - 1) \div 4) * 4 + 4 \in Int
    BY <1>2
  <1> QED
    BY <1>3 DEF FollowEnd, NextLook, LastLook, Seconds, x, a, b

LEMMA SequencesOfEvents ==
  ASSUME NEW S, NEW a \in S, NEW b \in S, NEW c \in S
  PROVE  <<a, b>> \in Seq(S) /\ <<a, b, c>> \in Seq(S)
  OBVIOUS

LEMMA KillEventsType == ASSUME Chosen PROVE KillEvents \in Seq(EventType)
  <1>1. script.reboot_after \in Nat /\ script.reboot_duration \in Nat
        /\ script.promote_after \in Nat /\ Old \in Members /\ conf.promoteTo \in Members
    BY ScriptFields, ChosenType
  <1>2. /\ [due |-> script.reboot_after, change |-> "reboot start", at |-> Old] \in EventType
        /\ [due |-> script.reboot_after + script.reboot_duration, change |-> "reboot end",
            at |-> Old] \in EventType
        /\ [due |-> script.promote_after, change |-> "promote", at |-> conf.promoteTo]
             \in EventType
    BY <1>1 DEF EventType
  <1> QED
    BY <1>2, SequencesOfEvents DEF KillEvents

LEMMA FollowRejoinKeeps == ASSUME SimInv, FollowRejoin PROVE SimInv'
  <1>1. Chosen /\ InRejoin /\ clock \in Nat /\ since \in Nat /\ since <= clock /\ Same
        /\ injected' = injected /\ seen' = seen
    BY DEF SimInv, FollowRejoin
  <1>2. Chosen' /\ script' = script /\ simTest' = simTest /\ conf' = conf
        /\ (Followed' <=> Followed) /\ (Early' <=> Early) /\ FollowEnd' = FollowEnd
        /\ RebootEnd' = RebootEnd /\ KillEvents' = KillEvents /\ Lead' = Lead
        /\ Late' = Late
        /\ (WithinWaits' <=> WithinWaits) /\ (WithinLimits' <=> WithinLimits)
    BY <1>1, ScriptStays, ChosenStays
  <1>3. simTest = "H-3" /\ outcome = "NT" /\ injected = 0
    BY <1>1 DEF InRejoin
  <1> DEFINE rj == script.rejoin_after_revive
  <1>4. rj \in Nat /\ script.promote_after \in Nat /\ script.write_resume_after \in Nat
    BY <1>1, ScriptFields
  <1>5. Lead = conf.promoteTo /\ Late = Old /\ Old \in Members /\ conf.promoteTo \in Members
        /\ Old # conf.promoteTo
    BY <1>1, <1>3, ChosenType DEF Lead, Late
  <1>6. ASSUME Followed
        PROVE  /\ events = Append(KillEvents, [due |-> since + rj, change |-> "streaming",
                                               at |-> Old])
               /\ DOMAIN events = 1..4
               /\ events[4] = [due |-> since + rj, change |-> "streaming", at |-> Old]
               /\ done = {1, 2, 3} \cup {i \in {4} : clock > since /\ since + rj <= clock}
               /\ DOMAIN events \ done = IF 4 \in done THEN {} ELSE {4}
               /\ done \subseteq DOMAIN events
    <2>1. events = Append(KillEvents, [due |-> since + rj, change |-> "streaming",
                                       at |-> Old])
          /\ done = {1, 2, 3} \cup {i \in {4} : clock > since /\ since + rj <= clock}
      BY <1>1, <1>6 DEF InRejoin
    <2>2. DOMAIN events = 1..4
          /\ events[4] = [due |-> since + rj, change |-> "streaming", at |-> Old]
      BY <2>1, RejoinEvents
    <2>3. 1..4 = {1, 2, 3, 4}
      OBVIOUS
    <2>4. DOMAIN events \ done = IF 4 \in done THEN {} ELSE {4}
      BY <2>1, <2>2, <2>3
    <2>5. done \subseteq DOMAIN events
      BY <2>1, <2>2, <2>3
    <2> QED
      BY <2>1, <2>2, <2>4, <2>5
  <1>17. ASSUME Followed PROVE events \in Seq(EventType)
    <2>1. KillEvents \in Seq(EventType)
      BY <1>1, KillEventsType
    <2>2. [due |-> since + rj, change |-> "streaming", at |-> Old] \in EventType
      BY <1>1, <1>4, <1>5 DEF EventType
    <2> QED
      BY <1>6, <1>17, <2>1, <2>2
  <1>7. ASSUME Followed
        PROVE  /\ IsSteady(node, conf, conf.promoteTo, Old, 4 \notin done)
               /\ IsStreaming(Old) <=> 4 \in done
               /\ Waited <= 360
               /\ Waited > 4 => rj > Waited - 4
               /\ Early => seen /\ RebootEnd <= FollowEnd + 486
    <2>1. /\ IsSteady(node, conf, conf.promoteTo, Old, 4 \notin done)
          /\ Waited <= 360
          /\ Waited > 4 => rj > Waited - 4
          /\ Early => seen /\ RebootEnd <= FollowEnd + 486
      BY <1>1, <1>7 DEF InRejoin
    <2>2. IsStreaming(Old) <=> ~(4 \notin done)
      <3>1. (4 \notin done) \in BOOLEAN
        OBVIOUS
      <3> QED
        BY <1>1, <1>5, <2>1, <3>1, SeesSteady
    <2> QED
      BY <2>1, <2>2
  <1> HIDE DEF rj
  <1>8. CASE Waited < REJOIN_LIMIT /\ ~IsStreaming(Old)
    <2>1. Sleep(4) /\ since' = since /\ simPc' = simPc /\ outcome' = outcome
      BY <1>8, Limits DEF FollowRejoin
    <2>2. clock' = clock + 4 /\ Waited' = Waited + 4 /\ Waited < 360 /\ simPc' = "rejoin"
      BY <1>1, <1>8, <2>1, Limits DEF Sleep, Waited, FollowRejoin
    <2>3. ASSUME Followed
          PROVE  /\ events' = events
                 /\ done' = {1, 2, 3} \cup {i \in {4} : clock' > since' /\ since' + rj <= clock'}
                 /\ IsSteady(node', conf, conf.promoteTo, Old, 4 \notin done')
      <3>1. 4 \notin done /\ DOMAIN events \ done = {4} /\ done = {1, 2, 3}
        BY <1>6, <1>7, <1>8, <2>3
      <3>2. CASE since + rj <= clock + 4
        <4>1. node' = Change(node, events[4]) /\ done' = done \cup {4} /\ events' = events
          BY <1>1, <1>6, <2>1, <2>3, <3>1, <3>2, SleepsToChange
        <4>2. node' = SetRole(node, Old, "replica", "streaming")
          <5>1. events[4].change = "streaming" /\ events[4].at = Old
            BY <1>6, <2>3
          <5> QED
            BY <4>1, <5>1 DEF Change
        <4>3. IsSteady(node, conf, conf.promoteTo, Old, TRUE)
          BY <1>7, <2>3, <3>1 DEF IsSteady, Looks
        <4>4. IsSteady(node', conf, conf.promoteTo, Old, FALSE)
          BY <1>1, <1>5, <4>2, <4>3, StreamingChanges
        <4>5. 4 \in done'
          BY <4>1
        <4>6. IsSteady(node', conf, conf.promoteTo, Old, 4 \notin done')
          BY <4>4, <4>5 DEF IsSteady, Looks
        <4>7. done' = {1, 2, 3} \cup {i \in {4} : clock' > since' /\ since' + rj <= clock'}
          BY <1>1, <2>1, <2>2, <3>1, <3>2, <4>1
        <4> QED
          BY <4>1, <4>6, <4>7
      <3>3. CASE ~(since + rj <= clock + 4)
        <4>1. node' = node /\ done' = done /\ events' = events
          BY <1>1, <1>6, <2>1, <2>3, <3>1, <3>3, SleepsOn
        <4>2. done' = {1, 2, 3} \cup {i \in {4} : clock' > since' /\ since' + rj <= clock'}
          BY <1>1, <2>1, <2>2, <3>1, <3>3, <4>1
        <4>3. IsSteady(node', conf, conf.promoteTo, Old, 4 \notin done')
          BY <1>7, <2>3, <4>1
        <4> QED
          BY <4>1, <4>2, <4>3
      <3> QED
        BY <3>2, <3>3
    <2>4. ASSUME Followed
          PROVE  /\ \E k \in Nat : Waited' = 4 * k
                 /\ Waited' <= 360 /\ (Waited' > 4 => rj > Waited' - 4)
      <3>1. PICK k \in Nat : Waited = 4 * k
        BY <1>1, <2>4 DEF InRejoin
      <3>2. k + 1 \in Nat /\ Waited' = 4 * (k + 1) /\ Waited' <= 360
        BY <2>2, <3>1
      <3>3. 4 \notin done
        BY <1>7, <1>8, <2>4
      <3>4. ~(clock > since /\ since + rj <= clock)
        BY <1>6, <2>4, <3>3
      <3>5. Waited' > 4 => rj > Waited' - 4
        BY <1>1, <1>4, <2>2, <3>4 DEF Waited
      <3> QED
        BY <1>4, <3>2, <3>5
    <2>5. ASSUME Followed
          PROVE  events' = Append(KillEvents', [due |-> since' + script'.rejoin_after_revive,
                                                change |-> "streaming", at |-> Old])
      BY <1>2, <1>6, <2>1, <2>3, <2>5 DEF rj
    <2>6. InRejoin'
      BY <1>1, <1>2, <1>3, <1>7, <2>1, <2>3, <2>4, <2>5 DEF InRejoin, Old, rj
    <2>7. clock' \in Nat /\ since' \in Nat /\ since' <= clock'
      BY <1>1, <2>1, <2>2
    <2> QED
      BY <1>2, <2>2, <2>6, <2>7, Arrives
  <1>9. CASE ~(Waited < REJOIN_LIMIT /\ ~IsStreaming(Old))
    <2>1. /\ clock' = clock /\ node' = node /\ events' = events /\ done' = done
          /\ simPc' = "ssh" /\ since' = clock'
          /\ outcome' = IF H3Holds(Waited < REJOIN_LIMIT) THEN "Pass" ELSE "Fail"
      BY <1>9 DEF FollowRejoin, Still, Judge, Goto
    <2>2. H3Holds(Waited < REJOIN_LIMIT) <=>
            Early /\ seen /\ Waited < 360
      <3>1. WriteStopped <= 90 <=> script.write_resume_after < 90
        BY <1>3, <1>4 DEF WriteStopped, ResumeAt
      <3> QED
        BY <3>1, Limits DEF H3Holds, PromotionLogged, Early
    <2>3. Early => Followed
      BY <1>4, Limits DEF Early, Followed
    <2>4. WithinLimits <=> Early /\ RebootEnd <= FollowEnd + 480 + 6 /\ rj <= 356
      BY <1>3, Limits DEF WithinLimits, Early, RebootEnd, rj
    <2>5. ASSUME Early PROVE seen /\ RebootEnd <= FollowEnd + 480 + 6
      <3>1. FollowEnd \in Int
        BY <1>1, FollowEndType
      <3> QED
        BY <1>7, <2>3, <2>5, <3>1
    <2>6. ASSUME Followed PROVE Waited < 360 <=> rj <= 356
      <3>1. PICK k \in Nat : Waited = 4 * k
        BY <1>1, <2>6 DEF InRejoin
      <3>2. CASE Waited < 360
        <4>1. 4 \in done
          BY <1>7, <1>9, <2>6, <3>2, Limits
        <4>2. since + rj <= clock
          BY <1>6, <2>6, <4>1
        <4>3. Waited <= 356
          BY <3>1, <3>2
        <4> QED
          BY <1>1, <1>4, <3>2, <4>2, <4>3 DEF Waited
      <3>3. CASE ~(Waited < 360)
        BY <1>4, <1>7, <2>6, <3>1, <3>3
      <3> QED
        BY <3>2, <3>3
    <2>7. Decided'
      BY <1>2, <2>1, <2>2, <2>3, <2>4, <2>5, <2>6 DEF Decided
    <2>8. ASSUME WithinWaits PROVE (Settled(clock + 360))'
      <3>1. Followed /\ rj <= 360 + 360
        BY <1>3, <2>8, Limits DEF WithinWaits, Followed, rj
      <3>2. CASE 4 \in done
        <4>1. done = DOMAIN events
          BY <1>6, <3>1, <3>2
        <4>2. IsSteady(node', conf', Lead', Late', FALSE)
          BY <1>2, <1>5, <1>7, <2>1, <3>1, <3>2 DEF IsSteady, Looks
        <4> QED
          BY <1>17, <2>1, <3>1, <4>1, <4>2 DEF Settled
      <3>3. CASE 4 \notin done
        <4>1. Waited = 360
          BY <1>1, <1>7, <1>9, <3>1, <3>3, Limits DEF Waited
        <4>2. since + rj \in Nat /\ since + rj <= clock + 360
          BY <1>1, <1>4, <3>1, <4>1 DEF Waited
        <4>3. IsSteady(node', conf', Lead', Late', TRUE)
          BY <1>2, <1>5, <1>7, <2>1, <3>1, <3>3 DEF IsSteady, Looks
        <4>4. (OneToCome(4, clock + 360))'
          <5>1. DOMAIN events' \ done' = {4} /\ done' \subseteq DOMAIN events'
            BY <1>6, <2>1, <3>1, <3>3
          <5>2. events'[4].change = "streaming" /\ events'[4].at = Late'
                /\ events'[4].due = since + rj
            BY <1>2, <1>5, <1>6, <2>1, <3>1
          <5>3. events'[4].due \in Nat /\ events'[4].due <= clock' + 360
            BY <2>1, <4>2, <5>2
          <5> QED
            BY <2>1, <4>3, <5>1, <5>2, <5>3 DEF OneToCome
        <4>5. 4 \in Nat
          OBVIOUS
        <4> QED
          BY <1>17, <2>1, <3>1, <4>4, <4>5 DEF Settled
      <3> QED
        BY <3>2, <3>3
    <2>9. InSsh'
      BY <1>2, <1>3, <2>1, <2>7, <2>8 DEF InSsh
    <2> QED
      BY <1>1, <1>2, <2>1, <2>9, Arrives
  <1> QED
    BY <1>8, <1>9

-----------------------------------------------------------------------------
(* The steps of H-5                                                           *)

LEMMA OneEvent ==
  ASSUME NEW a, NEW e
  PROVE  DOMAIN <<a>> = {1} /\ <<a>>[1] = a /\ Append(<<a>>, e) = <<a, e>>
  <1> DEFINE s == Append(<<a>>, e)
             t == <<a, e>>
  <1>1. <<a>> \in Seq({a, e}) /\ Len(<<a>>) = 1
    OBVIOUS
  <1>2. s \in Seq({a, e}) /\ Len(s) = 2
    BY <1>1
  <1>3. s[1] = a
    BY <1>1
  <1>4. s[2] = e
    BY <1>1
  <1>5. t \in Seq({a, e}) /\ Len(t) = 2 /\ t[1] = a /\ t[2] = e
    OBVIOUS
  <1> HIDE DEF s, t
  <1>6. \A i \in 1..Len(s) : i = 1 \/ i = 2
    BY <1>2
  <1>7. s = t
    BY <1>2, <1>3, <1>4, <1>5, <1>6, SeqEqual
  <1>8. DOMAIN <<a>> = {1} /\ <<a>>[1] = a
    OBVIOUS
  <1> QED
    BY <1>7, <1>8 DEF s, t

LEMMA TwoEvents ==
  ASSUME NEW a, NEW b
  PROVE  DOMAIN <<a, b>> = {1, 2} /\ <<a, b>>[1] = a /\ <<a, b>>[2] = b
  OBVIOUS

LEMMA TakeoverWaits == ASSUME WithinWaits, simTest = "H-5" PROVE script.vip_move_after <= 60
  BY Limits DEF WithinWaits

LEMMA FollowTakeoverKeeps == ASSUME SimInv, FollowTakeover PROVE SimInv'
  <1> DEFINE vm == script.vip_move_after
             first == [due |-> vm, change |-> "vip", at |-> conf.standby]
             holder == IF 1 \in done THEN conf.standby ELSE conf.owner
  <1>1. Chosen /\ InTakeover /\ clock \in Nat /\ since \in Nat /\ since <= clock /\ Same
        /\ injected' = injected /\ outcome' = outcome
    BY DEF SimInv, FollowTakeover
  <1>2. Chosen' /\ script' = script /\ simTest' = simTest /\ conf' = conf
        /\ (WithinWaits' <=> WithinWaits)
    BY <1>1, ScriptStays, ChosenStays
  <1>3. simTest = "H-5" /\ outcome = "NT" /\ injected = 0
    BY <1>1 DEF InTakeover
  <1>4. vm \in Nat /\ conf.owner # conf.standby
    BY <1>1, ScriptFields, ChosenType
  <1> HIDE DEF vm
  <1>5. ASSUME WithinWaits
        PROVE  /\ events = <<first>> /\ since = 0 /\ DOMAIN events = {1} /\ events[1] = first
               /\ done = {i \in {1} : clock > 0 /\ vm <= clock}
               /\ IsMoved(node, conf, TRUE, holder)
               /\ VipHolders = {holder}
    <2>1. /\ events = <<first>> /\ since = 0
          /\ done = {i \in {1} : clock > 0 /\ vm <= clock}
          /\ IsMoved(node, conf, TRUE, holder)
      BY <1>1, <1>5 DEF InTakeover, vm
    <2>2. VipHolders = {holder}
      BY <1>1, <2>1, SeesMoved
    <2>3. DOMAIN events = {1} /\ events[1] = first
      BY <2>1, OneEvent
    <2> QED
      BY <2>1, <2>2, <2>3
  <1>6. CASE ~VipFollowed(conf.standby)
    <2>1. Sleep(2) /\ since' = since /\ simPc' = simPc /\ simPc = "takeover"
      BY <1>6, Limits DEF FollowTakeover
    <2>2. clock' = clock + 2 /\ clock' \in Nat
      BY <1>1, <2>1 DEF Sleep
    <2>3. ASSUME WithinWaits
          PROVE  /\ events' = <<first>>
                 /\ done' = {i \in {1} : clock' > 0 /\ vm <= clock'}
                 /\ IsMoved(node', conf, TRUE, IF 1 \in done' THEN conf.standby
                                               ELSE conf.owner)
      <3>1. CASE 1 \notin done /\ vm <= clock + 2
        <4>1. DOMAIN events \ done = {1} /\ events[1].due <= clock + 2
              /\ events[1].change = "vip" /\ events[1].at = conf.standby
          BY <1>5, <2>3, <3>1
        <4>2. node' = Change(node, events[1]) /\ done' = done \cup {1} /\ events' = events
          BY <1>1, <2>1, <4>1, SleepsToChange
        <4>3. node' = GiveVip(node, conf.standby)
          BY <4>1, <4>2 DEF Change
        <4>4. IsMoved(node', conf, TRUE, conf.standby)
          BY <1>1, <1>5, <2>3, <4>3, VipChanges
        <4>5. done' = {1} /\ {i \in {1} : clock' > 0 /\ vm <= clock'} = {1}
          BY <1>1, <1>5, <2>2, <2>3, <3>1, <4>2
        <4> QED
          BY <1>5, <2>3, <4>2, <4>4, <4>5
      <3>2. CASE ~(1 \notin done /\ vm <= clock + 2)
        <4>1. node' = node /\ done' = done /\ events' = events
          BY <1>1, <1>5, <2>1, <2>3, <3>2, SleepsOn
        <4>2. done' = {i \in {1} : clock' > 0 /\ vm <= clock'}
          BY <1>1, <1>4, <1>5, <2>2, <2>3, <3>2, <4>1
        <4> QED
          BY <1>5, <2>3, <4>1, <4>2
      <3> QED
        BY <3>1, <3>2
    <2>4. WithinWaits => since' = 0
      BY <1>5, <2>1
    <2>5. InTakeover'
      BY <1>1, <1>2, <1>3, <2>3, <2>4 DEF InTakeover, vm
    <2>6. since' \in Nat /\ since' <= clock'
      BY <1>1, <2>1, <2>2
    <2> QED
      BY <1>2, <2>1, <2>2, <2>5, <2>6, Arrives
  <1>7. CASE VipFollowed(conf.standby)
    <2>1. /\ node' = [node EXCEPT ![conf.owner].proxy = "active"]
          /\ events' = Append(events, After(script.vip_move_after, "vip", conf.owner))
          /\ clock' = clock /\ since' = clock /\ simPc' = "return" /\ done' = done
      BY <1>7 DEF FollowTakeover, Goto
    <2>2. ASSUME WithinWaits
          PROVE  /\ events' = <<first, [due |-> since' + vm, change |-> "vip",
                                        at |-> conf.owner]>>
                 /\ done' = {1} \cup {i \in {2} : clock' > since' /\ since' + vm <= clock'}
                 /\ IsMoved(node', conf, FALSE, IF 2 \in done' THEN conf.owner
                                                ELSE conf.standby)
      <3>1. done = {1}
        <4>1. CASE Waited >= VIP_FOLLOW_LIMIT
          BY <1>1, <1>3, <1>4, <1>5, <2>2, <4>1, Limits, TakeoverWaits DEF Waited, vm
        <4>2. CASE VipHolders = {conf.standby}
          <5>1. holder = conf.standby
            BY <1>5, <2>2, <4>2
          <5>2. 1 \in done
            BY <1>4, <5>1
          <5> QED
            BY <1>5, <2>2, <5>2
        <4> QED
          BY <1>7, <4>1, <4>2 DEF VipFollowed
      <3>2. IsMoved(node', conf, FALSE, conf.standby)
        <4>1. IsMoved(node, conf, TRUE, conf.standby)
          BY <1>5, <2>2, <3>1
        <4> QED
          BY <1>1, <2>1, <4>1, ProxyStarts
      <3>3. events' = <<first, [due |-> since' + vm, change |-> "vip", at |-> conf.owner]>>
        <4>1. events = <<first>>
          BY <1>5, <2>2
        <4>2. events' = Append(<<first>>, [due |-> since' + vm, change |-> "vip",
                                           at |-> conf.owner])
          BY <2>1, <4>1 DEF After, vm
        <4> HIDE DEF first
        <4> QED
          BY <4>2, OneEvent
      <3>4. {i \in {2} : clock' > since' /\ since' + vm <= clock'} = {}
        BY <1>1, <2>1
      <3>5. 2 \notin done'
        BY <2>1, <3>1
      <3> QED
        BY <2>1, <3>1, <3>2, <3>3, <3>4, <3>5
    <2>3. InReturn'
      BY <1>1, <1>2, <1>3, <2>2 DEF InReturn, vm
    <2> QED
      BY <1>1, <1>2, <2>1, <2>3, Arrives
  <1> QED
    BY <1>6, <1>7

LEMMA FollowReturnKeeps == ASSUME SimInv, FollowReturn PROVE SimInv'
  <1> DEFINE vm == script.vip_move_after
             first == [due |-> vm, change |-> "vip", at |-> conf.standby]
             second == [due |-> since + vm, change |-> "vip", at |-> conf.owner]
             holder == IF 2 \in done THEN conf.owner ELSE conf.standby
  <1>1. Chosen /\ InReturn /\ clock \in Nat /\ since \in Nat /\ since <= clock /\ Same
        /\ injected' = injected /\ seen' = seen
    BY DEF SimInv, FollowReturn
  <1>2. Chosen' /\ script' = script /\ simTest' = simTest /\ conf' = conf
        /\ (WithinWaits' <=> WithinWaits) /\ (WithinLimits' <=> WithinLimits)
        /\ Lead' = Lead /\ Late' = Late
    BY <1>1, ScriptStays, ChosenStays
  <1>3. simTest = "H-5" /\ outcome = "NT" /\ injected = 0
    BY <1>1 DEF InReturn
  <1>4. vm \in Nat /\ script.vip_write_gap \in Nat /\ conf.owner # conf.standby
    BY <1>1, ScriptFields, ChosenType
  <1> HIDE DEF vm
  <1>5. ASSUME WithinWaits
        PROVE  /\ events = <<first, second>> /\ DOMAIN events = {1, 2} /\ events[2] = second
               /\ done = {1} \cup {i \in {2} : clock > since /\ since + vm <= clock}
               /\ IsMoved(node, conf, FALSE, holder)
               /\ VipHolders = {holder}
    <2>1. /\ events = <<first, second>>
          /\ done = {1} \cup {i \in {2} : clock > since /\ since + vm <= clock}
          /\ IsMoved(node, conf, FALSE, holder)
      BY <1>1, <1>5 DEF InReturn, vm
    <2>2. VipHolders = {holder}
      BY <1>1, <2>1, SeesMoved
    <2>3. DOMAIN events = {1, 2} /\ events[2] = second
      BY <2>1, TwoEvents
    <2> QED
      BY <2>1, <2>2, <2>3
  <1>6. CASE ~VipFollowed(conf.owner)
    <2>1. Sleep(2) /\ since' = since /\ simPc' = simPc /\ simPc = "return"
          /\ outcome' = outcome
      BY <1>6, Limits DEF FollowReturn
    <2>2. clock' = clock + 2 /\ clock' \in Nat
      BY <1>1, <2>1 DEF Sleep
    <2>3. ASSUME WithinWaits
          PROVE  /\ events' = <<first, second>>
                 /\ done' = {1} \cup {i \in {2} : clock' > since /\ since + vm <= clock'}
                 /\ IsMoved(node', conf, FALSE, IF 2 \in done' THEN conf.owner
                                                ELSE conf.standby)
      <3>1. CASE 2 \notin done /\ since + vm <= clock + 2
        <4>1. DOMAIN events \ done = {2} /\ events[2].due <= clock + 2
              /\ events[2].change = "vip" /\ events[2].at = conf.owner
          BY <1>5, <2>3, <3>1
        <4>2. node' = Change(node, events[2]) /\ done' = done \cup {2} /\ events' = events
          BY <1>1, <2>1, <4>1, SleepsToChange
        <4>3. node' = GiveVip(node, conf.owner)
          BY <4>1, <4>2 DEF Change
        <4>4. IsMoved(node', conf, FALSE, conf.owner)
          BY <1>1, <1>5, <2>3, <4>3, VipChanges
        <4>5. done' = {1} \cup {2}
              /\ {i \in {2} : clock' > since /\ since + vm <= clock'} = {2}
          BY <1>1, <1>5, <2>2, <2>3, <3>1, <4>2
        <4> QED
          BY <1>5, <2>3, <4>2, <4>4, <4>5
      <3>2. CASE ~(2 \notin done /\ since + vm <= clock + 2)
        <4>1. node' = node /\ done' = done /\ events' = events
          BY <1>1, <1>5, <2>1, <2>3, <3>2, SleepsOn
        <4>2. done' = {1} \cup {i \in {2} : clock' > since /\ since + vm <= clock'}
          BY <1>1, <1>4, <1>5, <2>2, <2>3, <3>2, <4>1
        <4> QED
          BY <1>5, <2>3, <4>1, <4>2
      <3> QED
        BY <3>1, <3>2
    <2>4. InReturn'
      BY <1>1, <1>2, <1>3, <2>1, <2>3 DEF InReturn, vm
    <2>5. since' \in Nat /\ since' <= clock'
      BY <1>1, <2>1, <2>2
    <2> QED
      BY <1>2, <2>1, <2>2, <2>4, <2>5, Arrives
  <1>7. CASE VipFollowed(conf.owner)
    <2>1. Sleep(6) /\ simPc' = "ssh" /\ since' = clock'
          /\ outcome' = IF WriteStopped <= 10 THEN "Pass" ELSE "Fail"
      BY <1>7, Limits DEF FollowReturn, Judge, Goto
    <2>2. clock' = clock + 6 /\ clock' \in Nat
      BY <1>1, <2>1 DEF Sleep
    <2>3. Decided'
      <3>1. WriteStopped <= 10 <=> script.vip_write_gap < 10
        BY <1>3, <1>4 DEF WriteStopped, ResumeAt
      <3>2. WithinLimits <=> script.vip_write_gap < 10
        BY <1>3, Limits DEF WithinLimits
      <3> QED
        BY <1>2, <2>1, <3>1, <3>2 DEF Decided
    <2>4. ASSUME WithinWaits PROVE (Settled(clock + 360))'
      <3>1. 2 \in done
        <4>1. CASE Waited >= VIP_FOLLOW_LIMIT
          BY <1>1, <1>3, <1>4, <1>5, <2>4, <4>1, Limits, TakeoverWaits DEF Waited, vm
        <4>2. CASE VipHolders = {conf.owner}
          <5>1. holder = conf.owner
            BY <1>5, <2>4, <4>2
          <5> QED
            BY <1>4, <5>1
        <4> QED
          BY <1>7, <4>1, <4>2 DEF VipFollowed
      <3>2. done = DOMAIN events
        BY <1>5, <2>4, <3>1
      <3>3. node' = node /\ done' = done /\ events' = events
        BY <1>1, <2>1, <3>2, SleepsOn
      <3>4. IsSteady(node, conf, Old, Late, FALSE)
        <4>1. IsMoved(node, conf, FALSE, conf.owner)
          BY <1>5, <2>4, <3>1
        <4> QED
          BY <1>1, <4>1, MovedBack
      <3>5. Lead = Old
        BY <1>3 DEF Lead
      <3>6. events \in Seq(EventType)
        <4>1. first \in EventType /\ second \in EventType
          BY <1>1, <1>4, ChosenType DEF EventType
        <4>2. events = <<first, second>>
          BY <1>5, <2>4
        <4> HIDE DEF first, second
        <4> QED
          BY <4>1, <4>2, SequencesOfEvents
      <3> QED
        BY <1>2, <3>2, <3>3, <3>4, <3>5, <3>6 DEF Settled
    <2>5. InSsh'
      BY <1>2, <1>3, <2>1, <2>3, <2>4 DEF InSsh
    <2> QED
      BY <1>1, <1>2, <2>1, <2>2, <2>5, Arrives
  <1> QED
    BY <1>6, <1>7

-----------------------------------------------------------------------------
(* The steps of H-6                                                           *)

LEMMA FollowStopKeeps == ASSUME SimInv, FollowStop PROVE SimInv'
  <1> DEFINE ps == script.patroni_stop_after
             first == [due |-> ps, change |-> "stopped", at |-> conf.h6]
  <1>1. Chosen /\ InStopping /\ clock \in Nat /\ since \in Nat /\ since <= clock /\ Same
        /\ injected' = injected /\ outcome' = outcome
    BY DEF SimInv, FollowStop
  <1>2. Chosen' /\ script' = script /\ simTest' = simTest /\ conf' = conf
    BY <1>1, ScriptStays, ChosenStays
  <1>3. /\ simTest = "H-6" /\ outcome = "NT" /\ since = 0 /\ clock <= 120 /\ Waited = clock
        /\ events = <<first>> /\ DOMAIN events = {1} /\ events[1] = first
        /\ done = {i \in {1} : clock > 0 /\ ps <= clock}
        /\ IsHalting(node, conf, 1 \in done)
        /\ clock > 1 => ps > clock - 1
    <2>1. /\ simTest = "H-6" /\ outcome = "NT" /\ since = 0 /\ clock <= 120
          /\ events = <<first>>
          /\ done = {i \in {1} : clock > 0 /\ ps <= clock}
          /\ IsHalting(node, conf, 1 \in done)
          /\ clock > 1 => ps > clock - 1
      BY <1>1 DEF InStopping
    <2>2. DOMAIN events = {1} /\ events[1] = first
      BY <2>1, OneEvent
    <2>3. Waited = clock
      BY <1>1, <2>1 DEF Waited
    <2> QED
      BY <2>1, <2>2, <2>3
  <1>4. ps \in Nat
    BY <1>1, ScriptFields
  <1> HIDE DEF ps
  <1>5. IsRunning(conf.h6) <=> 1 \notin done
    <2>1. (1 \in done) \in BOOLEAN
      OBVIOUS
    <2> QED
      BY <1>1, <1>3, <2>1, SeesHalting
  <1>6. CASE Waited < H6_LIMIT /\ IsRunning(conf.h6)
    <2>1. Sleep(1) /\ since' = since /\ simPc' = simPc /\ simPc = "stopping" /\ seen' = seen
      BY <1>6 DEF FollowStop
    <2>2. clock' = clock + 1 /\ clock' \in Nat /\ clock' <= 120 /\ 1 \notin done
      BY <1>1, <1>3, <1>5, <1>6, <2>1, Limits DEF Sleep
    <2>3. /\ events' = <<first>>
          /\ done' = {i \in {1} : clock' > 0 /\ ps <= clock'}
          /\ IsHalting(node', conf, 1 \in done')
      <3>1. CASE ps <= clock + 1
        <4>1. DOMAIN events \ done = {1} /\ events[1].due <= clock + 1
              /\ events[1].change = "stopped" /\ events[1].at = conf.h6
          BY <1>3, <2>2, <3>1
        <4>2. node' = Change(node, events[1]) /\ done' = done \cup {1} /\ events' = events
          BY <1>1, <2>1, <4>1, SleepsToChange
        <4>3. node' = [node EXCEPT ![conf.h6].answers = FALSE, ![conf.h6].state = "stopped"]
          BY <4>1, <4>2 DEF Change
        <4>4. IsHalting(node, conf, FALSE)
          BY <1>3, <2>2 DEF IsHalting, Looks
        <4>5. IsHalting(node', conf, TRUE)
          BY <1>1, <4>3, <4>4, StopChanges
        <4>6. done' = {1} /\ {i \in {1} : clock' > 0 /\ ps <= clock'} = {1}
          BY <1>1, <1>3, <2>2, <3>1, <4>2
        <4>7. IsHalting(node', conf, 1 \in done')
          BY <4>5, <4>6 DEF IsHalting, Looks
        <4> QED
          BY <1>3, <4>2, <4>6, <4>7
      <3>2. CASE ~(ps <= clock + 1)
        <4>1. node' = node /\ done' = done /\ events' = events
          BY <1>1, <1>3, <2>1, <3>2, SleepsOn
        <4>2. done' = {i \in {1} : clock' > 0 /\ ps <= clock'}
          BY <1>1, <1>3, <1>4, <2>2, <3>2, <4>1
        <4> QED
          BY <1>3, <4>1, <4>2
      <3> QED
        BY <3>1, <3>2
    <2>4. clock' > 1 => ps > clock' - 1
      BY <1>1, <1>3, <1>4, <2>2
    <2>5. InStopping'
      BY <1>1, <1>2, <1>3, <2>1, <2>2, <2>3, <2>4 DEF InStopping, ps
    <2> QED
      BY <1>1, <1>2, <1>3, <2>1, <2>2, <2>5, Arrives
  <1>7. CASE ~(Waited < H6_LIMIT /\ IsRunning(conf.h6))
    <2>1. /\ seen' = (Waited < H6_LIMIT)
          /\ node' = [node EXCEPT ![conf.h6].service = "active", ![conf.h6].answers = TRUE,
                                  ![conf.h6].state = "starting"]
          /\ events' = Append(events, After(script.patroni_start_after, "streaming", conf.h6))
          /\ clock' = clock /\ since' = clock /\ simPc' = "starting" /\ done' = done
      BY <1>7 DEF FollowStop, Goto
    <2>2. seen' <=> ps < 120
      <3>1. seen' <=> clock < 120
        BY <1>3, <2>1, Limits
      <3>2. CASE clock < 120
        <4>1. ps <= clock
          BY <1>3, <1>5, <1>7, <3>2, Limits
        <4> QED
          BY <1>1, <1>4, <3>1, <3>2, <4>1
      <3>3. CASE ~(clock < 120)
        <4>1. ps > clock - 1
          BY <1>1, <1>3, <3>3
        <4> QED
          BY <1>1, <1>4, <3>1, <3>3, <4>1
      <3> QED
        BY <3>2, <3>3
    <2>3. ASSUME ps < 120
          PROVE  /\ events' = <<first, [due |-> since' + script.patroni_start_after,
                                        change |-> "streaming", at |-> conf.h6]>>
                 /\ done' = {1} \cup {i \in {2} : clock' > since'
                                       /\ since' + script.patroni_start_after <= clock'}
                 /\ IsSteady(node', conf, Old, conf.h6, 2 \notin done')
      <3>1. done = {1}
        BY <1>1, <1>3, <1>4, <1>5, <1>7, <2>3, Limits
      <3>2. IsHalting(node, conf, TRUE)
        BY <1>3, <3>1 DEF IsHalting, Looks
      <3>3. IsSteady(node', conf, Old, conf.h6, TRUE)
        BY <1>1, <2>1, <3>2, HaltingEnds
      <3>4. 2 \notin done'
        BY <2>1, <3>1
      <3>5. IsSteady(node', conf, Old, conf.h6, 2 \notin done')
        BY <3>3, <3>4 DEF IsSteady, Looks
      <3>6. {i \in {2} : clock' > since'
                          /\ since' + script.patroni_start_after <= clock'} = {}
        BY <1>1, <2>1
      <3>7. events' = Append(<<first>>, [due |-> since' + script.patroni_start_after,
                                         change |-> "streaming", at |-> conf.h6])
        BY <1>3, <2>1 DEF After
      <3> HIDE DEF first
      <3>8. events' = <<first, [due |-> since' + script.patroni_start_after,
                                change |-> "streaming", at |-> conf.h6]>>
        BY <3>7, OneEvent
      <3> QED
        BY <2>1, <3>1, <3>5, <3>6, <3>8
    <2>4. Waited' = 0
      BY <1>1, <2>1 DEF Waited
    <2>5. InStarting'
      BY <1>1, <1>2, <1>3, <2>2, <2>3, <2>4 DEF InStarting, ps, Old
    <2> QED
      BY <1>1, <1>2, <2>1, <2>5, Arrives
  <1> QED
    BY <1>6, <1>7

LEMMA FollowStartKeeps == ASSUME SimInv, FollowStart PROVE SimInv'
  <1> DEFINE ps == script.patroni_stop_after
             pt == script.patroni_start_after
             first == [due |-> ps, change |-> "stopped", at |-> conf.h6]
             second == [due |-> since + pt, change |-> "streaming", at |-> conf.h6]
  <1>1. Chosen /\ InStarting /\ clock \in Nat /\ since \in Nat /\ since <= clock /\ Same
        /\ injected' = injected /\ seen' = seen
    BY DEF SimInv, FollowStart
  <1>2. Chosen' /\ script' = script /\ simTest' = simTest /\ conf' = conf
        /\ (WithinWaits' <=> WithinWaits) /\ (WithinLimits' <=> WithinLimits)
        /\ Lead' = Lead /\ Late' = Late
    BY <1>1, ScriptStays, ChosenStays
  <1>3. simTest = "H-6" /\ outcome = "NT" /\ (seen <=> ps < 120)
    BY <1>1 DEF InStarting
  <1>4. ps \in Nat /\ pt \in Nat
    BY <1>1, ScriptFields
  <1> HIDE DEF ps, pt
  <1>5. Lead = Old /\ Late = conf.h6 /\ Old \in Members /\ conf.h6 \in Members
        /\ conf.h6 # Old
    BY <1>1, <1>3, ChosenType DEF Lead, Late
  <1>6. ASSUME ps < 120
        PROVE  /\ events = <<first, second>> /\ DOMAIN events = {1, 2} /\ events[2] = second
               /\ done = {1} \cup {i \in {2} : clock > since /\ since + pt <= clock}
               /\ IsSteady(node, conf, Old, conf.h6, 2 \notin done)
               /\ Waited <= 120
               /\ Waited > 1 => pt > Waited - 1
               /\ IsStreaming(conf.h6) <=> 2 \in done
    <2>1. /\ events = <<first, second>>
          /\ done = {1} \cup {i \in {2} : clock > since /\ since + pt <= clock}
          /\ IsSteady(node, conf, Old, conf.h6, 2 \notin done)
          /\ Waited <= 120
          /\ Waited > 1 => pt > Waited - 1
      BY <1>1, <1>6 DEF InStarting, ps, pt
    <2>2. IsStreaming(conf.h6) <=> ~(2 \notin done)
      <3>1. (2 \notin done) \in BOOLEAN
        OBVIOUS
      <3> QED
        BY <1>1, <1>5, <2>1, <3>1, SeesSteady
    <2>3. DOMAIN events = {1, 2} /\ events[2] = second
      BY <2>1, TwoEvents
    <2> QED
      BY <2>1, <2>2, <2>3
  <1>7. CASE Waited < H6_LIMIT /\ ~IsStreaming(conf.h6)
    <2>1. Sleep(1) /\ since' = since /\ simPc' = simPc /\ simPc = "starting"
          /\ outcome' = outcome
      BY <1>7 DEF FollowStart
    <2>2. clock' = clock + 1 /\ clock' \in Nat /\ Waited' = Waited + 1 /\ Waited < 120
          /\ Waited = clock - since
      BY <1>1, <1>7, <2>1, Limits DEF Sleep, Waited
    <2>3. ASSUME ps < 120
          PROVE  /\ events' = <<first, second>>
                 /\ done' = {1} \cup {i \in {2} : clock' > since /\ since + pt <= clock'}
                 /\ IsSteady(node', conf, Old, conf.h6, 2 \notin done')
      <3>1. 2 \notin done /\ done = {1}
        BY <1>6, <1>7, <2>3
      <3>2. CASE since + pt <= clock + 1
        <4>1. DOMAIN events \ done = {2} /\ events[2].due <= clock + 1
              /\ events[2].change = "streaming" /\ events[2].at = conf.h6
          BY <1>6, <2>3, <3>1, <3>2
        <4>2. node' = Change(node, events[2]) /\ done' = done \cup {2} /\ events' = events
          BY <1>1, <2>1, <4>1, SleepsToChange
        <4>3. node' = SetRole(node, conf.h6, "replica", "streaming")
          BY <4>1, <4>2 DEF Change
        <4>4. IsSteady(node, conf, Old, conf.h6, TRUE)
          BY <1>6, <2>3, <3>1 DEF IsSteady, Looks
        <4>5. IsSteady(node', conf, Old, conf.h6, FALSE)
          BY <1>1, <1>5, <4>3, <4>4, StreamingChanges
        <4>6. 2 \in done'
          BY <4>2
        <4>7. IsSteady(node', conf, Old, conf.h6, 2 \notin done')
          BY <4>5, <4>6 DEF IsSteady, Looks
        <4>8. done' = {1} \cup {i \in {2} : clock' > since /\ since + pt <= clock'}
          BY <1>1, <2>2, <3>1, <3>2, <4>2
        <4> QED
          BY <1>6, <2>3, <4>2, <4>7, <4>8
      <3>3. CASE ~(since + pt <= clock + 1)
        <4>1. node' = node /\ done' = done /\ events' = events
          BY <1>1, <1>6, <2>1, <2>3, <3>1, <3>3, SleepsOn
        <4>2. done' = {1} \cup {i \in {2} : clock' > since /\ since + pt <= clock'}
          BY <1>1, <2>2, <3>1, <3>3, <4>1
        <4> QED
          BY <1>6, <2>3, <4>1, <4>2
      <3> QED
        BY <3>2, <3>3
    <2>4. ASSUME ps < 120 PROVE Waited' <= 120 /\ (Waited' > 1 => pt > Waited' - 1)
      <3>1. Waited' <= 120
        BY <1>1, <2>2
      <3>2. ~(clock > since /\ since + pt <= clock)
        BY <1>6, <1>7, <2>4
      <3> QED
        BY <1>1, <1>4, <2>2, <3>1, <3>2
    <2>5. InStarting'
      BY <1>1, <1>2, <1>3, <2>1, <2>3, <2>4 DEF InStarting, ps, pt, Old
    <2> QED
      BY <1>1, <1>2, <2>1, <2>2, <2>5, Arrives
  <1>8. CASE ~(Waited < H6_LIMIT /\ ~IsStreaming(conf.h6))
    <2>1. /\ clock' = clock /\ node' = node /\ events' = events /\ done' = done
          /\ simPc' = "ssh" /\ since' = clock'
          /\ outcome' = IF seen /\ Waited < 120 THEN "Pass" ELSE "Fail"
      BY <1>8, Limits DEF FollowStart, Still, Judge, Goto
    <2>2. WithinLimits <=> ps < 120 /\ pt < 120
      BY <1>3, Limits DEF WithinLimits, ps, pt
    <2>3. ASSUME ps < 120 PROVE Waited < 120 <=> pt < 120
      <3>1. CASE Waited < 120
        <4>1. since + pt <= clock
          BY <1>6, <1>8, <2>3, <3>1, Limits
        <4> QED
          BY <1>1, <1>4, <3>1, <4>1 DEF Waited
      <3>2. CASE ~(Waited < 120)
        BY <1>1, <1>4, <1>6, <2>3, <3>2 DEF Waited
      <3> QED
        BY <3>1, <3>2
    <2>4. Decided'
      BY <1>2, <1>3, <2>1, <2>2, <2>3 DEF Decided
    <2>5. ASSUME WithinWaits PROVE (Settled(clock + 360))'
      <3>1. ps < 120 /\ pt <= 120 + 360
        BY <1>3, <2>5, Limits DEF WithinWaits, ps, pt
      <3>4. events' \in Seq(EventType)
        <4>1. first \in EventType /\ second \in EventType
          BY <1>1, <1>4, <1>5 DEF EventType
        <4> HIDE DEF first, second
        <4> QED
          BY <1>6, <2>1, <3>1, <4>1, SequencesOfEvents
      <3>2. CASE 2 \in done
        <4>1. done = DOMAIN events
          BY <1>6, <3>1, <3>2
        <4>2. IsSteady(node', conf', Lead', Late', FALSE)
          BY <1>2, <1>5, <1>6, <2>1, <3>1, <3>2 DEF IsSteady, Looks
        <4> QED
          BY <2>1, <3>4, <4>1, <4>2 DEF Settled
      <3>3. CASE 2 \notin done
        <4>1. Waited = 120
          BY <1>1, <1>6, <1>8, <3>1, <3>3, Limits DEF Waited
        <4>2. since + pt \in Nat /\ since + pt <= clock + 360
          BY <1>1, <1>4, <3>1, <4>1 DEF Waited
        <4>3. IsSteady(node', conf', Lead', Late', TRUE)
          BY <1>2, <1>5, <1>6, <2>1, <3>1, <3>3 DEF IsSteady, Looks
        <4>4. (OneToCome(2, clock + 360))'
          <5>1. DOMAIN events' \ done' = {2} /\ done' \subseteq DOMAIN events'
            BY <1>6, <2>1, <3>1, <3>3
          <5>2. events'[2].change = "streaming" /\ events'[2].at = Late'
                /\ events'[2].due = since + pt
            BY <1>2, <1>5, <1>6, <2>1, <3>1
          <5>3. events'[2].due \in Nat /\ events'[2].due <= clock' + 360
            BY <2>1, <4>2, <5>2
          <5> QED
            BY <2>1, <4>3, <5>1, <5>2, <5>3 DEF OneToCome
        <4>5. 2 \in Nat
          OBVIOUS
        <4> QED
          BY <3>4, <4>4, <4>5 DEF Settled
      <3> QED
        BY <3>2, <3>3
    <2>6. InSsh'
      BY <1>2, <1>3, <2>1, <2>4, <2>5 DEF InSsh
    <2> QED
      BY <1>1, <1>2, <2>1, <2>6, Arrives
  <1> QED
    BY <1>7, <1>8

-----------------------------------------------------------------------------
(* The restoration                                                            *)

LEMMA LeadAndLate ==
  ASSUME Chosen PROVE Lead \in Members /\ Late \in Members /\ Late # Lead
  BY ChosenType DEF Lead, Late

LEMMA SettledIsSteady ==
  ASSUME Chosen, NEW limit, Settled(limit)
  PROVE  \E starting \in BOOLEAN : IsSteady(node, conf, Lead, Late, starting)
  <1>1. CASE IsSteady(node, conf, Lead, Late, FALSE)
    <2>1. FALSE \in BOOLEAN
      OBVIOUS
    <2> QED
      BY <1>1, <2>1
  <1>2. CASE IsSteady(node, conf, Lead, Late, TRUE)
    <2>1. TRUE \in BOOLEAN
      OBVIOUS
    <2> QED
      BY <1>2, <2>1
  <1> QED
    BY <1>1, <1>2 DEF Settled, OneToCome

LEMMA SettledSees ==
  ASSUME Chosen, NEW limit, Settled(limit)
  PROVE  /\ \A n \in Members : node[n].reachable /\ node[n].proxy = "active"
         /\ {n \in Members : Down(n)} = {}
         /\ Leaders = {Lead}
  <1>1. PICK starting \in BOOLEAN : IsSteady(node, conf, Lead, Late, starting)
    BY SettledIsSteady
  <1> QED
    BY <1>1, LeadAndLate, SeesSteady

LEMMA SettledStays ==
  ASSUME Same, NEW limit, Settled(limit), clock' = clock, node' = node, events' = events,
         done' = done, since' = clock
  PROVE  Settled(limit)'
  <1>1. conf' = conf /\ Lead' = Lead /\ Late' = Late
    BY ScriptStays
  <1>2. CASE done = DOMAIN events /\ IsSteady(node, conf, Lead, Late, FALSE)
    BY <1>1, <1>2 DEF Settled
  <1>3. ASSUME NEW k \in Nat, OneToCome(k, limit) PROVE OneToCome(k, limit)'
    BY <1>1, <1>3 DEF OneToCome
  <1> QED
    BY <1>2, <1>3 DEF Settled

LEMMA AwaitSshKeeps == ASSUME SimInv, AwaitSsh PROVE SimInv'
  <1>1. Chosen /\ InSsh /\ clock \in Nat /\ since \in Nat /\ since <= clock /\ Same
        /\ outcome' = outcome
    BY DEF SimInv, AwaitSsh
  <1>2. Chosen' /\ script' = script /\ simTest' = simTest /\ conf' = conf
        /\ (WithinWaits' <=> WithinWaits) /\ (WithinLimits' <=> WithinLimits)
    BY <1>1, ScriptStays, ChosenStays
  <1>3. Decided /\ Decided'
    BY <1>1, <1>2 DEF InSsh, Decided
  <1>4. ASSUME WithinWaits, simTest # "H-4"
        PROVE  clock = since /\ Settled(clock + 360) /\ \A n \in Members : node[n].reachable
    <2>1. clock = since /\ Settled(clock + 360)
      BY <1>1, <1>4 DEF InSsh
    <2> QED
      BY <1>1, <2>1, SettledSees
  <1>5. ASSUME WithinWaits, simTest = "H-4"
        PROVE  /\ Falling /\ since > 0 /\ script.promote_after <= since
               /\ 1 \in done /\ 3 \in done /\ done \subseteq 1..3
               /\ 2 \in done <=> RebootEnd <= clock
               /\ (\A n \in Members : node[n].reachable) <=> 2 \in done
               /\ RebootEnd < since + 480
    <2>1. Falling /\ since > 0 /\ script.promote_after <= since
      BY <1>1, <1>5 DEF InSsh
    <2>2. script.reboot_after \in Nat /\ script.reboot_duration \in Nat
          /\ script.promote_after \in Nat /\ script.reboot_after < script.promote_after
          /\ RebootEnd = script.reboot_after + script.reboot_duration
          /\ script.reboot_duration <= 480
      BY <1>1, <1>5, ScriptFields, Limits DEF RebootEnd, WithinWaits
    <2>3. done = {i \in 1..3 : KillDues[i] <= clock}
      BY <1>1, <2>1, DueOfKill DEF Falling
    <2>4. 1 \in done /\ 3 \in done /\ done \subseteq 1..3
          /\ (2 \in done <=> RebootEnd <= clock)
      BY <1>1, <2>1, <2>2, <2>3 DEF KillDues
    <2>5. (\A n \in Members : node[n].reachable) <=> 2 \in done
      <3>1. \A n \in Members : node[n].reachable <=> (n = Old => 2 \in done \/ 1 \notin done)
        BY <1>1, <2>1, SeesKilled DEF Falling
      <3>2. Old \in Members
        BY <1>1, ChosenType
      <3> QED
        BY <2>4, <3>1, <3>2
    <2>6. RebootEnd < since + 480
      BY <1>1, <2>1, <2>2
    <2> QED
      BY <2>1, <2>4, <2>5, <2>6
  <1>6. CASE \A n \in Members : node[n].reachable
    <2>1. simPc' = "services" /\ since' = clock /\ clock' = clock /\ node' = node
          /\ events' = events /\ done' = done
      BY <1>6 DEF AwaitSsh, Goto, Still
    <2>2. ASSUME WithinWaits, simTest = "H-4" PROVE Falling' /\ done' = {1, 2, 3}
      <3>1. Falling'
        BY <1>1, <1>5, <2>1, <2>2, FallingStays
      <3>2. \A i \in 1..3 : i = 1 \/ i = 2 \/ i = 3
        OBVIOUS
      <3>3. done = {1, 2, 3}
        BY <1>5, <1>6, <2>2, <3>2
      <3> QED
        BY <2>1, <3>1, <3>3
    <2>3. ASSUME WithinWaits, simTest # "H-4" PROVE (Settled(clock + 360))'
      <3>1. Settled(clock + 360) /\ clock = since
        BY <1>4, <2>3
      <3>2. DEFINE limit == clock + 360
      <3>3. Settled(limit)'
        BY <1>1, <2>1, <3>1, SettledStays
      <3> QED
        BY <2>1, <3>3
    <2>4. InServices'
      BY <1>2, <1>3, <2>1, <2>2, <2>3 DEF InServices
    <2> QED
      BY <1>1, <1>2, <2>1, <2>4, Arrives
  <1>7. CASE ~(\A n \in Members : node[n].reachable) /\ Waited > REBOOT_WAIT
    <2>1. simPc' = "over" /\ since' = clock' /\ clock' = clock
      BY <1>7 DEF AwaitSsh, GiveUp, Goto, Still
    <2>2. ~WithinWaits
      <3>1. clock - since > 480
        BY <1>7, Limits DEF Waited
      <3>2. RebootEnd \in Nat
        BY <1>1, ScriptFields DEF RebootEnd
      <3> QED
        BY <1>1, <1>4, <1>5, <1>7, <3>1, <3>2
    <2>3. ScriptDecides'
      BY <1>2, <1>3, <2>2 DEF ScriptDecides, Decided
    <2> QED
      BY <1>1, <1>2, <2>1, <2>3, Arrives
  <1>8. CASE ~(\A n \in Members : node[n].reachable) /\ ~(Waited > REBOOT_WAIT)
    <2>1. Sleep(6) /\ simPc' = simPc /\ since' = since /\ simPc = "ssh"
      BY <1>8, Limits DEF AwaitSsh
    <2>2. clock' = clock + 6 /\ clock' \in Nat
      BY <1>1, <2>1 DEF Sleep
    <2>3. ASSUME WithinWaits
          PROVE  simTest = "H-4" /\ Falling'
      <3>1. simTest = "H-4"
        BY <1>4, <1>8, <2>3
      <3> QED
        BY <1>1, <1>2, <1>5, <2>1, <2>3, <3>1, FallingSleeps
    <2>4. InSsh'
      BY <1>2, <1>3, <1>5, <2>1, <2>3 DEF InSsh
    <2> QED
      BY <1>1, <1>2, <2>1, <2>2, <2>4, Arrives
  <1> QED
    BY <1>6, <1>7, <1>8

LEMMA EmptyAppended ==
  ASSUME NEW S, NEW s \in Seq(S), NEW e \in S
  PROVE  s \o <<>> \o <<>> = s /\ s \o <<e>> \o <<>> = Append(s, e)
  <1>1. s \o <<>> = s
    BY ConcatEmptySeq
  <1>2. s \o <<e>> = Append(s, e) /\ Append(s, e) \in Seq(S)
    BY AppendIsConcat
  <1>3. Append(s, e) \o <<>> = Append(s, e)
    BY <1>2, ConcatEmptySeq
  <1> QED
    BY <1>1, <1>2, <1>3

LEMMA RestoreServicesKeeps == ASSUME SimInv, RestoreServices PROVE SimInv'
  <1> DEFINE down == {n \in Members : Down(n)}
             off == {n \in {conf.owner, conf.standby} : node[n].proxy # "active"}
             revived == FoldLeft(Revived, node, SetToSeq(down))
             rejoin == [i \in 1 .. Cardinality(down) |->
                          After(script.rejoin_after_revive, "streaming", SetToSeq(down)[i])]
             back == [i \in 1 .. Cardinality(off) |->
                        After(script.vip_move_after, "vip", conf.owner)]
             event == After(script.rejoin_after_revive, "streaming", Old)
  <1>1. Chosen /\ InServices /\ clock \in Nat /\ Same /\ clock' = clock /\ done' = done
        /\ outcome' = outcome /\ simPc' = "healthy" /\ since' = clock
    BY DEF SimInv, RestoreServices, Goto
  <1>2. /\ node' = [n \in Members |-> IF n \in off THEN [revived[n] EXCEPT !.proxy = "active"]
                                      ELSE revived[n]]
        /\ events' = events \o rejoin \o back
    BY DEF RestoreServices
  <1>3. Chosen' /\ script' = script /\ simTest' = simTest /\ conf' = conf
        /\ Lead' = Lead /\ Late' = Late
        /\ (WithinWaits' <=> WithinWaits) /\ (WithinLimits' <=> WithinLimits)
    BY <1>1, ScriptStays, ChosenStays
  <1>4. Decided'
    BY <1>1, <1>3 DEF InServices, Decided
  <1>5. ASSUME \A n \in Members : node[n].proxy = "active"
        PROVE  back = <<>> /\ node' = [n \in Members |-> revived[n]]
    <2>1. conf.owner \in Members /\ conf.standby \in Members
      BY <1>1, ChosenType
    <2>2. off = {}
      BY <1>5, <2>1
    <2> HIDE DEF off, revived
    <2>3. back = <<>>
      <3>1. Cardinality(off) = 0
        BY <2>2, FS_EmptySet
      <3> QED
        BY <3>1
    <2>4. node' = [n \in Members |-> revived[n]]
      BY <1>2, <2>2
    <2> QED
      BY <2>3, <2>4
  <1> HIDE DEF off, back, down
  <1>6. ASSUME WithinWaits, simTest = "H-4" PROVE (Settled(since + 360))'
    <2>1. Falling /\ done = {1, 2, 3}
      BY <1>1, <1>6 DEF InServices
    <2>2. events = KillEvents /\ IsKilled(node, conf, done) /\ KillEvents \in Seq(EventType)
      BY <1>1, <2>1, KillEventsType DEF Falling
    <2>3. down = {Old} /\ \A n \in Members : node[n].proxy = "active"
      BY <1>1, <2>1, <2>2, SeesKilled DEF down
    <2>4. SetToSeq(down) = <<Old>> /\ Cardinality(down) = 1
      BY <2>3, SeqOfOne
    <2>5. revived = Revived(node, Old)
      BY <2>4, RevivedOne
    <2>6. rejoin = <<event>>
      <3>1. Cardinality(down) = 1 /\ SetToSeq(down)[1] = Old
        BY <2>4
      <3>2. rejoin = [i \in {1} |-> After(script.rejoin_after_revive, "streaming",
                                          SetToSeq(down)[i])]
        BY <3>1
      <3>3. rejoin = [i \in {1} |-> event]
        BY <3>1, <3>2
      <3> HIDE DEF rejoin, event
      <3> QED
        BY <3>3
    <2>7. IsSteady(node', conf, conf.promoteTo, Old, TRUE)
      <3>1. IsSteady(revived, conf, conf.promoteTo, Old, TRUE)
        BY <1>1, <2>1, <2>2, <2>5, RevivalChanges
      <3> HIDE DEF revived
      <3>2. revived \in [Members -> NodeType]
        BY <3>1 DEF IsSteady
      <3>3. node' = revived
        BY <1>5, <2>3, <3>2
      <3> QED
        BY <3>1, <3>3
    <2>8. script.rejoin_after_revive \in Nat /\ script.rejoin_after_revive <= 360
      BY <1>1, <1>6, ScriptFields, Limits DEF WithinWaits
    <2>9. event \in EventType /\ event.change = "streaming" /\ event.at = Old
          /\ event.due = clock + script.rejoin_after_revive
      BY <1>1, <2>8, ChosenType DEF EventType, After
    <2> HIDE DEF event, rejoin
    <2>10. events' = Append(KillEvents, event)
      BY <1>2, <1>5, <2>2, <2>3, <2>6, <2>9, EmptyAppended
    <2>11. DOMAIN events' = 1..4 /\ events'[4] = event /\ events' \in Seq(EventType)
      <3>1. PICK a, b, c : KillEvents = <<a, b, c>>
        BY DEF KillEvents
      <3>2. DOMAIN events' = 1..4 /\ events'[4] = event
        BY <2>10, <3>1, FourthEvent
      <3>3. events' \in Seq(EventType)
        BY <2>2, <2>9, <2>10
      <3> QED
        BY <3>2, <3>3
    <2>12. Lead = conf.promoteTo /\ Late = Old
      BY <1>6 DEF Lead, Late
    <2>13. DOMAIN events' \ done' = {4} /\ done' \subseteq DOMAIN events'
      <3>1. 1..4 = {1, 2, 3, 4}
        OBVIOUS
      <3> QED
        BY <1>1, <2>1, <2>11, <3>1
    <2>14. events'[4].due \in Nat /\ events'[4].due <= since' + 360
      BY <1>1, <2>8, <2>9, <2>11
    <2>15. (OneToCome(4, since + 360))'
      BY <1>1, <1>3, <2>7, <2>9, <2>11, <2>12, <2>13, <2>14 DEF OneToCome
    <2>16. 4 \in Nat
      OBVIOUS
    <2> QED
      BY <2>11, <2>15, <2>16 DEF Settled
  <1>7. ASSUME WithinWaits, simTest # "H-4" PROVE (Settled(since + 360))'
    <2>1. clock = since /\ Settled(clock + 360)
      BY <1>1, <1>7 DEF InServices
    <2>2. down = {} /\ \A n \in Members : node[n].proxy = "active"
      BY <1>1, <2>1, SettledSees DEF down
    <2>3. revived = node
      BY <2>2, RevivedNone
    <2>4. rejoin = <<>>
      <3>1. Cardinality(down) = 0
        BY <2>2, FS_EmptySet
      <3> QED
        BY <3>1
    <2>5. node' = node
      <3>1. PICK starting \in BOOLEAN : IsSteady(node, conf, Lead, Late, starting)
        BY <1>1, <2>1, SettledIsSteady
      <3>2. node \in [Members -> NodeType]
        BY <3>1 DEF IsSteady
      <3> HIDE DEF revived
      <3> QED
        BY <1>5, <2>2, <2>3, <3>2
    <2> HIDE DEF rejoin
    <2>6. events' = events
      <3>1. events \in Seq(EventType)
        BY <2>1 DEF Settled
      <3>2. events \o <<>> = events
        BY <3>1, ConcatEmptySeq
      <3> QED
        BY <1>2, <1>5, <2>2, <2>4, <3>2
    <2>7. DEFINE limit == clock + 360
    <2>8. Settled(limit)'
      BY <1>1, <2>1, <2>5, <2>6, SettledStays
    <2> QED
      BY <1>1, <2>8
  <1>8. InHealthy'
    BY <1>3, <1>4, <1>6, <1>7 DEF InHealthy
  <1> QED
    BY <1>1, <1>3, <1>8, Arrives

\* The switchover makes the old Primary the Primary again.
LEMMA SwitchesBack ==
  ASSUME Chosen, NEW late, IsSteady(node, conf, Lead, late, FALSE), Leaders = {Lead}
  PROVE  IsSteady(SwitchedBack, conf, Old, conf.h6, FALSE)
  <1> DEFINE leader == CHOOSE n \in Leaders : TRUE
  <1>1. leader = Lead
    OBVIOUS
  <1>2. Lead \in Members
    BY LeadAndLate
  <1>3. CASE Lead = Old
    <2>1. SwitchedBack = node
      BY <1>1, <1>3 DEF SwitchedBack, Old
    <2> QED
      BY <1>3, <2>1, NobodyLate
  <1>4. CASE Lead # Old
    <2>1. SwitchedBack = SetRole(SetRole(node, Lead, "replica", "streaming"), Old,
                                 "primary", "running")
      BY <1>1, <1>4 DEF SwitchedBack, Old
    <2>2. IsSteady(SwitchedBack, conf, Old, late, FALSE)
      BY <1>2, <1>4, <2>1, SwitchoverChanges
    <2> QED
      BY <2>2, NobodyLate
  <1> QED
    BY <1>3, <1>4

LEMMA AwaitHealthyKeeps == ASSUME SimInv, AwaitHealthy PROVE SimInv'
  <1>1. Chosen /\ InHealthy /\ clock \in Nat /\ since \in Nat /\ since <= clock /\ Same
        /\ outcome' = outcome
    BY DEF SimInv, AwaitHealthy
  <1>2. Chosen' /\ script' = script /\ simTest' = simTest /\ conf' = conf
        /\ Lead' = Lead /\ Late' = Late
        /\ (WithinWaits' <=> WithinWaits) /\ (WithinLimits' <=> WithinLimits)
    BY <1>1, ScriptStays, ChosenStays
  <1>3. Decided /\ Decided'
    BY <1>1, <1>2 DEF InHealthy, Decided
  <1>4. WithinWaits => Settled(since + 360)
    BY <1>1 DEF InHealthy
  <1>5. ASSUME NEW starting \in BOOLEAN, IsSteady(node, conf, Lead, Late, starting)
        PROVE  (SimAllStreaming <=> ~starting) /\ Leaders = {Lead}
    BY <1>1, <1>5, LeadAndLate, SeesSteady
  <1>6. CASE SimAllStreaming
    <2>1. node' = SwitchedBack /\ clock' = clock /\ events' = events /\ done' = done
          /\ simPc' = "vip" /\ since' = clock
      BY <1>6 DEF AwaitHealthy, Goto
    <2>2. ASSUME WithinWaits
          PROVE  done = DOMAIN events /\ IsSteady(node, conf, Lead, Late, FALSE)
      <3>1. ASSUME IsSteady(node, conf, Lead, Late, TRUE) PROVE FALSE
        <4>1. TRUE \in BOOLEAN
          OBVIOUS
        <4> QED
          BY <1>5, <1>6, <3>1, <4>1
      <3> QED
        BY <1>4, <2>2, <3>1 DEF Settled, OneToCome
    <2>3. ASSUME WithinWaits PROVE IsSteady(node', conf, Old, conf.h6, FALSE)
      <3>1. FALSE \in BOOLEAN
        OBVIOUS
      <3>2. Leaders = {Lead}
        BY <1>5, <2>2, <2>3, <3>1
      <3> QED
        BY <1>1, <2>1, <2>2, <2>3, <3>2, SwitchesBack
    <2>4. InVip'
      BY <1>2, <1>3, <2>1, <2>2, <2>3 DEF InVip, Old
    <2> QED
      BY <1>1, <1>2, <2>1, <2>4, Arrives
  <1>7. ASSUME ~SimAllStreaming, WithinWaits
        PROVE  \E k \in Nat : OneToCome(k, since + 360)
    <2>1. ASSUME IsSteady(node, conf, Lead, Late, FALSE) PROVE FALSE
      <3>1. FALSE \in BOOLEAN
        OBVIOUS
      <3> QED
        BY <1>5, <1>7, <2>1, <3>1
    <2> QED
      BY <1>4, <1>7, <2>1 DEF Settled
  <1>8. CASE ~SimAllStreaming /\ Waited >= HEALTHY_WAIT
    <2>1. simPc' = "over" /\ since' = clock' /\ clock' = clock
      BY <1>8 DEF AwaitHealthy, GiveUp, Goto, Still
    <2>2. ASSUME WithinWaits PROVE FALSE
      <3>1. PICK k \in Nat : OneToCome(k, since + 360)
        BY <1>7, <1>8, <2>2
      <3>2. events[k].due \in Nat /\ events[k].due <= since + 360
            /\ (clock = since \/ events[k].due > clock)
        BY <3>1 DEF OneToCome
      <3>3. clock - since >= 360
        BY <1>8, Limits DEF Waited
      <3> QED
        BY <1>1, <3>2, <3>3
    <2>3. ScriptDecides'
      BY <1>2, <1>3, <2>2 DEF ScriptDecides, Decided
    <2> QED
      BY <1>1, <1>2, <2>1, <2>3, Arrives
  <1>9. CASE ~SimAllStreaming /\ ~(Waited >= HEALTHY_WAIT)
    <2>1. Sleep(4) /\ simPc' = simPc /\ since' = since /\ simPc = "healthy"
      BY <1>9, Limits DEF AwaitHealthy
    <2>2. clock' = clock + 4 /\ clock' \in Nat
      BY <1>1, <2>1 DEF Sleep
    <2>3. ASSUME WithinWaits PROVE (Settled(since + 360))'
      <3>1. PICK k \in Nat : OneToCome(k, since + 360)
        BY <1>7, <1>9, <2>3
      <3>2. /\ DOMAIN events \ done = {k} /\ done \subseteq DOMAIN events
            /\ events[k].change = "streaming" /\ events[k].at = Late
            /\ events[k].due \in Nat /\ events[k].due <= since + 360
            /\ IsSteady(node, conf, Lead, Late, TRUE)
        BY <3>1 DEF OneToCome
      <3>3. events \in Seq(EventType)
        BY <1>4, <2>3 DEF Settled
      <3>4. CASE events[k].due <= clock + 4
        <4>1. node' = Change(node, events[k]) /\ done' = done \cup {k} /\ events' = events
          BY <1>1, <2>1, <3>2, <3>4, SleepsToChange
        <4>2. node' = SetRole(node, Late, "replica", "streaming")
          BY <3>2, <4>1 DEF Change
        <4>3. IsSteady(node', conf, Lead, Late, FALSE)
          BY <1>1, <3>2, <4>2, LeadAndLate, StreamingChanges
        <4>4. done' = DOMAIN events'
          BY <3>2, <4>1
        <4> QED
          BY <1>2, <3>3, <4>1, <4>3, <4>4 DEF Settled
      <3>5. CASE ~(events[k].due <= clock + 4)
        <4>1. node' = node /\ done' = done /\ events' = events
          BY <1>1, <2>1, <3>2, <3>5, SleepsOn
        <4>2. events[k].due > clock'
          BY <1>1, <2>2, <3>2, <3>5
        <4>3. (OneToCome(k, since + 360))'
          BY <1>2, <2>1, <3>2, <4>1, <4>2 DEF OneToCome
        <4> QED
          BY <3>3, <4>1, <4>3 DEF Settled
      <3> QED
        BY <3>4, <3>5
    <2>4. InHealthy'
      BY <1>2, <1>3, <2>3 DEF InHealthy
    <2> QED
      BY <1>1, <1>2, <2>1, <2>2, <2>4, Arrives
  <1> QED
    BY <1>6, <1>8, <1>9

LEMMA AwaitVipKeeps == ASSUME SimInv, AwaitVip PROVE SimInv'
  <1>1. Chosen /\ InVip /\ clock \in Nat /\ since \in Nat /\ since <= clock /\ Same
        /\ outcome' = outcome
    BY DEF SimInv, AwaitVip
  <1>2. Chosen' /\ script' = script /\ simTest' = simTest /\ conf' = conf
        /\ (WithinWaits' <=> WithinWaits) /\ (WithinLimits' <=> WithinLimits)
    BY <1>1, ScriptStays, ChosenStays
  <1>3. Decided /\ Decided'
    BY <1>1, <1>2 DEF InVip, Decided
  <1>4. ASSUME WithinWaits
        PROVE  /\ done = DOMAIN events /\ IsSteady(node, conf, Old, conf.h6, FALSE)
               /\ VipHolders = {conf.owner} /\ SimAtBase
    <2>1. done = DOMAIN events /\ IsSteady(node, conf, Old, conf.h6, FALSE)
      BY <1>1, <1>4 DEF InVip
    <2>2. FALSE \in BOOLEAN
      OBVIOUS
    <2> QED
      BY <1>1, <2>1, <2>2, ChosenType, SeesSteady, SeesBase
  <1>5. CASE VipHolders = {conf.owner}
    <2>1. simPc' = "over" /\ since' = clock' /\ clock' = clock /\ restored' = SimAtBase
          /\ events' = events /\ done' = done
      BY <1>5 DEF AwaitVip, Goto, Still
    <2>2. WithinWaits => restored' /\ done' = DOMAIN events'
      BY <1>4, <2>1
    <2>3. ScriptDecides'
      BY <1>2, <1>3, <2>2 DEF ScriptDecides, Decided
    <2> QED
      BY <1>1, <1>2, <2>1, <2>3, Arrives
  <1>6. CASE VipHolders # {conf.owner} /\ Waited >= VIP_RETURN_WAIT
    <2>1. simPc' = "over" /\ since' = clock' /\ clock' = clock
      BY <1>6 DEF AwaitVip, GiveUp, Goto, Still
    <2>2. ScriptDecides'
      BY <1>2, <1>3, <1>4, <1>6 DEF ScriptDecides, Decided
    <2> QED
      BY <1>1, <1>2, <2>1, <2>2, Arrives
  <1>7. CASE VipHolders # {conf.owner} /\ ~(Waited >= VIP_RETURN_WAIT)
    <2>1. Sleep(4) /\ simPc' = simPc /\ since' = since /\ simPc = "vip"
      BY <1>7, Limits DEF AwaitVip
    <2>2. clock' = clock + 4 /\ clock' \in Nat
      BY <1>1, <2>1 DEF Sleep
    <2>3. InVip'
      BY <1>2, <1>3, <1>4, <1>7 DEF InVip
    <2> QED
      BY <1>1, <1>2, <2>1, <2>2, <2>3, Arrives
  <1> QED
    BY <1>5, <1>6, <1>7

LEMMA SimBegins == ASSUME SimInit PROVE SimInv
  BY DEF SimInit, SimInv, ScriptDecides

LEMMA SimStutters == ASSUME SimInv, UNCHANGED simVars PROVE SimInv'
  <1>1. simTest' = simTest /\ script' = script /\ conf' = conf /\ node' = node
        /\ events' = events /\ done' = done /\ clock' = clock /\ since' = since
        /\ injected' = injected /\ simPc' = simPc /\ seen' = seen /\ outcome' = outcome
        /\ restored' = restored
    BY DEF simVars
  <1>2. Same
    BY <1>1 DEF Same
  <1>3. Waited' = Waited
    BY <1>1 DEF Waited
  <1> USE <1>1, <1>2, <1>3, ScriptStays
  <1>4. Falling' <=> Falling
    BY DEF Falling
  <1>5. ASSUME NEW limit PROVE Settled(limit)' <=> Settled(limit)
    <2>1. ASSUME NEW k PROVE OneToCome(k, limit)' <=> OneToCome(k, limit)
      BY DEF OneToCome
    <2> QED
      BY <2>1 DEF Settled
  <1>6. /\ Chosen' <=> Chosen
        /\ InInject' <=> InInject
        /\ Decided' <=> Decided
    BY DEF Chosen, InInject, Decided, Old
  <1>7. InFollow' <=> InFollow
    BY <1>4 DEF InFollow
  <1>8. InWaitSsh' <=> InWaitSsh
    BY <1>4 DEF InWaitSsh
  <1>9. InRevive' <=> InRevive
    BY <1>4 DEF InRevive
  <1>10. InRejoin' <=> InRejoin
    BY DEF InRejoin, Old
  <1>11. InTakeover' <=> InTakeover
    BY DEF InTakeover
  <1>12. InReturn' <=> InReturn
    BY DEF InReturn
  <1>13. InStopping' <=> InStopping
    BY DEF InStopping
  <1>14. InStarting' <=> InStarting
    BY DEF InStarting, Old
  <1>15. /\ (Settled(clock + 360))' <=> Settled(clock + 360)
         /\ (Settled(since + 360))' <=> Settled(since + 360)
    BY <1>5
  <1>16. InSsh' <=> InSsh
    BY <1>4, <1>6, <1>15 DEF InSsh
  <1>17. InServices' <=> InServices
    BY <1>4, <1>6, <1>15 DEF InServices
  <1>18. InHealthy' <=> InHealthy
    BY <1>6, <1>15 DEF InHealthy
  <1>19. InVip' <=> InVip
    BY <1>6 DEF InVip, Old
  <1>20. ScriptDecides' <=> ScriptDecides
    BY DEF ScriptDecides
  <1> QED
    <2>1. CASE simPc = "choose"
      BY ONLY SimInv, <1>1, <1>20, <2>1 DEF SimInv
    <2>2. CASE simPc # "choose"
      <3>1. Chosen' /\ clock' \in Nat /\ since' \in Nat /\ since' <= clock'
        BY ONLY SimInv, <1>1, <1>6, <2>2 DEF SimInv
      <3>2. \/ simPc = "inject" /\ InInject
            \/ simPc = "follow" /\ InFollow
            \/ simPc = "wait ssh" /\ InWaitSsh
            \/ simPc = "revive" /\ InRevive
            \/ simPc = "rejoin" /\ InRejoin
            \/ simPc = "takeover" /\ InTakeover
            \/ simPc = "return" /\ InReturn
            \/ simPc = "stopping" /\ InStopping
            \/ simPc = "starting" /\ InStarting
            \/ simPc = "ssh" /\ InSsh
            \/ simPc = "services" /\ InServices
            \/ simPc = "healthy" /\ InHealthy
            \/ simPc = "vip" /\ InVip
            \/ simPc = "over" /\ ScriptDecides
        <4>1. simPc \in {"inject", "follow", "wait ssh", "revive", "rejoin", "takeover",
                         "return", "stopping", "starting", "ssh", "services", "healthy",
                         "vip", "over"}
          BY ONLY SimInv, <2>2 DEF SimInv
        <4>2. /\ simPc = "inject" => InInject
              /\ simPc = "follow" => InFollow
              /\ simPc = "wait ssh" => InWaitSsh
              /\ simPc = "revive" => InRevive
              /\ simPc = "rejoin" => InRejoin
              /\ simPc = "takeover" => InTakeover
              /\ simPc = "return" => InReturn
              /\ simPc = "stopping" => InStopping
              /\ simPc = "starting" => InStarting
              /\ simPc = "ssh" => InSsh
              /\ simPc = "services" => InServices
              /\ simPc = "healthy" => InHealthy
              /\ simPc = "vip" => InVip
              /\ simPc = "over" => ScriptDecides
          BY ONLY SimInv DEF SimInv
        <4> QED
          BY ONLY <4>1, <4>2
      <3> QED
        BY ONLY <1>1, <1>6, <1>7, <1>8, <1>9, <1>10, <1>11, <1>12, <1>13, <1>14, <1>16,
                <1>17, <1>18, <1>19, <1>20, <3>1, <3>2, Arrives
    <2> QED
      BY <2>1, <2>2

\* The invariant of the simulation: what each loop knows of the nodes, of the
\* changes that are done and to come, and of the verdict.
THEOREM SimulationInvariant == ScriptsInOrder => (SimSpec => []SimInv)
  <1> SUFFICES ASSUME ScriptsInOrder PROVE SimSpec => []SimInv
    OBVIOUS
  <1>1. SimInit => SimInv
    BY SimBegins
  <1>2. SimInv /\ [SimNext]_simVars => SimInv'
    BY ChoosesKeep, ReadsOnly, KillKeeps, FollowKillKeeps, WaitSshKeeps, ReviveKeeps,
       FollowRejoinKeeps, StopProxyKeeps, FollowTakeoverKeeps, FollowReturnKeeps,
       StopPatroniKeeps, FollowStopKeeps, FollowStartKeeps, AwaitSshKeeps,
       RestoreServicesKeeps, AwaitHealthyKeeps, AwaitVipKeeps, SimStutters DEF SimNext
  <1> QED
    BY <1>1, <1>2, PTL DEF SimSpec

\* A scripted test ends with the verdict that its script's times decide, and in
\* the base state when no change is later than the waits for it.
THEOREM ScriptsDecide == ScriptsInOrder => (SimSpec => []ScriptDecides)
  <1>1. SimInv => ScriptDecides
    BY DEF SimInv
  <1> QED
    BY <1>1, SimulationInvariant, PTL

=============================================================================
