---------------------------- MODULE WriteRecord ----------------------------
(* How tests H-3 and H-4 measure a failover (ha-test/hatest/measure.py and  *)
(* ha-test/node/recorder.sh).  The recorder inserts a row through the VIP    *)
(* once per interval, each in a process of its own, and logs the answer; the *)
(* old Primary is killed, a replica is promoted with what it has   *)
(* and the log is compared with the rows of the new Primary while the        *)
(* recorder still runs.                                                      *)
(* An attempt is named by the interval it starts in.  Intervals have two     *)
(* instants: attempts start at the first, everything else is at the second.  *)
EXTENDS Integers, Sequences, FiniteSets, FiniteSetsExt, Functions

CONSTANTS MaxTime,         \* bound: intervals
          MaxHealthy,      \* bound: intervals before the kill
          AttemptTimeout,  \* ATTEMPT_TIMEOUT, in intervals
          FollowLimit      \* PROMOTE_LIMIT + FOLLOW_MARGIN, in intervals

ASSUME RecordAssumption == {MaxTime, MaxHealthy, AttemptTimeout, FollowLimit} \subseteq Nat

VARIABLES
  now,        \* the interval
  attempt,    \* of every attempt: how it ended, when, and where it committed
  wal,        \* rows of the Primary, in commit order; row 0 is H-4's marker
  db,         \* the Primary: up, down, or promoted
  injectedAt, \* Injection.at: the script prints it before it kills anything
  killedAt,   \* the interval of the kill
  recPc,      \* what the scenario does next
  probeLog,   \* the attempts recorder_logs has read
  present,    \* the rows probe_tags has read
  healthy     \* environment: the old Primary answers each attempt within the interval

recVars == <<now, attempt, wal, db, injectedAt, killedAt, recPc, probeLog,
             present, healthy>>

Marker == 0
Instant(interval) == 2 * interval + 1
StartOf(a) == 2 * a

Failed == [result |-> "fail", end |-> 0, on |-> "none"]
Pending(a) == attempt[a].result = "pending"
Ended == {a \in DOMAIN attempt : ~Pending(a)}
Answers == healthy /\ db = "up"

RecInit ==
  /\ now = 0 /\ attempt = <<>>
  /\ wal = <<Marker>> /\ db = "up"
  /\ injectedAt = 0 /\ killedAt = 0
  /\ recPc = "record" /\ probeLog = <<>> /\ present = {}
  /\ healthy \in BOOLEAN

\* probe_loop: an attempt every interval, however long the earlier ones take.
StartAttempt ==
  /\ now < MaxTime
  /\ db = "up" => now < MaxHealthy
  /\ \A a \in DOMAIN attempt : Pending(a) => ~Answers /\ now - a < AttemptTimeout
  /\ now' = now + 1
  /\ attempt' = Append(attempt, [result |-> "pending", end |-> 0, on |-> "none"])
  /\ UNCHANGED <<wal, db, injectedAt, killedAt, recPc, probeLog, present, healthy>>

Commit(a) ==
  /\ Pending(a) /\ attempt[a].on = "none"
  /\ db # "down"
  /\ attempt' = [attempt EXCEPT ![a].on = IF db = "up" THEN "old" ELSE "new"]
  /\ wal' = Append(wal, a)
  /\ UNCHANGED <<now, db, injectedAt, killedAt, recPc, probeLog, present, healthy>>

\* probe_once: the answer, an error or the timeout is logged.  The answer to a
\* row that has committed may come after the Primary was killed, or never.
EndAttempt(a, result) ==
  /\ Pending(a)
  /\ result = "ok" => attempt[a].on # "none"
  /\ result = "fail" => ~Answers
  /\ attempt' = [attempt EXCEPT ![a] =
                   IF result = "ok" THEN [@ EXCEPT !.result = "ok", !.end = Instant(now)]
                   ELSE Failed]
  /\ UNCHANGED <<now, wal, db, injectedAt, killedAt, recPc, probeLog, present,
                 healthy>>

PrintTime ==
  /\ recPc = "record" /\ now > 0
  /\ injectedAt' = Instant(now)
  /\ recPc' = "kill"
  /\ UNCHANGED <<now, attempt, wal, db, killedAt, probeLog, present, healthy>>

KillPrimary ==
  /\ recPc = "kill"
  /\ db' = "down" /\ killedAt' = now
  /\ recPc' = "follow"
  /\ UNCHANGED <<now, attempt, wal, injectedAt, probeLog, present, healthy>>

\* A replica is promoted with the rows it has replayed: replication is
\* asynchronous.  The leader key (30 seconds) outlasts every attempt (5 seconds).
Promote ==
  /\ db = "down" /\ now - killedAt > AttemptTimeout + 1
  /\ db' = "promoted"
  /\ \E replayed \in 0 .. Len(wal) : wal' = SubSeq(wal, 1, replayed)
  /\ UNCHANGED <<now, attempt, injectedAt, killedAt, recPc, probeLog, present,
                 healthy>>

----------------------------------------------------------------------------
(* The scenarios: follow, read, compare *)

\* _write_state: since the injection an attempt has failed, and the last one
\* that has ended is a success.
Resumed ==
  LET recent == {a \in Ended : StartOf(a) >= injectedAt} IN
  /\ \E a \in recent : attempt[a].result = "fail"
  /\ attempt[Max(recent)].result = "ok"

FollowWrites ==
  /\ recPc = "follow"
  /\ \/ /\ db = "promoted" /\ (Resumed \/ now - killedAt >= FollowLimit)
        /\ recPc' = "first read"
     \/ /\ db = "down" /\ now - killedAt >= FollowLimit
        /\ recPc' = "no leader"
  /\ UNCHANGED <<now, attempt, wal, db, injectedAt, killedAt, probeLog, present,
                 healthy>>

\* Mutant: the rows are read before the log.
TagsFirst == [logs |-> "second read", tags |-> "first read"]

\* DataRetentionScenario reads the log, then the rows.
ReadOrder == [logs |-> "first read", tags |-> "second read"]

AfterRead == recPc' = IF recPc = "first read" THEN "second read" ELSE "compared"

ReadLogs ==
  /\ recPc = ReadOrder.logs
  /\ probeLog' = Restrict(attempt, Ended)
  /\ AfterRead
  /\ UNCHANGED <<now, attempt, wal, db, injectedAt, killedAt, present, healthy>>

ReadTags ==
  /\ recPc = ReadOrder.tags
  /\ present' = Range(wal)
  /\ AfterRead
  /\ UNCHANGED <<now, attempt, wal, db, injectedAt, killedAt, probeLog, healthy>>

RecNext ==
  /\ recPc \notin {"compared", "no leader"}
  /\ \/ StartAttempt
     \/ \E a \in DOMAIN attempt :
          Commit(a) \/ EndAttempt(a, "ok") \/ EndAttempt(a, "fail")
     \/ PrintTime \/ KillPrimary \/ Promote
     \/ FollowWrites \/ ReadLogs \/ ReadTags

RecSpec == RecInit /\ [][RecNext]_recVars

----------------------------------------------------------------------------
(* measure.loss and the verdict of H-4 *)

Logged == DOMAIN probeLog
Acked == {a \in Logged : probeLog[a].result = "ok"}
AckedBefore == {a \in Acked : probeLog[a].end < injectedAt}
ProbeRows == present \intersect Logged

\* Mutant: rows are counted, so that a row that committed without an answer
\* makes up for a lost one.
LostIfFewer(acked) ==
  IF Cardinality(acked) <= Cardinality(ProbeRows) THEN {} ELSE acked \ ProbeRows

Lost(acked) == acked \ ProbeRows

H4Passes ==
  /\ Marker \in present
  /\ Lost(AckedBefore) = {}
  /\ Lost(Acked) = {}

----------------------------------------------------------------------------
(* measure.write_stop *)

Window == {a \in Logged : StartOf(a) >= injectedAt}
Failures == {a \in Window : probeLog[a].result = "fail"}
Ends(attempts) == {probeLog[a].end : a \in attempts}

\* Mutant: writing has resumed with the first answer after the first failure.
AnsweredSince(failure) == {a \in Acked : probeLog[a].end >= StartOf(failure)}

StartedSince(failure) == {a \in Acked : StartOf(a) >= StartOf(failure)}

\* The duration, or the empty set when writing has not resumed.  (Without a
\* failure write_stop takes the longest gap between two answers; an outage that
\* outlasts every attempt always has failures.)
WriteStop ==
  LET failure == Min(Failures)
      before == {e \in Ends(Acked) : e <= StartOf(failure)}
      origin == IF before = {} THEN injectedAt ELSE Max(before)
  IN IF Failures = {} \/ StartedSince(failure) = {} THEN {}
     ELSE {Min(Ends(StartedSince(failure))) - origin}

----------------------------------------------------------------------------
(* Properties *)

\* H-4 accuses nobody falsely and lets no loss pass: every row it reports lost
\* was answered and is not on the new Primary, although rows are still written
\* while it reads; and when it passes, every row answered before the injection
\* is there, even if others committed without an answer.
LossIsReal ==
  recPc = "compared" =>
    /\ \A a \in Lost(Acked) : attempt[a].result = "ok" /\ a \notin Range(wal)
    /\ H4Passes =>
         \A a \in Ended : attempt[a].result = "ok" /\ attempt[a].end < injectedAt
                            => a \in Range(wal)

\* H-3's "writing stopped for at most 45 seconds": the measured stop is not
\* shorter than the time from the last answer of the old Primary to the first
\* of the new one, although answers of the old one still arrive after the kill.
\* It assumes that the old Primary was healthy: an attempt that fails before
\* the kill and one that succeeds after it, but before the kill too, would
\* together look like a short stop.
StopCoversOutage ==
  LET answered(on) == {attempt[a].end : a \in {b \in Ended :
                          attempt[b].result = "ok" /\ attempt[b].on = on}} IN
  recPc = "compared" /\ healthy =>
    \A stop \in WriteStop :
      /\ answered("new") # {}
      /\ answered("old") # {} => stop >= Min(answered("new")) - Max(answered("old"))

=============================================================================
