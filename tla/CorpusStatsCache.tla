-------------------------- MODULE CorpusStatsCache --------------------------
(***************************************************************************)
(* CorpusStatsCache.kt: the corpus statistics behind the BM25 ranking, kept  *)
(* by each server and shared by its search threads.  A lookup reads two      *)
(* volatile fields one after the other; when they are too old it enters a    *)
(* synchronized method, looks again, and scans the chunks with two           *)
(* statements, each of which sees what is committed before it.               *)
(***************************************************************************)
EXTENDS Integers, Sequences

CONSTANTS Searches,          \* search threads of a server
          NoSearch,          \* nobody holds the monitor
          REFRESH_INTERVAL,
          MaxChunks,         \* bound: rows of document_chunk
          MaxScans,          \* bound: scans begun
          MaxTime            \* bound: the clock

ASSUME StatsAssumption ==
    /\ NoSearch \notin Searches
    /\ REFRESH_INTERVAL \in Nat /\ MaxChunks \in Nat
    /\ MaxScans \in Nat /\ MaxTime \in Nat

VARIABLES
    cached, cachedAt,
    monitor,   \* who is inside refresh()
    place,     \* where each search is
    lookup,    \* its locals: when it began, what it had to expect, its snapshot
    fresh,     \* the statistics it computes in refresh()
    got,       \* the statistics its last lookup returned, and when that began
    clock,     \* Instant.now()
    scans,     \* scans begun
    writes,    \* scans that were written to the cache, and when
    newest     \* the latest scan any lookup has returned

statsVars == <<cached, cachedAt, monitor, place, lookup, fresh, got, clock,
               scans, writes, newest>>

\* df and total are what the two statements counted; scan numbers the scans.
EMPTY == [scan |-> 0, df |-> 0, total |-> 0]
EPOCH == -1
NoLookup == [began |-> 0, expects |-> 0, snapshot |-> EMPTY]
Nothing == [returned |-> FALSE, stats |-> EMPTY, began |-> 0, expects |-> 0]

StatsInit ==
    /\ cached = EMPTY /\ cachedAt = EPOCH
    /\ monitor = NoSearch
    /\ place = [s \in Searches |-> "idle"]
    /\ lookup = [s \in Searches |-> NoLookup]
    /\ fresh = [s \in Searches |-> EMPTY]
    /\ got = [s \in Searches |-> Nothing]
    /\ clock = 0 /\ scans = 0 /\ writes = <<>> /\ newest = 0

-----------------------------------------------------------------------------
Goes(s, to) == place' = [place EXCEPT ![s] = to]

Returns(s, stats) ==
    /\ Goes(s, "idle")
    /\ got' = [got EXCEPT ![s] = [returned |-> TRUE, stats |-> stats,
                        began |-> lookup[s].began, expects |-> lookup[s].expects]]
    /\ lookup' = [lookup EXCEPT ![s] = NoLookup]
    /\ fresh' = [fresh EXCEPT ![s] = EMPTY]
    /\ newest' = IF stats.scan > newest THEN stats.scan ELSE newest

UpToDate == cachedAt # EPOCH /\ clock - cachedAt < REFRESH_INTERVAL

\* val snapshot = cached
ReadCached(s) ==
    /\ place[s] = "idle"
    /\ lookup' = [lookup EXCEPT ![s] = [began |-> clock, expects |-> newest,
                                        snapshot |-> cached]]
    /\ got' = [got EXCEPT ![s] = Nothing]
    /\ Goes(s, "read")
    /\ UNCHANGED <<cached, cachedAt, monitor, fresh, clock, scans, writes, newest>>

\* The time belongs to whatever is cached now.
ReadCachedAt(s) ==
    /\ place[s] = "read"
    /\ IF UpToDate
       THEN Returns(s, lookup[s].snapshot)
       ELSE Goes(s, "expired") /\ UNCHANGED <<lookup, fresh, got, newest>>
    /\ UNCHANGED <<cached, cachedAt, monitor, clock, scans, writes>>

\* Mutant: refresh() is not synchronized.
MonitorIgnored == TRUE
MonitorFree == monitor = NoSearch

\* Mutant: no second look.
NoSecondLook == FALSE
RefreshedMeanwhile == UpToDate

\* refresh() is entered; it looks again, since others may have waited before.
EnterRefresh(s) ==
    /\ place[s] = "expired" /\ MonitorFree
    /\ IF RefreshedMeanwhile
       THEN Returns(s, cached) /\ UNCHANGED <<monitor, scans>>
       ELSE /\ scans < MaxScans
            /\ monitor' = s /\ scans' = scans + 1
            /\ fresh' = [fresh EXCEPT ![s] = [EMPTY EXCEPT !.scan = scans + 1]]
            /\ Goes(s, "words") /\ UNCHANGED <<lookup, got, newest>>
    /\ UNCHANGED <<cached, cachedAt, clock, writes>>

\* Workers index and delete documents all the time: each statement counts the
\* chunks that are committed when it begins.  Every chunk holds the word.
CountWords(s) ==
    /\ place[s] = "words"
    /\ \E chunks \in 0..MaxChunks : fresh' = [fresh EXCEPT ![s].df = chunks]
    /\ Goes(s, "size")
    /\ UNCHANGED <<cached, cachedAt, monitor, lookup, got, clock, scans, writes,
                   newest>>

CountChunks(s) ==
    /\ place[s] = "size"
    /\ \E chunks \in 0..MaxChunks : fresh' = [fresh EXCEPT ![s].total = chunks]
    /\ Goes(s, "counted")
    /\ UNCHANGED <<cached, cachedAt, monitor, lookup, got, clock, scans, writes,
                   newest>>

\* A statement that fails leaves refresh(), and fails the search.
ScanFails(s) ==
    /\ place[s] \in {"words", "size"}
    /\ monitor' = NoSearch
    /\ Goes(s, "idle")
    /\ lookup' = [lookup EXCEPT ![s] = NoLookup]
    /\ fresh' = [fresh EXCEPT ![s] = EMPTY]
    /\ UNCHANGED <<cached, cachedAt, got, clock, scans, writes, newest>>

WriteCached(s) ==
    /\ place[s] = "counted"
    /\ cached' = fresh[s]
    /\ Goes(s, "written")
    /\ UNCHANGED <<cachedAt, monitor, lookup, fresh, got, clock, scans, writes,
                   newest>>

WriteCachedAt(s) ==
    /\ place[s] = "written"
    /\ cachedAt' = clock
    /\ writes' = Append(writes, [scan |-> fresh[s].scan, at |-> clock])
    /\ monitor' = NoSearch
    /\ Returns(s, fresh[s])
    /\ UNCHANGED <<cached, clock, scans>>

Tick ==
    /\ clock < MaxTime /\ clock' = clock + 1
    /\ UNCHANGED <<cached, cachedAt, monitor, place, lookup, fresh, got, scans,
                   writes, newest>>

Step(s) ==
    \/ ReadCached(s) \/ ReadCachedAt(s) \/ EnterRefresh(s)
    \/ CountWords(s) \/ CountChunks(s) \/ ScanFails(s)
    \/ WriteCached(s) \/ WriteCachedAt(s)

StatsNext == Tick \/ \E s \in Searches : Step(s)
StatsSpec == StatsInit /\ [][StatsNext]_statsVars
-----------------------------------------------------------------------------
(* Whatever the threads of a server interleave, a lookup never returns older *)
(* statistics than one that had returned before it began: an overtaken       *)
(* refresh cannot put its scan over a later one.                             *)
StatsNeverGoBack ==
    \A s \in Searches : got[s].stats.scan >= got[s].expects

(* CorpusStatsCache.kt:40 (translated): it does not scan again if another     *)
(* thread refreshed while this one waited for the lock.  However many         *)
(* searches find the cache expired together, the scans they leave in it are   *)
(* REFRESH_INTERVAL apart.                                                   *)
ScansAreSpaced ==
    \A j, k \in DOMAIN writes :
      j < k => writes[k].at - writes[j].at >= REFRESH_INTERVAL

(* CorpusStatsCache.kt:16-18 (translated): the statistics are checked for    *)
(* expiry at each lookup, and refreshed.  So those a lookup returns were in   *)
(* the cache for less than REFRESH_INTERVAL when it began.                   *)
StatsAreCurrent ==
    \A s \in Searches :
      got[s].returned =>
        \E k \in DOMAIN writes :
          /\ writes[k].scan = got[s].stats.scan
          /\ got[s].began - writes[k].at < REFRESH_INTERVAL

(* CorpusStats.kt:20-21 (translated): the IDF of a common word does not drop  *)
(* below zero.  ln((total - df + 0.5) / (df + 0.5) + 1) is                   *)
(* ln((total + 1) / (df + 0.5)): not negative when df is at most total.      *)
IdfNotNegative ==
    \A s \in Searches : got[s].stats.df <= got[s].stats.total
=============================================================================
