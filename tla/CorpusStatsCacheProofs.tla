----------------------- MODULE CorpusStatsCacheProofs -----------------------
(***************************************************************************)
(* Proofs about the corpus statistics of a server, for any number of search  *)
(* threads, any interval and any corpus.                                     *)
(***************************************************************************)
EXTENDS CorpusStatsCache, TLAPS

Stages == {"idle", "read", "expired", "words", "size", "counted", "written"}
Stats == [scan : Nat, df : Nat, total : Nat]
Lookups == [began : Nat, expects : Nat, snapshot : Stats]
Gots == [returned : BOOLEAN, stats : Stats, began : Nat, expects : Nat]

StatsType ==
    /\ cached \in Stats /\ cachedAt \in Nat \cup {EPOCH}
    /\ place \in [Searches -> Stages]
    /\ lookup \in [Searches -> Lookups]
    /\ fresh \in [Searches -> Stats]
    /\ got \in [Searches -> Gots]
    /\ clock \in Nat /\ scans \in Nat /\ newest \in Nat
    /\ writes \in Seq([scan : Nat, at : Nat])

Scanning(s) == place[s] \in {"words", "size", "counted"}
Inside(s) == Scanning(s) \/ place[s] = "written"

\* One search at a time is inside refresh().
MonitorInv == \A s \in Searches : Inside(s) <=> monitor = s

\* Scans are numbered as they begin, and reach the cache in that order.
ScanInv ==
    /\ newest <= cached.scan /\ cached.scan <= scans
    /\ \A s \in Searches :
         /\ Scanning(s) => cached.scan < fresh[s].scan /\ fresh[s].scan <= scans
         /\ place[s] = "written" => cached = fresh[s]

\* What a lookup may return is as new as what it had to expect.
LookupInv ==
    \A s \in Searches :
      place[s] # "idle" =>
        /\ lookup[s].expects <= lookup[s].snapshot.scan
        /\ lookup[s].snapshot.scan <= cached.scan

\* Whoever scans has found the last write an interval old.
TimeInv ==
    /\ cachedAt # EPOCH => cachedAt <= clock
    /\ \A k \in DOMAIN writes : cachedAt # EPOCH /\ writes[k].at <= cachedAt
    /\ \A s \in Searches :
         Inside(s) /\ cachedAt # EPOCH => clock - cachedAt >= REFRESH_INTERVAL

SInv == /\ StatsType /\ MonitorInv /\ ScanInv /\ LookupInv /\ TimeInv
        /\ StatsNeverGoBack /\ ScansAreSpaced

LEMMA StatsFacts ==
  /\ NoSearch \notin Searches
  /\ REFRESH_INTERVAL \in Nat /\ MaxChunks \in Nat
  /\ MaxScans \in Nat /\ MaxTime \in Nat
BY StatsAssumption DEF StatsAssumption

LEMMA TypeFacts ==
  ASSUME StatsType
  PROVE  /\ cached \in Stats /\ cached.scan \in Nat
         /\ cachedAt # EPOCH => cachedAt \in Nat
         /\ clock \in Nat /\ scans \in Nat /\ newest \in Nat
         /\ \A s \in Searches :
              /\ place[s] \in Stages
              /\ lookup[s] \in Lookups /\ lookup[s].began \in Nat
              /\ lookup[s].expects \in Nat
              /\ lookup[s].snapshot \in Stats /\ lookup[s].snapshot.scan \in Nat
              /\ fresh[s] \in Stats /\ fresh[s].scan \in Nat
         /\ \A k \in DOMAIN writes : writes[k].at \in Nat
<1>1. \A k \in DOMAIN writes : writes[k] \in [scan : Nat, at : Nat]
  <2> DEFINE W == [scan : Nat, at : Nat]
  <2>1. writes \in Seq(W)
    BY DEF StatsType
  <2> HIDE DEF W
  <2>2. \A k \in DOMAIN writes : writes[k] \in W
    BY <2>1
  <2> QED BY <2>2 DEF W
<1>2. \A s \in Searches : lookup[s] \in Lookups /\ fresh[s] \in Stats /\ place[s] \in Stages
  BY DEF StatsType
<1>3. \A s \in Searches : lookup[s].snapshot \in Stats
  BY <1>2 DEF Lookups
<1> QED BY <1>1, <1>2, <1>3 DEF StatsType, Lookups, Stats

LEMMA StatsInitInv == StatsInit => SInv
BY StatsFacts DEF StatsInit, SInv, StatsType, MonitorInv, ScanInv, LookupInv, TimeInv,
   StatsNeverGoBack, ScansAreSpaced, Stats, Lookups, Gots, Stages, Inside, Scanning,
   EMPTY, EPOCH, NoLookup, Nothing

\* A lookup returns statistics that are as new as it expects and no newer than
\* the cache.
LEMMA ReturnFacts ==
  ASSUME SInv, NEW s \in Searches, NEW stats \in Stats, Returns(s, stats),
         lookup[s].expects <= stats.scan
  PROVE  /\ place' = [place EXCEPT ![s] = "idle"]
         /\ lookup' \in [Searches -> Lookups] /\ fresh' \in [Searches -> Stats]
         /\ got' \in [Searches -> Gots] /\ newest' \in Nat
         /\ newest' = newest \/ newest' = stats.scan
         /\ \A o \in Searches \ {s} : lookup'[o] = lookup[o] /\ fresh'[o] = fresh[o]
         /\ StatsNeverGoBack'
BY DEF SInv, StatsType, Returns, Goes, StatsNeverGoBack, Stats, Lookups, Gots, EMPTY, NoLookup

LEMMA ReadCachedInv ==
  ASSUME SInv, NEW s \in Searches, ReadCached(s) PROVE SInv'
<1>1. StatsType'
  <2>1. [began |-> clock, expects |-> newest, snapshot |-> cached] \in Lookups
    BY TypeFacts DEF SInv, Lookups
  <2>2. Nothing \in Gots
    BY DEF Nothing, Gots, EMPTY, Stats
  <2> QED BY <2>1, <2>2 DEF SInv, StatsType, ReadCached, Goes, Stages
<1>4. StatsNeverGoBack' /\ ScansAreSpaced'
  BY DEF SInv, StatsType, ReadCached, StatsNeverGoBack, ScansAreSpaced, Nothing, EMPTY
<1>2. MonitorInv' /\ TimeInv' /\ ScanInv'
  BY DEF SInv, StatsType, ReadCached, Goes, MonitorInv, TimeInv, ScanInv, Inside, Scanning
<1>3. LookupInv'
  <2>1. lookup' = [lookup EXCEPT ![s] = [began |-> clock, expects |-> newest,
                                         snapshot |-> cached]]
        /\ place' = [place EXCEPT ![s] = "read"] /\ cached' = cached
    BY DEF ReadCached, Goes
  <2>2. DOMAIN lookup = Searches /\ DOMAIN place = Searches
    BY DEF SInv, StatsType
  <2>3. newest <= cached.scan /\ cached.scan \in Nat
    BY TypeFacts DEF SInv, ScanInv
  <2> QED BY <2>1, <2>2, <2>3 DEF SInv, LookupInv
<1> QED BY <1>1, <1>2, <1>3, <1>4 DEF SInv

\* A return outside refresh().
LEMMA ReturnOutside ==
  ASSUME SInv, NEW s \in Searches, ~Inside(s), NEW stats \in Stats, Returns(s, stats),
         lookup[s].expects <= stats.scan, stats.scan <= cached.scan,
         UNCHANGED <<cached, cachedAt, monitor, clock, scans, writes>>
  PROVE  SInv'
<1>1. StatsType' /\ StatsNeverGoBack' /\ ScansAreSpaced'
  BY ReturnFacts DEF SInv, StatsType, ScansAreSpaced, Stages
<1>2. MonitorInv' /\ TimeInv'
  BY ReturnFacts DEF SInv, StatsType, MonitorInv, TimeInv, Inside, Scanning
<1>3. ScanInv' /\ LookupInv'
  BY ReturnFacts DEF SInv, StatsType, ScanInv, LookupInv, Scanning
<1> QED BY <1>1, <1>2, <1>3 DEF SInv

LEMMA ReadCachedAtInv ==
  ASSUME SInv, NEW s \in Searches, ReadCachedAt(s) PROVE SInv'
<1>1. CASE UpToDate
  <2>1. /\ ~Inside(s) /\ lookup[s].snapshot \in Stats
        /\ lookup[s].expects <= lookup[s].snapshot.scan
        /\ lookup[s].snapshot.scan <= cached.scan
    BY DEF SInv, StatsType, ReadCachedAt, Inside, Scanning, LookupInv, Lookups
  <2> QED BY <1>1, <2>1, ReturnOutside DEF ReadCachedAt
<1>2. CASE ~UpToDate
  <2>1. StatsType' /\ StatsNeverGoBack' /\ ScansAreSpaced'
    BY <1>2 DEF SInv, StatsType, ReadCachedAt, Goes, StatsNeverGoBack, ScansAreSpaced, Stages
  <2>2. MonitorInv' /\ TimeInv' /\ ScanInv' /\ LookupInv'
    BY <1>2 DEF SInv, StatsType, ReadCachedAt, Goes, MonitorInv, TimeInv, ScanInv, LookupInv,
       Inside, Scanning
  <2> QED BY <2>1, <2>2 DEF SInv
<1> QED BY <1>1, <1>2

\* The second look is made by the only one inside: what it finds stays.
LEMMA EnterRefreshInv ==
  ASSUME SInv, NEW s \in Searches, EnterRefresh(s) PROVE SInv'
<1>1. ~Inside(s) /\ monitor = NoSearch /\ \A o \in Searches : ~Inside(o)
  BY StatsFacts DEF SInv, StatsType, EnterRefresh, MonitorFree, MonitorInv, Inside, Scanning
<1>2. CASE UpToDate
  <2>1. cached \in Stats /\ cached.scan \in Nat /\ lookup[s].expects <= cached.scan
    BY TypeFacts DEF SInv, EnterRefresh, LookupInv
  <2> QED BY <1>1, <1>2, <2>1, ReturnOutside DEF EnterRefresh, RefreshedMeanwhile
<1>3. CASE ~UpToDate
  <2>1. /\ monitor' = s /\ scans' = scans + 1
        /\ fresh' = [fresh EXCEPT ![s] = [EMPTY EXCEPT !.scan = scans + 1]]
        /\ place' = [place EXCEPT ![s] = "words"]
        /\ UNCHANGED <<lookup, got, newest, cached, cachedAt, clock, writes>>
    BY <1>3 DEF EnterRefresh, RefreshedMeanwhile, Goes
  <2>2. StatsType' /\ StatsNeverGoBack' /\ ScansAreSpaced'
    <3>1. [EMPTY EXCEPT !.scan = scans + 1] \in Stats
      BY TypeFacts DEF SInv, EMPTY, Stats
    <3> QED BY <2>1, <3>1 DEF SInv, StatsType, StatsNeverGoBack, ScansAreSpaced, Stages
  <2>3. MonitorInv' /\ LookupInv'
    BY <1>1, <2>1 DEF SInv, StatsType, MonitorInv, LookupInv, Inside, Scanning, EnterRefresh
  <2>4. ScanInv'
    BY <1>1, <2>1 DEF SInv, StatsType, ScanInv, Inside, Scanning, Stats, EMPTY
  <2>5. TimeInv'
    BY <1>1, <1>3, <2>1, StatsFacts
    DEF SInv, StatsType, TimeInv, Inside, Scanning, UpToDate, EPOCH
  <2> QED BY <2>2, <2>3, <2>4, <2>5 DEF SInv
<1> QED BY <1>2, <1>3

\* A scan changes nothing but its own counts.
LEMMA CountInv ==
  ASSUME SInv, NEW s \in Searches, CountWords(s) \/ CountChunks(s) PROVE SInv'
<1>1. PICK counts \in Stats :
        /\ Scanning(s) /\ counts.scan = fresh[s].scan
        /\ fresh' = [fresh EXCEPT ![s] = counts]
        /\ place' \in {[place EXCEPT ![s] = "size"], [place EXCEPT ![s] = "counted"]}
  <2>1. CASE CountWords(s)
    <3>1. PICK chunks \in 0..MaxChunks : fresh' = [fresh EXCEPT ![s].df = chunks]
      BY <2>1 DEF CountWords
    <3>2. [fresh[s] EXCEPT !.df = chunks] \in Stats
          /\ [fresh[s] EXCEPT !.df = chunks].scan = fresh[s].scan
      BY StatsFacts, TypeFacts DEF SInv, Stats
    <3>3. fresh' = [fresh EXCEPT ![s] = [fresh[s] EXCEPT !.df = chunks]]
      BY <3>1 DEF SInv, StatsType
    <3> QED BY <2>1, <3>2, <3>3 DEF CountWords, Goes, Scanning
  <2>2. CASE CountChunks(s)
    <3>1. PICK chunks \in 0..MaxChunks : fresh' = [fresh EXCEPT ![s].total = chunks]
      BY <2>2 DEF CountChunks
    <3>2. [fresh[s] EXCEPT !.total = chunks] \in Stats
          /\ [fresh[s] EXCEPT !.total = chunks].scan = fresh[s].scan
      BY StatsFacts, TypeFacts DEF SInv, Stats
    <3>3. fresh' = [fresh EXCEPT ![s] = [fresh[s] EXCEPT !.total = chunks]]
      BY <3>1 DEF SInv, StatsType
    <3> QED BY <2>2, <3>2, <3>3 DEF CountChunks, Goes, Scanning
  <2> QED BY <2>1, <2>2
<1>2. UNCHANGED <<cached, cachedAt, monitor, lookup, got, clock, scans, writes, newest>>
  BY DEF CountWords, CountChunks
<1>3. StatsType' /\ StatsNeverGoBack' /\ ScansAreSpaced'
  BY <1>1, <1>2 DEF SInv, StatsType, StatsNeverGoBack, ScansAreSpaced, Stages
<1>4. MonitorInv' /\ TimeInv' /\ LookupInv'
  BY <1>1, <1>2 DEF SInv, StatsType, MonitorInv, TimeInv, LookupInv, Inside, Scanning
<1>5. ScanInv'
  BY <1>1, <1>2 DEF SInv, StatsType, ScanInv, Scanning
<1> QED BY <1>3, <1>4, <1>5 DEF SInv

LEMMA ScanFailsInv ==
  ASSUME SInv, NEW s \in Searches, ScanFails(s) PROVE SInv'
<1>1. StatsType' /\ StatsNeverGoBack' /\ ScansAreSpaced'
  BY DEF SInv, StatsType, ScanFails, Goes, StatsNeverGoBack, ScansAreSpaced, Stages, Stats,
     Lookups, NoLookup, EMPTY
<1>2. MonitorInv' /\ TimeInv'
  BY StatsFacts DEF SInv, StatsType, ScanFails, Goes, MonitorInv, TimeInv, Inside, Scanning
<1>3. ScanInv' /\ LookupInv'
  BY DEF SInv, StatsType, ScanFails, Goes, ScanInv, LookupInv, Scanning
<1> QED BY <1>1, <1>2, <1>3 DEF SInv

\* Nobody else scans, so nobody's later scan is replaced.
LEMMA WriteCachedInv ==
  ASSUME SInv, NEW s \in Searches, WriteCached(s) PROVE SInv'
<1>1. /\ Inside(s) /\ fresh[s] \in Stats /\ cached.scan \in Nat /\ newest \in Nat
      /\ cached.scan < fresh[s].scan /\ fresh[s].scan <= scans
      /\ \A o \in Searches \ {s} : ~Inside(o)
  BY DEF SInv, StatsType, WriteCached, ScanInv, MonitorInv, Inside, Scanning, Stats
<1>2. StatsType' /\ StatsNeverGoBack' /\ ScansAreSpaced'
  BY DEF SInv, StatsType, WriteCached, Goes, StatsNeverGoBack, ScansAreSpaced, Stages
<1>3. MonitorInv' /\ TimeInv'
  BY DEF SInv, StatsType, WriteCached, Goes, MonitorInv, TimeInv, Inside, Scanning
<1>4. ScanInv'
  BY <1>1 DEF SInv, StatsType, WriteCached, Goes, ScanInv, Inside, Scanning, Stats
<1>5. LookupInv'
  <2>1. cached' = fresh[s] /\ lookup' = lookup /\ place' = [place EXCEPT ![s] = "written"]
        /\ DOMAIN place = Searches /\ place[s] = "counted"
    BY DEF SInv, StatsType, WriteCached, Goes
  <2>2. \A o \in Searches : lookup[o].snapshot.scan \in Nat
    BY TypeFacts DEF SInv
  <2>3. fresh[s].scan \in Nat
    BY TypeFacts DEF SInv
  <2> QED BY <1>1, <2>1, <2>2, <2>3 DEF SInv, LookupInv
<1> QED BY <1>2, <1>3, <1>4, <1>5 DEF SInv

LEMMA WriteCachedAtInv ==
  ASSUME SInv, NEW s \in Searches, WriteCachedAt(s) PROVE SInv'
<1>1. /\ Inside(s) /\ cached = fresh[s] /\ fresh[s] \in Stats /\ cached.scan \in Nat
      /\ lookup[s].expects <= fresh[s].scan
      /\ \A o \in Searches \ {s} : ~Inside(o)
  <2>1. place[s] = "written" /\ cached = fresh[s]
    BY DEF SInv, WriteCachedAt, ScanInv
  <2>2. fresh[s] \in Stats /\ cached.scan \in Nat /\ lookup[s].expects <= fresh[s].scan
    BY <2>1, TypeFacts DEF SInv, LookupInv
  <2>3. \A o \in Searches \ {s} : ~Inside(o)
    BY <2>1 DEF SInv, MonitorInv, Inside, Scanning
  <2> QED BY <2>1, <2>2, <2>3 DEF Inside
<1>2. /\ Returns(s, fresh[s]) /\ cachedAt' = clock /\ monitor' = NoSearch
      /\ writes' = Append(writes, [scan |-> fresh[s].scan, at |-> clock])
      /\ UNCHANGED <<cached, clock, scans>>
  BY DEF WriteCachedAt
<1>3. StatsType' /\ StatsNeverGoBack'
  <2>1. [scan |-> fresh[s].scan, at |-> clock] \in [scan : Nat, at : Nat]
    BY <1>1 DEF SInv, StatsType, Stats
  <2> QED BY <1>1, <1>2, <2>1, ReturnFacts DEF SInv, StatsType, Stages
<1>4. MonitorInv'
  BY <1>1, <1>2, ReturnFacts, StatsFacts DEF SInv, StatsType, MonitorInv, Inside, Scanning
<1>10. /\ place' = [place EXCEPT ![s] = "idle"] /\ DOMAIN place = Searches
       /\ newest' = newest \/ newest' = fresh[s].scan
       /\ \A o \in Searches \ {s} : lookup'[o] = lookup[o] /\ fresh'[o] = fresh[o]
  BY <1>1, <1>2, ReturnFacts DEF SInv, StatsType
<1>11. \A o \in Searches : ~Inside(o)'
  BY <1>1, <1>10 DEF Inside, Scanning
<1>5. ScanInv' /\ LookupInv'
  <2>1. ScanInv'
    BY <1>1, <1>2, <1>10, <1>11, TypeFacts DEF SInv, ScanInv, Inside
  <2>2. LookupInv'
    BY <1>2, <1>10 DEF SInv, LookupInv
  <2> QED BY <2>1, <2>2
<1>6. /\ writes \in Seq([scan : Nat, at : Nat]) /\ clock \in Nat
      /\ \A k \in DOMAIN writes :
           writes[k].at \in Nat /\ writes[k].at <= clock
           /\ clock - writes[k].at >= REFRESH_INTERVAL
  <2>1. writes \in Seq([scan : Nat, at : Nat]) /\ clock \in Nat
    BY DEF SInv, StatsType
  <2> SUFFICES ASSUME NEW k \in DOMAIN writes
               PROVE  writes[k].at \in Nat /\ writes[k].at <= clock
                      /\ clock - writes[k].at >= REFRESH_INTERVAL
    BY <2>1
  <2>2. /\ cachedAt # EPOCH /\ writes[k].at <= cachedAt /\ cachedAt <= clock
        /\ clock - cachedAt >= REFRESH_INTERVAL
    BY <1>1 DEF SInv, TimeInv
  <2>3. writes[k].at \in Nat /\ cachedAt \in Nat
    BY <2>2, TypeFacts DEF SInv
  <2> QED BY <2>1, <2>2, <2>3, StatsFacts
<1>7. /\ DOMAIN writes' = 1..(Len(writes) + 1) /\ DOMAIN writes = 1..Len(writes)
      /\ \A k \in DOMAIN writes : writes'[k] = writes[k] /\ writes[k].at \in Nat
      /\ writes'[Len(writes) + 1].at = clock
  <2> DEFINE entry == [scan |-> fresh[s].scan, at |-> clock]
  <2>1. entry \in [scan : Nat, at : Nat] /\ entry.at = clock
    BY <1>6, TypeFacts DEF SInv
  <2>2. writes' = Append(writes, entry)
    BY <1>2
  <2> HIDE DEF entry
  <2> QED BY <1>6, <2>1, <2>2
<1>8. TimeInv'
  <2>1. cachedAt' = clock /\ clock' = clock /\ clock # EPOCH
    BY <1>2, <1>6 DEF EPOCH
  <2>2. \A k \in DOMAIN writes' : writes'[k].at <= clock
    BY <1>6, <1>7
  <2> QED BY <1>6, <1>11, <2>1, <2>2 DEF TimeInv
<1>9. ScansAreSpaced'
  <2> SUFFICES ASSUME NEW j \in DOMAIN writes', NEW k \in DOMAIN writes', j < k
               PROVE  writes'[k].at - writes'[j].at >= REFRESH_INTERVAL
    BY DEF ScansAreSpaced
  <2>1. j \in DOMAIN writes /\ writes'[j] = writes[j]
    BY <1>6, <1>7
  <2>2. CASE k \in DOMAIN writes
    BY <1>7, <2>1, <2>2 DEF SInv, ScansAreSpaced
  <2>3. CASE k = Len(writes) + 1
    BY <1>6, <1>7, <2>1, <2>3
  <2> QED BY <1>7, <2>2, <2>3
<1> QED BY <1>3, <1>4, <1>5, <1>8, <1>9 DEF SInv

LEMMA TickInv ==
  ASSUME SInv, Tick PROVE SInv'
BY StatsFacts DEF SInv, StatsType, Tick, MonitorInv, ScanInv, LookupInv, TimeInv,
   StatsNeverGoBack, ScansAreSpaced, Inside, Scanning, EPOCH

LEMMA StatsStutter ==
  ASSUME SInv, UNCHANGED statsVars PROVE SInv'
BY DEF SInv, StatsType, statsVars, MonitorInv, ScanInv, LookupInv, TimeInv,
   StatsNeverGoBack, ScansAreSpaced, Inside, Scanning

LEMMA StatsStep == SInv /\ [StatsNext]_statsVars => SInv'
<1> SUFFICES ASSUME SInv, [StatsNext]_statsVars PROVE SInv'
  OBVIOUS
<1>1. CASE Tick
  BY <1>1, TickInv
<1>2. ASSUME NEW s \in Searches, Step(s) PROVE SInv'
  BY <1>2, ReadCachedInv, ReadCachedAtInv, EnterRefreshInv, CountInv, ScanFailsInv,
     WriteCachedInv, WriteCachedAtInv DEF Step
<1>3. CASE UNCHANGED statsVars
  BY <1>3, StatsStutter
<1> QED BY <1>1, <1>2, <1>3 DEF StatsNext

LEMMA StatsInvariant == StatsSpec => []SInv
BY StatsInitInv, StatsStep, PTL DEF StatsSpec

(* However many threads look up and refresh, a lookup never returns older     *)
(* statistics than one that had returned before it began.                    *)
THEOREM StatisticsOnlyAdvance == StatsSpec => []StatsNeverGoBack
<1>1. SInv => StatsNeverGoBack
  BY DEF SInv
<1> QED BY <1>1, StatsInvariant, PTL

(* The scans that reach the cache are REFRESH_INTERVAL apart.                *)
THEOREM OneScanPerInterval == StatsSpec => []ScansAreSpaced
<1>1. SInv => ScansAreSpaced
  BY DEF SInv
<1> QED BY <1>1, StatsInvariant, PTL
=============================================================================
