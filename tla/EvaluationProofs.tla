-------------------------- MODULE EvaluationProofs --------------------------
(***************************************************************************)
(* Proofs about rerank_ab.py, its rate limiter and the service behind the   *)
(* server (RerankAb), for any limits, windows, delays and number of          *)
(* questions; about build_qa_set.py (QaSet), for any sample and any number   *)
(* of threads; and about their pure functions (EvalMetrics), for any input.  *)
(***************************************************************************)
EXTENDS RerankAb, QaSet, EvalMetrics, SequenceTheorems, FiniteSetTheorems,
        FunctionTheorems, TLAPS

\* The clock, the log and the deque: what has left the deque is a window older
\* than the newest entry.
LimiterType ==
    /\ now \in Int /\ log \in Seq(Int) /\ head \in Nat \ {0}
    /\ head <= Len(log) + 1

LimiterInv ==
    /\ Len(log) - head + 1 <= Limit
    /\ \A k \in DOMAIN log : log[k] <= now
    /\ \A j, k \in DOMAIN log : j <= k => log[j] <= log[k]
    /\ \A k \in 1..(head - 1) : log[Len(log)] - log[k] >= Window

LInv == LimiterType /\ LimiterInv /\ WindowRespected

LEMMA LimitFacts ==
  /\ Limit \in Nat /\ Limit >= 1 /\ Window \in Nat /\ MaxLatency \in Nat
  /\ ServiceLimit \in Nat /\ ServiceWindow \in Nat
  /\ Limit < ServiceLimit /\ ServiceWindow <= Window
BY RerankAssumption DEF RerankAssumption

LEMMA LimiterInit == AbInit => LInv
BY LimitFacts DEF AbInit, LInv, LimiterType, LimiterInv, WindowRespected

\* Every step but acquire() leaves the log alone, and time does not run back.
LEMMA LimiterKept ==
  ASSUME LInv, UNCHANGED limiter, now' \in Int, now <= now'
  PROVE  LInv'
BY DEF LInv, LimiterType, LimiterInv, WindowRespected, limiter

LEMMA SearchTime ==
  ASSUME NEW q, NEW d \in 0..MaxLatency, NEW asked, NEW answer,
         now \in Int, Search(q, d, asked, answer)
  PROVE  now' \in Int /\ now <= now'
<1>1. now' = now + d
  BY DEF Search
<1> QED BY <1>1, LimitFacts

LEMMA LimiterAcquire ==
  ASSUME LInv, Acquire PROVE LInv'
<1> USE LimitFacts
<1> DEFINE n == Len(log)
<1>1. PICK h \in head..(n + 1), late \in 0..MaxLatency :
        LET age    == now - log[h]
            waited == IF Full(h) /\ age < Window THEN Window - age ELSE 0
        IN  /\ StartsAt(h)
            /\ now' = now + waited + late
            /\ head' = IF Full(h) THEN h + 1 ELSE h
            /\ log' = Append(log, now')
  BY DEF Acquire
<1>2. /\ now \in Int /\ log \in Seq(Int) /\ head \in Nat \ {0} /\ head <= n + 1
      /\ n \in Nat /\ h \in Nat /\ h >= head /\ h <= n + 1 /\ late \in Nat /\ h # 0
  BY DEF LInv, LimiterType
<1>3. Full(h) => h <= n
  BY <1>2 DEF Full
<1>4. /\ now' \in Int /\ now <= now'
      /\ Full(h) => now' - log[h] >= Window
  <2>1. Full(h) => h \in DOMAIN log /\ log[h] \in Int
    BY <1>2, <1>3
  <2>2. CASE ~Full(h)
    BY <1>1, <1>2, <2>2
  <2>3. CASE Full(h) /\ now - log[h] < Window
    BY <1>1, <1>2, <2>1, <2>3
  <2>4. CASE Full(h) /\ ~(now - log[h] < Window)
    BY <1>1, <1>2, <2>1, <2>4
  <2> QED BY <2>2, <2>3, <2>4
<1>5. /\ log' = Append(log, now') /\ log' \in Seq(Int) /\ Len(log') = n + 1
      /\ log'[n + 1] = now'
      /\ \A k \in 1..n : log'[k] = log[k]
  BY <1>1, <1>2, <1>4
<1>6. \A k \in DOMAIN log : log[k] \in Int /\ log[k] <= now /\ log[k] <= now'
  BY <1>2, <1>4 DEF LInv, LimiterInv
<1>7. LimiterType'
  BY <1>1, <1>2, <1>3, <1>4, <1>5 DEF LimiterType
<1>8. \A k \in 1..(head' - 1) : k \in 1..n /\ now' - log[k] >= Window
  <2> TAKE k \in 1..(head' - 1)
  <2>1. k \in 1..n /\ log[k] \in Int
    BY <1>1, <1>2, <1>3, <1>6
  <2>2. CASE k < head
    <3>1. log[n] - log[k] >= Window /\ n \in DOMAIN log
      BY <1>2, <2>1, <2>2 DEF LInv, LimiterInv
    <3> QED BY <3>1, <2>1, <1>6, <1>2, <1>4
  <2>3. CASE k >= head /\ k < h
    <3>1. now - log[k] > Window
      BY <1>1, <1>2, <2>1, <2>3 DEF StartsAt
    <3> QED BY <3>1, <2>1, <1>2, <1>4
  <2>4. CASE k = h
    BY <2>4, <2>1, <1>1, <1>2, <1>4
  <2>5. k <= h
    BY <1>1, <1>2
  <2> QED BY <1>2, <2>1, <2>2, <2>3, <2>4, <2>5
<1>9. LimiterInv'
  <2>1. Len(log') - head' + 1 <= Limit
    <3>1. n - head + 1 <= Limit
      BY DEF LInv, LimiterInv
    <3> QED BY <3>1, <1>1, <1>2, <1>5 DEF Full
  <2>2. \A k \in DOMAIN log' : log'[k] <= now'
    BY <1>2, <1>4, <1>5, <1>6
  <2>3. \A j, k \in DOMAIN log' : j <= k => log'[j] <= log'[k]
    <3>1. \A j, k \in DOMAIN log : j <= k => log[j] <= log[k]
      BY DEF LInv, LimiterInv
    <3> QED BY <3>1, <1>2, <1>4, <1>5, <1>6
  <2>4. \A k \in 1..(head' - 1) : log'[Len(log')] - log'[k] >= Window
    BY <1>2, <1>5, <1>8
  <2> QED BY <2>1, <2>2, <2>3, <2>4 DEF LimiterInv
<1>10. WindowRespected'
  <2> SUFFICES ASSUME NEW k \in DOMAIN log', k + Limit \in DOMAIN log'
               PROVE  log'[k + Limit] - log'[k] >= Window
    BY DEF WindowRespected
  <2>1. CASE k + Limit \in 1..n
    BY <2>1, <1>2, <1>5 DEF LInv, WindowRespected
  <2>2. CASE k + Limit = n + 1
    <3>1. k \in 1..(head' - 1)
      BY <2>2, <1>2, <1>5, <1>7, <1>9 DEF LimiterInv, LimiterType
    <3> QED BY <3>1, <2>2, <1>2, <1>5, <1>8
  <2> QED BY <2>1, <2>2, <1>2, <1>5
<1> QED BY <1>7, <1>9, <1>10 DEF LInv

LEMMA LimiterStep == LInv /\ [AbNext]_abVars => LInv'
<1> SUFFICES ASSUME LInv, [AbNext]_abVars PROVE LInv'
  OBVIOUS
<1>1. now \in Int
  BY DEF LInv, LimiterType
<1>2. CASE Warmup
  <2>1. now' \in Int /\ now <= now' /\ UNCHANGED limiter
    <3>1. 0 \in 0..MaxLatency
      BY LimitFacts
    <3>2. CASE UNCHANGED <<server, now, warm>>
      BY <1>1, <1>2, <3>2 DEF Warmup
    <3>3. CASE \E answer \in Answers : Search(at, 0, FALSE, answer)
      BY <1>1, <1>2, <3>1, <3>3, SearchTime DEF Warmup
    <3> QED BY <1>2, <3>2, <3>3 DEF Warmup
  <2> QED BY <2>1, LimiterKept
<1>3. CASE SearchOff
  <2>1. now' \in Int /\ now <= now' /\ UNCHANGED limiter
    BY <1>1, <1>3, SearchTime DEF SearchOff
  <2> QED BY <2>1, LimiterKept
<1>4. CASE Acquire
  BY <1>4, LimiterAcquire
<1>5. CASE SearchOn
  <2>1. now' \in Int /\ now <= now' /\ UNCHANGED limiter
    BY <1>1, <1>5, SearchTime DEF SearchOn
  <2> QED BY <2>1, LimiterKept
<1>6. CASE Abort \/ UNCHANGED abVars
  <2>1. now' \in Int /\ now <= now' /\ UNCHANGED limiter
    BY <1>1, <1>6 DEF Abort, abVars
  <2> QED BY <2>1, LimiterKept
<1> QED BY <1>2, <1>3, <1>4, <1>5, <1>6 DEF AbNext

(* RateLimiter: for any limit, window and delays, a request and the one      *)
(* Limit requests later are at least a window apart.                        *)
THEOREM LimiterIsCorrect == AbSpec => []WindowRespected
<1>1. LInv => WindowRespected
  BY DEF LInv
<1> QED BY <1>1, LimiterInit, LimiterStep, PTL DEF AbSpec
-----------------------------------------------------------------------------
(* With reranking off by default, each call of the service has an entry of    *)
(* the log of its own, its slot, that was noted before the call left: the     *)
(* call comes before the next entry is noted.  An on-arm search without a     *)
(* candidate uses up an entry without a call.                                *)
Pending == IF abPc = "on" THEN 1 ELSE 0

ServedBy(slot) ==
    /\ slot \in [DOMAIN arrivals -> DOMAIN log]
    /\ \A k \in DOMAIN arrivals :
         /\ slot[k] + Pending <= Len(log)
         /\ slot[k] + 1 \in DOMAIN log => arrivals[k] <= log[slot[k] + 1]
    /\ \A j, k \in DOMAIN arrivals : j < k => slot[j] + (k - j) <= slot[k]

ServedInv ==
    ~byDefault =>
      /\ arrivals \in Seq(Int) /\ throttled = FALSE
      /\ \A k \in DOMAIN arrivals : arrivals[k] <= now
      /\ Pending <= Len(log)
      /\ \E slot : ServedBy(slot)

LEMMA ServedInit == AbInit => ServedInv
<1> SUFFICES ASSUME AbInit PROVE ServedInv
  OBVIOUS
<1>1. arrivals = <<>> /\ arrivals \in Seq(Int) /\ DOMAIN arrivals = {} /\ throttled = FALSE
  BY EmptySeq DEF AbInit
<1>2. ServedBy([k \in {} |-> 1])
  BY <1>1 DEF ServedBy
<1>3. Pending <= Len(log)
  BY DEF AbInit, Pending
<1> QED BY <1>1, <1>2, <1>3 DEF ServedInv

\* The call of an on-arm search comes at most ServiceLimit - 1 calls after one
\* that is a window older.
LEMMA NotOver ==
  ASSUME LInv, ServedInv, ~byDefault, abPc = "on",
         NEW t \in Int, now <= t
  PROVE  ~OverLimit(t)
<1>1. /\ arrivals \in Seq(Int) /\ log \in Seq(Int) /\ now \in Int
      /\ Len(log) \in Nat /\ Len(arrivals) \in Nat
      /\ DOMAIN log = 1..Len(log) /\ DOMAIN arrivals = 1..Len(arrivals)
  BY DEF ServedInv, LInv, LimiterType
<1>2. SUFFICES ASSUME Len(arrivals) >= ServiceLimit,
                      t - arrivals[Len(arrivals) - ServiceLimit + 1] < ServiceWindow
               PROVE  FALSE
  BY DEF OverLimit
<1>3. PICK k \in Nat : k = Len(arrivals) - ServiceLimit + 1
  <2>1. Len(arrivals) - ServiceLimit + 1 \in Nat
    BY <1>1, <1>2, LimitFacts
  <2> QED BY <2>1
<1>4. PICK slot : ServedBy(slot)
  BY DEF ServedInv
<1>5. k \in DOMAIN arrivals /\ Len(arrivals) \in DOMAIN arrivals /\ k < Len(arrivals)
  BY <1>1, <1>2, <1>3, LimitFacts
<1>6. /\ slot[k] \in DOMAIN log /\ slot[Len(arrivals)] \in DOMAIN log
      /\ slot[k] + (Len(arrivals) - k) <= slot[Len(arrivals)]
      /\ slot[Len(arrivals)] + 1 <= Len(log)
      /\ slot[k] + 1 \in DOMAIN log => arrivals[k] <= log[slot[k] + 1]
  BY <1>4, <1>5 DEF ServedBy, Pending
<1>7. slot[k] + 1 \in DOMAIN log /\ slot[k] + 1 + Limit \in DOMAIN log
  <2>1. slot[k] \in Nat /\ slot[Len(arrivals)] \in Nat
    BY <1>1, <1>6
  <2>2. Len(arrivals) - k = ServiceLimit - 1 /\ Limit <= ServiceLimit - 1
    BY <1>1, <1>3, LimitFacts
  <2>3. slot[k] + (ServiceLimit - 1) + 1 <= Len(log)
    <3>1. slot[k] + (ServiceLimit - 1) <= slot[Len(arrivals)]
      BY <2>2, <1>6
    <3>2. slot[Len(arrivals)] + 1 <= Len(log)
      BY <1>6
    <3> QED BY <2>1, <3>1, <3>2, <1>1, LimitFacts
  <2>4. slot[k] + 1 + Limit <= Len(log)
    BY <2>1, <2>2, <2>3, <1>1, LimitFacts
  <2> QED BY <2>1, <2>4, <1>1, LimitFacts
<1>8. PICK i \in DOMAIN log : i = slot[k] + 1
  BY <1>7
<1>9. arrivals[k] <= log[i]
  BY <1>6, <1>8
<1>10. log[i + Limit] - log[i] >= Window
  BY <1>7, <1>8 DEF LInv, WindowRespected
<1>11. i + Limit \in DOMAIN log /\ log[i + Limit] <= now
  BY <1>7, <1>8 DEF LInv, LimiterInv
<1>12. arrivals[k] \in Int /\ log[i] \in Int /\ log[i + Limit] \in Int
  BY <1>1, <1>5, <1>11
<1>13. t - arrivals[k] < ServiceWindow
  BY <1>2, <1>3
<1>14. log[i + Limit] <= t
  BY <1>1, <1>11, <1>12
<1>15. t - arrivals[k] >= log[i + Limit] - log[i]
  BY <1>9, <1>12, <1>14
<1> QED BY <1>10, <1>12, <1>13, <1>15, LimitFacts

\* A step without a call and without a new entry.
LEMMA ServedKept ==
  ASSUME LInv, ServedInv, ~byDefault, UNCHANGED <<limiter, arrivals, throttled>>,
         now' \in Int, now <= now', abPc' # "on" \/ abPc = "on"
  PROVE  ServedInv'
<1>1. /\ arrivals \in Seq(Int) /\ now \in Int
      /\ \A k \in DOMAIN arrivals : arrivals[k] \in Int /\ arrivals[k] <= now
  BY DEF ServedInv, LInv, LimiterType
<1>2. \A k \in DOMAIN arrivals' : arrivals'[k] <= now'
  BY <1>1
<1>3. PICK slot : ServedBy(slot)
  BY DEF ServedInv
<1>4. Len(log) \in Nat /\ \A k \in DOMAIN arrivals : slot[k] \in Nat
  BY <1>3 DEF ServedBy, LInv, LimiterType
<1>5. Pending' <= Pending /\ Pending \in Nat /\ Pending' \in Nat
  BY DEF Pending
<1>6. \A k \in DOMAIN arrivals : slot[k] + Pending' <= Len(log)
  BY <1>3, <1>4, <1>5 DEF ServedBy
<1>7. ServedBy(slot)'
  BY <1>3, <1>6 DEF ServedBy, limiter
<1>8. Pending' <= Len(log')
  BY <1>4, <1>5 DEF ServedInv, limiter
<1> QED BY <1>1, <1>2, <1>7, <1>8 DEF ServedInv

LEMMA ServedAcquire ==
  ASSUME LInv, ServedInv, ~byDefault, Acquire PROVE ServedInv'
<1>1. /\ LInv' /\ UNCHANGED <<arrivals, throttled>> /\ abPc' = "on" /\ abPc = "acquire"
      /\ now \in Int /\ log \in Seq(Int) /\ arrivals \in Seq(Int)
  BY LimiterAcquire DEF Acquire, server, LInv, LimiterType, ServedInv
<1>2. log' = Append(log, now') /\ now' \in Int /\ Len(log) \in Nat
  BY <1>1 DEF Acquire, LInv, LimiterType
<1>3. /\ DOMAIN log' = 1..(Len(log) + 1) /\ Len(log') = Len(log) + 1
      /\ \A k \in DOMAIN log : k \in DOMAIN log' /\ log'[k] = log[k]
      /\ log'[Len(log) + 1] = now' /\ DOMAIN log = 1..Len(log)
  BY <1>1, <1>2
<1>4. now <= now'
  <2>1. PICK h \in head..(Len(log) + 1), late \in 0..MaxLatency :
          now' = now + (IF Full(h) /\ now - log[h] < Window THEN Window - (now - log[h]) ELSE 0)
                     + late
    BY DEF Acquire
  <2>2. late \in Nat /\ h \in Nat /\ h >= 1
    BY LimitFacts DEF LInv, LimiterType
  <2>3. CASE Full(h) /\ now - log[h] < Window
    <3>1. log[h] \in Int
      <4>1. h \in DOMAIN log
        BY <1>1, <2>2, <2>3, LimitFacts DEF Full
      <4> QED BY <4>1, <1>1
    <3> QED BY <3>1, <2>1, <2>2, <2>3, <1>1, LimitFacts
  <2>4. CASE ~(Full(h) /\ now - log[h] < Window)
    BY <2>1, <2>2, <2>4, <1>1
  <2> QED BY <2>3, <2>4
<1>5. \A k \in DOMAIN arrivals : arrivals[k] \in Int /\ arrivals[k] <= now'
  BY <1>1, <1>2, <1>4 DEF ServedInv
<1>6. PICK slot : ServedBy(slot)
  BY DEF ServedInv
<1>7. /\ slot \in [DOMAIN arrivals' -> DOMAIN log']
      /\ \A k \in DOMAIN arrivals : slot[k] \in DOMAIN log /\ slot[k] \in Nat /\ slot[k] <= Len(log)
  BY <1>1, <1>2, <1>3, <1>6 DEF ServedBy
<1>8. ASSUME NEW k \in DOMAIN arrivals'
      PROVE  /\ slot[k] + Pending' <= Len(log')
             /\ slot[k] + 1 \in DOMAIN log' => arrivals'[k] <= log'[slot[k] + 1]
  <2>1. k \in DOMAIN arrivals /\ arrivals'[k] = arrivals[k] /\ Pending' = 1
    BY <1>1, <1>8 DEF Pending
  <2>2. slot[k] + 1 <= Len(log')
    BY <1>2, <1>3, <1>7, <2>1
  <2>3. CASE slot[k] + 1 \in DOMAIN log
    BY <2>1, <2>2, <2>3, <1>3, <1>6 DEF ServedBy
  <2>4. CASE slot[k] + 1 = Len(log) + 1
    BY <2>1, <2>2, <2>4, <1>3, <1>5
  <2> QED BY <2>1, <2>2, <2>3, <2>4, <1>2, <1>3, <1>7
<1>9. \A j, k \in DOMAIN arrivals' : j < k => slot[j] + (k - j) <= slot[k]
  BY <1>1, <1>6 DEF ServedBy
<1>10. ServedBy(slot)'
  BY <1>7, <1>8, <1>9 DEF ServedBy
<1>11. Pending' <= Len(log')
  BY <1>2, <1>3 DEF Pending
<1> QED BY <1>1, <1>5, <1>10, <1>11 DEF ServedInv

LEMMA ServedSearchOn ==
  ASSUME LInv, ServedInv, ~byDefault, SearchOn PROVE ServedInv'
<1>1. PICK on \in Answers, d \in 0..MaxLatency : Search(at, d, TRUE, on)
  BY DEF SearchOn
<1>2. /\ now \in Int /\ now' \in Int /\ now <= now' /\ UNCHANGED limiter
      /\ abPc = "on" /\ abPc' # "on"
  BY <1>1, SearchTime DEF SearchOn, LInv, LimiterType
<1>3. CASE UNCHANGED <<arrivals, throttled>>
  BY <1>2, <1>3, ServedKept
<1>4. CASE Rerank(on)
  <2>1. arrivals' = Append(arrivals, now') /\ throttled' = FALSE
    <3>1. ~OverLimit(now')
      BY <1>2, NotOver
    <3> QED BY <1>4, <3>1 DEF Rerank, ServedInv
  <2> DEFINE n == Len(arrivals)
  <2>2. /\ arrivals \in Seq(Int) /\ n \in Nat /\ DOMAIN arrivals = 1..n
        /\ log \in Seq(Int) /\ Len(log) \in Nat /\ DOMAIN log = 1..Len(log)
        /\ \A k \in DOMAIN arrivals : arrivals[k] \in Int /\ arrivals[k] <= now
    BY DEF ServedInv, LInv, LimiterType
  <2>3. /\ arrivals' \in Seq(Int) /\ DOMAIN arrivals' = 1..(n + 1)
        /\ \A k \in DOMAIN arrivals : arrivals'[k] = arrivals[k]
        /\ arrivals'[n + 1] = now' /\ log' = log
    BY <1>2, <2>1, <2>2 DEF limiter
  <2>4. \A k \in DOMAIN arrivals' : arrivals'[k] <= now'
    <3> SUFFICES ASSUME NEW k \in DOMAIN arrivals' PROVE arrivals'[k] <= now'
      OBVIOUS
    <3>1. CASE k \in DOMAIN arrivals
      BY <1>2, <2>2, <2>3, <3>1
    <3>2. CASE k = n + 1
      BY <1>2, <2>3, <3>2
    <3> QED BY <3>1, <3>2, <2>2, <2>3
  <2>5. PICK slot : ServedBy(slot)
    BY DEF ServedInv
  <2>6. /\ \A k \in 1..n :
             /\ slot[k] \in 1..Len(log) /\ slot[k] + 1 <= Len(log)
             /\ slot[k] + 1 \in DOMAIN log => arrivals[k] <= log[slot[k] + 1]
        /\ \A j, k \in 1..n : j < k => slot[j] + (k - j) <= slot[k]
    BY <1>2, <2>2, <2>5 DEF ServedBy, Pending
  <2>7. PICK next : next = [k \in 1..(n + 1) |-> IF k = n + 1 THEN Len(log) ELSE slot[k]]
    OBVIOUS
  <2> HIDE DEF n
  <2>8. /\ next[n + 1] = Len(log)
        /\ \A k \in 1..n : next[k] = slot[k]
    BY <2>2, <2>7
  <2>9. Len(log) \in 1..Len(log) /\ Pending' = 0 /\ Pending' <= Len(log')
    BY <1>2, <2>2, <2>3 DEF ServedInv, Pending
  <2>10. next \in [DOMAIN arrivals' -> DOMAIN log']
    BY <2>2, <2>3, <2>6, <2>7, <2>9
  <2>11. ASSUME NEW k \in 1..(n + 1)
         PROVE  /\ next[k] + Pending' <= Len(log')
                /\ next[k] + 1 \in DOMAIN log' => arrivals'[k] <= log'[next[k] + 1]
    <3>1. CASE k \in 1..n
      <4>1. /\ next[k] = slot[k] /\ slot[k] \in Nat /\ slot[k] + 1 <= Len(log)
            /\ slot[k] + 1 \in DOMAIN log => arrivals[k] <= log[slot[k] + 1]
        BY <2>2, <2>6, <2>8, <3>1
      <4>2. log' = log /\ arrivals'[k] = arrivals[k] /\ Pending' = 0
        BY <2>2, <2>3, <2>9, <3>1
      <4> QED BY <2>2, <4>1, <4>2
    <3>2. CASE k = n + 1
      BY <2>2, <2>3, <2>8, <2>9, <3>2
    <3> QED BY <2>2, <3>1, <3>2
  <2>12. ASSUME NEW j \in 1..(n + 1), NEW k \in 1..(n + 1), j < k
         PROVE  next[j] + (k - j) <= next[k]
    <3>1. j \in 1..n
      BY <2>2, <2>12
    <3>2. CASE k \in 1..n
      BY <2>6, <2>8, <2>12, <3>1, <3>2
    <3>3. CASE k = n + 1
      <4>1. slot[j] + (n - j) <= slot[n]
        <5>1. CASE j = n
          BY <2>2, <2>6, <3>1, <5>1
        <5>2. CASE j < n
          <6>1. n \in 1..n
            BY <2>2, <3>1
          <6> QED BY <2>6, <3>1, <5>2, <6>1
        <5> QED BY <2>2, <3>1, <5>1, <5>2
      <4>2. /\ slot[n] + 1 <= Len(log) /\ slot[n] \in Nat /\ slot[j] \in Nat /\ j \in Nat
        BY <2>2, <2>6, <3>1
      <4>3. next[j] = slot[j] /\ next[k] = Len(log) /\ k - j = (n - j) + 1
        BY <2>2, <2>8, <3>1, <3>3, <4>2
      <4> QED BY <2>2, <4>1, <4>2, <4>3
    <3> QED BY <2>2, <3>2, <3>3
  <2>13. ServedBy(next)'
    BY <2>3, <2>10, <2>11, <2>12 DEF ServedBy
  <2> QED BY <2>1, <2>3, <2>4, <2>9, <2>13 DEF ServedInv
<1> QED BY <1>1, <1>3, <1>4 DEF Search

LEMMA ServedStep == LInv /\ ServedInv /\ [AbNext]_abVars => ServedInv'
<1> SUFFICES ASSUME LInv, ServedInv, [AbNext]_abVars, ~byDefault PROVE ServedInv'
  <2> SUFFICES ASSUME [AbNext]_abVars PROVE byDefault' = byDefault
    BY DEF ServedInv
  <2>1. \A q, d, asked, answer : Search(q, d, asked, answer) => byDefault' = byDefault
    BY DEF Search
  <2>2. CASE Warmup
    BY <2>1, <2>2 DEF Warmup, server
  <2>3. CASE SearchOff
    BY <2>1, <2>3 DEF SearchOff
  <2>4. CASE SearchOn
    BY <2>1, <2>4 DEF SearchOn
  <2>5. CASE Acquire \/ Abort \/ UNCHANGED abVars
    BY <2>5 DEF Acquire, Abort, abVars, server
  <2> QED BY <2>2, <2>3, <2>4, <2>5 DEF AbNext
<1>1. now \in Int
  BY DEF LInv, LimiterType
<1>2. CASE Warmup
  <2>1. UNCHANGED <<limiter, arrivals, throttled>> /\ abPc' # "on"
    BY <1>2 DEF Warmup, Search, server
  <2>2. now' = now
    <3>1. CASE UNCHANGED now
      BY <3>1
    <3>2. CASE \E answer \in Answers : Search(at, 0, FALSE, answer)
      <4>1. now' = now + 0
        BY <3>2 DEF Search
      <4> QED BY <1>1, <4>1
    <3> QED BY <1>2, <3>1, <3>2 DEF Warmup
  <2> QED BY <1>1, <2>1, <2>2, ServedKept
<1>3. CASE SearchOff
  <2>1. UNCHANGED <<limiter, arrivals, throttled>> /\ abPc' # "on"
    BY <1>3 DEF SearchOff, Search
  <2>2. now' \in Int /\ now <= now'
    BY <1>1, <1>3, SearchTime DEF SearchOff
  <2> QED BY <2>1, <2>2, ServedKept
<1>4. CASE Acquire
  BY <1>4, ServedAcquire
<1>5. CASE SearchOn
  BY <1>5, ServedSearchOn
<1>6. CASE Abort \/ UNCHANGED abVars
  <2>1. /\ UNCHANGED <<limiter, arrivals, throttled, now>>
        /\ abPc' # "on" \/ abPc = "on"
    BY <1>6 DEF Abort, abVars, server
  <2> QED BY <1>1, <2>1, ServedKept
<1> QED BY <1>2, <1>3, <1>4, <1>5, <1>6 DEF AbNext

(* Whatever the latencies, a service that allows more calls than the limiter  *)
(* lets through, in a window no longer than the limiter's, never answers 429  *)
(* to an evaluation of a server that does not rerank by default.              *)
THEOREM ServiceNeverThrottles == AbSpec => []NeverThrottled
<1>1. AbInit => LInv /\ ServedInv
  BY LimiterInit, ServedInit
<1>2. LInv /\ ServedInv /\ [AbNext]_abVars => (LInv /\ ServedInv)'
  BY LimiterStep, ServedStep
<1>3. ServedInv => NeverThrottled
  BY DEF ServedInv, NeverThrottled
<1> QED BY <1>1, <1>2, <1>3, PTL DEF AbSpec
-----------------------------------------------------------------------------
(* A fallback and the off arm, over the same lists.                          *)

LEMMA SeqFacts ==
  ASSUME NEW S, NEW s \in Seq(S)
  PROVE  /\ Len(s) \in Nat /\ DOMAIN s = 1..Len(s)
         /\ \A k \in 1..Len(s) : s[k] \in S
         /\ Range(s) = {s[k] : k \in 1..Len(s)}
BY LenProperties, RangeEquality

LEMMA ViewFacts ==
  ASSUME NEW view \in AnyView
  PROVE  /\ IsFiniteSet(Hits(view)) /\ view.gone \in SUBSET Chunks
         /\ view.vector \in Seq(Chunks) /\ view.keyword \in Seq(Chunks)
         /\ \A c : Score(view, c) \in Int
<1>1. view \in AllViews /\ IsFiniteSet(Chunks) /\ RRF_K \in Nat /\ Unit \in Nat
  BY RerankAssumption
<1>2. ASSUME NEW list \in Ranked
      PROVE  list \in Seq(Chunks) /\ \A c : Contribution(list, c) \in Int
  <2>1. PICK S \in SUBSET Chunks : list \in SetToSeqs(S)
    BY <1>2 DEF Ranked, SetToAllKPermutations
  <2>2. Cardinality(S) \in Nat
    BY <1>1, FS_Subset, FS_CardinalityType
  <2>3. list \in [1..Cardinality(S) -> Chunks]
    BY <2>1 DEF SetToSeqs
  <2>4. list \in Seq(Chunks)
    BY <2>2, <2>3
  <2>5. ASSUME NEW c PROVE Contribution(list, c) \in Int
    <3>1. CASE c \in Range(list)
      <4>1. \E k \in DOMAIN list : list[k] = c
        BY <3>1 DEF Range
      <4>2. Place(list, c) \in DOMAIN list
        BY <4>1 DEF Place
      <4>3. Place(list, c) \in Nat /\ Place(list, c) >= 1
        BY <2>2, <2>3, <4>2
      <4>4. PICK p \in Nat : p = RRF_K + Place(list, c) /\ p >= 1
        BY <1>1, <4>3
      <4>5. Unit \div p \in Int
        BY <1>1, <4>4
      <4> QED BY <3>1, <4>4, <4>5 DEF Contribution
    <3> QED BY <3>1 DEF Contribution
  <2> QED BY <2>4, <2>5
<1>3. view.vector \in Ranked /\ view.keyword \in Ranked /\ view.gone \in SUBSET Chunks
  BY <1>1 DEF AllViews
<1>4. ASSUME NEW c PROVE Score(view, c) \in Int
  <2>1. Contribution(view.vector, c) \in Int /\ Contribution(view.keyword, c) \in Int
    BY <1>2, <1>3
  <2> QED BY <2>1 DEF Score
<1>5. IsFiniteSet(Hits(view))
  <2>1. Hits(view) \subseteq Chunks
    BY <1>2, <1>3, SeqFacts DEF Hits
  <2> QED BY <1>1, <2>1, FS_Subset
<1> QED BY <1>2, <1>3, <1>4, <1>5

\* The hits that are taken before c, and how many they are.
Better(view, c) == {d \in Hits(view) : Ahead(view, d, c)}
Rank(view, c) == Cardinality(Better(view, c))

\* The order of the cut is strict, and the cuts are the beginnings of it.
LEMMA RankFacts ==
  ASSUME NEW view \in AnyView, NEW c \in Hits(view)
  PROVE  /\ Rank(view, c) \in Nat /\ IsFiniteSet(Better(view, c))
         /\ \A n : c \in Cut(view, n) <=> Rank(view, c) < n
         /\ \A d \in Hits(view) :
              Ahead(view, d, c) => Better(view, d) \subseteq Better(view, c)
                                   /\ Rank(view, d) < Rank(view, c)
<1>1. /\ IsFiniteSet(Hits(view)) /\ \A e : Score(view, e) \in Int
      /\ view.vector \in Seq(Chunks) /\ view.keyword \in Seq(Chunks)
  BY ViewFacts
<1>2. \A d \in Hits(view) : IsFiniteSet(Better(view, d)) /\ Rank(view, d) \in Nat
  <2> TAKE d \in Hits(view)
  <2>1. Better(view, d) \subseteq Hits(view)
    BY DEF Better
  <2>2. IsFiniteSet(Better(view, d))
    BY <1>1, <2>1, FS_Subset
  <2> QED BY <2>2, FS_CardinalityType DEF Rank
<1>3. \A n : c \in Cut(view, n) <=> Rank(view, c) < n
  BY DEF Cut, Rank, Better
<1>4. ASSUME NEW d \in Hits(view), Ahead(view, d, c)
      PROVE  Better(view, d) \subseteq Better(view, c) /\ Rank(view, d) < Rank(view, c)
  <2> DEFINE list == view.vector \o view.keyword
  <2>0. list \in Seq(Chunks)
    BY <1>1
  <2> HIDE DEF list
  <2>1. DOMAIN list = 1..Len(list) /\ Len(list) \in Nat
    BY <2>0, SeqFacts
  <2>2. ~Ahead(view, d, d)
    <3>1. ~Earlier(list, d, d)
      BY <2>1 DEF Earlier
    <3>2. ~(Score(view, d) > Score(view, d))
      BY <1>1
    <3> QED BY <3>1, <3>2 DEF Ahead, list
  <2>3. ASSUME NEW e \in Hits(view), Ahead(view, e, d) PROVE Ahead(view, e, c)
    <3>1. CASE Score(view, e) > Score(view, d) \/ Score(view, d) > Score(view, c)
      BY <1>1, <1>4, <2>3, <3>1 DEF Ahead
    <3>2. CASE Score(view, e) = Score(view, d) /\ Score(view, d) = Score(view, c)
      <4>1. Earlier(list, e, d) /\ Earlier(list, d, c)
        BY <1>1, <1>4, <2>3, <3>2 DEF Ahead, list
      <4>2. PICK j \in DOMAIN list : list[j] = e /\ \A i \in 1..j : list[i] # d
        BY <4>1 DEF Earlier
      <4>3. PICK m \in DOMAIN list : list[m] = d /\ \A i \in 1..m : list[i] # c
        BY <4>1 DEF Earlier
      <4>4. j <= m
        BY <2>1, <4>2, <4>3
      <4>5. \A i \in 1..j : list[i] # c
        BY <2>1, <4>2, <4>3, <4>4
      <4>6. Earlier(list, e, c)
        BY <4>2, <4>5 DEF Earlier
      <4> QED BY <3>2, <4>6 DEF Ahead, list
    <3> QED BY <1>1, <1>4, <2>3, <3>1, <3>2 DEF Ahead
  <2>4. Better(view, d) \subseteq Better(view, c)
    BY <2>3 DEF Better
  <2>5. d \in Better(view, c) /\ d \notin Better(view, d)
    BY <1>4, <2>2 DEF Better
  <2>6. /\ Rank(view, d) <= Rank(view, c)
        /\ Rank(view, d) = Rank(view, c) => Better(view, d) = Better(view, c)
    BY <1>2, <2>4, FS_Subset DEF Rank
  <2> QED BY <1>2, <2>4, <2>5, <2>6
<1> QED BY <1>2, <1>3, <1>4

\* The rows of a cut, none of them lost, by score.
LEMMA ItemsFacts ==
  ASSUME NEW view \in AnyView, view.gone = {}, NEW n, NEW o \in Items(view, n)
  PROVE  /\ Len(o) \in Nat /\ DOMAIN o = 1..Len(o) /\ Len(o) = Cardinality(Cut(view, n))
         /\ \A k \in 1..Len(o) : o[k] \in Cut(view, n) /\ o[k] \in Hits(view)
         /\ \A j, k \in 1..Len(o) : o[j] = o[k] => j = k
         /\ \A c \in Cut(view, n) : \E k \in 1..Len(o) : o[k] = c
         /\ \A j, k \in 1..Len(o) : j < k => Score(view, o[j]) >= Score(view, o[k])
<1> DEFINE S == Cut(view, n)
           m == Cardinality(S)
<1>1. IsFiniteSet(S) /\ S \subseteq Hits(view) /\ m \in Nat
  <2>1. S \subseteq Hits(view)
    BY DEF Cut
  <2>2. IsFiniteSet(S)
    BY <2>1, ViewFacts, FS_Subset
  <2> QED BY <2>1, <2>2, FS_CardinalityType
<1>2. /\ o \in SetToSeqs(S)
      /\ \A j, k \in DOMAIN o : j < k => Score(view, o[j]) >= Score(view, o[k])
  <2>1. S \ view.gone = S
    OBVIOUS
  <2> QED BY <2>1 DEF Items, Rows
<1> HIDE DEF S
<1>3. o \in [1..m -> S] /\ \A j, k \in 1..m : j # k => o[j] # o[k]
  BY <1>2 DEF SetToSeqs
<1>4. Len(o) = m /\ DOMAIN o = 1..m
  BY <1>1, <1>3
<1>5. o \in Injection(1..m, S)
  BY <1>3, Fun_IsInj
<1>6. o \in Surjection(1..m, S)
  <2>1. Cardinality(1..m) = m
    <3>1. Cardinality(1..m) = IF 1 > m THEN 0 ELSE m - 1 + 1
      BY <1>1, FS_Interval
    <3> QED BY <1>1, <3>1
  <2> QED BY <1>1, <1>5, <2>1, FS_Injection
<1>7. \A c \in S : \E k \in 1..m : o[k] = c
  BY <1>6 DEF Surjection
<1> QED BY <1>1, <1>2, <1>3, <1>4, <1>7 DEF S

\* Two cuts of the same hits show no different score at any place they share.
LEMMA NoBetterScore ==
  ASSUME NEW view \in AnyView, view.gone = {}, NEW n \in Int, NEW p \in Int,
         NEW o \in Items(view, n), NEW u \in Items(view, p),
         NEW k \in 1..Len(o), k \in 1..Len(u)
  PROVE  ~(Score(view, o[k]) > Score(view, u[k]))
<1> SUFFICES ASSUME Score(view, o[k]) > Score(view, u[k]) PROVE FALSE
  OBVIOUS
<1>1. \A c : Score(view, c) \in Int
  BY ViewFacts
<1>2. /\ Len(o) \in Nat
      /\ \A j \in 1..Len(o) : o[j] \in Hits(view)
      /\ \A i, j \in 1..Len(o) : o[i] = o[j] => i = j
      /\ \A i, j \in 1..Len(o) : i < j => Score(view, o[i]) >= Score(view, o[j])
  BY ItemsFacts
<1>3. /\ Len(u) \in Nat
      /\ \A j \in 1..Len(u) : u[j] \in Cut(view, p) /\ u[j] \in Hits(view)
      /\ \A c \in Cut(view, p) : \E j \in 1..Len(u) : u[j] = c
      /\ \A i, j \in 1..Len(u) : i < j => Score(view, u[i]) >= Score(view, u[j])
  BY ItemsFacts
<1> DEFINE place(c) == CHOOSE j \in 1..Len(u) : u[j] = c
           f == [j \in 1..k |-> place(o[j])]
<1>4. ASSUME NEW j \in 1..k
      PROVE  /\ f[j] \in 1..(k - 1) /\ u[f[j]] = o[j] /\ j \in 1..Len(o)
  <2>1. j \in 1..Len(o) /\ o[j] \in Hits(view) /\ k \in Nat
    BY <1>2, <1>4
  <2>2. Score(view, o[j]) > Score(view, u[k])
    <3>1. Score(view, o[j]) >= Score(view, o[k])
      <4>1. CASE j = k
        BY <1>1, <4>1
      <4>2. CASE j < k
        BY <1>2, <2>1, <4>2
      <4> QED BY <1>4, <2>1, <4>1, <4>2
    <3> QED BY <1>1, <3>1
  <2>3. o[j] \in Cut(view, p)
    <3>1. u[k] \in Hits(view) /\ u[k] \in Cut(view, p)
      BY <1>3
    <3>2. Ahead(view, o[j], u[k])
      BY <2>2 DEF Ahead
    <3>3. /\ Rank(view, o[j]) < Rank(view, u[k]) /\ Rank(view, u[k]) < p
          /\ Rank(view, o[j]) \in Nat /\ Rank(view, u[k]) \in Nat
      BY <2>1, <3>1, <3>2, RankFacts
    <3>4. Rank(view, o[j]) < p
      BY <3>3
    <3> QED BY <2>1, <3>4, RankFacts
  <2>4. f[j] \in 1..Len(u) /\ u[f[j]] = o[j]
    <3>1. \E i \in 1..Len(u) : u[i] = o[j]
      BY <1>3, <2>3
    <3>2. place(o[j]) \in 1..Len(u) /\ u[place(o[j])] = o[j]
      BY <3>1
    <3> QED BY <3>2
  <2> HIDE DEF f
  <2>5. f[j] < k
    <3> SUFFICES ASSUME k <= f[j] PROVE FALSE
      BY <1>3, <2>1, <2>4
    <3>1. Score(view, u[k]) >= Score(view, u[f[j]])
      <4>1. CASE k = f[j]
        BY <1>1, <4>1
      <4>2. CASE k < f[j]
        BY <1>3, <2>4, <4>2
      <4> QED BY <1>3, <2>1, <2>4, <4>1, <4>2
    <3> QED BY <1>1, <2>2, <2>4, <3>1
  <2> QED BY <1>3, <2>1, <2>4, <2>5
<1>5. f \in [1..k -> 1..(k - 1)]
  BY <1>4
<1> HIDE DEF f
<1>6. PICK i, j \in 1..k : i # j /\ f[i] = f[j]
  <2>1. k \in Nat /\ k >= 1
    BY <1>2
  <2>2. /\ IsFiniteSet(1..k) /\ IsFiniteSet(1..(k - 1))
        /\ Cardinality(1..k) = k /\ Cardinality(1..(k - 1)) = k - 1
    <3>1. /\ IsFiniteSet(1..k) /\ Cardinality(1..k) = IF 1 > k THEN 0 ELSE k - 1 + 1
          /\ IsFiniteSet(1..(k - 1))
          /\ Cardinality(1..(k - 1)) = IF 1 > k - 1 THEN 0 ELSE k - 1 - 1 + 1
      <4>1. 1 \in Int /\ k \in Int /\ k - 1 \in Int
        BY <2>1
      <4> QED BY <4>1, FS_Interval
    <3> QED BY <2>1, <3>1
  <2>3. Cardinality(1..(k - 1)) < Cardinality(1..k)
    BY <2>1, <2>2
  <2> QED BY <1>5, <2>2, <2>3, FS_PigeonHole
<1>7. o[i] = o[j]
  BY <1>4, <1>6
<1> QED BY <1>2, <1>4, <1>6, <1>7

\* If one cut has fewer than its limit, a larger one has no more.
LEMMA CutsOfAll ==
  ASSUME NEW view \in AnyView, NEW n \in Nat, NEW p \in Nat, n <= p
  PROVE  /\ Cut(view, n) \subseteq Cut(view, p)
         /\ Cardinality(Cut(view, n)) < n => Cut(view, p) = Cut(view, n)
<1>1. /\ IsFiniteSet(Hits(view)) /\ Cut(view, n) \subseteq Hits(view)
      /\ Cut(view, p) \subseteq Hits(view)
  BY ViewFacts DEF Cut
<1>2. Cut(view, n) \subseteq Cut(view, p)
  <2> SUFFICES ASSUME NEW c \in Cut(view, n) PROVE c \in Cut(view, p)
    OBVIOUS
  <2>1. c \in Hits(view) /\ Rank(view, c) \in Nat /\ Rank(view, c) < n
    BY <1>1, RankFacts
  <2>2. Rank(view, c) < p
    BY <2>1
  <2> QED BY <2>1, <2>2, RankFacts
<1>3. ASSUME Cardinality(Cut(view, n)) < n, Cut(view, p) # Cut(view, n) PROVE FALSE
  <2> DEFINE R == StrictSubsetOrdering(Hits(view))
             More == Cut(view, p) \ Cut(view, n)
             T == {Better(view, c) : c \in More}
  <2>1. More # {} /\ More \subseteq Hits(view)
    BY <1>1, <1>2, <1>3
  <2>2. T # {} /\ T \subseteq FiniteSubsetsOf(Hits(view))
    <3>1. \A c \in More : Better(view, c) \subseteq Hits(view) /\ IsFiniteSet(Better(view, c))
      BY <2>1, RankFacts DEF Better
    <3> QED BY <2>1, <3>1 DEF FiniteSubsetsOf
  <2>3. PICK c \in More : \A d \in More : ~(<<Better(view, d), Better(view, c)>> \in R)
    <3>1. IsWellFoundedOn(R, FiniteSubsetsOf(Hits(view)))
      BY FS_StrictSubsetOrderingWellFounded
    <3>2. \E x \in T : \A y \in T : ~(<<y, x>> \in R)
      <4> HIDE DEF R, T
      <4> QED BY <2>2, <3>1, WFMin
    <3> QED BY <3>2
  <2>4. /\ c \in Hits(view) /\ Rank(view, c) \in Nat /\ Rank(view, c) < p
        /\ ~(Rank(view, c) < n)
    BY <2>1, RankFacts
  <2>5. Better(view, c) \subseteq Cut(view, n)
    <3> SUFFICES ASSUME NEW d \in Better(view, c), d \notin Cut(view, n) PROVE FALSE
      OBVIOUS
    <3>1. d \in Hits(view) /\ Ahead(view, d, c)
      BY DEF Better
    <3>2. /\ Rank(view, d) < Rank(view, c) /\ Rank(view, d) \in Nat
          /\ Better(view, d) \subseteq Better(view, c)
      BY <2>4, <3>1, RankFacts
    <3>3. d \in Cut(view, p)
      <4>1. Rank(view, d) < p
        BY <2>4, <3>2
      <4> QED BY <3>1, <4>1, RankFacts
    <3>4. Better(view, d) # Better(view, c)
      BY <2>4, <3>2 DEF Rank
    <3>5. <<Better(view, d), Better(view, c)>> \in R
      BY <3>2, <3>4 DEF StrictSubsetOrdering, Better
    <3> QED BY <2>3, <3>3, <3>5
  <2>6. /\ Rank(view, c) <= Cardinality(Cut(view, n))
        /\ Cardinality(Cut(view, n)) \in Nat
    <3>1. IsFiniteSet(Cut(view, n))
      BY <1>1, FS_Subset
    <3> QED BY <2>5, <3>1, FS_Subset, FS_CardinalityType DEF Rank
  <2> QED BY <1>3, <2>4, <2>6
<1> QED BY <1>2, <1>3

LEMMA PoolFacts ==
  TopK \in Nat /\ TopK > 0 /\ Pool \in Nat /\ TopK <= Pool
BY RerankAssumption DEF Pool

LEMMA TopFacts ==
  ASSUME NEW o, Len(o) \in Nat
  PROVE  /\ Len(Top(o)) = (IF Len(o) < TopK THEN Len(o) ELSE TopK)
         /\ DOMAIN Top(o) = 1..Len(Top(o))
         /\ \A k \in 1..Len(Top(o)) : k \in 1..Len(o) /\ Top(o)[k] = o[k]
<1> DEFINE m == IF Len(o) < TopK THEN Len(o) ELSE TopK
<1>1. m \in Nat /\ m <= Len(o)
  BY PoolFacts
<1>2. Top(o) = [k \in 1..m |-> o[k]]
  BY DEF Top
<1> HIDE DEF m
<1>3. Len(Top(o)) = m /\ DOMAIN Top(o) = 1..m
  BY <1>1, <1>2
<1>4. \A k \in 1..m : k \in 1..Len(o) /\ Top(o)[k] = o[k]
  BY <1>1, <1>2
<1> QED BY <1>3, <1>4 DEF m

(* Over the same lists, a fallback returns as many chunks as the off arm, and *)
(* at every place one of the same score, though it cuts later, after the rows *)
(* came back in any order and were sorted by their scores alone: reranking    *)
(* that fails costs the client no score.  Chunks of equal score may differ.   *)
THEOREM FallbackLosesNoScore ==
  ASSUME NEW view \in AnyView, view.gone = {},
         NEW o \in Items(view, TopK), NEW u \in Items(view, Pool)
  PROVE  /\ Len(Top(o)) = Len(Top(u))
         /\ \A k \in DOMAIN Top(o) : Score(view, Top(o)[k]) = Score(view, Top(u)[k])
<1>1. /\ Len(o) \in Nat /\ Len(o) = Cardinality(Cut(view, TopK))
      /\ Len(u) \in Nat /\ Len(u) = Cardinality(Cut(view, Pool))
      /\ TopK \in Nat /\ Pool \in Nat /\ TopK <= Pool
  BY ItemsFacts, PoolFacts
<1>2. Len(Top(o)) = Len(Top(u))
  <2>1. Len(o) <= Len(u)
    <3>1. IsFiniteSet(Cut(view, Pool))
      <4>1. Cut(view, Pool) \subseteq Hits(view)
        BY DEF Cut
      <4> QED BY <4>1, ViewFacts, FS_Subset
    <3>2. Cut(view, TopK) \subseteq Cut(view, Pool)
      BY <1>1, CutsOfAll
    <3> QED BY <1>1, <3>1, <3>2, FS_Subset
  <2>2. Len(o) < TopK => Len(u) = Len(o)
    BY <1>1, CutsOfAll
  <2> QED BY <1>1, <2>1, <2>2, TopFacts
<1>3. ASSUME NEW k \in DOMAIN Top(o)
      PROVE  Score(view, Top(o)[k]) = Score(view, Top(u)[k])
  <2>1. /\ k \in 1..Len(o) /\ Top(o)[k] = o[k]
        /\ k \in 1..Len(u) /\ Top(u)[k] = u[k]
    BY <1>1, <1>2, <1>3, TopFacts
  <2>2. ~(Score(view, o[k]) > Score(view, u[k])) /\ ~(Score(view, u[k]) > Score(view, o[k]))
    <3>1. TopK \in Int /\ Pool \in Int
      BY <1>1
    <3> QED BY <2>1, <3>1, NoBetterScore
  <2>3. Score(view, o[k]) \in Int /\ Score(view, u[k]) \in Int
    BY ViewFacts
  <2> QED BY <2>1, <2>2, <2>3
<1> QED BY <1>2, <1>3

\* Without equal scores there is nothing left to differ in.
LEMMA ClearListsAgree ==
  ASSUME NEW view \in AnyView, view.gone = {}, Untied(view),
         NEW ids \in Listed[view][TopK], NEW others \in Listed[view][Pool]
  PROVE  ids = others
<1>0. \A n \in {TopK, Pool} : Listed[view][n] = {Top(o) : o \in Items(view, n)}
  BY DEF Listed
<1>1. PICK o \in Items(view, TopK), u \in Items(view, Pool) : ids = Top(o) /\ others = Top(u)
  BY <1>0
<1>2. /\ Len(ids) = Len(others)
      /\ \A k \in DOMAIN ids : Score(view, ids[k]) = Score(view, others[k])
  BY <1>1, FallbackLosesNoScore
<1>3. /\ Len(o) \in Nat /\ Len(u) \in Nat
      /\ \A k \in 1..Len(o) : o[k] \in Hits(view)
      /\ \A k \in 1..Len(u) : u[k] \in Hits(view)
  BY ItemsFacts
<1>4. /\ DOMAIN ids = 1..Len(ids) /\ DOMAIN others = 1..Len(others)
      /\ \A k \in 1..Len(ids) : ids[k] \in Hits(view)
      /\ \A k \in 1..Len(others) : others[k] \in Hits(view)
  BY <1>1, <1>3, TopFacts
<1>5. \A k \in DOMAIN ids : ids[k] = others[k]
  BY <1>2, <1>4 DEF Untied
<1>6. ids = [k \in DOMAIN ids |-> ids[k]] /\ others = [k \in DOMAIN others |-> others[k]]
  BY <1>1 DEF Top
<1> QED BY <1>2, <1>4, <1>5, <1>6

\* Until the pair is complete, the off arm has what its view lists.
FlagInv ==
    /\ off = [ids |-> off.ids, hit |-> off.hit, open |-> off.open, view |-> off.view]
    /\ ~byDefault =>
         /\ "clear" \notin unflagged
         /\ abPc \in {"acquire", "on"} =>
              off.view \in AnyView /\ off.ids \in Listed[off.view][TopK]

LEMMA FlagInit == AbInit => FlagInv
BY DEF AbInit, FlagInv, NoAnswer

LEMMA AnswerFacts ==
  ASSUME NEW answer \in Answers
  PROVE  /\ answer = [ids |-> answer.ids, hit |-> answer.hit, open |-> answer.open,
                      view |-> answer.view]
         /\ answer.open \in BOOLEAN /\ answer.hit \in BOOLEAN /\ answer.view \in AnyView
BY DEF Answers

LEMMA FlagSearchOff ==
  ASSUME FlagInv, SearchOff PROVE FlagInv'
<1>1. PICK answer \in Answers, d \in 0..MaxLatency :
        Search(at, d, FALSE, answer) /\ off' = answer
  BY DEF SearchOff
<1>2. UNCHANGED byDefault /\ (~byDefault => answer.ids \in Listed[answer.view][TopK])
  BY <1>1 DEF Search
<1>3. UNCHANGED unflagged
  BY DEF SearchOff, pairs
<1> QED BY <1>1, <1>2, <1>3, AnswerFacts DEF FlagInv

\* A clear pair that fell back has equal lists.
LEMMA FlagSearchOn ==
  ASSUME FlagInv, SearchOn PROVE FlagInv'
<1>1. PICK on \in Answers, d \in 0..MaxLatency :
        /\ Search(at, d, TRUE, on)
        /\ unflagged' = unflagged \cup
             IF on.open /\ off.ids # on.ids THEN {Kind(off.view, on.view)} ELSE {}
  BY DEF SearchOn
<1>2. UNCHANGED byDefault /\ (on.open => on.ids \in Listed[on.view][Pool])
  BY <1>1 DEF Search, Rerank
<1>3. off' = NoAnswer /\ abPc = "on" /\ abPc' \in {"off", "done"}
  BY DEF SearchOn
<1>4. ASSUME ~byDefault, on.open, off.ids # on.ids
      PROVE  Kind(off.view, on.view) # "clear"
  <2> SUFFICES ASSUME off.view = on.view, off.view.gone = {}, Untied(off.view) PROVE FALSE
    BY DEF Kind
  <2>1. /\ off.view \in AnyView /\ off.ids \in Listed[off.view][TopK]
        /\ on.ids \in Listed[off.view][Pool]
    BY <1>2, <1>3, <1>4 DEF FlagInv
  <2> QED BY <1>4, <2>1, ClearListsAgree
<1>5. ~byDefault => "clear" \notin unflagged'
  BY <1>1, <1>4 DEF FlagInv
<1> QED BY <1>2, <1>3, <1>5 DEF FlagInv, NoAnswer

LEMMA FlagStep == FlagInv /\ [AbNext]_abVars => FlagInv'
<1> SUFFICES ASSUME FlagInv, [AbNext]_abVars PROVE FlagInv'
  OBVIOUS
<1>1. CASE Warmup
  <2>1. UNCHANGED <<unflagged, off>> /\ abPc' \in {"warmup", "off"}
    BY <1>1 DEF Warmup, pairs
  <2>2. UNCHANGED byDefault
    BY <1>1 DEF Warmup, Search, server
  <2> QED BY <2>1, <2>2 DEF FlagInv
<1>2. CASE Acquire
  BY <1>2 DEF Acquire, FlagInv, server, pairs
<1>3. CASE Abort
  BY <1>3 DEF Abort, FlagInv, server, pairs
<1>4. CASE UNCHANGED abVars
  BY <1>4 DEF abVars, FlagInv, server, pairs
<1> QED BY <1>1, <1>2, <1>3, <1>4, FlagSearchOff, FlagSearchOn DEF AbNext

(* The client is not told that the reranking failed, and takes equal orders  *)
(* for a sign of it: no pair whose two searches ranked the same chunks alike, *)
(* with no two scores the same, falls back without that sign, however the    *)
(* rows come back, wherever the two arms cut, and whatever fails.            *)
THEOREM CleanFallbackIsFlagged == AbSpec => []FailOpenIsFlagged
<1>1. FlagInv => FailOpenIsFlagged
  BY DEF FlagInv, FailOpenIsFlagged
<1> QED BY <1>1, FlagInit, FlagStep, PTL DEF AbSpec
-----------------------------------------------------------------------------
(* The embedding cache                                                       *)

\* Removing an entry that occurs once.
LEMMA RemoveAtFacts ==
  ASSUME NEW S, NEW s \in Seq(S), NEW i \in 1..Len(s)
  PROVE  /\ RemoveAt(s, i) \in Seq(S)
         /\ Len(RemoveAt(s, i)) = Len(s) - 1
         /\ \A k \in 1..(Len(s) - 1) :
              RemoveAt(s, i)[k] = s[IF k < i THEN k ELSE k + 1]
<1> DEFINE before == SubSeq(s, 1, i - 1)
           after == SubSeq(s, i + 1, Len(s))
<1>1. Len(s) \in Nat /\ \A k \in 1..Len(s) : s[k] \in S
  BY SeqFacts
<1>2. /\ before \in Seq(S) /\ Len(before) = i - 1
      /\ \A k \in 1..(i - 1) : before[k] = s[k]
  <2>1. 1 \in Int /\ i - 1 \in Int /\ \A k \in 1..(i - 1) : s[k] \in S
    BY <1>1
  <2>2. /\ before \in Seq(S)
        /\ Len(before) = IF 1 <= i - 1 THEN i - 1 - 1 + 1 ELSE 0
        /\ \A k \in 1..(i - 1 - 1 + 1) : before[k] = s[1 + k - 1]
    BY <2>1, SubSeqProperties
  <2> QED BY <2>2, <1>1
<1>3. /\ after \in Seq(S) /\ Len(after) = Len(s) - i
      /\ \A k \in 1..(Len(s) - i) : after[k] = s[i + k]
  <2>1. i + 1 \in Int /\ Len(s) \in Int /\ \A k \in (i + 1)..Len(s) : s[k] \in S
    BY <1>1
  <2>2. /\ after \in Seq(S)
        /\ Len(after) = IF i + 1 <= Len(s) THEN Len(s) - (i + 1) + 1 ELSE 0
        /\ \A k \in 1..(Len(s) - (i + 1) + 1) : after[k] = s[i + 1 + k - 1]
    BY <2>1, SubSeqProperties
  <2> QED BY <2>2, <1>1
<1> HIDE DEF before, after
<1>4. RemoveAt(s, i) = before \o after
  BY DEF RemoveAt, before, after
<1>5. /\ before \o after \in Seq(S)
      /\ Len(before \o after) = Len(before) + Len(after)
      /\ \A k \in 1..(Len(before) + Len(after)) :
           (before \o after)[k] = IF k <= Len(before) THEN before[k]
                                  ELSE after[k - Len(before)]
  BY <1>2, <1>3, ConcatProperties
<1>6. Len(before) + Len(after) = Len(s) - 1
  BY <1>1, <1>2, <1>3
<1>7. ASSUME NEW k \in 1..(Len(s) - 1)
      PROVE  (before \o after)[k] = s[IF k < i THEN k ELSE k + 1]
  <2>1. CASE k < i
    <3>1. k \in 1..(i - 1) /\ k <= Len(before)
      BY <1>2, <2>1
    <3> QED BY <1>2, <1>5, <1>6, <2>1, <3>1
  <2>2. CASE k >= i
    <3>1. k - (i - 1) \in 1..(Len(s) - i) /\ ~(k <= Len(before)) /\ ~(k < i)
      BY <1>1, <1>2, <2>2
    <3>2. (before \o after)[k] = after[k - (i - 1)]
      BY <1>2, <1>5, <1>6, <3>1
    <3>3. after[k - (i - 1)] = s[i + (k - (i - 1))] /\ i + (k - (i - 1)) = k + 1
      BY <1>1, <1>3, <3>1
    <3> QED BY <3>1, <3>2, <3>3
  <2>3. k < i \/ k >= i
    <3>1. k \in Int /\ i \in Int
      BY <1>1
    <3> QED BY <3>1
  <2> QED BY <2>1, <2>2, <2>3
<1> QED BY <1>4, <1>5, <1>6, <1>7

\* Moving an entry to the end of a cache that holds each entry once.
LEMMA UsedFacts ==
  ASSUME NEW S, embedded \in Seq(S), IsInjective(embedded), NEW q \in S
  PROVE  /\ Used(q) \in Seq(S) /\ Used(q) # <<>>
         /\ IsInjective(Used(q))
         /\ Range(embedded) \cup {q} \subseteq Range(Used(q))
<1> DEFINE rest == RemoveFirst(embedded, q)
<1>1. /\ Len(embedded) \in Nat /\ DOMAIN embedded = 1..Len(embedded)
      /\ \A k \in 1..Len(embedded) : embedded[k] \in S
      /\ Range(embedded) = {embedded[k] : k \in 1..Len(embedded)}
  BY SeqFacts
<1>2. /\ rest \in Seq(S)
      /\ \A j, k \in 1..Len(rest) : rest[j] = rest[k] => j = k
      /\ \A k \in 1..Len(rest) : rest[k] # q
      /\ \A c \in Range(embedded) : c = q \/ \E k \in 1..Len(rest) : rest[k] = c
  <2>1. CASE \A k \in 1..Len(embedded) : embedded[k] # q
    <3>1. rest = embedded
      BY <2>1 DEF RemoveFirst
    <3> QED BY <1>1, <2>1, <3>1 DEF IsInjective
  <2>2. CASE \E k \in 1..Len(embedded) : embedded[k] = q
    <3>1. PICK i \in 1..Len(embedded) : embedded[i] = q
      BY <2>2
    <3>2. {k \in 1..Len(embedded) : embedded[k] = q} = {i}
      BY <1>1, <3>1 DEF IsInjective
    <3>3. Min({i}) = i
      BY <3>1 DEF Min
    <3>4. rest = RemoveAt(embedded, i)
      BY <2>2, <3>2, <3>3 DEF RemoveFirst, SelectInSeq
    <3> HIDE DEF rest
    <3>5. /\ rest \in Seq(S) /\ Len(rest) = Len(embedded) - 1
          /\ \A k \in 1..(Len(embedded) - 1) :
               rest[k] = embedded[IF k < i THEN k ELSE k + 1]
      BY <3>4, RemoveAtFacts
    <3>6. \A j, k \in 1..Len(embedded) : embedded[j] = embedded[k] => j = k
      BY <1>1 DEF IsInjective
    <3>7. \A k \in 1..Len(rest) :
            /\ (IF k < i THEN k ELSE k + 1) \in 1..Len(embedded)
            /\ (IF k < i THEN k ELSE k + 1) # i
      BY <1>1, <3>5
    <3>8. \A j, k \in 1..Len(rest) : rest[j] = rest[k] => j = k
      <4> SUFFICES ASSUME NEW j \in 1..Len(rest), NEW k \in 1..Len(rest),
                          rest[j] = rest[k]
                   PROVE  j = k
        OBVIOUS
      <4>1. (IF j < i THEN j ELSE j + 1) = (IF k < i THEN k ELSE k + 1)
        BY <3>5, <3>6, <3>7
      <4> QED BY <4>1, <1>1, <3>5
    <3>9. \A k \in 1..Len(rest) : rest[k] # q
      BY <3>1, <3>5, <3>6, <3>7
    <3>10. ASSUME NEW c \in Range(embedded), c # q
           PROVE  \E k \in 1..Len(rest) : rest[k] = c
      <4>1. PICK m \in 1..Len(embedded) : embedded[m] = c
        BY <1>1
      <4>2. m # i
        BY <3>1, <3>10, <4>1
      <4>3. CASE m < i
        <5>1. m \in 1..Len(rest) /\ rest[m] = c
          BY <1>1, <3>5, <4>1, <4>3
        <5> QED BY <5>1
      <4>4. CASE m > i
        <5>1. m - 1 \in 1..Len(rest) /\ ~(m - 1 < i) /\ m - 1 + 1 = m
          BY <1>1, <3>5, <4>4
        <5>2. rest[m - 1] = c
          BY <3>5, <4>1, <5>1
        <5> QED BY <5>1, <5>2
      <4> QED BY <1>1, <4>2, <4>3, <4>4
    <3> QED BY <3>5, <3>8, <3>9, <3>10
  <2> QED BY <2>1, <2>2
<1> HIDE DEF rest
<1>3. /\ Used(q) \in Seq(S) /\ Used(q) # <<>> /\ Len(Used(q)) = Len(rest) + 1
      /\ \A k \in 1..Len(rest) : Used(q)[k] = rest[k]
      /\ Used(q)[Len(rest) + 1] = q
  <2>1. Used(q) = Append(rest, q)
    BY DEF Used, rest
  <2> QED BY <1>2, <2>1, AppendProperties
<1>4. Len(rest) \in Nat /\ DOMAIN Used(q) = 1..(Len(rest) + 1)
      /\ Range(Used(q)) = {Used(q)[k] : k \in 1..(Len(rest) + 1)}
  BY <1>2, <1>3, SeqFacts
<1>5. IsInjective(Used(q))
  <2> SUFFICES ASSUME NEW j \in 1..(Len(rest) + 1), NEW k \in 1..(Len(rest) + 1),
                      Used(q)[j] = Used(q)[k]
               PROVE  j = k
    BY <1>4 DEF IsInjective
  <2>1. CASE j \in 1..Len(rest) /\ k \in 1..Len(rest)
    BY <1>2, <1>3, <2>1
  <2>2. CASE j = Len(rest) + 1 /\ k \in 1..Len(rest)
    BY <1>2, <1>3, <2>2
  <2>3. CASE k = Len(rest) + 1 /\ j \in 1..Len(rest)
    BY <1>2, <1>3, <2>3
  <2> QED BY <1>4, <2>1, <2>2, <2>3
<1>6. ASSUME NEW c \in Range(embedded) \cup {q} PROVE c \in Range(Used(q))
  <2>1. CASE c = q
    <3>1. Len(rest) + 1 \in 1..(Len(rest) + 1)
      BY <1>4
    <3> QED BY <1>3, <1>4, <2>1, <3>1
  <2>2. CASE c # q
    <3>1. PICK k \in 1..Len(rest) : rest[k] = c
      BY <1>2, <1>6, <2>2
    <3>2. k \in 1..(Len(rest) + 1) /\ Used(q)[k] = c
      BY <1>3, <1>4, <3>1
    <3> QED BY <1>4, <3>2
  <2> QED BY <2>1, <2>2
<1> QED BY <1>3, <1>5, <1>6

\* A cache as large as the set of questions pushes none of them out.
LEMMA TouchFacts ==
  ASSUME NEW n \in Nat, embedded \in Seq(1..n), IsInjective(embedded), NEW q \in 1..n
  PROVE  /\ Touch(q) \in Seq(1..n) /\ IsInjective(Touch(q))
         /\ n <= CacheSize => Range(embedded) \cup {q} \subseteq Range(Touch(q))
<1> DEFINE next == Used(q)
<1>1. /\ next \in Seq(1..n) /\ next # <<>> /\ IsInjective(next)
      /\ Range(embedded) \cup {q} \subseteq Range(next)
  BY UsedFacts
<1> HIDE DEF next
<1>2. Len(next) \in Nat /\ DOMAIN next = 1..Len(next)
  BY <1>1, SeqFacts
<1>3. Len(next) <= n
  <2>1. next \in Injection(1..Len(next), 1..n)
    <3>1. next \in [1..Len(next) -> 1..n]
      BY <1>1, <1>2
    <3> QED BY <1>1, <3>1 DEF Injection
  <2>2. /\ IsFiniteSet(1..n) /\ Cardinality(1..n) = n
        /\ Cardinality(1..Len(next)) = Len(next)
    <3>1. 1 \in Int /\ n \in Int /\ Len(next) \in Int
      BY <1>2
    <3>2. /\ IsFiniteSet(1..n) /\ Cardinality(1..n) = IF 1 > n THEN 0 ELSE n - 1 + 1
          /\ Cardinality(1..Len(next)) = IF 1 > Len(next) THEN 0 ELSE Len(next) - 1 + 1
      BY <3>1, FS_Interval
    <3> QED BY <1>2, <3>2
  <2> QED BY <2>1, <2>2, FS_Injection
<1>4. CASE Len(next) > CacheSize
  <2>1. Touch(q) = Tail(next)
    BY <1>4 DEF Touch, next
  <2>2. /\ Tail(next) \in Seq(1..n) /\ Len(Tail(next)) = Len(next) - 1
        /\ \A i \in 1..Len(Tail(next)) : Tail(next)[i] = next[i + 1]
    BY <1>1, HeadTailProperties
  <2>3. IsInjective(Tail(next))
    <3> SUFFICES ASSUME NEW j \in DOMAIN Tail(next), NEW k \in DOMAIN Tail(next),
                        Tail(next)[j] = Tail(next)[k]
                 PROVE  j = k
      BY DEF IsInjective
    <3>1. j \in 1..(Len(next) - 1) /\ k \in 1..(Len(next) - 1)
      BY <2>2
    <3>2. j + 1 \in DOMAIN next /\ k + 1 \in DOMAIN next /\ next[j + 1] = next[k + 1]
      BY <1>2, <2>2, <3>1
    <3>3. j + 1 = k + 1
      BY <1>1, <3>2 DEF IsInjective
    <3> QED BY <3>1, <3>3
  <2> QED BY <1>2, <1>3, <1>4, <2>1, <2>2, <2>3, RerankAssumption
<1>5. CASE ~(Len(next) > CacheSize)
  BY <1>1, <1>5 DEF Touch, next
<1> QED BY <1>4, <1>5

\* A question whose warm-up was answered stays in a cache that holds them all,
\* so that both arms find it there.
WarmInv ==
    /\ at \in 1..Questions
    /\ embedded \in Seq(1..Questions) /\ IsInjective(embedded)
    /\ off = [ids |-> off.ids, hit |-> off.hit, open |-> off.open, view |-> off.view]
    /\ abPc = "warmup" => cold = {}
    /\ Questions <= CacheSize =>
         /\ warm \subseteq Range(embedded)
         /\ abPc \in {"acquire", "on"} /\ at \in warm => off.hit
         /\ cold \cap warm = {}

LEMMA WarmInit == AbInit => WarmInv
<1> SUFFICES ASSUME AbInit PROVE WarmInv
  OBVIOUS
<1>1. embedded = <<>> /\ embedded \in Seq(1..Questions) /\ IsInjective(embedded)
  BY EmptySeq DEF AbInit, IsInjective
<1>2. at \in 1..Questions
  BY RerankAssumption DEF AbInit
<1> QED BY <1>1, <1>2 DEF AbInit, WarmInv, NoAnswer

\* What a search does to the cache, and what it tells.
LEMMA WarmSearch ==
  ASSUME WarmInv, NEW d, NEW asked, NEW answer, Search(at, d, asked, answer)
  PROVE  /\ embedded' \in Seq(1..Questions) /\ IsInjective(embedded')
         /\ Questions <= CacheSize =>
              /\ Range(embedded) \cup {at} \subseteq Range(embedded')
              /\ at \in warm => answer.hit
<1>1. embedded' = Touch(at) /\ answer.hit = (at \in Range(embedded))
  BY DEF Search
<1>2. Questions \in Nat
  BY RerankAssumption
<1>3. /\ Touch(at) \in Seq(1..Questions) /\ IsInjective(Touch(at))
      /\ Questions <= CacheSize => Range(embedded) \cup {at} \subseteq Range(Touch(at))
  BY <1>2, TouchFacts DEF WarmInv
<1>4. Questions <= CacheSize /\ at \in warm => at \in Range(embedded)
  BY DEF WarmInv
<1> QED BY <1>1, <1>3, <1>4

LEMMA WarmWarmup ==
  ASSUME WarmInv, Warmup PROVE WarmInv'
<1>1. /\ abPc = "warmup" /\ cold = {} /\ cold' = cold /\ off' = off
      /\ abPc' \in {"warmup", "off"}
  BY DEF Warmup, pairs, WarmInv
<1>2. at' \in 1..Questions
  BY RerankAssumption DEF Warmup, WarmInv
<1>3. CASE UNCHANGED <<server, now, warm>>
  BY <1>1, <1>2, <1>3 DEF WarmInv, server
<1>4. CASE /\ \E answer \in Answers : Search(at, 0, FALSE, answer)
           /\ warm' = warm \cup {at}
  <2>1. PICK answer \in Answers : Search(at, 0, FALSE, answer)
    BY <1>4
  <2>2. /\ embedded' \in Seq(1..Questions) /\ IsInjective(embedded')
        /\ Questions <= CacheSize => Range(embedded) \cup {at} \subseteq Range(embedded')
    BY <2>1, WarmSearch
  <2>3. Questions <= CacheSize => warm' \subseteq Range(embedded')
    BY <1>4, <2>2 DEF WarmInv
  <2> QED BY <1>1, <1>2, <2>2, <2>3 DEF WarmInv
<1> QED BY <1>3, <1>4 DEF Warmup

LEMMA WarmSearchOff ==
  ASSUME WarmInv, SearchOff PROVE WarmInv'
<1>1. PICK answer \in Answers, d \in 0..MaxLatency :
        Search(at, d, FALSE, answer) /\ off' = answer
  BY DEF SearchOff
<1>2. UNCHANGED <<at, warm, cold>> /\ abPc' = "acquire"
  BY DEF SearchOff, pairs
<1>3. /\ embedded' \in Seq(1..Questions) /\ IsInjective(embedded')
      /\ Questions <= CacheSize =>
           /\ Range(embedded) \cup {at} \subseteq Range(embedded')
           /\ at \in warm => answer.hit
  BY <1>1, WarmSearch
<1>4. answer = [ids |-> answer.ids, hit |-> answer.hit, open |-> answer.open,
                view |-> answer.view]
  BY AnswerFacts
<1> QED BY <1>1, <1>2, <1>3, <1>4 DEF WarmInv

LEMMA WarmSearchOn ==
  ASSUME WarmInv, SearchOn PROVE WarmInv'
<1>1. PICK on \in Answers, d \in 0..MaxLatency :
        /\ Search(at, d, TRUE, on)
        /\ cold' = IF off.hit /\ on.hit THEN cold ELSE cold \cup {at}
  BY DEF SearchOn
<1>2. /\ abPc = "on" /\ off' = NoAnswer /\ UNCHANGED warm
      /\ abPc' \in {"off", "done"}
  BY DEF SearchOn
<1>3. at' \in 1..Questions
  BY RerankAssumption DEF SearchOn, WarmInv
<1>4. /\ embedded' \in Seq(1..Questions) /\ IsInjective(embedded')
      /\ Questions <= CacheSize =>
           /\ Range(embedded) \cup {at} \subseteq Range(embedded')
           /\ at \in warm => on.hit
  BY <1>1, WarmSearch
<1>5. Questions <= CacheSize => cold' \cap warm = {}
  BY <1>1, <1>2, <1>4 DEF WarmInv
<1> QED BY <1>2, <1>3, <1>4, <1>5 DEF WarmInv, NoAnswer

LEMMA WarmStep == WarmInv /\ [AbNext]_abVars => WarmInv'
<1> SUFFICES ASSUME WarmInv, [AbNext]_abVars PROVE WarmInv'
  OBVIOUS
<1>1. CASE Acquire
  BY <1>1 DEF Acquire, WarmInv, server, pairs
<1>2. CASE Abort
  BY <1>2 DEF Abort, WarmInv, server, pairs
<1>3. CASE UNCHANGED abVars
  BY <1>3 DEF abVars, WarmInv, server, pairs
<1> QED BY <1>1, <1>2, <1>3, WarmWarmup, WarmSearchOff, WarmSearchOn DEF AbNext

(* The warm-up request of a question keeps both of its measured arms warm,   *)
(* for any number of questions that the cache can hold, whichever other      *)
(* warm-up requests fail.                                                    *)
THEOREM WarmUpIsFair == AbSpec => []WarmedPairsAreFair
<1>1. WarmInv => WarmedPairsAreFair
  BY DEF WarmInv, WarmedPairsAreFair
<1> QED BY <1>1, WarmInit, WarmStep, PTL DEF AbSpec
-----------------------------------------------------------------------------
(* The answer sheet                                                        *)

AcceptedOf(n) == {i \in 1..n : stage[i] = "accepted"}

\* What the main thread has consumed, and what it kept of it.
KeptInv ==
    /\ kept \in Seq({attempts[i] : i \in DOMAIN stage})
    /\ Len(kept) = Cardinality(AcceptedOf(taken)) /\ Len(kept) <= Count
    /\ ToSet(kept) = {attempts[i] : i \in AcceptedOf(taken)}

TakenInv ==
    /\ DOMAIN stage = 1..Len(attempts)
    /\ taken \in Nat /\ 1..taken \subseteq DOMAIN stage
    /\ \A i \in 1..taken : stage[i] \in {"accepted", "rejected"}

\* The loop ends at the target, at the last attempt, or with an exception.
SheetInv ==
    /\ qaPc = "consume" => Len(kept) < Count /\ ~raised
    /\ qaPc = "cancel" => Len(kept) = Count
    /\ qaPc # "consume" => raised \/ Len(kept) = Count \/ taken = Len(attempts)
    /\ file # NoFile => file = ToSet(kept) /\ ~raised /\ qaPc # "consume"

QaInv == TakenInv /\ KeptInv /\ SheetInv

LEMMA CountFact == Count \in Nat /\ Count > 0
BY QaAssumption DEF QaAssumption

\* Once an attempt is consumed, its stage does not change.
LEMMA ConsumedStays ==
  ASSUME QaInv, UNCHANGED <<attempts, taken, kept, raised, file>>,
         DOMAIN stage' = DOMAIN stage,
         \A i \in 1..taken : stage'[i] = stage[i],
         \/ UNCHANGED qaPc
         \/ qaPc = "cancel" /\ qaPc' = "shutdown"
  PROVE  QaInv'
<1>1. AcceptedOf(taken)' = AcceptedOf(taken)
  BY DEF AcceptedOf
<1>2. TakenInv'
  BY DEF QaInv, TakenInv
<1>3. KeptInv'
  BY <1>1 DEF QaInv, KeptInv
<1>4. SheetInv'
  BY DEF QaInv, SheetInv
<1> QED
  BY <1>2, <1>3, <1>4 DEF QaInv

LEMMA AcceptedAreFinite ==
  ASSUME taken \in Nat
  PROVE  IsFiniteSet(AcceptedOf(taken)) /\ Cardinality(AcceptedOf(taken)) \in Nat
<1>1. IsFiniteSet(1..taken) /\ AcceptedOf(taken) \subseteq 1..taken
  BY FS_Interval DEF AcceptedOf
<1>2. IsFiniteSet(AcceptedOf(taken))
  BY <1>1, FS_Subset
<1> QED
  BY <1>2, FS_CardinalityType

LEMMA QaInitInv == ASSUME QaInit PROVE QaInv
<1>1. /\ stage = [i \in 1..Len(attempts) |-> "queued"]
      /\ taken = 0 /\ kept = <<>> /\ qaPc = "consume" /\ raised = FALSE /\ file = NoFile
  BY DEF QaInit
<1>2. AcceptedOf(taken) = {}
  BY <1>1 DEF AcceptedOf
<1>3. TakenInv
  BY <1>1 DEF TakenInv
<1>4. KeptInv
  <2>1. kept \in Seq({attempts[i] : i \in DOMAIN stage}) /\ Len(kept) = 0
    BY <1>1
  <2>2. Cardinality(AcceptedOf(taken)) = 0
    BY <1>2, FS_EmptySet
  <2>3. ToSet(kept) = {}
    BY <1>1 DEF ToSet
  <2> QED
    BY <1>2, <2>1, <2>2, <2>3, CountFact DEF KeptInv
<1>5. SheetInv
  BY <1>1, CountFact DEF SheetInv
<1> QED
  BY <1>3, <1>4, <1>5 DEF QaInv

LEMMA WorkerKeeps ==
  ASSUME QaInv, NEW i \in DOMAIN stage, Worker(i) PROVE QaInv'
<1>1. /\ UNCHANGED <<attempts, qaPc, taken, kept, raised, file>>
      /\ \/ stage' = stage
         \/ /\ stage[i] \in Calling \cup {"queued"}
            /\ \E next : stage' = [stage EXCEPT ![i] = next]
  BY DEF Worker, Start, Answered, Retried, Refused, Broken, EndsCall, Calling
<1>2. \A j \in 1..taken : stage[j] \in {"accepted", "rejected"}
  BY DEF QaInv, TakenInv
<1>3. DOMAIN stage' = DOMAIN stage /\ \A j \in 1..taken : stage'[j] = stage[j]
  <2>1. CASE stage' = stage
    BY <2>1
  <2>2. CASE /\ stage[i] \in Calling \cup {"queued"}
             /\ \E next : stage' = [stage EXCEPT ![i] = next]
    <3>1. PICK next : stage' = [stage EXCEPT ![i] = next]
      BY <2>2
    <3>2. \A j \in 1..taken : j # i
      BY <1>2, <2>2 DEF Calling
    <3>3. 1..taken \subseteq DOMAIN stage
      BY DEF QaInv, TakenInv
    <3> QED
      BY <3>1, <3>2, <3>3
  <2> QED
    BY <1>1, <2>1, <2>2
<1> QED
  BY <1>1, <1>3, ConsumedStays

LEMMA CancelKeeps == ASSUME QaInv, Cancel PROVE QaInv'
<1>1. /\ UNCHANGED <<attempts, taken, kept, raised, file>>
      /\ qaPc = "cancel" /\ qaPc' \in {"cancel", "shutdown"}
      /\ \/ stage' = stage
         \/ stage' = [stage EXCEPT ![cancelled + 1] = IF @ = "queued" THEN "cancelled" ELSE @]
  BY DEF Cancel
<1>2. \A j \in 1..taken : j \in DOMAIN stage /\ stage[j] # "queued"
  BY DEF QaInv, TakenInv
<1>3. DOMAIN stage' = DOMAIN stage /\ \A j \in 1..taken : stage'[j] = stage[j]
  BY <1>1, <1>2
<1> QED
  BY <1>1, <1>3, ConsumedStays

LEMMA ConsumeKeeps == ASSUME QaInv, Consume PROVE QaInv'
<1>1. qaPc = "consume" /\ UNCHANGED <<attempts, stage, file>>
  BY DEF Consume
<1>2. PICK i \in DOMAIN stage :
        /\ i = taken + 1
        /\ \/ raised' = TRUE /\ qaPc' = "shutdown" /\ UNCHANGED <<taken, kept>>
           \/ /\ stage[i] \in {"accepted", "rejected"} /\ taken' = i
              /\ kept' = IF stage[i] = "accepted" THEN Append(kept, attempts[i]) ELSE kept
              /\ qaPc' = IF Len(kept') >= Count THEN "cancel" ELSE "consume"
              /\ UNCHANGED raised
  BY DEF Consume, Takes
<1>3. /\ TakenInv /\ KeptInv /\ SheetInv /\ taken \in Nat
      /\ Len(kept) \in Nat /\ Len(kept) < Count /\ ~raised /\ file = NoFile
  BY <1>1 DEF QaInv, TakenInv, KeptInv, SheetInv
<1>4. CASE raised' = TRUE /\ qaPc' = "shutdown" /\ UNCHANGED <<taken, kept>>
  <2>1. AcceptedOf(taken)' = AcceptedOf(taken)
    BY <1>1, <1>4 DEF AcceptedOf
  <2> QED
    BY <1>1, <1>3, <1>4, <2>1 DEF QaInv, TakenInv, KeptInv, SheetInv
<1>5. CASE /\ stage[i] \in {"accepted", "rejected"} /\ taken' = i
           /\ kept' = IF stage[i] = "accepted" THEN Append(kept, attempts[i]) ELSE kept
           /\ qaPc' = IF Len(kept') >= Count THEN "cancel" ELSE "consume"
           /\ UNCHANGED raised
  <2>1. 1..taken' = 1..taken \cup {i} /\ i \notin 1..taken
    BY <1>2, <1>3, <1>5
  <2>2. TakenInv'
    BY <1>1, <1>2, <1>3, <1>5, <2>1 DEF TakenInv
  <2>3. KeptInv' /\ Len(kept') \in Nat
    <3> DEFINE S == {attempts[k] : k \in DOMAIN stage}
    <3>1. S' = S /\ kept \in Seq(S) /\ attempts[i] \in S
      BY <1>1, <1>3 DEF KeptInv
    <3>2. IsFiniteSet(AcceptedOf(taken)) /\ i \notin AcceptedOf(taken)
      <4>1. i \notin AcceptedOf(taken)
        BY <2>1 DEF AcceptedOf
      <4> QED
        BY <1>3, <4>1, AcceptedAreFinite
    <3>3. CASE stage[i] = "accepted"
      <4>1. AcceptedOf(taken)' = AcceptedOf(taken) \cup {i}
        BY <1>1, <2>1, <3>3 DEF AcceptedOf
      <4>2. kept' = Append(kept, attempts[i])
        BY <1>5, <3>3
      <4>3. /\ kept' \in Seq(S) /\ Len(kept') = Len(kept) + 1
            /\ \A k \in 1..Len(kept) : kept'[k] = kept[k]
            /\ kept'[Len(kept) + 1] = attempts[i]
        BY <3>1, <4>2, AppendProperties
      <4>4. ToSet(kept') = ToSet(kept) \cup {attempts[i]}
        BY <3>1, <4>3 DEF ToSet
      <4>5. Cardinality(AcceptedOf(taken)') = Len(kept')
        BY <1>3, <3>2, <4>1, <4>3, FS_AddElement DEF KeptInv
      <4>6. ToSet(kept)' = {attempts'[k] : k \in AcceptedOf(taken)'}
        BY <1>1, <1>3, <4>1, <4>4 DEF KeptInv, ToSet
      <4>7. Len(kept') <= Count
        BY <1>3, <4>3, CountFact
      <4>8. Len(kept') \in Nat
        BY <1>3, <4>3
      <4> QED
        BY <3>1, <4>3, <4>5, <4>6, <4>7, <4>8 DEF KeptInv
    <3>4. CASE stage[i] # "accepted"
      <4>1. AcceptedOf(taken)' = AcceptedOf(taken)
        BY <1>1, <2>1, <3>4 DEF AcceptedOf
      <4>2. kept' = kept /\ ToSet(kept)' = ToSet(kept)
        BY <1>5, <3>4 DEF ToSet
      <4> QED
        BY <1>1, <1>3, <4>1, <4>2 DEF KeptInv
    <3> QED
      BY <3>3, <3>4
  <2>4. SheetInv'
    <3>1. Len(kept') <= Count
      BY <2>3 DEF KeptInv
    <3>2. file' = NoFile /\ ~raised'
      BY <1>1, <1>3, <1>5
    <3>3. Len(kept') >= Count => Len(kept') = Count
      BY <2>3, <3>1, CountFact
    <3>4. ~(Len(kept') >= Count) => Len(kept') < Count
      BY <2>3, CountFact
    <3> QED
      BY <1>5, <3>2, <3>3, <3>4 DEF SheetInv
  <2> QED
    BY <2>2, <2>3, <2>4 DEF QaInv
<1> QED
  BY <1>2, <1>4, <1>5

LEMMA ExhaustedKeeps == ASSUME QaInv, Exhausted PROVE QaInv'
<1>1. /\ UNCHANGED <<attempts, stage, taken, kept, raised, file>>
      /\ qaPc = "consume" /\ qaPc' = "shutdown" /\ taken = Len(attempts)
  BY DEF Exhausted
<1>2. TakenInv'
  BY <1>1 DEF QaInv, TakenInv
<1>3. AcceptedOf(taken)' = AcceptedOf(taken) /\ ToSet(kept)' = ToSet(kept)
  BY <1>1 DEF AcceptedOf, ToSet
<1>4. KeptInv'
  BY <1>1, <1>3 DEF QaInv, KeptInv
<1>5. SheetInv'
  BY <1>1 DEF QaInv, SheetInv
<1> QED
  BY <1>2, <1>4, <1>5 DEF QaInv

LEMMA ExitKeeps == ASSUME QaInv, Exit PROVE QaInv'
<1>1. /\ UNCHANGED <<attempts, stage, taken, kept, raised>>
      /\ qaPc = "shutdown" /\ qaPc' = "exited"
      /\ file' = NoFile \/ (file' = ToSet(kept) /\ ~raised)
  BY DEF Exit
<1>2. SheetInv'
  BY <1>1 DEF QaInv, SheetInv, ToSet
<1> QED
  BY <1>1, <1>2 DEF QaInv, TakenInv, KeptInv, AcceptedOf, ToSet

LEMMA QaStep == QaInv /\ [QaNext]_qaVars => QaInv'
<1>1. ASSUME QaInv, UNCHANGED qaVars PROVE QaInv'
  BY <1>1 DEF qaVars, QaInv, TakenInv, KeptInv, SheetInv, AcceptedOf, ToSet
<1> QED
  BY <1>1, WorkerKeeps, ConsumeKeeps, ExhaustedKeeps, CancelKeeps, ExitKeeps
  DEF QaNext, Main

\* What the main thread has consumed and kept, whatever the threads do.
THEOREM SheetInvariant == QaSpec => []QaInv
BY QaInitInv, QaStep, PTL DEF QaSpec

\* For any sample, any number of threads and any order in which they finish: the
\* sheet holds the first accepted attempts, in the order of submission.
THEOREM SheetIsReproducible == QaSpec => []KeepsFirstAccepted
<1>1. ASSUME QaInv, file # NoFile PROVE KeepsFirstAccepted
  <2> DEFINE accepted == {i \in DOMAIN stage : stage[i] = "accepted"}
             before(i) == {j \in accepted : j < i}
             A == AcceptedOf(taken)
  <2>1. /\ taken \in Nat /\ DOMAIN stage = 1..Len(attempts)
        /\ 1..taken \subseteq DOMAIN stage
    BY <1>1 DEF QaInv, TakenInv
  <2>2. file = {attempts[i] : i \in A} /\ Cardinality(A) = Len(kept)
        /\ Len(kept) <= Count /\ (Len(kept) = Count \/ taken = Len(attempts))
    BY <1>1 DEF QaInv, KeptInv, SheetInv
  <2>3. IsFiniteSet(A) /\ Cardinality(A) \in Nat
    BY <2>1, AcceptedAreFinite
  <2>4. ASSUME NEW i \in A PROVE i \in accepted /\ Cardinality(before(i)) < Count
    <3>1. i \in accepted /\ i \in 1..taken
      BY <2>1 DEF AcceptedOf
    <3>2. before(i) \subseteq A \ {i}
      BY <2>1, <3>1 DEF AcceptedOf
    <3>3. /\ IsFiniteSet(A \ {i}) /\ Cardinality(A \ {i}) = Cardinality(A) - 1
      BY <2>3, FS_RemoveElement
    <3>4. Cardinality(before(i)) <= Cardinality(A) - 1 /\ Cardinality(before(i)) \in Nat
      BY <3>2, <3>3, FS_Subset, FS_CardinalityType
    <3> QED
      BY <2>2, <2>3, <3>1, <3>4, CountFact
  <2>5. ASSUME NEW i \in accepted, i \notin A PROVE ~(Cardinality(before(i)) < Count)
    <3>1. i \in Int /\ 1 <= i /\ i \notin 1..taken
      BY <2>1, <2>5 DEF AcceptedOf
    <3>2. i > taken
      BY <2>1, <3>1
    <3>3. taken # Len(attempts)
      BY <2>1, <3>2
    <3>4. A \subseteq before(i)
      BY <2>1, <3>1, <3>2 DEF AcceptedOf
    <3>5. IsFiniteSet(before(i))
      <4>1. before(i) \subseteq 1..i
        BY <2>1, <3>1
      <4> QED
        BY <3>1, <4>1, FS_Interval, FS_Subset
    <3>6. Count <= Cardinality(before(i)) /\ Cardinality(before(i)) \in Nat
      BY <2>2, <3>3, <3>4, <3>5, FS_Subset, FS_CardinalityType
    <3> QED
      BY <3>6, CountFact
  <2> HIDE DEF A, before
  <2>6. {k \in accepted : Cardinality(before(k)) < Count} = A
    BY <2>4, <2>5
  <2> QED
    BY <2>2, <2>6 DEF KeepsFirstAccepted, before
<1>2. QaInv => KeepsFirstAccepted
  BY <1>1 DEF KeepsFirstAccepted
<1> QED
  BY <1>2, SheetInvariant, PTL

-----------------------------------------------------------------------------
(* The pure functions of the scripts (EvalMetrics), for inputs of any length. *)
(* A fold is a function on the subsets of its domain; two functions that obey *)
(* the same recursion there agree.                                            *)

LEMMA FoldsAgree ==
  ASSUME NEW S, IsFiniteSet(S), NEW f, NEW g, f[{}] = g[{}],
         \A s \in SUBSET S : s # {} =>
            \E x \in s : f[s \ {x}] = g[s \ {x}] => f[s] = g[s]
  PROVE  f[S] = g[S]
<1> DEFINE R   == StrictSubsetOrdering(S)
           Bad == {s \in SUBSET S : f[s] # g[s]}
<1>1. Bad \subseteq FiniteSubsetsOf(S)
  BY FS_Subset DEF FiniteSubsetsOf
<1>2. IsWellFoundedOn(R, FiniteSubsetsOf(S))
  BY FS_StrictSubsetOrderingWellFounded
<1>3. SUFFICES ASSUME Bad # {} PROVE FALSE
  OBVIOUS
<1> HIDE DEF R, Bad
<1>4. PICK s \in Bad : \A t \in Bad : <<t, s>> \notin R
  BY <1>1, <1>2, <1>3, WFMin
<1>5. s \in SUBSET S /\ f[s] # g[s]
  BY <1>4 DEF Bad
<1>6. PICK x \in s : f[s \ {x}] = g[s \ {x}] => f[s] = g[s]
  BY <1>5
<1>7. s \ {x} \in Bad
  BY <1>5, <1>6 DEF Bad
<1>8. <<s \ {x}, s>> \in R
  BY <1>5, <1>6 DEF R, StrictSubsetOrdering
<1> QED
  BY <1>4, <1>7, <1>8

\* grown() of the scan, and the function its fold picks.
Longer(q, c, best, i) ==
  Max({best} \cup {j \in (best + 1)..(Len(q) - i + 1) :
         \A k \in (best + 1)..j : Occurs(SubSeq(q, i, i + k - 1), c)})

IsScan(f, q, c) ==
  f = [s \in SUBSET DOMAIN Positions(q) |->
         IF s = {} THEN 0
         ELSE Longer(q, c, f[s \ {Max(s)}], Positions(q)[Max(s)])]

LEMMA ScanIsFold ==
  ASSUME NEW q, NEW c
  PROVE  MaxSharedNgram(q, c) = (CHOOSE f : IsScan(f, q, c))[DOMAIN Positions(q)]
BY DEF MaxSharedNgram, FoldLeft, MapThenFoldSet, IsScan, Longer

LEMMA MaxOfBounded ==
  ASSUME NEW n \in Nat, NEW S \in SUBSET (0..n), S # {}
  PROVE  Max(S) \in S /\ \A x \in S : x <= Max(S)
<1> DEFINE T == {x..n : x \in S}
           R == StrictSubsetOrdering(Int)
<1>1. T \subseteq FiniteSubsetsOf(Int) /\ T # {}
  <2>1. \A x \in S : x..n \in SUBSET Int /\ IsFiniteSet(x..n)
    BY FS_Interval
  <2> QED BY <2>1 DEF FiniteSubsetsOf
<1>2. IsWellFoundedOn(R, FiniteSubsetsOf(Int))
  BY FS_StrictSubsetOrderingWellFounded
<1> HIDE DEF T, R
<1>3. PICK U \in T : \A V \in T : <<V, U>> \notin R
  BY <1>1, <1>2, WFMin
<1>4. PICK m \in S : U = m..n
  BY DEF T
<1>5. ASSUME NEW x \in S PROVE x <= m
  <2>1. <<x..n, m..n>> \notin R
    BY <1>3, <1>4 DEF T
  <2>2. ASSUME m < x PROVE FALSE
    <3>1. x..n \subseteq m..n /\ m \in m..n /\ m \notin x..n
      BY <2>2
    <3> QED BY <2>1, <3>1 DEF R, StrictSubsetOrdering
  <2> QED BY <2>2
<1> QED BY <1>5 DEF Max

LEMMA MaxIs ==
  ASSUME NEW n \in Nat, NEW S \in SUBSET (0..n), NEW m \in S, \A x \in S : x <= m
  PROVE  Max(S) = m
<1>1. Max(S) \in S /\ m <= Max(S)
  BY MaxOfBounded
<1>2. Max(S) <= m /\ Max(S) \in 0..n /\ m \in 0..n
  BY <1>1
<1> QED BY <1>1, <1>2

Piece(q, i, j) == SubSeq(q, i, i + j - 1)

\* Letter by letter, the text after position k is the piece.
Matches(q, i, j, c, k) == \A m \in 1..j : c[k + m] = q[i + m - 1]

LEMMA OccursAt ==
  ASSUME NEW L, NEW q \in Seq(L), NEW c \in Seq(L),
         NEW i \in 1..Len(q), NEW j \in 1..(Len(q) - i + 1)
  PROVE  /\ Len(Piece(q, i, j)) = j
         /\ Occurs(Piece(q, i, j), c) <=>
              \E k \in 0..(Len(c) - j) : Matches(q, i, j, c, k)
<1> DEFINE p == Piece(q, i, j)
<1>1. p \in Seq(L) /\ Len(p) = j /\ \A m \in 1..j : p[m] = q[i + m - 1]
  BY SubSeqProperties DEF Piece
<1>2. ASSUME NEW k \in 0..(Len(c) - j)
      PROVE  SubSeq(c, k + 1, k + j) = p <=> Matches(q, i, j, c, k)
  <2> DEFINE r == SubSeq(c, k + 1, k + j)
  <2>1. r \in Seq(L) /\ Len(r) = j /\ \A m \in 1..j : r[m] = c[k + m]
    BY SubSeqProperties
  <2>2. r = p <=> \A m \in 1..j : r[m] = p[m]
    BY <1>1, <2>1, SeqEqual
  <2> QED BY <1>1, <2>1, <2>2 DEF Matches
<1> QED BY <1>1, <1>2 DEF Occurs

\* The lengths of the pieces that begin at one of these positions and occur.
Found(s, q, c) ==
  {0} \cup {j \in 1..Len(q) :
              \E i \in s : i + j - 1 <= Len(q) /\ Occurs(Piece(q, i, j), c)}

LEMMA ShorterOccurs ==
  ASSUME NEW L, NEW q \in Seq(L), NEW c \in Seq(L),
         NEW i \in 1..Len(q), NEW j \in 1..(Len(q) - i + 1), NEW k \in 1..j,
         Occurs(Piece(q, i, j), c)
  PROVE  Occurs(Piece(q, i, k), c)
<1>0. /\ Len(q) \in Nat /\ Len(c) \in Nat /\ i \in Nat /\ j \in Nat /\ k \in Nat
      /\ k \in 1..(Len(q) - i + 1)
  OBVIOUS
<1>1. PICK a \in 0..(Len(c) - j) : Matches(q, i, j, c, a)
  BY OccursAt
<1>2. a \in 0..(Len(c) - k)
  BY <1>0
<1>3. Matches(q, i, k, c, a)
  <2>1. 1..k \subseteq 1..j
    BY <1>0
  <2> QED BY <1>1, <2>1, Zenon DEF Matches
<1> QED BY <1>0, <1>2, <1>3, OccursAt

LEMMA LongerIs ==
  ASSUME NEW L, NEW q \in Seq(L), NEW c \in Seq(L),
         NEW s \in SUBSET (1..Len(q)), NEW x \in s
  PROVE  Longer(q, c, Max(Found(s \ {x}, q, c)), x) = Max(Found(s, q, c))
<1> DEFINE n    == Len(q)
           F    == Found(s \ {x}, q, c)
           best == Max(F)
           top  == Max(Found(s, q, c))
           G    == {j \in (best + 1)..(n - x + 1) :
                      \A k \in (best + 1)..j : Occurs(SubSeq(q, x, x + k - 1), c)}
<1>1. n \in Nat /\ x \in 1..n
  OBVIOUS
<1>2. /\ F \in SUBSET (0..n) /\ F # {}
      /\ Found(s, q, c) \in SUBSET (0..n) /\ Found(s, q, c) # {}
  BY <1>1 DEF Found
<1>3. /\ best \in F /\ \A j \in F : j <= best
      /\ top \in Found(s, q, c) /\ \A j \in Found(s, q, c) : j <= top
  BY <1>1, <1>2, MaxOfBounded
<1>4. F \subseteq Found(s, q, c)
  BY DEF Found
<1>5. best \in 0..n /\ top \in 0..n /\ best <= top
  BY <1>2, <1>3, <1>4
<1> HIDE DEF F, best, top
<1>6. ASSUME NEW j \in G PROVE j \in Found(s, q, c)
  <2>1. j \in 1..n /\ x + j - 1 <= n
    BY <1>1, <1>5
  <2>2. Occurs(Piece(q, x, j), c)
    <3>1. j \in (best + 1)..j
      BY <1>5
    <3> QED BY <3>1 DEF Piece
  <2> QED BY <2>1, <2>2 DEF Found
<1>7. top \in {best} \cup G
  <2>1. SUFFICES ASSUME top # best PROVE top \in G
    OBVIOUS
  <2>2. top > best /\ top \notin F /\ top \in 1..n
    BY <1>3, <1>5, <2>1
  <2>3. x + top - 1 <= n /\ Occurs(Piece(q, x, top), c)
    BY <1>3, <2>2 DEF Found, F
  <2>4. top \in 1..(n - x + 1)
    BY <1>1, <2>2, <2>3
  <2>5. ASSUME NEW k \in (best + 1)..top
        PROVE  Occurs(SubSeq(q, x, x + k - 1), c)
    <3>1. k \in 1..top
      BY <1>5
    <3> QED BY <1>1, <2>3, <2>4, <3>1, ShorterOccurs DEF Piece
  <2> QED BY <1>5, <2>2, <2>4, <2>5
<1>8. {best} \cup G \in SUBSET (0..n) /\ \A j \in {best} \cup G : j <= top
  BY <1>2, <1>3, <1>5, <1>6
<1>9. Max({best} \cup G) = top
  BY <1>1, <1>7, <1>8, MaxIs
<1> QED BY <1>9 DEF Longer, best, F, top

LEMMA ScanFinds ==
  ASSUME NEW L, NEW q \in Seq(L), NEW c \in Seq(L)
  PROVE  MaxSharedNgram(q, c) = Max(Found(1..Len(q), q, c))
<1> DEFINE D == 1..Len(q)
           f == [s \in SUBSET D |-> Max(Found(s, q, c))]
           g == CHOOSE h : IsScan(h, q, c)
<1>1. /\ DOMAIN Positions(q) = D /\ \A i \in D : Positions(q)[i] = i
      /\ Len(q) \in Nat
  BY DEF Positions
<1>2. f[{}] = 0
  <2>1. Found({}, q, c) = {0}
    BY DEF Found
  <2>2. Max({0}) = 0
    BY MaxIs
  <2> QED BY <2>1, <2>2
<1>3. ASSUME NEW s \in SUBSET D, s # {} PROVE Max(s) \in s
  <2>1. s \in SUBSET (0..Len(q))
    BY <1>1
  <2> QED BY <1>1, <1>3, <2>1, MaxOfBounded
<1>4. ASSUME NEW s \in SUBSET D, s # {}
      PROVE  f[s] = Longer(q, c, f[s \ {Max(s)}], Max(s))
  <2>1. Max(s) \in s /\ s \ {Max(s)} \in SUBSET D
    BY <1>3, <1>4
  <2> QED BY <2>1, LongerIs
<1> HIDE DEF f
<1>5. IsScan(f, q, c)
  <2> DEFINE h == [s \in SUBSET D |->
                     IF s = {} THEN 0 ELSE Longer(q, c, f[s \ {Max(s)}], Positions(q)[Max(s)])]
  <2>1. ASSUME NEW s \in SUBSET D PROVE f[s] = h[s]
    <3>1. CASE s = {}
      BY <1>2, <3>1
    <3>2. CASE s # {}
      BY <1>1, <1>3, <1>4, <3>2
    <3> QED BY <3>1, <3>2
  <2>2. f = [s \in SUBSET D |-> f[s]]
    BY DEF f
  <2>3. f = h
    BY <2>1, <2>2
  <2> QED BY <1>1, <2>3 DEF IsScan
<1>6. IsScan(g, q, c)
  BY <1>5
<1> HIDE DEF g
<1>7. /\ g[{}] = 0
      /\ \A s \in SUBSET D : s # {} => g[s] = Longer(q, c, g[s \ {Max(s)}], Max(s))
  BY <1>1, <1>3, <1>6 DEF IsScan
<1>8. \A s \in SUBSET D : s # {} =>
         \E x \in s : g[s \ {x}] = f[s \ {x}] => g[s] = f[s]
  BY <1>3, <1>4, <1>7
<1>9. IsFiniteSet(D)
  BY <1>1, FS_Interval
<1>10. g[D] = f[D]
  <2>1. g[{}] = f[{}]
    BY <1>2, <1>7
  <2> HIDE DEF D
  <2> QED BY <1>8, <1>9, <2>1, FoldsAgree
<1>11. f[D] = Max(Found(D, q, c))
  BY DEF f
<1> QED BY <1>1, <1>10, <1>11, ScanIsFold DEF g

(* max_shared_ngram() returns the length of the longest common string, for    *)
(* any question and any excerpt, whatever their letters.                      *)
THEOREM OverlapIsExact ==
  ASSUME NEW L, question \in Seq(L), excerpt \in Seq(L)
  PROVE  SharedNgramIsLongest
<1> DEFINE q == question
           c == excerpt
           n == Len(q)
           C == {Len(s) : s \in SubSeqs(q) \cap SubSeqs(c)}
<1>1. ASSUME NEW j \in Found(1..n, q, c) PROVE j \in C
  <2>1. CASE j = 0
    <3>1. SubSeq(q, 0 + 1, 0) = <<>> /\ SubSeq(c, 0 + 1, 0) = <<>>
      BY SubSeqEmpty
    <3>2. <<>> \in SubSeqs(q) /\ <<>> \in SubSeqs(c)
      BY <3>1 DEF SubSeqs
    <3> QED BY <2>1, <3>2
  <2>2. CASE j # 0
    <3>1. PICK i \in 1..n : j \in 1..n /\ i + j - 1 <= n /\ Occurs(Piece(q, i, j), c)
      BY <2>2 DEF Found
    <3>2. j \in 1..(n - i + 1)
      BY <3>1
    <3>3. Len(Piece(q, i, j)) = j
      BY <3>1, <3>2, OccursAt
    <3>4. PICK k \in 0..(Len(c) - j) : SubSeq(c, k + 1, k + j) = Piece(q, i, j)
      BY <3>1, <3>3 DEF Occurs
    <3>5. Piece(q, i, j) \in SubSeqs(c)
      <4>1. k \in 0..Len(c) /\ k + j \in 0..Len(c)
        BY <3>1
      <4> QED BY <3>4, <4>1 DEF SubSeqs
    <3>6. Piece(q, i, j) \in SubSeqs(q)
      <4>1. i - 1 \in 0..n /\ i + j - 1 \in 0..n /\ (i - 1) + 1 = i
        BY <3>1
      <4>2. Piece(q, i, j) = SubSeq(q, (i - 1) + 1, i + j - 1)
        BY <4>1 DEF Piece
      <4>3. \E a, b \in 0..n : Piece(q, i, j) = SubSeq(q, a + 1, b)
        BY <4>1, <4>2
      <4> QED BY <4>3 DEF SubSeqs
    <3> QED BY <3>3, <3>5, <3>6
  <2> QED BY <2>1, <2>2
<1>2. ASSUME NEW s \in SubSeqs(q) \cap SubSeqs(c) PROVE Len(s) \in Found(1..n, q, c)
  <2>1. PICK a \in 0..n, b \in 0..n : s = SubSeq(q, a + 1, b)
    BY DEF SubSeqs
  <2>2. PICK d \in 0..Len(c), e \in 0..Len(c) : s = SubSeq(c, d + 1, e)
    BY DEF SubSeqs
  <2>3. Len(s) = IF a + 1 <= b THEN b - a ELSE 0
    BY <2>1, SubSeqProperties
  <2>4. Len(s) = IF d + 1 <= e THEN e - d ELSE 0
    BY <2>2, SubSeqProperties
  <2>5. CASE a + 1 <= b
    <3>1. /\ Len(s) = b - a /\ e = d + Len(s) /\ Len(s) \in 1..n
          /\ a + 1 \in 1..n /\ (a + 1) + Len(s) - 1 = b /\ d \in 0..(Len(c) - Len(s))
      BY <2>3, <2>4, <2>5
    <3>2. Piece(q, a + 1, Len(s)) = s
      BY <2>1, <3>1 DEF Piece
    <3>3. Occurs(s, c)
      BY <2>2, <3>1 DEF Occurs
    <3>4. /\ Occurs(Piece(q, a + 1, Len(s)), c) /\ (a + 1) + Len(s) - 1 <= n
      BY <3>1, <3>2, <3>3
    <3> QED BY <3>1, <3>4 DEF Found
  <2>6. CASE ~(a + 1 <= b)
    BY <2>3, <2>6 DEF Found
  <2> QED BY <2>5, <2>6
<1>3. C = Found(1..n, q, c)
  BY <1>1, <1>2
<1> QED BY <1>3, ScanFinds DEF SharedNgramIsLongest

-----------------------------------------------------------------------------
(* The sign test.  The binomial coefficients it adds up count subsets: first  *)
(* the factorial function exists, then Pascal's rule, then the sum.           *)

\* Induction: a set with 0 that is closed under the successor.
LEMMA NatInduct ==
  ASSUME NEW S, 0 \in S, \A n \in Nat : n \in S => n + 1 \in S
  PROVE  Nat \subseteq S
<1> DEFINE R == StrictSubsetOrdering(Nat)
           T == {0..n : n \in Nat \ S}
<1>1. SUFFICES ASSUME Nat \ S # {} PROVE FALSE
  OBVIOUS
<1>2. T \subseteq FiniteSubsetsOf(Nat) /\ T # {}
  <2>1. \A n \in Nat : 0..n \in SUBSET Nat /\ IsFiniteSet(0..n)
    BY FS_Interval
  <2> QED BY <1>1, <2>1 DEF FiniteSubsetsOf
<1>3. IsWellFoundedOn(R, FiniteSubsetsOf(Nat))
  BY FS_StrictSubsetOrderingWellFounded
<1> HIDE DEF T, R
<1>4. PICK U \in T : \A V \in T : <<V, U>> \notin R
  BY <1>2, <1>3, WFMin
<1>5. PICK n \in Nat \ S : U = 0..n
  BY DEF T
<1>6. n - 1 \in Nat \ S
  BY <1>5
<1>7. 0..(n - 1) \in SUBSET Nat /\ 0..n \in SUBSET Nat /\ 0..(n - 1) \subseteq 0..n
  BY <1>5, <1>6
<1>8. n \in 0..n /\ n \notin 0..(n - 1)
  BY <1>5
<1>9. <<0..(n - 1), 0..n>> \in R
  BY <1>7, <1>8 DEF R, StrictSubsetOrdering
<1> QED BY <1>4, <1>5, <1>6, <1>9 DEF T

\* n factorial, up to n.
IsFactorial(f, n) ==
  /\ f \in [0..n -> Nat]
  /\ \A i \in 0..n : f[i] = IF i = 0 THEN 1 ELSE i * f[i - 1]

LEMMA FactorialUpTo ==
  ASSUME NEW n \in Nat
  PROVE  \E f : IsFactorial(f, n)
<1> DEFINE S == {k \in Nat : \E f : IsFactorial(f, k)}
<1>1. 0 \in S
  <2>1. IsFactorial([i \in 0..0 |-> 1], 0)
    BY DEF IsFactorial
  <2> QED BY <2>1
<1>2. ASSUME NEW k \in S PROVE k + 1 \in S
  <2>1. k \in Nat
    OBVIOUS
  <2>2. PICK f : IsFactorial(f, k)
    OBVIOUS
  <2>3. /\ f \in [0..k -> Nat]
        /\ \A i \in 0..k : f[i] = IF i = 0 THEN 1 ELSE i * f[i - 1]
    BY <2>2 DEF IsFactorial
  <2> DEFINE m == (k + 1) * f[k]
             g == [i \in 0..(k + 1) |-> IF i = k + 1 THEN m ELSE f[i]]
  <2>4. m \in Nat
    BY <2>1, <2>3
  <2>5. g \in [0..(k + 1) -> Nat]
    BY <2>1, <2>3, <2>4
  <2>6. ASSUME NEW i \in 0..(k + 1)
        PROVE  g[i] = IF i = 0 THEN 1 ELSE i * g[i - 1]
    <3>1. CASE i = k + 1
      <4>1. k \in 0..(k + 1) /\ k # k + 1 /\ i # 0 /\ i - 1 = k
        BY <2>1, <3>1
      <4>2. g[i] = m /\ g[k] = f[k]
        BY <3>1, <4>1
      <4> HIDE DEF g
      <4> QED BY <3>1, <4>1, <4>2
    <3>2. CASE i # k + 1
      <4>1. i \in 0..k /\ i \in Nat /\ (i # 0 => i - 1 \in 0..(k + 1) /\ i - 1 # k + 1)
        BY <2>1, <3>2
      <4>2. g[i] = f[i] /\ (i # 0 => g[i - 1] = f[i - 1])
        BY <3>2, <4>1
      <4> HIDE DEF g
      <4> QED BY <2>3, <4>1, <4>2
    <3> QED BY <3>1, <3>2
  <2> HIDE DEF g
  <2>7. IsFactorial(g, k + 1)
    BY <2>5, <2>6 DEF IsFactorial
  <2> QED BY <2>1, <2>7
<1> HIDE DEF S
<1>3. Nat \subseteq S
  BY <1>1, <1>2, NatInduct
<1> QED BY <1>3 DEF S

LEMMA FactorialUnique ==
  ASSUME NEW m \in Nat, NEW n \in Nat, m <= n,
         NEW f, IsFactorial(f, m), NEW g, IsFactorial(g, n)
  PROVE  f[m] = g[m]
<1> DEFINE S == {k \in Nat : k <= m => f[k] = g[k]}
<1>1. 0 \in S
  BY DEF IsFactorial
<1>2. ASSUME NEW k \in Nat, k \in S PROVE k + 1 \in S
  <2>1. CASE k + 1 <= m
    <3>1. k + 1 \in 0..m /\ k + 1 \in 0..n /\ k + 1 # 0 /\ (k + 1) - 1 = k
      BY <2>1
    <3>2. f[k + 1] = (k + 1) * f[k] /\ g[k + 1] = (k + 1) * g[k]
      BY <3>1 DEF IsFactorial
    <3>3. f[k] = g[k]
      BY <1>2, <2>1
    <3> QED BY <3>2, <3>3
  <2>2. CASE ~(k + 1 <= m)
    BY <2>2
  <2> QED BY <2>1, <2>2
<1> HIDE DEF S
<1>3. m \in S
  BY <1>1, <1>2, NatInduct
<1> QED BY <1>3 DEF S

LEMMA FactorialIs ==
  /\ factorial[0] = 1
  /\ \A n \in Nat : factorial[n] \in Nat \ {0} /\ factorial[n + 1] = (n + 1) * factorial[n]
<1> DEFINE P(n) == CHOOSE f : IsFactorial(f, n)
           F == [n \in Nat |-> P(n)[n]]
           Eq(f) == f = [n \in Nat |-> IF n = 0 THEN 1 ELSE n * f[n - 1]]
<1>1. \A n \in Nat : IsFactorial(P(n), n)
  BY FactorialUpTo
<1> HIDE DEF P
<1>2. ASSUME NEW n \in Nat
      PROVE  F[n] = IF n = 0 THEN 1 ELSE n * F[n - 1]
  <2>1. F[n] = P(n)[n]
    OBVIOUS
  <2>2. P(n)[n] = IF n = 0 THEN 1 ELSE n * P(n)[n - 1]
    BY <1>1 DEF IsFactorial
  <2>3. ASSUME n # 0 PROVE F[n - 1] = P(n)[n - 1]
    <3>1. n - 1 \in Nat /\ n - 1 <= n
      BY <2>3
    <3>2. F[n - 1] = P(n - 1)[n - 1]
      BY <3>1
    <3> QED BY <1>1, <3>1, <3>2, FactorialUnique
  <2> QED BY <2>1, <2>2, <2>3
<1>3. F = [n \in Nat |-> F[n]]
  OBVIOUS
<1> HIDE DEF F
<1>4. Eq(F)
  BY <1>2, <1>3
<1>5. Eq(factorial)
  <2>1. factorial = CHOOSE f : Eq(f)
    BY DEF factorial
  <2> HIDE DEF Eq
  <2> QED BY <1>4, <2>1
<1>6. \A n \in Nat : factorial[n] = IF n = 0 THEN 1 ELSE n * factorial[n - 1]
  BY <1>5
<1> DEFINE S == {n \in Nat : factorial[n] \in Nat \ {0}}
<1>7. 0 \in S
  BY <1>6
<1>8. \A n \in Nat : factorial[n + 1] = (n + 1) * factorial[n]
  <2> TAKE n \in Nat
  <2>1. n + 1 \in Nat /\ n + 1 # 0 /\ (n + 1) - 1 = n
    OBVIOUS
  <2> QED BY <1>6, <2>1
<1>9. ASSUME NEW n \in Nat, n \in S PROVE n + 1 \in S
  <2>1. factorial[n] \in Nat \ {0} /\ n + 1 \in Nat \ {0}
    BY <1>9
  <2>2. (n + 1) * factorial[n] \in Nat \ {0}
    BY <2>1
  <2> QED BY <1>8, <2>2
<1> HIDE DEF S
<1>10. Nat \subseteq S
  BY <1>7, <1>9, NatInduct
<1> QED BY <1>6, <1>8, <1>10 DEF S

\* The ways in which k of n pairs come out tails.
Sized(n, k) == {T \in SUBSET (1..n) : Cardinality(T) = k}
Ways(n, k) == Cardinality(Sized(n, k))

LEMMA SubsetsOfPairs ==
  ASSUME NEW n \in Nat
  PROVE  /\ IsFiniteSet(1..n) /\ Cardinality(1..n) = n
         /\ \A T \in SUBSET (1..n) :
              /\ IsFiniteSet(T) /\ Cardinality(T) \in 0..n
              /\ Cardinality(T) = n => T = 1..n
         /\ \A F \in SUBSET SUBSET (1..n) : IsFiniteSet(F) /\ Cardinality(F) \in Nat
<1>1. IsFiniteSet(1..n) /\ Cardinality(1..n) = n
  BY FS_Interval
<1>2. ASSUME NEW T \in SUBSET (1..n)
      PROVE  /\ IsFiniteSet(T) /\ Cardinality(T) \in 0..n
             /\ Cardinality(T) = n => T = 1..n
  <2>1. IsFiniteSet(T) /\ Cardinality(T) <= n /\ (Cardinality(T) = n => T = 1..n)
    BY <1>1, FS_Subset
  <2>2. Cardinality(T) \in Nat
    BY <2>1, FS_CardinalityType
  <2> QED BY <2>1, <2>2
<1>3. ASSUME NEW F \in SUBSET SUBSET (1..n)
      PROVE  IsFiniteSet(F) /\ Cardinality(F) \in Nat
  BY <1>1, FS_SUBSET, FS_Subset, FS_CardinalityType
<1> QED BY <1>1, <1>2, <1>3

LEMMA WaysType ==
  ASSUME NEW n \in Nat, NEW k
  PROVE  Sized(n, k) \in SUBSET SUBSET (1..n) /\ IsFiniteSet(Sized(n, k)) /\ Ways(n, k) \in Nat
<1>1. Sized(n, k) \in SUBSET SUBSET (1..n)
  BY DEF Sized
<1> QED BY <1>1, SubsetsOfPairs DEF Ways

LEMMA WaysEnds ==
  ASSUME NEW n \in Nat
  PROVE  Ways(n, 0) = 1 /\ Ways(n, n) = 1
<1>1. Sized(n, 0) = {{}}
  <2>1. \A T \in SUBSET (1..n) : IsFiniteSet(T)
    BY SubsetsOfPairs
  <2>2. ASSUME NEW T \in SUBSET (1..n) PROVE Cardinality(T) = 0 <=> T = {}
    BY <2>1, FS_EmptySet
  <2> QED BY <2>2 DEF Sized
<1>2. Sized(n, n) = {1..n}
  BY SubsetsOfPairs DEF Sized
<1> QED BY <1>1, <1>2, FS_Singleton DEF Ways

\* Pascal's rule: the last pair is not among the tails, or it is.
LEMMA Pascal ==
  ASSUME NEW n \in Nat, NEW k \in 1..n
  PROVE  Ways(n + 1, k) = Ways(n, k) + Ways(n, k - 1)
<1> DEFINE A == Sized(n, k)
           B == Sized(n, k - 1)
           C == {T \cup {n + 1} : T \in B}
           add == [T \in B |-> T \cup {n + 1}]
<1>1. /\ \A T \in SUBSET (1..n) : IsFiniteSet(T) /\ n + 1 \notin T
      /\ \A T \in SUBSET (1..(n + 1)) : IsFiniteSet(T) /\ Cardinality(T) \in Nat
      /\ n + 1 \in Nat /\ 1..(n + 1) = (1..n) \cup {n + 1}
  <2>1. n + 1 \in Nat /\ 1..(n + 1) = (1..n) \cup {n + 1} /\ n + 1 \notin 1..n
    OBVIOUS
  <2> QED BY <2>1, SubsetsOfPairs
<1>2. ASSUME NEW T \in SUBSET (1..n)
      PROVE  Cardinality(T \cup {n + 1}) = Cardinality(T) + 1 /\ Cardinality(T) \in Nat
  BY <1>1, FS_AddElement, FS_CardinalityType
<1>3. Sized(n + 1, k) = A \cup C
  <2>1. ASSUME NEW T \in Sized(n + 1, k) PROVE T \in A \cup C
    <3>1. T \in SUBSET (1..(n + 1)) /\ Cardinality(T) = k
      BY DEF Sized
    <3>2. CASE n + 1 \in T
      <4>1. /\ T \ {n + 1} \in SUBSET (1..n)
            /\ T = (T \ {n + 1}) \cup {n + 1}
        BY <1>1, <3>1, <3>2
      <4>2. Cardinality(T \ {n + 1}) = k - 1
        BY <1>2, <3>1, <4>1
      <4>3. T \ {n + 1} \in B
        BY <4>1, <4>2 DEF Sized
      <4> QED BY <4>1, <4>3
    <3>3. CASE n + 1 \notin T
      BY <1>1, <3>1, <3>3 DEF Sized
    <3> QED BY <3>2, <3>3
  <2>2. A \subseteq Sized(n + 1, k)
    BY <1>1 DEF Sized
  <2>3. ASSUME NEW T \in B PROVE T \cup {n + 1} \in Sized(n + 1, k)
    <3>1. T \in SUBSET (1..n) /\ Cardinality(T) = k - 1
      BY DEF Sized
    <3>2. T \cup {n + 1} \in SUBSET (1..(n + 1)) /\ Cardinality(T \cup {n + 1}) = k
      BY <1>1, <1>2, <3>1
    <3> QED BY <3>2 DEF Sized
  <2> QED BY <2>1, <2>2, <2>3
<1>4. A \cap C = {}
  BY <1>1 DEF Sized
<1>5. add \in Bijection(B, C)
  <2>1. add \in [B -> C]
    OBVIOUS
  <2>2. ASSUME NEW a \in B, NEW b \in B, add[a] = add[b] PROVE a = b
    <3>1. a \cup {n + 1} = b \cup {n + 1} /\ n + 1 \notin a /\ n + 1 \notin b
      BY <1>1, <2>2 DEF Sized
    <3> QED BY <3>1
  <2>3. \A t \in C : \E s \in B : add[s] = t
    OBVIOUS
  <2> HIDE DEF add, C, B
  <2> QED BY <2>1, <2>2, <2>3, Fun_IsBij
<1>6. IsFiniteSet(A) /\ IsFiniteSet(B) /\ Cardinality(A) \in Nat /\ Cardinality(B) \in Nat
  BY WaysType DEF Ways
<1> HIDE DEF A, B, C, add
<1>7. IsFiniteSet(C) /\ Cardinality(C) = Cardinality(B)
  <2>1. ExistsBijection(B, C)
    BY <1>5 DEF ExistsBijection
  <2> QED BY <1>6, <2>1, FS_Bijection
<1>8. Cardinality(A \cup C) = Cardinality(A) + Cardinality(C) - 0
  BY <1>4, <1>6, <1>7, FS_Union, FS_EmptySet
<1>9. Ways(n + 1, k) = Cardinality(A \cup C)
  BY <1>3 DEF Ways
<1>10. Ways(n, k) = Cardinality(A) /\ Ways(n, k - 1) = Cardinality(B)
  BY DEF Ways, A, B
<1> QED BY <1>6, <1>7, <1>8, <1>9, <1>10

LEMMA WaysFactorial ==
  ASSUME NEW n \in Nat
  PROVE  \A k \in 0..n : Ways(n, k) * (factorial[k] * factorial[n - k]) = factorial[n]
<1> DEFINE W(m, k) == Ways(m, k) * (factorial[k] * factorial[m - k]) = factorial[m]
           S == {m \in Nat : \A k \in 0..m : W(m, k)}
<1>1. ASSUME NEW m \in Nat PROVE W(m, 0) /\ W(m, m)
  <2>1. factorial[m] \in Nat /\ m - 0 = m /\ m - m = 0
    BY FactorialIs
  <2> QED BY <2>1, WaysEnds, FactorialIs
<1>2. 0 \in S
  BY <1>1
<1>3. ASSUME NEW m \in Nat, m \in S PROVE m + 1 \in S
  <2>1. ASSUME NEW k \in 1..m PROVE W(m + 1, k)
    <3> DEFINE f == factorial[k - 1]
               g == factorial[m - k]
               h == factorial[m]
               l == m + 1 - k
    <3>1. k - 1 \in Nat /\ m - k \in Nat /\ k \in Nat /\ k \in 0..m /\ k - 1 \in 0..m
      OBVIOUS
    <3>2. f \in Nat /\ g \in Nat /\ h \in Nat
      BY <3>1, FactorialIs
    <3>3. factorial[k] = k * f
      <4>1. (k - 1) + 1 = k
        BY <3>1
      <4> QED BY <3>1, <4>1, FactorialIs
    <3>4. /\ (m + 1) - k = (m - k) + 1 /\ m - (k - 1) = (m - k) + 1
          /\ (m - k) + 1 = l /\ l \in Nat /\ l + k = m + 1
      BY <3>1
    <3>5. factorial[(m - k) + 1] = l * g /\ factorial[m + 1] = (m + 1) * h
      BY <3>1, <3>4, FactorialIs
    <3>6. Ways(m, k) * ((k * f) * g) = h
      BY <1>3, <3>1, <3>3
    <3>7. Ways(m, k - 1) * (f * (l * g)) = h
      <4>1. W(m, k - 1)
        BY <1>3, <3>1
      <4> QED BY <3>4, <3>5, <4>1
    <3> HIDE DEF f, g, h, l
    <3>8. Ways(m, k) \in Nat /\ Ways(m, k - 1) \in Nat
      BY WaysType
    <3>9. (Ways(m, k) + Ways(m, k - 1)) * ((k * f) * (l * g)) = (l + k) * h
      <4> DEFINE a == Ways(m, k)
                 b == Ways(m, k - 1)
      <4>1. /\ k \in Nat /\ l \in Nat /\ a \in Nat /\ b \in Nat
            /\ f \in Nat /\ g \in Nat /\ h \in Nat
        BY <3>1, <3>2, <3>4, <3>8
      <4>2. a * ((k * f) * g) = h /\ b * (f * (l * g)) = h
        BY <3>6, <3>7
      <4> HIDE DEF a, b
      <4>3. (a + b) * ((k * f) * (l * g)) = (l + k) * h
        <5> DEFINE x == k * f
                   y == l * g
        <5>1. x \in Nat /\ y \in Nat
          BY <4>1
        <5>2. a * (x * y) = l * (a * (x * g))
          BY <4>1, <5>1
        <5>3. b * (x * y) = k * (b * (f * y))
          BY <4>1, <5>1
        <5>4. (a + b) * (x * y) = a * (x * y) + b * (x * y)
          <6>1. x * y \in Nat
            BY <5>1
          <6> HIDE DEF x, y
          <6> QED BY <4>1, <6>1
        <5>5. (a + b) * (x * y) = l * h + k * h
          BY <4>2, <5>2, <5>3, <5>4
        <5>6. l * h + k * h = (l + k) * h
          BY <4>1
        <5> QED BY <5>5, <5>6
      <4> QED BY <4>3 DEF a, b
    <3>10. Ways(m + 1, k) = Ways(m, k) + Ways(m, k - 1)
      BY Pascal
    <3> QED BY <3>3, <3>4, <3>5, <3>9, <3>10
  <2>2. W(m + 1, 0) /\ W(m + 1, m + 1)
    BY <1>1
  <2>3. \A k \in 0..(m + 1) : k = 0 \/ k = m + 1 \/ k \in 1..m
    OBVIOUS
  <2> HIDE DEF W
  <2> QED BY <2>1, <2>2, <2>3
<1> HIDE DEF S
<1>4. n \in S
  BY <1>2, <1>3, NatInduct
<1> QED BY <1>4 DEF S

LEMMA ExactQuotient ==
  ASSUME NEW a \in Nat, NEW d \in Nat \ {0}
  PROVE  (a * d) \div d = a
OBVIOUS

LEMMA ChooseIs ==
  ASSUME NEW n \in Nat, NEW k \in 0..n
  PROVE  choose(n, k) = Ways(n, k)
<1> DEFINE d == factorial[k] * factorial[n - k]
<1>1. d \in Nat \ {0}
  <2>1. k \in Nat /\ n - k \in Nat
    OBVIOUS
  <2>2. factorial[k] \in Nat \ {0} /\ factorial[n - k] \in Nat \ {0}
    BY <2>1, FactorialIs
  <2> QED BY <2>2
<1>2. factorial[n] = Ways(n, k) * d
  BY WaysFactorial
<1>3. choose(n, k) = factorial[n] \div d
  BY DEF choose
<1> HIDE DEF d
<1> QED BY <1>1, <1>2, <1>3, ExactQuotient, WaysType

\* The function the sum over the tail picks.
IsSum(f, n, m) ==
  f = [s \in SUBSET AtMost(m) |->
         IF s = {} THEN 0
         ELSE LET x == CHOOSE x \in s : TRUE
              IN  choose(n, x) + f[s \ {x}]]
LEMMA SumIsFold ==
  ASSUME NEW n, NEW m
  PROVE  MapThenSumSet(LAMBDA i : choose(n, i), AtMost(m)) = (CHOOSE f : IsSum(f, n, m))[AtMost(m)]
BY DEF MapThenSumSet, MapThenFoldSet, IsSum

\* The outcomes with one of these numbers of tails.
OutcomesWith(n, s) == {T \in SUBSET (1..n) : Cardinality(T) \in s}

LEMMA OneMoreNumber ==
  ASSUME NEW n \in Nat, NEW m \in 0..n, NEW s \in SUBSET AtMost(m), NEW x \in s
  PROVE  Cardinality(OutcomesWith(n, s)) =
           choose(n, x) + Cardinality(OutcomesWith(n, s \ {x}))
<1> DEFINE A == Sized(n, x)
           B == OutcomesWith(n, s \ {x})
<1>1. OutcomesWith(n, s) = A \cup B /\ A \cap B = {}
  BY DEF OutcomesWith, Sized
<1>2. B \in SUBSET SUBSET (1..n)
  BY DEF OutcomesWith
<1>3. /\ IsFiniteSet(A) /\ IsFiniteSet(B)
      /\ Cardinality(A) \in Nat /\ Cardinality(B) \in Nat
  BY <1>2, WaysType, SubsetsOfPairs DEF Ways
<1>4. choose(n, x) = Cardinality(A)
  <2>1. x \in 0..n
    BY DEF AtMost
  <2> QED BY <2>1, ChooseIs DEF Ways
<1> HIDE DEF A, B
<1>5. Cardinality(A \cup B) = Cardinality(A) + Cardinality(B) - 0
  BY <1>1, <1>3, FS_Union, FS_EmptySet
<1>6. Cardinality(A \cup B) = Cardinality(A) + Cardinality(B)
  BY <1>3, <1>5
<1> QED BY <1>1, <1>4, <1>6 DEF B

LEMMA TailCounts ==
  ASSUME NEW n \in Nat, NEW m \in 0..n
  PROVE  MapThenSumSet(LAMBDA i : choose(n, i), AtMost(m)) =
           Cardinality({T \in SUBSET (1..n) : Cardinality(T) <= m})
<1> DEFINE D == AtMost(m)
           f == [s \in SUBSET D |-> Cardinality(OutcomesWith(n, s))]
           g == CHOOSE h : IsSum(h, n, m)
<1>1. IsFiniteSet(D)
  BY FS_Interval DEF AtMost
<1>2. f[{}] = 0
  <2>1. OutcomesWith(n, {}) = {}
    BY DEF OutcomesWith
  <2> QED BY <2>1, FS_EmptySet
<1>3. \A s \in SUBSET D : s # {} => (CHOOSE x \in s : TRUE) \in s
  OBVIOUS
<1>4. ASSUME NEW s \in SUBSET D, NEW x \in s
      PROVE  f[s] = choose(n, x) + f[s \ {x}]
  <2>1. s \ {x} \in SUBSET D
    OBVIOUS
  <2> QED BY <2>1, OneMoreNumber
<1>5. f = [s \in SUBSET D |-> f[s]]
  OBVIOUS
<1> HIDE DEF f
<1>6. IsSum(f, n, m)
  <2> DEFINE h == [s \in SUBSET D |->
                     IF s = {} THEN 0
                     ELSE LET x == CHOOSE x \in s : TRUE
                          IN  choose(n, x) + f[s \ {x}]]
  <2>1. ASSUME NEW s \in SUBSET D PROVE f[s] = h[s]
    <3>1. CASE s = {}
      BY <1>2, <3>1
    <3>2. CASE s # {}
      BY <1>3, <1>4, <3>2
    <3> QED BY <3>1, <3>2
  <2>2. f = h
    BY <1>5, <2>1
  <2> QED BY <2>2 DEF IsSum
<1>7. IsSum(g, n, m)
  BY <1>6
<1> HIDE DEF g
<1>8. /\ g[{}] = 0
      /\ \A s \in SUBSET D : s # {} => \E x \in s : g[s] = choose(n, x) + g[s \ {x}]
  BY <1>3, <1>7 DEF IsSum
<1>9. \A s \in SUBSET D : s # {} =>
         \E x \in s : g[s \ {x}] = f[s \ {x}] => g[s] = f[s]
  BY <1>4, <1>8
<1>10. g[D] = f[D]
  <2>1. g[{}] = f[{}]
    BY <1>2, <1>8
  <2> HIDE DEF D
  <2> QED BY <1>1, <1>9, <2>1, FoldsAgree
<1>11. f[D] = Cardinality({T \in SUBSET (1..n) : Cardinality(T) <= m})
  <2>1. OutcomesWith(n, D) = {T \in SUBSET (1..n) : Cardinality(T) <= m}
    BY SubsetsOfPairs DEF OutcomesWith, AtMost
  <2> QED BY <2>1 DEF f
<1> QED BY <1>10, <1>11, SumIsFold DEF g

\* Heads and tails change places: as many outcomes have at most m heads as have
\* at most m tails.
LEMMA FewHeads ==
  ASSUME NEW n \in Nat, NEW m \in 0..n
  PROVE  Cardinality({T \in SUBSET (1..n) : Cardinality(T) >= n - m}) =
           Cardinality({T \in SUBSET (1..n) : Cardinality(T) <= m})
<1> DEFINE A == {T \in SUBSET (1..n) : Cardinality(T) <= m}
           B == {T \in SUBSET (1..n) : Cardinality(T) >= n - m}
           swap == [T \in A |-> (1..n) \ T]
<1>1. ASSUME NEW T \in SUBSET (1..n)
      PROVE  /\ (1..n) \ T \in SUBSET (1..n) /\ (1..n) \ ((1..n) \ T) = T
             /\ Cardinality((1..n) \ T) = n - Cardinality(T)
             /\ Cardinality(T) \in 0..n
  <2>1. (1..n) \cap T = T
    OBVIOUS
  <2>2. Cardinality((1..n) \ T) = Cardinality(1..n) - Cardinality((1..n) \cap T)
    BY SubsetsOfPairs, FS_Difference
  <2> QED BY <2>1, <2>2, SubsetsOfPairs
<1>2. swap \in [A -> B]
  BY <1>1
<1>3. \A a, b \in A : swap[a] = swap[b] => a = b
  BY <1>1
<1>4. ASSUME NEW t \in B PROVE \E s \in A : swap[s] = t
  <2>1. (1..n) \ t \in A /\ (1..n) \ ((1..n) \ t) = t
    BY <1>1
  <2> QED BY <2>1
<1>5. IsFiniteSet(A)
  BY SubsetsOfPairs
<1> HIDE DEF A, B, swap
<1>6. swap \in Bijection(A, B)
  BY <1>2, <1>3, <1>4, Fun_IsBij
<1>7. ExistsBijection(A, B)
  BY <1>6 DEF ExistsBijection
<1>8. Cardinality(B) = Cardinality(A)
  BY <1>5, <1>7, FS_Bijection
<1> QED BY <1>8 DEF A, B

LEMMA MinOfTwo ==
  ASSUME NEW w \in Nat, NEW l \in Nat
  PROVE  Min({w, l}) = IF w <= l THEN w ELSE l
<1>1. CASE w <= l
  <2>1. w \in {w, l} /\ \A y \in {w, l} : w =< y
    BY <1>1
  <2>2. \A x \in {w, l} : (\A y \in {w, l} : x =< y) => x = w
    BY <1>1
  <2> QED BY <1>1, <2>1, <2>2 DEF Min
<1>2. CASE ~(w <= l)
  <2>1. l \in {w, l} /\ \A y \in {w, l} : l =< y
    BY <1>2
  <2>2. \A x \in {w, l} : (\A y \in {w, l} : x =< y) => x = l
    BY <1>2
  <2> QED BY <1>2, <2>1, <2>2 DEF Min
<1> QED BY <1>1, <1>2

\* The p value: the outcomes with few tails, and those with few heads.
LEMMA TwoTails ==
  ASSUME NEW n \in Nat, NEW w \in 0..n, NEW m \in 0..n,
         m = IF w <= n - w THEN w ELSE n - w
  PROVE  LET gap(v)  == IF 2 * v >= n THEN 2 * v - n ELSE n - 2 * v
             extreme == {tails \in SUBSET (1..n) : gap(Cardinality(tails)) >= gap(w)}
             few     == {T \in SUBSET (1..n) : Cardinality(T) <= m}
         IN  Min({2^n, 2 * Cardinality(few)}) = Cardinality(extreme)
<1> DEFINE gap(v)  == IF 2 * v >= n THEN 2 * v - n ELSE n - 2 * v
           extreme == {tails \in SUBSET (1..n) : gap(Cardinality(tails)) >= gap(w)}
           few     == {T \in SUBSET (1..n) : Cardinality(T) <= m}
           many    == {T \in SUBSET (1..n) : Cardinality(T) >= n - m}
           all     == SUBSET (1..n)
<1>1. \A T \in all : Cardinality(T) \in 0..n
  BY SubsetsOfPairs
<1>2. 2 * m <= n /\ gap(w) = n - 2 * m
  OBVIOUS
<1>3. \A v \in 0..n : gap(v) >= n - 2 * m <=> v <= m \/ v >= n - m
  BY <1>2
<1>4. extreme = few \cup many
  BY <1>1, <1>2, <1>3
<1>5. /\ IsFiniteSet(few) /\ IsFiniteSet(many) /\ IsFiniteSet(all)
      /\ Cardinality(few) \in Nat /\ Cardinality(all) \in Nat
  <2>1. few \in SUBSET all /\ many \in SUBSET all /\ all \in SUBSET all
    OBVIOUS
  <2> HIDE DEF few, many
  <2> QED BY <2>1, SubsetsOfPairs
<1>6. Cardinality(all) = 2^n
  BY SubsetsOfPairs, FS_SUBSET
<1>7. Cardinality(many) = Cardinality(few)
  BY FewHeads
<1>8. /\ few \cup many \in SUBSET all /\ few \cap many \in SUBSET all
      /\ (2 * m < n => few \cap many = {})
      /\ (2 * m = n => few \cup many = all)
  <2>1. few \cup many \in SUBSET all /\ few \cap many \in SUBSET all
    OBVIOUS
  <2>2. ASSUME 2 * m < n, NEW T \in few \cap many PROVE FALSE
    BY <1>1, <2>2
  <2>3. ASSUME 2 * m = n, NEW T \in all PROVE T \in few \cup many
    BY <1>1, <2>3
  <2> HIDE DEF few, many, all
  <2> QED BY <2>1, <2>2, <2>3
<1> DEFINE F == Cardinality(few)
           U == Cardinality(few \cup many)
           I == Cardinality(few \cap many)
           P == 2^n
<1>9. U \in Nat /\ I \in Nat
  <2> HIDE DEF few, many
  <2> QED BY <1>8, SubsetsOfPairs
<1> HIDE DEF few, many, all, extreme
<1>10. U = F + F - I
  BY <1>5, <1>7, FS_Union
<1>11. U <= Cardinality(all)
  BY <1>5, <1>8, FS_Subset
<1>12. F \in Nat /\ P \in Nat /\ U <= P
  BY <1>5, <1>6, <1>11
<1>13. Min({P, 2 * F}) = IF P <= 2 * F THEN P ELSE 2 * F
  BY <1>12, MinOfTwo
<1>14. CASE 2 * m < n
  <2>1. I = 0
    BY <1>8, <1>14, FS_EmptySet
  <2> HIDE DEF F, U, I, P
  <2>2. U = 2 * F /\ 2 * F <= P
    BY <1>9, <1>10, <1>12, <2>1
  <2>3. Min({P, 2 * F}) = U
    BY <1>12, <1>13, <2>2
  <2> QED BY <1>4, <2>3 DEF F, U, P, extreme, few
<1>15. CASE 2 * m = n
  <2>1. U = P
    BY <1>6, <1>8, <1>15
  <2> HIDE DEF F, U, I, P
  <2>2. P <= 2 * F
    BY <1>9, <1>10, <1>12, <2>1
  <2>3. Min({P, 2 * F}) = U
    BY <1>13, <2>1, <2>2
  <2> QED BY <1>4, <2>3 DEF F, U, P, extreme, few
<1> QED BY <1>2, <1>14, <1>15

(* The p value of sign_test() is exact for any differences: the number of      *)
(* outcomes of a fair coin at least as lopsided, over 2^n.                     *)
THEOREM PValueIsExact ==
  ASSUME diffs \in Seq(Int)
  PROVE  SignTestIsExact
<1> DEFINE W == {k \in DOMAIN diffs : diffs[k] > 0}
           X == {k \in DOMAIN diffs : diffs[k] < 0}
           w == Cardinality(W)
           l == Cardinality(X)
           n == w + l
           m == Min({w, l})
           tail == MapThenSumSet(LAMBDA i : choose(n, i), AtMost(m))
           gap(v)  == IF 2 * v >= n THEN 2 * v - n ELSE n - 2 * v
           extreme == {tails \in SUBSET (1..n) : gap(Cardinality(tails)) >= gap(w)}
<1>1. w \in Nat /\ l \in Nat
  <2>1. IsFiniteSet(DOMAIN diffs)
    <3>1. DOMAIN diffs = 1..Len(diffs) /\ Len(diffs) \in Nat
      OBVIOUS
    <3> QED BY <3>1, FS_Interval
  <2>2. IsFiniteSet(W) /\ IsFiniteSet(X)
    BY <2>1, FS_Subset
  <2> QED BY <2>2, FS_CardinalityType
<1> HIDE DEF w, l
<1>2. m = IF w <= l THEN w ELSE l
  BY <1>1, MinOfTwo
<1>3. n \in Nat /\ w \in 0..n /\ m \in 0..n /\ l = n - w
  BY <1>1, <1>2
<1>4. m = IF w <= n - w THEN w ELSE n - w
  BY <1>2, <1>3
<1> HIDE DEF n, m
<1>5. tail = Cardinality({T \in SUBSET (1..n) : Cardinality(T) <= m})
  BY <1>3, TailCounts
<1>6. Min({2^n, 2 * tail}) = Cardinality(extreme)
  <2>1. Min({2^n, 2 * Cardinality({T \in SUBSET (1..n) : Cardinality(T) <= m})})
          = Cardinality(extreme)
    <3> HIDE DEF tail
    <3> QED BY <1>3, <1>4, TwoTails, Zenon
  <2> HIDE DEF tail, extreme
  <2> QED BY <1>5, <2>1
<1> QED BY <1>6 DEF SignTestIsExact, SignTest, w, l, n, m
=============================================================================
