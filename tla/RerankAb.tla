------------------------------ MODULE RerankAb ------------------------------
(***************************************************************************)
(* The paired evaluation of reranking, scripts/eval/rerank_ab.py: a warm-up *)
(* pass over the questions, then for each question a search of the "off"    *)
(* arm and, once the rate limiter lets it through, a search of the "on"     *)
(* arm.  The server it measures reranks through an external service that    *)
(* answers 429 above its own limit, and then falls back to the RRF order    *)
(* without telling the client.  The script is sequential: time passes       *)
(* inside its steps.  Numbers of the script: Limit 9 per Window 62 s; of    *)
(* the service: ServiceLimit 10 per ServiceWindow 60 s; of the server:      *)
(* CandidatePool 30, RRF_K 60.                                              *)
(*                                                                         *)
(* NoView ties what one search finds to what the next one finds: documents *)
(* are indexed and deleted, the corpus statistics behind the BM25 order are *)
(* refreshed, and each search may read another replica.  So each search     *)
(* has a view of its own.                                                   *)
(***************************************************************************)
EXTENDS Integers, FiniteSets, SequencesExt

CONSTANTS Questions,      \* how many questions the answer sheet holds
          Chunks,         \* chunk ids
          Views,          \* what a search for each question may find (see AllViews)
          RRF_K, Unit,    \* a score of 1 / (RRF_K + rank) counts as Unit of them
          TopK,           \* results a search returns
          CandidatePool,  \* candidates that are reranked, if more than TopK
          Limit,          \* --rate-limit (above 0: 0 switches the limiter off)
          Window,         \* --rate-window
          ServiceLimit, ServiceWindow,  \* what the reranking service allows
          CacheSize,      \* MAX_ENTRIES of the server's query embedding cache
          MaxLatency      \* bound on the delay of an answer or of a wake-up

\* The order of the vector search, that of the BM25 scores, and the chunks whose
\* rows are gone when the details are read.
Ranked == SetToAllKPermutations(Chunks)
AllViews == [vector : Ranked, keyword : Ranked, gone : SUBSET Chunks]
AnyView == UNION {Views[q] : q \in 1..Questions}

ASSUME RerankAssumption ==
    /\ IsFiniteSet(Chunks) /\ AnyView \subseteq AllViews
    /\ RRF_K \in Nat /\ Unit \in Nat
    /\ \A k \in 1..Cardinality(Chunks) : Unit % (RRF_K + k) = 0
    /\ Questions \in Nat \ {0} /\ TopK \in Nat \ {0} /\ MaxLatency \in Nat
    /\ CacheSize \in Nat /\ CandidatePool \in Nat
    /\ Limit \in Nat \ {0} /\ Window \in Nat
    /\ ServiceLimit \in Nat /\ ServiceWindow \in Nat
    /\ Limit < ServiceLimit /\ ServiceWindow <= Window

VARIABLES
    abPc,       \* "warmup", "off", "acquire", "on", "done" or "aborted"
    at,         \* the question at hand
    byDefault,  \* search.rerank.default-enabled of the server
    embedded,   \* questions in the embedding cache, the oldest use first
    now,        \* time.monotonic()
    log, head,  \* every time acquire() noted; its deque is log[head..Len(log)]
    arrivals,   \* when the reranking service was asked
    throttled,  \* it has answered 429
    warm,       \* questions whose warm-up request was answered
    off,        \* the answer of the off arm of this pair
    unflagged,  \* kinds of pairs whose on arm fell back to another order
    cold        \* questions measured with an arm that missed the cache

server == <<byDefault, embedded, arrivals, throttled>>
limiter == <<log, head>>
pairs == <<unflagged, cold>>
abVars == <<abPc, at, server, now, limiter, warm, off, pairs>>

Top(order) == [k \in 1..(IF Len(order) < TopK THEN Len(order) ELSE TopK) |-> order[k]]

NoView == [vector |-> <<>>, keyword |-> <<>>, gone |-> {}]
NoAnswer == [ids |-> <<>>, hit |-> FALSE, open |-> FALSE, view |-> NoView]
Answers == [ids : {Top(o) : o \in Ranked}, hit : BOOLEAN, open : BOOLEAN, view : AnyView]

AbInit ==
    /\ abPc \in {"warmup", "off"}                   \* --no-warmup skips the pass
    /\ at = 1 /\ now = 0
    /\ byDefault \in BOOLEAN
    /\ embedded = <<>> /\ warm = {}
    /\ log = <<>> /\ head = 1
    /\ arrivals = <<>> /\ throttled = FALSE
    /\ off = NoAnswer
    /\ unflagged = {} /\ cold = {}

-----------------------------------------------------------------------------
(* The server's side of a search.                                          *)

\* The service refuses a call when the last ServiceLimit calls are too close.
OverLimit(t) ==
    /\ Len(arrivals) >= ServiceLimit
    /\ t - arrivals[Len(arrivals) - ServiceLimit + 1] < ServiceWindow

\* LinkedHashMap in access order, removeEldestEntry when size > MAX_ENTRIES.
Used(q) == Append(RemoveFirst(embedded, q), q)

\* Mutant: one entry fewer fits.
TouchEarly(q) == IF Len(Used(q)) >= CacheSize THEN Tail(Used(q)) ELSE Used(q)
Touch(q) == IF Len(Used(q)) > CacheSize THEN Tail(Used(q)) ELSE Used(q)

\* The place of c in a list that holds it once: its rank.
Place(list, c) == CHOOSE k \in DOMAIN list : list[k] = c
Contribution(list, c) == IF c \in Range(list) THEN Unit \div (RRF_K + Place(list, c)) ELSE 0
Score(view, c) == Contribution(view.vector, c) + Contribution(view.keyword, c)
Hits(view) == Range(view.vector) \cup Range(view.keyword)

\* In a list that may hold a chunk twice, c comes before d for the first time.
Earlier(list, c, d) == \E j \in DOMAIN list : list[j] = c /\ \A i \in 1..j : list[i] # d

\* The scores are kept in the order of the vector search, then of the keyword search,
\* and the sort is stable.
Ahead(view, c, d) ==
    \/ Score(view, c) > Score(view, d)
    \/ Score(view, c) = Score(view, d) /\ Earlier(view.vector \o view.keyword, c, d)

\* topIds: the n best.
Cut(view, n) ==
    {c \in Hits(view) : Cardinality({d \in Hits(view) : Ahead(view, d, c)}) < n}

\* DETAIL_SQL: the rows that are left of them, in any order.
Rows(view, n) == SetToSeqs(Cut(view, n) \ view.gone)

\* Mutant: the rows as the query returned them.
ItemsAsFetched(view, n) == Rows(view, n)

\* fetchDetails: sorted by score, and by nothing else.
Items(view, n) ==
    {o \in Rows(view, n) : \A j, k \in DOMAIN o : j < k => Score(view, o[j]) >= Score(view, o[k])}

Pool == IF TopK > CandidatePool THEN TopK ELSE CandidatePool

\* What the client may get of n candidates, by score and reranked: take(topK).
Listed == [view \in AnyView |-> [n \in {TopK, Pool} |-> {Top(o) : o \in Items(view, n)}]]
Reordered == [view \in AnyView |-> {Top(o) : o \in Rows(view, Pool)}]

\* rerank(): the service's order, or after any failure of it the items as they came.
Rerank(answer) ==
    /\ arrivals' = Append(arrivals, now')
    /\ throttled' = (throttled \/ OverLimit(now'))
    /\ \/ answer.open /\ answer.ids \in Listed[answer.view][Pool]
       \/ ~answer.open /\ ~OverLimit(now') /\ answer.ids \in Reordered[answer.view]

\* A search for question q that takes d.  The off arm leaves "rerank" out of the request,
\* and the server then takes its default.  Without a candidate the service is not called.
Search(q, d, asked, answer) ==
    /\ now' = now + d
    /\ answer.view \in Views[q]
    /\ answer.hit = (q \in Range(embedded))
    /\ embedded' = Touch(q)
    /\ UNCHANGED byDefault
    /\ IF (asked \/ byDefault) /\ Reordered[answer.view] # {<<>>}
       THEN Rerank(answer)
       ELSE /\ ~answer.open /\ answer.ids \in Listed[answer.view][TopK]
            /\ UNCHANGED <<arrivals, throttled>>
-----------------------------------------------------------------------------
(* The script.                                                             *)

\* The warm-up pass drops the answers and carries on after a failed request.
\* The time it takes is left out: the limiter starts after it.
Warmup ==
    /\ abPc = "warmup"
    /\ \/ /\ \E answer \in Answers : Search(at, 0, FALSE, answer)
          /\ warm' = warm \cup {at}
       \/ UNCHANGED <<server, now, warm>>
    /\ IF at < Questions
       THEN at' = at + 1 /\ UNCHANGED abPc
       ELSE at' = 1 /\ abPc' = "off"
    /\ UNCHANGED <<limiter, off, pairs>>

SearchOff ==
    /\ abPc = "off" /\ abPc' = "acquire"
    /\ \E answer \in Answers, d \in 0..MaxLatency :
         Search(at, d, FALSE, answer) /\ off' = answer
    /\ UNCHANGED <<at, limiter, warm, pairs>>

\* The deque starts at h once the entries older than the window are popped.
StartsAt(h) ==
    /\ \A k \in head..(h - 1) : now - log[k] > Window
    /\ h <= Len(log) => now - log[h] <= Window

\* Mutant: one call too many.
FullAbove(h) == Len(log) - h + 1 > Limit
Full(h) == Len(log) - h + 1 >= Limit

\* RateLimiter.acquire(): at the limit it sleeps until the oldest entry is a
\* window old, and drops that entry.
Acquire ==
    /\ abPc = "acquire" /\ abPc' = "on"
    /\ \E h \in head..(Len(log) + 1), late \in 0..MaxLatency :
         LET age    == now - log[h]
             waited == IF Full(h) /\ age < Window THEN Window - age ELSE 0
         IN  /\ StartsAt(h)
             /\ waited = 0 => late = 0        \* else it sleeps, maybe too long
             /\ now' = now + waited + late
             /\ head' = IF Full(h) THEN h + 1 ELSE h
             /\ log' = Append(log, now')
    /\ UNCHANGED <<at, server, warm, off, pairs>>

\* No two chunks that the searches rank have the same score.
Untied(view) ==
    \A c, e \in Hits(view) : Score(view, c) = Score(view, e) => c = e

\* What the two searches of a pair had before them.
Kind(view, other) ==
    IF view # other \/ view.gone # {} THEN "moved"
    ELSE IF Untied(view) THEN "clear" ELSE "tied"

\* A pair is reported as suspect when both arms list the same chunks in the same order.
SearchOn ==
    /\ abPc = "on"
    /\ \E on \in Answers, d \in 0..MaxLatency :
         /\ Search(at, d, TRUE, on)
         /\ unflagged' = unflagged \cup
              IF on.open /\ off.ids # on.ids THEN {Kind(off.view, on.view)} ELSE {}
         /\ cold' = IF off.hit /\ on.hit THEN cold ELSE cold \cup {at}
    /\ off' = NoAnswer
    /\ IF at < Questions
       THEN at' = at + 1 /\ abPc' = "off"
       ELSE abPc' = "done" /\ UNCHANGED at
    /\ UNCHANGED <<limiter, warm>>

\* A failed request of the measured loop is not caught: the script ends and
\* reports nothing.
Abort ==
    /\ abPc \in {"off", "on"} /\ abPc' = "aborted"
    /\ UNCHANGED <<at, server, now, limiter, warm, off, pairs>>

AbNext == Warmup \/ SearchOff \/ Acquire \/ SearchOn \/ Abort
AbSpec == AbInit /\ [][AbNext]_abVars
-----------------------------------------------------------------------------
(* RateLimiter, "분당 호출 수를 슬라이딩 윈도로 지킨다": whatever the delays, a   *)
(* request and the one Limit requests later are at least a window apart.   *)
WindowRespected ==
    \A k \in DOMAIN log : k + Limit \in DOMAIN log => log[k + Limit] - log[k] >= Window

(* With reranking off by default, the service never sees more than it      *)
(* allows: the limiter spaces the calls when they leave, latency moves     *)
(* their arrivals, and the one call of slack (9 against 10) absorbs it      *)
(* because the script has one request under way at a time.                 *)
NeverThrottled == ~byDefault => ~throttled

(* The server does not tell that reranking failed; the report takes equal   *)
(* orders for a sign of it.  With reranking off by default the sign is sure *)
(* where both searches of the pair found the same chunks in the same lists  *)
(* with no two scores alike: the rows come back unordered, from two cuts of *)
(* different sizes, and are sorted and cut again, yet a fallback lists what *)
(* the off arm listed, and the pair is flagged.                             *)
FailOpenIsFlagged == ~byDefault => "clear" \notin unflagged

(* rerank_ab.py:16-19: the order "goes back to RRF" when the service fails,  *)
(* and the questions with the same order as the off arm are counted.  Not   *)
(* so where scores are alike, as those of a rank in one list and the same   *)
(* rank in the other: with one view for both searches the order may differ. *)
TiesAreFlagged == ~byDefault => "tied" \notin unflagged

(* The warm-up pass makes both arms of a pair hit the embedding cache, as   *)
(* long as its request was answered and the questions fit the cache.        *)
WarmedPairsAreFair == Questions <= CacheSize => cold \cap warm = {}

(* rerank_ab.py:178-179, "rerank 를 끄고 돌리므로 Cohere 호출은 쓰지 않는다":      *)
(* only searches of the on arm, each let through by the limiter, reach the  *)
(* reranking service.                                                       *)
OnlyOnArmReranks == Len(arrivals) <= Len(log)
=============================================================================
