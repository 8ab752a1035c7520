---------------------------- MODULE EvalMetrics ----------------------------
(***************************************************************************)
(* The pure functions of scripts/eval: the overlap check of build_qa_set.py *)
(* and the sign test of rerank_ab.py, each beside a definition of what it    *)
(* should return.                                                           *)
(***************************************************************************)
EXTENDS Integers, FiniteSets, SequencesExt, FiniteSetsExt, Combinatorics

\* normalize() has removed all but letters and digits: text is a sequence.
Occurs(s, text) ==
    \E k \in 0..(Len(text) - Len(s)) : SubSeq(text, k + 1, k + Len(s)) = s

\* Mutant: the last position is left out.
PositionsButLast(q) == [i \in 1..(Len(q) - 1) |-> i]
Positions(q) == [i \in 1..Len(q) |-> i]

\* max_shared_ngram(): position by position, only lengths above the best so far
\* are tried, and the scan of a position ends at the first that is missing.
MaxSharedNgram(q, c) ==
    LET grown(best, i) ==
          Max({best} \cup {j \in (best + 1)..(Len(q) - i + 1) :
                 \A k \in (best + 1)..j : Occurs(SubSeq(q, i, i + k - 1), c)})
    IN  FoldLeft(grown, 0, Positions(q))

\* Mutant: range(0, x).
TailBelow(x) == 0..(x - 1)
AtMost(x) == 0..x

\* sign_test(), its p value as a numerator over 2^n: d holds -1, 0 or 1.
SignTest(d) ==
    LET wins   == Cardinality({k \in DOMAIN d : d[k] > 0})
        losses == Cardinality({k \in DOMAIN d : d[k] < 0})
        n      == wins + losses
        tail   == MapThenSumSet(LAMBDA i : choose(n, i), AtMost(Min({wins, losses})))
    IN  [wins |-> wins, losses |-> losses, ties |-> Len(d) - n,
         p |-> Min({2^n, 2 * tail})]
-----------------------------------------------------------------------------
CONSTANTS Letters, MaxText, MaxSample   \* bounds of the inputs

VARIABLES
    question, excerpt,  \* inputs of the overlap check
    diffs               \* input of the sign test

metricsVars == <<question, excerpt, diffs>>

NoInput == question = <<>> /\ excerpt = <<>> /\ diffs = <<>>

\* Every short input of either function.
MetricsInit ==
    \/ /\ question \in BoundedSeq(Letters, MaxText)
       /\ excerpt \in BoundedSeq(Letters, MaxText)
       /\ diffs = <<>>
    \/ /\ question = <<>> /\ excerpt = <<>>
       /\ diffs \in BoundedSeq({-1, 0, 1}, MaxSample)

(* max_shared_ngram() is the length of the longest string the question and  *)
(* the excerpt have in common: no longer copy passes the filter unseen.      *)
SharedNgramIsLongest ==
    MaxSharedNgram(question, excerpt) =
      Max({Len(s) : s \in SubSeqs(question) \cap SubSeqs(excerpt)})

(* sign_test(): the p value is the share of all ways the untied pairs could  *)
(* have fallen, heads or tails, that are at least as lopsided.              *)
SignTestIsExact ==
    LET t       == SignTest(diffs)
        n       == t.wins + t.losses
        gap(w)  == IF 2 * w >= n THEN 2 * w - n ELSE n - 2 * w
        extreme == {tails \in SUBSET (1..n) : gap(Cardinality(tails)) >= gap(t.wins)}
    IN  t.p = Cardinality(extreme)
=============================================================================
