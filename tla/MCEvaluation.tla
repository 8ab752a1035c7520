---------------------------- MODULE MCEvaluation ----------------------------
(* The search of the server and its evaluation for TLC.  A behaviour shows   *)
(* one of: the script that builds an answer sheet (QaSet), the one that       *)
(* evaluates with a sheet that was built before (RerankAb), the searches of   *)
(* one server around its corpus statistics (CorpusStatsCache), or one input   *)
(* of the scripts' pure functions (EvalMetrics).                             *)
EXTENDS QaSet, RerankAb, EvalMetrics, CorpusStatsCache

VARIABLE part

vars == <<part, qaVars, abVars, statsVars, metricsVars>>

\* Chunks 2 and 3 belong to one document, 4 and 5 to another, and so on.
HalfOf(c) == c \div 2

SheetOfBefore ==
    /\ attempts = <<1>> /\ stage = <<"accepted">> /\ tries = <<0>>
    /\ qaPc = "exited" /\ taken = 1 /\ cancelled = 1
    /\ kept = <<1>> /\ raised = FALSE /\ file = {1}

\* Three chunks with different scores; two with the same; one that is deleted before
\* its row is read.
Clear == [vector |-> <<11, 12>>, keyword |-> <<12, 13>>, gone |-> {}]
Tied  == [vector |-> <<11>>, keyword |-> <<12>>, gone |-> {}]
Gone  == [vector |-> <<11>>, keyword |-> <<>>, gone |-> {11}]
FewViews == [q \in 1..Questions |->
               {Clear} \cup (IF q = 1 THEN {Tied} ELSE IF q = 2 THEN {Gone} ELSE {})]

NotStarted ==
    /\ abPc = "done" /\ at = 1 /\ now = 0 /\ byDefault = FALSE
    /\ embedded = <<>> /\ warm = {} /\ log = <<>> /\ head = 1
    /\ arrivals = <<>> /\ throttled = FALSE /\ off = NoAnswer
    /\ unflagged = {} /\ cold = {}

Init ==
    /\ StatsInit
    /\ \/ part = "build_qa_set" /\ QaInit /\ NotStarted
       \/ part = "rerank_ab" /\ SheetOfBefore /\ AbInit
       \/ part \in {"statistics", "metrics"} /\ SheetOfBefore /\ NotStarted
    /\ IF part = "metrics" THEN MetricsInit ELSE NoInput

Build(step) == part = "build_qa_set" /\ step /\ UNCHANGED <<part, abVars, statsVars, metricsVars>>
Evaluate == part = "rerank_ab" /\ AbNext /\ UNCHANGED <<part, qaVars, statsVars, metricsVars>>
LookUp == part = "statistics" /\ StatsNext /\ UNCHANGED <<part, qaVars, abVars, metricsVars>>

Next ==
    \/ part = "build_qa_set" /\ QaNext /\ UNCHANGED <<part, abVars, statsVars, metricsVars>>
    \/ Evaluate
    \/ LookUp

\* The threads and the main thread are scheduled, and every call of the model
\* ends: it has a timeout.
Fairness ==
    /\ WF_vars(Build(Main))
    /\ \A i \in Excerpts : WF_vars(Build(i \in DOMAIN stage /\ Worker(i)))

Spec == Init /\ [][Next]_vars
FairSpec == Spec /\ Fairness
=============================================================================
