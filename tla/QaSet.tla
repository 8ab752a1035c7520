------------------------------- MODULE QaSet -------------------------------
(***************************************************************************)
(* scripts/eval/build_qa_set.py: an answer sheet written by a pool of        *)
(* threads.  Each attempt takes one chunk through three calls of a language  *)
(* model (summary, question, verification) and a mechanical overlap check.   *)
(* The main thread takes the futures in the order it submitted them, stops   *)
(* at the target, cancels what has not started and waits for the rest.       *)
(***************************************************************************)
EXTENDS Integers, FiniteSets, SequencesExt

CONSTANTS Excerpts,    \* chunk ids read from the JSONL file: integers
          DocOf(_),    \* the document of a chunk
          Threads,     \* --workers
          Count,       \* --count
          MaxPerDoc,   \* --max-per-doc
          MaxRetries,  \* OpenAIClient.max_retries
          NoFile       \* nothing written

ASSUME QaAssumption ==
    /\ Excerpts \subseteq Int /\ Excerpts # {} /\ IsFiniteSet(Excerpts)
    /\ {Threads, Count, MaxPerDoc, MaxRetries} \subseteq Nat \ {0}

VARIABLES
    attempts,  \* the chunks tried, in the order they were submitted
    stage,     \* where each attempt is
    tries,     \* calls made for the current stage of an attempt
    qaPc,      \* "consume", "cancel", "shutdown" or "exited"
    taken,     \* futures consumed
    cancelled, \* futures the cancelling loop has passed
    kept,      \* qa_pairs
    raised,    \* a future raised out of the main loop
    file       \* the answer sheet on disk

qaVars == <<attempts, stage, tries, qaPc, taken, cancelled, kept, raised, file>>

Calling == {"summary", "question", "verify"}
Ended == {"accepted", "rejected", "raised"}

HasShare(pool, c) ==
    Len(SelectSeq(pool, LAMBDA x : DocOf(x) = DocOf(c))) >= MaxPerDoc

\* The cap of --max-per-doc keeps the first chunks of each document.
Capped(order) ==
    LET add(pool, c) == IF HasShare(pool, c) THEN pool ELSE Append(pool, c)
    IN  FoldLeft(add, <<>>, order)

\* pool[:min(len(pool), int(count * 1.8) + 5)]
Attempted(order) ==
    LET pool == Capped(order)
        most == (Count * 18) \div 10 + 5
    IN  SubSeq(pool, 1, IF Len(pool) < most THEN Len(pool) ELSE most)

QaInit ==
    /\ \E order \in SetToSeqs(Excerpts) : attempts = Attempted(order)   \* rng.shuffle
    /\ stage = [i \in 1..Len(attempts) |-> "queued"]
    /\ tries = [i \in 1..Len(attempts) |-> 0]
    /\ qaPc = "consume" /\ taken = 0 /\ cancelled = 0
    /\ kept = <<>> /\ raised = FALSE /\ file = NoFile
-----------------------------------------------------------------------------
(* The pool: a free thread takes the oldest attempt still queued.           *)
Start(i) ==
    /\ stage[i] = "queued"
    /\ \A j \in 1..(i - 1) : stage[j] # "queued"
    /\ Cardinality({j \in DOMAIN stage : stage[j] \in Calling}) < Threads
    /\ stage' = [stage EXCEPT ![i] = "summary"]
    /\ UNCHANGED <<attempts, tries, qaPc, taken, cancelled, kept, raised, file>>

EndsCall(i, next) ==
    /\ stage' = [stage EXCEPT ![i] = next]
    /\ tries' = [tries EXCEPT ![i] = 0]
    /\ UNCHANGED <<attempts, qaPc, taken, cancelled, kept, raised, file>>

\* The model answered: an empty question, one too close to the excerpt or one
\* the excerpt does not answer is thrown away.
Answered(i) ==
    \/ stage[i] = "summary"  /\ EndsCall(i, "question")
    \/ stage[i] = "question" /\ \E next \in {"verify", "rejected"} : EndsCall(i, next)
    \/ stage[i] = "verify"   /\ \E next \in {"accepted", "rejected"} : EndsCall(i, next)

\* 429, 5xx or no connection: complete() sleeps and calls again.
Retried(i) ==
    /\ stage[i] \in Calling /\ tries[i] < MaxRetries - 1
    /\ tries' = [tries EXCEPT ![i] = @ + 1]
    /\ UNCHANGED <<attempts, stage, qaPc, taken, cancelled, kept, raised, file>>

\* Another 4xx, or the retries used up: a RuntimeError that build_one() catches.
Refused(i) == stage[i] \in Calling /\ EndsCall(i, "rejected")

\* Any other exception (an answer without text, a connection reset while the
\* body is read) stays in the future.
Broken(i) == stage[i] \in Calling /\ EndsCall(i, "raised")

-----------------------------------------------------------------------------
(* The main thread.                                                        *)

\* Mutant: in the order of completion.
TakesCompleted(i) == i > taken
Takes(i) == i = taken + 1

\* future.result(), in the order of submission.
Consume ==
    /\ qaPc = "consume"
    /\ \E i \in DOMAIN stage : Takes(i) /\
         \/ /\ stage[i] = "raised"
            /\ raised' = TRUE /\ qaPc' = "shutdown"
            /\ UNCHANGED <<taken, kept, cancelled>>
         \/ /\ stage[i] \in {"accepted", "rejected"}
            /\ taken' = i
            /\ kept' = IF stage[i] = "accepted" THEN Append(kept, attempts[i]) ELSE kept
            /\ qaPc' = IF Len(kept') >= Count THEN "cancel" ELSE "consume"
            /\ cancelled' = i
            /\ UNCHANGED raised
    /\ UNCHANGED <<attempts, stage, tries, file>>

Exhausted ==
    /\ qaPc = "consume" /\ taken = Len(attempts)
    /\ qaPc' = "shutdown"
    /\ UNCHANGED <<attempts, stage, tries, taken, cancelled, kept, raised, file>>

\* remaining.cancel(): only a future no thread has taken yet can be cancelled.
Cancel ==
    /\ qaPc = "cancel"
    /\ IF cancelled < Len(attempts)
       THEN /\ cancelled' = cancelled + 1
            /\ stage' = [stage EXCEPT ![cancelled + 1] = IF @ = "queued" THEN "cancelled" ELSE @]
            /\ UNCHANGED qaPc
       ELSE qaPc' = "shutdown" /\ UNCHANGED <<cancelled, stage>>
    /\ UNCHANGED <<attempts, tries, taken, kept, raised, file>>

\* Mutant: a cancelled future is waited for.
SettledByThread(i) == stage[i] \in Ended
Settled(i) == stage[i] \in Ended \cup {"cancelled"}

\* Leaving the with block waits for every attempt that is queued or under way;
\* then the sheet is written if nothing was raised and it is not empty: sorted by
\* chunk id, so that the set of its chunks determines it.
Exit ==
    /\ qaPc = "shutdown"
    /\ \A i \in DOMAIN stage : Settled(i)
    /\ qaPc' = "exited"
    /\ file' = IF raised \/ kept = <<>> THEN NoFile ELSE ToSet(kept)
    /\ UNCHANGED <<attempts, stage, tries, taken, cancelled, kept, raised>>

Worker(i) == Start(i) \/ Answered(i) \/ Retried(i) \/ Refused(i) \/ Broken(i)
Main == Consume \/ Exhausted \/ Cancel \/ Exit
QaNext == Main \/ \E i \in DOMAIN stage : Worker(i)
QaSpec == QaInit /\ [][QaNext]_qaVars
-----------------------------------------------------------------------------
(* Whatever order the threads finish in, the sheet holds the first Count     *)
(* attempts, in the order of submission, that were accepted: a rerun with    *)
(* the same seed and the same verdicts gives the same sheet.                 *)
KeepsFirstAccepted ==
    file # NoFile =>
      LET accepted == {i \in DOMAIN stage : stage[i] = "accepted"}
          before(i) == {j \in accepted : j < i}
      IN  file = {attempts[i] : i \in {k \in accepted : Cardinality(before(k)) < Count}}

(* The script ends, whatever the model's service answers: each call is tried *)
(* MaxRetries times and the pool is waited for, also after an exception.     *)
BuildEnds == <>(qaPc = "exited")
=============================================================================
