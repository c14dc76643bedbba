--------------------------- MODULE LoadTestProofs ---------------------------
(***************************************************************************)
(* The verdict of the load test can be trusted for any number of workers,  *)
(* events and funds.  There has to be a worker: with CONCURRENCY=0 the     *)
(* script posts nothing and still finds the balance consistent.            *)
(*                                                                         *)
(* Two books are kept.  Every event handed out is counted or still with a  *)
(* worker; and the balance has fallen by at least the successes, counted   *)
(* or about to be, and by no more than the failures add to that, the       *)
(* requests that may still take effect late already allowed for.           *)
(***************************************************************************)
EXTENDS LoadTest, FiniteSetTheorems, TLAPS

With(states) == {w \in Workers : worker[w] \in states}

Handed    == Cardinality(With({"sent"} \cup Answers))   \* events with a worker
Okays     == Cardinality(With({"ok"}))                  \* answers to be counted
Errors    == Cardinality(With({"error"}))
Succeeded == status["ok"] + Okays
Failed    == status["error"] + Errors

TypeInv ==
    /\ balance \in Nat
    /\ before \in Nat
    /\ next \in 0 .. Count
    /\ worker \in [Workers -> {"ready", "sent", "done"} \cup Answers]
    /\ late \in Nat
    /\ status \in [Answers -> Nat]
    /\ after \in Int
    /\ reading \in BOOLEAN

\* Every event handed out is with a worker or in one of the counters.
EventsInv ==
    /\ status["ok"] + status["insufficient"] + status["error"] + Handed = next
    /\ \A w \in Workers : worker[w] = "done" => next = Count

\* The fall of the balance lies between the successes and what failures allow.
FallInv == /\ Succeeded <= before - balance
           /\ before - balance + late <= Succeeded + Failed

\* When the reader is told to stop all workers are done, and the final read
\* was within the bounds that hold from then on.
OverInv ==
    /\ ~reading => \A w \in Workers : worker[w] = "done"
    /\ Finished => /\ ~reading /\ after >= 0
                   /\ before - after \in status["ok"] .. (status["ok"] + status["error"])

LoadInv == TypeInv /\ EventsInv /\ FallInv /\ OverInv

-----------------------------------------------------------------------------
(* Counting workers.                                                       *)

LEMMA Counted ==
    ASSUME NEW K
    PROVE  /\ IsFiniteSet(With(K))
           /\ Cardinality(With(K)) \in Nat
           /\ Cardinality(With(K)) = 0 <=> With(K) = {}
  <1>1. With(K) \in SUBSET Workers
    BY DEF With
  <1>2. IsFiniteSet(With(K))
    BY <1>1, FS_Subset, LoadTestAssumption
  <1> QED BY <1>2, FS_CardinalityType, FS_EmptySet

In(x, K) == IF x \in K THEN 1 ELSE 0

\* A worker that changes its state leaves one count and enters another.
LEMMA Moved ==
    ASSUME TypeInv, NEW w \in Workers, NEW to, NEW K,
           worker' = [worker EXCEPT ![w] = to]
    PROVE  Cardinality(With(K))' = Cardinality(With(K)) - In(worker[w], K) + In(to, K)
  <1>. DEFINE rest == With(K) \ {w}
  <1>1. /\ IsFiniteSet(rest)
        /\ Cardinality(rest) = Cardinality(With(K)) - In(worker[w], K)
    <2>1. w \in With(K) <=> worker[w] \in K
      BY DEF With
    <2>2. /\ IsFiniteSet(rest)
          /\ Cardinality(rest) = IF w \in With(K) THEN Cardinality(With(K)) - 1
                                                 ELSE Cardinality(With(K))
      BY Counted, FS_RemoveElement
    <2>3. Cardinality(With(K)) \in Nat
      BY Counted
    <2> QED BY <2>1, <2>2, <2>3 DEF In
  <1>2. /\ to \in K => With(K)' = rest \cup {w}
        /\ to \notin K => With(K)' = rest
    <2>1. \A v \in Workers : worker'[v] = IF v = w THEN to ELSE worker[v]
      BY DEF TypeInv
    <2>2. With(K)' = {v \in Workers : worker'[v] \in K}
      BY DEF With
    <2> QED BY <2>1, <2>2 DEF With
  <1>3. Cardinality(rest \cup {w}) = Cardinality(rest) + 1
    BY <1>1, FS_AddElement
  <1>4. Cardinality(With(K)) \in Nat /\ In(worker[w], K) \in {0, 1}
    BY Counted DEF In
  <1>5. CASE to \in K
    <2>1. Cardinality(With(K))' = Cardinality(rest) + 1
      BY <1>2, <1>3, <1>5
    <2> QED BY <1>1, <1>4, <1>5, <2>1 DEF In
  <1>6. CASE to \notin K
    <2>1. Cardinality(With(K))' = Cardinality(rest)
      BY <1>2, <1>6
    <2> QED BY <1>1, <1>4, <1>6, <2>1 DEF In
  <1> QED BY <1>5, <1>6

\* With every worker done none of them awaits anything.
LEMMA AllDone ==
    ASSUME TypeInv, \A w \in Workers : worker[w] = "done"
    PROVE  /\ Handed = 0
           /\ Succeeded = status["ok"]
           /\ Failed = status["error"]
  <1>1. ASSUME NEW K, "done" \notin K PROVE Cardinality(With(K)) = 0
    BY <1>1, Counted DEF With
  <1>2. status["ok"] \in Nat /\ status["error"] \in Nat
    BY DEF TypeInv, Answers
  <1> QED BY <1>1, <1>2 DEF Handed, Okays, Errors, Succeeded, Failed, Answers

-----------------------------------------------------------------------------
(* LoadInv is inductive.                                                   *)

LEMMA InitLoad == Init => LoadInv
  <1>. SUFFICES ASSUME Init PROVE LoadInv
    OBVIOUS
  <1>. USE DEF Init
  <1>1. TypeInv
    BY LoadTestAssumption DEF TypeInv, Unread
  <1>2. ASSUME NEW K, "ready" \notin K PROVE Cardinality(With(K)) = 0
    BY <1>2, Counted DEF With
  <1>3. Handed = 0 /\ Succeeded = 0 /\ Failed = 0
    BY <1>2 DEF Handed, Okays, Errors, Succeeded, Failed, Answers
  <1>4. EventsInv
    BY <1>3 DEF EventsInv, Answers
  <1>5. FallInv
    BY <1>1, <1>3 DEF FallInv, TypeInv
  <1>6. OverInv
    BY DEF OverInv, Finished, Unread
  <1> QED BY <1>1, <1>4, <1>5, <1>6 DEF LoadInv

\* What a worker's step makes of the counts.
HandedAt(x) == In(x, {"sent"} \cup Answers)
OkayAt(x)   == In(x, {"ok"})
ErrorAt(x)  == In(x, {"error"})

LEMMA WorkerMoves ==
    ASSUME TypeInv, NEW w \in Workers, worker' = [worker EXCEPT ![w] = worker'[w]]
    PROVE  /\ Handed \in Nat /\ Okays \in Nat /\ Errors \in Nat
           /\ Handed' = Handed - HandedAt(worker[w]) + HandedAt(worker'[w])
           /\ Okays' = Okays - OkayAt(worker[w]) + OkayAt(worker'[w])
           /\ Errors' = Errors - ErrorAt(worker[w]) + ErrorAt(worker'[w])
  <1>1. ASSUME NEW K
        PROVE  /\ Cardinality(With(K)) \in Nat
               /\ Cardinality(With(K))' =
                     Cardinality(With(K)) - In(worker[w], K) + In(worker'[w], K)
    BY Counted, Moved
  <1>2. Handed \in Nat /\ Handed' = Handed - HandedAt(worker[w]) + HandedAt(worker'[w])
    BY <1>1 DEF Handed, HandedAt
  <1>3. Okays \in Nat /\ Okays' = Okays - OkayAt(worker[w]) + OkayAt(worker'[w])
    BY <1>1 DEF Okays, OkayAt
  <1>4. Errors \in Nat /\ Errors' = Errors - ErrorAt(worker[w]) + ErrorAt(worker'[w])
    BY <1>1 DEF Errors, ErrorAt
  <1> QED BY <1>2, <1>3, <1>4

\* A worker that is not done keeps the storm going.
LEMMA StormGoesOn ==
    ASSUME LoadInv, NEW w \in Workers, worker[w] # "done",
           UNCHANGED <<reading, after>>
    PROVE  reading /\ OverInv'
  BY DEF LoadInv, TypeInv, OverInv, Finished

LEMMA TakeEventKeeps ==
    ASSUME LoadInv, NEW w \in Workers, TakeEvent(w)
    PROVE  LoadInv'
  <1>. USE DEF LoadInv, TakeEvent, MoreToDo, Answers
  <1>1. OverInv'
    BY StormGoesOn
  <1>2. /\ next \in Nat /\ next <= Count /\ Count \in Nat
        /\ status["ok"] \in Nat /\ status["insufficient"] \in Nat
        /\ status["error"] \in Nat
    BY LoadTestAssumption DEF TypeInv
  <1>3. CASE next < Count
    <2>1. /\ worker' = [worker EXCEPT ![w] = worker'[w]] /\ next' = next + 1
          /\ HandedAt(worker[w]) = 0 /\ HandedAt(worker'[w]) = 1
          /\ OkayAt(worker[w]) = 0 /\ OkayAt(worker'[w]) = 0
          /\ ErrorAt(worker[w]) = 0 /\ ErrorAt(worker'[w]) = 0
      BY <1>3 DEF In, HandedAt, OkayAt, ErrorAt, TypeInv
    <2>2. Handed' = Handed + 1 /\ Handed \in Nat
      BY <2>1, WorkerMoves
    <2>3. Succeeded' = Succeeded /\ Failed' = Failed
      BY <2>1, WorkerMoves DEF Succeeded, Failed
    <2>4. TypeInv'
      BY <1>2, <1>3, <2>1 DEF TypeInv
    <2>5. EventsInv'
      BY <1>2, <1>3, <2>1, <2>2 DEF EventsInv, TypeInv
    <2>6. FallInv'
      BY <2>3 DEF FallInv
    <2> QED BY <1>1, <2>4, <2>5, <2>6
  <1>4. CASE ~(next < Count)
    <2>1. /\ worker' = [worker EXCEPT ![w] = worker'[w]] /\ next' = next /\ next = Count
          /\ HandedAt(worker[w]) = 0 /\ HandedAt(worker'[w]) = 0
          /\ OkayAt(worker[w]) = 0 /\ OkayAt(worker'[w]) = 0
          /\ ErrorAt(worker[w]) = 0 /\ ErrorAt(worker'[w]) = 0
      BY <1>2, <1>4 DEF In, HandedAt, OkayAt, ErrorAt, TypeInv
    <2>2. Handed' = Handed
      BY <2>1, WorkerMoves
    <2>3. Succeeded' = Succeeded /\ Failed' = Failed
      BY <2>1, WorkerMoves DEF Succeeded, Failed
    <2>4. TypeInv'
      BY <2>1 DEF TypeInv
    <2>5. EventsInv'
      BY <2>1, <2>2 DEF EventsInv, TypeInv
    <2>6. FallInv'
      BY <2>3 DEF FallInv
    <2> QED BY <1>1, <2>4, <2>5, <2>6
  <1> QED BY <1>3, <1>4

LEMMA ServeConsumeKeeps ==
    ASSUME LoadInv, NEW w \in Workers, ServeConsume(w)
    PROVE  LoadInv'
  <1>. USE DEF LoadInv, ServeConsume, Answers
  <1>1. /\ worker' = [worker EXCEPT ![w] = worker'[w]]
        /\ \/ worker'[w] = "ok" /\ balance > 0 /\ balance' = balance - 1
           \/ worker'[w] = "insufficient" /\ balance' = balance
    BY DEF TypeInv
  <1>2. /\ HandedAt(worker[w]) = 1 /\ HandedAt(worker'[w]) = 1
        /\ OkayAt(worker[w]) = 0 /\ OkayAt(worker'[w]) = IF worker'[w] = "ok" THEN 1 ELSE 0
        /\ ErrorAt(worker[w]) = 0 /\ ErrorAt(worker'[w]) = 0
    BY <1>1 DEF In, HandedAt, OkayAt, ErrorAt
  <1>3. Handed' = Handed
    BY <1>1, <1>2, WorkerMoves
  <1>4. /\ Succeeded' = Succeeded + (IF worker'[w] = "ok" THEN 1 ELSE 0)
        /\ Failed' = Failed
        /\ Succeeded \in Nat /\ Failed \in Nat
    BY <1>1, <1>2, WorkerMoves DEF Succeeded, Failed, TypeInv
  <1>5. TypeInv'
    BY <1>1 DEF TypeInv
  <1>6. EventsInv'
    BY <1>1, <1>3 DEF EventsInv, TypeInv
  <1>7. FallInv'
    BY <1>1, <1>4 DEF FallInv, TypeInv
  <1>8. OverInv'
    BY StormGoesOn
  <1> QED BY <1>5, <1>6, <1>7, <1>8

LEMMA LoseRequestKeeps ==
    ASSUME LoadInv, NEW w \in Workers, LoseRequest(w)
    PROVE  LoadInv'
  <1>0. TypeInv
    BY DEF LoadInv
  <1>1. /\ worker' = [worker EXCEPT ![w] = worker'[w]]
        /\ HandedAt(worker[w]) = 1 /\ HandedAt(worker'[w]) = 1
        /\ OkayAt(worker[w]) \in {0, 1} /\ OkayAt(worker'[w]) = 0
        /\ ErrorAt(worker[w]) = 0 /\ ErrorAt(worker'[w]) = 1
        /\ OkayAt(worker[w]) = 1 => worker[w] # "sent"
    BY <1>0 DEF In, HandedAt, OkayAt, ErrorAt, TypeInv, LoseRequest, Answers
  <1>2. Handed' = Handed
    BY <1>0, <1>1, WorkerMoves
  <1>3. /\ Succeeded' = Succeeded - OkayAt(worker[w])
        /\ Failed' = Failed + 1
        /\ Succeeded \in Nat /\ Failed \in Nat
    <2>1. /\ status["ok"] \in Nat /\ status["error"] \in Nat
          /\ status' = status
      BY <1>0 DEF TypeInv, Answers, LoseRequest
    <2>2. /\ Okays' = Okays - OkayAt(worker[w]) /\ Okays \in Nat
          /\ Errors' = Errors + 1 /\ Errors \in Nat
      BY <1>0, <1>1, WorkerMoves
    <2> QED BY <1>1, <2>1, <2>2 DEF Succeeded, Failed
  <1>4. late \in Nat /\ (late' = late \/ (late' = late + 1 /\ worker[w] = "sent"))
    BY <1>0 DEF TypeInv, LoseRequest
  <1>5. TypeInv'
    BY <1>0, <1>1, <1>4 DEF TypeInv, LoseRequest, Answers
  <1>6. EventsInv'
    BY <1>1, <1>2 DEF LoadInv, EventsInv, TypeInv, LoseRequest, Answers
  <1>7. FallInv'
    BY <1>1, <1>3, <1>4 DEF LoadInv, FallInv, TypeInv, LoseRequest, Answers
  <1>8. OverInv'
    BY StormGoesOn DEF LoseRequest, Answers
  <1> QED BY <1>5, <1>6, <1>7, <1>8 DEF LoadInv

LEMMA CountAnswerKeeps ==
    ASSUME LoadInv, NEW w \in Workers, CountAnswer(w)
    PROVE  LoadInv'
  <1>0. TypeInv
    BY DEF LoadInv
  <1>1. /\ worker' = [worker EXCEPT ![w] = worker'[w]]
        /\ HandedAt(worker[w]) = 1 /\ HandedAt(worker'[w]) = 0
        /\ OkayAt(worker[w]) = IF worker[w] = "ok" THEN 1 ELSE 0
        /\ OkayAt(worker'[w]) = 0
        /\ ErrorAt(worker[w]) = IF worker[w] = "error" THEN 1 ELSE 0
        /\ ErrorAt(worker'[w]) = 0
    BY <1>0 DEF In, HandedAt, OkayAt, ErrorAt, TypeInv, CountAnswer, Answers
  <1>2. /\ status' \in [Answers -> Nat]
        /\ \A a \in Answers : status'[a] = status[a] + IF worker[w] = a THEN 1 ELSE 0
        /\ status \in [Answers -> Nat]
    BY <1>0 DEF TypeInv, CountAnswer, Answers
  <1>3. Handed' = Handed - 1 /\ Handed \in Nat
    BY <1>0, <1>1, WorkerMoves
  <1>4. Succeeded' = Succeeded /\ Failed' = Failed
    <2>1. /\ status["ok"] \in Nat /\ status["error"] \in Nat
          /\ status'["ok"] = status["ok"] + OkayAt(worker[w])
          /\ status'["error"] = status["error"] + ErrorAt(worker[w])
      BY <1>1, <1>2 DEF Answers
    <2>2. /\ Okays' = Okays - OkayAt(worker[w]) /\ Okays \in Nat
          /\ Errors' = Errors - ErrorAt(worker[w]) /\ Errors \in Nat
      BY <1>0, <1>1, WorkerMoves
    <2>3. OkayAt(worker[w]) \in {0, 1} /\ ErrorAt(worker[w]) \in {0, 1}
      BY <1>1
    <2> QED BY <2>1, <2>2, <2>3 DEF Succeeded, Failed
  <1>5. TypeInv'
    BY <1>0, <1>1, <1>2 DEF TypeInv, CountAnswer, Answers
  <1>6. EventsInv'
    BY <1>1, <1>2, <1>3 DEF LoadInv, EventsInv, TypeInv, CountAnswer, Answers
  <1>7. FallInv'
    BY <1>4 DEF LoadInv, FallInv, CountAnswer
  <1>8. OverInv'
    BY StormGoesOn DEF CountAnswer, Answers
  <1> QED BY <1>5, <1>6, <1>7, <1>8 DEF LoadInv

\* The steps of the service, the reader and the verdict move no worker.
LEMMA OtherStepsKeep ==
    ASSUME LoadInv, \/ ServeLate \/ CountRead \/ ReadAgain \/ StopReading \/ ReadAfter
                    \/ UNCHANGED vars
    PROVE  LoadInv'
  <1>. USE DEF LoadInv
  <1>1. /\ UNCHANGED <<before, next, worker, status>>
        /\ \/ UNCHANGED <<balance, late>>
           \/ /\ late > 0 /\ late' = late - 1
              /\ balance' = IF balance > 0 THEN balance - 1 ELSE balance
    BY DEF ServeLate, CountRead, ReadAgain, StopReading, ReadAfter, vars
  <1>2. UNCHANGED <<Handed, Succeeded, Failed>>
    BY <1>1 DEF Handed, Okays, Errors, Succeeded, Failed, With
  <1>3. TypeInv'
    <2>1. reading' \in BOOLEAN /\ after' \in {after, balance}
      BY DEF ServeLate, CountRead, ReadAgain, StopReading, ReadAfter, vars, TypeInv
    <2> QED BY <1>1, <2>1 DEF TypeInv
  <1>4. EventsInv'
    BY <1>1, <1>2 DEF EventsInv
  <1>5. FallInv'
    <2>1. Succeeded \in Nat /\ Failed \in Nat
      BY Counted DEF Okays, Errors, Succeeded, Failed, TypeInv, Answers
    <2> QED BY <1>1, <1>2, <2>1 DEF FallInv, TypeInv
  <1>6. OverInv'
    <2>1. CASE ServeLate \/ CountRead \/ ReadAgain \/ UNCHANGED vars
      BY <1>1, <2>1 DEF ServeLate, CountRead, ReadAgain, vars, OverInv, Finished
    <2>2. CASE StopReading
      BY <1>1, <2>2 DEF StopReading, OverInv, Finished
    <2>3. CASE ReadAfter
      <3>1. ~reading /\ \A w \in Workers : worker[w] = "done"
        BY <2>3 DEF ReadAfter, StormOver, OverInv
      <3>2. Succeeded = status["ok"] /\ Failed = status["error"]
        BY <3>1, AllDone
      <3>3. before - balance \in status["ok"] .. (status["ok"] + status["error"])
        BY <3>2 DEF FallInv, TypeInv, Answers
      <3>4. balance \in Nat
        BY DEF TypeInv
      <3> QED BY <1>1, <2>3, <3>1, <3>3, <3>4 DEF ReadAfter, OverInv, Finished
    <2> QED BY <2>1, <2>2, <2>3
  <1> QED BY <1>3, <1>4, <1>5, <1>6

LEMMA LoadStep == LoadInv /\ [Next]_vars => LoadInv'
  BY TakeEventKeeps, ServeConsumeKeeps, LoseRequestKeeps, CountAnswerKeeps,
     OtherStepsKeep DEF Next

-----------------------------------------------------------------------------
(* The theorems.                                                           *)

\* The inductive invariant holds for any number of workers, events and funds.
THEOREM BooksOfTheStorm == Spec => []LoadInv
  BY InitLoad, LoadStep, PTL DEF Spec

\* At the verdict each of the COUNT events has been counted exactly once.
THEOREM EventsAreCounted == Spec => []EveryEventIsCounted
  <1>1. LoadInv => EveryEventIsCounted
    <2>. SUFFICES ASSUME LoadInv, Finished
                  PROVE  status["ok"] + status["insufficient"] + status["error"] = Count
      BY DEF EveryEventIsCounted
    <2>1. \A w \in Workers : worker[w] = "done"
      BY DEF LoadInv, OverInv
    <2>2. next = Count /\ Handed = 0
      BY <2>1, AllDone, LoadTestAssumption DEF LoadInv, EventsInv
    <2> QED BY <2>2 DEF LoadInv, EventsInv, TypeInv, Answers
  <1> QED BY <1>1, BooksOfTheStorm, PTL

\* "Consistency": over a service that loses no update the verdict reports a
\* mismatch only when requests failed, and the failures then bound it.
THEOREM VerdictIsExplained == Spec => []DropIsExplained
  <1>1. LoadInv => DropIsExplained
    BY DEF LoadInv, OverInv, TypeInv, Answers, DropIsExplained, Consistent
  <1> QED BY <1>1, BooksOfTheStorm, PTL
=============================================================================
