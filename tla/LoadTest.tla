------------------------------ MODULE LoadTest ------------------------------
(***************************************************************************)
(* scripts/load-test.mjs: a pool of workers posts Count consumptions,      *)
(* without idempotency keys, at one customer that was topped up first,     *)
(* while a reader polls the customer list, and a verdict compares the fall *)
(* of the balance with the 201s that were counted.                         *)
(*                                                                         *)
(* The service is the atomic one of module Wallet: a request takes effect  *)
(* at one moment, or not at all, and its answer may be lost.  The unit is  *)
(* the cost of one event.  The workers are coroutines of one JavaScript    *)
(* thread, so the code between two awaits is one step.                     *)
(***************************************************************************)
EXTENDS Integers, FiniteSets

CONSTANTS
    Workers,       \* the worker pool, CONCURRENCY of them
    Count,         \* COUNT, the events to post
    Funds,         \* balances, in events, the storm may start from
    MaxReads       \* bound: reads counted

ASSUME LoadTestAssumption ==
    /\ IsFiniteSet(Workers) /\ Workers # {}
    /\ Count \in Nat
    /\ Funds \subseteq Nat
    /\ MaxReads \in Nat

VARIABLES
    balance,       \* the customer's balance in the database
    before,        \* what the script read before the storm
    next,          \* events handed to a worker
    worker,        \* what each worker awaits
    late,          \* requests given up that may still take effect
    status,        \* status.ok, status.insufficient, status.error
    reading,       \* the reader loop is to go on
    reader,        \* what the reader awaits
    reads,         \* readOk and readBad
    after          \* what the script read after it, or Unread

vars == <<balance, before, next, worker, late, status, reading, reader, reads, after>>

Unread == -1
Answers == {"ok", "insufficient", "error"}

-----------------------------------------------------------------------------
Init ==
    /\ balance \in Funds
    /\ before = balance
    /\ next = 0
    /\ worker = [w \in Workers |-> "ready"]
    /\ late = 0
    /\ status = [a \in Answers |-> 0]
    /\ reading = TRUE
    /\ reader = "asked"
    /\ reads = [ok |-> 0, bad |-> 0]
    /\ after = Unread

(* Mistake: one event too many. *)
OneMoreToDo == next <= Count

MoreToDo == next < Count

(* while (next < COUNT) { next++; fetch(...) *)
TakeEvent(w) ==
    /\ worker[w] = "ready"
    /\ IF MoreToDo
       THEN /\ next' = next + 1
            /\ worker' = [worker EXCEPT ![w] = "sent"]
       ELSE /\ next' = next
            /\ worker' = [worker EXCEPT ![w] = "done"]
    /\ UNCHANGED <<balance, before, late, status, reading, reader, reads, after>>

(* The service consumes, or denies for want of funds. *)
ServeConsume(w) ==
    /\ worker[w] = "sent"
    /\ IF balance > 0
       THEN balance' = balance - 1 /\ worker' = [worker EXCEPT ![w] = "ok"]
       ELSE balance' = balance /\ worker' = [worker EXCEPT ![w] = "insufficient"]
    /\ UNCHANGED <<before, next, late, status, reading, reader, reads, after>>

(* The client gets an error: the answer is lost, or the request was given  *)
(* up on its way and may still reach the service.                          *)
LoseRequest(w) ==
    /\ worker[w] \in {"sent", "ok", "insufficient"}
    /\ worker' = [worker EXCEPT ![w] = "error"]
    /\ late' \in IF worker[w] = "sent" THEN {late, late + 1} ELSE {late}
    /\ UNCHANGED <<balance, before, next, status, reading, reader, reads, after>>

ServeLate ==
    /\ late > 0
    /\ late' = late - 1
    /\ balance' = IF balance > 0 THEN balance - 1 ELSE balance
    /\ UNCHANGED <<before, next, worker, status, reading, reader, reads, after>>

(* The answer is counted. *)
CountAnswer(w) ==
    /\ worker[w] \in Answers
    /\ status' = [status EXCEPT ![worker[w]] = @ + 1]
    /\ worker' = [worker EXCEPT ![w] = "ready"]
    /\ UNCHANGED <<balance, before, next, late, reading, reader, reads, after>>

(* The reader is answered, and goes on after a pause. *)
CountRead ==
    /\ reader = "asked"
    /\ \E outcome \in {"ok", "bad"} :
          reads' = [reads EXCEPT ![outcome] = IF @ < MaxReads THEN @ + 1 ELSE @]
    /\ reader' = "pausing"
    /\ UNCHANGED <<balance, before, next, worker, late, status, reading, after>>

ReadAgain ==
    /\ reader = "pausing"
    /\ reader' = IF reading THEN "asked" ELSE "done"
    /\ UNCHANGED <<balance, before, next, worker, late, status, reading, reads, after>>

(* Promise.all has resolved: the reader is told to stop. *)
StopReading ==
    /\ reading
    /\ \A w \in Workers : worker[w] = "done"
    /\ reading' = FALSE
    /\ UNCHANGED <<balance, before, next, worker, late, status, reader, reads, after>>

(* Mistake: when the last event is handed out. *)
AllTaken == next = Count

StormOver == ~reading /\ reader = "done"

(* With the reader done the final balance is read. *)
ReadAfter ==
    /\ StormOver
    /\ after = Unread
    /\ after' = balance
    /\ UNCHANGED <<balance, before, next, worker, late, status, reading, reader, reads>>

Next ==
    \/ CountRead
    \/ ReadAgain
    \/ StopReading
    \/ ReadAfter
    \/ ServeLate
    \/ \E w \in Workers :
          \/ TakeEvent(w)
          \/ ServeConsume(w)
          \/ LoseRequest(w)
          \/ CountAnswer(w)

Spec == Init /\ [][Next]_vars

-----------------------------------------------------------------------------
Finished == after # Unread
Consistent == before - after = status["ok"] /\ after >= 0

(* The storm is all there and nothing is counted twice: at the verdict the *)
(* three counters add up to COUNT, however the workers interleave.         *)
EveryEventIsCounted ==
    Finished =>
        status["ok"] + status["insufficient"] + status["error"] = Count

(* The verdict can be trusted: it reports a mismatch of this service, which *)
(* loses no update, only when requests failed, and then the balance fell   *)
(* by no less than the successes and no more than the failures explain.    *)
DropIsExplained ==
    Finished =>
        /\ status["error"] = 0 => Consistent
        /\ before - after \in status["ok"]..(status["ok"] + status["error"])

=============================================================================
