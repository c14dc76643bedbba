-------------------------- MODULE BillingInvariant --------------------------
(***************************************************************************)
(* Why Billing is correct: the inductive invariant, in three layers, each  *)
(* inductive relative to the ones before it.                               *)
(*                                                                         *)
(*   Shape      where a handler stands tells what its request is           *)
(*   Isolation  the lock tells whose change the draft holds                *)
(*   Accounts   what is decided, what is booked, and what is still open    *)
(***************************************************************************)
EXTENDS Billing

\* What a handler's position says about its request.
Placed(r) ==
    /\ pc[r] = "idle" => body[r] = Unsent
    /\ pc[r] # "idle" => body[r] \in Body
    /\ pc[r] \in Working \ {"respond"} => Valid(body[r])
    /\ pc[r] \in {"lookup", "disambiguate"} => body[r].op = "consume"
    /\ pc[r] = "list" => body[r].op = "list"
    /\ pc[r] \in {"begin"} \cup InTx =>
          \/ /\ body[r].op = "consume"
             /\ body[r].product \in Product
             /\ quoted[r] \in Price
          \/ body[r].op = "credit"
    /\ pc[r] \in {"insert", "commit"} => body[r].customer \in Customer

Shape == TypeOK /\ \A r \in Request : Placed(r)

\* Only a transaction past its first write holds the lock, until it has
\* committed or been rolled back.
LockHeld == lock # NoRequest => pc[lock] \in Writing \cup {"rollback"}

Isolation == LockHeld /\ TransactionIsolation

\* Until its handler reaches a verdict, a request has none; a transaction
\* that is undone without one has met the row that carries its key.
Open(r) ==
    /\ pc[r] \in {"idle", "lookup", "list", "begin", "update", "reread"} \cup Writing
          => verdict[r] = Undecided
    /\ \/ pc[r] = "reread"
       \/ pc[r] = "rollback" /\ verdict[r] = Undecided
       => /\ body[r].op = "consume"
          /\ body[r].key # NoKey
          /\ Originals(body[r].key) # {}

\* What the transaction has found out stays true while it holds the lock.
Checked(r) ==
    /\ pc[r] = "disambiguate" /\ body[r].customer \in Customer
          => txBalance[body[r].customer] < Cost(r)
    /\ pc[r] = "commit" /\ body[r].op = "consume" /\ body[r].key # NoKey
          => Originals(body[r].key) = {}

Accounts == /\ \A r \in Request : Open(r) /\ Checked(r)
            /\ NoOverdraft
            /\ ChargedOncePerKey
            /\ AnswersMatchBooks

\* No committed row has an id that is still to be handed out.
Numbered == \A row \in ledger : row.id <= lastId

\* The inductive invariant: a handler that is cut short, times out or replays
\* at any await leaves the books, the draft and its verdict in agreement.
IInv == Shape /\ Isolation /\ Accounts /\ Numbered
=============================================================================
