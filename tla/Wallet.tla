------------------------------- MODULE Wallet -------------------------------
(***************************************************************************)
(* What the billing back end promises, with no processes, no connections   *)
(* and no transactions: every request is decided once, in one indivisible  *)
(* step, against the balances and the ledger of that moment.               *)
(*                                                                         *)
(* A charge moves one balance and appends one row that explains the move;  *)
(* it never takes a balance below zero and never uses an idempotency key   *)
(* that a row already carries.  A repeated key is answered with the row    *)
(* that carries it.  Every other answer leaves the books alone.  It is     *)
(* what consumption.service.ts consume and customer.service.ts             *)
(* creditWallet and listCustomers compute, each as one atomic step.        *)
(***************************************************************************)
EXTENDS BillingTypes

VARIABLES
    body,      \* body[r]: what request r asks for
    balance,   \* balance[c]: column Customer.balance
    ledger,    \* the rows of LedgerEntry
    lastId,    \* the AUTOINCREMENT counter of LedgerEntry.id
    verdict    \* verdict[r]: the answer decided for request r

vars == <<body, balance, ledger, lastId, verdict>>

KeyUsed(k) == k # NoKey /\ \E row \in ledger : row.key = k

Decide(r, v) == /\ verdict[r] = Undecided
                /\ verdict' = [verdict EXCEPT ![r] = v]

\* The row that request r's charge or top-up appends, at unit price "unit".
Entry(r, unit) == IF body[r].op = "consume"
                    THEN ConsumptionRow(lastId + 1, body[r], unit, r)
                    ELSE CreditRow(lastId + 1, body[r], r)

Post(row) ==
    /\ balance' = [balance EXCEPT ![row.customer] = @ + row.amount]
    /\ ledger'  = ledger \cup {row}
    /\ lastId'  = row.id

Init ==
    /\ body    = [r \in Request |-> Unsent]
    /\ balance = Opening
    /\ ledger  = {}
    /\ lastId  = 0
    /\ verdict = [r \in Request |-> Undecided]

\* A client sends a request; a malformed one is decided at once (400).
Submit(r) ==
    /\ body[r] = Unsent
    /\ \E b \in Body :
         /\ body' = [body EXCEPT ![r] = b]
         /\ \/ verdict' = verdict
            \/ ~Valid(b) /\ Decide(r, Refused(400))
    /\ UNCHANGED <<balance, ledger, lastId>>

\* A Consumption Event the Wallet can afford, under a key never used before,
\* or a Top-up.
Book(r) ==
    /\ body[r].op \in {"consume", "credit"}
    /\ Valid(body[r])
    /\ body[r].customer \in Customer
    /\ \E unit \in Price :
         LET row == Entry(r, unit) IN
           /\ balance[row.customer] + row.amount >= 0
           /\ ~KeyUsed(row.key)
           /\ Decide(r, Created(row))
           /\ Post(row)
    /\ UNCHANGED body

\* A Consumption Event that would overdraw the Wallet.
Deny(r) ==
    /\ body[r].op = "consume"
    /\ body[r].customer \in Customer
    /\ \E unit \in Price :
         LET need == unit * body[r].quantity
             have == balance[body[r].customer]
         IN  have < need /\ Decide(r, Denied(have, need))
    /\ UNCHANGED <<body, balance, ledger, lastId>>

\* A Consumption Event under a key that a row already carries.
Replay(r) ==
    /\ body[r].op = "consume"
    /\ \E row \in ledger : /\ row.key = body[r].key
                           /\ row.key # NoKey
                           /\ Decide(r, Created(row))
    /\ UNCHANGED <<body, balance, ledger, lastId>>

\* An id that names nothing.
Miss(r) ==
    /\ \/ body[r].op \in {"consume", "credit"} /\ body[r].customer \notin Customer
       \/ body[r].op = "consume" /\ body[r].product \notin Product
    /\ Decide(r, Refused(404))
    /\ UNCHANGED <<body, balance, ledger, lastId>>

\* The service may always give up on a request, with no effect on the books.
GiveUp(r) ==
    /\ body[r] # Unsent
    /\ Decide(r, Refused(500))
    /\ UNCHANGED <<body, balance, ledger, lastId>>

\* The dashboard's list is the balances of one moment.
Show(r) ==
    /\ body[r].op = "list"
    /\ Decide(r, Listed(balance, lastId))
    /\ UNCHANGED <<body, balance, ledger, lastId>>

Next == \E r \in Request : \/ Submit(r) \/ Book(r) \/ Deny(r) \/ Replay(r)
                           \/ Miss(r) \/ GiveUp(r) \/ Show(r)

Spec == Init /\ [][Next]_vars
=============================================================================
