---------------------------- MODULE BillingAudit ----------------------------
(***************************************************************************)
(* The auditor's view of Billing: balances recomputed from the ledger.     *)
(***************************************************************************)
EXTENDS Billing, FiniteSetsExt

\* Opening balance plus every signed amount booked up to ledger id n.
Recomputed(c, n) ==
    Opening[c] + MapThenSumSet(LAMBDA row : row.amount,
                               {row \in ledger : row.customer = c /\ row.id <= n})

\* CONTEXT.md, Usage Event: "The Balance is kept consistent with the ledger".
\* Every committed balance is its opening balance plus the ledger's amounts,
\* although the deduction, the price it was computed from and the row are
\* three separate awaits.
Reconciled == \A c \in Customer : balance[c] = Recomputed(c, lastId)

\* A dashboard read (GET /customers) racing transactions shows the balances of
\* one committed moment: those the ledger explained when it was taken.
ListsReconcile ==
    \A r \in Request : verdict[r].status = 200 =>
        \A c \in Customer : verdict[r].balances[c] = Recomputed(c, verdict[r].asOf)
=============================================================================
