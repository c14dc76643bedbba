---------------------------- MODULE BillingTypes ----------------------------
(***************************************************************************)
(* The vocabulary of the billing back end, shared by the promise it makes  *)
(* (Wallet) and by the code that keeps it (Billing): what a client may     *)
(* send, what a LedgerEntry row holds, what a route can answer.            *)
(*                                                                         *)
(* Money is an integer number of minor units throughout, as in             *)
(* schema.prisma.  Names, descriptions and timestamps are left out: no     *)
(* guard of the code reads them.                                           *)
(***************************************************************************)
EXTENDS Integers, FiniteSets

CONSTANTS
    Request,     \* HTTP requests, each sent at most once
    Customer,    \* ids of the rows of table Customer
    Product,     \* ids of the rows of table Product
    Key,         \* Idempotency-Key header values
    Price,       \* unit prices a Product may have
    Body,        \* the requests clients send: a subset of AnyBody
    Opening,     \* Opening[c]: balance of customer c when serving starts
    NoCustomer,  \* a customer id that has no row
    NoProduct,   \* a product id that has no row; also a NULL productId
    NoKey        \* header absent or blank; also a NULL idempotencyKey

\* POST /consumption-events.  A quantity that is not positive stands for
\* every body the route's validation rejects.
ConsumeBody == [op: {"consume"}, customer: Customer \cup {NoCustomer},
                product: Product \cup {NoProduct}, quantity: Int,
                key: Key \cup {NoKey}]

\* POST /customers/:id/credits, likewise for the amount.
CreditBody == [op: {"credit"}, customer: Customer \cup {NoCustomer}, amount: Int]

\* GET /customers.
ListBody == [op: {"list"}]

AnyBody == ConsumeBody \cup CreditBody \cup ListBody

\* What a request's slot holds before the request is sent.
Unsent == [op |-> "unsent"]

\* A row of table LedgerEntry.  "origin" is not a column: it remembers the
\* request whose transaction wrote the row, for the properties only.
Row == [id: Nat, customer: Customer, type: {"CONSUMPTION", "CREDIT"},
        key: Key \cup {NoKey}, product: Product \cup {NoProduct},
        quantity: Nat, unitPrice: Nat, amount: Int, origin: Request]

\* The answer a route gives.  Status 0: not decided yet.  "asOf" is not in
\* the answer: it remembers the last ledger id when the list was read.
Undecided       == [status |-> 0]
Refused(s)      == [status |-> s]
Created(row)    == [status |-> 201, row |-> row]
Denied(have, need) == [status |-> 402, balance |-> have, required |-> need]
Listed(bal, n)  == [status |-> 200, balances |-> bal, asOf |-> n]

Verdict == [status: {0, 400, 404, 500}]
           \cup [status: {201}, row: Row]
           \cup [status: {402}, balance: Int, required: Int]
           \cup [status: {200}, balances: [Customer -> Int], asOf: Nat]

ValidAnything(b) == TRUE

\* The validation at the route boundary: quantity and amount are positive
\* integers (consumption.routes.ts, customers.routes.ts).
Valid(b) == /\ b.op = "consume" => b.quantity > 0
            /\ b.op = "credit"  => b.amount > 0

ConsumptionRow(n, b, unit, r) ==
    [id |-> n, customer |-> b.customer, type |-> "CONSUMPTION", key |-> b.key,
     product |-> b.product, quantity |-> b.quantity, unitPrice |-> unit,
     amount |-> -(unit * b.quantity), origin |-> r]

CreditRow(n, b, r) ==
    [id |-> n, customer |-> b.customer, type |-> "CREDIT", key |-> NoKey,
     product |-> NoProduct, quantity |-> 0, unitPrice |-> 0,
     amount |-> b.amount, origin |-> r]

ASSUME BodyAssumption    == Body \subseteq AnyBody
ASSUME PriceAssumption   == Price \subseteq Nat /\ Price # {}
ASSUME OpeningAssumption == Opening \in [Customer -> Nat]
ASSUME NamesAssumption   == /\ NoCustomer \notin Customer
                            /\ NoProduct \notin Product
                            /\ NoKey \notin Key
=============================================================================
