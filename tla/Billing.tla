------------------------------ MODULE Billing -------------------------------
(***************************************************************************)
(* The billing back end as it runs: several Node processes behind nginx,   *)
(* each with one pooled SQLite connection, sharing one database file.      *)
(*                                                                         *)
(* Every await of the code is a step boundary.  A request walks through    *)
(* its handler one database call at a time:                                *)
(*                                                                         *)
(*   lookup        prisma.product.findUnique       (own statement)         *)
(*   list          prisma.customer.findMany        (own statement)         *)
(*   begin         $transaction takes the pooled connection                *)
(*   update        tx.customer.updateMany, takes the write lock            *)
(*   disambiguate  tx.customer.findUnique, after 0 rows were affected      *)
(*   insert        tx.ledgerEntry.create                                   *)
(*   commit        the callback resolved                                   *)
(*   rollback      the callback threw                                      *)
(*   reread        prisma.ledgerEntry.findUnique by idempotency key        *)
(*   respond       the route has its answer                                *)
(*                                                                         *)
(* SQLite is modelled from how the code uses it: one write lock for the    *)
(* whole database, held from a transaction's first write to its end; the   *)
(* writes of the open transaction are in txBalance and txLedger, which     *)
(* only the lock's holder reads; everyone else reads the committed         *)
(* balance and ledger.  The CHECK (balance >= 0) of the migration is left  *)
(* out on purpose: no property here leans on it.                           *)
(***************************************************************************)
EXTENDS BillingTypes

CONSTANTS
    Process,     \* the backend instances
    NoProcess,   \* a request that has not reached an instance
    NoRequest    \* a free connection, a free lock

VARIABLES
    up,          \* up[p]: instance p is listening
    conn,        \* conn[p]: the request whose transaction holds p's connection
    pc,          \* pc[r]: where request r is in its handler
    proc,        \* proc[r]: the instance nginx sent r to
    body,        \* body[r]: the request itself
    quoted,      \* quoted[r]: product.unitPrice as r's handler read it
    verdict,     \* verdict[r]: the answer the handler arrived at
    gone,        \* requests whose client heard a broken connection instead
    price,       \* price[x]: column Product.unitPrice, committed
    balance,     \* balance[c]: column Customer.balance, committed
    ledger,      \* the rows of LedgerEntry, committed
    lastId,      \* the AUTOINCREMENT counter of LedgerEntry, committed
    lock,        \* the request whose transaction holds the write lock
    txBalance,   \* Customer.balance as the lock's holder sees it
    txLedger     \* LedgerEntry as the lock's holder sees it

books  == <<balance, ledger, lastId>>
draft  == <<txBalance, txLedger>>
server == <<up, conn, lock>>
vars   == <<up, conn, pc, proc, body, quoted, verdict, gone, price,
            balance, ledger, lastId, lock, txBalance, txLedger>>

ASSUME ProcessAssumption == /\ NoProcess \notin Process
                            /\ NoRequest \notin Request

-----------------------------------------------------------------------------
(* Control states.                                                         *)

Writing == {"disambiguate", "insert", "commit"}   \* the write lock is held
InTx    == {"update", "rollback"} \cup Writing    \* the connection is held
Working == {"lookup", "list", "begin", "reread", "respond"} \cup InTx
Control == {"idle", "done"} \cup Working

InFlight(r) == pc[r] \in Working

\* The client of r has an answer, or knows it will get none.
Answered(r) == pc[r] = "done" /\ r \notin gone

Goto(r, label) == pc' = [pc EXCEPT ![r] = label]

Decide(r, v) == verdict' = [verdict EXCEPT ![r] = v]

-----------------------------------------------------------------------------
(* What the statements of the handlers compute.                            *)

Consuming(r) == body[r].op = "consume"

Cost(r) == quoted[r] * body[r].quantity

\* The signed change of the Balance: { decrement: cost } or { increment: amount }.
Delta(r) == IF Consuming(r) THEN -Cost(r) ELSE body[r].amount

\* The WHERE clause of updateMany, on the rows the transaction sees.
MatchesAnyFunds(r) == body[r].customer \in Customer
Matches(r) == /\ body[r].customer \in Customer
              /\ Consuming(r) => txBalance[body[r].customer] >= Cost(r)

\* The row handed to ledgerEntry.create.
EntryAtPrice(r) == IF Consuming(r)
                     THEN ConsumptionRow(lastId + 1, body[r], price[body[r].product], r)
                     ELSE CreditRow(lastId + 1, body[r], r)
Entry(r) == IF Consuming(r)
              THEN ConsumptionRow(lastId + 1, body[r], quoted[r], r)
              ELSE CreditRow(lastId + 1, body[r], r)

\* The UNIQUE index on idempotencyKey; NULLs never collide.
CollidesNever(r) == FALSE
Collides(r) == /\ Consuming(r)
               /\ body[r].key # NoKey
               /\ \E row \in txLedger : row.key = body[r].key

\* A pool of one: a statement needs the connection no transaction holds.
Idle(p) == conn[p] = NoRequest

\* The database-wide write lock, for which busy_timeout makes a writer wait.
WritableAlways == TRUE
Writable == lock = NoRequest

-----------------------------------------------------------------------------
(* A request arrives.                                                      *)

FirstCall(b) == CASE b.op = "consume" -> "lookup"
                  [] b.op = "credit"  -> "begin"
                  [] b.op = "list"    -> "list"

\* nginx hands r to an instance that listens; the route validates the body.
Deliver(r, b, p) ==
    /\ pc[r] = "idle"
    /\ up[p]
    /\ body' = [body EXCEPT ![r] = b]
    /\ proc' = [proc EXCEPT ![r] = p]
    /\ \/ /\ Valid(b)
          /\ Goto(r, FirstCall(b))
          /\ UNCHANGED verdict
       \/ /\ ~Valid(b)
          /\ Goto(r, "respond")
          /\ Decide(r, Refused(400))
    /\ UNCHANGED <<quoted, gone, price, server, books, draft>>

\* No instance listens: nginx answers 502 itself.
BadGateway(r, b) ==
    /\ pc[r] = "idle"
    /\ \A p \in Process : ~up[p]
    /\ body' = [body EXCEPT ![r] = b]
    /\ gone' = gone \cup {r}
    /\ Goto(r, "done")
    /\ UNCHANGED <<proc, quoted, verdict, price, server, books, draft>>

-----------------------------------------------------------------------------
(* Statements outside a transaction.                                       *)

\* ConsumptionService.consume, before its transaction: the price is read
\* here and the cost computed from it; both are used after several awaits.
LookupProduct(r) ==
    /\ pc[r] = "lookup"
    /\ Idle(proc[r])
    /\ \/ /\ body[r].product \in Product
          /\ quoted' = [quoted EXCEPT ![r] = price[body[r].product]]
          /\ Goto(r, "begin")
          /\ UNCHANGED verdict
       \/ /\ body[r].product \notin Product
          /\ Decide(r, Refused(404))
          /\ Goto(r, "respond")
          /\ UNCHANGED quoted
    /\ UNCHANGED <<proc, body, gone, price, server, books, draft>>

\* CustomerService.listCustomers: one statement, on committed rows only.
DirtyBalances == txBalance
CommittedBalances == balance

ListCustomers(r) ==
    /\ pc[r] = "list"
    /\ Idle(proc[r])
    /\ Decide(r, Listed(CommittedBalances, lastId))
    /\ Goto(r, "respond")
    /\ UNCHANGED <<proc, body, quoted, gone, price, server, books, draft>>

\* The catch block of consume: the key collided, so the row that carries it
\* is looked up and returned; if there were none the error would surface.
Originals(k) == {row \in ledger : row.key = k}

RereadOriginal(r) ==
    /\ pc[r] = "reread"
    /\ Idle(proc[r])
    /\ Decide(r, IF Originals(body[r].key) = {}
                   THEN Refused(500)
                   ELSE Created(CHOOSE row \in Originals(body[r].key) : TRUE))
    /\ Goto(r, "respond")
    /\ UNCHANGED <<proc, body, quoted, gone, price, server, books, draft>>

\* pool_timeout or maxWait: the wait for the connection outlasts its limit.
PoolTimesOut(r) ==
    /\ pc[r] \in {"lookup", "list", "begin", "reread"}
    /\ ~Idle(proc[r])
    /\ Decide(r, Refused(500))
    /\ Goto(r, "respond")
    /\ UNCHANGED <<proc, body, quoted, gone, price, server, books, draft>>

-----------------------------------------------------------------------------
(* The interactive transaction of consume and of creditWallet.             *)

Begin(r) ==
    /\ pc[r] = "begin"
    /\ Idle(proc[r])
    /\ conn' = [conn EXCEPT ![proc[r]] = r]
    /\ Goto(r, "update")
    /\ UNCHANGED <<up, proc, body, quoted, verdict, gone, price, lock, books, draft>>

\* updateMany.  count = 1, or 0: a credit then knows the customer is missing,
\* a consumption has to ask.
Update(r) ==
    /\ pc[r] = "update"
    /\ Writable
    /\ lock' = r
    /\ \/ /\ Matches(r)
          /\ txBalance' = [txBalance EXCEPT ![body[r].customer] = @ + Delta(r)]
          /\ Goto(r, "insert")
          /\ UNCHANGED verdict
       \/ /\ ~Matches(r)
          /\ Consuming(r)
          /\ Goto(r, "disambiguate")
          /\ UNCHANGED <<txBalance, verdict>>
       \/ /\ ~Matches(r)
          /\ ~Consuming(r)
          /\ Decide(r, Refused(404))
          /\ Goto(r, "rollback")
          /\ UNCHANGED txBalance
    /\ UNCHANGED <<up, conn, proc, body, quoted, gone, price, books, txLedger>>

\* Unknown customer, or too little money: both throw.
Disambiguate(r) ==
    /\ pc[r] = "disambiguate"
    /\ Decide(r, IF body[r].customer \in Customer
                   THEN Denied(txBalance[body[r].customer], Cost(r))
                   ELSE Refused(404))
    /\ Goto(r, "rollback")
    /\ UNCHANGED <<proc, body, quoted, gone, price, server, books, draft>>

\* ledgerEntry.create: a collision throws P2002, which decides nothing yet.
Insert(r) ==
    /\ pc[r] = "insert"
    /\ \/ /\ ~Collides(r)
          /\ txLedger' = txLedger \cup {Entry(r)}
          /\ Goto(r, "commit")
       \/ /\ Collides(r)
          /\ Goto(r, "rollback")
          /\ UNCHANGED txLedger
    /\ UNCHANGED <<proc, body, quoted, verdict, gone, price, server, books, txBalance>>

\* The transaction ends: its connection goes back to the pool.  (The variant
\* rereads a replay's row inside the callback, its connection still held.)
FreeAfterReread(r) ==
    conn' = [conn EXCEPT ![proc[r]] =
               IF pc[r] = "rollback" /\ verdict[r] = Undecided THEN @ ELSE NoRequest]
FreeConnection(r) == conn' = [conn EXCEPT ![proc[r]] = NoRequest]

\* The draft becomes the books.
PublishTotals == balance' = txBalance /\ UNCHANGED <<ledger, lastId>>
PublishUnderOldId == balance' = txBalance /\ ledger' = txLedger /\ UNCHANGED lastId
Publish == balance' = txBalance /\ ledger' = txLedger /\ lastId' = lastId + 1

Commit(r) ==
    /\ pc[r] = "commit"
    /\ Publish
    /\ lock' = NoRequest
    /\ FreeConnection(r)
    /\ Decide(r, Created(Entry(r)))
    /\ Goto(r, "respond")
    /\ UNCHANGED <<up, proc, body, quoted, gone, price, draft>>

\* A transaction is undone; it holds the write lock, or had not written yet.
UndoNothing(locked) == /\ lock' = IF locked THEN NoRequest ELSE lock
                       /\ UNCHANGED draft
Undo(locked) ==
    \/ /\ locked
       /\ lock' = NoRequest
       /\ txBalance' = balance
       /\ txLedger' = ledger
    \/ ~locked /\ UNCHANGED <<lock, draft>>

\* What was thrown is answered, except P2002, which the catch block turns
\* into a replay.
Rollback(r) ==
    /\ pc[r] = "rollback"
    /\ FreeConnection(r)
    /\ Undo(lock = r)
    /\ Goto(r, IF verdict[r] = Undecided THEN "reread" ELSE "respond")
    /\ UNCHANGED <<up, proc, body, quoted, verdict, gone, price, books>>

AnyErrorIsAReplay(r) ==
    /\ pc[r] \in {"update"} \cup Writing
    /\ Goto(r, "rollback")
    /\ UNCHANGED <<proc, body, quoted, verdict, gone, price, server, books, draft>>

\* The transaction's timeout, or busy_timeout while it waits for the lock.
TransactionTimesOut(r) ==
    /\ pc[r] \in {"update"} \cup Writing
    /\ Decide(r, Refused(500))
    /\ Goto(r, "rollback")
    /\ UNCHANGED <<proc, body, quoted, gone, price, server, books, draft>>

-----------------------------------------------------------------------------
(* The answer leaves, or never arrives.                                    *)

\* Either the client reads it, or its connection broke at some point since the
\* request was sent (network, proxy timeout, closed tab): no handler notices.
Respond(r) ==
    /\ pc[r] = "respond"
    /\ Goto(r, "done")
    /\ gone' \in {gone, gone \cup {r}}
    /\ UNCHANGED <<proc, body, quoted, verdict, price, server, books, draft>>

\* An instance dies, or exits after SIGTERM without waiting for its
\* handlers: its requests go unanswered and its open transaction is undone.
Crash(p) ==
    LET cut == {r \in Request : proc[r] = p /\ InFlight(r)} IN
    /\ up[p]
    /\ up' = [up EXCEPT ![p] = FALSE]
    /\ conn' = [conn EXCEPT ![p] = NoRequest]
    /\ pc' = [r \in Request |-> IF r \in cut THEN "done" ELSE pc[r]]
    /\ gone' = gone \cup cut
    /\ Undo(lock \in cut)
    /\ UNCHANGED <<proc, body, quoted, verdict, price, books>>

\* server.ts main: the connection is configured, then the port is opened.
Restart(p) ==
    /\ ~up[p]
    /\ up' = [up EXCEPT ![p] = TRUE]
    /\ UNCHANGED <<conn, pc, proc, body, quoted, verdict, gone, price, lock, books, draft>>

\* The catalog's writer: the seed's upsert of a Product.
Reprice(x, u) ==
    /\ price[x] # u
    /\ price' = [price EXCEPT ![x] = u]
    /\ UNCHANGED <<pc, proc, body, quoted, verdict, gone, server, books, draft>>

-----------------------------------------------------------------------------
Init ==
    /\ up = [p \in Process |-> TRUE]
    /\ conn = [p \in Process |-> NoRequest]
    /\ pc = [r \in Request |-> "idle"]
    /\ proc = [r \in Request |-> NoProcess]
    /\ body = [r \in Request |-> Unsent]
    /\ quoted = [r \in Request |-> 0]
    /\ verdict = [r \in Request |-> Undecided]
    /\ gone = {}
    /\ price \in [Product -> Price]
    /\ balance = Opening
    /\ ledger = {}
    /\ lastId = 0
    /\ lock = NoRequest
    /\ txBalance = Opening
    /\ txLedger = {}

\* What the handler of r does next, when nothing goes wrong around it.
Serve(r) == \/ LookupProduct(r) \/ ListCustomers(r) \/ Begin(r) \/ Update(r)
            \/ Disambiguate(r) \/ Insert(r) \/ Commit(r) \/ Rollback(r)
            \/ RereadOriginal(r) \/ Respond(r)

Fail(r) == PoolTimesOut(r) \/ TransactionTimesOut(r)

Arrive(r) == \E b \in Body : BadGateway(r, b) \/ \E p \in Process : Deliver(r, b, p)

Backend == \/ \E r \in Request : Serve(r) \/ Fail(r)
           \/ \E p \in Process : Crash(p) \/ Restart(p)
           \/ \E x \in Product, u \in Price : Reprice(x, u)

Next == Backend \/ \E r \in Request : Arrive(r)

Spec == Init /\ [][Next]_vars

\* Node's event loop runs every continuation that is ready.  Nothing is
\* assumed of clients, timeouts, crashes, restarts or the catalog.
FairSpec == Spec /\ \A r \in Request : WF_vars(Serve(r))
-----------------------------------------------------------------------------
(* Properties.                                                             *)

\* Types.  (quantity in a stored row is a natural number because the route
\* rejects anything else before the handler runs.)
TypeOK ==
    /\ up \in [Process -> BOOLEAN]
    /\ conn \in [Process -> Request \cup {NoRequest}]
    /\ pc \in [Request -> Control]
    /\ proc \in [Request -> Process \cup {NoProcess}]
    /\ body \in [Request -> Body \cup {Unsent}]
    /\ quoted \in [Request -> Nat]
    /\ verdict \in [Request -> Verdict]
    /\ gone \subseteq Request
    /\ price \in [Product -> Price]
    /\ balance \in [Customer -> Int]
    /\ ledger \subseteq Row
    /\ lastId \in Nat
    /\ lock \in Request \cup {NoRequest}
    /\ txBalance \in [Customer -> Int]
    /\ txLedger \subseteq Row

\* docs/adr/0001 "No overspend, no negative balance": neither the committed
\* Balance nor the one an open transaction is about to commit is negative,
\* whatever concurrent consumes, credits, price changes and crashes do.
NoOverdraft == \A c \in Customer : balance[c] >= 0 /\ txBalance[c] >= 0

\* docs/adr/0002 "A retried submission charges exactly once": however often
\* and however concurrently a key is sent, at most one row carries it.
ChargedOncePerKey ==
    \A x, y \in ledger : x.key = y.key /\ x.key # NoKey => x = y

\* A 201 names a committed row: the request's own, or the one under its key.
TrueAnswer(r) ==
    verdict[r].status = 201 =>
        /\ verdict[r].row \in ledger
        /\ \/ verdict[r].row.origin = r
           \/ /\ Consuming(r)
              /\ verdict[r].row.key = body[r].key
              /\ verdict[r].row.key # NoKey

\* What a handler decides agrees with what its transaction did, across
\* rollbacks, timeouts and crashes: every 201 is a true answer, and a request
\* whose row is committed was decided 201 with that row, never 402, 404, 500.
AnswersMatchBooks ==
    /\ \A r \in Request : TrueAnswer(r)
    /\ \A row \in ledger : verdict[row.origin] = Created(row)

\* consumption.service.ts, catch block: "the committing writer's row is
\* durable by the time we collided", so the lookup of the original row finds
\* it even though the transaction, and its lock, ended before the lookup.
ReplayFindsOriginal ==
    \A r \in Request : pc[r] = "reread" => Originals(body[r].key) # {}

\* What the draft holds while r's transaction is between its first write and
\* its end.
DraftOf(r) ==
    /\ pc[r] \in Writing => lock = r
    /\ pc[r] = "disambiguate" => txBalance = balance /\ txLedger = ledger
    /\ pc[r] \in {"insert", "commit"} =>
          txBalance = [balance EXCEPT ![body[r].customer] = @ + Delta(r)]
    /\ pc[r] = "insert" => txLedger = ledger
    /\ pc[r] = "commit" => txLedger = ledger \cup {Entry(r)}

\* The open transaction sees the committed books plus exactly its own change:
\* no write of it is visible outside, no write of another is lost under it,
\* and nothing of it is left behind when it ends, however it ends.
TransactionIsolation ==
    /\ lock = NoRequest => txBalance = balance /\ txLedger = ledger
    /\ \A r \in Request : DraftOf(r)

\* CONTEXT.md "Append-only", docs/adr/0004 "monotonic": rows are never changed
\* or lost, and rows become visible in the order of their ids: a row that is
\* committed later has a higher id than every row a page may already show.
AppendOnly ==
    [][/\ ledger \subseteq ledger'
       /\ \A old \in ledger, new \in ledger' \ ledger : new.id > old.id]_vars

\* The back end keeps the promise of Wallet: each request takes effect at one
\* step, the one that decides its answer.
W == INSTANCE Wallet
       WITH body <- body, balance <- balance, ledger <- ledger,
            lastId <- lastId, verdict <- verdict

WalletPromise == W!Spec

\* Every handler that starts comes to its end, with no help from timeouts:
\* connections and the write lock are never waited for in a circle, and never
\* kept.
HandlersFinish == \A r \in Request : InFlight(r) ~> (pc[r] = "done")

\* consumption.service.ts, ConsumeInput.idempotencyKey: "a replayed key
\* returns the original ledger row without a second deduction".  So no request
\* is denied for lack of funds under a key that a committed row carries.
ReplaysAreHonoured ==
    [][\A r \in Request :
         verdict[r] = Undecided /\ verdict'[r].status = 402
           => ~W!KeyUsed(body[r].key)]_vars
=============================================================================
