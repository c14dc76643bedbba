--------------------------- MODULE BillingProofs ----------------------------
(***************************************************************************)
(* Billing is correct for any number of instances, requests, customers,    *)
(* products and keys, any prices and any opening balances.                 *)
(***************************************************************************)
EXTENDS BillingInvariant, TLAPS

-----------------------------------------------------------------------------
(* What the data is made of.                                               *)

\* A body that passed the route's validation has the fields its handler
\* reads, and they are of the types it computes with.
LEMMA ValidConsume ==
    ASSUME NEW b \in Body, Valid(b), b.op = "consume"
    PROVE  /\ b.customer \in Customer \cup {NoCustomer}
           /\ b.product \in Product \cup {NoProduct}
           /\ b.key \in Key \cup {NoKey}
           /\ b.quantity \in Nat
  BY BodyAssumption DEF Valid, AnyBody, ConsumeBody, CreditBody, ListBody

LEMMA ValidCredit ==
    ASSUME NEW b \in Body, Valid(b), b.op = "credit"
    PROVE  /\ b.customer \in Customer \cup {NoCustomer}
           /\ b.amount \in Int
           /\ b.amount > 0
  BY BodyAssumption DEF Valid, AnyBody, ConsumeBody, CreditBody, ListBody

LEMMA KnownOps ==
    ASSUME NEW b \in Body
    PROVE  b.op \in {"consume", "credit", "list"} /\ b # Unsent
  BY BodyAssumption DEF AnyBody, ConsumeBody, CreditBody, ListBody, Unsent

LEMMA Product_Int == ASSUME NEW m \in Nat, NEW n \in Nat PROVE m * n \in Nat
  OBVIOUS

\* The cost and the balance change of a transaction are integers.
LEMMA DeltaInt ==
    ASSUME Shape, NEW r \in Request, pc[r] \in {"begin"} \cup InTx
    PROVE  /\ Delta(r) \in Int
           /\ body[r].op = "consume" => Cost(r) \in Nat /\ Delta(r) = -Cost(r)
           /\ body[r].op = "credit" => Delta(r) = body[r].amount /\ Delta(r) > 0
  <1>1. /\ Valid(body[r])
        /\ body[r] \in Body
        /\ body[r].op \in {"consume", "credit"}
        /\ quoted[r] \in Nat
    BY DEF Shape, Placed, TypeOK, Working, InTx, Writing
  <1>2. CASE body[r].op = "consume"
    <2>1. body[r].quantity \in Nat
      BY <1>1, <1>2, ValidConsume
    <2>2. Cost(r) \in Nat
      BY <2>1, <1>1, Product_Int DEF Cost
    <2> QED BY <2>2, <1>2 DEF Delta, Consuming
  <1>3. CASE body[r].op = "credit"
    BY <1>1, <1>3, ValidCredit DEF Delta, Consuming
  <1> QED BY <1>1, <1>2, <1>3

\* The row that an open transaction inserts is a row.
LEMMA EntryIsRow ==
    ASSUME Shape, NEW r \in Request, pc[r] \in {"insert", "commit"}
    PROVE  /\ Entry(r) \in Row
           /\ Entry(r).id = lastId + 1
           /\ Entry(r).customer = body[r].customer
           /\ Entry(r).amount = Delta(r)
           /\ Entry(r).origin = r
           /\ Entry(r).key = IF body[r].op = "consume" THEN body[r].key ELSE NoKey
  <1>1. /\ Valid(body[r])
        /\ body[r] \in Body
        /\ body[r].op \in {"consume", "credit"}
        /\ body[r].customer \in Customer
        /\ quoted[r] \in Nat
        /\ lastId + 1 \in Nat
        /\ pc[r] \in {"begin"} \cup InTx
    BY DEF Shape, Placed, TypeOK, Working, InTx, Writing
  <1>2. CASE body[r].op = "consume"
    <2>1. /\ body[r].quantity \in Nat
          /\ body[r].key \in Key \cup {NoKey}
          /\ body[r].product \in Product \cup {NoProduct}
      BY <1>1, <1>2, ValidConsume
    <2>2. Entry(r) = ConsumptionRow(lastId + 1, body[r], quoted[r], r)
      BY <1>2 DEF Entry, Consuming
    <2>3. Cost(r) \in Nat /\ Delta(r) = -(quoted[r] * body[r].quantity)
      BY <1>1, <1>2, DeltaInt DEF Cost
    <2>4. -(quoted[r] * body[r].quantity) \in Int
      BY <2>3 DEF Cost
    <2> QED BY <1>1, <1>2, <2>1, <2>2, <2>3, <2>4 DEF ConsumptionRow, Row
  <1>3. CASE body[r].op = "credit"
    <2>1. body[r].amount \in Int /\ Delta(r) = body[r].amount
      BY <1>1, <1>3, ValidCredit, DeltaInt
    <2>2. Entry(r) = CreditRow(lastId + 1, body[r], r)
      BY <1>3 DEF Entry, Consuming
    <2> QED BY <1>1, <1>3, <2>1, <2>2 DEF CreditRow, Row
  <1> QED BY <1>1, <1>2, <1>3

\* Every answer a handler can form is an answer.
LEMMA Verdicts ==
    /\ \A s \in {0, 400, 404, 500} : Refused(s) \in Verdict
    /\ Undecided \in Verdict
    /\ \A row \in Row : Created(row) \in Verdict
    /\ \A have, need \in Int : Denied(have, need) \in Verdict
    /\ \A bal \in [Customer -> Int], n \in Nat : Listed(bal, n) \in Verdict
  BY DEF Verdict, Refused, Undecided, Created, Denied, Listed

-----------------------------------------------------------------------------
(* Layer one: Shape.                                                       *)

LEMMA ShapeInit == Init => Shape
  BY OpeningAssumption, PriceAssumption, Verdicts
  DEF Init, Shape, TypeOK, Placed, Control, Working, InTx, Writing

\* A step of one handler disturbs no other handler's placement.
LEMMA PlacedElsewhere ==
    ASSUME NEW r \in Request, Placed(r),
           pc'[r] = pc[r], body'[r] = body[r], quoted'[r] = quoted[r]
    PROVE  Placed(r)'
  BY DEF Placed

LEMMA ShapeArrive ==
    ASSUME Shape, NEW r \in Request, Arrive(r)
    PROVE  Shape'
  <1>. USE DEF Shape, TypeOK, Control, Working, InTx, Writing, server, books, draft
  <1>1. CASE \E b \in Body : BadGateway(r, b)
    BY <1>1 DEF BadGateway, Goto, Placed
  <1>2. CASE \E b \in Body, p \in Process : Deliver(r, b, p)
    <2>. PICK b \in Body, p \in Process : Deliver(r, b, p)
      BY <1>2
    <2>1. FirstCall(b) \in {"lookup", "begin", "list"}
          /\ (b.op = "consume" <=> FirstCall(b) = "lookup")
          /\ (b.op = "credit" <=> FirstCall(b) = "begin")
          /\ (b.op = "list" <=> FirstCall(b) = "list")
      BY KnownOps DEF FirstCall
    <2>2. TypeOK'
      BY <2>1, Verdicts DEF Deliver, Goto, Decide
    <2>3. Placed(r)'
      BY <2>1 DEF Deliver, Goto, Placed
    <2>4. \A q \in Request \ {r} : Placed(q)'
      BY PlacedElsewhere DEF Deliver, Goto
    <2> QED BY <2>2, <2>3, <2>4
  <1> QED BY <1>1, <1>2 DEF Arrive

\* A handler's step touches what is its own.
LEMMA OwnStep ==
    ASSUME TypeOK, NEW r \in Request, Serve(r) \/ Fail(r),
           NEW q \in Request, q # r
    PROVE  /\ pc'[q] = pc[q]
           /\ quoted'[q] = quoted[q]
           /\ verdict'[q] = verdict[q]
           /\ body' = body
  <1>. USE DEF TypeOK, Goto, Decide
  <1>1. CASE LookupProduct(r) \/ ListCustomers(r) \/ RereadOriginal(r)
    BY <1>1 DEF LookupProduct, ListCustomers, CommittedBalances, RereadOriginal
  <1>2. CASE Begin(r) \/ Update(r)
    BY <1>2 DEF Begin, Update
  <1>3. CASE Disambiguate(r) \/ Insert(r)
    BY <1>3 DEF Disambiguate, Insert
  <1>4. CASE Commit(r) \/ Rollback(r) \/ Respond(r)
    BY <1>4 DEF Commit, Publish, Rollback, Undo, Respond
  <1>5. CASE Fail(r)
    BY <1>5 DEF Fail, PoolTimesOut, TransactionTimesOut
  <1> QED BY <1>1, <1>2, <1>3, <1>4, <1>5 DEF Serve

LEMMA ShapeServe ==
    ASSUME Shape, NEW r \in Request, Serve(r)
    PROVE  Shape'
  <1>. USE DEF Shape, Control, Working, InTx, Writing, server, books, draft
  <1>1. \A q \in Request \ {r} : Placed(q)'
    BY OwnStep, PlacedElsewhere
  <1>2. CASE LookupProduct(r)
    <2>1. body[r].op = "consume"
      BY <1>2 DEF LookupProduct, Placed
    <2>2. TypeOK'
      <3>1. quoted' \in [Request -> Nat]
        BY <1>2, PriceAssumption DEF LookupProduct, TypeOK
      <3>2. verdict' \in [Request -> Verdict]
        BY <1>2, Verdicts DEF LookupProduct, Decide, TypeOK
      <3> QED BY <1>2, <3>1, <3>2 DEF LookupProduct, Goto, TypeOK
    <2>3. Placed(r)'
      BY <1>2, <2>1 DEF LookupProduct, Goto, TypeOK, Placed
    <2> QED BY <1>1, <2>2, <2>3
  <1>3. CASE ListCustomers(r)
    <2>1. TypeOK' /\ Placed(r)'
      BY <1>3, Verdicts DEF ListCustomers, CommittedBalances, Goto, Decide, TypeOK, Placed
    <2> QED BY <1>1, <2>1
  <1>4. CASE Begin(r)
    <2>1. TypeOK' /\ Placed(r)'
      BY <1>4 DEF Begin, Goto, TypeOK, Placed
    <2> QED BY <1>1, <2>1
  <1>5. CASE Update(r)
    <2>1. Delta(r) \in Int /\ (Matches(r) => body[r].customer \in Customer)
      BY <1>5, DeltaInt DEF Update, Matches
    <2>2. TypeOK'
      BY <1>5, <2>1, Verdicts DEF Update, Goto, Decide, TypeOK
    <2>3. Placed(r)'
      BY <1>5, <2>1 DEF Update, Goto, TypeOK, Placed, Consuming
    <2> QED BY <1>1, <2>2, <2>3
  <1>6. CASE Disambiguate(r)
    <2>1. Cost(r) \in Int
      BY <1>6, DeltaInt DEF Disambiguate, Placed
    <2>2. TypeOK' /\ Placed(r)'
      BY <1>6, <2>1, Verdicts DEF Disambiguate, Goto, Decide, TypeOK, Placed
    <2> QED BY <1>1, <2>2
  <1>7. CASE Insert(r)
    <2>1. Entry(r) \in Row
      BY <1>7, EntryIsRow DEF Insert
    <2>2. TypeOK'
      BY <1>7, <2>1 DEF Insert, Goto, TypeOK
    <2>3. Placed(r)'
      BY <1>7 DEF Insert, Goto, TypeOK, Placed
    <2> QED BY <1>1, <2>2, <2>3
  <1>8. CASE Commit(r)
    <2>1. Entry(r) \in Row
      BY <1>8, EntryIsRow DEF Commit, Publish
    <2>2. TypeOK'
      <3>1. verdict' \in [Request -> Verdict]
        BY <1>8, <2>1, Verdicts DEF Commit, Publish, Decide, TypeOK
      <3>2. conn' \in [Process -> Request \cup {NoRequest}]
        BY <1>8 DEF Commit, Publish, FreeConnection, TypeOK
      <3>3. /\ pc' \in [Request -> Control]
            /\ lock' \in Request \cup {NoRequest}
        BY <1>8 DEF Commit, Publish, Goto, TypeOK
      <3>4. /\ balance' = txBalance /\ ledger' = txLedger
            /\ lastId' \in Nat
            /\ UNCHANGED <<up, proc, body, quoted, gone, price, txBalance, txLedger>>
        BY <1>8 DEF Commit, Publish, TypeOK
      <3> QED BY <3>1, <3>2, <3>3, <3>4 DEF TypeOK
    <2>3. Placed(r)'
      BY <1>8 DEF Commit, Publish, Goto, TypeOK, Placed
    <2> QED BY <1>1, <2>2, <2>3
  <1>9. CASE Rollback(r)
    <2>1. TypeOK'
      BY <1>9 DEF Rollback, Undo, FreeConnection, Goto, TypeOK
    <2>2. Placed(r)'
      BY <1>9 DEF Rollback, Undo, Goto, TypeOK, Placed
    <2> QED BY <1>1, <2>1, <2>2
  <1>10. CASE RereadOriginal(r)
    <2>1. Originals(body[r].key) # {} =>
            (CHOOSE row \in Originals(body[r].key) : TRUE) \in Row
      BY DEF Originals, TypeOK
    <2>2. TypeOK' /\ Placed(r)'
      BY <1>10, <2>1, Verdicts DEF RereadOriginal, Goto, Decide, TypeOK, Placed
    <2> QED BY <1>1, <2>2
  <1>11. CASE Respond(r)
    <2>1. TypeOK' /\ Placed(r)'
      BY <1>11 DEF Respond, Goto, TypeOK, Placed
    <2> QED BY <1>1, <2>1
  <1> QED BY <1>2, <1>3, <1>4, <1>5, <1>6, <1>7, <1>8, <1>9,
           <1>10, <1>11 DEF Serve

LEMMA ShapeFail ==
    ASSUME Shape, NEW r \in Request, Fail(r)
    PROVE  Shape'
  <1>. USE DEF Shape, Control, Working, InTx, Writing, server, books, draft
  <1>1. \A q \in Request \ {r} : Placed(q)'
    BY OwnStep, PlacedElsewhere
  <1>2. CASE PoolTimesOut(r)
    <2>1. TypeOK'
      BY <1>2, Verdicts DEF PoolTimesOut, Goto, Decide, TypeOK
    <2>2. Placed(r)'
      BY <1>2 DEF PoolTimesOut, Goto, TypeOK, Placed
    <2> QED BY <1>1, <2>1, <2>2
  <1>3. CASE TransactionTimesOut(r)
    <2>1. TypeOK'
      BY <1>3, Verdicts DEF TransactionTimesOut, Goto, Decide, TypeOK
    <2>2. Placed(r)'
      BY <1>3 DEF TransactionTimesOut, Goto, TypeOK, Placed
    <2> QED BY <1>1, <2>1, <2>2
  <1> QED BY <1>2, <1>3 DEF Fail

LEMMA ShapeCrash ==
    ASSUME Shape, NEW p \in Process, Crash(p)
    PROVE  Shape'
  <1>. USE DEF Shape, Control, Working, InTx, Writing, books, draft, InFlight
  <1>1. TypeOK'
    BY DEF Crash, Undo, TypeOK
  <1>2. ASSUME NEW q \in Request PROVE Placed(q)'
    BY DEF Crash, Undo, TypeOK, Placed
  <1> QED BY <1>1, <1>2

LEMMA ShapeWorld ==
    ASSUME Shape,
           \/ \E p \in Process : Restart(p)
           \/ \E x \in Product, u \in Price : Reprice(x, u)
           \/ UNCHANGED vars
    PROVE  Shape'
  <1>1. /\ UNCHANGED <<pc, proc, body, quoted, verdict, gone, conn, lock,
                       balance, ledger, lastId, txBalance, txLedger>>
        /\ up' \in [Process -> BOOLEAN]
        /\ price' \in [Product -> Price]
    BY DEF Shape, TypeOK, Restart, Reprice, vars, server, books, draft
  <1>2. TypeOK'
    BY <1>1 DEF Shape, TypeOK
  <1> QED BY <1>1, <1>2, PlacedElsewhere DEF Shape

LEMMA ShapeNext == Shape /\ [Next]_vars => Shape'
  BY ShapeArrive, ShapeServe, ShapeFail, ShapeCrash, ShapeWorld
  DEF Next, Backend

\* Billing's type invariant holds for every instance.
THEOREM TypeCorrect == Spec => []TypeOK
  <1>1. Shape => TypeOK
    BY DEF Shape
  <1> QED BY <1>1, ShapeInit, ShapeNext, PTL DEF Spec

-----------------------------------------------------------------------------
(* Layer two: Isolation.                                                   *)

LEMMA IsolationInit == Init => Isolation
  BY DEF Init, Isolation, LockHeld, TransactionIsolation, DraftOf, Writing

\* The holder of the lock is the only request whose draft matters.
LEMMA OneWriter ==
    ASSUME Isolation, NEW r \in Request, NEW q \in Request, q # r,
           lock = r \/ lock = NoRequest
    PROVE  pc[q] \notin Writing
  BY ProcessAssumption DEF Isolation, TransactionIsolation, DraftOf

\* A draft stays what it is while books, lock and draft stand still.
LEMMA DraftStands ==
    ASSUME NEW q \in Request, DraftOf(q),
           pc'[q] = pc[q], body'[q] = body[q], quoted'[q] = quoted[q],
           UNCHANGED <<lock, balance, ledger, lastId, txBalance, txLedger>>
    PROVE  DraftOf(q)'
  BY DEF DraftOf, Delta, Cost, Consuming, Entry

\* Steps that leave books, lock and draft alone, and open no new draft.
LEMMA IsolationQuiet ==
    ASSUME Isolation, NEW r \in Request,
           UNCHANGED <<lock, balance, ledger, lastId, txBalance, txLedger>>,
           \A q \in Request \ {r} : /\ pc'[q] = pc[q]
                                    /\ body'[q] = body[q]
                                    /\ quoted'[q] = quoted[q],
           pc'[r] \notin Writing,
           lock = r => pc'[r] = "rollback",
           lock \in Request \cup {NoRequest}
    PROVE  Isolation'
  <1>1. DraftOf(r)'
    BY DEF DraftOf, Writing
  <1>2. \A q \in Request \ {r} : DraftOf(q)'
    BY DraftStands DEF Isolation, TransactionIsolation
  <1>3. LockHeld'
    BY DEF Isolation, LockHeld
  <1> QED BY <1>1, <1>2, <1>3 DEF Isolation, TransactionIsolation

LEMMA IsolationArrive ==
    ASSUME Shape, Isolation, NEW r \in Request, Arrive(r)
    PROVE  Isolation'
  <1>. USE DEF Shape, TypeOK, server, books, draft
  <1>1. lock # r
    BY ProcessAssumption
    DEF Arrive, BadGateway, Deliver, Isolation, LockHeld, Writing
  <1>2. /\ UNCHANGED <<lock, balance, ledger, lastId, txBalance, txLedger>>
        /\ \A q \in Request \ {r} : /\ pc'[q] = pc[q]
                                    /\ body'[q] = body[q]
                                    /\ quoted'[q] = quoted[q]
        /\ pc'[r] \notin Writing
    BY KnownOps DEF Arrive, BadGateway, Deliver, Goto, FirstCall, Writing
  <1> QED BY <1>1, <1>2, IsolationQuiet

LEMMA IsolationQuietSteps ==
    ASSUME Shape, Isolation, NEW r \in Request,
           \/ LookupProduct(r) \/ ListCustomers(r) \/ RereadOriginal(r)
           \/ Begin(r) \/ Respond(r) \/ Disambiguate(r) \/ Fail(r)
    PROVE  Isolation'
  <1>. USE DEF Shape, TypeOK, server, books, draft
  <1>1. \A q \in Request \ {r} : /\ pc'[q] = pc[q]
                                 /\ body'[q] = body[q]
                                 /\ quoted'[q] = quoted[q]
    BY OwnStep DEF Serve
  <1>2. /\ UNCHANGED <<lock, balance, ledger, lastId, txBalance, txLedger>>
        /\ pc'[r] \notin Writing
    BY DEF LookupProduct, ListCustomers, CommittedBalances, RereadOriginal, Begin, Respond,
           Disambiguate, Fail, PoolTimesOut, TransactionTimesOut, Goto, Writing
  <1>3. lock = r => pc'[r] = "rollback"
    <2>1. lock = r => pc[r] \in Writing \cup {"rollback"}
      BY ProcessAssumption DEF Isolation, LockHeld
    <2> QED BY <2>1
        DEF LookupProduct, ListCustomers, CommittedBalances, RereadOriginal, Begin, Respond,
            Disambiguate, Fail, PoolTimesOut, TransactionTimesOut, Goto, Writing
  <1> QED BY <1>1, <1>2, <1>3, IsolationQuiet

LEMMA IsolationUpdate ==
    ASSUME Shape, Isolation, NEW r \in Request, Update(r)
    PROVE  Isolation'
  <1>. USE DEF Shape, TypeOK, books, draft
  <1>1. lock = NoRequest /\ txBalance = balance /\ txLedger = ledger
    BY DEF Update, Writable, Isolation, TransactionIsolation
  <1>2. \A q \in Request \ {r} : pc'[q] \notin Writing
    BY <1>1, OneWriter, OwnStep DEF Serve
  <1>3. /\ lock' = r
        /\ pc'[r] \in {"insert", "disambiguate", "rollback"}
        /\ UNCHANGED <<balance, ledger, lastId, txLedger, body, quoted>>
        /\ pc'[r] = "insert" =>
              txBalance' = [txBalance EXCEPT ![body[r].customer] = @ + Delta(r)]
        /\ pc'[r] # "insert" => txBalance' = txBalance
    BY DEF Update, Goto
  <1>4. DraftOf(r)'
    <2>1. Delta(r)' = Delta(r)
      BY <1>3 DEF Delta, Cost, Consuming
    <2> QED BY <1>1, <1>3, <2>1 DEF DraftOf, Writing
  <1>5. \A q \in Request \ {r} : DraftOf(q)'
    BY <1>2 DEF DraftOf, Writing
  <1>6. LockHeld'
    BY <1>3 DEF LockHeld, Writing
  <1> QED BY <1>3, <1>4, <1>5, <1>6, ProcessAssumption
      DEF Isolation, TransactionIsolation

LEMMA IsolationInsert ==
    ASSUME Shape, Isolation, NEW r \in Request, Insert(r)
    PROVE  Isolation'
  <1>. USE DEF Shape, TypeOK, server, books, draft
  <1>1. /\ lock = r
        /\ txBalance = [balance EXCEPT ![body[r].customer] = @ + Delta(r)]
        /\ txLedger = ledger
    BY DEF Insert, Isolation, TransactionIsolation, DraftOf, Writing
  <1>2. \A q \in Request \ {r} : pc'[q] \notin Writing
    BY <1>1, OneWriter, OwnStep DEF Serve
  <1>3. /\ UNCHANGED <<lock, balance, ledger, lastId, txBalance, body, quoted>>
        /\ \/ pc'[r] = "commit" /\ txLedger' = txLedger \cup {Entry(r)}
           \/ pc'[r] = "rollback"
    BY DEF Insert, Goto
  <1>4. DraftOf(r)'
    <2>1. Delta(r)' = Delta(r) /\ Entry(r)' = Entry(r)
      BY <1>3 DEF Delta, Cost, Consuming, Entry
    <2> QED BY <1>1, <1>3, <2>1 DEF DraftOf, Writing
  <1>5. \A q \in Request \ {r} : DraftOf(q)'
    BY <1>2 DEF DraftOf, Writing
  <1>6. LockHeld'
    BY <1>1, <1>3 DEF LockHeld, Writing
  <1> QED BY <1>1, <1>3, <1>4, <1>5, <1>6, ProcessAssumption
      DEF Isolation, TransactionIsolation

LEMMA IsolationCommit ==
    ASSUME Shape, Isolation, NEW r \in Request, Commit(r)
    PROVE  Isolation'
  <1>. USE DEF Shape, TypeOK, books, draft
  <1>1. lock = r
    BY DEF Commit, Publish, Isolation, TransactionIsolation, DraftOf, Writing
  <1>2. \A q \in Request \ {r} : pc'[q] \notin Writing
    BY <1>1, OneWriter, OwnStep DEF Serve
  <1>3. /\ lock' = NoRequest
        /\ pc'[r] = "respond"
        /\ balance' = txBalance' /\ ledger' = txLedger'
    BY DEF Commit, Publish, Goto
  <1>4. \A q \in Request : DraftOf(q)'
    BY <1>2, <1>3 DEF DraftOf, Writing
  <1> QED BY <1>3, <1>4 DEF Isolation, TransactionIsolation, LockHeld

LEMMA IsolationRollback ==
    ASSUME Shape, Isolation, NEW r \in Request, Rollback(r)
    PROVE  Isolation'
  <1>. USE DEF Shape, TypeOK, books, draft
  <1>1. pc'[r] \in {"reread", "respond"} /\ UNCHANGED <<body, quoted>>
    BY DEF Rollback, Undo, Goto
  <1>2. CASE lock = r
    <2>1. \A q \in Request \ {r} : pc'[q] \notin Writing
      BY <1>2, OneWriter, OwnStep DEF Serve
    <2>2. lock' = NoRequest /\ txBalance' = balance' /\ txLedger' = ledger'
      BY <1>2 DEF Rollback, Undo
    <2>3. \A q \in Request : DraftOf(q)'
      BY <1>1, <2>1 DEF DraftOf, Writing
    <2> QED BY <2>2, <2>3 DEF Isolation, TransactionIsolation, LockHeld
  <1>3. CASE lock # r
    <2>1. UNCHANGED <<lock, balance, ledger, lastId, txBalance, txLedger>>
      BY <1>3 DEF Rollback, Undo
    <2>2. \A q \in Request \ {r} : /\ pc'[q] = pc[q]
                                   /\ body'[q] = body[q]
                                   /\ quoted'[q] = quoted[q]
      BY OwnStep DEF Serve
    <2> QED BY <1>1, <1>3, <2>1, <2>2, IsolationQuiet DEF Writing
  <1> QED BY <1>2, <1>3

LEMMA IsolationCrash ==
    ASSUME Shape, Isolation, NEW p \in Process, Crash(p)
    PROVE  Isolation'
  <1>. USE DEF Shape, TypeOK, books, draft
  <1>1. \A q \in Request : /\ pc'[q] \in {pc[q], "done"}
                           /\ proc[q] = p /\ InFlight(q) => pc'[q] = "done"
                           /\ ~(proc[q] = p /\ InFlight(q)) => pc'[q] = pc[q]
    BY DEF Crash, Undo
  <1>2. UNCHANGED <<body, quoted, balance, ledger, lastId>>
    BY DEF Crash, Undo
  <1>3. CASE lock \in Request /\ proc[lock] = p /\ InFlight(lock)
    <2>1. lock' = NoRequest /\ txBalance' = balance' /\ txLedger' = ledger'
      BY <1>3 DEF Crash, Undo
    <2>2. ASSUME NEW q \in Request PROVE pc'[q] \notin Writing
      BY <1>1, <1>3 DEF Isolation, TransactionIsolation, DraftOf, Writing
    <2> QED BY <2>1, <2>2 DEF Isolation, TransactionIsolation, LockHeld, DraftOf, Writing
  <1>4. CASE ~(lock \in Request /\ proc[lock] = p /\ InFlight(lock))
    <2>1. UNCHANGED <<lock, balance, ledger, lastId, txBalance, txLedger>>
      BY <1>2, <1>4 DEF Crash, Undo
    <2>2. LockHeld'
      BY <1>1, <1>4, <2>1 DEF Isolation, LockHeld
    <2>3. ASSUME NEW q \in Request PROVE DraftOf(q)'
      <3>1. CASE pc'[q] = pc[q]
        BY <1>2, <2>1, <3>1, DraftStands DEF Isolation, TransactionIsolation
      <3>2. CASE pc'[q] = "done"
        BY <3>2 DEF DraftOf, Writing
      <3> QED BY <1>1, <3>1, <3>2
    <2> QED BY <2>1, <2>2, <2>3 DEF Isolation, TransactionIsolation
  <1> QED BY <1>3, <1>4

LEMMA IsolationWorld ==
    ASSUME Isolation,
           \/ \E p \in Process : Restart(p)
           \/ \E x \in Product, u \in Price : Reprice(x, u)
           \/ UNCHANGED vars
    PROVE  Isolation'
  <1>1. UNCHANGED <<pc, body, quoted, lock, balance, ledger, lastId, txBalance, txLedger>>
    BY DEF Restart, Reprice, vars, server, books, draft
  <1> QED BY <1>1, DraftStands DEF Isolation, TransactionIsolation, LockHeld

LEMMA IsolationNext == Shape /\ Isolation /\ [Next]_vars => Isolation'
  BY IsolationArrive, IsolationQuietSteps, IsolationUpdate, IsolationInsert,
     IsolationCommit, IsolationRollback, IsolationCrash, IsolationWorld
  DEF Next, Backend, Serve

\* The draft of the open transaction is the committed books plus its own
\* change, for every instance.
THEOREM Isolated == Spec => []TransactionIsolation
  <1>1. Shape /\ Isolation /\ [Next]_vars => (Shape /\ Isolation)'
    BY ShapeNext, IsolationNext
  <1>2. Isolation => TransactionIsolation
    BY DEF Isolation
  <1> QED BY <1>1, <1>2, ShapeInit, IsolationInit, PTL DEF Spec

-----------------------------------------------------------------------------
(* Layer three: Accounts.                                                  *)

LEMMA AccountsInit == Init => Accounts
  BY OpeningAssumption
  DEF Init, Accounts, Open, Checked, NoOverdraft, ChargedOncePerKey,
      AnswersMatchBooks, TrueAnswer, Undecided

\* The kinds of answer are told apart by their status.
LEMMA StatusTells ==
    /\ \A s : Refused(s).status = s
    /\ Undecided.status = 0
    /\ \A row : Created(row).status = 201 /\ Created(row).row = row
    /\ \A have, need : Denied(have, need).status = 402
    /\ \A bal, n : Listed(bal, n).status = 200
  BY DEF Refused, Undecided, Created, Denied, Listed

\* A request without a verdict has nothing in the ledger.
LEMMA NoRowYet ==
    ASSUME Accounts, NEW r \in Request, verdict[r] = Undecided
    PROVE  \A row \in ledger : row.origin # r
  BY StatusTells DEF Accounts, AnswersMatchBooks

\* What is known of a handler that stands still survives a growing ledger.
LEMMA OpenStands ==
    ASSUME NEW q \in Request, Open(q),
           pc'[q] = pc[q], body'[q] = body[q], verdict'[q] = verdict[q],
           ledger \subseteq ledger'
    PROVE  Open(q)'
  <1>1. Originals(body[q].key) \subseteq Originals(body[q].key)'
    BY DEF Originals
  <1> QED BY <1>1 DEF Open

LEMMA CheckedStands ==
    ASSUME NEW q \in Request, Checked(q),
           pc'[q] = pc[q], body'[q] = body[q], quoted'[q] = quoted[q],
           UNCHANGED <<ledger, txBalance>>
    PROVE  Checked(q)'
  BY DEF Checked, Cost, Originals

LEMMA NothingToCheck ==
    ASSUME NEW q \in Request, pc'[q] \notin {"disambiguate", "commit"}
    PROVE  Checked(q)'
  BY DEF Checked

\* Steps that leave the books alone: the handler that moves has to answer for
\* itself only.
LEMMA AccountsQuiet ==
    ASSUME Shape, Accounts, NEW r \in Request,
           UNCHANGED <<balance, ledger>>,
           \A q \in Request \ {r} : /\ pc'[q] = pc[q]
                                    /\ body'[q] = body[q]
                                    /\ verdict'[q] = verdict[q]
                                    /\ Checked(q)',
           Open(r)', Checked(r)', TrueAnswer(r)',
           verdict'[r] = verdict[r] \/ verdict[r] = Undecided,
           \A c \in Customer : txBalance'[c] >= 0
    PROVE  Accounts'
  <1>1. \A q \in Request : Open(q)' /\ Checked(q)'
    BY OpenStands DEF Accounts
  <1>2. NoOverdraft' /\ ChargedOncePerKey'
    BY DEF Accounts, NoOverdraft, ChargedOncePerKey
  <1>3. \A q \in Request : TrueAnswer(q)'
    BY DEF Accounts, AnswersMatchBooks, TrueAnswer, Consuming
  <1>4. ASSUME NEW row \in ledger PROVE verdict'[row.origin] = Created(row)
    <2>1. row.origin \in Request
      BY DEF Shape, TypeOK, Row
    <2>2. verdict[row.origin] = Created(row)
      BY DEF Accounts, AnswersMatchBooks
    <2> QED BY <2>1, <2>2, NoRowYet
  <1> QED BY <1>1, <1>2, <1>3, <1>4 DEF Accounts, AnswersMatchBooks

LEMMA AccountsArrive ==
    ASSUME Shape, Isolation, Accounts, NEW r \in Request, Arrive(r)
    PROVE  Accounts'
  <1>. USE DEF Shape, TypeOK, server, books, draft
  <1>1. verdict[r] = Undecided
    BY DEF Arrive, BadGateway, Deliver, Accounts, Open
  <1>2. /\ UNCHANGED <<balance, ledger, txBalance, quoted>>
        /\ \A q \in Request \ {r} : /\ pc'[q] = pc[q]
                                    /\ body'[q] = body[q]
                                    /\ verdict'[q] = verdict[q]
        /\ pc'[r] \in {"lookup", "begin", "list", "respond", "done"}
        /\ \/ verdict'[r] = verdict[r]
           \/ pc'[r] = "respond" /\ verdict'[r] = Refused(400)
    BY KnownOps DEF Arrive, BadGateway, Deliver, Goto, Decide, FirstCall
  <1>3. Open(r)' /\ Checked(r)' /\ TrueAnswer(r)'
    BY <1>1, <1>2, StatusTells DEF Open, Checked, TrueAnswer, Writing
  <1>4. \A q \in Request \ {r} : Checked(q)'
    BY <1>2, CheckedStands DEF Accounts
  <1>5. \A c \in Customer : txBalance'[c] >= 0
    BY <1>2 DEF Accounts, NoOverdraft
  <1> QED BY <1>1, <1>2, <1>3, <1>4, <1>5, AccountsQuiet

\* The steps of a handler that touch neither books nor draft.
LEMMA AccountsQuietSteps ==
    ASSUME Shape, Isolation, Accounts, NEW r \in Request,
           \/ LookupProduct(r) \/ ListCustomers(r) \/ RereadOriginal(r)
           \/ Begin(r) \/ Respond(r) \/ Disambiguate(r) \/ Fail(r)
    PROVE  Accounts'
  <1>. USE DEF Shape, TypeOK, server, books, draft
  <1>1. /\ UNCHANGED <<balance, ledger, txBalance>>
        /\ pc'[r] \in {"begin", "update", "rollback", "respond", "done"}
    BY DEF LookupProduct, ListCustomers, CommittedBalances, RereadOriginal, Begin, Respond,
           Disambiguate, Fail, PoolTimesOut, TransactionTimesOut, Goto
  <1>2. \A q \in Request \ {r} : /\ pc'[q] = pc[q]
                                 /\ body'[q] = body[q]
                                 /\ verdict'[q] = verdict[q]
                                 /\ Checked(q)'
    BY <1>1, OwnStep, CheckedStands DEF Serve, Accounts
  <1>3. Checked(r)'
    BY <1>1, NothingToCheck
  <1>4. \A c \in Customer : txBalance'[c] >= 0
    BY <1>1 DEF Accounts, NoOverdraft
  <1>5. CASE LookupProduct(r) \/ ListCustomers(r) \/ Begin(r) \/ Disambiguate(r)
             \/ Fail(r)
    <2>1. verdict[r] = Undecided
      BY <1>5 DEF Accounts, Open, Writing, LookupProduct, ListCustomers, CommittedBalances, Begin,
                  Disambiguate, Fail, PoolTimesOut, TransactionTimesOut
    <2>2. \/ verdict'[r] = verdict[r] /\ pc'[r] \in {"begin", "update"}
          \/ verdict'[r].status \in {200, 402, 404, 500} /\ pc'[r] # "update" /\ pc'[r] # "begin"
      BY <1>5, StatusTells
      DEF LookupProduct, ListCustomers, CommittedBalances, Begin, Disambiguate, Fail, PoolTimesOut,
          TransactionTimesOut, Goto, Decide
    <2>3. Open(r)' /\ TrueAnswer(r)'
      BY <1>1, <2>1, <2>2, StatusTells DEF Open, TrueAnswer, Writing
    <2> QED BY <1>1, <1>2, <1>3, <1>4, <2>1, <2>3, AccountsQuiet
  <1>6. CASE Respond(r)
    <2>1. UNCHANGED <<verdict, body>> /\ pc'[r] = "done"
      BY <1>6 DEF Respond, Goto
    <2>2. Open(r)' /\ TrueAnswer(r)'
      BY <1>1, <2>1
      DEF Open, Writing, TrueAnswer, Consuming, Accounts, AnswersMatchBooks
    <2> QED BY <1>1, <1>2, <1>3, <1>4, <2>1, <2>2, AccountsQuiet
  <1>7. CASE RereadOriginal(r)
    <2>1. /\ verdict[r] = Undecided
          /\ body[r].op = "consume"
          /\ body[r].key # NoKey
          /\ Originals(body[r].key) # {}
      BY <1>7 DEF RereadOriginal, Accounts, Open
    <2>2. PICK row \in Originals(body[r].key) : verdict'[r] = Created(row)
      BY <1>7, <2>1 DEF RereadOriginal, Decide
    <2>3. TrueAnswer(r)'
      BY <1>1, <1>7, <2>1, <2>2, StatusTells
      DEF RereadOriginal, TrueAnswer, Originals, Consuming
    <2>4. Open(r)'
      BY <1>7 DEF RereadOriginal, Goto, Open, Writing
    <2> QED BY <1>1, <1>2, <1>3, <1>4, <2>1, <2>3, <2>4, AccountsQuiet
  <1> QED BY <1>5, <1>6, <1>7

LEMMA AccountsUpdate ==
    ASSUME Shape, Isolation, Accounts, NEW r \in Request, Update(r)
    PROVE  Accounts'
  <1>. USE DEF Shape, TypeOK, books, draft
  <1>1. verdict[r] = Undecided
    BY DEF Update, Accounts, Open
  <1>2. /\ UNCHANGED <<balance, ledger, body, quoted>>
        /\ pc'[r] \in {"insert", "disambiguate", "rollback"}
    BY DEF Update, Goto
  <1>3. \A q \in Request \ {r} : /\ pc'[q] = pc[q]
                                 /\ body'[q] = body[q]
                                 /\ verdict'[q] = verdict[q]
                                 /\ Checked(q)'
    <2>1. \A q \in Request \ {r} : pc[q] \notin Writing
      BY OneWriter DEF Update, Writable
    <2> QED BY <2>1, OwnStep, NothingToCheck DEF Serve, Writing
  <1>4. \A c \in Customer : txBalance'[c] >= 0
    <2>1. \A c \in Customer : txBalance[c] >= 0 /\ txBalance[c] \in Int
      BY DEF Accounts, NoOverdraft
    <2>2. CASE Matches(r) /\ body[r].op = "consume"
      <3>1. Cost(r) \in Nat /\ Delta(r) = -Cost(r)
        BY <2>2, DeltaInt DEF Update, InTx
      <3>2. txBalance' = [txBalance EXCEPT ![body[r].customer] = @ + Delta(r)]
        BY <2>2 DEF Update
      <3>3. /\ body[r].customer \in Customer
            /\ txBalance[body[r].customer] >= Cost(r)
        BY <2>2 DEF Matches, Consuming
      <3> QED BY <2>1, <3>1, <3>2, <3>3
    <2>3. CASE Matches(r) /\ body[r].op = "credit"
      <3>1. Delta(r) \in Int /\ Delta(r) > 0
        BY <2>3, DeltaInt DEF Update, InTx
      <3>2. txBalance' = [txBalance EXCEPT ![body[r].customer] = @ + Delta(r)]
        BY <2>3 DEF Update
      <3> QED BY <2>1, <3>1, <3>2
    <2>4. CASE ~Matches(r)
      BY <2>1, <2>4 DEF Update
    <2>5. body[r].op \in {"consume", "credit"}
      BY DEF Update, Placed, InTx
    <2> QED BY <2>2, <2>3, <2>4, <2>5
  <1>5. /\ pc'[r] # "rollback" => verdict'[r] = verdict[r]
        /\ pc'[r] = "rollback" => verdict'[r] = Refused(404)
    BY DEF Update, Goto, Decide
  <1>6. Open(r)' /\ TrueAnswer(r)'
    BY <1>1, <1>2, <1>5, StatusTells DEF Open, TrueAnswer, Writing
  <1>7. Checked(r)'
    <2>1. ASSUME pc'[r] = "disambiguate", body[r].customer \in Customer
          PROVE  txBalance'[body[r].customer] < Cost(r)
      <3>1. ~Matches(r) /\ Consuming(r) /\ txBalance' = txBalance
        BY <2>1 DEF Update, Goto
      <3>2. Cost(r) \in Nat
        BY <3>1, DeltaInt DEF Update, InTx, Consuming
      <3> QED BY <2>1, <3>1, <3>2 DEF Matches
    <2>2. Cost(r)' = Cost(r)
      BY <1>2 DEF Cost
    <2> QED BY <1>2, <2>1, <2>2 DEF Checked
  <1> QED BY <1>1, <1>2, <1>3, <1>4, <1>6, <1>7, AccountsQuiet

LEMMA AccountsInsert ==
    ASSUME Shape, Isolation, Accounts, NEW r \in Request, Insert(r)
    PROVE  Accounts'
  <1>. USE DEF Shape, TypeOK, server, books, draft
  <1>1. /\ verdict[r] = Undecided
        /\ lock = r
        /\ txLedger = ledger
    BY DEF Insert, Accounts, Open, Writing, Isolation, TransactionIsolation, DraftOf
  <1>2. /\ UNCHANGED <<balance, ledger, txBalance, body, quoted, verdict>>
        /\ pc'[r] \in {"commit", "rollback"}
        /\ pc'[r] = "commit" <=> ~Collides(r)
    BY DEF Insert, Goto
  <1>3. \A q \in Request \ {r} : /\ pc'[q] = pc[q]
                                 /\ body'[q] = body[q]
                                 /\ verdict'[q] = verdict[q]
                                 /\ Checked(q)'
    BY <1>2, OwnStep, CheckedStands DEF Serve, Accounts
  <1>4. Collides(r) <=> /\ body[r].op = "consume"
                        /\ body[r].key # NoKey
                        /\ Originals(body[r].key) # {}
    BY <1>1 DEF Collides, Consuming, Originals
  <1>5. Originals(body[r].key)' = Originals(body[r].key)
    BY <1>2 DEF Originals
  <1>6. Open(r)'
    BY <1>1, <1>2, <1>4, <1>5 DEF Open, Writing
  <1>7. Checked(r)'
    BY <1>2, <1>4, <1>5 DEF Checked
  <1>8. TrueAnswer(r)' /\ \A c \in Customer : txBalance'[c] >= 0
    BY <1>1, <1>2, StatusTells DEF TrueAnswer, Accounts, NoOverdraft
  <1> QED BY <1>1, <1>2, <1>3, <1>6, <1>7, <1>8, AccountsQuiet

LEMMA AccountsCommit ==
    ASSUME Shape, Isolation, Accounts, NEW r \in Request, Commit(r)
    PROVE  Accounts'
  <1>. USE DEF Shape, TypeOK, books, draft
  <1>. DEFINE new == Entry(r)
  <1>1. /\ verdict[r] = Undecided
        /\ lock = r
        /\ txLedger = ledger \cup {new}
    BY DEF Commit, Publish, Accounts, Open, Writing, Isolation, TransactionIsolation, DraftOf
  <1>2. /\ new.origin = r
        /\ new.key = IF body[r].op = "consume" THEN body[r].key ELSE NoKey
    BY EntryIsRow DEF Commit, Publish
  <1>3. /\ balance' = txBalance
        /\ ledger' = ledger \cup {new}
        /\ UNCHANGED <<txBalance, body, quoted>>
        /\ pc'[r] = "respond"
        /\ verdict' = [verdict EXCEPT ![r] = Created(new)]
    BY <1>1 DEF Commit, Publish, Goto, Decide
  <1>. HIDE DEF new
  <1>4. \A q \in Request \ {r} : pc'[q] = pc[q] /\ verdict'[q] = verdict[q]
    BY OwnStep DEF Serve
  <1>5. \A q \in Request : Open(q)'
    <2>1. Open(r)'
      BY <1>3 DEF Open, Writing
    <2>2. \A q \in Request \ {r} : Open(q)'
      BY <1>3, <1>4, OpenStands DEF Accounts
    <2> QED BY <2>1, <2>2
  <1>6. \A q \in Request : Checked(q)'
    <2>1. \A q \in Request \ {r} : pc[q] \notin Writing
      BY <1>1, OneWriter
    <2> QED BY <1>3, <1>4, <2>1, NothingToCheck DEF Writing
  <1>7. NoOverdraft'
    BY <1>3 DEF Accounts, NoOverdraft
  <1>8. ChargedOncePerKey'
    <2>1. new.key # NoKey => \A row \in ledger : row.key # new.key
      BY <1>2 DEF Commit, Publish, Accounts, Checked, Originals
    <2> QED BY <1>3, <2>1 DEF Accounts, ChargedOncePerKey
  <1>9. \A q \in Request : TrueAnswer(q)'
    <2>1. TrueAnswer(r)'
      BY <1>2, <1>3, StatusTells DEF TrueAnswer
    <2>2. \A q \in Request \ {r} : TrueAnswer(q)'
      BY <1>3, <1>4 DEF Accounts, AnswersMatchBooks, TrueAnswer, Consuming
    <2> QED BY <2>1, <2>2
  <1>10. \A row \in ledger' : verdict'[row.origin] = Created(row)
    <2>1. verdict'[new.origin] = Created(new)
      BY <1>2, <1>3
    <2>2. ASSUME NEW row \in ledger PROVE verdict'[row.origin] = Created(row)
      <3>1. row.origin \in Request \ {r}
        BY <1>1, NoRowYet DEF Row
      <3>2. verdict[row.origin] = Created(row)
        BY DEF Accounts, AnswersMatchBooks
      <3> QED BY <1>4, <3>1, <3>2
    <2> QED BY <1>3, <2>1, <2>2
  <1> QED BY <1>5, <1>6, <1>7, <1>8, <1>9, <1>10 DEF Accounts, AnswersMatchBooks

LEMMA AccountsRollback ==
    ASSUME Shape, Isolation, Accounts, NEW r \in Request, Rollback(r)
    PROVE  Accounts'
  <1>. USE DEF Shape, TypeOK, books, draft
  <1>1. /\ UNCHANGED <<balance, ledger, body, quoted, verdict>>
        /\ pc'[r] = IF verdict[r] = Undecided THEN "reread" ELSE "respond"
        /\ pc[r] = "rollback"
    BY DEF Rollback, Undo, Goto
  <1>2. lock # r => UNCHANGED txBalance
    BY DEF Rollback, Undo
  <1>3. lock = r => txBalance' = balance
    BY DEF Rollback, Undo
  <1>4. \A q \in Request \ {r} : /\ pc'[q] = pc[q]
                                 /\ body'[q] = body[q]
                                 /\ verdict'[q] = verdict[q]
                                 /\ Checked(q)'
    <2>1. \A q \in Request \ {r} : /\ pc'[q] = pc[q]
                                   /\ body'[q] = body[q]
                                   /\ verdict'[q] = verdict[q]
      BY OwnStep DEF Serve
    <2>2. CASE lock = r
      <3>1. \A q \in Request \ {r} : pc[q] \notin Writing
        BY <2>2, OneWriter
      <3> QED BY <2>1, <3>1, NothingToCheck DEF Writing
    <2>3. CASE lock # r
      BY <1>1, <1>2, <2>1, <2>3, CheckedStands DEF Accounts
    <2> QED BY <2>1, <2>2, <2>3
  <1>5. Open(r)'
    <2>1. Originals(body[r].key)' = Originals(body[r].key)
      BY <1>1 DEF Originals
    <2> QED BY <1>1, <2>1 DEF Open, Writing, Accounts
  <1>6. Checked(r)' /\ TrueAnswer(r)'
    BY <1>1 DEF Checked, TrueAnswer, Consuming, Accounts, AnswersMatchBooks
  <1>7. \A c \in Customer : txBalance'[c] >= 0
    BY <1>2, <1>3 DEF Accounts, NoOverdraft
  <1> QED BY <1>1, <1>4, <1>5, <1>6, <1>7, AccountsQuiet

LEMMA AccountsCrash ==
    ASSUME Shape, Isolation, Accounts, NEW p \in Process, Crash(p)
    PROVE  Accounts'
  <1>. USE DEF Shape, TypeOK, books, draft
  <1>1. /\ UNCHANGED <<body, quoted, verdict, balance, ledger>>
        /\ txBalance' \in {txBalance, balance}
    BY DEF Crash, Undo
  <1>2. \A q \in Request : /\ pc'[q] \in {pc[q], "done"}
                           /\ proc[q] = p /\ InFlight(q) => pc'[q] = "done"
    BY DEF Crash, Undo
  <1>3. ASSUME NEW q \in Request PROVE Open(q)'
    BY <1>1, <1>2, OpenStands DEF Accounts, Open, Writing
  <1>4. ASSUME NEW q \in Request PROVE Checked(q)'
    <2>1. CASE txBalance' = txBalance /\ pc'[q] = pc[q]
      BY <1>1, <2>1, CheckedStands DEF Accounts
    <2>2. CASE txBalance' # txBalance
      <3>1. lock \in Request /\ proc[lock] = p /\ InFlight(lock)
        BY <2>2 DEF Crash, Undo
      <3>2. q # lock => pc[q] \notin Writing
        BY <3>1, OneWriter
      <3> QED BY <1>2, <3>1, <3>2, NothingToCheck DEF Writing
    <2>3. CASE pc'[q] = "done"
      BY <2>3, NothingToCheck
    <2> QED BY <1>2, <2>1, <2>2, <2>3
  <1>5. NoOverdraft' /\ ChargedOncePerKey' /\ AnswersMatchBooks'
    BY <1>1 DEF Accounts, NoOverdraft, ChargedOncePerKey, AnswersMatchBooks,
                TrueAnswer, Consuming
  <1> QED BY <1>3, <1>4, <1>5 DEF Accounts

LEMMA AccountsWorld ==
    ASSUME Accounts,
           \/ \E p \in Process : Restart(p)
           \/ \E x \in Product, u \in Price : Reprice(x, u)
           \/ UNCHANGED vars
    PROVE  Accounts'
  <1>1. UNCHANGED <<pc, body, quoted, verdict, balance, ledger, txBalance>>
    BY DEF Restart, Reprice, vars, server, books, draft
  <1>2. \A q \in Request : Open(q)' /\ Checked(q)'
    BY <1>1, OpenStands, CheckedStands DEF Accounts
  <1>3. NoOverdraft' /\ ChargedOncePerKey' /\ AnswersMatchBooks'
    BY <1>1 DEF Accounts, NoOverdraft, ChargedOncePerKey, AnswersMatchBooks,
                TrueAnswer, Consuming
  <1> QED BY <1>2, <1>3 DEF Accounts

LEMMA AccountsNext == Shape /\ Isolation /\ Accounts /\ [Next]_vars => Accounts'
  BY AccountsArrive, AccountsQuietSteps, AccountsUpdate, AccountsInsert,
     AccountsCommit, AccountsRollback, AccountsCrash, AccountsWorld
  DEF Next, Backend, Serve

-----------------------------------------------------------------------------
(* Numbered is inductive.                                                  *)

\* Only a commit touches the committed ledger and its counter.
LEMMA OnlyCommitsAppend ==
    ASSUME [Next]_vars
    PROVE  UNCHANGED <<ledger, lastId>> \/ \E r \in Request : Commit(r)
  <1>1. ASSUME NEW r \in Request, Serve(r), ~Commit(r)
        PROVE  UNCHANGED <<ledger, lastId>>
    BY <1>1 DEF Serve, LookupProduct, ListCustomers, CommittedBalances, Begin, Update, Disambiguate,
                Insert, Rollback, Undo, RereadOriginal, Respond, books
  <1>2. ASSUME NEW r \in Request, Fail(r) \/ Arrive(r)
        PROVE  UNCHANGED <<ledger, lastId>>
    BY <1>2 DEF Fail, PoolTimesOut, TransactionTimesOut, Arrive, Deliver,
                BadGateway, books
  <1>3. ASSUME NEW p \in Process, Crash(p) \/ Restart(p)
        PROVE  UNCHANGED <<ledger, lastId>>
    BY <1>3 DEF Crash, Undo, Restart, books
  <1>4. ASSUME NEW x \in Product, NEW u \in Price, Reprice(x, u)
        PROVE  UNCHANGED <<ledger, lastId>>
    BY <1>4 DEF Reprice, books
  <1>5. CASE UNCHANGED vars
    BY <1>5 DEF vars
  <1> QED BY <1>1, <1>2, <1>3, <1>4, <1>5 DEF Next, Backend

\* A commit adds the one row of its transaction, under the next id.
LEMMA CommitAppends ==
    ASSUME Shape, Isolation, NEW r \in Request, Commit(r)
    PROVE  /\ ledger' = ledger \cup {Entry(r)}
           /\ Entry(r).id = lastId + 1
           /\ lastId' = lastId + 1
  <1>1. ledger' = ledger \cup {Entry(r)} /\ lastId' = lastId + 1
    BY DEF Commit, Publish, Isolation, TransactionIsolation, DraftOf
  <1>2. Entry(r).id = lastId + 1
    BY DEF Entry, ConsumptionRow, CreditRow
  <1> QED BY <1>1, <1>2

LEMMA NumberedNext ==
    Shape /\ Isolation /\ Numbered /\ [Next]_vars => Numbered'
  <1>. SUFFICES ASSUME Shape, Isolation, Numbered, [Next]_vars PROVE Numbered'
    OBVIOUS
  <1>1. /\ lastId \in Nat
        /\ \A row \in ledger : row.id \in Nat /\ row.id <= lastId
    BY DEF Shape, TypeOK, Row, Numbered
  <1>2. CASE UNCHANGED <<ledger, lastId>>
    BY <1>2 DEF Numbered
  <1>3. CASE \E r \in Request : Commit(r)
    <2>1. PICK r \in Request : Commit(r)
      BY <1>3
    <2> QED BY <1>1, <2>1, CommitAppends DEF Numbered
  <1> QED BY <1>2, <1>3, OnlyCommitsAppend

-----------------------------------------------------------------------------
(* The theorems.                                                           *)

\* The inductive invariant holds for every instance.
THEOREM Invariant == Spec => []IInv
  <1>1. Init => IInv
    BY ShapeInit, IsolationInit, AccountsInit DEF IInv, Numbered, Init
  <1>2. IInv /\ [Next]_vars => IInv'
    BY ShapeNext, IsolationNext, AccountsNext, NumberedNext DEF IInv
  <1> QED BY <1>1, <1>2, PTL DEF Spec

\* docs/adr/0001: no wallet is ever overdrawn, and no open transaction is
\* about to overdraw one, however consumes, top-ups, price changes, timeouts
\* and crashes interleave.
THEOREM WalletsNeverOverdrawn == Spec => []NoOverdraft
  <1>1. IInv => NoOverdraft
    BY DEF IInv, Accounts
  <1> QED BY <1>1, Invariant, PTL

\* docs/adr/0002: at most one ledger row carries a given idempotency key.
THEOREM KeysChargeOnce == Spec => []ChargedOncePerKey
  <1>1. IInv => ChargedOncePerKey
    BY DEF IInv, Accounts
  <1> QED BY <1>1, Invariant, PTL

\* Every answer the back end gives is true of its books.
THEOREM AnswersAreTrue == Spec => []AnswersMatchBooks
  <1>1. IInv => AnswersMatchBooks
    BY DEF IInv, Accounts
  <1> QED BY <1>1, Invariant, PTL

\* The catch block of consume always finds the row it collided with.
THEOREM OriginalsAreDurable == Spec => []ReplayFindsOriginal
  <1>1. IInv => ReplayFindsOriginal
    BY DEF IInv, Accounts, Open, ReplayFindsOriginal
  <1> QED BY <1>1, Invariant, PTL

\* CONTEXT.md, docs/adr/0004: the ledger is append-only, and its rows become
\* visible in the order of their ids, which is what lets a page of the history
\* end at an id and the next one start below it.
THEOREM LedgerOnlyGrows == Spec => AppendOnly
  <1>1. IInv /\ [Next]_vars =>
          [/\ ledger \subseteq ledger'
           /\ \A old \in ledger, new \in ledger' \ ledger : new.id > old.id]_vars
    <2>. SUFFICES ASSUME IInv, [Next]_vars
                  PROVE  /\ ledger \subseteq ledger'
                         /\ \A old \in ledger, new \in ledger' \ ledger :
                               new.id > old.id
      OBVIOUS
    <2>1. CASE UNCHANGED <<ledger, lastId>>
      BY <2>1
    <2>2. CASE \E r \in Request : Commit(r)
      <3>1. PICK r \in Request : Commit(r)
        BY <2>2
      <3>2. /\ ledger' = ledger \cup {Entry(r)}
            /\ Entry(r).id = lastId + 1
        BY <3>1, CommitAppends DEF IInv
      <3>3. /\ lastId \in Nat
            /\ \A old \in ledger : old.id \in Nat /\ old.id <= lastId
        BY DEF IInv, Shape, TypeOK, Row, Numbered
      <3> QED BY <3>2, <3>3
    <2> QED BY <2>1, <2>2, OnlyCommitsAppend
  <1> QED BY <1>1, Invariant, PTL DEF Spec, AppendOnly

-----------------------------------------------------------------------------
(***************************************************************************)
(* Billing keeps the promise of Wallet: read through body, balance,        *)
(* ledger, lastId and verdict, every step of the several processes is one  *)
(* indivisible step of the abstract service, or no step at all.            *)
(*                                                                         *)
(* A request takes effect where its verdict falls: at Commit when it is    *)
(* booked, at Disambiguate when it is denied, at RereadOriginal when it is *)
(* a replay.                                                               *)
(***************************************************************************)

\* The vocabulary means the same on both sides.
LEMMA SameWords ==
    /\ \A s : W!Refused(s) = Refused(s)
    /\ W!Undecided = Undecided
    /\ \A row : W!Created(row) = Created(row)
    /\ \A have, need : W!Denied(have, need) = Denied(have, need)
    /\ \A bal, n : W!Listed(bal, n) = Listed(bal, n)
    /\ W!Unsent = Unsent
    /\ \A b : W!Valid(b) <=> Valid(b)
  BY DEF W!Refused, W!Undecided, W!Created, W!Denied, W!Listed, W!Unsent,
         W!Valid, Refused, Undecided, Created, Denied, Listed, Unsent, Valid

LEMMA InitRefines == Init => W!Init
  BY SameWords DEF Init, W!Init

\* A verdict given to a request that had none is the abstract decision.
LEMMA DecideRefines ==
    ASSUME NEW r \in Request, NEW v, verdict[r] = Undecided, Decide(r, v)
    PROVE  W!Decide(r, v)
  BY SameWords DEF Decide, W!Decide

LEMMA ArriveRefines ==
    ASSUME IInv, NEW r \in Request, Arrive(r)
    PROVE  W!Submit(r)
  <1>. USE DEF books, Shape, Accounts, TypeOK
  <1>1. body[r] = Unsent /\ verdict[r] = Undecided
    BY DEF IInv, Arrive, BadGateway, Deliver, Placed, Open
  <1>2. CASE \E b \in Body : BadGateway(r, b)
    BY <1>1, <1>2, SameWords DEF BadGateway, W!Submit
  <1>3. CASE \E b \in Body, p \in Process : Deliver(r, b, p)
    <2>. PICK b \in Body, p \in Process : Deliver(r, b, p)
      BY <1>3
    <2>1. /\ body' = [body EXCEPT ![r] = b]
          /\ verdict' = verdict \/ (~Valid(b) /\ Decide(r, Refused(400)))
          /\ UNCHANGED <<balance, ledger, lastId>>
      BY DEF Deliver
    <2> QED BY <1>1, <2>1, SameWords, DecideRefines DEF W!Submit
  <1> QED BY <1>2, <1>3 DEF Arrive

LEMMA LookupRefines ==
    ASSUME IInv, NEW r \in Request, LookupProduct(r)
    PROVE  W!Miss(r) \/ UNCHANGED W!vars
  <1>1. verdict[r] = Undecided /\ body[r].op = "consume"
    BY DEF LookupProduct, IInv, Shape, Accounts, Placed, Open
  <1>2. CASE body[r].product \in Product
    BY <1>2 DEF LookupProduct, W!vars, books
  <1>3. CASE body[r].product \notin Product
    BY <1>1, <1>3, SameWords, DecideRefines DEF LookupProduct, W!Miss, books
  <1> QED BY <1>2, <1>3

LEMMA ListRefines ==
    ASSUME IInv, NEW r \in Request, ListCustomers(r)
    PROVE  W!Show(r)
  <1>1. verdict[r] = Undecided /\ body[r].op = "list"
    BY DEF ListCustomers, CommittedBalances, IInv, Shape, Accounts, Placed, Open, Working
  <1> QED BY <1>1, SameWords, DecideRefines DEF ListCustomers, CommittedBalances, W!Show, books

\* A timeout is the service giving up, with no effect.
LEMMA FailRefines ==
    ASSUME IInv, NEW r \in Request, Fail(r)
    PROVE  W!GiveUp(r)
  <1>1. verdict[r] = Undecided /\ body[r] \in Body
    BY DEF Fail, PoolTimesOut, TransactionTimesOut, IInv, Shape, Accounts,
           Placed, Open, Writing
  <1>2. Decide(r, Refused(500)) /\ UNCHANGED <<body, balance, ledger, lastId>>
    BY DEF Fail, PoolTimesOut, TransactionTimesOut, books
  <1> QED BY <1>1, <1>2, KnownOps, SameWords, DecideRefines DEF W!GiveUp

LEMMA RereadRefines ==
    ASSUME IInv, NEW r \in Request, RereadOriginal(r)
    PROVE  W!Replay(r)
  <1>1. /\ verdict[r] = Undecided
        /\ body[r].op = "consume"
        /\ body[r].key # NoKey
        /\ Originals(body[r].key) # {}
    BY DEF RereadOriginal, IInv, Accounts, Open
  <1>2. PICK row \in Originals(body[r].key) : Decide(r, Created(row))
    BY <1>1 DEF RereadOriginal
  <1>3. row \in ledger /\ row.key = body[r].key
    BY DEF Originals
  <1> QED BY <1>1, <1>2, <1>3, SameWords, DecideRefines
      DEF RereadOriginal, W!Replay, books

\* Only a top-up of an unknown customer is decided by its update.
LEMMA UpdateRefines ==
    ASSUME IInv, NEW r \in Request, Update(r)
    PROVE  W!Miss(r) \/ UNCHANGED W!vars
  <1>1. /\ verdict[r] = Undecided
        /\ body[r].op \in {"consume", "credit"}
    BY DEF Update, IInv, Shape, Accounts, Placed, Open, InTx
  <1>2. CASE Matches(r) \/ Consuming(r)
    BY <1>2 DEF Update, W!vars, books
  <1>3. CASE ~Matches(r) /\ ~Consuming(r)
    <2>1. body[r].customer \notin Customer
      BY <1>3 DEF Matches
    <2> QED BY <1>1, <1>3, <2>1, SameWords, DecideRefines
        DEF Update, W!Miss, books
  <1> QED BY <1>2, <1>3

LEMMA DisambiguateRefines ==
    ASSUME IInv, NEW r \in Request, Disambiguate(r)
    PROVE  W!Deny(r) \/ W!Miss(r)
  <1>1. /\ verdict[r] = Undecided
        /\ body[r].op = "consume"
        /\ quoted[r] \in Price
        /\ txBalance = balance
        /\ body[r].customer \in Customer => balance[body[r].customer] < Cost(r)
    BY DEF Disambiguate, IInv, Shape, Isolation, Accounts, Placed, Open, Checked,
           TransactionIsolation, DraftOf, Writing, InTx
  <1>2. UNCHANGED <<body, balance, ledger, lastId>>
    BY DEF Disambiguate, books
  <1>3. CASE body[r].customer \in Customer
    <2>1. W!Decide(r, W!Denied(balance[body[r].customer],
                               quoted[r] * body[r].quantity))
      BY <1>1, <1>3, SameWords, DecideRefines DEF Disambiguate, Cost
    <2> QED BY <1>1, <1>2, <1>3, <2>1 DEF W!Deny, Cost
  <1>4. CASE body[r].customer \notin Customer
    <2>1. W!Decide(r, W!Refused(404))
      BY <1>1, <1>4, SameWords, DecideRefines DEF Disambiguate
    <2> QED BY <1>1, <1>2, <1>4, <2>1 DEF W!Miss
  <1> QED BY <1>3, <1>4

\* The row a transaction inserts is a row the abstract service could book.
LEMMA EntryRefines ==
    ASSUME NEW r \in Request, Shape, pc[r] = "commit"
    PROVE  \E unit \in Price : Entry(r) = W!Entry(r, unit)
  <1>1. \/ body[r].op = "consume" /\ quoted[r] \in Price
        \/ body[r].op = "credit"
    BY DEF Shape, Placed, InTx, Writing
  <1>2. CASE body[r].op = "consume" /\ quoted[r] \in Price
    BY <1>2 DEF Entry, W!Entry, ConsumptionRow, W!ConsumptionRow, Consuming
  <1>3. CASE body[r].op = "credit"
    BY <1>3, PriceAssumption DEF Entry, W!Entry, CreditRow, W!CreditRow,
                                 Consuming
  <1> QED BY <1>1, <1>2, <1>3

LEMMA CommitRefines ==
    ASSUME IInv, NEW r \in Request, Commit(r)
    PROVE  W!Book(r)
  <1>. DEFINE row == Entry(r)
  <1>1. /\ verdict[r] = Undecided
        /\ txLedger = ledger \cup {row}
        /\ txBalance = [balance EXCEPT ![body[r].customer] = @ + Delta(r)]
    BY DEF Commit, Publish, IInv, Isolation, Accounts, Open, Writing,
           TransactionIsolation, DraftOf
  <1>2. /\ body[r].op \in {"consume", "credit"}
        /\ Valid(body[r])
        /\ body[r].customer \in Customer
    BY DEF Commit, Publish, IInv, Shape, Placed, Working, InTx, Writing
  <1>3. /\ row.id = lastId + 1
        /\ row.customer = body[r].customer
        /\ row.amount = Delta(r)
        /\ row.key = IF body[r].op = "consume" THEN body[r].key ELSE NoKey
    BY EntryIsRow DEF Commit, Publish, IInv
  <1>4. Decide(r, Created(row)) /\ UNCHANGED body
    BY DEF Commit, Publish
  <1>5. /\ balance' = [balance EXCEPT ![row.customer] = @ + row.amount]
        /\ ledger' = ledger \cup {row}
        /\ lastId' = row.id
    BY <1>1, <1>3 DEF Commit, Publish
  <1>6. balance[row.customer] + row.amount >= 0
    <2>1. txBalance[body[r].customer] >= 0
      BY <1>2 DEF IInv, Accounts, NoOverdraft
    <2> QED BY <1>1, <1>2, <1>3, <2>1 DEF IInv, Shape, TypeOK
  <1>7. ~W!KeyUsed(row.key)
    BY <1>3 DEF Commit, Publish, IInv, Accounts, Checked, Originals, W!KeyUsed
  <1>8. PICK unit \in Price : row = W!Entry(r, unit)
    BY EntryRefines DEF Commit, Publish, IInv
  <1>. HIDE DEF row
  <1>9. W!Decide(r, W!Created(row)) /\ W!Post(row)
    BY <1>1, <1>4, <1>5, SameWords, DecideRefines DEF W!Post
  <1> QED BY <1>2, <1>4, <1>6, <1>7, <1>8, <1>9, SameWords DEF W!Book

LEMMA SilentSteps ==
    ASSUME \/ \E r \in Request : Begin(r) \/ Insert(r) \/ Rollback(r) \/ Respond(r)
           \/ \E p \in Process : Crash(p) \/ Restart(p)
           \/ \E x \in Product, u \in Price : Reprice(x, u)
           \/ UNCHANGED vars
    PROVE  UNCHANGED W!vars
  BY DEF Begin, Insert, Rollback, Undo, Respond, Crash, Restart, Reprice, vars, books,
         server, draft, W!vars

LEMMA StepRefines == IInv /\ [Next]_vars => [W!Next]_(W!vars)
  <1>. SUFFICES ASSUME IInv, [Next]_vars PROVE W!Next \/ UNCHANGED W!vars
    OBVIOUS
  <1>1. CASE \E r \in Request : Arrive(r)
    BY <1>1, ArriveRefines DEF W!Next
  <1>2. CASE \E r \in Request : Serve(r) \/ Fail(r)
    <2>. PICK r \in Request : Serve(r) \/ Fail(r)
      BY <1>2
    <2> QED BY LookupRefines, ListRefines, UpdateRefines, DisambiguateRefines,
               CommitRefines, RereadRefines, FailRefines, SilentSteps
        DEF Serve, W!Next
  <1>3. CASE \/ \E p \in Process : Crash(p) \/ Restart(p)
             \/ \E x \in Product, u \in Price : Reprice(x, u)
             \/ UNCHANGED vars
    BY <1>3, SilentSteps
  <1> QED BY <1>1, <1>2, <1>3 DEF Next, Backend

\* The back end implements the atomic service of Wallet.
THEOREM BackendKeepsWalletPromise == Spec => WalletPromise
  <1>1. Spec => W!Spec
    BY InitRefines, StepRefines, Invariant, PTL DEF Spec, W!Spec
  <1> QED BY <1>1 DEF WalletPromise
=============================================================================
