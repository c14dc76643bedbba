------------------------- MODULE BillingAuditProofs -------------------------
(***************************************************************************)
(* The books reconcile, for any number of instances, requests, customers,  *)
(* products and keys: every balance is its opening balance and the sum of  *)
(* its ledger rows, and so is every balance a list has shown.              *)
(*                                                                         *)
(* The sum is the community modules' fold, which picks the rows of a set   *)
(* in an order of its own.  The first part shows, by induction over the    *)
(* finite subsets of a ledger, that the order does not matter: whichever   *)
(* row is taken out, the sum goes down by its amount.  The second part     *)
(* then follows a commit, which adds one row and moves one balance by it.  *)
(***************************************************************************)
EXTENDS BillingAudit, BillingProofs, Induction

\* What Recomputed adds up.
Amounts(S) == MapThenSumSet(LAMBDA row : row.amount, S)

Pick(S) == CHOOSE x \in S : TRUE

\* One step of the fold, with g standing for the sums of the smaller sets.
After(S, g) == IF S = {} THEN 0 ELSE Pick(S).amount + g[S \ {Pick(S)}]

IsFold(g, S) == g = [T \in SUBSET S |-> After(T, g)]

LEMMA PickIn == \A S : S # {} => Pick(S) \in S
  BY DEF Pick

LEMMA AmountsAreAFold == \A S : Amounts(S) = (CHOOSE g : IsFold(g, S))[S]
  BY DEF Amounts, MapThenSumSet, MapThenFoldSet, IsFold, Pick, After

\* A recursive definition over the subsets of a finite set has one solution ...
LEMMA FoldUnique ==
    ASSUME NEW S, IsFiniteSet(S), NEW g, IsFold(g, S), NEW h, IsFold(h, S)
    PROVE  \A T \in SUBSET S : g[T] = h[T]
  <1> DEFINE Good == {T \in SUBSET S : g[T] = h[T]}
  <1>1. ASSUME NEW T \in SUBSET S, \A U \in (SUBSET T) \ {T} : U \in Good
        PROVE  T \in Good
    <2>1. g[T] = After(T, g) /\ h[T] = After(T, h)
      BY DEF IsFold
    <2>2. T # {} => g[T \ {Pick(T)}] = h[T \ {Pick(T)}]
      BY <1>1, PickIn
    <2> QED BY <2>1, <2>2 DEF After
  <1>2. \A T \in SUBSET S : T \in Good
    <2> HIDE DEF Good
    <2> QED BY <1>1, SubsetInduction
  <1> QED BY <1>2

\* ... and it has one at all: the sums obey the recursion.
SumStep(S) == IF S = {} THEN 0 ELSE Pick(S).amount + Amounts(S \ {Pick(S)})

LEMMA AmountsRecur ==
    ASSUME NEW S, IsFiniteSet(S)
    PROVE  \A T \in SUBSET S : Amounts(T) = SumStep(T)
  <1> DEFINE Good == {T \in SUBSET S : Amounts(T) = SumStep(T)}
  <1>1. ASSUME NEW T \in SUBSET S, \A U \in (SUBSET T) \ {T} : U \in Good
        PROVE  T \in Good
    <2> DEFINE g == [U \in SUBSET T |-> SumStep(U)]
    <2>1. \A U \in SUBSET T : g[U] = After(U, g)
      <3> SUFFICES ASSUME NEW U \in SUBSET T PROVE SumStep(U) = After(U, g)
        OBVIOUS
      <3>1. CASE U = {}
        BY <3>1 DEF After, SumStep
      <3>2. CASE U # {}
        <4>1. U \ {Pick(U)} \in (SUBSET T) \ {T}
          BY <3>2, PickIn
        <4>2. g[U \ {Pick(U)}] = Amounts(U \ {Pick(U)})
          BY <1>1, <4>1
        <4> QED BY <3>2, <4>2 DEF After, SumStep
      <3> QED BY <3>1, <3>2
    <2>2. IsFold(g, T)
      BY <2>1 DEF IsFold
    <2> HIDE DEF g
    <2>3. IsFold(CHOOSE h : IsFold(h, T), T)
      BY <2>2
    <2>4. Amounts(T) = g[T]
      BY <2>2, <2>3, FoldUnique, FS_Subset, AmountsAreAFold
    <2> QED BY <2>4 DEF g
  <1>2. \A T \in SUBSET S : T \in Good
    <2> HIDE DEF Good
    <2> QED BY <1>1, SubsetInduction
  <1> QED BY <1>2

\* Whichever row is taken out, the rest adds up to that much less.
Splits(T) ==
    Amounts(T) \in Int /\ \A x \in T : Amounts(T) = x.amount + Amounts(T \ {x})

LEMMA AmountsSplit ==
    ASSUME NEW S, IsFiniteSet(S), \A x \in S : x.amount \in Int
    PROVE  \A T \in SUBSET S : Splits(T)
  <1> DEFINE Good == {T \in SUBSET S : Splits(T)}
  <1>1. ASSUME NEW T \in SUBSET S, \A U \in (SUBSET T) \ {T} : U \in Good
        PROVE  T \in Good
    <2>1. Amounts(T) = SumStep(T)
      BY AmountsRecur
    <2>2. CASE T = {}
      BY <2>1, <2>2 DEF SumStep, Splits
    <2>3. CASE T # {}
      <3> DEFINE p == Pick(T)
      <3>1. p \in T /\ p.amount \in Int
        BY <2>3, PickIn
      <3>2. Splits(T \ {p}) /\ Amounts(T) = p.amount + Amounts(T \ {p})
        BY <1>1, <2>1, <2>3, <3>1 DEF SumStep
      <3> HIDE DEF p
      <3>3. ASSUME NEW x \in T PROVE Amounts(T) = x.amount + Amounts(T \ {x})
        <4>1. CASE x = p
          BY <3>2, <4>1
        <4>2. CASE x # p
          <5> DEFINE rest == (T \ {p}) \ {x}
          <5>1. rest = (T \ {x}) \ {p} /\ rest \in (SUBSET T) \ {T}
            BY <3>1
          <5>2. Splits(T \ {x}) /\ Splits(rest)
            BY <1>1, <3>1, <5>1
          <5> HIDE DEF rest
          <5>3. Amounts(T \ {p}) = x.amount + Amounts(rest)
            BY <3>2, <4>2 DEF Splits, rest
          <5>4. Amounts(T \ {x}) = p.amount + Amounts(rest)
            BY <3>1, <4>2, <5>1, <5>2 DEF Splits
          <5>5. x.amount \in Int /\ Amounts(rest) \in Int
            BY <5>2 DEF Splits
          <5> QED BY <3>1, <3>2, <5>3, <5>4, <5>5
        <4> QED BY <4>1, <4>2
      <3> QED BY <3>1, <3>2, <3>3 DEF Splits
    <2> QED BY <2>2, <2>3
  <1>2. \A T \in SUBSET S : T \in Good
    <2> HIDE DEF Good
    <2> QED BY <1>1, SubsetInduction
  <1> QED BY <1>2

LEMMA AmountsAdd ==
    ASSUME NEW S, IsFiniteSet(S), NEW x, x \notin S,
           x.amount \in Int, \A y \in S : y.amount \in Int
    PROVE  Amounts(S) \in Int /\ Amounts(S \cup {x}) = Amounts(S) + x.amount
  <1>1. IsFiniteSet(S \cup {x})
    BY FS_AddElement
  <1>2. Splits(S \cup {x}) /\ Splits(S)
    BY <1>1, AmountsSplit
  <1>3. (S \cup {x}) \ {x} = S
    OBVIOUS
  <1>4. Amounts(S \cup {x}) = x.amount + Amounts((S \cup {x}) \ {x})
    BY <1>2 DEF Splits
  <1> QED BY <1>2, <1>3, <1>4 DEF Splits

LEMMA AmountsNone == Amounts({}) = 0
  BY AmountsRecur, FS_EmptySet DEF SumStep

-----------------------------------------------------------------------------
(* What one step does to the books, read off the atomic service of Wallet, *)
(* which the back end implements.                                          *)

\* One new row is published, and one balance moves by it.
Posted(row) ==
    /\ row.id = lastId + 1 /\ row.customer \in Customer /\ row.amount \in Int
    /\ balance' = [balance EXCEPT ![row.customer] = @ + row.amount]
    /\ ledger' = ledger \cup {row}
    /\ lastId' = row.id

\* A list that is answered with this step shows the books as they are.
ListsAreOfNow ==
    \A r \in Request : \/ verdict'[r] = verdict[r]
                       \/ verdict'[r].status # 200
                       \/ verdict'[r] = Listed(balance, lastId)

LEMMA BookPosts ==
    ASSUME IInv, NEW r \in Request, W!Book(r)
    PROVE  (\E row : Posted(row)) /\ ListsAreOfNow
  <1>1. PICK unit \in Price : LET row == W!Entry(r, unit) IN
                                /\ W!Decide(r, W!Created(row))
                                /\ W!Post(row)
    BY DEF W!Book
  <1> DEFINE row == W!Entry(r, unit)
  <1>2. /\ body[r] \in Body /\ Valid(body[r]) /\ unit \in Nat
        /\ body[r].op \in {"consume", "credit"} /\ body[r].customer \in Customer
    BY SameWords, PriceAssumption DEF W!Book, IInv, Shape, TypeOK, Unsent
  <1>3. /\ row.id = lastId + 1 /\ row.customer \in Customer /\ row.amount \in Int
    <2>1. CASE body[r].op = "consume"
      <3>1. row = W!ConsumptionRow(lastId + 1, body[r], unit, r)
        BY <2>1 DEF W!Entry
      <3>2. unit * body[r].quantity \in Int
        BY <1>2, <2>1, ValidConsume
      <3> QED BY <1>2, <3>1, <3>2 DEF W!ConsumptionRow
    <2>2. CASE body[r].op = "credit"
      <3>1. row = W!CreditRow(lastId + 1, body[r], r)
        BY <2>2 DEF W!Entry
      <3> QED BY <1>2, <2>2, <3>1, ValidCredit DEF W!CreditRow
    <2> QED BY <1>2, <2>1, <2>2
  <1>4. Posted(row)
    BY <1>1, <1>3 DEF W!Post, Posted
  <1>5. ListsAreOfNow
    <2>1. verdict' = [verdict EXCEPT ![r] = Created(row)]
      BY <1>1, SameWords DEF W!Decide
    <2>2. Created(row).status = 201
      BY DEF Created
    <2> QED BY <2>1, <2>2 DEF ListsAreOfNow, IInv, Shape, TypeOK
  <1> QED BY <1>4, <1>5

\* Every other step of the service leaves the books alone.
LEMMA OthersPostNothing ==
    ASSUME IInv, NEW r \in Request,
           \/ W!Submit(r) \/ W!Deny(r) \/ W!Replay(r) \/ W!Miss(r) \/ W!GiveUp(r)
           \/ W!Show(r)
    PROVE  UNCHANGED books /\ ListsAreOfNow
  <1>1. UNCHANGED books
    BY DEF W!Submit, W!Deny, W!Replay, W!Miss, W!GiveUp, W!Show, books
  <1>2. \A q \in Request \ {r} : verdict'[q] = verdict[q]
    BY DEF W!Submit, W!Deny, W!Replay, W!Miss, W!GiveUp, W!Show, W!Decide,
           IInv, Shape, TypeOK
  <1>3. \/ verdict'[r] = verdict[r]
        \/ verdict'[r].status # 200
        \/ verdict'[r] = Listed(balance, lastId)
    <2>0. \A v : W!Decide(r, v) => verdict'[r] = v
      BY DEF W!Decide, IInv, Shape, TypeOK
    <2>1. CASE W!Submit(r)
      BY <2>0, <2>1, SameWords, StatusTells DEF W!Submit
    <2>2. CASE W!Deny(r)
      <3>1. PICK have, need : W!Decide(r, Denied(have, need))
        BY <2>2, SameWords DEF W!Deny
      <3> QED BY <2>0, <3>1, StatusTells
    <2>3. CASE W!Replay(r)
      <3>1. PICK row : W!Decide(r, Created(row))
        BY <2>3, SameWords DEF W!Replay
      <3> QED BY <2>0, <3>1, StatusTells
    <2>4. CASE W!Miss(r) \/ W!GiveUp(r)
      BY <2>0, <2>4, SameWords, StatusTells DEF W!Miss, W!GiveUp
    <2>5. CASE W!Show(r)
      BY <2>0, <2>5, SameWords DEF W!Show
    <2> QED BY <2>1, <2>2, <2>3, <2>4, <2>5
  <1> QED BY <1>1, <1>2, <1>3 DEF ListsAreOfNow

LEMMA BooksMove ==
    ASSUME IInv, [Next]_vars
    PROVE  (UNCHANGED books \/ \E row : Posted(row)) /\ ListsAreOfNow
  <1>1. W!Next \/ UNCHANGED W!vars
    BY StepRefines
  <1>2. CASE UNCHANGED W!vars
    BY <1>2 DEF W!vars, books, ListsAreOfNow
  <1>3. CASE W!Next
    BY <1>3, BookPosts, OthersPostNothing DEF W!Next
  <1> QED BY <1>1, <1>2, <1>3

-----------------------------------------------------------------------------
(* The invariant of the audit. *)

\* The rows of customer c up to ledger id n.
RowsOf(c, n) == {row \in ledger : row.customer = c /\ row.id <= n}

LEMMA RecomputedIs ==
    \A c, n : /\ Recomputed(c, n) = Opening[c] + Amounts(RowsOf(c, n))
             /\ Recomputed(c, n)' = Opening[c] + Amounts(RowsOf(c, n)')
  BY DEF Recomputed, Amounts, RowsOf, MapThenSumSet, MapThenFoldSet

\* A list was taken before any row that is still to come.
ListsAreDated ==
    \A r \in Request : verdict[r].status = 200 => verdict[r].asOf <= lastId

AuditInv == IsFiniteSet(ledger) /\ ListsAreDated /\ Reconciled /\ ListsReconcile

LEMMA AuditInit == Init => AuditInv
  <1> SUFFICES ASSUME Init PROVE AuditInv
    OBVIOUS
  <1>1. \A c, n : RowsOf(c, n) = {}
    BY DEF Init, RowsOf
  <1>2. Reconciled
    BY <1>1, RecomputedIs, AmountsNone, OpeningAssumption DEF Init, Reconciled
  <1> QED BY <1>2, FS_EmptySet, StatusTells
          DEF Init, AuditInv, ListsAreDated, ListsReconcile

\* Up to the last id before it, a new row changes no customer's rows.
LEMMA EarlierRows ==
    ASSUME IInv, NEW row, Posted(row), NEW c, NEW n \in Nat, n <= lastId
    PROVE  RowsOf(c, n)' = RowsOf(c, n)
  BY DEF Posted, RowsOf, IInv, Shape, TypeOK

\* Up to its own id, it is its customer's new row and nobody else's.
LEMMA RowsWithIt ==
    ASSUME IInv, NEW row, Posted(row), NEW c
    PROVE  /\ row \notin RowsOf(c, lastId)
           /\ RowsOf(c, lastId)' =
                 IF c = row.customer THEN RowsOf(c, lastId) \cup {row}
                                     ELSE RowsOf(c, lastId)
  <1>1. /\ lastId \in Nat /\ row.id = lastId + 1 /\ lastId' = lastId + 1
        /\ \A old \in ledger : old.id \in Nat /\ old.id <= lastId
    BY DEF Posted, IInv, Shape, TypeOK, Row, Numbered
  <1> QED BY <1>1 DEF Posted, RowsOf

LEMMA ReconciledStep ==
    ASSUME IInv, AuditInv, NEW row, Posted(row)
    PROVE  Reconciled'
  <1> SUFFICES ASSUME NEW c \in Customer PROVE balance'[c] = Recomputed(c, lastId)'
    BY DEF Reconciled
  <1> DEFINE S == RowsOf(c, lastId)
  <1>1. /\ IsFiniteSet(S) /\ \A y \in S : y.amount \in Int
    BY FS_Subset DEF AuditInv, RowsOf, IInv, Shape, TypeOK, Row
  <1>2. Amounts(S) \in Int /\ Opening[c] \in Int
    BY <1>1, AmountsSplit, OpeningAssumption DEF Splits
  <1>3. balance[c] = Opening[c] + Amounts(S)
    BY RecomputedIs DEF AuditInv, Reconciled
  <1>4. Recomputed(c, lastId)' = Opening[c] + Amounts(S')
    BY DEF Recomputed, Amounts, RowsOf, MapThenSumSet, MapThenFoldSet
  <1>5. CASE c = row.customer
    <2>1. S' = S \cup {row} /\ row \notin S
      BY <1>5, RowsWithIt
    <2>2. Amounts(S') = Amounts(S) + row.amount
      <3> HIDE DEF S
      <3> QED BY <1>1, <2>1, AmountsAdd DEF Posted
    <2>3. balance'[c] = balance[c] + row.amount
      BY <1>5 DEF Posted, IInv, Shape, TypeOK
    <2> QED BY <1>2, <1>3, <1>4, <2>2, <2>3 DEF Posted
  <1>6. CASE c # row.customer
    <2>1. S' = S
      BY <1>6, RowsWithIt
    <2>2. balance'[c] = balance[c]
      BY <1>6 DEF Posted, IInv, Shape, TypeOK
    <2> QED BY <1>3, <1>4, <2>1, <2>2
  <1> QED BY <1>5, <1>6

LEMMA ListsStep ==
    ASSUME IInv, AuditInv, [Next]_vars
    PROVE  ListsAreDated' /\ ListsReconcile'
  <1>1. ASSUME NEW r \in Request, verdict'[r].status = 200
        PROVE  /\ verdict'[r].asOf \in Nat /\ verdict'[r].asOf <= lastId
               /\ \A c \in Customer :
                     verdict'[r].balances[c] = Recomputed(c, verdict'[r].asOf)
    <2>1. CASE verdict'[r] = verdict[r]
      <3>1. verdict[r].asOf \in Nat
        BY <1>1, <2>1 DEF IInv, Shape, TypeOK, Verdict
      <3> QED BY <1>1, <2>1, <3>1 DEF AuditInv, ListsAreDated, ListsReconcile
    <2>2. CASE verdict'[r] = Listed(balance, lastId)
      BY <2>2 DEF Listed, AuditInv, Reconciled, IInv, Shape, TypeOK
    <2> QED BY <1>1, <2>1, <2>2, BooksMove DEF ListsAreOfNow
  <1>2. /\ lastId \in Nat /\ lastId' \in Nat /\ lastId <= lastId'
        /\ \A c \in Customer, n \in Nat :
              n <= lastId => Recomputed(c, n)' = Recomputed(c, n)
    <2>1. CASE UNCHANGED books
      <3>1. \A c, n : RowsOf(c, n)' = RowsOf(c, n)
        BY <2>1 DEF books, RowsOf
      <3> QED BY <2>1, <3>1, RecomputedIs DEF books, IInv, Shape, TypeOK
    <2>2. CASE \E row : Posted(row)
      <3>1. PICK row : Posted(row)
        BY <2>2
      <3>2. \A c \in Customer, n \in Nat :
               n <= lastId => RowsOf(c, n)' = RowsOf(c, n)
        BY <3>1, EarlierRows
      <3>3. lastId \in Nat /\ lastId' = lastId + 1
        BY <3>1 DEF Posted, IInv, Shape, TypeOK
      <3> QED BY <3>2, <3>3, RecomputedIs
    <2> QED BY <2>1, <2>2, BooksMove
  <1>3. ListsAreDated'
    BY <1>1, <1>2 DEF ListsAreDated
  <1>4. ListsReconcile'
    BY <1>1, <1>2 DEF ListsReconcile
  <1> QED BY <1>3, <1>4

LEMMA AuditStep == IInv /\ AuditInv /\ [Next]_vars => AuditInv'
  <1> SUFFICES ASSUME IInv, AuditInv, [Next]_vars PROVE AuditInv'
    OBVIOUS
  <1>1. IsFiniteSet(ledger)' /\ Reconciled'
    <2>1. CASE UNCHANGED books
      <3>1. \A c : Recomputed(c, lastId)' = Recomputed(c, lastId)
        BY <2>1 DEF books, Recomputed, MapThenSumSet, MapThenFoldSet
      <3> QED BY <2>1, <3>1 DEF books, AuditInv, Reconciled
    <2>2. ASSUME NEW row, Posted(row) PROVE IsFiniteSet(ledger)' /\ Reconciled'
      BY <2>2, ReconciledStep, FS_AddElement DEF Posted, AuditInv
    <2> QED BY <2>1, <2>2, BooksMove
  <1> QED BY <1>1, ListsStep DEF AuditInv

\* What the audit finds, for every instance.
THEOREM BooksAudit == Spec => []AuditInv
  BY AuditInit, AuditStep, Invariant, PTL DEF Spec

\* CONTEXT.md, Usage Event: "The Balance is kept consistent with the ledger".
\* Every committed balance is the opening balance and the signed amounts of
\* the customer's rows, however handlers interleave, fail, replay and crash.
THEOREM BalanceIsTheLedger == Spec => []Reconciled
  <1>1. AuditInv => Reconciled
    BY DEF AuditInv
  <1> QED BY <1>1, BooksAudit, PTL

\* A list of the customers shows the balances of one moment, those that the
\* rows committed by then explain, whatever is written while it is on its way.
THEOREM ListsAreOneMoment == Spec => []ListsReconcile
  <1>1. AuditInv => ListsReconcile
    BY DEF AuditInv
  <1> QED BY <1>1, BooksAudit, PTL

=============================================================================
