-------------------------- MODULE SubmissionProofs --------------------------
(***************************************************************************)
(* The forms keep their promises for any number of presses, retries,       *)
(* instances and fields: all the attempts of a press charge at most once,  *)
(* a reported success is that charge, and a press behaves as module        *)
(* Purchase says.                                                          *)
(*                                                                         *)
(* A form that gives up on a handler that runs on is no step of the back   *)
(* end; but the back end's invariant survives it, so that its two results  *)
(* carry over: at most one row has a key, and a request whose row is       *)
(* booked was answered 201 with that row.                                  *)
(***************************************************************************)
EXTENDS SubmissionInvariant, BillingProofs, FiniteSetTheorems

-----------------------------------------------------------------------------
(* What the forms post.                                                    *)

\* An attempt is a request, and a request is an attempt of a press.
LEMMA AttemptsAreRequests ==
    /\ \A s \in Submission, n \in 1 .. Retries + 1 : <<s, n>> \in Request
    /\ \A r \in Request : /\ r[1] \in Submission
                          /\ r[2] \in 1 .. Retries + 1
                          /\ r = <<r[1], r[2]>>
  BY AttemptAssumption

\* A press posts bodies of the service: a top-up credits, any other press
\* consumes under its own key.
LEMMA BodiesOfPress ==
    ASSUME NEW s \in Submission, NEW b \in Bodies(s)
    PROVE  /\ b \in Body
           /\ s \in TopUp => b.op = "credit"
           /\ s \notin TopUp => b.op = "consume" /\ b.key = s
  <1>1. CASE s \in TopUp
    BY <1>1, FieldsAssumption DEF Bodies, CreditBody
  <1>2. CASE s \notin TopUp
    <2>1. PICK f \in Fields : b = [f EXCEPT !.key = s]
      BY <1>2 DEF Bodies, KeyOf
    <2>2. f \in ConsumeBody /\ s \in Key
      BY <1>2, FieldsAssumption, AttemptAssumption
    <2> QED BY <1>2, <2>1, <2>2, FieldsAssumption DEF ConsumeBody
  <1> QED BY <1>1, <1>2

\* Posting is the arrival of a request.
LEMMA PostArrives ==
    ASSUME NEW s \in Submission, Post(s)
    PROVE  Arrive(Attempt(s))
  BY BodiesOfPress DEF Post, Arrive

LEMMA AttemptIsRequest ==
    ASSUME FormTypeOK, NEW s \in Submission
    PROVE  Attempt(s) \in Request /\ Attempt(s)[1] = s
  BY AttemptsAreRequests, AttemptAssumption DEF FormTypeOK, Attempt

-----------------------------------------------------------------------------
(* The back end under clients that give up.                                *)

\* A step of the back end wakes no request, alters no body, and denies none
\* but consumptions.
LEMMA BackendKeeps ==
    ASSUME Shape, Backend
    PROVE  /\ body' = body
           /\ \A r \in Request : pc[r] = "idle" => pc'[r] = "idle"
           /\ \A r \in Request : verdict'[r] = verdict[r]
                                 \/ (verdict'[r].status = 402 => Consuming(r))
  <1>. USE DEF Shape, TypeOK
  <1>1. ASSUME NEW r \in Request, Serve(r) \/ Fail(r)
        PROVE  /\ body' = body
               /\ pc[r] # "idle"
               /\ verdict'[r] = verdict[r]
                  \/ (verdict'[r].status = 402 => Consuming(r))
    <2>1. CASE LookupProduct(r)
      BY <2>1, StatusTells DEF LookupProduct, Decide
    <2>2. CASE ListCustomers(r)
      BY <2>2, StatusTells DEF ListCustomers, Decide
    <2>3. CASE RereadOriginal(r)
      BY <2>3, StatusTells DEF RereadOriginal, Decide
    <2>4. CASE Begin(r) \/ Insert(r) \/ Rollback(r) \/ Respond(r)
      BY <2>4 DEF Begin, Insert, Rollback, Respond
    <2>5. CASE Update(r)
      BY <2>5, StatusTells DEF Update, Decide
    <2>6. CASE Disambiguate(r)
      BY <2>6 DEF Disambiguate, Placed, Consuming
    <2>7. CASE Commit(r)
      BY <2>7, StatusTells DEF Commit, Decide
    <2>8. CASE Fail(r)
      BY <2>8, StatusTells DEF Fail, PoolTimesOut, TransactionTimesOut, Decide, Writing
    <2> QED BY <1>1, <2>1, <2>2, <2>3, <2>4, <2>5, <2>6, <2>7, <2>8 DEF Serve
  <1>2. CASE \E r \in Request : Serve(r) \/ Fail(r)
    BY <1>1, <1>2, OwnStep
  <1>3. CASE \E p \in Process : Crash(p) \/ Restart(p)
    BY <1>3 DEF Crash, Restart, InFlight, Working, InTx, Writing
  <1>4. CASE \E x \in Product, u \in Price : Reprice(x, u)
    BY <1>4 DEF Reprice
  <1> QED BY <1>2, <1>3, <1>4 DEF Backend

\* A step of the service keeps the service's invariant.
LEMMA ServiceSteps == IInv /\ [Next]_vars => IInv'
  BY ShapeNext, IsolationNext, AccountsNext, NumberedNext DEF IInv

\* So does a client that hangs up: nothing but `gone` notices.
LEMMA HangUp ==
    ASSUME IInv, NEW r \in Request, gone' = gone \cup {r},
           UNCHANGED <<pc, proc, body, quoted, verdict, price, server, books, draft>>
    PROVE  IInv'
  <1>. USE DEF server, books, draft
  <1>1. Shape'
    <2>1. TypeOK'
      BY DEF IInv, Shape, TypeOK
    <2> QED BY <2>1, PlacedElsewhere DEF IInv, Shape
  <1>2. Isolation'
    BY DraftStands DEF IInv, Isolation, LockHeld, TransactionIsolation
  <1>3. Accounts'
    <2>1. \A q \in Request : Open(q)' /\ Checked(q)'
      BY OpenStands, CheckedStands DEF IInv, Accounts
    <2> QED BY <2>1 DEF IInv, Accounts, NoOverdraft, ChargedOncePerKey,
                        AnswersMatchBooks, TrueAnswer, Consuming
  <1>4. Numbered'
    BY DEF IInv, Numbered
  <1> QED BY <1>1, <1>2, <1>3, <1>4 DEF IInv

-----------------------------------------------------------------------------
(* Ties is inductive.                                                      *)

LEMMA TiesInit == FormInit => Ties
  <1>. SUFFICES ASSUME FormInit PROVE Ties
    OBVIOUS
  <1>. USE DEF FormInit, Init, ClientInit
  <1>1. FormTypeOK
    BY AttemptAssumption DEF FormTypeOK, Form
  <1>2. \A s \in Submission : InTurn(s)
    BY AttemptsAreRequests, AttemptAssumption DEF InTurn, Attempt, MaxRetries
  <1>3. BodiesFit /\ RowsFit /\ ShownFits
    BY StatusTells DEF BodiesFit, RowsFit, ShownFits
  <1> QED BY <1>1, <1>2, <1>3 DEF Ties

\* The row that a commit adds carries the key of its press.
LEMMA CommittedRowFits ==
    ASSUME FormInv, NEW r \in Request, Commit(r)
    PROVE  /\ Entry(r) \in Row
           /\ Entry(r).origin = r
           /\ Entry(r).key = RowKey(r[1])
  <1>1. /\ Entry(r) \in Row
        /\ Entry(r).origin = r
        /\ Entry(r).key = IF body[r].op = "consume" THEN body[r].key ELSE NoKey
    BY EntryIsRow DEF FormInv, IInv, Commit
  <1>2. body[r] \in Body
    BY DEF FormInv, IInv, Shape, Placed, Commit
  <1>3. body[r] \in Bodies(r[1])
    BY <1>2, KnownOps DEF FormInv, Ties, BodiesFit
  <1> QED BY <1>1, <1>3, BodiesOfPress, AttemptsAreRequests DEF RowKey, KeyOf

LEMMA BackendTies ==
    ASSUME FormInv, Backend, UNCHANGED client
    PROVE  Ties'
  <1>. USE DEF FormInv, Ties, client
  <1>1. FormTypeOK'
    BY DEF FormTypeOK
  <1>2. ASSUME NEW s \in Submission PROVE InTurn(s)'
    <2>1. \A r \in Request : pc[r] = "idle" => pc'[r] = "idle"
      BY BackendKeeps DEF IInv
    <2>2. \A n \in failures[s] + 2 .. Retries + 1 : n \in 1 .. Retries + 1
      BY AttemptAssumption DEF FormTypeOK
    <2> QED BY <2>1, <2>2, AttemptIsRequest, AttemptsAreRequests DEF InTurn, Attempt
  <1>3. BodiesFit'
    BY BackendKeeps DEF IInv, BodiesFit, Consuming
  <1>4. RowsFit' /\ ledger \subseteq ledger'
    <2>1. CASE UNCHANGED ledger
      BY <2>1 DEF RowsFit
    <2>2. ASSUME NEW r \in Request, Commit(r)
          PROVE  RowsFit' /\ ledger \subseteq ledger'
      <3>1. ledger' = ledger \cup {Entry(r)}
        BY <2>2, CommitAppends DEF IInv
      <3> QED BY <2>2, <3>1, CommittedRowFits DEF RowsFit
    <2> QED BY <2>1, <2>2, OnlyCommitsAppend DEF Next
  <1>5. ShownFits'
    BY <1>4 DEF ShownFits, ChargesOf
  <1> QED BY <1>1, <1>2, <1>3, <1>4, <1>5

\* A press posts its next attempt.
LEMMA PostTies ==
    ASSUME FormInv, NEW s \in Submission, Submit(s) \/ Retry(s)
    PROVE  Ties'
  <1>. DEFINE a == Attempt(s)
  <1>. USE DEF FormInv, Ties
  <1>1. a \in Request /\ a[1] = s
    BY AttemptIsRequest
  <1>2. /\ form[s] \in {"filling", "retrying"}
        /\ form' = [form EXCEPT ![s] = "pending"]
        /\ UNCHANGED <<failures, shown>>
    BY DEF Submit, Retry, Become
  <1>3. PICK b \in Bodies(s) :
          /\ body' = [body EXCEPT ![a] = b]
          /\ \A r \in Request \ {a} : pc'[r] = pc[r]
          /\ verdict' = verdict \/ verdict' = [verdict EXCEPT ![a] = Refused(400)]
          /\ ledger' = ledger
    BY <1>1 DEF Submit, Retry, Post, BadGateway, Deliver, Goto, Decide, books,
                IInv, Shape, TypeOK
  <1>. HIDE DEF a
  <1>4. FormTypeOK'
    BY <1>2 DEF FormTypeOK, Form
  <1>5. ASSUME NEW q \in Submission PROVE InTurn(q)'
    <2>1. /\ \A n \in failures[q] + 2 .. Retries + 1 : <<q, n>> \in Request \ {a}
          /\ q # s => Attempt(q) \in Request \ {a}
      BY <1>1, AttemptIsRequest, AttemptsAreRequests, AttemptAssumption
      DEF a, FormTypeOK, Attempt
    <2>2. Attempt(q)' = Attempt(q)
      BY <1>2 DEF Attempt
    <2>3. form'[q] = IF q = s THEN "pending" ELSE form[q]
      BY <1>2 DEF FormTypeOK
    <2> QED BY <1>2, <1>3, <2>1, <2>2, <2>3 DEF InTurn
  <1>6. BodiesFit'
    <2>1. ASSUME NEW r \in Request \ {a}
          PROVE  body'[r] = body[r] /\ verdict'[r] = verdict[r]
      BY <1>3 DEF IInv, Shape, TypeOK
    <2>2. body'[a] \in Bodies(a[1])
      BY <1>1, <1>3 DEF IInv, Shape, TypeOK
    <2>3. verdict'[a].status # 402
      <3>1. verdict[a] = Undecided
        <4>1. pc[a] = "idle"
          BY <1>2 DEF a, InTurn
        <4> QED BY <1>1, <4>1 DEF IInv, Accounts, Open
      <3> QED BY <1>1, <1>3, <3>1, StatusTells DEF IInv, Shape, TypeOK
    <2>4. \A r \in Request : Bodies(r[1])' = Bodies(r[1])
      BY DEF Bodies, KeyOf
    <2> QED BY <2>1, <2>2, <2>3, <2>4 DEF BodiesFit, Consuming
  <1>7. RowsFit' /\ ShownFits'
    BY <1>2, <1>3 DEF RowsFit, ShownFits, ChargesOf, FormTypeOK
  <1> QED BY <1>4, <1>5, <1>6, <1>7

\* What a 201 to an attempt names is a row of its press.
LEMMA AnswerIsOwn ==
    ASSUME FormInv, NEW r \in Request, verdict[r].status = 201
    PROVE  verdict[r].row \in ChargesOf(r[1]) /\ verdict[r].row \in Row
  <1>. DEFINE row == verdict[r].row
  <1>. USE DEF FormInv, IInv, Accounts
  <1>1. /\ row \in ledger
        /\ \/ row.origin = r
           \/ Consuming(r) /\ row.key = body[r].key /\ row.key # NoKey
    BY DEF AnswersMatchBooks, TrueAnswer
  <1>2. row \in Row /\ row.origin \in Request
    BY <1>1 DEF Shape, TypeOK, Row
  <1>3. CASE Consuming(r) /\ row.key = body[r].key /\ row.key # NoKey
    <2>1. body[r] \in Bodies(r[1])
      BY <1>3 DEF Ties, BodiesFit, Consuming, Unsent
    <2>2. r[1] \notin TopUp /\ row.key = r[1]
      BY <1>3, <2>1, BodiesOfPress, AttemptsAreRequests DEF Consuming
    <2>3. row.key = RowKey(row.origin[1])
      BY <1>1 DEF Ties, RowsFit
    <2>4. row.origin[1] = r[1]
      BY <1>3, <2>2, <2>3 DEF RowKey, KeyOf
    <2> QED BY <1>1, <1>2, <2>4 DEF ChargesOf
  <1> QED BY <1>1, <1>2, <1>3 DEF ChargesOf

LEMMA SucceedTies ==
    ASSUME FormInv, NEW s \in Submission, Succeed(s)
    PROVE  Ties'
  <1>. USE DEF FormInv, Ties
  <1>1. /\ form' = [form EXCEPT ![s] = "success"]
        /\ shown' = [shown EXCEPT ![s] = verdict[Attempt(s)].row]
        /\ UNCHANGED <<vars, failures>>
        /\ verdict[Attempt(s)].status = 201
    BY DEF Succeed, Become
  <1>2. verdict[Attempt(s)].row \in ChargesOf(s) /\ verdict[Attempt(s)].row \in Row
    BY <1>1, AnswerIsOwn, AttemptIsRequest
  <1>3. FormTypeOK'
    BY <1>1, <1>2 DEF FormTypeOK, Form, Settled
  <1>4. ASSUME NEW q \in Submission PROVE InTurn(q)'
    BY <1>1 DEF InTurn, Attempt, vars, FormTypeOK
  <1>5. BodiesFit' /\ RowsFit'
    BY <1>1 DEF BodiesFit, RowsFit, Consuming, vars
  <1>6. ShownFits'
    BY <1>1, <1>2 DEF ShownFits, ChargesOf, vars, FormTypeOK
  <1> QED BY <1>3, <1>4, <1>5, <1>6

\* A denial or a failure: the form learns that it is not a success.
LEMMA UnsuccessfulTies ==
    ASSUME FormInv, NEW s \in Submission,
           TakeDenial(s) \/ HearFailure(s) \/ LoseConnection(s)
    PROVE  Ties'
  <1>. USE DEF FormInv, Ties
  <1>1. /\ UNCHANGED <<pc, body, verdict, ledger, shown>>
        /\ form[s] = "pending"
        /\ \/ Become(s, "denied") /\ UNCHANGED failures
           \/ AfterFailure(s)
    BY DEF TakeDenial, HearFailure, LoseConnection, vars, books
  <1>2. PICK label \in {"denied", "failed", "retrying"} :
          form' = [form EXCEPT ![s] = label]
    BY <1>1 DEF AfterFailure, Become
  <1>3. \/ UNCHANGED failures /\ form'[s] # "retrying"
        \/ /\ failures[s] < MaxRetries(s)
           /\ failures' = [failures EXCEPT ![s] = @ + 1]
    BY <1>1 DEF AfterFailure, Become, FormTypeOK
  <1>4. MaxRetries(s) \in 0 .. Retries
    BY AttemptAssumption DEF MaxRetries
  <1>5. FormTypeOK'
    <2>1. form' \in [Submission -> Form]
      BY <1>2 DEF FormTypeOK, Form, Settled
    <2>2. failures' \in [Submission -> 0 .. Retries]
      BY <1>3, <1>4, AttemptAssumption DEF FormTypeOK
    <2> QED BY <1>1, <2>1, <2>2 DEF FormTypeOK
  <1>6. ASSUME NEW q \in Submission PROVE InTurn(q)'
    <2>1. CASE q # s
      BY <1>1, <1>2, <1>3, <2>1 DEF InTurn, Attempt, FormTypeOK, MaxRetries
    <2>2. CASE q = s /\ UNCHANGED failures /\ form'[s] # "retrying"
      BY <1>1, <1>2, <2>2 DEF InTurn, Attempt, FormTypeOK, MaxRetries
    <2>3. CASE q = s /\ failures[s] < MaxRetries(s)
               /\ failures' = [failures EXCEPT ![s] = @ + 1]
      <3>1. /\ failures'[s] = failures[s] + 1
            /\ failures[s] \in Nat
            /\ failures[s] + 2 \in failures[s] + 2 .. Retries + 1
            /\ form'[s] # "filling"
        BY <1>2, <1>4, <2>3, AttemptAssumption DEF FormTypeOK
      <3>2. pc'[<<s, failures'[s] + 1>>] = "idle"
        BY <1>1, <3>1 DEF InTurn
      <3>3. \A n \in failures'[s] + 2 .. Retries + 1 : pc'[<<s, n>>] = "idle"
        BY <1>1, <3>1, AttemptAssumption DEF InTurn
      <3>4. failures'[s] <= MaxRetries(s)
        BY <1>4, <2>3, <3>1, AttemptAssumption
      <3> QED BY <2>3, <3>1, <3>2, <3>3, <3>4 DEF InTurn, Attempt, MaxRetries
    <2> QED BY <1>3, <2>1, <2>2, <2>3
  <1>7. BodiesFit' /\ RowsFit'
    BY <1>1 DEF BodiesFit, RowsFit, Consuming
  <1>8. ShownFits'
    BY <1>1, <1>2 DEF ShownFits, ChargesOf, FormTypeOK
  <1> QED BY <1>5, <1>6, <1>7, <1>8

LEMMA FormStep == FormInv /\ [FormNext]_allVars => FormInv'
  <1>. SUFFICES ASSUME FormInv, [FormNext]_allVars PROVE FormInv'
    OBVIOUS
  <1>. USE DEF FormInv
  <1>1. CASE Backend /\ UNCHANGED client
    BY <1>1, ServiceSteps, BackendTies DEF Next
  <1>2. ASSUME NEW s \in Submission, Submit(s) \/ Retry(s)
        PROVE  FormInv'
    <2>1. Arrive(Attempt(s)) /\ Attempt(s) \in Request
      BY <1>2, PostArrives, AttemptIsRequest DEF Submit, Retry, Ties
    <2> QED BY <1>2, <2>1, ServiceSteps, PostTies DEF Next
  <1>3. ASSUME NEW s \in Submission, Hear(s)
        PROVE  FormInv'
    <2>1. UNCHANGED vars
      BY <1>3 DEF Hear, Succeed, TakeDenial, HearFailure
    <2> QED BY <1>3, <2>1, ServiceSteps, SucceedTies, UnsuccessfulTies DEF Hear
  <1>4. ASSUME NEW s \in Submission, LoseConnection(s)
        PROVE  FormInv'
    <2>1. IInv'
      BY <1>4, HangUp, AttemptIsRequest
      DEF LoseConnection, Ties, server, books, draft
    <2> QED BY <1>4, <2>1, UnsuccessfulTies
  <1>5. CASE UNCHANGED allVars
    <2>1. UNCHANGED vars /\ UNCHANGED client
      BY <1>5 DEF allVars
    <2>2. Ties'
      BY <2>1 DEF Ties, FormTypeOK, InTurn, Attempt, MaxRetries, BodiesFit, Bodies,
                  Consuming, RowsFit, RowKey, KeyOf, ShownFits, ChargesOf, client, vars
    <2> QED BY <2>1, <2>2, ServiceSteps
  <1> QED BY <1>1, <1>2, <1>3, <1>4, <1>5 DEF FormNext

-----------------------------------------------------------------------------
(* The theorems.                                                           *)

\* The inductive invariant of forms and back end holds for any number of
\* presses, retries, instances and fields.
LEMMA FormsAndBackend == FormSpec => []FormInv
  <1>1. FormInit => FormInv
    BY TiesInit, ShapeInit, IsolationInit, AccountsInit
    DEF FormInit, FormInv, IInv, Numbered, Init
  <1> QED BY <1>1, FormStep, PTL DEF FormSpec

\* Attempts are sent in turn under the key of their press, and what is shown is
\* a row of the press, for every instance.
THEOREM FormsAreInStep == FormSpec => []Ties
  <1>1. FormInv => Ties
    BY DEF FormInv
  <1> QED BY <1>1, FormsAndBackend, PTL

\* Submission's type invariant holds for every instance.
THEOREM FormTypesHold == FormSpec => []FormTypeOK
  <1>1. FormInv => FormTypeOK
    BY DEF FormInv, Ties
  <1> QED BY <1>1, FormsAndBackend, PTL

\* Two rows of one press are one row: a key is charged once, and a top-up has
\* only one attempt, whose verdict names its row.
LEMMA OneChargePerPress == FormInv => ChargedOncePerSubmission
  <1>. SUFFICES ASSUME FormInv, NEW s \in Submission,
                       NEW x \in ChargesOf(s), NEW y \in ChargesOf(s)
                PROVE  x = y
    BY DEF ChargedOncePerSubmission
  <1>. USE DEF FormInv, IInv, Accounts, Ties
  <1>1. /\ x \in ledger /\ x.origin \in Request /\ x.origin[1] = s
        /\ y \in ledger /\ y.origin \in Request /\ y.origin[1] = s
        /\ x.key = RowKey(s) /\ y.key = RowKey(s)
    BY DEF ChargesOf, RowsFit, Shape, TypeOK, Row
  <1>2. CASE s \notin TopUp
    <2>1. RowKey(s) # NoKey
      BY <1>2, AttemptAssumption, NamesAssumption DEF RowKey, KeyOf
    <2> QED BY <1>1, <2>1 DEF ChargedOncePerKey
  <1>3. CASE s \in TopUp
    <2>1. ASSUME NEW row \in ledger, row.origin \in Request, row.origin[1] = s
          PROVE  row.origin = <<s, 1>> /\ verdict[row.origin] = Created(row)
      <3>1. verdict[row.origin] = Created(row)
        BY <2>1 DEF AnswersMatchBooks
      <3>2. pc[row.origin] # "idle"
        BY <2>1, <3>1, StatusTells DEF Open
      <3>3. failures[s] = 0
        BY <1>3 DEF InTurn, MaxRetries, FormTypeOK
      <3>4. \A n \in 2 .. Retries + 1 : pc[<<s, n>>] = "idle"
        BY <3>3 DEF InTurn
      <3> QED BY <2>1, <3>1, <3>2, <3>4, AttemptsAreRequests, AttemptAssumption
    <2> QED BY <1>1, <2>1, StatusTells
  <1> QED BY <1>2, <1>3

\* docs/adr/0002, from the click to the books: however many attempts a press
\* takes, with answers lost and retries running beside handlers that were
\* given up, it charges, or credits, at most once.
THEOREM PressesChargeOnce == FormSpec => []ChargedOncePerSubmission
  BY OneChargePerPress, FormsAndBackend, PTL

\* A form that reports success shows the one charge of its press.
THEOREM SuccessIsTheCharge == FormSpec => []SuccessShowsTheCharge
  <1>1. FormInv => SuccessShowsTheCharge
    BY OneChargePerPress
    DEF FormInv, Ties, ShownFits, SuccessShowsTheCharge, ChargedOncePerSubmission
  <1> QED BY <1>1, FormsAndBackend, PTL

-----------------------------------------------------------------------------
(* The refinement of Purchase.                                             *)

\* A press has as many effects as rows: none or one.
LEMMA EffectsCount ==
    /\ Cardinality({}) = 0
    /\ \A row : Cardinality({row}) = 1
  BY FS_EmptySet, FS_Singleton

Phases == [s \in Submission |->
             IF form[s] = "retrying" THEN "pending" ELSE form[s]]
Effects == [s \in Submission |-> Cardinality(ChargesOf(s))]

LEMMA FormsStartUnbought == FormInit => P!Init
  <1>. SUFFICES ASSUME FormInit PROVE P!Init
    OBVIOUS
  <1>1. \A s \in Submission : ChargesOf(s) = {}
    BY DEF FormInit, Init, ChargesOf
  <1> QED BY <1>1, EffectsCount DEF FormInit, ClientInit, P!Init

\* A commit is the moment a press takes effect.
LEMMA CommitTakesEffect ==
    ASSUME FormInv, FormInv', NEW r \in Request, Commit(r), UNCHANGED client
    PROVE  P!TakeEffect(r[1])
  <1>. DEFINE s == r[1]
  <1>1. s \in Submission /\ r[2] \in 1 .. Retries + 1 /\ r = <<s, r[2]>>
    BY AttemptsAreRequests
  <1>. HIDE DEF s
  <1>2. ledger' = ledger \cup {Entry(r)} /\ Entry(r).origin = r
    BY CommitAppends, CommittedRowFits DEF FormInv, IInv
  <1>3. form[s] # "filling"
    <2>1. SUFFICES ASSUME form[s] = "filling" PROVE pc[r] = "idle"
      BY DEF Commit
    <2>2. failures[s] = 0 /\ pc[Attempt(s)] = "idle"
      BY <1>1, <2>1 DEF FormInv, Ties, InTurn
    <2>3. \A n \in 2 .. Retries + 1 : pc[<<s, n>>] = "idle"
      BY <1>1, <2>2 DEF FormInv, Ties, InTurn
    <2> QED BY <1>1, <2>2, <2>3, AttemptAssumption DEF Attempt
  <1>4. ChargesOf(s) = {}
    <2>1. Entry(r) \notin ledger
      <3>1. verdict[r] = Undecided
        BY DEF FormInv, IInv, Accounts, Open, Commit, Writing
      <3> QED BY <1>2, <3>1, NoRowYet DEF FormInv, IInv
    <2>2. ASSUME NEW x \in ChargesOf(s) PROVE FALSE
      <3>1. x \in ChargesOf(s)' /\ Entry(r) \in ChargesOf(s)'
        BY <1>1, <1>2 DEF ChargesOf, s
      <3>2. ChargedOncePerSubmission'
        BY OneChargePerPress, PTL
      <3>3. x = Entry(r)
        BY <1>1, <3>1, <3>2 DEF ChargedOncePerSubmission
      <3> QED BY <2>1, <3>3 DEF ChargesOf
    <2> QED BY <2>2
  <1>5. ChargesOf(s)' = {Entry(r)}
    BY <1>1, <1>2, <1>4 DEF ChargesOf, s
  <1>6. \A q \in Submission \ {s} : ChargesOf(q)' = ChargesOf(q)
    BY <1>2 DEF ChargesOf, s
  <1>7. Effects' = [Effects EXCEPT ![s] = 1]
    BY <1>1, <1>5, <1>6, EffectsCount DEF Effects
  <1>8. Phases' = Phases /\ Phases[s] # "filling" /\ Effects[s] = 0
    BY <1>1, <1>3, <1>4, EffectsCount DEF Phases, Effects, client
  <1> QED BY <1>7, <1>8 DEF P!TakeEffect, Phases, Effects, s

\* A step of the back end is a press taking effect, or nothing.
LEMMA BackendRefines ==
    ASSUME FormInv, FormInv', Backend, UNCHANGED client
    PROVE  P!Next \/ UNCHANGED P!vars
  <1>1. CASE UNCHANGED ledger
    BY <1>1 DEF P!vars, ChargesOf, client
  <1>2. ASSUME NEW r \in Request, Commit(r) PROVE P!Next
    BY <1>2, CommitTakesEffect, AttemptsAreRequests DEF P!Next
  <1> QED BY <1>1, <1>2, OnlyCommitsAppend DEF Next

\* The form's steps are those of the press, a retry excepted, which is silent.
LEMMA FormStepRefines ==
    ASSUME FormInv, NEW s \in Submission, NEW from, NEW to,
           form[s] = from, form' = [form EXCEPT ![s] = to],
           UNCHANGED ledger,
           from # "retrying", to # "retrying"
    PROVE  P!Become(s, from, to) /\ UNCHANGED Effects
  <1>1. form \in [Submission -> Form]
    BY DEF FormInv, Ties, FormTypeOK
  <1>2. Phases' = [Phases EXCEPT ![s] = to] /\ Phases[s] = from
    BY <1>1 DEF Phases
  <1>3. UNCHANGED Effects
    BY DEF Effects, ChargesOf
  <1> QED BY <1>2, <1>3 DEF P!Become, Phases

LEMMA PressRefines ==
    ASSUME FormInv, FormInv', NEW s \in Submission,
           Submit(s) \/ Retry(s) \/ Hear(s) \/ LoseConnection(s)
    PROVE  P!Next \/ UNCHANGED P!vars
  <1>. USE DEF Effects, Become
  <1>1. UNCHANGED ledger
    BY DEF Submit, Retry, Post, BadGateway, Deliver, Hear, Succeed, TakeDenial,
           HearFailure, LoseConnection, books, vars
  <1>2. CASE Submit(s)
    BY <1>1, <1>2, FormStepRefines DEF Submit, P!Start, P!Next
  <1>3. CASE Retry(s)
    <2>1. form[s] = "retrying" /\ form' = [form EXCEPT ![s] = "pending"]
      BY <1>3 DEF Retry
    <2>2. form \in [Submission -> Form]
      BY DEF FormInv, Ties, FormTypeOK
    <2>3. UNCHANGED Phases
      BY <2>1, <2>2 DEF Phases
    <2> QED BY <1>1, <2>3 DEF P!vars, Phases, ChargesOf
  <1>4. CASE Succeed(s)
    <2>1. P!Become(s, "pending", "success") /\ UNCHANGED Effects
      <3>1. form[s] = "pending" /\ form' = [form EXCEPT ![s] = "success"]
        BY <1>4 DEF Succeed
      <3> QED BY <1>1, <3>1, FormStepRefines
    <2>2. Effects[s] = 1
      <3>1. verdict[Attempt(s)].row \in ChargesOf(s)
        BY <1>4, AnswerIsOwn, AttemptIsRequest DEF Succeed, FormInv, Ties
      <3>2. ChargesOf(s) = {verdict[Attempt(s)].row}
        BY <3>1, OneChargePerPress DEF ChargedOncePerSubmission
      <3> QED BY <3>2, EffectsCount
    <2> QED BY <2>1, <2>2 DEF P!Report, P!Next
  <1>5. CASE TakeDenial(s)
    <2>1. P!Become(s, "pending", "denied") /\ UNCHANGED Effects
      <3>1. form[s] = "pending" /\ form' = [form EXCEPT ![s] = "denied"]
        BY <1>5 DEF TakeDenial
      <3> QED BY <1>1, <3>1, FormStepRefines
    <2>2. s \notin TopUp
      <3>1. Attempt(s) \in Request /\ Attempt(s)[1] = s
        BY AttemptIsRequest DEF FormInv, Ties
      <3>2. body[Attempt(s)].op = "consume"
        BY <1>5, <3>1 DEF TakeDenial, FormInv, Ties, BodiesFit, Consuming
      <3>3. body[Attempt(s)] \in Bodies(s)
        BY <3>1, <3>2 DEF FormInv, Ties, BodiesFit, Unsent
      <3> QED BY <3>2, <3>3, BodiesOfPress
    <2> QED BY <2>1, <2>2 DEF P!Report, P!Next
  <1>6. CASE HearFailure(s) \/ LoseConnection(s)
    <2>1. form[s] = "pending" /\ AfterFailure(s)
      BY <1>6 DEF HearFailure, LoseConnection
    <2>2. CASE form' = [form EXCEPT ![s] = "failed"]
      BY <1>1, <2>1, <2>2, FormStepRefines DEF P!Report, P!Next
    <2>3. CASE form' = [form EXCEPT ![s] = "retrying"]
      <3>1. form \in [Submission -> Form]
        BY DEF FormInv, Ties, FormTypeOK
      <3>2. UNCHANGED Phases
        BY <2>1, <2>3, <3>1 DEF Phases
      <3> QED BY <1>1, <3>2 DEF P!vars, Phases, ChargesOf
    <2> QED BY <2>1, <2>2, <2>3 DEF AfterFailure
  <1> QED BY <1>2, <1>3, <1>4, <1>5, <1>6 DEF Hear

LEMMA FormStepsArePurchases ==
    FormInv /\ FormInv' /\ [FormNext]_allVars => [P!Next]_(P!vars)
  <1>. SUFFICES ASSUME FormInv, FormInv', [FormNext]_allVars
                PROVE  P!Next \/ UNCHANGED P!vars
    OBVIOUS
  <1>1. CASE UNCHANGED allVars
    BY <1>1 DEF allVars, vars, client, P!vars, ChargesOf
  <1> QED BY <1>1, BackendRefines, PressRefines DEF FormNext

\* The forms over the back end implement the abstract purchase: a press takes
\* effect once or never, success is reported only after the effect, a top-up
\* is never denied, and no report is retracted.
THEOREM PressesKeepPurchasePromise == FormSpec => PurchasePromise
  <1>1. FormSpec => P!Spec
    BY FormsStartUnbought, FormStepsArePurchases, FormsAndBackend, PTL DEF FormSpec, P!Spec
  <1> QED BY <1>1 DEF PurchasePromise
=============================================================================
