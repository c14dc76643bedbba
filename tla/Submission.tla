----------------------------- MODULE Submission -----------------------------
(***************************************************************************)
(* The forms of the dashboard against the billing back end.                *)
(*                                                                         *)
(* One press of "Consume" is a submission.  It mints one idempotency key   *)
(* and posts; while the answer is neither a 201 nor a 402, and fewer than  *)
(* Retries attempts have failed, React Query posts again under the same    *)
(* key.  Attempt n of submission s is the back end's request <<s, n>>.     *)
(* A failed attempt may only have lost its answer: its handler can still   *)
(* run, or have charged, when the next attempt arrives.                    *)
(*                                                                         *)
(* Several forms may be open (rows of the dashboard, tabs, operators), so  *)
(* submissions run side by side.  The inputs of the form stay enabled      *)
(* while an attempt is pending, and whether a retry posts the old or the   *)
(* edited fields is up to the library: an attempt may carry any fields.    *)
(* A press of "Credit wallet" has no key, and is posted once.              *)
(***************************************************************************)
EXTENDS Billing

CONSTANTS
    Submission,   \* presses of a button, one of "Consume" the key it mints
    TopUp,        \* the presses of "Credit wallet" among them
    Retries,      \* retry: failureCount < 2
    Fields,       \* what a consume form may hold: bodies, key left open
    Credits       \* what a credit form may hold

ASSUME AttemptAssumption == /\ Retries \in Nat
                            /\ Request = Submission \X (1 .. Retries + 1)
                            /\ TopUp \subseteq Submission
                            /\ Submission \ TopUp \subseteq Key

\* What the forms post is among the requests that clients send.
ASSUME FieldsAssumption ==
    /\ Credits \subseteq CreditBody \cap Body
    /\ Fields \subseteq ConsumeBody
    /\ \A f \in Fields, k \in Key : [f EXCEPT !.key = k] \in Body

VARIABLES
    form,      \* form[s]: where submission s stands
    failures,  \* failures[s]: React Query's failureCount
    shown      \* shown[s]: the ledger entry the form reports as charged

client == <<form, failures, shown>>
allVars == <<vars, client>>

Settled == {"success", "denied", "failed"}
Form    == {"filling", "pending", "retrying"} \cup Settled
NoRow   == [id |-> 0]

-----------------------------------------------------------------------------
Attempt(s) == <<s, failures[s] + 1>>

\* crypto.randomUUID() in onSubmit, held in a ref across the retries.
KeyPerAttempt(s) == Attempt(s)
KeyOf(s) == s

Bodies(s) == IF s \in TopUp THEN Credits
                            ELSE {[f EXCEPT !.key = KeyOf(s)] : f \in Fields}

\* api.ts consume and creditWallet: one POST, through nginx.
Post(s) == \E b \in Bodies(s) :
             \/ BadGateway(Attempt(s), b)
             \/ \E p \in Process : Deliver(Attempt(s), b, p)

Become(s, label) == form' = [form EXCEPT ![s] = label]

\* onSubmit.
Submit(s) ==
    /\ form[s] = "filling"
    /\ Post(s)
    /\ Become(s, "pending")
    /\ UNCHANGED <<failures, shown>>

Retry(s) ==
    /\ form[s] = "retrying"
    /\ Post(s)
    /\ Become(s, "pending")
    /\ UNCHANGED <<failures, shown>>

\* 201.
Succeed(s) ==
    /\ form[s] = "pending"
    /\ Answered(Attempt(s))
    /\ verdict[Attempt(s)].status = 201
    /\ shown' = [shown EXCEPT ![s] = verdict[Attempt(s)].row]
    /\ Become(s, "success")
    /\ UNCHANGED <<vars, failures>>

\* 402: InsufficientFundsError is not retried.
TakeDenial(s) ==
    /\ form[s] = "pending"
    /\ Answered(Attempt(s))
    /\ verdict[Attempt(s)].status = 402
    /\ Become(s, "denied")
    /\ UNCHANGED <<vars, failures, shown>>

\* Off by one; and top-ups retried like consumptions.
OneRetryMore(s)  == IF s \in TopUp THEN 0 ELSE Retries + 1
RetriesForAll(s) == Retries

\* The retry predicate of ConsumeForm; CreditForm has the default, none.
MaxRetries(s) == IF s \in TopUp THEN 0 ELSE Retries

\* What React Query makes of a failed attempt.
AfterFailure(s) ==
    \/ /\ failures[s] < MaxRetries(s)
       /\ failures' = [failures EXCEPT ![s] = @ + 1]
       /\ Become(s, "retrying")
    \/ /\ failures[s] >= MaxRetries(s)
       /\ Become(s, "failed")
       /\ UNCHANGED failures

\* A predicate on answers only would forget attempts that got none.
HearBadStatus(s) ==
    /\ form[s] = "pending"
    /\ Answered(Attempt(s))
    /\ verdict[Attempt(s)].status \notin {201, 402}
    /\ AfterFailure(s)
    /\ UNCHANGED <<vars, shown>>

\* Any other status, a 502 of nginx, or a broken connection.
HearFailure(s) ==
    /\ form[s] = "pending"
    /\ pc[Attempt(s)] = "done"
    /\ Answered(Attempt(s)) => verdict[Attempt(s)].status \notin {201, 402}
    /\ AfterFailure(s)
    /\ UNCHANGED <<vars, shown>>

\* The connection breaks under a handler that runs on.
LoseConnection(s) ==
    /\ form[s] = "pending"
    /\ InFlight(Attempt(s))
    /\ gone' = gone \cup {Attempt(s)}
    /\ AfterFailure(s)
    /\ UNCHANGED <<pc, proc, body, quoted, verdict, price, server, books, draft,
                   shown>>

-----------------------------------------------------------------------------
ClientInit == /\ form = [s \in Submission |-> "filling"]
              /\ failures = [s \in Submission |-> 0]
              /\ shown = [s \in Submission |-> NoRow]

Hear(s) == Succeed(s) \/ TakeDenial(s) \/ HearFailure(s)

FormNext == \/ Backend /\ UNCHANGED client
            \/ \E s \in Submission : \/ Submit(s) \/ Retry(s)
                                     \/ Hear(s) \/ LoseConnection(s)

FormInit == Init /\ ClientInit

FormSpec == FormInit /\ [][FormNext]_allVars

\* Besides the handlers, the browser goes on: it retries and hears answers.
\* No operator has to press the button.
FairFormSpec == /\ FormSpec
                /\ \A r \in Request : WF_allVars(Serve(r) /\ UNCHANGED client)
                /\ \A s \in Submission : WF_allVars(Retry(s)) /\ WF_allVars(Hear(s))
-----------------------------------------------------------------------------
(* Properties.                                                             *)

\* The charges that attempts of s made, whatever key they carry.
ChargesOf(s) == {row \in ledger : row.origin[1] = s}

FormTypeOK ==
    /\ form \in [Submission -> Form]
    /\ failures \in [Submission -> 0 .. Retries]
    /\ shown \in [Submission -> Row \cup {NoRow}]

\* docs/adr/0002 "A retried submission charges exactly once": all the attempts
\* of a press together charge, or credit, at most once, though answers are lost
\* and a retry runs beside the handler it gave up on.
ChargedOncePerSubmission ==
    \A s \in Submission : \A x, y \in ChargesOf(s) : x = y

\* "Charged ... - consumption recorded" and "Credited ..." are true: the entry
\* shown is in the ledger, and it is this press's one row, not another's.
SuccessShowsTheCharge ==
    \A s \in Submission : form[s] = "success" => ChargesOf(s) = {shown[s]}

\* "Consuming..." ends: each submission is reported charged, denied or failed,
\* through crashes, lost answers and retries.
SubmissionsSettle ==
    \A s \in Submission : (form[s] # "filling") ~> (form[s] \in Settled)

\* The abstract purchase of module Purchase, press by press: "retrying" is one
\* more way of being pending, and a press has as many effects as rows.
P == INSTANCE Purchase
       WITH Press   <- Submission,
            phase   <- [s \in Submission |->
                          IF form[s] = "retrying" THEN "pending" ELSE form[s]],
            effects <- [s \in Submission |-> Cardinality(ChargesOf(s))]

\* What the operator may rely on: a press takes effect once or never, however
\* many attempts it took; a success is reported only after its effect; and
\* nothing else that is reported is retracted.
PurchasePromise == P!Spec
=============================================================================
