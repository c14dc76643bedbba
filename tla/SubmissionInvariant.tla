------------------------ MODULE SubmissionInvariant -------------------------
(***************************************************************************)
(* Why the forms are correct: the back end's inductive invariant, and what *)
(* ties the two sides together.  Which attempts have been sent; that they  *)
(* carry their press's key, and so do the rows they leave; and that what a *)
(* form shows is such a row.                                               *)
(***************************************************************************)
EXTENDS Submission, BillingInvariant

\* The key that the rows of press s carry.
RowKey(s) == IF s \in TopUp THEN NoKey ELSE KeyOf(s)

\* Attempts are sent in turn, each after the failure of the one before.
InTurn(s) ==
    /\ form[s] = "filling" => failures[s] = 0
    /\ form[s] \in {"filling", "retrying"} => pc[Attempt(s)] = "idle"
    /\ \A n \in failures[s] + 2 .. Retries + 1 : pc[<<s, n>>] = "idle"
    /\ failures[s] <= MaxRetries(s)

\* What an attempt posts and what it leaves in the ledger are its press's own;
\* and only a consumption is ever denied.
BodiesFit == \A r \in Request : /\ body[r] # Unsent => body[r] \in Bodies(r[1])
                                /\ verdict[r].status = 402 => Consuming(r)
RowsFit   == \A row \in ledger : row.key = RowKey(row.origin[1])

\* The form shows a charge of its own press.
ShownFits == \A s \in Submission : form[s] = "success" => shown[s] \in ChargesOf(s)

\* A form and the back end agree: the attempts of a press are sent in turn and
\* under its key (ConsumeForm's useMutation), and what is shown is its own row.
Ties == /\ FormTypeOK
        /\ \A s \in Submission : InTurn(s)
        /\ BodiesFit
        /\ RowsFit
        /\ ShownFits

\* The inductive invariant of the forms and the back end together.
FormInv == IInv /\ Ties
=============================================================================
