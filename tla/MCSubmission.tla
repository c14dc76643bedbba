---------------------------- MODULE MCSubmission ----------------------------
(***************************************************************************)
(* Instances of Submission for TLC: one or two presses.                    *)
(***************************************************************************)
EXTENDS SubmissionInvariant, TLC

CONSTANTS c1, x1, x2

Purchase(x, q) == [op |-> "consume", customer |-> c1, product |-> x,
                   quantity |-> q, key |-> NoKey]

\* The operator may change the product between attempts, or nothing at all.
EditedFields == {Purchase(x1, 1), Purchase(x2, 1)}
PlainFields  == {Purchase(x1, 1)}

OneCredit == {[op |-> "credit", customer |-> c1, amount |-> 1]}

Posted == Credits \cup {[f EXCEPT !.key = k] : f \in Fields, k \in Key}

Attempts == Submission \X (1 .. Retries + 1)

OpeningOne == [c \in Customer |-> 1]
OpeningTwo == [c \in Customer |-> 2]

\* The products have one price, and the fields name each of them.
Symmetry == Permutations(Submission \ TopUp) \cup Permutations(Process)
              \cup Permutations(Product)
=============================================================================
