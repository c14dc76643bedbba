------------------------------ MODULE Purchase ------------------------------
(***************************************************************************)
(* What a press of "Consume" or "Credit wallet" means to the operator,     *)
(* with no attempts, no keys and no handlers: the press takes effect on    *)
(* the books at one moment, or never, and is reported once.                *)
(*                                                                         *)
(* A success is reported after the effect.  Nothing follows from the two   *)
(* other reports: the effect may have come before, and the answer been     *)
(* lost, or it may still come, from a handler nobody listens to any more.  *)
(* ConsumeForm.tsx says as much of a failure; that a denial ("Insufficient *)
(* funds") is no better is run billing_replay_402.                         *)
(***************************************************************************)
EXTENDS Naturals

CONSTANTS
    Press,     \* presses of a button
    TopUp      \* those of "Credit wallet", which no lack of funds denies

VARIABLES
    phase,     \* phase[s]: what the form says of press s
    effects    \* effects[s]: how often s has moved a balance

vars == <<phase, effects>>

Init == /\ phase = [s \in Press |-> "filling"]
        /\ effects = [s \in Press |-> 0]

Become(s, from, to) == phase[s] = from /\ phase' = [phase EXCEPT ![s] = to]

Start(s) == Become(s, "filling", "pending") /\ UNCHANGED effects

TakeEffect(s) ==
    /\ phase[s] # "filling"
    /\ effects[s] = 0
    /\ effects' = [effects EXCEPT ![s] = 1]
    /\ UNCHANGED phase

Report(s) ==
    /\ \/ effects[s] = 1 /\ Become(s, "pending", "success")
       \/ s \notin TopUp /\ Become(s, "pending", "denied")
       \/ Become(s, "pending", "failed")
    /\ UNCHANGED effects

Next == \E s \in Press : Start(s) \/ TakeEffect(s) \/ Report(s)

Spec == Init /\ [][Next]_vars
=============================================================================
