----------------------------- MODULE MCBilling ------------------------------
(***************************************************************************)
(* Instances of Billing for TLC.  One product whose price moves between 1  *)
(* and 2; wallets that afford one or two purchases, so that funds run out  *)
(* inside every race.                                                      *)
(***************************************************************************)
EXTENDS BillingAudit, BillingInvariant, TLC

CONSTANTS c1, c2, x1, k1, k2

Consume(c, x, q, k) ==
    [op |-> "consume", customer |-> c, product |-> x, quantity |-> q, key |-> k]
Credit(c, a) == [op |-> "credit", customer |-> c, amount |-> a]
List == [op |-> "list"]

\* Keyed and unkeyed consumes of one wallet, with a top-up.
RaceBodies == {Consume(c1, x1, 1, k1), Consume(c1, x1, 1, NoKey), Credit(c1, 1)}

\* Every operation on two wallets under one key, with purchases of one and
\* two units, and every way a request can be refused at once or miss its row.
AllBodies ==
    RaceBodies \cup
    {Consume(c1, x1, 2, k1), Consume(c2, x1, 1, k1), Credit(c2, 1), List,
     Consume(c1, x1, -1, NoKey), Consume(NoCustomer, x1, 1, k1),
     Consume(c1, NoProduct, 1, NoKey), Credit(NoCustomer, 1), Credit(c1, 0)}

OpeningTwo == [c \in Customer |-> 2]
OpeningOne == [c \in Customer |-> 1]

\* Bound: either two requests of any bodies and a price that moves, or three
\* that race on one wallet at the lower price.
Sent == {r \in Request : body[r] # Unsent}
PairOrRace ==
    \/ Cardinality(Sent) <= 2
    \/ /\ \A r \in Sent : body[r] \in RaceBodies /\ quoted[r] <= 1
       /\ \A x \in Product : price[x] = 1

BoundedSpec == Init /\ [][Next /\ PairOrRace']_vars

Symmetry == Permutations(Request) \cup Permutations(Process)
=============================================================================
