------------------------- MODULE DeploymentInvariant -------------------------
(***************************************************************************)
(* The inductive invariant of Deployment: what the one-shot has reached at *)
(* each of its stages, what therefore stays true of the database once a    *)
(* backend serves, and how often the clients can have been charged.        *)
(***************************************************************************)
EXTENDS Deployment

(* The stages of a run of `migrate`, by what they have behind them. *)
BeforeDelete == {"migrating", "products", "customers", "deleting"}
AfterDelete  == {"creating", "exiting", "completed"}
AfterMigrate == {"products", "customers", "deleting"} \cup AfterDelete
AfterSeed    == {"deleting"} \cup AfterDelete

(* The migrations come before the products, and nothing reverts one. *)
MigrationsFirst == migrate \in AfterMigrate => applied = Migrations

(* The customers are upserted in order, and none is ever removed. *)
CustomersInOrder ==
    /\ migrate = "customers" =>
           /\ seeded < Len(Customers)
           /\ \A i \in 1..seeded : Customers[i] \in DOMAIN balance
    /\ migrate \in AfterSeed => DOMAIN balance = Seeded

(* The fabricated rows are created from none. *)
CreatedFromNone == migrate = "creating" => fabricated = 0

(* Every deletion of the heavy history belongs to a `docker compose up` of *)
(* its own: this many can have happened so far.                            *)
Wipes == ups - (IF migrate \in BeforeDelete THEN 1 ELSE 0)

WipedBefore ==
    /\ migrate # "absent" => ups > 0
    /\ migrate \in AfterDelete \/ Serving => Wipes > 0

(* An event is charged again only after a deletion, and the first of these *)
(* comes before any charge.                                                *)
ChargedByWipes ==
    \A e \in Events :
        \/ charged[e] = 0
        \/ charged[e] <= Wipes - (IF e \in rows THEN 0 ELSE 1)

(* Whatever failed, stopped or was run again: the containers wait for what *)
(* they need, the seed converges, and only heavy consumptions are charged  *)
(* more than once, at most once per `docker compose up`.                   *)
DeployInv ==
    /\ TypeOK
    /\ MigrationsFirst
    /\ CustomersInOrder
    /\ CreatedFromNone
    /\ WipedBefore
    /\ ChargedByWipes
    /\ ServersMeetSchema
    /\ SeedConverges
    /\ SeedSparesOthers

=============================================================================
