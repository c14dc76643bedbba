----------------------------- MODULE Deployment -----------------------------
(***************************************************************************)
(* `docker compose up` over a volume that outlives the containers: the     *)
(* one-shot `migrate` service applies the migrations and runs the seed,    *)
(* the backends start once it has completed, and the whole is stopped,     *)
(* crashed and brought up again while clients post events, some of them    *)
(* retries of events already recorded.                                     *)
(*                                                                         *)
(* An event is posted with its own idempotency key (a top-up has none and  *)
(* is posted once); its cost is one unit.  The row an event leaves is the  *)
(* event itself; the rows the seed fabricates are only counted.            *)
(***************************************************************************)
EXTENDS Integers, Sequences, FiniteSets

CONSTANTS
    Backends,      \* the serving containers
    Migrations,    \* how many migrations there are
    Customers,     \* CUSTOMERS, the seeded customers in their order
    Heavy,         \* HEAVY_CUSTOMER_ID
    Opening,       \* each customer's balance in the seed
    Fabricated,    \* HEAVY_EVENT_COUNT
    Consumptions,  \* consumption events that clients post
    TopUps,        \* top-ups that clients post
    Of,            \* the customer of each event
    MaxUps,        \* bound: calls of `docker compose up`
    MaxFailures    \* bound: runs of `migrate` that fail

Events == Consumptions \cup TopUps
Seeded == {Customers[i] : i \in DOMAIN Customers}

ASSUME DeploymentAssumption ==
    /\ Migrations \in Nat \ {0}
    /\ Customers \in Seq(Seeded)
    /\ Heavy \in Seeded
    /\ Opening \in [Seeded -> Nat]
    /\ Fabricated \in Nat
    /\ Of \in [Events -> Seeded]
    /\ Consumptions \cap TopUps = {}
    /\ MaxUps \in Nat
    /\ MaxFailures \in Nat

VARIABLES
    applied,       \* migrations applied to the database file
    balance,       \* balances of the customers that exist
    rows,          \* events with a row in the ledger
    fabricated,    \* fabricated rows of the heavy customer
    charged,       \* how often each event has moved its balance
    migrate,       \* what the one-shot container is doing
    seeded,        \* customers it has upserted so far
    server,        \* the serving containers
    ups, failures

data == <<applied, balance, rows, fabricated, charged>>
containers == <<migrate, seeded, server, ups, failures>>
vars == <<data, containers>>

Steps == {"migrating", "products", "customers", "deleting", "creating", "exiting"}

-----------------------------------------------------------------------------
Init ==
    /\ applied = 0
    /\ balance = <<>>
    /\ rows = {}
    /\ fabricated = 0
    /\ charged = [e \in Events |-> 0]
    /\ migrate = "absent"
    /\ seeded = 0
    /\ server = [b \in Backends |-> "down"]
    /\ ups = 0
    /\ failures = 0

(* The operator runs `docker compose up`: the one-shot runs again unless   *)
(* it is running, and the backends that are down wait for it.              *)
ComposeUp ==
    /\ ups < MaxUps
    /\ ups' = ups + 1
    /\ migrate' = IF migrate \in Steps THEN migrate ELSE "migrating"
    /\ server' = [b \in Backends |->
                     IF server[b] = "down" THEN "waiting" ELSE server[b]]
    /\ UNCHANGED <<data, seeded, failures>>

(* `prisma migrate deploy` applies the pending migrations, in order. *)
Migrate ==
    /\ migrate = "migrating"
    /\ IF applied < Migrations
       THEN applied' = applied + 1 /\ migrate' = migrate
       ELSE applied' = applied /\ migrate' = "products"
    /\ UNCHANGED <<balance, rows, fabricated, charged, seeded, server, ups, failures>>

(* The seed upserts the products, which nothing here depends on. *)
SeedProducts ==
    /\ migrate = "products"
    /\ migrate' = "customers"
    /\ seeded' = 0
    /\ UNCHANGED <<data, server, ups, failures>>

(* It upserts one customer after the other, balance included. *)
SeedCustomer ==
    /\ migrate = "customers"
    /\ seeded < Len(Customers)
    /\ LET c == Customers[seeded + 1]
       IN  balance' = [d \in DOMAIN balance \cup {c} |->
                           IF d = c THEN Opening[c] ELSE balance[d]]
    /\ seeded' = seeded + 1
    /\ migrate' = IF seeded' = Len(Customers) THEN "deleting" ELSE migrate
    /\ UNCHANGED <<applied, rows, fabricated, charged, server, ups, failures>>

(* Mistake: the deletion forgets its filter on the type. *)
NoneOfHeavy == {e \in rows : Of[e] # Heavy}

SparedByDelete == {e \in rows : ~(Of[e] = Heavy /\ e \in Consumptions)}

(* Mistake: fabricated rows accumulate. *)
DeleteNothing ==
    /\ migrate = "deleting"
    /\ migrate' = "creating"
    /\ UNCHANGED <<data, seeded, server, ups, failures>>

(* seedHeavyHistory deletes the heavy customer's CONSUMPTION rows, ... *)
DeleteHeavyHistory ==
    /\ migrate = "deleting"
    /\ rows' = SparedByDelete
    /\ fabricated' = 0
    /\ migrate' = "creating"
    /\ UNCHANGED <<applied, balance, charged, seeded, server, ups, failures>>

(* ... then creates the fabricated ones, all in one statement. *)
CreateHeavyHistory ==
    /\ migrate = "creating"
    /\ fabricated' = fabricated + Fabricated
    /\ migrate' = "exiting"
    /\ UNCHANGED <<applied, balance, rows, charged, seeded, server, ups, failures>>

(* Mistake: without MIGRATE_ONLY the container goes on to serve. *)
ServeInstead ==
    /\ migrate = "exiting"
    /\ migrate' = "serving"
    /\ UNCHANGED <<data, seeded, server, ups, failures>>

(* MIGRATE_ONLY: the container exits with success. *)
ExitMigrate ==
    /\ migrate = "exiting"
    /\ migrate' = "completed"
    /\ UNCHANGED <<data, seeded, server, ups, failures>>

(* The one-shot fails (`set -e`, or the seed's process.exit(1)): it is not *)
(* restarted, and compose gives the waiting backends up.                   *)
FailMigrate ==
    /\ migrate \in Steps
    /\ failures < MaxFailures
    /\ failures' = failures + 1
    /\ migrate' = "failed"
    /\ server' = [b \in Backends |->
                     IF server[b] = "waiting" THEN "down" ELSE server[b]]
    /\ UNCHANGED <<data, seeded, ups>>

(* Mistake: depends_on waits for `migrate` to start only. *)
MigrateBegun == migrate # "absent"

MigrateCompleted == migrate = "completed"

(* A backend starts: depends_on, service_completed_successfully. *)
StartBackend(b) ==
    /\ server[b] = "waiting"
    /\ MigrateCompleted
    /\ server' = [server EXCEPT ![b] = "up"]
    /\ UNCHANGED <<data, migrate, seeded, ups, failures>>

(* A backend stops or dies, and stays down. *)
StopBackend(b) ==
    /\ server[b] = "up"
    /\ server' = [server EXCEPT ![b] = "down"]
    /\ UNCHANGED <<data, migrate, seeded, ups, failures>>

(* `docker compose down`, or the machine goes: the volume is left. *)
StackDown ==
    /\ migrate # "absent"
    /\ migrate' = "absent"
    /\ server' = [b \in Backends |-> "down"]
    /\ UNCHANGED <<data, seeded, ups, failures>>

Serving == \E b \in Backends : server[b] = "up"

(* Mistake: the deduction is unconditional. *)
AnyBalance(e) == charged[e] < MaxUps

Sufficient(e) == balance[Of[e]] > 0

(* A consumption is posted, or posted again: a key with a row is replayed, *)
(* otherwise the balance is deducted and the row written, if it suffices.  *)
PostConsumption(e) ==
    /\ Serving
    /\ e \notin rows
    /\ Sufficient(e)
    /\ balance' = [balance EXCEPT ![Of[e]] = @ - 1]
    /\ rows' = rows \cup {e}
    /\ charged' = [charged EXCEPT ![e] = @ + 1]
    /\ UNCHANGED <<applied, fabricated, containers>>

(* A top-up is posted, once. *)
PostTopUp(e) ==
    /\ Serving
    /\ charged[e] = 0
    /\ balance' = [balance EXCEPT ![Of[e]] = @ + 1]
    /\ rows' = rows \cup {e}
    /\ charged' = [charged EXCEPT ![e] = 1]
    /\ UNCHANGED <<applied, fabricated, containers>>

(* The steps of a `migrate` run that gets through. *)
MigrateStep ==
    \/ Migrate
    \/ SeedProducts
    \/ SeedCustomer
    \/ DeleteHeavyHistory
    \/ CreateHeavyHistory
    \/ ExitMigrate

Next ==
    \/ ComposeUp
    \/ MigrateStep
    \/ FailMigrate
    \/ StackDown
    \/ \E b \in Backends : StartBackend(b) \/ StopBackend(b)
    \/ \E e \in Consumptions : PostConsumption(e)
    \/ \E e \in TopUps : PostTopUp(e)

Spec == Init /\ [][Next]_vars

(* A container that can go on does; operators, failures and clients may    *)
(* do as they like.                                                        *)
FairSpec ==
    /\ Spec
    /\ WF_vars(MigrateStep)
    /\ \A b \in Backends : WF_vars(StartBackend(b))

-----------------------------------------------------------------------------
TypeOK ==
    /\ applied \in 0..Migrations
    /\ DOMAIN balance \subseteq Seeded /\ \A c \in DOMAIN balance : balance[c] \in Nat
    /\ rows \subseteq Events
    /\ fabricated \in Nat
    /\ charged \in [Events -> 0..MaxUps]
    /\ migrate \in Steps \cup {"absent", "completed", "failed"}
    /\ seeded \in 0..Len(Customers)
    /\ server \in [Backends -> {"down", "waiting", "up"}]
    /\ ups \in 0..MaxUps
    /\ failures \in 0..MaxFailures

(* No request meets a database that is not there yet: a backend that is up *)
(* finds every migration applied and every seeded customer in place,       *)
(* whatever failed or was interrupted on the way.                          *)
ServersMeetSchema ==
    Serving => applied = Migrations /\ DOMAIN balance = Seeded

(* The seed is idempotent: each time it completes the heavy customer has   *)
(* exactly HEAVY_EVENT_COUNT fabricated rows, however many runs were cut   *)
(* short before it and whatever the clients did meanwhile.                 *)
SeedConverges == migrate \in {"exiting", "completed"} => fabricated = Fabricated

(* Reseeding spares every event but the heavy customer's consumptions:     *)
(* their rows are never lost and a retry never charges them again, across  *)
(* any number of restarts.                                                 *)
SeedSparesOthers ==
    \A e \in Events : ~(Of[e] = Heavy /\ e \in Consumptions) =>
        /\ charged[e] <= 1
        /\ e \in rows <=> charged[e] = 1

(* The Balance is kept consistent with the ledger: for a customer without  *)
(* fabricated rows it is the opening balance and the events recorded.      *)
Recorded(kind, c) == Cardinality({e \in rows \cap kind : Of[e] = c})
BalanceMatchesLedger ==
    \A c \in DOMAIN balance \ {Heavy} :
        balance[c] = Opening[c] + Recorded(TopUps, c) - Recorded(Consumptions, c)

(* A backend told to start does start, or its wait is ended by a failure   *)
(* or by the operator: it never waits for `migrate` for ever.              *)
NoBackendWaitsForever ==
    \A b \in Backends : server[b] = "waiting" ~> server[b] # "waiting"

=============================================================================
