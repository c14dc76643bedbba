-------------------------- MODULE DeploymentProofs --------------------------
(***************************************************************************)
(* What `docker compose up` promises, for any number of containers,        *)
(* migrations, customers, events, restarts and failures.                   *)
(***************************************************************************)
EXTENDS DeploymentInvariant, TLAPS

-----------------------------------------------------------------------------
(* The seed's customers are the range of a sequence that is not empty. *)
LEMMA CustomersInRange ==
    /\ Len(Customers) \in Nat \ {0}
    /\ DOMAIN Customers = 1..Len(Customers)
    /\ \A i \in 1..Len(Customers) : Customers[i] \in Seeded
    /\ \A c \in Seeded : \E i \in 1..Len(Customers) : Customers[i] = c
  <1>1. Customers \in Seq(Seeded) /\ Heavy \in Seeded
    BY DeploymentAssumption
  <1>2. Len(Customers) \in Nat /\ DOMAIN Customers = 1..Len(Customers)
    BY <1>1
  <1>3. \A c \in Seeded : \E i \in 1..Len(Customers) : Customers[i] = c
    BY <1>2 DEF Seeded
  <1>4. Len(Customers) # 0
    BY <1>1, <1>2, <1>3
  <1> QED BY <1>1, <1>2, <1>3, <1>4

(* An upsert sets one customer's balance and leaves the others as they are. *)
LEMMA Upsert ==
    ASSUME NEW c \in Seeded, SeedCustomer, c = Customers[seeded + 1],
           DOMAIN balance \subseteq Seeded,
           \A d \in DOMAIN balance : balance[d] \in Nat
    PROVE  /\ DOMAIN balance' = DOMAIN balance \cup {c}
           /\ \A d \in DOMAIN balance' : balance'[d] \in Nat
  <1>1. Opening[c] \in Nat
    BY DeploymentAssumption
  <1> QED BY <1>1 DEF SeedCustomer

(* The one-shot starts over, or another `up` is left without a deletion. *)
LEMMA ComposeUpKeeps ==
    ASSUME DeployInv, ComposeUp
    PROVE  DeployInv'
  <1>1. TypeOK'
    BY DeploymentAssumption
       DEF DeployInv, TypeOK, ComposeUp, data, Steps
  <1>2. MigrationsFirst' /\ CreatedFromNone' /\ SeedConverges'
    BY DeploymentAssumption
       DEF DeployInv, TypeOK, ComposeUp, data, Steps, MigrationsFirst,
           CreatedFromNone, SeedConverges, AfterMigrate, AfterDelete
  <1>3. CustomersInOrder' /\ ServersMeetSchema'
    BY DeploymentAssumption
       DEF DeployInv, TypeOK, ComposeUp, data, Steps, CustomersInOrder,
           ServersMeetSchema, Serving, MigrationsFirst,
           AfterSeed, AfterMigrate, AfterDelete, MigrateCompleted
  <1>4. WipedBefore' /\ Wipes \in Nat /\ Wipes' \in Nat /\ Wipes <= Wipes'
    BY DeploymentAssumption
       DEF DeployInv, TypeOK, ComposeUp, data, Steps, WipedBefore, Wipes,
           Serving, BeforeDelete, AfterDelete, MigrateCompleted
  <1>5. ChargedByWipes' /\ SeedSparesOthers'
    BY <1>4, DeploymentAssumption
       DEF DeployInv, TypeOK, ComposeUp, data, ChargedByWipes, SeedSparesOthers
  <1> QED BY <1>1, <1>2, <1>3, <1>4, <1>5 DEF DeployInv

(* The products come once no migration is left. *)
LEMMA MigrateKeeps ==
    ASSUME DeployInv, Migrate
    PROVE  DeployInv'
  <1>1. TypeOK'
    BY DeploymentAssumption
       DEF DeployInv, TypeOK, Migrate, data, Steps
  <1>2. MigrationsFirst' /\ CreatedFromNone' /\ SeedConverges'
    BY DeploymentAssumption
       DEF DeployInv, TypeOK, Migrate, data, Steps, MigrationsFirst,
           CreatedFromNone, SeedConverges, AfterMigrate, AfterDelete
  <1>3. CustomersInOrder' /\ ServersMeetSchema'
    BY DeploymentAssumption
       DEF DeployInv, TypeOK, Migrate, data, Steps, CustomersInOrder,
           ServersMeetSchema, Serving, MigrationsFirst,
           AfterSeed, AfterMigrate, AfterDelete, MigrateCompleted
  <1>4. WipedBefore' /\ Wipes \in Nat /\ Wipes' \in Nat /\ Wipes <= Wipes'
    BY DeploymentAssumption
       DEF DeployInv, TypeOK, Migrate, data, Steps, WipedBefore, Wipes,
           Serving, BeforeDelete, AfterDelete, MigrateCompleted
  <1>5. ChargedByWipes' /\ SeedSparesOthers'
    BY <1>4, DeploymentAssumption
       DEF DeployInv, TypeOK, Migrate, data, ChargedByWipes, SeedSparesOthers
  <1> QED BY <1>1, <1>2, <1>3, <1>4, <1>5 DEF DeployInv

(* No customer is upserted before the products: there is one to begin with. *)
LEMMA SeedProductsKeeps ==
    ASSUME DeployInv, SeedProducts
    PROVE  DeployInv'
  <1>1. TypeOK'
    BY CustomersInRange, DeploymentAssumption
       DEF DeployInv, TypeOK, SeedProducts, data, Steps
  <1>2. MigrationsFirst' /\ CreatedFromNone' /\ SeedConverges'
    BY CustomersInRange, DeploymentAssumption
       DEF DeployInv, TypeOK, SeedProducts, data, Steps, MigrationsFirst,
           CreatedFromNone, SeedConverges, AfterMigrate, AfterDelete
  <1>3. CustomersInOrder' /\ ServersMeetSchema'
    BY CustomersInRange, DeploymentAssumption
       DEF DeployInv, TypeOK, SeedProducts, data, Steps, CustomersInOrder,
           ServersMeetSchema, Serving, MigrationsFirst,
           AfterSeed, AfterMigrate, AfterDelete, MigrateCompleted
  <1>4. WipedBefore' /\ Wipes \in Nat /\ Wipes' \in Nat /\ Wipes <= Wipes'
    BY CustomersInRange, DeploymentAssumption
       DEF DeployInv, TypeOK, SeedProducts, data, Steps, WipedBefore, Wipes,
           Serving, BeforeDelete, AfterDelete, MigrateCompleted
  <1>5. ChargedByWipes' /\ SeedSparesOthers'
    <2>1. /\ charged' = charged /\ rows' = rows
          /\ charged \in [Events -> Nat]
          /\ ChargedByWipes /\ SeedSparesOthers
      BY DeploymentAssumption DEF DeployInv, TypeOK, SeedProducts, data
    <2>2. \A e \in Events : charged[e] \in Nat
      BY <2>1
    <2>3. ChargedByWipes'
      BY <1>4, <2>1, <2>2 DEF ChargedByWipes
    <2>4. SeedSparesOthers'
      BY <2>1 DEF SeedSparesOthers
    <2> QED BY <2>3, <2>4
  <1> QED BY <1>1, <1>2, <1>3, <1>4, <1>5 DEF DeployInv

(* The rows are created where none is left. *)
LEMMA CreateHeavyHistoryKeeps ==
    ASSUME DeployInv, CreateHeavyHistory
    PROVE  DeployInv'
  <1>1. TypeOK'
    BY DeploymentAssumption
       DEF DeployInv, TypeOK, CreateHeavyHistory, data, Steps
  <1>2. MigrationsFirst' /\ CreatedFromNone' /\ SeedConverges'
    BY DeploymentAssumption
       DEF DeployInv, TypeOK, CreateHeavyHistory, data, Steps, MigrationsFirst,
           CreatedFromNone, SeedConverges, AfterMigrate, AfterDelete
  <1>3. CustomersInOrder' /\ ServersMeetSchema'
    BY DeploymentAssumption
       DEF DeployInv, TypeOK, CreateHeavyHistory, data, Steps, CustomersInOrder,
           ServersMeetSchema, Serving, MigrationsFirst,
           AfterSeed, AfterMigrate, AfterDelete, MigrateCompleted
  <1>4. WipedBefore' /\ Wipes \in Nat /\ Wipes' \in Nat /\ Wipes <= Wipes'
    BY DeploymentAssumption
       DEF DeployInv, TypeOK, CreateHeavyHistory, data, Steps, WipedBefore, Wipes,
           Serving, BeforeDelete, AfterDelete, MigrateCompleted
  <1>5. ChargedByWipes' /\ SeedSparesOthers'
    BY <1>4, DeploymentAssumption
       DEF DeployInv, TypeOK, CreateHeavyHistory, data, ChargedByWipes, SeedSparesOthers
  <1> QED BY <1>1, <1>2, <1>3, <1>4, <1>5 DEF DeployInv

(* A run of `migrate` that gets through has done all of its stages. *)
LEMMA ExitMigrateKeeps ==
    ASSUME DeployInv, ExitMigrate
    PROVE  DeployInv'
  <1>1. TypeOK'
    BY DeploymentAssumption
       DEF DeployInv, TypeOK, ExitMigrate, data, Steps
  <1>2. MigrationsFirst' /\ CreatedFromNone' /\ SeedConverges'
    BY DeploymentAssumption
       DEF DeployInv, TypeOK, ExitMigrate, data, Steps, MigrationsFirst,
           CreatedFromNone, SeedConverges, AfterMigrate, AfterDelete
  <1>3. CustomersInOrder' /\ ServersMeetSchema'
    BY DeploymentAssumption
       DEF DeployInv, TypeOK, ExitMigrate, data, Steps, CustomersInOrder,
           ServersMeetSchema, Serving, MigrationsFirst,
           AfterSeed, AfterMigrate, AfterDelete, MigrateCompleted
  <1>4. WipedBefore' /\ Wipes \in Nat /\ Wipes' \in Nat /\ Wipes <= Wipes'
    BY DeploymentAssumption
       DEF DeployInv, TypeOK, ExitMigrate, data, Steps, WipedBefore, Wipes,
           Serving, BeforeDelete, AfterDelete, MigrateCompleted
  <1>5. ChargedByWipes' /\ SeedSparesOthers'
    BY <1>4, DeploymentAssumption
       DEF DeployInv, TypeOK, ExitMigrate, data, ChargedByWipes, SeedSparesOthers
  <1> QED BY <1>1, <1>2, <1>3, <1>4, <1>5 DEF DeployInv

(* A run that fails leaves the database where it is; the backends do not start. *)
LEMMA FailMigrateKeeps ==
    ASSUME DeployInv, FailMigrate
    PROVE  DeployInv'
  <1>1. TypeOK'
    BY DeploymentAssumption
       DEF DeployInv, TypeOK, FailMigrate, data, Steps
  <1>2. MigrationsFirst' /\ CreatedFromNone' /\ SeedConverges'
    BY DeploymentAssumption
       DEF DeployInv, TypeOK, FailMigrate, data, Steps, MigrationsFirst,
           CreatedFromNone, SeedConverges, AfterMigrate, AfterDelete
  <1>3. CustomersInOrder' /\ ServersMeetSchema'
    BY DeploymentAssumption
       DEF DeployInv, TypeOK, FailMigrate, data, Steps, CustomersInOrder,
           ServersMeetSchema, Serving, MigrationsFirst,
           AfterSeed, AfterMigrate, AfterDelete, MigrateCompleted
  <1>4. WipedBefore' /\ Wipes \in Nat /\ Wipes' \in Nat /\ Wipes <= Wipes'
    BY DeploymentAssumption
       DEF DeployInv, TypeOK, FailMigrate, data, Steps, WipedBefore, Wipes,
           Serving, BeforeDelete, AfterDelete, MigrateCompleted
  <1>5. ChargedByWipes' /\ SeedSparesOthers'
    BY <1>4, DeploymentAssumption
       DEF DeployInv, TypeOK, FailMigrate, data, ChargedByWipes, SeedSparesOthers
  <1> QED BY <1>1, <1>2, <1>3, <1>4, <1>5 DEF DeployInv

(* The volume outlives the containers. *)
LEMMA StackDownKeeps ==
    ASSUME DeployInv, StackDown
    PROVE  DeployInv'
  <1>1. TypeOK'
    BY DeploymentAssumption
       DEF DeployInv, TypeOK, StackDown, data, Steps
  <1>2. MigrationsFirst' /\ CreatedFromNone' /\ SeedConverges'
    BY DeploymentAssumption
       DEF DeployInv, TypeOK, StackDown, data, Steps, MigrationsFirst,
           CreatedFromNone, SeedConverges, AfterMigrate, AfterDelete
  <1>3. CustomersInOrder' /\ ServersMeetSchema'
    BY DeploymentAssumption
       DEF DeployInv, TypeOK, StackDown, data, Steps, CustomersInOrder,
           ServersMeetSchema, Serving, MigrationsFirst,
           AfterSeed, AfterMigrate, AfterDelete, MigrateCompleted
  <1>4. WipedBefore' /\ Wipes \in Nat /\ Wipes' \in Nat /\ Wipes <= Wipes'
    BY DeploymentAssumption
       DEF DeployInv, TypeOK, StackDown, data, Steps, WipedBefore, Wipes,
           Serving, BeforeDelete, AfterDelete, MigrateCompleted
  <1>5. ChargedByWipes' /\ SeedSparesOthers'
    BY <1>4, DeploymentAssumption
       DEF DeployInv, TypeOK, StackDown, data, ChargedByWipes, SeedSparesOthers
  <1> QED BY <1>1, <1>2, <1>3, <1>4, <1>5 DEF DeployInv

(* A backend starts only behind a completed run. *)
LEMMA StartBackendKeeps ==
    ASSUME DeployInv, NEW b \in Backends, StartBackend(b)
    PROVE  DeployInv'
  <1>1. TypeOK'
    BY DeploymentAssumption
       DEF DeployInv, TypeOK, StartBackend, data, Steps
  <1>2. MigrationsFirst' /\ CreatedFromNone' /\ SeedConverges'
    BY DeploymentAssumption
       DEF DeployInv, TypeOK, StartBackend, data, Steps, MigrationsFirst,
           CreatedFromNone, SeedConverges, AfterMigrate, AfterDelete
  <1>3. CustomersInOrder' /\ ServersMeetSchema'
    BY DeploymentAssumption
       DEF DeployInv, TypeOK, StartBackend, data, Steps, CustomersInOrder,
           ServersMeetSchema, Serving, MigrationsFirst,
           AfterSeed, AfterMigrate, AfterDelete, MigrateCompleted
  <1>4. WipedBefore' /\ Wipes \in Nat /\ Wipes' \in Nat /\ Wipes <= Wipes'
    BY DeploymentAssumption
       DEF DeployInv, TypeOK, StartBackend, data, Steps, WipedBefore, Wipes,
           Serving, BeforeDelete, AfterDelete, MigrateCompleted
  <1>5. ChargedByWipes' /\ SeedSparesOthers'
    BY <1>4, DeploymentAssumption
       DEF DeployInv, TypeOK, StartBackend, data, ChargedByWipes, SeedSparesOthers
  <1> QED BY <1>1, <1>2, <1>3, <1>4, <1>5 DEF DeployInv

(* One backend less serves. *)
LEMMA StopBackendKeeps ==
    ASSUME DeployInv, NEW b \in Backends, StopBackend(b)
    PROVE  DeployInv'
  <1>1. TypeOK'
    BY DeploymentAssumption
       DEF DeployInv, TypeOK, StopBackend, data, Steps
  <1>2. MigrationsFirst' /\ CreatedFromNone' /\ SeedConverges'
    BY DeploymentAssumption
       DEF DeployInv, TypeOK, StopBackend, data, Steps, MigrationsFirst,
           CreatedFromNone, SeedConverges, AfterMigrate, AfterDelete
  <1>3. CustomersInOrder' /\ ServersMeetSchema'
    BY DeploymentAssumption
       DEF DeployInv, TypeOK, StopBackend, data, Steps, CustomersInOrder,
           ServersMeetSchema, Serving, MigrationsFirst,
           AfterSeed, AfterMigrate, AfterDelete, MigrateCompleted
  <1>4. WipedBefore' /\ Wipes \in Nat /\ Wipes' \in Nat /\ Wipes <= Wipes'
    BY DeploymentAssumption
       DEF DeployInv, TypeOK, StopBackend, data, Steps, WipedBefore, Wipes,
           Serving, BeforeDelete, AfterDelete, MigrateCompleted
  <1>5. ChargedByWipes' /\ SeedSparesOthers'
    BY <1>4, DeploymentAssumption
       DEF DeployInv, TypeOK, StopBackend, data, ChargedByWipes, SeedSparesOthers
  <1> QED BY <1>1, <1>2, <1>3, <1>4, <1>5 DEF DeployInv

(* The next customer is in place; with the last one all of them are. *)
LEMMA SeedCustomerKeeps ==
    ASSUME DeployInv, SeedCustomer
    PROVE  DeployInv'
  <1> DEFINE c == Customers[seeded + 1]
             n == Len(Customers)
  <1>1. /\ TypeOK /\ applied = Migrations
        /\ n \in Nat /\ seeded \in 0..n /\ seeded < n
    BY CustomersInRange
       DEF DeployInv, TypeOK, SeedCustomer, MigrationsFirst, AfterMigrate
  <1>2. seeded + 1 \in 1..n /\ seeded' = seeded + 1 /\ seeded' \in 0..n
    BY <1>1 DEF SeedCustomer
  <1>3. c \in Seeded
    BY <1>2, CustomersInRange
  <1> HIDE DEF c
  <1>4. /\ DOMAIN balance' = DOMAIN balance \cup {c}
        /\ \A d \in DOMAIN balance' : balance'[d] \in Nat
    BY <1>1, <1>3, Upsert DEF TypeOK, c
  <1>5. migrate' = IF seeded' = n THEN "deleting" ELSE "customers"
    BY DEF SeedCustomer
  <1> HIDE DEF n
  <1>6. TypeOK'
    <2>1. migrate' \in Steps
      BY <1>5 DEF Steps
    <2> QED BY <1>1, <1>2, <1>3, <1>4, <2>1 DEF TypeOK, SeedCustomer, n
  <1>7. \A i \in 1..seeded' : Customers[i] \in DOMAIN balance'
    <2>1. \A i \in 1..seeded : Customers[i] \in DOMAIN balance
      BY DEF DeployInv, CustomersInOrder, SeedCustomer
    <2>2. \A i \in 1..seeded' : i \in 1..seeded \/ i = seeded + 1
      BY <1>1, <1>2
    <2> QED BY <1>4, <2>1, <2>2 DEF c
  <1>8. CustomersInOrder'
    <2>1. CASE seeded' # n
      BY <1>1, <1>2, <1>5, <1>7, <2>1
         DEF CustomersInOrder, AfterSeed, AfterDelete, n
    <2>2. CASE seeded' = n
      <3>1. Seeded \subseteq DOMAIN balance'
        BY <1>7, <2>2, CustomersInRange DEF n
      <3> QED BY <1>5, <1>6, <2>2, <3>1 DEF CustomersInOrder, TypeOK
    <2> QED BY <2>1, <2>2
  <1>9. ServersMeetSchema'
    BY <1>1, <1>3, <1>4 DEF DeployInv, ServersMeetSchema, Serving, SeedCustomer
  <1>10. MigrationsFirst' /\ CreatedFromNone' /\ SeedConverges'
    BY <1>1, <1>5 DEF MigrationsFirst, CreatedFromNone, SeedConverges, SeedCustomer
  <1>11. WipedBefore' /\ Wipes' = Wipes
    BY <1>1, <1>5 DEF DeployInv, TypeOK, WipedBefore, Wipes, Serving, SeedCustomer,
           BeforeDelete, AfterDelete
  <1>12. ChargedByWipes' /\ SeedSparesOthers'
    BY <1>11 DEF DeployInv, ChargedByWipes, SeedSparesOthers, SeedCustomer
  <1> QED BY <1>6, <1>8, <1>9, <1>10, <1>11, <1>12 DEF DeployInv

(* A row is lost only with a deletion to account for it, and only a heavy  *)
(* consumption's.                                                          *)
LEMMA DeleteHeavyHistoryKeeps ==
    ASSUME DeployInv, DeleteHeavyHistory
    PROVE  DeployInv'
  <1>0. TypeOK /\ rows' \subseteq rows
    BY DEF DeployInv, DeleteHeavyHistory, SparedByDelete
  <1>1. TypeOK'
    BY <1>0 DEF TypeOK, DeleteHeavyHistory, Steps
  <1>2. MigrationsFirst' /\ CreatedFromNone' /\ SeedConverges'
    BY DEF DeployInv, MigrationsFirst, CreatedFromNone, SeedConverges,
           DeleteHeavyHistory, AfterMigrate, AfterDelete
  <1>3. CustomersInOrder' /\ ServersMeetSchema'
    BY DEF DeployInv, CustomersInOrder, ServersMeetSchema, Serving,
           DeleteHeavyHistory, AfterSeed, AfterDelete
  <1>4. WipedBefore' /\ Wipes \in Nat /\ Wipes' = Wipes + 1
    BY <1>0 DEF DeployInv, TypeOK, WipedBefore, Wipes, Serving, DeleteHeavyHistory,
           BeforeDelete, AfterDelete
  <1>5. ChargedByWipes'
    BY <1>0, <1>4 DEF DeployInv, TypeOK, ChargedByWipes, DeleteHeavyHistory
  <1>6. SeedSparesOthers'
    BY DEF DeployInv, SeedSparesOthers, DeleteHeavyHistory, SparedByDelete
  <1> QED BY <1>1, <1>2, <1>3, <1>4, <1>5, <1>6 DEF DeployInv

(* An event is charged while a backend serves: every customer is there,    *)
(* and at least one deletion has been.  Only a row that is missing lets it *)
(* be charged.                                                             *)
LEMMA PostConsumptionKeeps ==
    ASSUME DeployInv, NEW e \in Consumptions, PostConsumption(e)
    PROVE  DeployInv'
  <1>0. /\ TypeOK /\ e \in Events /\ Of[e] \in DOMAIN balance
        /\ balance[Of[e]] \in Nat \ {0}
        /\ charged[e] \in Nat /\ Wipes \in Nat \ {0} /\ Wipes <= MaxUps
    BY DeploymentAssumption
       DEF DeployInv, TypeOK, Events, ServersMeetSchema, PostConsumption, Sufficient,
           WipedBefore, Wipes
  <1>1. Wipes' = Wipes
    BY DEF PostConsumption, containers, Wipes
  <1>2. charged' = [charged EXCEPT ![e] = charged[e] + 1] /\ charged[e] + 1 <= Wipes
    BY <1>0 DEF DeployInv, ChargedByWipes, PostConsumption
  <1>3. TypeOK'
    <2>1. charged' \in [Events -> 0..MaxUps]
      BY <1>0, <1>2, DeploymentAssumption DEF TypeOK
    <2> QED BY <1>0, <2>1 DEF TypeOK, PostConsumption, containers
  <1>4. CustomersInOrder' /\ ServersMeetSchema'
    BY <1>0 DEF DeployInv, CustomersInOrder, ServersMeetSchema, Serving,
           PostConsumption, containers
  <1>5. MigrationsFirst' /\ CreatedFromNone' /\ SeedConverges' /\ WipedBefore'
    BY <1>1 DEF DeployInv, MigrationsFirst, CreatedFromNone, SeedConverges, WipedBefore,
           Serving, PostConsumption, containers
  <1>6. ChargedByWipes'
    BY <1>0, <1>1, <1>2 DEF DeployInv, TypeOK, ChargedByWipes, PostConsumption
  <1>7. SeedSparesOthers'
    BY <1>0, <1>2 DEF DeployInv, TypeOK, SeedSparesOthers, PostConsumption
  <1> QED BY <1>3, <1>4, <1>5, <1>6, <1>7 DEF DeployInv

LEMMA PostTopUpKeeps ==
    ASSUME DeployInv, NEW e \in TopUps, PostTopUp(e)
    PROVE  DeployInv'
  <1>0. /\ TypeOK /\ e \in Events /\ Of[e] \in DOMAIN balance
        /\ balance[Of[e]] \in Nat
        /\ charged[e] = 0 /\ Wipes \in Nat \ {0} /\ Wipes <= MaxUps
    BY DeploymentAssumption
       DEF DeployInv, TypeOK, Events, ServersMeetSchema, PostTopUp, WipedBefore, Wipes
  <1>1. Wipes' = Wipes
    BY DEF PostTopUp, containers, Wipes
  <1>2. charged' = [charged EXCEPT ![e] = 1]
    BY DEF PostTopUp
  <1>3. TypeOK'
    <2>1. charged' \in [Events -> 0..MaxUps]
      BY <1>0, <1>2, DeploymentAssumption DEF TypeOK
    <2> QED BY <1>0, <2>1 DEF TypeOK, PostTopUp, containers
  <1>4. CustomersInOrder' /\ ServersMeetSchema'
    BY <1>0 DEF DeployInv, CustomersInOrder, ServersMeetSchema, Serving,
           PostTopUp, containers
  <1>5. MigrationsFirst' /\ CreatedFromNone' /\ SeedConverges' /\ WipedBefore'
    BY <1>1 DEF DeployInv, MigrationsFirst, CreatedFromNone, SeedConverges, WipedBefore,
           Serving, PostTopUp, containers
  <1>6. ChargedByWipes'
    BY <1>0, <1>1, <1>2 DEF DeployInv, TypeOK, ChargedByWipes, PostTopUp
  <1>7. SeedSparesOthers'
    BY <1>0, <1>2, DeploymentAssumption
       DEF DeployInv, TypeOK, SeedSparesOthers, PostTopUp
  <1> QED BY <1>3, <1>4, <1>5, <1>6, <1>7 DEF DeployInv

-----------------------------------------------------------------------------
LEMMA DeployInit == Init => DeployInv
  <1> SUFFICES ASSUME Init PROVE DeployInv
    OBVIOUS
  <1>1. DOMAIN balance = {} /\ ~Serving
    BY DEF Init, Serving
  <1>2. TypeOK
    BY <1>1, CustomersInRange, DeploymentAssumption DEF Init, TypeOK
  <1>3. ChargedByWipes /\ SeedSparesOthers
    BY DEF Init, ChargedByWipes, SeedSparesOthers
  <1> QED BY <1>1, <1>2, <1>3
          DEF Init, DeployInv, MigrationsFirst, CustomersInOrder, CreatedFromNone,
              WipedBefore, ServersMeetSchema, SeedConverges,
              AfterMigrate, AfterSeed, AfterDelete

LEMMA DeployStep ==
    ASSUME DeployInv, [Next]_vars
    PROVE  DeployInv'
  <1>1. CASE ComposeUp
    BY <1>1, ComposeUpKeeps
  <1>2. CASE MigrateStep
    BY <1>2, MigrateKeeps, SeedProductsKeeps, SeedCustomerKeeps,
       DeleteHeavyHistoryKeeps, CreateHeavyHistoryKeeps, ExitMigrateKeeps
       DEF MigrateStep
  <1>3. CASE FailMigrate
    BY <1>3, FailMigrateKeeps
  <1>4. CASE StackDown
    BY <1>4, StackDownKeeps
  <1>5. ASSUME NEW b \in Backends, StartBackend(b) \/ StopBackend(b)
        PROVE  DeployInv'
    BY <1>5, StartBackendKeeps, StopBackendKeeps
  <1>6. ASSUME NEW e \in Consumptions, PostConsumption(e)
        PROVE  DeployInv'
    BY <1>6, PostConsumptionKeeps
  <1>7. ASSUME NEW e \in TopUps, PostTopUp(e)
        PROVE  DeployInv'
    BY <1>7, PostTopUpKeeps
  <1>8. CASE UNCHANGED vars
    BY <1>8 DEF vars, data, containers, DeployInv, TypeOK, MigrationsFirst,
           CustomersInOrder, CreatedFromNone, WipedBefore, Wipes, ChargedByWipes,
           ServersMeetSchema, SeedConverges, SeedSparesOthers, Serving
  <1> QED BY <1>1, <1>2, <1>3, <1>4, <1>5, <1>6, <1>7, <1>8 DEF Next

(* The invariant of the whole: what each stage of `migrate` has behind it, *)
(* and what the backends and the clients can rely on in between.           *)
THEOREM StackStaysSound == Spec => []DeployInv
  <1> QED BY DeployInit, DeployStep, PTL DEF Spec

(* Every backend that serves does so on the full schema and with every     *)
(* seeded customer, however many runs of `migrate` failed or were cut      *)
(* short (depends_on: service_completed_successfully).                     *)
THEOREM BackendsMeetSchema == Spec => []ServersMeetSchema
  <1>1. DeployInv => ServersMeetSchema
    BY DEF DeployInv
  <1> QED BY <1>1, StackStaysSound, PTL

(* The seed's "idempotent": a run that completes leaves HEAVY_EVENT_COUNT  *)
(* fabricated rows, no more and no fewer, from whatever the ones before it *)
(* left.                                                                   *)
THEOREM SeedIsIdempotent == Spec => []SeedConverges
  <1>1. DeployInv => SeedConverges
    BY DEF DeployInv
  <1> QED BY <1>1, StackStaysSound, PTL

(* Every event but the heavy customer's consumptions is charged at most    *)
(* once, and has a row exactly when it has been, over any number of        *)
(* reseedings.                                                             *)
THEOREM ReseedingSparesOthers == Spec => []SeedSparesOthers
  <1>1. DeployInv => SeedSparesOthers
    BY DEF DeployInv
  <1> QED BY <1>1, StackStaysSound, PTL

(* And those consumptions of the heavy customer, whose rows a reseeding    *)
(* deletes, are charged at most once for each `docker compose up`.         *)
THEOREM HeavyChargedOncePerUp == Spec => [](\A e \in Events : charged[e] <= ups)
  <1>1. DeployInv => \A e \in Events : charged[e] <= ups
    BY DEF DeployInv, TypeOK, ChargedByWipes, Wipes
  <1> QED BY <1>1, StackStaysSound, PTL

=============================================================================
