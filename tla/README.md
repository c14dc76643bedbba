# A verification of the usage-based billing system

The repository is a small billing service: an Express/Prisma back end that runs as three
processes over one SQLite file, a React dashboard that polls it, a compose file that brings
both up, and a load test. This directory holds TLA+ models of it, the TLC runs that check
them, and TLAPS proofs of the results that matter most. Definitions are translated from the
code; the documents (`CONTEXT.md`, `docs/adr/`) supply the promises that are checked.

## 1. The system

| Component | State | Operations | Talks to |
|---|---|---|---|
| Consumption service (`consumption.service.ts`, `consumption.routes.ts`) | none of its own; `Customer.balance`, `LedgerEntry` | `consume`: read the price, open a transaction, conditional deduction, tell 402 from 404, insert the row, commit, or on a key collision roll back and answer with the original row | SQLite through one pooled connection per process |
| Customer service (`customer.service.ts`, `customers.routes.ts`) | the same rows | `creditWallet` (increment and row in a transaction), `listCustomers`, `listUsageEvents` (cursor page) | SQLite |
| Product catalog | `Product.unitPrice` | list; the seed's upsert is its only writer | SQLite |
| SQLite and Prisma (`prisma.ts`, `schema.prisma`) | the file: WAL, one database-wide write lock; one connection per process | statements, interactive transactions with `maxWait` and `timeout`, `busy_timeout` | - |
| Server and proxy (`server.ts`, `app.ts`, `nginx.conf`) | listening or not | start, SIGTERM (exits without draining), round-robin, 502 | clients, handlers |
| Consume form (`ConsumeForm.tsx`, `api.ts`) | the key of the current press, the mutation's status | submit, up to two retries under the same key, success, 402, error | POST /consumption-events |
| Credit form (`CreditForm.tsx`) | the mutation's status | submit, success, error; no key, no retry | POST /customers/:id/credits |
| Page, modal, list, detail (`App.tsx`, `Modal.tsx`, `CustomerList.tsx`, `CustomerDetail.tsx`) | which modal is open and for whom, the listener and the scrolling of the document, the mounted form's own state; the shared query `["customers"]` | press a row's button, with or without a modal open, close; poll, refetch after own writes | the forms; GET /customers |
| Usage history (`UsageHistory.tsx`) | the infinite query `["usage-events", id]`: its pages | poll, load more, open and close; refresh when `CreditForm` invalidates it | GET /customers/:id/usage-events |
| Query client (`queryClient.ts`) | the cache and the fetches in flight | refetch every 5 s, join, replace, drop | all queries |
| Deployment (`docker-compose.yml`, `docker-entrypoint.sh`, `seed.ts`, migrations) | the volume; the containers | migrate, seed, start, stop | SQLite |
| Load test (`load-test.mjs`) | counters of a worker pool | storm, reader loop, verdict | the API |

What is hard here, and where a test hardly reaches (PROJECT.json lists each at its line):

- three processes interleave at every `await` of a handler, over one lock, each with a single
  connection that a transaction keeps while it waits;
- prices, funds and keys are read at one await and relied on at a later one;
- a transaction can be cut by its timeout, by a crash or by a shutdown that does not drain,
  while the client is still owed an answer, and the client retries what was already done;
- the history is read page by page while rows commit, and its fetches are joined and replaced;
- answers to replaced fetches still arrive, after the operator was told that a write succeeded;
- modals are closed, or given to another row, over forms whose submissions are still pending;
- the seed runs again, over live data, whenever the stack is brought up.

What makes each component correct: wallets are never overdrawn and their balances are the sum of
their ledgers; a key charges once; every answer is true of the books; every handler ends; the
history on screen has no gap and no repeat; nothing read before an acknowledged write is shown
after it, in the list never and in the history by one fetch at most; the views converge; what a
consume form reports stands beside its customer, and the page is usable again when the modal has
gone; no backend serves an unfinished schema; the seed is idempotent and
spares what it does not own.

## 2. The modules

| Module | Models | Uses |
|---|---|---|
| `BillingTypes` | request bodies, validation, answers, ledger rows | - |
| `Wallet` | **abstract specification**: each request takes effect in one indivisible step | `BillingTypes` |
| `Billing` | **the core**: the handlers of all processes, await by await, with pool, lock, transactions, timeouts, crashes, restarts, repricing | `BillingTypes`; instantiates `Wallet` |
| `BillingAudit` | balances recomputed from the ledger (sums) | `Billing` |
| `BillingInvariant` | the inductive invariant | `Billing` |
| `BillingProofs` | theorems: invariant, safety, the append-only ledger, `Billing` implements `Wallet` | `BillingInvariant` |
| `Induction` | induction over numbers and finite sets in a form the provers can use | the library's well-founded orderings |
| `BillingAuditProofs` | theorems: balances and lists are what the ledger says | `BillingAudit`, `BillingProofs`, `Induction` |
| `Purchase` | **abstract specification**: a press of a button takes effect once or never and is reported once | - |
| `Submission` | the two forms, the consume form with its retries, composed with all of `Billing` | `Billing`; instantiates `Purchase` |
| `SubmissionInvariant` | what ties the forms to the back end, the inductive invariant | `Submission`, `BillingInvariant` |
| `SubmissionProofs` | theorems: the ties, the safety of the presses, the forms implement `Purchase` | `SubmissionInvariant`, `BillingProofs` |
| `History` | the paginated endpoint and the infinite query over it | - |
| `HistoryProofs` | theorems: all the safety of the history, from its inductive invariant | `History`, `Induction` |
| `Dashboard` | **abstract specification** of the page, and a model of its own: the shared customers query, polling, refetch after own writes | - |
| `Shell` | the page around it: rows, modal, the forms' state under changing props | `Dashboard` |
| `ShellProofs` | theorems: what the list shows never goes back and includes acknowledged writes; the modal and the outcomes | `Shell` |
| `Deployment` | compose, the one-shot's steps, reseeding beside live traffic | - |
| `DeploymentInvariant` | what each stage of the one-shot has behind it, the inductive invariant | `Deployment` |
| `DeploymentProofs` | theorems: the invariant and the safety of the deployment | `DeploymentInvariant` |
| `LoadTest` | the worker pool, the reader and the verdict | the atomic service of `Wallet`, reduced to one balance |
| `LoadTestProofs` | its inductive invariant, theorems: the counters and the verdict | `LoadTest` |
| `MC*` | bodies, balances, symmetry for TLC | |

Definitions headed "Mistake" (and in `Billing`, `BillingTypes`, `Submission` the variants that
stand directly before the definition they vary) are not part of the model. They are what a
plausible slip in the code would turn the next definition into; `PROJECT.json` pairs each
property with the slip it catches.

### How state and actions correspond to the code

**Billing.** `pc[r]` is where request `r`'s handler stands, one label per await: `lookup`
(`product.findUnique`), `begin` (`$transaction` waiting for the connection), `update`
(`updateMany`), `disambiguate` (`findUnique` on count 0), `insert` (`ledgerEntry.create`),
`commit`, `rollback`, `reread` (the catch block's lookup of the original row), `list`, `respond`.
`conn[p]` is process p's only connection, `lock` the database-wide write lock, which a
transaction takes with its first write and keeps to its end. `txBalance`/`txLedger` are what the
lock's holder sees; everyone else reads the committed `balance`/`ledger`. `quoted[r]` is the
price as it was read. The handler of a request and `proc`, `body`, `verdict` are its local
variables. Choices of the model:

- A timeout (`maxWait`, `timeout`, `pool_timeout`, `busy_timeout`) may fire at any await it
  covers; there are no clocks. Waiting for the pool can time out only while the pool is taken.
- Round-robin is "any process that listens"; with none, nginx answers 502.
- BEGIN and BEGIN IMMEDIATE are not told apart: the first statement of both transactions is a
  write, so no snapshot is read before the lock is taken.
- The migration's CHECK (balance >= 0) is left out on purpose. The results therefore show that
  the conditional `updateMany` is enough.
- A lost answer, for whatever reason and from whatever side, is `gone`: the handler neither
  notices nor stops.
- `origin` of a row and `asOf` of a list answer are history variables used by properties only.
- A key is not compared with the rest of the body, because the code does not.

**Submission.** One press mints one key; attempt n of it is a request of `Billing`. An attempt
can fail at the client while its handler still runs. React Query calls the newest `mutationFn`,
so an attempt may carry edited fields: every attempt may carry any of `Fields`. A press of "Credit
wallet" (`TopUp`) has no key and, by React Query's default for mutations, one attempt. `Purchase`
is what is left when attempts, keys and handlers are forgotten: `retrying` maps to `pending`, and
the effects of a press are its rows in the ledger, counted. It promises nothing about a press
reported denied or failed: the effect may have come before, or may still come.

**History.** A row is its id, a page the ids of one answer and its cursor. `flight` is the query's
fetch: a refresh re-reads as many pages as are loaded, each from the cursor of the page just
read; the server reads (`ServePage`) and the answer arrives (`PageArrives`) at different moments.
A poll joins a fetch in flight, "load more" replaces a refresh, closing the modal lets a fetch
run on; a failed fetch keeps the pages. Retries of one fetch resume at the page that failed, which
is the same page arriving later, so only final failure is an action. The operator's own top-up
commits at one moment and its 201 is heard at a later one, when `invalidateQueries` replaces what
is in flight, a "load more" included, except a first fetch, which it joins. The press itself is in
another modal (`CreditForm` is not part of the details). While it is pending the operator may press
another row's Credit button behind that modal (`SwitchRow`): the form gets another `customerId`,
and `useMutation` hands the newest `onSuccess` to the pending mutation, so `named` says whether the
201 will invalidate the history of the customer credited. Leaving for the details unmounts the form
(`creditForm` becomes "left") and freezes what it names. `heard` records to what effect the 201
came: the history on screen was invalidated ("followed") or another one was ("astray"), or there
were no rows on screen to refresh ("unseen": details closed, where invalidating only marks stale,
or nothing loaded yet). `late` says that a refresh asked for before the 201 is still in flight.
Assumed: the ledger of the customer does not shrink. A reseed of the heavy customer does shrink it
(`Deployment`), and the history is not checked across one.

**Dashboard.** The database is its number of committed writes. `replaced[f]` is the request that
the success of submission f took the query away from: it is not aborted, is still served, and its
answer must be dropped. A submission that fails at the client refetches nothing, whether or not
its write committed.

**Shell.** `active` is App's state, `page` what Modal's effect does to the document, `fields` the
state of the mounted form with the submission its mutation observer watches, `posted` the customer
each POST named. A row's button behind an open modal (the modal does not trap the keyboard)
mounts another form when it asks for another action (`Open`), and changes the props of the mounted
one when it asks for the same (`Switch`). `ConsumeForm` names the customer of its state,
`CreditForm` that of its prop. `onClose` is a new function at each render of App, so each press of
a row reruns the effect. Everything that concerns the query is written as a step of `Dashboard`,
taken together with what the page does: opening a modal mounts an observer, which refetches or
joins. That the page implements `Dashboard` holds by this construction; it is a lemma of the
proofs, not a result. Only the consume form promises whose outcome it shows. `CreditForm` reads its
customer from the prop, so after `Switch` its "Credited ... new balance" stands beside another
customer; that is in the model (`NamedCustomer`), and no property denies it.

**Deployment.** `migrate` is the one-shot's program counter through `migrate deploy` and the
statements of the seed; `server[b]` is down, waiting on `depends_on`, or up. Clients post keyed
consumptions, some again and again, and top-ups, in the gaps.

**LoadTest.** The code between two awaits of a worker is one step, which is what JavaScript
guarantees. `late` counts requests whose client has its error while they may still take effect.

## 3. The runs

Every run that passes is complete: TLC exhausts the instance, for `billing` within the bound
`PairOrRace` named below. Each property has a mutant, a
plausible slip in the code, that the run catches.

| Run | Asks | Bounds |
|---|---|---|
| `billing` | funds, keys, answers, isolation, append-only under every interleaving of keyed, unkeyed and top-up requests with crashes, restarts, timeouts; balance = opening + ledger although the price moves between read and use; lists show one committed moment; the inductive invariant; refinement of `Wallet` | 3 requests that race on 1 wallet that affords two, or 2 of every body, malformed and dangling ones included; 2 processes, 2 wallets, 1 key, 2 prices, quantities 1 and 2 |
| `submission_presses` | each press takes effect once or never and success is shown for its own row only (refinement of `Purchase`), forms and back end agree about what was sent (`Ties`, the forms' part of the inductive invariant), with a top-up beside a consumption | 3 attempts and 1, 1 process that crashes and restarts, edited fields, a wallet that affords one |
| `submission_settles` | every handler ends without help from timeouts; a press is always reported charged, denied or failed | 3 attempts under one key, 2 processes |
| `history` | no gap, no repeat, honest button, no going back, no lost press, after an acknowledged top-up no refresh from before it but the one left in flight; the newest row is shown in the end | pages of 2 rows, ids to 6, 1 top-up of the operator's own, its form on any row, 1 failure |
| `shell` | acknowledged writes stay on screen, nothing goes back, every success is followed up, the list converges, whatever modals are opened, switched and closed meanwhile; the page follows the modal, what a consume form reports stands beside its customer | 2 submissions, 2 customers, 2 writes, 1 failure |
| `deployment` | schema before service, idempotent seed, foreign rows spared, the inductive invariant these rest on, no backend waits for ever | 3 ups, 1 failure, 2 backends, 2 customers, 4 events |
| `load_storm` | every event counted once, the drop explained | 3 workers, 4 events, funds for 2 or 4 |
| `billing_replay_402`, `history_astray`, `dashboard_new_balance`, `shell_wrong_row`, `deployment_reseeds` | see "Where code and words part" | the smallest that show it |

Why these bounds are enough. Two requests race, and a third is the one that finds the state they
leave (a replay after a winner and a loser; a consume between a deduction and its rollback); two
processes give two pools and one lock, so both kinds of queue occur; a wallet that affords two of
three makes the funds run out inside the race. Three attempts are the code's own limit. The
view asks for pages of 2 where the route grants 3, as the code's view asks for 25 of at most 100:
six ids then give three pages, rows shift across a page boundary by a whole and by half a page,
and a refresh chain is overtaken at each of its positions. Two submissions give a
replaced fetch whose own replacement is replaced; two customers give a row pressed behind another
row's modal. One press with the code's three attempts races one top-up: two consumptions, and two
processes under one key, race in `billing` and `submission_settles`. Three ups give a seed cut short, its repetition,
and a reseed of a database in use. What the bounds cannot show, the proofs
do, for all but liveness.

Named bounds: one top-up in `History`, `MaxId`, `MaxVersion`, `MaxFailures`, `MaxUps`, `MaxReads`. In `Billing` every
request is sent once, so the request set is a bound; `PairOrRace`, which every step of its run
has to keep (`BoundedSpec`), allows either two requests of any bodies with a price that moves, or
three of the racing bodies at the lower price: all three of everything is beyond TLC. Only safety is
checked in that run, so the bound cuts histories short and changes nothing before the cut.

### Fairness

Safety alone is checked under specifications without fairness (`billing`, `submission_presses`,
`load_storm`). `FairSpec` of `Billing` has weak fairness of each handler's next step:
Node's event loop runs a continuation that is ready, and a lock that is free stays available to
a waiter often enough because every request takes it once and requests are finite. Nothing is
assumed of clients, timeouts, crashes, restarts or the catalog. `FairFormSpec` adds the form's
own reactions. `History`, `Dashboard` and `Shell` assume that the interval timer keeps firing and that a
request is answered or fails in the end; not that anyone writes, presses or opens anything. This
idealises one thing: React Query pauses the retries of a request while the browser is offline or the
tab hidden (polling goes on in a hidden tab, `refetchIntervalInBackground`), so `SubmissionsSettle`
and `Converges` speak of a tab that is looked at, or looked at again.
`Deployment` assumes that a container which can go on does. `CHECK_DEADLOCK FALSE` is set where
the system really stops: all requests answered (`Billing`, `Submission`), the last `compose up`
used (`Deployment`), the verdict printed (`LoadTest`).

### Where code and words part

Five runs expect a violation; each checks one sentence of the repository.

- `billing_replay_402`: the deduction's funds check precedes the insert that detects a replay,
  so the retry of a charged submission is answered 402 when the rest of the balance is below the
  cost. The comment at `consumption.service.ts:42-44` and ADR 0002 say that a replayed key
  returns the original row. No second charge happens: `ChargedOncePerKey` holds and is proved.
- `history_astray`: the credit form's `onSuccess` invalidates the history of the customer it names
  *when the 201 comes*. Press "Credit wallet" for A, B's Credit button behind the modal, then A's
  Details: the 201 refreshes B's history, and a poll of A's, served before the top-up, is shown
  after it, against "this customer's usage history" (`CreditForm.tsx:13-15`) and "invalidates this
  query immediately" (`UsageHistory.tsx:43-44`). The next poll repairs it: `ReadsOwnTopUp` says so
  and is proved. Two more ways to that one late fetch are not contradicted by a comment, and the
  same property covers them: the 201 comes with the details closed and they are opened over a fetch
  still in flight, or it comes during the very first fetch, which `invalidateQueries` joins.
- `dashboard_new_balance`: after a top-up the form prints the cached balance as the "new
  balance" until the refetch, which nobody waits for, has landed.
- `shell_wrong_row`: `ConsumeForm` copies its `customerId` into state once, and App gives it no
  `key`. Shift+Tab leads out of the modal to the row buttons behind it; Consume on another row
  then leaves the form with the customer of the first row, against "preset and locked"
  (`ConsumeForm.tsx:23`). The form shows that customer and charges that one:
  `OutcomeBesideItsCustomer` holds and is proved.
- `deployment_reseeds`: each `docker compose up` resets all seeded balances while their rows
  stay, against "data survives restarts" and "the Balance is kept consistent with the ledger".

The load test deserves a word beside these: its verdict takes an answer that was lost after the
charge for an event that was not charged. A mismatch it reports is therefore a false alarm
exactly when requests failed (`status.error`), which is what `DropIsExplained` states.

## 4. The proofs

TLAPS checks every statement of the seven modules named `*Proofs` and of `Induction`, for any
number of processes, requests, customers, products, keys, presses, retries, writes, rows, pages,
workers, ups and failures. Every invariant and every action property that a passing run checks,
and each refinement, is a theorem.

| Theorem | States |
|---|---|
| `BillingProofs!TypeCorrect` | `Spec => []TypeOK` |
| `BillingProofs!Isolated` | `Spec => []TransactionIsolation`: the draft is the committed books and exactly its own change |
| `BillingProofs!Invariant` | `Spec => []IInv` |
| `BillingProofs!WalletsNeverOverdrawn` | no committed or drafted balance is negative (ADR 0001) |
| `BillingProofs!KeysChargeOnce` | one row per key at most (ADR 0002) |
| `BillingProofs!AnswersAreTrue` | a 201 names a committed row, a committed row was answered 201 |
| `BillingProofs!OriginalsAreDurable` | the catch block's reread finds its row |
| `BillingProofs!LedgerOnlyGrows` | rows are never lost or changed, and appear in id order (ADR 0004) |
| `BillingProofs!BackendKeepsWalletPromise` | `Spec => WalletPromise`: each step is one step of `Wallet` or none |
| `BillingAuditProofs!BalanceIsTheLedger` | every committed balance is the opening balance and the sum of the customer's rows |
| `BillingAuditProofs!ListsAreOneMoment` | a list shows the balances of one committed moment |
| `SubmissionProofs!FormsAreInStep` | `FormSpec => []Ties`, with `FormSpec => []FormInv` as its lemma |
| `SubmissionProofs!PressesChargeOnce` | one row per press at most, over retries, lost answers and edited fields |
| `SubmissionProofs!SuccessIsTheCharge` | the row shown as a success is a committed row of that press |
| `SubmissionProofs!PressesKeepPurchasePromise` | `FormSpec => PurchasePromise`: each step is one of `Purchase` or none |
| `HistoryProofs!HistoryIsAChain` | `Spec => []HistoryInv` |
| `HistoryProofs!HistoryIsTyped` | `Spec => []TypeOK` of `History` |
| `HistoryProofs!HistoryHasNoGaps` | what is on screen is a block of the ledger, newest first, nothing left out or repeated |
| `HistoryProofs!LoadMoreIsOffered` | the button is there exactly when an older row exists |
| `HistoryProofs!LoadMoreIsKept` | a "load more" ends with its page, an error, or the refresh after an own top-up |
| `HistoryProofs!HistoryShowsOwnTopUp` | after an acknowledged top-up no refresh from before it is shown, but for the one fetch the 201 left in flight: none, if it named the history and that was on screen |
| `HistoryProofs!HistoryNeverGoesBack` | never fewer rows, never an older newest row |
| `DeploymentProofs!StackStaysSound` | `Spec => []DeployInv` |
| `DeploymentProofs!BackendsMeetSchema` | a serving backend has the schema and the seeded customers |
| `DeploymentProofs!SeedIsIdempotent` | a completed seed has fabricated the rows it should, whatever was cut short before |
| `DeploymentProofs!ReseedingSparesOthers` | rows that are not the heavy customer's consumptions outlive every reseeding, and are charged once |
| `DeploymentProofs!HeavyChargedOncePerUp` | those are charged at most once per `docker compose up` |
| `LoadTestProofs!EventsAreCounted` | at the verdict each event has been counted once |
| `LoadTestProofs!VerdictIsExplained` | a mismatch means failed requests, and they bound it |
| `ShellProofs!ListNeverGoesBack` | the version on screen never decreases |
| `ShellProofs!OwnWritesStayShown` | no answer read before an acknowledged write is shown after it |
| `ShellProofs!SuccessesAreFollowedUp` | an acknowledged write is on screen, being fetched, or its fetch failed and said so |
| `ShellProofs!PageKeepsItsPromises` | the three results above hold of the list under any modals |
| `ShellProofs!PageIsRestored` | one Escape listener and no scrolling with a modal open, neither without |
| `ShellProofs!OutcomesAreBesideTheirCustomer` | a consume form shows outcomes beside the customer they were posted for |
| `ShellProofs!ModalsFindTheirCustomer` | an open modal has data to look its customer up in |
| `ShellProofs!PageIsTyped` | `ShellSpec => []ShellTypeOK`, the query's part of it through `Dashboard` |

Assumptions, all on constants and evaluated by TLC on each run: opening balances and prices are
natural numbers, prices exist, the special values are outside the sets they are special to,
(`BodyAssumption`) bodies are of the three kinds the routes read, (`FieldsAssumption`) what the
form's fields can hold are consumptions, (`LoadTestAssumption`) there is a worker, as
`CONCURRENCY` is never zero, and (`DeploymentAssumption`) the seed's customers are a list.

The argument. None of the safety properties of `Billing` is inductive. `NoOverdraft` depends on
the committed balance becoming what the *draft* was, so the draft must be known; what the draft
holds depends on who has the lock and how far that transaction is; and the verdict a request
will get depends on what its transaction found out earlier and must still be true at the commit.
`IInv` states this in layers, each inductive relative to the ones before:

1. `Shape`: types, and what a handler's position says of its request (`Placed`);
2. `Isolation`: the lock's holder is inside its transaction, and the draft is the committed
   books plus exactly the change its position implies;
3. `Accounts`: no verdict before its time (`Open`), the findings of the open transaction still
   hold (`Checked`), and the properties themselves;
4. `Numbered`: no committed id is still to be handed out.

Each layer has one lemma per action, or per group of actions that leave its variables alone. The
refinement maps the variables of `Wallet` to those of the same name: lookups, rollbacks, waits,
crashes and lost answers are stutters, and the step that sets the verdict is the abstract one;
it follows from `IInv` step by step. For `Dashboard` the invariant relates the requests in
flight to the cache and to the acknowledged writes. For `Shell` it has two parts. `PageFollowsModal`
alone is not inductive: an effect that reruns saves the overflow it finds, so what it has *saved*
must be empty too while the modal is open. `OutcomeBesideItsCustomer` needs that a press a form
watches is one that was made, and a press not yet made is watched by none, so that recording whom
a new press names leaves the others alone. That each step of the page is a step of `Dashboard` or
a stutter follows action by action.

**The audit.** `Reconciled` compares a balance with a sum over the ledger. That the sum grows by
the amount of a row when the row is added is proved by induction over finite sets: the sum of the
community modules' fold does not depend on which element is taken first. Then only a commit
matters, and there `IInv` says that the draft is the old books and one row more. For a list in
flight, rows with later ids add nothing to the moment it was read at (`AppendOnly`'s reason).

**Forms.** `FormInv` adds to `IInv` what ties the two sides together: attempts of a press are sent
in turn, so that the ones not yet due have no handler; what they post and what they leave in the
ledger carries the key of the press; only consumptions are denied; what is shown is a row of the
press. `PressesChargeOnce` is then `KeysChargeOnce` for presses with a key, and for a top-up its
single attempt, which leaves one row at most. The refinement of `Purchase` maps a
commit to the press taking effect: `FormInv` before it says that the press is under way,
`ChargedOncePerSubmission` after it that the press had no row before. Every other step of the back
end is a stutter.

**History.** An answer of the endpoint is a *block*: rows of the ledger with none between them
left out. An answer to the cursor of a block is the adjacent block below it, and two adjacent
blocks are one. New rows have greater ids, so a block stays one. `HistoryInv` says that the loaded
pages, and those a fetch has collected with its answer under way, are chains of such blocks;
`NoGapsNoRepeats` and `MoreMeansMore` follow. `ReadsOwnTopUp` needs in addition that the first
page a refresh has collected is not older than the top-up, once that is heeded: heard, and no fetch
from before it in flight (`Heeded`, `Fresh`). It becomes heeded with a 201 that leaves no
older refresh in flight, or at the end of the late fetch, when nothing has been collected yet; and `NeverGoesBack` that a
refresh reads as many pages as are shown, each full but the last, over a ledger that did not
shrink: so it shows as many rows at least. The recursive functions (`Descending`, the flattening
of pages) are unfolded by induction over lengths.

**Deployment.** `ServersMeetSchema` depends on what `migrate` has behind it at each stage
(`MigrationsFirst`, `CustomersInOrder`); `SeedSparesOthers` on how many deletions can have come
before (`Wipes`, `ChargedByWipes`), the first of which precedes every charge.

**Load test.** `LoadInv` keeps two books: of the events (taken, counted, or in a worker's hands)
and of the money (what was charged, counted as charged, or charged without its answer).

Induction. The provers cannot instantiate an operator, and the induction theorems of the library
take the property as one. `Induction` states them with the property given as a *set*, from the
library's well-founded orderings; that is how sums and recursive functions are reasoned about.

What the attempts to prove found out about the models. `History` said
what a fetch shows, and the cursor it asks with, by a CASE whose guards overlapped: TLC took the
first arm, the meaning left it open. They are nested conditions now. `LoadTest` without a worker ends before it counts, and
`Submission` said nowhere that its fields are consumptions; both are assumptions now.

Only model-checked: liveness under fairness, which TLAPS does not reach: `HandlersFinish`,
`SubmissionsSettle`, `Converges` (of the list and of the history), `NoBackendWaitsForever`; and
the five counterexamples of "Where code and words part".

## 5. Not modelled

The CSS, the modal's focus and transitions, formatting of money and dates; the floating-point
parse of the credit form (TLC has no doubles); the width of the database's integers, because what
Prisma and SQLite do at its limit is not in this repository; a power loss, after which the last commits, answered
ones too, may be gone (`synchronous = NORMAL`): the file is then in an earlier committed state, of
which the invariants of the books hold, but `AppendOnly` is broken by the fall back, and nothing in
the code makes the lost answers good; CORS, JSON parsing, the health check; the standalone container that
migrates and serves; the listing of products; latencies of the load test; the tests.

## 6. Plan

Done first, because the repository stands or falls with it: the core (`Billing`), its promise
(`Wallet`), the invariant and its proof, the refinement; then the form that retries, the two
views, the deployment, the load test; then the page around the forms, the top-ups among the
presses, the abstract purchase, and the history's refresh after a top-up.

Then the proofs: the core and its refinement first, the list and the page, and after them the
audit, the forms, the history, the deployment and the load test, until every safety property of
the passing runs was a theorem.

Next:

1. Proofs: shorter ones where a step is now split more finely than a reader needs; the
   refetch of the history and of the list as instances of one query.
2. Several query keys at once: the product catalog's polling, the history of two customers.
