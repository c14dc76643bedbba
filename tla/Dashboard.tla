------------------------------ MODULE Dashboard ------------------------------
(***************************************************************************)
(* The dashboard's view of the customers: the shared React Query           *)
(* ["customers"], which every component reads, its 5 s polling, and the    *)
(* refetch that a successful mutation of the operator's own triggers.      *)
(*                                                                         *)
(* The database is a counter of committed writes, its version; the cache   *)
(* holds the version its data was read at.  The requests of a fetch are    *)
(* served by any backend, at any time after they were sent, and answered   *)
(* at any time after that.  Replacing a fetch does not abort its request   *)
(* (queryFn takes no AbortSignal): its answer still arrives, and is to be  *)
(* dropped.                                                                *)
(***************************************************************************)
EXTENDS Integers, FiniteSets

CONSTANTS
    Forms,         \* submissions of ConsumeForm and CreditForm
    MaxVersion,    \* bound: writes that commit, anybody's
    MaxFailures    \* bound: fetches that fail for good

ASSUME DashboardAssumption ==
    /\ IsFiniteSet(Forms)
    /\ MaxVersion \in Nat
    /\ MaxFailures \in Nat

VARIABLES
    version,       \* writes committed to the database
    cache,         \* version of the query's data, or NoData
    fetch,         \* the request of the query's own fetch
    replaced,      \* for each form, the request its success has replaced
    isError,       \* the last fetch failed
    form,          \* status of each submission, and its write's version
    failures       \* fetches that have failed

vars == <<version, cache, fetch, replaced, isError, form, failures>>

(* A request is not sent, sent, or served and carries the version read. *)
NoData == -1
None == -2
Sent == -1
Served(request) == request >= 0
InFlight(request) == request # None

Written(f) == form[f].at > 0
OwnWritesShown == {f \in Forms : form[f].status = "success"}

-----------------------------------------------------------------------------
Init ==
    /\ version = 0
    /\ cache = NoData
    /\ fetch = Sent
    /\ replaced = [f \in Forms |-> None]
    /\ isError = FALSE
    /\ form = [f \in Forms |-> [status |-> "idle", at |-> 0]]
    /\ failures = 0

(* A write of another operator, instance or system commits. *)
ExternalWrite ==
    /\ version < MaxVersion
    /\ version' = version + 1
    /\ UNCHANGED <<cache, fetch, replaced, isError, form, failures>>

(* Mistake: the query polls until it has data. *)
PollUntilLoaded ==
    /\ cache = NoData
    /\ ~InFlight(fetch)
    /\ fetch' = Sent
    /\ isError' = FALSE
    /\ UNCHANGED <<version, cache, replaced, form, failures>>

(* The interval comes round, a form mounts, the window is focused: the     *)
(* query is refetched, unless a fetch is in flight, which is then joined.  *)
(* Without data the query goes back from an error to loading.              *)
Poll ==
    /\ ~InFlight(fetch)
    /\ fetch' = Sent
    /\ isError' = (isError /\ cache # NoData)
    /\ UNCHANGED <<version, cache, replaced, form, failures>>

(* The operator submits a form, opened from a row of the loaded list. *)
Submit(f) ==
    /\ form[f].status = "idle"
    /\ cache # NoData
    /\ form' = [form EXCEPT ![f].status = "pending"]
    /\ UNCHANGED <<version, cache, fetch, replaced, isError, failures>>

(* Its write commits. *)
Write(f) ==
    /\ form[f].status = "pending"
    /\ ~Written(f)
    /\ version < MaxVersion
    /\ version' = version + 1
    /\ form' = [form EXCEPT ![f].at = version']
    /\ UNCHANGED <<cache, fetch, replaced, isError, failures>>

(* Mistake: invalidating joins the fetch in flight. *)
InvalidateJoining(f) ==
    /\ fetch' = IF InFlight(fetch) THEN fetch ELSE Sent
    /\ UNCHANGED replaced

(* invalidateQueries replaces a fetch in flight by a new one. *)
Invalidate(f) ==
    /\ replaced' = [replaced EXCEPT ![f] = fetch]
    /\ fetch' = Sent

(* The mutation succeeds, and its onSuccess runs. *)
Succeed(f) ==
    /\ form[f].status = "pending"
    /\ Written(f)
    /\ form' = [form EXCEPT ![f].status = "success"]
    /\ Invalidate(f)
    /\ UNCHANGED <<version, cache, isError, failures>>

(* The mutation fails, its write denied or its answer lost. *)
Fail(f) ==
    /\ form[f].status = "pending"
    /\ form' = [form EXCEPT ![f].status = "error"]
    /\ UNCHANGED <<version, cache, fetch, replaced, isError, failures>>

(* Mistake: a backend answers from what it read at some earlier time. *)
ServeFromMemory ==
    /\ fetch = Sent
    /\ fetch' \in 0..version
    /\ UNCHANGED <<version, cache, replaced, isError, form, failures>>

(* A backend serves the fetch: one findMany, one snapshot. *)
Serve ==
    /\ fetch = Sent
    /\ fetch' = version
    /\ UNCHANGED <<version, cache, replaced, isError, form, failures>>

ServeReplaced(f) ==
    /\ replaced[f] = Sent
    /\ replaced' = [replaced EXCEPT ![f] = version]
    /\ UNCHANGED <<version, cache, fetch, isError, form, failures>>

(* Its answer arrives and becomes the data. *)
Arrive ==
    /\ Served(fetch)
    /\ cache' = fetch
    /\ fetch' = None
    /\ isError' = FALSE
    /\ UNCHANGED <<version, replaced, form, failures>>

(* The answer to a replaced fetch arrives and is dropped. *)
ArriveReplaced(f) ==
    /\ Served(replaced[f])
    /\ replaced' = [replaced EXCEPT ![f] = None]
    /\ UNCHANGED <<version, cache, fetch, isError, form, failures>>

(* The fetch fails, its retries included; the data stays. *)
FetchFails ==
    /\ InFlight(fetch)
    /\ failures < MaxFailures
    /\ failures' = failures + 1
    /\ fetch' = None
    /\ isError' = TRUE
    /\ UNCHANGED <<version, cache, replaced, form>>

(* Everything that happens without the operator or a mutation's success. *)
Background ==
    \/ ExternalWrite
    \/ Poll
    \/ Serve
    \/ Arrive
    \/ FetchFails
    \/ \E f \in Forms : Write(f) \/ Fail(f) \/ ServeReplaced(f) \/ ArriveReplaced(f)

Next == Background \/ \E f \in Forms : Submit(f) \/ Succeed(f)

Spec == Init /\ [][Next]_vars

(* The timer keeps firing and requests are answered in the end; nothing is *)
(* assumed of operators and writers.                                       *)
FairSpec == Spec /\ WF_vars(Poll) /\ WF_vars(Serve) /\ WF_vars(Arrive)

-----------------------------------------------------------------------------
Requests == {None, Sent} \cup 0..MaxVersion

TypeOK ==
    /\ version \in 0..MaxVersion
    /\ cache \in {NoData} \cup 0..version
    /\ fetch \in Requests
    /\ replaced \in [Forms -> Requests]
    /\ isError \in BOOLEAN
    /\ form \in [Forms -> [status : {"idle", "pending", "success", "error"},
                           at : 0..MaxVersion]]
    /\ failures \in 0..MaxFailures

(* Once the operator has been told that a submission succeeded, no answer  *)
(* read before its write is put on screen any more, whichever fetch was in *)
(* flight and in whatever order the answers come.                          *)
ReadsOwnWrites ==
    [][cache' # cache => \A f \in OwnWritesShown : cache' >= form[f].at]_vars

(* The balances on screen never go back to an earlier state of the books.  *)
NeverGoesBack == [][cache' >= cache]_vars

(* A success is followed up at once: until the screen reflects the write,  *)
(* a fetch made after it is under way, or the last one failed and said so. *)
SuccessIsFollowedUp ==
    \A f \in OwnWritesShown :
        cache >= form[f].at \/ InFlight(fetch) \/ isError

(* "Credited $5.00 - new balance ...": the balance a finished top-up shows *)
(* as the new one includes the top-up.                                     *)
NewBalanceIsNew == \A f \in OwnWritesShown : cache >= form[f].at

(* When the writes stop the screen shows the books as they are, whoever    *)
(* wrote and whatever failed before.                                       *)
Converges == <>[](cache = version /\ ~isError)

=============================================================================
