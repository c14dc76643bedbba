------------------------------- MODULE History -------------------------------
(***************************************************************************)
(* The usage history of one customer: the cursor-paginated endpoint        *)
(* GET /customers/:id/usage-events and the dashboard's useInfiniteQuery    *)
(* over it, while other instances keep appending ledger rows.              *)
(*                                                                         *)
(* The ledger is append-only with a monotonic integer id, so a row is its  *)
(* id: the rows of the whole table are 1..lastId and those of the customer *)
(* on display are `mine`.  What the query holds is a sequence of pages,    *)
(* each the rows of one answer and the cursor that came with it.           *)
(*                                                                         *)
(* One fetch of the query is a chain of HTTP requests, each served from    *)
(* the database at its own moment: a refresh re-reads as many pages as are *)
(* loaded, every page from the cursor of the page it has just read; "load  *)
(* more" asks for the one page after the last.                             *)
(*                                                                         *)
(* One top-up of this customer is pressed in the credit modal, which may   *)
(* be turned to another row and left for the details while the request is  *)
(* pending: the history it invalidates is that of the row it was last on.  *)
(*                                                                         *)
(* Assumed: the customer's rows are not deleted.  (A reseed of the heavy   *)
(* customer does delete them: Deployment.)                                 *)
(***************************************************************************)
EXTENDS Integers, SequencesExt

CONSTANTS
    PageSize,      \* PAGE_SIZE, the rows the view asks for
    MaxLimit,      \* MAX_USAGE_LIMIT, the most the route grants
    MaxId,         \* bound: ids the ledger hands out
    MaxFailures    \* bound: fetches that fail for good, retries included

ASSUME HistoryAssumption ==
    /\ PageSize \in Nat \ {0}
    /\ MaxLimit \in Nat \ {0}
    /\ MaxId \in Nat
    /\ MaxFailures \in Nat

VARIABLES
    lastId,        \* the last id the ledger handed out
    mine,          \* ids of this customer's rows
    open,          \* is the details modal on screen?
    pages,         \* data.pages of the query, newest page first
    flight,        \* the fetch in flight, its pages so far and its answer
    isError,       \* the last fetch failed
    failures,      \* fetches that have failed
    own,           \* the row of the operator's own top-up, Null before it
    creditForm,    \* the form it was pressed in: "none", "mounted", "left"
    named,         \* does its newest onSuccess name this customer?
    heard,         \* its 201: not "no" more, and to what effect
    late           \* a refresh asked for before the 201 is still in flight

view == <<open, pages, flight, isError, failures>>
press == <<own, creditForm, named, heard>>
topUp == <<press, late>>
vars == <<lastId, mine, view, topUp>>

Null == 0          \* no cursor; ids start at 1

Idle == [kind |-> "idle", got |-> <<>>, answer |-> <<>>]
Start(kind) == [Idle EXCEPT !.kind = kind]

Shown == FlattenSeq([i \in DOMAIN pages |-> pages[i].data])

-----------------------------------------------------------------------------
(* The endpoint. *)

Limit == Min({PageSize, MaxLimit})

(* orderBy: { id: "desc" }. *)
Descending(rows) ==
    LET down[n \in 0..lastId] ==
            IF n = 0 THEN <<>>
            ELSE (IF n \in rows THEN <<n>> ELSE <<>>) \o down[n - 1]
    IN  down[lastId]

(* findMany by id, newest first: `cursor` starts at the row it names and   *)
(* `skip: 1` leaves that row out.                                          *)
Seek(cursor) ==
    IF cursor = Null
    THEN Descending(mine)
    ELSE Tail(Descending({id \in mine : id <= cursor}))

Take(rows, n) == SubSeq(rows, 1, Min({n, Len(rows)}))

(* Mistake: no probe row, a full page is taken to have a successor. *)
ListWithoutProbe(cursor) ==
    LET page == Take(Seek(cursor), Limit)
    IN  [data |-> page,
         nextCursor |-> IF Len(page) = Limit THEN Last(page) ELSE Null]

(* One row beyond the page is read to learn whether there is another. *)
ListUsageEvents(cursor) ==
    LET rows == Take(Seek(cursor), Limit + 1)
        hasMore == Len(rows) > Limit
        page == Take(rows, Limit)
    IN  [data |-> page, nextCursor |-> IF hasMore THEN Last(page) ELSE Null]

-----------------------------------------------------------------------------
Init ==
    /\ lastId \in 0..MaxId
    /\ mine \in SUBSET (1..lastId)
    /\ open = FALSE
    /\ pages = <<>>
    /\ flight = Idle
    /\ isError = FALSE
    /\ failures = 0
    /\ own = Null
    /\ creditForm = "none"
    /\ named = TRUE
    /\ heard = "no"
    /\ late = FALSE

(* A consume or credit commits, for this customer or another. *)
AppendEntry ==
    /\ lastId < MaxId
    /\ lastId' = lastId + 1
    /\ mine' \in {mine, mine \cup {lastId + 1}}
    /\ UNCHANGED <<view, topUp>>

(* "Credit wallet" is pressed for this customer (bound: one press). *)
PressTopUp ==
    /\ ~open
    /\ creditForm = "none"
    /\ creditForm' = "mounted"
    /\ UNCHANGED <<lastId, mine, view, own, named, heard, late>>

(* The Credit button of another row, or of this one again, is pressed      *)
(* behind the modal: the same form gets another customerId, and the        *)
(* pending mutation its newest onSuccess with it.                          *)
SwitchRow ==
    /\ creditForm = "mounted"
    /\ heard = "no"
    /\ named' = ~named
    /\ UNCHANGED <<lastId, mine, view, own, creditForm, heard, late>>

(* The top-up commits. *)
CommitTopUp ==
    /\ creditForm # "none"
    /\ own = Null
    /\ lastId < MaxId
    /\ lastId' = lastId + 1
    /\ mine' = mine \cup {lastId + 1}
    /\ own' = lastId + 1
    /\ UNCHANGED <<view, creditForm, named, heard, late>>

(* Mistake: what is in flight is taken to be fresh enough. *)
InvalidateJoining == IF flight.kind = "idle" THEN Start("refresh") ELSE flight

(* invalidateQueries: the history is fetched anew, and what was in flight  *)
(* is abandoned, "load more" included, unless it is the first fetch.       *)
Invalidate ==
    IF flight.kind = "idle" \/ pages # <<>> THEN Start("refresh") ELSE flight

(* The 201 arrives.  onSuccess invalidates the history it names; one that  *)
(* is not on screen it only marks stale, which it is anyway.  A history on *)
(* screen is thus "followed" by a refresh, or gone "astray".               *)
TopUpSucceeds ==
    /\ own # Null
    /\ heard = "no"
    /\ heard' = IF ~open \/ pages = <<>> THEN "unseen"
                ELSE IF named THEN "followed" ELSE "astray"
    /\ flight' = IF open /\ named THEN Invalidate ELSE flight
    /\ isError' =
         (isError /\ ~(open /\ named /\ pages = <<>> /\ flight.kind = "idle"))
    /\ late' = (flight.kind = "refresh" /\ heard' # "followed")
    /\ UNCHANGED <<lastId, mine, open, pages, failures, own, creditForm, named>>

(* A refetch is asked for: it joins the fetch in flight, if there is one.  *)
(* A query that has never had data goes back to "loading".                 *)
Refetch ==
    /\ flight' = IF flight.kind = "idle" THEN Start("refresh") ELSE flight
    /\ isError' = (isError /\ (pages # <<>> \/ flight.kind # "idle"))

(* The modal opens, in place of the credit form if that is on screen:      *)
(* mounting the query refetches it, its data being stale at once.          *)
OpenDetails ==
    /\ ~open
    /\ open' = TRUE
    /\ Refetch
    /\ creditForm' = IF creditForm = "mounted" THEN "left" ELSE creditForm
    /\ UNCHANGED <<lastId, mine, pages, failures, own, named, heard, late>>

(* The modal closes: a fetch in flight goes on and still fills the cache. *)
CloseDetails ==
    /\ open
    /\ open' = FALSE
    /\ UNCHANGED <<lastId, mine, pages, flight, isError, failures, topUp>>

(* A query nobody watches is dropped from the cache after a while. *)
Forget ==
    /\ ~open
    /\ flight.kind = "idle"
    /\ pages' = <<>>
    /\ isError' = FALSE
    /\ UNCHANGED <<lastId, mine, open, flight, failures, topUp>>

(* Mistake: the poll abandons whatever is in flight. *)
PollRestarts ==
    /\ open
    /\ flight' = Start("refresh")
    /\ UNCHANGED <<lastId, mine, open, pages, isError, failures, topUp>>

(* Mistake: polling stops at the first error. *)
PollUntilError ==
    /\ open
    /\ ~isError
    /\ flight.kind = "idle"
    /\ Refetch
    /\ UNCHANGED <<lastId, mine, open, pages, failures, topUp>>

(* refetchInterval comes round. *)
Poll ==
    /\ open
    /\ flight.kind = "idle"
    /\ Refetch
    /\ UNCHANGED <<lastId, mine, open, pages, failures, topUp>>

HasNextPage == pages # <<>> /\ Last(pages).nextCursor # Null

(* The "Load more" button, which is rendered when there is a next page and *)
(* no error, and disabled while it is already loading one.  A refresh in   *)
(* flight is abandoned.                                                    *)
LoadMore ==
    /\ open
    /\ ~isError
    /\ HasNextPage
    /\ flight.kind # "more"
    /\ flight' = Start("more")
    /\ late' = FALSE
    /\ UNCHANGED <<lastId, mine, open, pages, isError, failures, press>>

(* Mistake: a refresh re-reads each page from the cursor it had before. *)
StoredPageParam ==
    IF flight.kind = "more" THEN Last(pages).nextCursor
    ELSE IF flight.got = <<>> THEN Null
    ELSE pages[Len(flight.got)].nextCursor

(* The cursor of the request under way. *)
PageParam ==
    IF flight.kind = "more" THEN Last(pages).nextCursor
    ELSE IF flight.got = <<>> THEN Null
    ELSE Last(flight.got).nextCursor

(* Mistake: a second answer is taken for the same request. *)
ServeAgain ==
    /\ flight.kind # "idle"
    /\ flight' = [flight EXCEPT !.answer = Append(@, ListUsageEvents(PageParam))]
    /\ UNCHANGED <<lastId, mine, open, pages, isError, failures, topUp>>

(* A backend reads the page. *)
ServePage ==
    /\ flight.kind # "idle"
    /\ flight.answer = <<>>
    /\ flight' = [flight EXCEPT !.answer = <<ListUsageEvents(PageParam)>>]
    /\ UNCHANGED <<lastId, mine, open, pages, isError, failures, topUp>>

(* Nothing left for this fetch to ask after the pages `got`. *)
Complete(got) ==
    \/ flight.kind = "more"
    \/ Len(got) >= Len(pages)
    \/ Last(got).nextCursor = Null

(* Mistake: a refresh is shown page by page, as it comes in. *)
VisibleEagerly(got) == IF flight.kind = "more" THEN pages \o got ELSE got

(* What the query holds after the pages `got`: a refresh shows as a whole. *)
Visible(got) ==
    IF flight.kind = "more" THEN pages \o got
    ELSE IF Complete(got) THEN got ELSE pages

(* The answer reaches the client, which asks for the next page while there *)
(* is one to ask for.                                                      *)
PageArrives ==
    /\ flight.answer # <<>>
    /\ LET got == flight.got \o flight.answer
       IN  /\ pages' = Visible(got)
           /\ flight' = IF Complete(got)
                        THEN Idle
                        ELSE [flight EXCEPT !.got = got, !.answer = <<>>]
           /\ isError' = (isError /\ ~Complete(got))
           /\ late' = (late /\ ~Complete(got))
    /\ UNCHANGED <<lastId, mine, open, failures, press>>

(* The fetch fails for good; the pages loaded before stay in the cache. *)
FetchFails ==
    /\ flight.kind # "idle"
    /\ failures < MaxFailures
    /\ failures' = failures + 1
    /\ flight' = Idle
    /\ isError' = TRUE
    /\ late' = FALSE
    /\ UNCHANGED <<lastId, mine, open, pages, press>>

Next ==
    \/ AppendEntry
    \/ PressTopUp
    \/ SwitchRow
    \/ CommitTopUp
    \/ TopUpSucceeds
    \/ OpenDetails
    \/ CloseDetails
    \/ Forget
    \/ Poll
    \/ LoadMore
    \/ ServePage
    \/ PageArrives
    \/ FetchFails

Spec == Init /\ [][Next]_vars

(* The interval timer keeps firing and a request is answered in the end;   *)
(* nothing is assumed of the operator or of the writers.                   *)
FairSpec == Spec /\ WF_vars(Poll) /\ WF_vars(ServePage) /\ WF_vars(PageArrives)

-----------------------------------------------------------------------------
Pages == [data : Seq(1..MaxId), nextCursor : 0..MaxId]

TypeOK ==
    /\ lastId \in 0..MaxId
    /\ mine \subseteq 1..lastId
    /\ open \in BOOLEAN
    /\ pages \in Seq(Pages)
    /\ flight.kind \in {"idle", "refresh", "more"}
    /\ flight.got \in Seq(Pages)
    /\ flight.answer \in Seq(Pages) /\ Len(flight.answer) <= 1
    /\ isError \in BOOLEAN
    /\ failures \in 0..MaxFailures
    /\ own \in mine \cup {Null}
    /\ creditForm \in {"none", "mounted", "left"}
    /\ named \in BOOLEAN
    /\ heard \in {"no", "unseen", "followed", "astray"}
    /\ late \in BOOLEAN

(* No row is skipped and none is repeated: what is on screen is exactly    *)
(* the customer's rows between the newest and the oldest shown, newest     *)
(* first, though its pages were read at different moments with rows        *)
(* committed in between.                                                   *)
NoGapsNoRepeats ==
    Shown # <<>> =>
        Shown = Descending({id \in mine : Last(Shown) <= id /\ id <= Head(Shown)})

(* The "Load more" button is there exactly when an older row exists: it    *)
(* never leads to an empty page and never hides the rest of the history.   *)
MoreMeansMore ==
    Shown # <<>> => (HasNextPage <=> \E id \in mine : id < Last(Shown))

(* A refresh or a further page never takes the history back: the newest    *)
(* row shown only gets newer, and rows loaded by "Load more" are not       *)
(* folded away again by the next poll.                                     *)
NeverGoesBack ==
    [][pages' # pages /\ pages' # <<>> =>
          /\ Len(Shown') >= Len(Shown)
          /\ Shown # <<>> => Head(Shown') >= Head(Shown)]_vars

(* A press of "Load more" is never lost to the polling beside it: its      *)
(* fetch ends with one more page on screen or with an error, or it gives   *)
(* way to the refresh that follows the operator's own top-up.              *)
LoadMoreIsNotLost ==
    [][flight.kind = "more" /\ flight'.kind # "more" =>
          Len(pages') = Len(pages) + 1 \/ isError' \/ (heard = "no" /\ heard' = "followed")]_vars

(* Once the 201 of a top-up was heard, every refresh shows the top-up,     *)
(* save one: the fetch then in flight, if it was not abandoned.  It is     *)
(* abandoned when the history was on screen and onSuccess named it; it is  *)
(* not when the details were closed or loading for the first time          *)
(* ("unseen"), or when the form had gone to another row ("astray").        *)
ReadsOwnTopUp ==
    [][heard # "no" /\ ~late /\ flight.kind = "refresh" /\ pages' # pages =>
          Shown' # <<>> /\ Head(Shown') >= own]_vars

(* CreditForm.tsx "On a successful top-up it invalidates ... this          *)
(* customer's usage history (a CREDIT row was appended)": no refresh shows *)
(* the history from before the top-up once the 201 was heard with it on    *)
(* screen.  The code breaks it for a form that was turned to another row.  *)
TopUpReachesHistory ==
    [][flight.kind = "refresh" /\ heard \in {"followed", "astray"} /\ pages' # pages =>
          Shown' # <<>> /\ Head(Shown') >= own]_vars

(* The view converges: if the details stay open and the writers stop, the  *)
(* newest row is shown in the end, after any failures.                     *)
Newest == Take(Descending(mine), 1)
Converges ==
    <>[]open => <>[](~isError /\ pages # <<>> /\ Take(Shown, 1) = Newest)

=============================================================================
