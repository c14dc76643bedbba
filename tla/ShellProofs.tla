----------------------------- MODULE ShellProofs -----------------------------
(***************************************************************************)
(* For any number of customers, submissions and writes: the page follows   *)
(* its modal, a modal finds its customer, an outcome stands beside the     *)
(* customer it is about, and the query behind the page behaves as          *)
(* Dashboard says, so that what is proved of the query holds of the page.  *)
(***************************************************************************)
EXTENDS Shell, TLAPS

-----------------------------------------------------------------------------
(***************************************************************************)
(* The query.  What the list shows never goes back, and never lacks a      *)
(* write the operator was told about, because of one fact, Ordered: the    *)
(* query's own fetch is never older than the data on screen, nor than any  *)
(* success.  A success keeps it by replacing a fetch that might be older;  *)
(* that an answer to a replaced fetch is dropped is why the invariant need *)
(* not mention it.                                                         *)
(***************************************************************************)

\* What the state of the query says of the versions it holds.
Numbers == /\ version \in Int
           /\ cache \in Int
           /\ fetch \in Int
           /\ \A f \in Forms : form[f].at \in Int

\* The fetch, once served, carries at least what is shown and what succeeded.
Ordered == /\ version >= 0
           /\ cache <= version
           /\ fetch <= version
           /\ \A f \in Forms : form[f].at <= version
           /\ Served(fetch) => /\ cache <= fetch
                               /\ \A f \in OwnWritesShown : form[f].at <= fetch

Records == form \in [Forms -> [status : {"idle", "pending", "success", "error"},
                               at : Int]]

IInv == Records /\ Numbers /\ Ordered

LEMMA InitOrdered == Init => IInv
  BY DEF Init, IInv, Records, Numbers, Ordered, OwnWritesShown, Served, NoData, Sent

\* Steps that neither submit, write nor succeed leave every form alone.
LEMMA QuerySteps ==
    ASSUME IInv, ExternalWrite \/ Poll \/ Serve \/ Arrive \/ FetchFails
    PROVE  IInv'
  <1>. USE DEF IInv, Records, Numbers, Ordered, OwnWritesShown, Served, InFlight,
               NoData, None, Sent
  <1>1. CASE ExternalWrite  BY <1>1 DEF ExternalWrite
  <1>2. CASE Poll           BY <1>2 DEF Poll
  <1>3. CASE Serve          BY <1>3 DEF Serve
  <1>4. CASE Arrive         BY <1>4 DEF Arrive
  <1>5. CASE FetchFails     BY <1>5 DEF FetchFails
  <1> QED BY <1>1, <1>2, <1>3, <1>4, <1>5

LEMMA FormSteps ==
    ASSUME IInv, NEW f \in Forms,
           \/ Submit(f) \/ Write(f) \/ Succeed(f) \/ Fail(f)
           \/ ServeReplaced(f) \/ ArriveReplaced(f)
    PROVE  IInv'
  <1>. USE DEF IInv, Records, Numbers, Ordered, OwnWritesShown, Served, InFlight,
               NoData, None, Sent, Written
  <1>1. CASE Submit(f)          BY <1>1 DEF Submit
  <1>2. CASE Write(f)           BY <1>2 DEF Write
  <1>3. CASE Succeed(f)         BY <1>3 DEF Succeed, Invalidate
  <1>4. CASE Fail(f)            BY <1>4 DEF Fail
  <1>5. CASE ServeReplaced(f)   BY <1>5 DEF ServeReplaced
  <1>6. CASE ArriveReplaced(f)  BY <1>6 DEF ArriveReplaced
  <1> QED BY <1>1, <1>2, <1>3, <1>4, <1>5, <1>6

LEMMA OrderedNext == IInv /\ [Next]_vars => IInv'
  <1>. SUFFICES ASSUME IInv, [Next]_vars PROVE IInv'
    OBVIOUS
  <1>1. CASE UNCHANGED vars
    BY <1>1 DEF vars, IInv, Records, Numbers, Ordered, OwnWritesShown, Served
  <1>2. CASE Next
    BY <1>2, QuerySteps, FormSteps DEF Next, Background
  <1> QED BY <1>1, <1>2

\* The inductive invariant of the customers query.
THEOREM QueryIsOrdered == Spec => []IInv
  BY InitOrdered, OrderedNext, PTL DEF Spec

\* The query's variables hold versions that have been committed: nothing is
\* shown or fetched that was never written.
LEMMA QueryTypesStart == Init => TypeOK
  <1>. SUFFICES ASSUME Init PROVE TypeOK
    OBVIOUS
  <1>. USE DashboardAssumption DEF Init
  <1>1. version \in 0..MaxVersion /\ failures \in 0..MaxFailures
    OBVIOUS
  <1>2. cache \in {NoData} \cup 0..version /\ fetch \in Requests
    BY DEF Requests
  <1>3. replaced \in [Forms -> Requests]
    BY DEF Requests
  <1>4. form \in [Forms -> [status : {"idle", "pending", "success", "error"},
                           at : 0..MaxVersion]]
    OBVIOUS
  <1> QED BY <1>1, <1>2, <1>3, <1>4 DEF TypeOK

LEMMA QueryTypesStay == IInv /\ TypeOK /\ [Next]_vars => TypeOK'
  <1>. SUFFICES ASSUME IInv, TypeOK, [Next]_vars PROVE TypeOK'
    OBVIOUS
  <1>. USE DashboardAssumption
       DEF TypeOK, Requests, NoData, None, Sent, Served, InFlight
  <1>1. CASE UNCHANGED vars  BY <1>1 DEF vars
  <1>2. CASE ExternalWrite   BY <1>2 DEF ExternalWrite
  <1>3. CASE Poll
    <2>1. isError' \in BOOLEAN  BY <1>3, Zenon DEF Poll
    <2> QED BY <1>3, <2>1 DEF Poll
  <1>4. CASE Serve           BY <1>4 DEF Serve
  <1>5. CASE Arrive
    <2>1. fetch \in 0..version /\ version \in Int
      BY <1>5 DEF Arrive, IInv, Ordered
    <2>2. cache' \in {NoData} \cup 0..version'
      BY <1>5, <2>1 DEF Arrive
    <2>3. UNCHANGED <<version, replaced, form, failures>> /\ fetch' = None /\ isError' = FALSE
      BY <1>5 DEF Arrive
    <2> QED BY <2>2, <2>3
  <1>6. CASE FetchFails      BY <1>6 DEF FetchFails
  <1>7. ASSUME NEW f \in Forms, \/ Submit(f) \/ Write(f) \/ Succeed(f) \/ Fail(f)
                                \/ ServeReplaced(f) \/ ArriveReplaced(f)
        PROVE  TypeOK'
    <2>1. CASE Submit(f)          BY <2>1 DEF Submit
    <2>2. CASE Write(f)           BY <2>2 DEF Write
    <2>3. CASE Succeed(f)         BY <2>3 DEF Succeed, Invalidate
    <2>4. CASE Fail(f)            BY <2>4 DEF Fail
    <2>5. CASE ServeReplaced(f)   BY <2>5 DEF ServeReplaced
    <2>6. CASE ArriveReplaced(f)  BY <2>6 DEF ArriveReplaced
    <2> QED BY <1>7, <2>1, <2>2, <2>3, <2>4, <2>5, <2>6
  <1> QED BY <1>1, <1>2, <1>3, <1>4, <1>5, <1>6, <1>7 DEF Next, Background

\* The type invariant of Dashboard, for every instance.
THEOREM QueryIsTyped == Spec => []TypeOK
  BY QueryTypesStart, QueryTypesStay, QueryIsOrdered, PTL DEF Spec

\* Only an answer to the query's own fetch changes what is on screen.
LEMMA OnlyArriveShows == [Next]_vars /\ cache' # cache => Arrive
  BY DEF Next, Background, vars, ExternalWrite, Poll, Serve, Arrive, FetchFails, Submit, Write,
         Succeed, Invalidate, Fail, ServeReplaced, ArriveReplaced

\* The balances on screen never go back to an earlier state of the books,
\* whichever fetches were joined, replaced, failed or answered late.
THEOREM ListNeverGoesBack == Spec => NeverGoesBack
  <1>1. IInv /\ [Next]_vars => [cache' >= cache]_vars
    <2>. SUFFICES ASSUME IInv, [Next]_vars PROVE cache' >= cache
      OBVIOUS
    <2>1. CASE cache' = cache
      BY <2>1 DEF IInv, Numbers
    <2>2. CASE Arrive
      BY <2>2 DEF Arrive, IInv, Ordered, Numbers
    <2> QED BY <2>1, <2>2, OnlyArriveShows
  <1> QED BY <1>1, QueryIsOrdered, PTL DEF Spec, NeverGoesBack

\* After a success the screen never takes an answer read before its write.
THEOREM OwnWritesStayShown == Spec => ReadsOwnWrites
  <1>1. IInv /\ [Next]_vars
          => [cache' # cache => \A f \in OwnWritesShown : cache' >= form[f].at]_vars
    <2>. SUFFICES ASSUME IInv, [Next]_vars, cache' # cache, NEW f \in OwnWritesShown
                  PROVE  cache' >= form[f].at
      OBVIOUS
    <2>1. Arrive
      BY OnlyArriveShows
    <2> QED BY <2>1 DEF Arrive, IInv, Ordered, Numbers, OwnWritesShown
  <1> QED BY <1>1, QueryIsOrdered, PTL DEF Spec, ReadsOwnWrites

\* Until the screen reflects an acknowledged write, a fetch that will is on its
\* way, or the last one has failed and says so.
THEOREM SuccessesAreFollowedUp == Spec => []SuccessIsFollowedUp
  <1>. USE DEF SuccessIsFollowedUp, OwnWritesShown
  <1>1. Init => SuccessIsFollowedUp
    BY DEF Init
  <1>2. IInv /\ SuccessIsFollowedUp /\ [Next]_vars => SuccessIsFollowedUp'
    <2>. SUFFICES ASSUME IInv, SuccessIsFollowedUp, [Next]_vars
                  PROVE  SuccessIsFollowedUp'
      OBVIOUS
    <2>. USE DEF InFlight, None, Sent
    <2>1. CASE UNCHANGED vars  BY <2>1 DEF vars
    <2>2. CASE Arrive
      BY <2>2 DEF Arrive, IInv, Ordered, Numbers
    <2>3. CASE ExternalWrite \/ Poll \/ Serve \/ FetchFails
      BY <2>3 DEF ExternalWrite, Poll, Serve, FetchFails, IInv, Numbers, Ordered
    <2>4. ASSUME NEW f \in Forms,
                 \/ Submit(f) \/ Write(f) \/ Succeed(f) \/ Fail(f)
                 \/ ServeReplaced(f) \/ ArriveReplaced(f)
          PROVE  SuccessIsFollowedUp'
      BY <2>4 DEF Submit, Write, Succeed, Invalidate, Fail, ServeReplaced,
                  ArriveReplaced, IInv, Records
    <2> QED BY <2>1, <2>2, <2>3, <2>4 DEF Next, Background
  <1> QED BY <1>1, <1>2, QueryIsOrdered, PTL DEF Spec

-----------------------------------------------------------------------------
(***************************************************************************)
(* The page.  The invariant says of each variable what the open modal      *)
(* determines: the document's state entirely, the form's customer and      *)
(* submission as far as the outcome shown depends on them.                 *)
(***************************************************************************)

\* The page without a modal and with one.
Closed == [listeners |-> 0, overflow |-> "", saved |-> ""]
Opened == [listeners |-> 1, overflow |-> "hidden", saved |-> ""]

\* Only the outermost effect is live, and what it saved is the page without it.
PageInv == page = IF IsOpen THEN Opened ELSE Closed

\* A consume form holds a customer, and its submission was posted for that one.
FieldsInv ==
    /\ posted \in [Forms -> Customers \cup {NoCustomer}]
    /\ fields \in [customer : Customers \cup {NoCustomer}, filled : BOOLEAN,
                   press : Forms \cup {NoPress}]
    /\ active.action = "consume" /\ fields.press # NoPress =>
          posted[fields.press] = fields.customer

ModalInv ==
    active \in {NoModal} \cup [customer : Customers, action : FormActions \cup {"details"}]

ViewInv == PageInv /\ FieldsInv /\ ModalInv

LEMMA InitView == ShellInit => ViewInv
  <1>. SUFFICES ASSUME ShellInit PROVE ViewInv
    OBVIOUS
  <1>. USE DEF ShellInit, NoForm, Fresh, NoModal, IsOpen
  <1>1. PageInv    BY DEF PageInv, Closed
  <1>2. FieldsInv  BY DEF FieldsInv
  <1>3. ModalInv   BY DEF ModalInv
  <1> QED BY <1>1, <1>2, <1>3 DEF ViewInv

\* What the effect and its cleanup make of the page.
LEMMA Effects == /\ Effect(Closed) = Opened
                 /\ Cleanup(Opened) = Closed
                 /\ Rerun(Opened) = Opened
  BY DEF Effect, Cleanup, Rerun, Closed, Opened

\* The steps that mount or unmount a component.
LEMMA ModalSteps ==
    ASSUME ViewInv, \/ Close
           \/ \E c \in Customers, a \in FormActions \cup {"details"} : Open(c, a)
    PROVE  ViewInv'
  <1>. USE DEF ViewInv, PageInv, FieldsInv, ModalInv, NoForm, Fresh, NoModal, IsOpen,
               FormActions
  <1>1. CASE Close
    BY <1>1, Effects, ShellAssumption DEF Close
  <1>2. ASSUME NEW c \in Customers, NEW a \in FormActions \cup {"details"}, Open(c, a)
        PROVE  ViewInv'
    BY <1>2, Effects, ShellAssumption DEF Open
  <1> QED BY <1>1, <1>2

\* The steps of the operator within an open modal, and a row button behind it.
LEMMA FormFieldSteps ==
    ASSUME ViewInv,
           \/ Edit
           \/ \E c \in Customers : Switch(c)
           \/ \E f \in Forms : Press(f) \/ Settle(f)
    PROVE  ViewInv'
  <1>. USE DEF ViewInv, PageInv, FieldsInv, ModalInv, NoModal, IsOpen, FormActions
  <1>1. CASE Edit
    BY <1>1 DEF Edit
  <1>2. ASSUME NEW c \in Customers, Switch(c) PROVE ViewInv'
    BY <1>2, Effects, ShellAssumption DEF Switch, FieldsKept
  <1>3. ASSUME NEW f \in Forms, Press(f) PROVE ViewInv'
    BY <1>3, ShellAssumption DEF Press, CanSubmit, NamedCustomer
  <1>4. ASSUME NEW f \in Forms, Settle(f) PROVE ViewInv'
    BY <1>4 DEF Settle
  <1> QED BY <1>1, <1>2, <1>3, <1>4

LEMMA ViewNext == ViewInv /\ [ShellNext]_shellVars => ViewInv'
  <1>. SUFFICES ASSUME ViewInv, [ShellNext]_shellVars PROVE ViewInv'
    OBVIOUS
  <1>1. CASE UNCHANGED shell
    BY <1>1 DEF shell, ViewInv, PageInv, FieldsInv, ModalInv, IsOpen
  <1>2. CASE ShellNext
    BY <1>1, <1>2, ModalSteps, FormFieldSteps DEF ShellNext
  <1> QED BY <1>1, <1>2 DEF shellVars

\* The inductive invariant of the page around the query.
THEOREM ViewIsOrdered == ShellSpec => []ViewInv
  BY InitView, ViewNext, PTL DEF ShellSpec

\* No modal leaves the page unscrollable or a listener behind, however often
\* the effect reruns under it.
THEOREM PageIsRestored == ShellSpec => []PageFollowsModal
  <1>1. ViewInv => PageFollowsModal
    <2>. SUFFICES ASSUME ViewInv PROVE PageFollowsModal
      OBVIOUS
    <2>1. CASE IsOpen   BY <2>1 DEF ViewInv, PageInv, PageFollowsModal, Opened
    <2>2. CASE ~IsOpen  BY <2>2 DEF ViewInv, PageInv, PageFollowsModal, Closed
    <2> QED BY <2>1, <2>2
  <1> QED BY <1>1, ViewIsOrdered, PTL

\* What a consume form reports is about the customer it names.
THEOREM OutcomesAreBesideTheirCustomer == ShellSpec => []OutcomeBesideItsCustomer
  <1>1. ViewInv => OutcomeBesideItsCustomer
    BY DEF ViewInv, FieldsInv, OutcomeBesideItsCustomer, NamedCustomer
  <1> QED BY <1>1, ViewIsOrdered, PTL

-----------------------------------------------------------------------------
\* Each step of the page is a step of Dashboard's query or none.
LEMMA PageStep == [ShellNext]_shellVars => [Next]_vars
  BY DEF ShellNext, Next, Background, Open, Switch, Close, Edit, Press, Settle,
         shellVars, shell, vars

\* So what is proved of Dashboard is proved of the page.
LEMMA PageIsDashboard == ShellSpec => Spec
  <1>1. ShellInit => Init
    BY DEF ShellInit
  <1> QED BY <1>1, PageStep, PTL DEF ShellSpec, Spec

\* Data, once there, stays: only an answer replaces it.
LEMMA DataStays == IInv /\ [Next]_vars /\ cache # NoData => cache' # NoData
  <1>. SUFFICES ASSUME IInv, [Next]_vars, cache # NoData, cache' # cache
                PROVE  cache' # NoData
    OBVIOUS
  <1>1. Arrive
    BY OnlyArriveShows
  <1> QED BY <1>1 DEF Arrive, Served, NoData, IInv, Numbers

\* A modal opens only over loaded data, so it always finds its customer.
THEOREM ModalsFindTheirCustomer == ShellSpec => []ModalFindsItsCustomer
  <1>1. ShellInit => ModalFindsItsCustomer
    BY DEF ShellInit, ModalFindsItsCustomer, IsOpen
  <1>2. IInv /\ ModalFindsItsCustomer /\ [ShellNext]_shellVars => ModalFindsItsCustomer'
    <2>. SUFFICES ASSUME IInv, ModalFindsItsCustomer, [ShellNext]_shellVars, IsOpen'
                  PROVE  cache' # NoData
      BY DEF ModalFindsItsCustomer
    <2>1. cache # NoData
      BY DEF ShellNext, shellVars, shell, ModalFindsItsCustomer, IsOpen, Open, RowsShown,
             Switch, Close, Edit, Press, Settle
    <2> QED BY <2>1, PageStep, DataStays
  <1>3. ShellSpec => []IInv
    BY PageIsDashboard, QueryIsOrdered, PTL
  <1> QED BY <1>1, <1>2, <1>3, PTL DEF ShellSpec

\* The page holds what its components declare: at most one listener and one
\* scroll lock, a form for a customer of the list, a submission that was made.
THEOREM PageIsTyped == ShellSpec => []ShellTypeOK
  <1>1. TypeOK /\ ViewInv => ShellTypeOK
    <2>. SUFFICES ASSUME TypeOK, ViewInv PROVE ShellTypeOK
      OBVIOUS
    <2>1. page \in [listeners : 0..1, overflow : {"", "hidden"}, saved : {"", "hidden"}]
      <3>1. page = Opened \/ page = Closed
        BY DEF ViewInv, PageInv
      <3>2. \A n \in 0..1, o \in {"", "hidden"}, s \in {"", "hidden"} :
               [listeners |-> n, overflow |-> o, saved |-> s]
                  \in [listeners : 0..1, overflow : {"", "hidden"}, saved : {"", "hidden"}]
        OBVIOUS
      <3>3. 0 \in 0..1 /\ 1 \in 0..1
        OBVIOUS
      <3> QED BY <3>1, <3>2, <3>3 DEF Opened, Closed
    <2> QED BY <2>1 DEF ShellTypeOK, ViewInv, FieldsInv, ModalInv
  <1>2. ShellSpec => []TypeOK
    BY PageIsDashboard, QueryIsTyped, PTL
  <1> QED BY <1>1, <1>2, ViewIsOrdered, PTL

\* So the operator sees, under any modals, what Dashboard promises: the list
\* never goes back, shows every acknowledged write, and follows each one up.
THEOREM PageKeepsItsPromises ==
    ShellSpec => NeverGoesBack /\ ReadsOwnWrites /\ []SuccessIsFollowedUp
  BY PageIsDashboard, ListNeverGoesBack, OwnWritesStayShown, SuccessesAreFollowedUp, PTL
=============================================================================
