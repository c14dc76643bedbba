-------------------------------- MODULE Shell --------------------------------
(***************************************************************************)
(* The page around the forms: the rows of the customer list, whose buttons *)
(* open a modal (App), the modal's hold on the page (Modal), and the state *)
(* of the form inside it (ConsumeForm, CreditForm), over the shared query  *)
(* of Dashboard.                                                           *)
(*                                                                         *)
(* The modal does not trap the keyboard: with one open, Shift+Tab leads    *)
(* back to the row buttons behind it, and pressing one replaces `active`   *)
(* under the mounted Modal.  Another action mounts another component; the  *)
(* same action for another customer only changes the props of the form     *)
(* that is there, which has no `key`: its state, and the mutation it       *)
(* watches, stay.                                                          *)
(***************************************************************************)
EXTENDS Dashboard

CONSTANTS
    Customers,     \* the rows of the list
    NoCustomer,    \* no modal is open, or no form holds a customer
    NoPress        \* a form that watches no submission

ASSUME ShellAssumption == NoCustomer \notin Customers /\ NoPress \notin Forms

VARIABLES
    active,        \* App: the customer and the action of the open modal
    page,          \* Modal: what its effect does to the document
    fields,        \* the mounted form: customer, valid input?, submission
    posted         \* the customer that each POST named

shell == <<active, page, fields, posted>>
shellVars == <<vars, shell>>

FormActions == {"consume", "credit"}
NoModal == [customer |-> NoCustomer, action |-> "none"]
IsOpen == active # NoModal

(* useState of a form opened for customer c. *)
Fresh(c) == [customer |-> c, filled |-> FALSE, press |-> NoPress]
NoForm == Fresh(NoCustomer)

-----------------------------------------------------------------------------
(* The effect of Modal: it listens to Escape and stops the body scrolling. *)
Effect(p) ==
    [listeners |-> p.listeners + 1, overflow |-> "hidden", saved |-> p.overflow]

(* Mistake: the listener is left behind. *)
CleanupScrollOnly(p) ==
    [listeners |-> p.listeners, overflow |-> p.saved, saved |-> p.saved]

Cleanup(p) ==
    [listeners |-> p.listeners - 1, overflow |-> p.saved, saved |-> p.saved]

(* Mistake: the next effect runs before the last one is cleaned up. *)
RerunInPlace(p) == Cleanup(Effect(p))

(* onClose is a new function each time App renders, so the effect reruns. *)
Rerun(p) == Effect(Cleanup(p))

ShellInit ==
    /\ Init
    /\ active = NoModal
    /\ page = [listeners |-> 0, overflow |-> "", saved |-> ""]
    /\ fields = NoForm
    /\ posted = [f \in Forms |-> NoCustomer]

(* Mistake: the buttons outlive the data they were drawn from. *)
RowsAlways == TRUE

(* The list draws its rows when it has data and its last fetch succeeded. *)
RowsShown == cache # NoData /\ ~isError

(* A row button opens another modal than the one on screen, if any.  The   *)
(* component inside is mounted, and its useQuery refetches, or joins.      *)
Open(c, a) ==
    /\ RowsShown
    /\ active.action # a
    /\ active' = [customer |-> c, action |-> a]
    /\ page' = IF IsOpen THEN Rerun(page) ELSE Effect(page)
    /\ fields' = IF a \in FormActions THEN Fresh(c) ELSE NoForm
    /\ IF InFlight(fetch) THEN UNCHANGED vars ELSE Poll
    /\ UNCHANGED posted

(* Mistake: the form follows its prop and keeps the rest of its state. *)
FieldsOnSwitch(c) ==
    IF active.action = "consume" THEN [fields EXCEPT !.customer = c] ELSE fields

(* The same component is rendered again: what it holds does not change. *)
FieldsKept(c) == fields

(* A row button for the action on screen: the same component, new props. *)
Switch(c) ==
    /\ RowsShown
    /\ IsOpen
    /\ active' = [active EXCEPT !.customer = c]
    /\ page' = Rerun(page)
    /\ fields' = FieldsKept(c)
    /\ UNCHANGED <<vars, posted>>

(* Escape, a press on the backdrop, or the close button. *)
Close ==
    /\ IsOpen
    /\ active' = NoModal
    /\ page' = Cleanup(page)
    /\ fields' = NoForm
    /\ UNCHANGED <<vars, posted>>

(* The operator types: the input becomes valid, or stops being so. *)
Edit ==
    /\ active.action \in FormActions
    /\ fields' = [fields EXCEPT !.filled = ~@]
    /\ UNCHANGED <<vars, active, page, posted>>

(* The customer a form names: ConsumeForm's own state, CreditForm's prop. *)
NamedCustomer ==
    IF active.action = "consume" THEN fields.customer ELSE active.customer

Pending == fields.press # NoPress /\ form[fields.press].status = "pending"
CanSubmit == active.action \in FormActions /\ fields.filled /\ ~Pending

(* onSubmit: a mutation starts and the form watches it. *)
Press(f) ==
    /\ CanSubmit
    /\ Submit(f)
    /\ fields' = [fields EXCEPT !.press = f]
    /\ posted' = [posted EXCEPT ![f] = NamedCustomer]
    /\ UNCHANGED <<active, page>>

(* Mistake: the callback belongs to the component, not to the mutation. *)
SettleIfWatched(f) ==
    /\ \/ fields.press = f /\ Succeed(f)
       \/ /\ fields.press # f
          /\ form[f].status = "pending" /\ Written(f)
          /\ form' = [form EXCEPT ![f].status = "success"]
          /\ UNCHANGED <<version, cache, fetch, replaced, isError, failures>>
    /\ UNCHANGED shell

(* A success runs the mutation's onSuccess, mounted or not, and empties    *)
(* the form that watches it.                                               *)
Settle(f) ==
    /\ Succeed(f)
    /\ fields' = [fields EXCEPT !.filled = @ /\ fields.press # f]
    /\ UNCHANGED <<active, page, posted>>

ShellNext ==
    \/ Background /\ UNCHANGED shell
    \/ Close
    \/ Edit
    \/ \E c \in Customers : Switch(c) \/ \E a \in FormActions \cup {"details"} : Open(c, a)
    \/ \E f \in Forms : Press(f) \/ Settle(f)

ShellSpec == ShellInit /\ [][ShellNext]_shellVars

(* As for Dashboard: the timer fires and requests are answered. *)
FairShellSpec ==
    /\ ShellSpec
    /\ WF_shellVars(Poll /\ UNCHANGED shell)
    /\ WF_shellVars(Serve /\ UNCHANGED shell)
    /\ WF_shellVars(Arrive /\ UNCHANGED shell)

-----------------------------------------------------------------------------
ShellTypeOK ==
    /\ TypeOK
    /\ active \in {NoModal} \cup [customer : Customers, action : FormActions \cup {"details"}]
    /\ page \in [listeners : 0..1, overflow : {"", "hidden"}, saved : {"", "hidden"}]
    /\ fields \in [customer : Customers \cup {NoCustomer}, filled : BOOLEAN,
                   press : Forms \cup {NoPress}]
    /\ posted \in [Forms -> Customers \cup {NoCustomer}]

(* The page is scrollable, with no listener left, whenever no modal is     *)
(* open, and one Escape closes one that is: through every reopening and    *)
(* every rerun of the effect under an open modal.                          *)
PageFollowsModal ==
    /\ page.overflow = IF IsOpen THEN "hidden" ELSE ""
    /\ page.listeners = IF IsOpen THEN 1 ELSE 0

(* A modal never stands there with "Loading customer" or "Customer not     *)
(* found": the data it looks its customer up in outlives failed refetches. *)
ModalFindsItsCustomer == IsOpen => cache # NoData

(* "Charged ..." and "Insufficient funds ..." stand beside the customer    *)
(* they are about, though rows are pressed behind the modal meanwhile.     *)
OutcomeBesideItsCustomer ==
    active.action = "consume" /\ fields.press # NoPress =>
        posted[fields.press] = NamedCustomer

(* ConsumeForm.tsx, "When opened from a customer row, the customer is      *)
(* preset and locked": a form acts for the row whose button was pressed.   *)
LockedToItsRow ==
    active.action \in FormActions => NamedCustomer = active.customer

=============================================================================
