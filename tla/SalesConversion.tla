-------------------------- MODULE SalesConversion --------------------------
(***************************************************************************)
(* One Quotation: its price approval, its submission, and the Sales Order  *)
(* made of it.                                                             *)
(*                                                                         *)
(* Models services/sales_conversion.py and, for quotations, the controller *)
(* of AutoFlow Approval Request.  A web request is one transaction.  The   *)
(* submission holds the quotation row from its checks to its commit, while *)
(* the project's risk and the approvals move on.  The two services see     *)
(* throughout what was there at their first read: the file lock and the    *)
(* row lock come later, and the reload under them reads the same snapshot. *)
(***************************************************************************)
EXTENDS Naturals

CONSTANTS
    Users,
    Contents,     \* versions of what the quotation offers, and until when
    Unlinked,     \* the contents that name no customer project
    Breaching,    \* the contents with an item below its floor rate
    Authority,    \* what the active rules of a user's roles cover
    Requests,     \* potential AutoFlow Approval Requests
    Calls,        \* calls of the two services in flight at a time
    Orders,       \* potential Sales Orders
    NoRequest, NoSubmission, NoCall, NoUser,
    SnapshotIsolation,  \* innodb_snapshot_isolation
    Requesters,   \* bound: the users who ask for approval
    Lapsing       \* bound: the contents whose valid_till passes

RiskLevels == {"Low", "High"}

\* What the fingerprint of build_approval_snapshot stands for.
Snapshots == [content : Contents, risk : RiskLevels]

ASSUME SalesAssumption ==
    /\ Unlinked \subseteq Contents
    /\ Authority \in [Users -> SUBSET Snapshots]
    /\ NoUser \notin Users
    /\ SnapshotIsolation \in BOOLEAN
    /\ Requesters \subseteq Users
    /\ Lapsing \subseteq Contents

\* Returned and refused requests are told apart by no guard.
DECISION_STATUSES == {"Approved", "Declined"}
DecisionInputs == DECISION_STATUSES \cup {"Unknown"}

Quotation ==
    [ content : Contents,
      docstatus : {"Draft", "Submitted", "Cancelled"},
      confirmed : BOOLEAN ]      \* custom_customer_confirmed

Request ==
    [ snapshot : Snapshots,
      status : {"Pending"} \cup DECISION_STATUSES,
      requester : Users,
      approver : Users \cup {NoUser} ]

Submission == [user : Users, snapshot : Snapshots]

\* A conversion is current while the row of the quotation has not changed since the
\* first read.
Call == [op : {"request"}, user : Users, snapshot : Snapshots]
           \cup [op : {"convert"}, current : BOOLEAN]

VARIABLES
    quotation,
    sampleApproved, \* the project has a sample the customer accepted
    lapsed,         \* the contents whose valid_till has passed
    risk,           \* overall_risk_level of the project
    requests,
    submitting,     \* the submission between its checks and its commit
    submission,     \* history: the submission that was committed
    calls,          \* calls of the services between their first read and the rest
    orders          \* the orders whose custom_source_quotation is the quotation

vars == << quotation, sampleApproved, lapsed, risk, requests, submitting,
           submission, calls, orders >>

world == <<sampleApproved, lapsed, risk>>

TypeOK ==
    /\ quotation \in Quotation
    /\ sampleApproved \in BOOLEAN
    /\ lapsed \subseteq Contents
    /\ risk \in RiskLevels
    /\ requests \in [Requests -> Request \cup {NoRequest}]
    /\ submitting \in Submission \cup {NoSubmission}
    /\ submission \in Submission \cup {NoSubmission}
    /\ calls \in [Calls -> Call \cup {NoCall}]
    /\ orders \in [Orders -> {"None", "Draft", "Submitted", "Cancelled"}]

-----------------------------------------------------------------------------
(* Snapshots, authority and approvals.                                     *)

\* The snapshot of a document with this content: the risk is the project's, or
\* the lowest without one.
SnapshotOf(content) ==
    [ content |-> content, risk |-> IF content \in Unlinked THEN "Low" ELSE risk ]

Covers(user, snapshot) == snapshot \in Authority[user]

requires_price_approval(user, snapshot) ==
    snapshot.content \in Breaching \/ ~Covers(user, snapshot)

Filed == {r \in Requests : requests[r] # NoRequest}
PendingFor(snapshot) ==
    {r \in Filed : requests[r].status = "Pending" /\ requests[r].snapshot = snapshot}

\* A mutant: an approval of any version of the quotation.
HasAnyApproval(snapshot) == \E r \in Filed : requests[r].status = "Approved"

has_current_approved_request(snapshot) ==
    \E r \in Filed : requests[r].status = "Approved" /\ requests[r].snapshot = snapshot

NewRequest(user, snapshot) ==
    [ snapshot |-> snapshot, status |-> "Pending", requester |-> user,
      approver |-> NoUser ]

ExistingOrders == {o \in Orders : orders[o] # "None"}

\* The conversions in flight after a change of the quotation's row.
Overtaken ==
    [ c \in Calls |-> IF calls[c] # NoCall /\ calls[c].op = "convert"
                      THEN [calls[c] EXCEPT !.current = FALSE] ELSE calls[c] ]

\* The row lock that a submission holds to its commit.
RowUnlocked == submitting = NoSubmission

Init ==
    /\ \E content \in Contents, confirmed \in BOOLEAN :
           quotation = [ content |-> content, docstatus |-> "Draft",
                         confirmed |-> confirmed ]
    /\ sampleApproved = FALSE
    /\ lapsed = {}
    /\ risk \in RiskLevels
    /\ requests = [r \in Requests |-> NoRequest]
    /\ submitting = NoSubmission
    /\ submission = NoSubmission
    /\ calls = [c \in Calls |-> NoCall]
    /\ orders = [o \in Orders |-> "None"]

-----------------------------------------------------------------------------
(* What other components and the calendar do.                              *)

\* The samples of the project are answered, or moved out of the answer.
SampleMoves ==
    /\ sampleApproved' = ~sampleApproved
    /\ UNCHANGED << quotation, lapsed, risk, requests, submitting, submission,
                    calls, orders >>

Lapse(content) ==
    /\ content \notin lapsed
    /\ lapsed' = lapsed \cup {content}
    /\ UNCHANGED << quotation, sampleApproved, risk, requests, submitting,
                    submission, calls, orders >>

\* The risk engine writes the level; it asks for no lock of the quotation.
RiskMoves(level) ==
    /\ risk' = level
    /\ UNCHANGED << quotation, sampleApproved, lapsed, requests, submitting,
                    submission, calls, orders >>

-----------------------------------------------------------------------------
(* The quotation.                                                          *)

EditDraft(content) ==
    /\ RowUnlocked
    /\ quotation.docstatus = "Draft"
    /\ quotation' = [quotation EXCEPT !.content = content]
    /\ UNCHANGED <<world, requests, submitting, submission, calls, orders>>

\* custom_customer_confirmed may be changed on a submitted quotation too.
Confirm(confirmed) ==
    /\ RowUnlocked
    /\ quotation.docstatus # "Cancelled"
    /\ quotation' = [quotation EXCEPT !.confirmed = confirmed]
    /\ calls' = Overtaken
    /\ UNCHANGED <<world, requests, submitting, submission, orders>>

\* The checks of before_submit, on the document in hand.  A quotation without
\* a project passes them all.
BeginSubmit(user, content) ==
    LET snapshot == SnapshotOf(content)
    IN  /\ RowUnlocked
        /\ quotation.docstatus = "Draft"
        /\ content \notin Unlinked =>
              /\ sampleApproved
              /\ content \notin lapsed
              /\ requires_price_approval(user, snapshot)
                    => has_current_approved_request(snapshot)
        /\ submitting' = [user |-> user, snapshot |-> snapshot]
        /\ UNCHANGED <<quotation, world, requests, submission, calls, orders>>

CommitSubmit ==
    /\ submitting # NoSubmission
    /\ quotation' = [quotation EXCEPT !.content = submitting.snapshot.content,
                                      !.docstatus = "Submitted"]
    /\ submission' = submitting
    /\ submitting' = NoSubmission
    /\ UNCHANGED <<world, requests, calls, orders>>

\* An error of a later event rolls the submission back.
AbortSubmit ==
    /\ submitting # NoSubmission
    /\ submitting' = NoSubmission
    /\ UNCHANGED <<quotation, world, requests, submission, calls, orders>>

\* The framework refuses to cancel what a submitted order refers to.
CancelQuotation ==
    /\ quotation.docstatus = "Submitted"
    /\ \A o \in Orders : orders[o] # "Submitted"
    /\ quotation' = [quotation EXCEPT !.docstatus = "Cancelled"]
    /\ calls' = Overtaken
    /\ UNCHANGED <<world, requests, submitting, submission, orders>>

-----------------------------------------------------------------------------
(* Approval requests.                                                      *)

\* A request inserted by a form: before_insert takes the snapshot and asks for
\* nothing else.
FileRequest(user, r) ==
    /\ r \notin Filed
    /\ requests' = [requests EXCEPT ![r] = NewRequest(user, SnapshotOf(quotation.content))]
    /\ UNCHANGED <<quotation, world, submitting, submission, calls, orders>>

\* A mutant: any status counts as a decision.
DecideUnchecked(user, r, verdict) ==
    /\ r \in Filed
    /\ requests[r].status = "Pending"
    /\ user # requests[r].requester
    /\ requests[r].snapshot = SnapshotOf(quotation.content)
    /\ Covers(user, requests[r].snapshot)
    /\ requests' = [requests EXCEPT ![r].status = verdict, ![r].approver = user]
    /\ UNCHANGED <<quotation, world, submitting, submission, calls, orders>>

\* A decision by a method, the workflow or a form: all go through validate and
\* _authorize_decision.
Decide(user, r, verdict) ==
    /\ verdict \in DECISION_STATUSES
    /\ r \in Filed
    /\ requests[r].status = "Pending"
    /\ user # requests[r].requester
    /\ requests[r].snapshot = SnapshotOf(quotation.content)
    /\ Covers(user, requests[r].snapshot)
    /\ requests' = [requests EXCEPT ![r].status = verdict, ![r].approver = user]
    /\ UNCHANGED <<quotation, world, submitting, submission, calls, orders>>

-----------------------------------------------------------------------------
(* create_quotation_approval_request, create_sales_order_from_quotation.   *)

\* The checks as the first read of the transaction decides them.  Found a
\* pending request of the same snapshot the service would return it.
BeginRequest(c, user) ==
    LET snapshot == SnapshotOf(quotation.content)
    IN  /\ calls[c] = NoCall
        /\ quotation.docstatus = "Draft"
        /\ quotation.content \notin Unlinked
        /\ requires_price_approval(user, snapshot)
        /\ PendingFor(snapshot) = {}
        /\ calls' = [calls EXCEPT ![c] = [ op |-> "request", user |-> user,
                                           snapshot |-> snapshot ]]
        /\ UNCHANGED <<quotation, world, requests, submitting, submission, orders>>

\* No index keeps a second request of the snapshot out.
FinishRequest(c, r) ==
    /\ calls[c] # NoCall /\ calls[c].op = "request"
    /\ RowUnlocked
    /\ r \notin Filed
    /\ requests' = [requests EXCEPT ![r] = NewRequest(calls[c].user, calls[c].snapshot)]
    /\ calls' = [calls EXCEPT ![c] = NoCall]
    /\ UNCHANGED <<quotation, world, submitting, submission, orders>>

\* Found an order of the quotation, cancelled or not, the service returns it.
BeginConvert(c) ==
    /\ calls[c] = NoCall
    /\ quotation.docstatus = "Submitted"
    /\ quotation.content \notin Unlinked
    /\ quotation.content \notin lapsed
    /\ quotation.confirmed
    /\ ExistingOrders = {}
    /\ calls' = [calls EXCEPT ![c] = [op |-> "convert", current |-> TRUE]]
    /\ UNCHANGED <<quotation, world, requests, submitting, submission, orders>>

\* A mutant: the row of the quotation is not locked.
QuotationUnlocked(c) == calls[c] # NoCall

\* The lock of the quotation's row is refused when it has changed since the snapshot.
QuotationLocked(c) == SnapshotIsolation => calls[c].current

\* A mutant: custom_source_quotation without its unique index.
FinishConvertUnindexed(c, o) ==
    /\ calls[c] # NoCall /\ calls[c].op = "convert"
    /\ RowUnlocked
    /\ QuotationLocked(c)
    /\ orders[o] = "None"
    /\ orders' = [orders EXCEPT ![o] = "Draft"]
    /\ calls' = [calls EXCEPT ![c] = NoCall]
    /\ UNCHANGED <<quotation, world, requests, submitting, submission>>

\* The unique index admits one order, whatever the snapshot of the call shows.
FinishConvert(c, o) ==
    /\ calls[c] # NoCall /\ calls[c].op = "convert"
    /\ RowUnlocked
    /\ QuotationLocked(c)
    /\ ExistingOrders = {}
    /\ orders' = [orders EXCEPT ![o] = "Draft"]
    /\ calls' = [calls EXCEPT ![c] = NoCall]
    /\ UNCHANGED <<quotation, world, requests, submitting, submission>>

\* A check, an index, the isolation level or a lock timeout ends the call.
AbandonCall(c) ==
    /\ calls[c] # NoCall
    /\ calls' = [calls EXCEPT ![c] = NoCall]
    /\ UNCHANGED <<quotation, world, requests, submitting, submission, orders>>

-----------------------------------------------------------------------------
(* The Sales Order, whose own rules are the framework's.  Its submission   *)
(* and its cancellation write the status of the quotation.                 *)

\* Not with a cancelled quotation behind it.
SubmitOrder(o) ==
    /\ orders[o] = "Draft"
    /\ quotation.docstatus # "Cancelled"
    /\ orders' = [orders EXCEPT ![o] = "Submitted"]
    /\ calls' = Overtaken
    /\ UNCHANGED <<quotation, world, requests, submitting, submission>>

CancelOrder(o) ==
    /\ orders[o] = "Submitted"
    /\ orders' = [orders EXCEPT ![o] = "Cancelled"]
    /\ calls' = Overtaken
    /\ UNCHANGED <<quotation, world, requests, submitting, submission>>

DeleteOrder(o) ==
    /\ orders[o] \in {"Draft", "Cancelled"}
    /\ orders' = [orders EXCEPT ![o] = "None"]
    /\ UNCHANGED <<quotation, world, requests, submitting, submission, calls>>

Next ==
    \/ SampleMoves
    \/ \E content \in Lapsing : Lapse(content)
    \/ \E level \in RiskLevels : RiskMoves(level)
    \/ \E content \in Contents : EditDraft(content)
    \/ \E confirmed \in BOOLEAN : Confirm(confirmed)
    \/ \E user \in Users, content \in Contents : BeginSubmit(user, content)
    \/ CommitSubmit
    \/ AbortSubmit
    \/ CancelQuotation
    \/ \E user \in Requesters, r \in Requests : FileRequest(user, r)
    \/ \E user \in Users, r \in Requests, verdict \in DecisionInputs :
           Decide(user, r, verdict)
    \/ \E c \in Calls, user \in Requesters : BeginRequest(c, user)
    \/ \E c \in Calls, r \in Requests : FinishRequest(c, r)
    \/ \E c \in Calls : BeginConvert(c)
    \/ \E c \in Calls, o \in Orders : FinishConvert(c, o)
    \/ \E c \in Calls : AbandonCall(c)
    \/ \E o \in Orders : SubmitOrder(o) \/ CancelOrder(o) \/ DeleteOrder(o)

Spec == Init /\ [][Next]_vars

-----------------------------------------------------------------------------
(* What must hold.                                                         *)

\* An approval of this snapshot by a second person whose rules cover it.
Approved(snapshot) ==
    \E r \in Filed :
        /\ requests[r].status = "Approved"
        /\ requests[r].snapshot = snapshot
        /\ requests[r].approver # requests[r].requester
        /\ Covers(requests[r].approver, snapshot)

WithinAuthority(s) ==
    \/ s.snapshot.content \notin Breaching /\ Covers(s.user, s.snapshot)
    \/ Approved(s.snapshot)

\* A quotation of a project that has left the draft offers what was submitted,
\* and that lay, with the risk the submission saw, within the authority of the
\* one who submitted it, or a second person had approved exactly that, however
\* often the draft was edited and the risk moved between request, decision,
\* checks and commit.  (sales_conversion.py 254-306.)
SubmittedWithinAuthority ==
    quotation.docstatus # "Draft" /\ quotation.content \notin Unlinked =>
        /\ submission # NoSubmission
        /\ submission.snapshot.content = quotation.content
        /\ WithinAuthority(submission)

\* The conversion, called twice or beside a cancellation, leaves one order at
\* most; there is none of a draft or of a quotation without a project, and no
\* submitted one of a cancelled quotation.  (sales_conversion.py 370-424 and the
\* unique custom_source_quotation.)
OneOrderAsApproved ==
    /\ \A o, p \in ExistingOrders : o = p
    /\ ExistingOrders # {} =>
          /\ quotation.docstatus # "Draft"
          /\ quotation.content \notin Unlinked
    /\ \A o \in Orders : orders[o] = "Submitted" => quotation.docstatus = "Submitted"

\* An order is made of a quotation that stands and that the customer confirms when
\* it is made, although both may be withdrawn after the conversion has read them.
\* (sales_conversion.py 380-405.)
OrdersAreConfirmed ==
    [][\A o \in Orders :
          orders[o] = "None" /\ orders'[o] # "None" =>
              quotation.docstatus = "Submitted" /\ quotation.confirmed]_vars
=============================================================================
