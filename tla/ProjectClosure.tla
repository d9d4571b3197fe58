--------------------------- MODULE ProjectClosure ---------------------------
(***************************************************************************)
(* One Customer Project from its first save to its closure: the stage the  *)
(* documents pull it through, the evidence a closure rests on, the closure *)
(* approval and the closing itself.                                        *)
(*                                                                         *)
(* Models services/project_closure.py, services/project_status.py, the     *)
(* controllers of Customer Project and AutoFlow Approval Request, and the  *)
(* doc_events of hooks.py that call them.  Samples, quotations, stock,     *)
(* exceptions and risk rules appear only through the facts read here.      *)
(*                                                                         *)
(* A request of the web server is one database transaction.  Three of them *)
(* take two steps here, the reads and the commit, because nothing they     *)
(* hold keeps the others out in between: the event of a document derives   *)
(* the stage from the snapshot of its first read, close_project reads the  *)
(* evidence in such a snapshot and locks the project row only, and the     *)
(* cancellation of an evidence document reads the project row without a    *)
(* lock and writes its own.  What a save of the project compares is the    *)
(* modified stamp of the row, which every save moves and a risk scan does  *)
(* not.  Every other transaction is one step.                              *)
(***************************************************************************)
EXTENDS ProjectStage, FiniteSets

CONSTANTS
    Orders, Deliveries, Invoices, Payments,  \* potential documents of the project
    OrderOf,      \* the Sales Order a Delivery Note or Sales Invoice is made from
    InvoiceOf,    \* the Sales Invoice a Payment Entry is allocated to
    Ordered,      \* how many deliveries, and how many invoices, fill an order
    PosInvoices,  \* the invoices with is_pos: settled when they are submitted
    Exceptions,   \* potential high-risk Business Exceptions
    Risks,        \* potential high Project Risks
    Requests,     \* potential closure approval requests
    Users,
    Amounts,      \* values of expected_amount
    Authority,    \* the <<amount, risk level>> pairs some rule of the user covers
    Summaries,    \* closure summaries of at least 10 characters
    NoSummary, NoUser,
    PresalesKinds,   \* bound: the kinds of sample and quotation facts that occur
    SideExits,       \* bound: the side stages that users choose...
    ExitStages,      \* bound: ... and the main stages from which they do
    FormStages,      \* bound: the stages in which requests are filed by form
    FormSummaries,   \* bound: the summaries that users type into the form
    MaxInFlight      \* bound: document events and cancellations under way at a time

RiskLevels == {"Low", "High"}
Documents == Orders \cup Deliveries \cup Invoices \cup Payments

ASSUME ClosureAssumption ==
    /\ OrderOf \in [Deliveries \cup Invoices -> Orders]
    /\ InvoiceOf \in [Payments -> Invoices]
    /\ Ordered \in [Orders -> Nat \ {0}]
    /\ PosInvoices \subseteq Invoices
    /\ Authority \in [Users -> SUBSET (Amounts \X RiskLevels)]
    /\ Amounts # {}
    /\ NoSummary \notin Summaries
    /\ NoUser \notin Users
    /\ PresalesKinds \subseteq {"openSample", "quotation", "confirmedQuotation"}
    /\ SideExits \subseteq SIDE_STAGES
    /\ ExitStages \subseteq MAIN_STAGES
    /\ FormStages \subseteq ALL_STAGES
    /\ FormSummaries \subseteq Summaries \cup {NoSummary}
    /\ MaxInFlight \in Nat

\* The kinds of document have records of their own tables.
ASSUME DisjointAssumption ==
    /\ Orders \cap (Deliveries \cup Invoices \cup Payments) = {}
    /\ Deliveries \cap (Invoices \cup Payments) = {}
    /\ Invoices \cap Payments = {}

VARIABLES
    project,     \* the Customer Project row
    presales,    \* the facts of samples and quotations
    docstatus,   \* Draft, Submitted or Cancelled, for every document
    receipts,    \* the deliveries the customer has signed for
    writtenOff,  \* the invoices settled without a Payment Entry
    openExceptions, openRisks,
    findings,    \* the risks a scan has found and not yet saved
    requests,    \* the AutoFlow Approval Request rows of type "closure"
    events,      \* document events between their first read and their commit
    closing,     \* the close_project between its reads and its commit, if any
    cancelling,  \* documents past their before_cancel check, not yet committed
    overtaken,   \* history: documents cancelled or submitted beside the last close_project
    closedWith   \* history: the summary the project was closed with

vars == <<project, presales, docstatus, receipts, writtenOff, openExceptions,
          openRisks, findings, requests, events, closing, cancelling, overtaken,
          closedWith>>

evidenceVars == <<presales, docstatus, receipts, writtenOff>>
riskVars == <<openExceptions, openRisks, findings>>
closingVars == <<closing, cancelling, overtaken, closedWith>>

-----------------------------------------------------------------------------
(* What the queries of the closure service find.                           *)

SubmittedAmong(S) == {d \in S : docstatus[d] = "Submitted"}

\* The documents, receipts and settlements that get_closure_gaps and
\* build_project_closure_snapshot query, by the same five functions, when the
\* submitted documents are these.
RowsOf(submitted) ==
    [ orders     |-> Orders \cap submitted,
      deliveries |-> Deliveries \cap submitted,
      receipts   |-> receipts \cap submitted,
      invoices   |-> Invoices \cap submitted,
      payments   |-> {p \in Payments \cap submitted : InvoiceOf[p] \in submitted},
      writtenOff |-> writtenOff \cap submitted ]

EvidenceRows == RowsOf(SubmittedAmong(Documents))

\* A mutant: the risk level is left out of what is approved.
SnapshotWithoutRisk ==
    [ stage          |-> project.stage,
      amount         |-> project.amount,
      risk           |-> "Low",
      rows           |-> EvidenceRows,
      openExceptions |-> openExceptions,
      openRisks      |-> openRisks ]

\* build_project_closure_snapshot; its fingerprint stands for all of it.
ClosureSnapshot ==
    [ stage          |-> project.stage,
      amount         |-> project.amount,
      risk           |-> project.overallRisk,
      rows           |-> EvidenceRows,
      openExceptions |-> openExceptions,
      openRisks      |-> openRisks ]

\* The documents that rows put in evidence.
DocumentsIn(rows) == rows.orders \cup rows.deliveries \cup rows.invoices \cup rows.payments

\* per_delivered or per_billed of an order has reached 100.
FillsOrder(o, docs) == Cardinality({d \in docs : OrderOf[d] = o}) >= Ordered[o]

HasPayment(i, rows) == \E p \in rows.payments : InvoiceOf[p] = i

Outstanding(i, rows) ==
    /\ i \notin PosInvoices \cup rows.writtenOff
    /\ ~ HasPayment(i, rows)

GapCodes ==
    { "PROJECT_STAGE_NOT_READY", "NO_SALES_ORDER", "DELIVERY_INCOMPLETE",
      "BILLING_INCOMPLETE", "CUSTOMER_RECEIPT_MISSING", "NO_SALES_INVOICE",
      "UNPAID_RECEIVABLE", "PAYMENT_EVIDENCE_MISSING", "OPEN_HIGH_EXCEPTION",
      "OPEN_HIGH_RISK" }

HasGap(code, s) ==
    \/ /\ code = "PROJECT_STAGE_NOT_READY"
       /\ s.stage \notin {CLOSURE_READY_STAGE, CLOSED_STAGE}
    \/ code = "NO_SALES_ORDER" /\ s.rows.orders = {}
    \/ /\ code = "DELIVERY_INCOMPLETE"
       /\ \E o \in s.rows.orders : ~ FillsOrder(o, s.rows.deliveries)
    \/ /\ code = "BILLING_INCOMPLETE"
       /\ \E o \in s.rows.orders : ~ FillsOrder(o, s.rows.invoices)
    \/ code = "CUSTOMER_RECEIPT_MISSING" /\ s.rows.deliveries \ s.rows.receipts # {}
    \/ code = "NO_SALES_INVOICE" /\ s.rows.invoices = {}
    \/ code = "UNPAID_RECEIVABLE" /\ \E i \in s.rows.invoices : Outstanding(i, s.rows)
    \/ /\ code = "PAYMENT_EVIDENCE_MISSING"
       /\ \E i \in s.rows.invoices : /\ ~ Outstanding(i, s.rows)
                                /\ i \notin PosInvoices
                                /\ ~ HasPayment(i, s.rows)
    \/ code = "OPEN_HIGH_EXCEPTION" /\ s.openExceptions # {}
    \/ code = "OPEN_HIGH_RISK" /\ s.openRisks # {}

\* get_closure_gaps, over the rows in the database or those of a snapshot.
ClosureGaps(s) == {code \in GapCodes : HasGap(code, s)}

\* A mutant: any approved request of the project will do.
HasAnyApprovedRequest == \E q \in Requests : requests[q].status = "Approved"

\* has_approved_closure_request.
HasApprovedClosureRequest ==
    \E q \in Requests : /\ requests[q].status = "Approved"
                        /\ requests[q].snapshot = ClosureSnapshot

-----------------------------------------------------------------------------
(* Types and the initial state: the project has just been saved.           *)

EvidenceRow ==
    [ orders : SUBSET Orders, deliveries : SUBSET Deliveries,
      receipts : SUBSET Deliveries, invoices : SUBSET Invoices,
      payments : SUBSET Payments, writtenOff : SUBSET Invoices ]

SnapshotRow ==
    [ stage : ALL_STAGES, amount : Amounts, risk : RiskLevels, rows : EvidenceRow,
      openExceptions : SUBSET Exceptions, openRisks : SUBSET Risks ]

ProjectRow ==
    [ stage : ALL_STAGES, amount : Amounts, overallRisk : RiskLevels,
      summary : Summaries \cup {NoSummary} ]

\* A document event: the facts and the document it writes, and the save of the
\* project it has yet to make, if its refresh moves the stage: the row and
\* (history) the rank the documents call for.
EventRow ==
    [ adds : SUBSET PresalesKinds, drops : SUBSET PresalesKinds,
      submits : SUBSET Documents, saves : SUBSET [row : ProjectRow, called : 1..7] ]

Unused == [status |-> "Unused"]

RequestRow ==
    {Unused} \cup
    [ status : {"Pending", "Approved", "Returned", "Rejected"},
      requester : Users, approver : Users \cup {NoUser},
      snapshot : SnapshotRow ]

TypeOK ==
    /\ project \in ProjectRow
    /\ presales \subseteq PresalesKinds
    /\ docstatus \in [Documents -> {"Draft", "Submitted", "Cancelled"}]
    /\ receipts \subseteq Deliveries
    /\ writtenOff \subseteq Invoices
    /\ openExceptions \subseteq Exceptions
    /\ openRisks \subseteq Risks
    /\ findings \subseteq Risks
    /\ requests \in [Requests -> RequestRow]
    /\ events \subseteq EventRow
    /\ closing \subseteq [summary : Summaries, risk : RiskLevels]
    /\ cancelling \subseteq Documents
    /\ overtaken \subseteq Documents
    /\ closedWith \in Summaries \cup {NoSummary}

Init ==
    /\ project \in [ stage : {MAIN_STAGE_SEQUENCE[1]}, amount : Amounts,
                     overallRisk : {"Low"}, summary : {NoSummary} ]
    /\ presales = {}
    /\ docstatus = [d \in Documents |-> "Draft"]
    /\ receipts = {}
    /\ writtenOff = {}
    /\ openExceptions = {}
    /\ openRisks = {}
    /\ findings = {}
    /\ requests = [q \in Requests |-> Unused]
    /\ events = {}
    /\ closing = {}
    /\ cancelling = {}
    /\ overtaken = {}
    /\ closedWith = NoSummary

-----------------------------------------------------------------------------
(* The stage follows the documents.                                        *)

\* The kinds of document derive_project_stage finds.
ProjectFacts(found, rows) ==
    found
        \cup {f \in {"order"} : rows.orders # {}}
        \cup {f \in {"delivery"} : rows.deliveries # {}}
        \cup {f \in {"unpaidInvoice"} : \E i \in rows.invoices : Outstanding(i, rows)}

\* A close_project past its checks holds the lock of the project row.  It takes
\* the lock after its reads, but a save in between would only make it fail.
RowUnlocked == closing = {}


\* Every save of the project moves its modified stamp.  An event that has read the
\* row before and has yet to save it is bound to fail, and counts as rolled back.
NotOutdated(pending) == {e \in pending : e.saves = {}}

\* The first steps of a request that saves, submits or updates a document and
\* runs its event.  It sees the database as of its first read and its own write.
DocumentEvent(adds, drops, submits) ==
    LET facts == ProjectFacts((presales \ drops) \cup adds,
                              RowsOf(SubmittedAmong(Documents) \cup submits))
        refreshed == [project EXCEPT !.stage = RefreshedStage(@, facts)]
        saves == {s \in {[row |-> refreshed, called |-> DerivedRank(facts)]} :
                      refreshed # project}
    IN  /\ Cardinality(events) + Cardinality(cancelling) < MaxInFlight
        /\ events' = events \cup {[adds |-> adds, drops |-> drops,
                                   submits |-> submits, saves |-> saves]}
        /\ UNCHANGED <<project, evidenceVars, riskVars, requests, closingVars>>

\* A saved or inserted Sample Request: after it there is an open one, or none.
SaveSample ==
    /\ "openSample" \in PresalesKinds
    /\ \/ DocumentEvent({"openSample"}, {}, {})
       \/ DocumentEvent({}, {"openSample"}, {})

\* record_customer_feedback writes the sample with db_set: no on_update event.
RecordFeedback ==
    /\ "openSample" \in presales
    /\ presales' = presales \ {"openSample"}
    /\ UNCHANGED <<project, docstatus, receipts, writtenOff, riskVars,
                   requests, events, closingVars>>

SubmitQuotation ==
    /\ "quotation" \in PresalesKinds \ presales
    /\ DocumentEvent({"quotation"}, {}, {})

\* The customer's confirmation is an update of the submitted quotation.
ConfirmQuotation ==
    /\ "quotation" \in presales
    /\ "confirmedQuotation" \in PresalesKinds
    /\ DocumentEvent({"confirmedQuotation"}, {}, {})

CancelQuotation ==
    /\ "quotation" \in presales
    /\ presales' = presales \ {"quotation", "confirmedQuotation"}
    /\ UNCHANGED <<project, docstatus, receipts, writtenOff, riskVars,
                   requests, events, closingVars>>

\* What ERPNext and validate_delivery_stock ask of a document before it is
\* submitted: a submitted source with something left to deliver, bill or pay.
CanSubmit(d) ==
    /\ docstatus[d] = "Draft"
    /\ d \in Deliveries \cup Invoices =>
          /\ docstatus[OrderOf[d]] = "Submitted"
          /\ ~ FillsOrder(OrderOf[d], SubmittedAmong(
                   IF d \in Deliveries THEN Deliveries ELSE Invoices))
    /\ d \in Payments =>
          /\ docstatus[InvoiceOf[d]] = "Submitted"
          /\ Outstanding(InvoiceOf[d], EvidenceRows)

\* The submission of a Sales Order, Delivery Note, Sales Invoice or Payment
\* Entry of the project.  A closed project is not asked.
SubmitDocument(d) ==
    /\ CanSubmit(d)
    /\ DocumentEvent({}, {}, {d})

\* on_update_after_submit of a Quotation or Sales Invoice: nothing but the
\* refresh, so that a stage which lags behind catches up by one.  One that leaves
\* the stage as it is has nothing to write here and is no step.
UpdateSubmittedDocument ==
    /\ "quotation" \in presales \/ SubmittedAmong(Invoices) # {}
    /\ DocumentEvent({}, {}, {})
    /\ \E e \in events' \ events : e.saves # {}

\* The documents' side of a commit.  ERPNext books a submission on the rows of
\* its source, so that CanSubmit still holds, and a quotation that was cancelled
\* meanwhile is not confirmed.  A sample that was closed need not be the only
\* open one any more.
WriteDocument(e) ==
    /\ \A d \in e.submits : CanSubmit(d)
    /\ "confirmedQuotation" \in e.adds => "quotation" \in presales
    /\ \E dropped \in {{}, e.drops} : presales' = (presales \ dropped) \cup e.adds
    /\ docstatus' = [d \in Documents |->
                        IF d \in e.submits THEN "Submitted" ELSE docstatus[d]]

\* A mutant: the stage is taken one step on from where it stands by now.
RefreshAnyRow(e) ==
    /\ e.saves # {} => RowUnlocked
    /\ events' = events \ {e}
    /\ project' = [project EXCEPT !.stage =
                      IF e.saves # {} /\ @ \in MAIN_STAGES \ {CLOSED_STAGE}
                      THEN MAIN_STAGE_SEQUENCE[StageRank(@) + 1] ELSE @]

\* refresh_project_stage_from_document: the project is saved if its stage has been
\* refreshed, as the row was read.  A risk level written since is overwritten.
RefreshProjectStage(e) ==
    \/ /\ e.saves = {}
       /\ events' = events \ {e}
       /\ UNCHANGED project
    \/ /\ RowUnlocked
       /\ \E s \in e.saves : project' = s.row
       /\ events' = NotOutdated(events \ {e})

CommitEvent(e) ==
    /\ WriteDocument(e)
    /\ RefreshProjectStage(e)
    /\ overtaken' = IF closing = {} THEN overtaken ELSE overtaken \cup e.submits
    /\ UNCHANGED <<receipts, writtenOff, riskVars, requests, closing, cancelling,
                   closedWith>>

\* Any error of the request rolls it back.
AbortEvent(e) ==
    /\ events' = events \ {e}
    /\ UNCHANGED <<project, evidenceVars, riskVars, requests, closingVars>>

\* confirm_customer_receipt: one receipt for a submitted Delivery Note, for good.
ConfirmReceipt(d) ==
    /\ docstatus[d] = "Submitted"
    /\ d \notin receipts
    /\ receipts' = receipts \cup {d}
    /\ UNCHANGED <<project, presales, docstatus, writtenOff, riskVars,
                   requests, events, closingVars>>

\* A journal entry settles an invoice: no Payment Entry, no event of the app.
WriteOffInvoice(i) ==
    /\ docstatus[i] = "Submitted"
    /\ Outstanding(i, EvidenceRows)
    /\ writtenOff' = writtenOff \cup {i}
    /\ UNCHANGED <<project, presales, docstatus, receipts, riskVars,
                   requests, events, closingVars>>

-----------------------------------------------------------------------------
(* The project row: saves by its members, risk scans.                      *)

\* A mutant: the summary stays editable.
SaveProjectRewritable(stage, amount, summary) ==
    /\ RowUnlocked
    /\ ValidStageTransition(project.stage, stage)
    /\ stage = CLOSED_STAGE => project.stage = CLOSED_STAGE
    /\ project' = [project EXCEPT !.stage = stage, !.amount = amount,
                                  !.summary = summary]
    /\ events' = NotOutdated(events)
    /\ overtaken' = IF stage = CLOSED_STAGE THEN overtaken ELSE {}
    /\ UNCHANGED <<evidenceVars, riskVars, requests, closing, cancelling, closedWith>>

\* A save through set_project_stage or the form, a reason given for a side
\* stage.  CustomerProject.validate lets no save close the project, and keeps
\* the summary while the saved stage is Closed.
SaveProject(stage, amount, summary) ==
    /\ RowUnlocked
    /\ ValidStageTransition(project.stage, stage)
    /\ stage = CLOSED_STAGE => project.stage = CLOSED_STAGE
    /\ project.stage = CLOSED_STAGE => summary = project.summary
    /\ project' = [project EXCEPT !.stage = stage, !.amount = amount,
                                  !.summary = summary]
    /\ events' = NotOutdated(events)
    /\ overtaken' = IF stage = CLOSED_STAGE THEN overtaken ELSE {}
    /\ UNCHANGED <<evidenceVars, riskVars, requests, closing, cancelling, closedWith>>

\* evaluate_project: a project that is not in a terminal stage is found at risk...
EvaluateRisks(found) ==
    /\ findings = {}
    /\ found # {}
    /\ project.stage \notin {CLOSED_STAGE, "Failed", "Cancelled"}
    /\ findings' = found
    /\ UNCHANGED <<project, evidenceVars, openExceptions, openRisks, requests,
                   events, closingVars>>

\* A mutant: without open risks the level has no default.
UpsertRisksWithoutDefault ==
    /\ findings' = {}
    /\ openRisks' = openRisks \cup findings
    /\ project' = [project EXCEPT !.overallRisk =
                      IF openRisks' = {} THEN "Unknown" ELSE "High"]
    /\ UNCHANGED <<evidenceVars, openExceptions, requests, events, closingVars>>

\* ... and upsert_risks locks the row only afterwards and does not look at the
\* stage again.  Found risks are opened or reopened, the others stay open until they
\* are verified, and the project takes the highest level still open.  The modified
\* stamp stays: a transaction that has read the row before still may save it, also
\* a close_project that takes its lock after this commit.
UpsertRisks ==
    /\ findings' = {}
    /\ openRisks' = openRisks \cup findings
    /\ project' = [project EXCEPT !.overallRisk =
                      IF openRisks' = {} THEN "Low" ELSE "High"]
    /\ UNCHANGED <<evidenceVars, openExceptions, requests, events, closingVars>>

\* A failed scan, be it an error of a rule or a row the database will not lock
\* because it has changed since, is rolled back to its savepoint.
AbandonScan ==
    /\ findings # {}
    /\ findings' = {}
    /\ UNCHANGED <<project, evidenceVars, openExceptions, openRisks, requests,
                   events, closingVars>>

\* A verified risk is closed; overall_risk_level waits for the next scan.
CloseRisk(r) ==
    /\ r \in openRisks
    /\ openRisks' = openRisks \ {r}
    /\ UNCHANGED <<project, evidenceVars, openExceptions, findings, requests, events,
                   closingVars>>

\* A high-risk exception is raised, in any stage, or stops being open.
RaiseException(e) ==
    /\ e \notin openExceptions
    /\ openExceptions' = openExceptions \cup {e}
    /\ UNCHANGED <<project, evidenceVars, openRisks, findings, requests, events,
                   closingVars>>

ResolveException(e) ==
    /\ e \in openExceptions
    /\ openExceptions' = openExceptions \ {e}
    /\ UNCHANGED <<project, evidenceVars, openRisks, findings, requests, events,
                   closingVars>>

-----------------------------------------------------------------------------
(* The closure approval.                                                   *)

\* before_insert of AutoFlow Approval Request: a pending request of the user,
\* with the snapshot of this moment.
InsertRequest(q, u) ==
    /\ requests[q] = Unused
    /\ requests' = [requests EXCEPT ![q] =
                      [ status |-> "Pending", requester |-> u, approver |-> NoUser,
                        snapshot |-> ClosureSnapshot ]]

\* create_project_closure_request: under the row lock, without gaps, and only
\* if no pending request has the current snapshot already.
CreateClosureRequest(q, u) ==
    /\ RowUnlocked
    /\ project.stage # CLOSED_STAGE
    /\ ClosureGaps(ClosureSnapshot) = {}
    /\ \A other \in Requests : requests[other].status = "Pending" =>
                                 requests[other].snapshot # ClosureSnapshot
    /\ InsertRequest(q, u)
    /\ UNCHANGED <<project, evidenceVars, riskVars, events, closingVars>>

\* The same row created from its own form: no gap is looked at, no lock taken.
CreateRequestDirectly(q, u) ==
    /\ project.stage \in FormStages
    /\ InsertRequest(q, u)
    /\ UNCHANGED <<project, evidenceVars, riskVars, events, closingVars>>

\* approval_request_has_authority: the snapshot still is the current one and
\* some rule of the user covers its amount and risk level.
HasAuthority(q, u) ==
    LET s == requests[q].snapshot
    IN  /\ s = ClosureSnapshot
        /\ <<s.amount, s.risk>> \in Authority[u]

\* A mutant: the rules of the user are not asked.
DecideWithoutRule(q, u, verdict) ==
    /\ requests[q].status = "Pending"
    /\ u # requests[q].requester
    /\ requests[q].snapshot = ClosureSnapshot
    /\ requests' = [requests EXCEPT ![q].status = verdict, ![q].approver = u]
    /\ UNCHANGED <<project, evidenceVars, riskVars, events, closingVars>>

\* approve, return_request and reject: all of them need the authority.
Decide(q, u, verdict) ==
    /\ requests[q].status = "Pending"
    /\ u # requests[q].requester
    /\ HasAuthority(q, u)
    /\ requests' = [requests EXCEPT ![q].status = verdict, ![q].approver = u]
    /\ UNCHANGED <<project, evidenceVars, riskVars, events, closingVars>>

-----------------------------------------------------------------------------
(* Closing, and the cancellation of evidence beside it.                    *)

\* close_project up to its last check.  The snapshot of its first read, which all
\* of these see, is older than the lock of the row, but only a risk scan could have
\* changed the row in between without making its save fail.
BeginClose(summary) ==
    /\ RowUnlocked
    /\ project.stage # CLOSED_STAGE
    /\ ClosureGaps(ClosureSnapshot) = {}
    /\ HasApprovedClosureRequest
    /\ closing' = {[summary |-> summary, risk |-> project.overallRisk]}
    /\ overtaken' = cancelling
    /\ UNCHANGED <<project, evidenceVars, riskVars, requests, events, cancelling,
                   closedWith>>

\* The save of close_project and its commit: the row as it was read, closed.
CommitClose ==
    \E c \in closing :
        /\ project' = [project EXCEPT !.stage = CLOSED_STAGE, !.summary = c.summary,
                                      !.overallRisk = c.risk]
        /\ closing' = {}
        /\ closedWith' = c.summary
        /\ events' = NotOutdated(events)
        /\ UNCHANGED <<evidenceVars, riskVars, requests, cancelling, overtaken>>

\* The worker dies or the save fails: the transaction is rolled back.
AbortClose ==
    /\ closing # {}
    /\ closing' = {}
    /\ overtaken' = {}
    /\ UNCHANGED <<project, evidenceVars, riskVars, requests, events, cancelling,
                   closedWith>>

\* prevent_closed_project_evidence_change, before_cancel: the stage is read as
\* it is committed now.
BeginCancel(d) ==
    /\ docstatus[d] = "Submitted"
    /\ d \notin cancelling
    /\ Cardinality(events) + Cardinality(cancelling) < MaxInFlight
    /\ project.stage # CLOSED_STAGE
    /\ cancelling' = cancelling \cup {d}
    /\ overtaken' = IF closing = {} THEN overtaken ELSE overtaken \cup {d}
    /\ UNCHANGED <<project, evidenceVars, riskVars, requests, events, closing,
                   closedWith>>

\* The framework refuses to cancel an order under a submitted delivery or
\* invoice; a cancelled invoice drops its payments.
NothingBuiltOn(d) ==
    \A b \in SubmittedAmong(Deliveries \cup Invoices) : OrderOf[b] # d

CommitCancel(d) ==
    /\ d \in cancelling
    /\ NothingBuiltOn(d)
    /\ docstatus' = [docstatus EXCEPT ![d] = "Cancelled"]
    /\ cancelling' = cancelling \ {d}
    /\ UNCHANGED <<project, presales, receipts, writtenOff, riskVars, requests,
                   events, closing, overtaken, closedWith>>

AbortCancel(d) ==
    /\ d \in cancelling
    /\ cancelling' = cancelling \ {d}
    /\ UNCHANGED <<project, evidenceVars, riskVars, requests, events, closing,
                   overtaken, closedWith>>

-----------------------------------------------------------------------------
PresalesStep ==
    SaveSample \/ RecordFeedback \/ SubmitQuotation \/ ConfirmQuotation
        \/ CancelQuotation

DocumentStep ==
    \/ UpdateSubmittedDocument
    \/ \E d \in Documents : SubmitDocument(d)
    \/ \E d \in Deliveries : ConfirmReceipt(d)
    \/ \E i \in Invoices : WriteOffInvoice(i)
    \/ \E e \in events : CommitEvent(e) \/ AbortEvent(e)

RiskStep ==
    \/ \E found \in SUBSET Risks : EvaluateRisks(found)
    \/ UpsertRisks
    \/ AbandonScan
    \/ \E r \in Risks : CloseRisk(r)
    \/ \E e \in Exceptions : RaiseException(e) \/ ResolveException(e)

RequestStep ==
    \E q \in Requests, u \in Users :
        \/ CreateClosureRequest(q, u)
        \/ CreateRequestDirectly(q, u)
        \/ \E verdict \in {"Approved", "Returned", "Rejected"} : Decide(q, u, verdict)

ClosingStep ==
    \/ \E summary \in Summaries : BeginClose(summary)
    \/ CommitClose
    \/ AbortClose
    \/ \E d \in Documents : BeginCancel(d) \/ CommitCancel(d) \/ AbortCancel(d)

SaveStep ==
    \E stage \in MAIN_STAGES \cup SideExits, amount \in Amounts,
       summary \in FormSummaries \cup {project.summary} :
           /\ stage \in SideExits => project.stage \in ExitStages \cup SideExits
           /\ SaveProject(stage, amount, summary)

Next == PresalesStep \/ DocumentStep \/ RiskStep \/ RequestStep \/ ClosingStep \/ SaveStep

Spec == Init /\ [][Next]_vars

-----------------------------------------------------------------------------
(* Properties.                                                             *)

\* A closure case without gaps that somebody other than its requester approved
\* within their authority.
CleanApproval(q) ==
    LET r == requests[q]
    IN  /\ r.status = "Approved"
        /\ r.approver # r.requester
        /\ <<r.snapshot.amount, r.snapshot.risk>> \in Authority[r.approver]
        /\ ClosureGaps(r.snapshot) = {}

\* Every document the approved case rests on is still submitted, but for the
\* cancellations that were under way while the project was being closed.
EvidenceStands(q) ==
    \A d \in DocumentsIn(requests[q].snapshot.rows) :
        docstatus[d] = "Submitted" \/ d \in overtaken

\* The approved case has every document now in evidence, but for those that were
\* submitted while the project was being closed.
EvidenceComplete(q) ==
    DocumentsIn(EvidenceRows) \subseteq DocumentsIn(requests[q].snapshot.rows) \cup overtaken

\* A closed project rests on a gap-free case that a second person approved, and
\* on documents that stand, whatever was saved, scanned, submitted or cancelled
\* since: close_project, Decide and the before_cancel hook together.
ClosedOnApprovedEvidence ==
    project.stage = CLOSED_STAGE =>
        \E q \in Requests : CleanApproval(q) /\ EvidenceStands(q)

\* A project is closed at the amount and risk level at which its case was approved,
\* on the documents of that case, none cancelled and none added since but beside
\* close_project itself (has_approved_closure_request, project_closure.py:489).
ClosesAsApproved ==
    [][ project.stage # CLOSED_STAGE /\ project'.stage = CLOSED_STAGE
            => \E q \in Requests :
                   /\ CleanApproval(q)
                   /\ requests[q].snapshot.amount = project'.amount
                   /\ requests[q].snapshot.risk = project'.overallRisk
                   /\ EvidenceStands(q)
                   /\ EvidenceComplete(q) ]_vars

\* While the project is closed its summary is the one it was closed with.
ClosedSummaryKept ==
    project.stage = CLOSED_STAGE =>
        closedWith # NoSummary /\ project.summary = closedWith

\* The project implements the abstract life cycle: it climbs one stage at a
\* time, is closed only after a sign-off, and never leaves a side stage.
Lifecycle == INSTANCE ProjectLifecycle WITH
    stage <- project.stage,
    signedOff <- \E q \in Requests : CleanApproval(q)

ImplementsLifecycle == Lifecycle!LifecycleSpec

\* The event of a document carries the stage no further than the documents called
\* for when it began, its own among them, whatever other events, saves and scans
\* have done to the row until it commits (refresh_project_stage_from_document).
\* They may call for less by then: a quotation or delivery cancelled meanwhile does
\* not touch the project row.
DocumentsNeverOvershoot ==
    [][ \A e \in events :
            CommitEvent(e) /\ project'.stage # project.stage
                => \E s \in e.saves : StageRank(project'.stage) <= s.called ]_vars

\* docs/user-guide/sales-and-project.md:30: once a project is formally closed,
\* cancelling its delivery and payment evidence is forbidden.
ClosedEvidenceNotCancelled ==
    [][ \A d \in Documents :
            project.stage = CLOSED_STAGE /\ docstatus[d] = "Submitted"
                => docstatus'[d] = "Submitted" ]_vars

\* Product-Spec.md:269: a project with incomplete delivery cannot enter the
\* payment-pending stage.
PaymentPendingNeedsDelivery ==
    [][ project.stage # CLOSURE_READY_STAGE /\ project'.stage = CLOSURE_READY_STAGE
            => \A o \in SubmittedAmong(Orders)' :
                   FillsOrder(o, SubmittedAmong(Deliveries)') ]_vars
=============================================================================
