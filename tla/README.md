# AutoFlow 360: formal models

TLA+ models of AutoFlow 360, a Frappe application that carries a customer project
of an automotive supplier from the first deal to the closing of the project:
samples, quotations, orders, procurement, delivery, invoices, receipts, risks,
exceptions and the closure itself. The models are translated from the Python
sources under `src/autoflow_360/`; TLC checks them on small instances and TLAPS
proves the main properties for every value of the constants.

## 1. The system

Every operation is a web request or a scheduled job that runs in one database
transaction of MariaDB, in any number of worker processes. Services guard
themselves with a file lock named after the source document and with
`SELECT ... FOR UPDATE` on its row; both are taken after the first reads of the
transaction, and the file lock is released before the commit.

| Component | State | Operations | What makes it correct |
|---|---|---|---|
| Project stage machine (`services/project_status.py`, `customer_project.py`) | stage, summary, amount and risk level of a project | refresh on document events, direct save | climbs one stage at a time, never past the documents an event has found, never out of a side stage |
| Project closure (`services/project_closure.py`) | closure requests, the closing of the row | gaps, snapshot, request, close, guard of evidence | a closed project rests on approved, unchanged, complete evidence; its summary is final |
| Approval requests (`autoflow_approval_request.py`, `sales_conversion.py`) | status, requester, approver, snapshot | file, approve, return, reject | a second person with authority over this very content decides |
| Sales conversion (`services/sales_conversion.py`) | quotations, their price approval, Sales Orders | request approval, submit, convert | no submission beyond authority without a current approval; one order per quotation |
| Samples (`services/sample_workflow.py`, `sample_request.py`) | status, inspection, tracking, feedback, rounds | dispatch, feedback, resample, save | one feedback per sample, status agrees with it, rounds form a chain |
| Delivery (`services/delivery.py`) | delivered quantities, bins, receipts | check stock, confirm receipt | never more than ordered or in stock; one receipt per delivery |
| Risk engine (`risk_engine/`) | risks, risk level of the project | evaluate, save findings, verify, scan | a risk follows its transitions, risks and level come to agree with the rules, one broken project does not stop a scan |
| Exceptions (`services/exception_workflow.py`, `business_exception.py`) | status, actions, verification | transition, save | verified by an independent user with evidence; terminal means final |
| Procurement (`services/procurement.py`) | RFQs, supplier quotations, orders, ETA history | create from source, update ETA | one document per source; the history explains the ETA |
| Material planning (`services/material_planning.py`) | plan, material request | compute gap, create request | gaps cover what is reserved; one open request per order |
| Deal conversion, project links | project of a deal, project of a document | convert, propagate | one project per deal, one project per document chain |
| AI analysis (`ai/`) | status and result of an analysis | analyse, weekly drafts | not modelled, see section 5 |
| Permissions, portals, API, setup, deployment | none of their own | queries, pages, scripts | not modelled |

The components meet in the project row: document events call
`refresh_project_stage_from_document`, the risk engine writes the risk level, the
closure reads the rows of all of them, and the approval request freezes what it
read in a fingerprint.

The hard behaviours are listed with their lines under `hazards` in
`PROJECT.json`: checks without a lock that commit later, approvals that go stale,
lookups for an existing document that read an old snapshot, feedback written
behind the events, side stages that lift the guards of a closed project, scans that
save what they read long before, document events that derive the stage from old snapshots, deliveries that wait for each other's rows.

## 2. The modules

| Module | Models |
|---|---|
| `ProjectStage` | stages, `validate_stage_transition`, `derive_project_stage`, `_next_stage_toward` as pure operators |
| `ProjectLifecycle` | the abstract promise of a project's stage: climb, sign-off, close, exit |
| `ProjectClosure` | a project with its documents, risks, exceptions, closure requests, closing and cancellations |
| `MCProjectClosure` | small instances of `ProjectClosure` for TLC |
| `ProjectStageProofs` | lemmas about the stage operators |
| `ProjectClosureProofs` | the inductive invariant and the theorems about `ProjectClosure` |
| `SampleWorkflow` | the Sample Requests of a project: approval, dispatch, the customer's answer, the next round |
| `SalesConversion` | a Quotation: price approval, submission, conversion to a Sales Order |
| `ExceptionWorkflow` | a Business Exception: transitions, corrective actions, verification, the trail |
| `CreateOnce` | the abstract promise that repeated requests make one document of a source |
| `SourceDocument` | the services that make a document of a source: projects, receipts, material requests, RFQs, supplier quotations, purchase orders |
| `SupplierEta` | the ETA of the purchase orders of `SourceDocument`, with its history; extends it |
| `RiskRules` | the eight rules of the risk engine as operators on what they measure |
| `RiskEngine` | scans of all projects, the risks users work on, the risk level of the projects |
| `MaterialPlanning` | the arithmetic of a material gap |
| `AtomicDelivery` | the abstract promise of a submission: as if everything were asked and booked at once |
| `DeliveryStock` | submissions of Delivery Notes over order lines and bins, the project link before them, the gaps beside them |
| `MCSampleWorkflow`, `MCSalesConversion`, `MCExceptionWorkflow`, `MCSourceDocument`, `MCSupplierEta`, `MCRiskEngine`, `MCDeliveryStock` | their instances for TLC |
| `SampleWorkflowProofs`, `SalesConversionProofs`, `ExceptionWorkflowProofs`, `SourceDocumentProofs`, `RiskEngineProofs`, `DeliveryStockProofs` | their inductive invariants and theorems |

`ProjectClosure` composes the stage operators of `ProjectStage` with the documents
of a project, `SupplierEta` extends `SourceDocument` with the dates of the purchase
orders made there, `DeliveryStock` computes the gaps of `MaterialPlanning` over its own
lines and bins. The others are components that the closure sees only
through facts (a sample is open, a quotation is approved, a high exception is
open); they run beside it on rows of their own.

### State and actions of `ProjectClosure`

`project` is the Customer Project row. Documents are model values with a
`docstatus`; a delivery or invoice belongs to an order (`OrderOf`), a payment to
an invoice (`InvoiceOf`), and an order is delivered or billed when `Ordered` of
them are submitted, which stands for `per_delivered` and `per_billed` reaching
100. `presales` holds the facts the stage derives from samples and quotations.
A closure request is a record with its snapshot; the fingerprint is the snapshot
itself, since equal hashes mean equal payloads.

A request of the server is one transaction, its document events included. Three
kinds of request take two steps because nothing they hold in between keeps the
others out:

* the event of a document. `DocumentEvent` is the request up to the save of the
  project: it derives the stage from the snapshot of its first read, with its own
  document written, and keeps in `events` what it will write. `CommitEvent` writes the
  document (`WriteDocument`, with what ERPNext books on its source) and saves the
  project if the stage has been refreshed (`RefreshProjectStage`). `AbortEvent` is any
  error. Nothing is held against a quotation, delivery or invoice that is cancelled
  meanwhile: such a cancellation does not touch the project row, and the stage is
  saved as it was derived.
* `close_project`: `BeginClose` reads evidence, row and approved request in the
  snapshot of its first read and locks the project row; `CommitClose` writes stage and
  summary, `AbortClose` rolls back. While `closing` is set no save of the project is
  enabled (`RowUnlocked`): it would wait for the row lock. The reads are older than
  the lock: a risk scan in between changes the row without its stamp, so `UpsertRisks`
  may step beside a closing, and the closing writes the level it has read.
* the cancellation of evidence: `BeginCancel` is
  `prevent_closed_project_evidence_change`, a read of the stage without a lock;
  `CommitCancel` is the cancellation itself.

What does keep two saves of the project apart is the modified stamp, which the
framework compares at each save and every save moves. An event that has read the row
before another save of it is bound to fail, and leaves `events` then
(`NotOutdated`). A save writes the whole row as it was read: the risk level, which
scans write without a stamp, falls back to what it was.

A risk scan also has two steps, `EvaluateRisks` and `UpsertRisks`: the stage is
looked at only in the first. `AbandonScan` is a scan rolled back to its
savepoint. Whether the locked read of a row that has changed since the
transaction began succeeds or fails depends on `innodb_snapshot_isolation` of the
database, which the repository does not set; the model allows both outcomes.

What is external: settling an invoice by a journal entry (`WriteOffInvoice`), the
framework's refusal to cancel a document others are built on (`NothingBuiltOn`), its
comparison of stamps (`NotOutdated`), ERPNext's booking of a submission
(`WriteDocument`), commit and rollback.

`overtaken`, `closedWith` and the field `called` of a save are history variables: the
documents cancelled or submitted beside the last closing, the summary it was given,
and the rank the documents called for when an event began. No guard reads them.

Left out: the wording of gaps and messages, reasons for side stages, members and
dates of a project, permission checks (any user may try anything; roles matter
only through `Authority`), amounts below the rounding tolerance, partial
payments and returns, the deletion of pending requests by an administrator.

### State and actions of `SampleWorkflow`

`samples` holds the rows, `feedback` the decision of each sample's Customer
Feedback. A form is opened in one step (`OpenForm` copies the row to `forms`) and
saved in another: the framework refuses the save if the row's modified stamp has
moved, which every write does here (`OutdateForm`). `record_customer_feedback`
and `create_resample` are two steps each, because their reload may show the
snapshot of their first read and they end in an insert and a `db_set` that
compare nothing; what is between two such calls is the unique index of the
inserted row. `dispatch_sample` ends in a save and is one step. Two statuses that
no guard tells apart are one: Draft (draft, to be approved), Prepared (in
production, in inspection), Dispatched (sent, awaiting feedback).

Left out: deletion by administrators, a Customer Feedback typed in by hand (its
fields are read-only in the form), roles and self-approval of the workflow,
items, quantities and contacts.

### State and actions of `SalesConversion`

`quotation` is the Quotation row; its content stands for everything the
fingerprint covers except the risk level, which is the project's. `Authority`
gives for each user the pairs of content and risk that some active rule of his
roles covers. `BeginSubmit` is the check of `before_submit` on the document in
hand; from then to `CommitSubmit` or `AbortSubmit` the row is locked
(`RowUnlocked`), but risk and requests move on. A decision by a method, the
workflow or a form goes through the same controller and is the one action
`Decide`. The two services are two steps each: all their plain reads see what was
there at the first one (`BeginRequest`, `BeginConvert`), the insert comes under
the row lock (`FinishRequest`, `FinishConvert`), and `AbandonCall` is every error
and early return. A conversion is `current` until the quotation's row changes; whether
an outdated one still gets the lock is the database's choice (`QuotationLocked`, see
Isolation below). `submission` is a history variable: who submitted what, at
which risk.

Left out: changes of the rules, quotations without a valid-till date, amendments
(a new document), Sales Orders that users make with ERPNext's own mapping, which
carry no `custom_source_quotation`, and the deletion of requests.

### State and actions of `ExceptionWorkflow`

`doc` is the one document, with its actions and its trail. Every transaction is
one step: `transition_exception` locks the row, and a save of an outdated form is
refused, so whatever is written was computed from the current row. A risk level
is High or Lower; the responsible user stands for department, user and date,
which are asked for together. Left out: creation of several exceptions of one
source, texts, comments and notifications.

### State and actions of `SourceDocument`

`docs` holds the documents the services made; each has the service, its source, a
party (the supplier of a quotation) and a docstatus. A source is a root (a deal, a
delivery, a Sales Order) or such a document, so that a chain of procurement
grows from one Sales Order. A call is two steps. `Begin` is everything it reads:
the first `get_doc` fixes the snapshot, and neither the file lock nor the lock of
the source row, both taken later, moves it, so `reload` and the lookup for an
existing document see that snapshot however long the call waits. The insert comes
under the row lock and ends the call. The three kinds differ in what then stops a
second insert:

* `InsertBare` (RFQ, supplier quotation, purchase order): nothing. The source row
  is left as it is, and the link has no unique index.
* `InsertIndexed` (project, receipt): the unique index of `crm_deal` and
  `delivery_note`, over documents of every docstatus.
* `InsertPlanned`, `PlanWithoutShortage` (Material Request): the save of the
  order's plan, which compares its modified stamp with the stored one. `SavePlan`
  makes every other call that read the plan before outdated (`current`).

`Abandon` is every error: a check, an index, an outdated plan, a lock that is not
obtained, a changed row under `innodb_snapshot_isolation`. `RootMoves` is the
source being closed, reopened or cancelled, `SubmitDoc` and `CancelDoc` the life
of the documents in ERPNext.

Left out: the deletion and amendment of documents, a `crm_deal` changed by hand
in the form of a project, plan forms saved by a user (the request is read-only
there, and such a save only makes calls fail), documents that users make with
ERPNext's own mappings, items, rates and dates. A quotation's submission also
updates the RFQ's supplier row, which with `innodb_snapshot_isolation` may make
the second of two racing quotations fail; without it both are kept.

### State and actions of `SupplierEta`

`eta` is `custom_supplier_eta` of the purchase orders, `history` the Supplier ETA
History of each in the order of its inserts. `update_supplier_eta` is two steps:
`BeginUpdate` is all it reads, because its `reload`, under the file lock and the row
lock, still sees the snapshot of the first `get_doc`, and so does the controller of
the history row, which takes the previous ETA from there; `FinishUpdate` inserts the
row and writes the order. `SourceMoves` is any step of `SourceDocument`. One that
inserts a purchase order gives it the latest delivery date of its quotation as first
ETA, as `make_purchase_order_from_supplier_quote` does (it refuses an order without a
date); the history variable `promised` keeps that date. A step that changes the order,
such as its cancellation, and another update make the update outdated
(`Overtaken`). Whether an outdated update still gets the lock is the database's
choice (`OrderLocked`, see Isolation below). Dates before that of the order are left
out: they are refused.

### State and actions of `RiskEngine`

`facts` is what the rules would measure on each document now, `risks` the Project
Risk of each deduplication key (a rule and a document of a project), `overall` the
risk level of the projects, `forms` the level an open form of a project shows.
A scan of `_scan_active_projects` is one transaction, however many projects it
visits: `BeginScan` is its first read, which fixes what all its plain reads see;
`ProcessProject` is `upsert_risks` of one project, with what it saves kept in the
scan's own view; `RefuseProject` is the rollback to the savepoint; `CommitScan` makes
everything visible. Until then the project rows it has locked and the risks it has
saved are locked. The framework compares the modified stamp of a risk when it is
saved, so a save of a risk that has changed since the snapshot is refused
(`Savable`); the risk level of the project is written by `set_value` without a
stamp, so `SaveForm` may put back the level of an old form. `UserMoves` is the save
of a risk by a user. `Die` is a worker that is stopped, or a deadlock, which rolls
back the transaction with its savepoints; `Fault` a project that fails for a
passing reason; the projects in `Broken` fail at every scan, for instance because
a Sales Order without a warehouse makes the stock rule raise.

`RiskRules` gives the level each rule finds, as a function of the one number it
compares, on the readings `Days` that documents may show. Which documents a rule looks at, and its texts, are left out: a document
appears as a reading and disappears as `Gone`. Also left out: projects that enter
or leave the terminal stages (`ProjectClosure` has what a scan does to one that is
closed), risks that a user saves without a new status, the order in which a scan
visits the projects (any). That keys are unique and that inserts of one key meet on
the unique index is part of `Savable`: both run under the lock of the project row.

### State and actions of `DeliveryStock`

A submission of a Delivery Note is one transaction. `Begin` is
`propagate_project_link` on validation and all that `validate_delivery_stock` reads
in its snapshot; `LockLine` locks the order line of the next row, in the order of
the rows; `CheckQuantities` compares what the snapshot knows as delivered, and the
delivery itself, with what was ordered; `LockBin` locks the next bin, in sorted
order, and compares the stock in the row it has locked; `Commit` is ERPNext's
booking. `Abort` is every error. `SubmitUnchecked` is a return, or a delivery none
of whose orders has a project: neither is checked. Beside them deliveries and orders
are cancelled, and other documents move stock and inbound supply (`BinMoves`).

`Gap` is `calculate_material_gap` of one item in one warehouse. Quantities are
integers in the smallest unit the database stores; the code rounds to a multiple of
`Unit` of them. Python rounds half to even and the model half up; the bounds hold
for both. `Demand` is what is left of an order in a bin, which ERPNext keeps as the
reserved quantity of the bin; `OwnDemand` is the same as the rows of the order tell
it, in units of sale times the conversion factor. That the two agree rests on
`GapAssumption`: a row's stock quantity is a whole number of its units of sale. A
negative safety stock is one of zero, as in the code.

Left out: the tolerance of 1e-9 with which the code compares quantities (`delivery.py`
77 and 103; floats near each other, which integers in the smallest stored unit do not
have), rows that are not stock items, a warehouse on the delivery other than the
one ordered, orders that are closed or on hold, the reserved quantity of documents
other than these orders, the locks that a rollback to a savepoint does not release
(more behaviours are allowed than without them), and ERPNext's own checks against
over-delivery and negative stock, which settings can switch off. `propagate_project_link`
runs on invoices, purchasing documents and payments as well, over other fields that
name their sources; only the Delivery Note, whose checks depend on the outcome, has
it as part of an action.

Two facts that a reader may not expect. Two orders with a shortage of one item both
count the whole shortage in their gap, since each is computed as if the other's
reservation came first. And a delivery is checked against the actual stock of a bin,
not against what is left after other orders' reservations, as Product-Spec.md:212
could be read.

### Isolation

Transactions run at REPEATABLE READ. Whether a locking read of a row that has
changed since the snapshot fails or returns the new row depends on
`innodb_snapshot_isolation`, which the repository does not set: it is on by default
since MariaDB 11.6.2, and `docs/research/upstream-baseline.md:29` names 11.8. `ProjectClosure`,
`SourceDocument` and `RiskEngine` allow both outcomes. `DeliveryStock`, `SupplierEta` and
`SalesConversion` take it as the constant `SnapshotIsolation`: `NotOverdelivered`,
`SubmitsAtomically`, `EtaHistoryExplains` and `OrdersAreConfirmed` hold because the second
of two transactions that meet is refused its lock, and with `FALSE` none of them does: a
sum, a docstatus, a previous ETA or a confirmation from before the lock is used after it.
`StockNotOversold` and `BinsNeverDeadlock` need no such assumption.

## 3. What is checked

| Run | Instance | Properties |
|---|---|---|
| `closure` | one order, delivery, invoice and payment, one risk, one request, two users, two amounts, one document event or cancellation in flight | `TypeOK`, `ClosedOnApprovedEvidence`, `ClosedSummaryKept`, `ImplementsLifecycle`, `ClosesAsApproved` |
| `stage` | all sample and quotation facts, one order, delivery and payment, two invoices of which one is paid in cash, one exception, two document events or cancellations in flight | `ImplementsLifecycle`, `DocumentsNeverOvershoot` |
| `samples` | three samples of which one is of the first round, two calls, two tracking numbers, forms of two samples | `TypeOK`, `RoundsFormChains`, `AnswersFollowDispatch`, `AnswersAreKept`, `SentAsDispatched` |
| `sales` | a plain content, one below its floor rate, one without a project; two users, requests, calls and orders | `TypeOK`, `SubmittedWithinAuthority`, `OneOrderAsApproved`, `OrdersAreConfirmed` |
| `exceptions` | three users, two corrective actions | `TypeOK`, `ClosedOnVerifiedWork`, `TrailIsKept` |
| `sources` | a deal, a delivery, a Sales Order; four documents, one invited and one other supplier, two calls; two ETA updates, two dates, two changes of an order | `EtaTypeOK`, `PlanNamesRequest`, `EtaHistoryExplains`, `CreatesOnce` |
| `risks` | two projects, one of them broken, one key, the hourly and the daily scan, forms of one project | `TypeOK`, `FindingsEscalate`, `RisksFollowTransitions`, `ScansSettle`, `Converges` |
| `fulfilment` | two orders of one project with two lines each, two bins; two deliveries of one order that name its lines in different orders, one of the other, one return | `TypeOK`, `BinsNeverDeadlock`, `GapCovers`, `NotOverdelivered`, `StockNotOversold`, `SubmitsAtomically` |
| `closed_evidence` | as `closure`, with an exception instead of the risk | `ClosedEvidenceNotCancelled` is violated |
| `payment_pending` | as `closed_evidence` | `PaymentPendingNeedsDelivery` is violated |
| `sample_status` | as `samples` | `StatusShowsAnswer` is violated |
| `procured_once` | a Sales Order without ETAs; else as `sources` | `ProcuredOnce` is violated |

* `ClosedOnApprovedEvidence`: a closed project has an approved request, decided
  by someone other than its requester under a rule that covers its amount and
  risk, whose snapshot has no gap, and every document in that snapshot is still
  submitted, unless its cancellation was under way while the project was closed.
* `ClosesAsApproved`: the step that closes a project closes it at the amount and risk
  level of such a request, on all of its documents and no others, but for those
  cancelled or submitted while `close_project` ran. A scan that raises the level
  meanwhile does not change what is closed.
* `ClosedSummaryKept`: as long as the project is closed, its summary is the one
  it was closed with.
* `ImplementsLifecycle`: `ProjectClosure` implements `ProjectLifecycle`, with
  `signedOff` mapped to the existence of such a request.
* `DocumentsNeverOvershoot`: an event of a document carries the stage no further than
  the documents called for when it began, its own among them, whatever other events,
  saves and scans have done to the row until it commits. The documents may call for
  less by then: a cancelled quotation or delivery does not hold the event up.
* `RoundsFormChains`: every next round follows an answered sample, has the next
  number and is the only one.
* `AnswersFollowDispatch`, `AnswersAreKept`: an answer belongs to a sample that
  went out, and neither it nor its link is lost to a form opened before it.
* `SentAsDispatched`: nothing loses that a sample went out, and its tracking is not
  overwritten by a repeated dispatch, a transition, an answer or an old form: only by a
  user who has the sent sample before him, or by the dispatch of one taken back into
  preparation, which a form may do.
* `SubmittedWithinAuthority`: what left the draft is what was checked, and lay
  within the submitter's own rules or was approved exactly so, at that risk, by a
  second person whose rules cover it.
* `OneOrderAsApproved`: racing conversions leave one order at most, never of a
  draft, and no submitted order of a cancelled quotation.
* `OrdersAreConfirmed`: when an order is made its quotation is submitted and confirmed by
  the customer, although both may be withdrawn after the conversion has read them.
* `ClosedOnVerifiedWork`: a closed exception has actions, all of them completed
  with a file of their owner, and a verifier with a file of his own, who of a
  high one neither raised it nor did or answers for any of the work.
* `TrailIsKept`: an exception moves along its transition table only, keeps who
  raised it, and never changes again once it is closed or cancelled. It does not speak of
  the approval record that Product-Spec.md:281 asks for with a cancellation: the code
  asks for a reason only.
* `CreatesOnce`: `SourceDocument` implements `CreateOnce` for deals, deliveries and
  Sales Orders: a document is made only when none stands, and only its
  cancellation makes room for another.
* `PlanNamesRequest`: the plan of an order names its standing request, although
  calls that found no shortage may be overtaken by one that made it.
* `EtaHistoryExplains`: a purchase order has an ETA from its insert on; its history starts
  from that one, each row continues from the one before, and the last one is the
  present ETA.
* `RisksFollowTransitions`: whatever scans and users do at the same time, a risk
  changes along the user's transitions, is discovered anew from the end, or is put
  to be verified by the engine. No scan undoes work on a risk, and only a user
  closes one, after it was to be verified.
* `FindingsEscalate`: from what its document shows now, a risk that is left alone never
  gets lower, and the rule never loses sight of it, as the days pass.
* `ScansSettle`: a scan that commits settles every project it has gone through of which
  nothing has moved since its snapshot, whatever its risks and the other scan were
  doing, and unsettles none it has left out.
* `Converges`: once users, documents and faults come to rest, every project that is
  not broken comes to show exactly what the rules find, and its level is the highest
  of its open risks, whatever was saved, lost or refused before.
* `NotOverdelivered`: no submission of a delivery for an order of a project takes an
  order line beyond what was ordered. It is about the step, not the state: the
  cancellation of a return may exceed the order, and nothing checks it.
* `StockNotOversold`: nor does it leave less than nothing in a bin, although stock is
  moved between its checks.
* `SubmitsAtomically`: `DeliveryStock` implements `AtomicDelivery`: a submission that
  succeeds would have succeeded if it had read, checked and booked everything at its
  commit. In particular all its orders are still submitted then, although their
  docstatus was read in the snapshot and only their lines were locked.
* `BinsNeverDeadlock`: among any submissions there is one that holds no bin another
  waits for. Order lines may be waited for in a cycle, which the database breaks.
* `GapCovers`: stock, inbound supply and the gap of an order together cover all that
  is reserved and the safety stock, and exceed it by roundings only; a gap is never
  negative.

The four violations are disagreements between the code and what the repository
says of it, with the quotation in `PROJECT.json`:

* A cancellation reads the stage before `close_project` commits and commits
  after it: the evidence of a closed project is cancelled, which the user guide
  excludes. This is why the sound properties above except overtaken cancellations.
* An invoice submitted before the delivery carries the stage to payment-pending,
  which the product specification excludes.
* A form or a late approval moves an answered sample to another status, and no
  check compares it with the answer; the data model promises that they agree.
* Two calls that both looked before either inserted make two RFQs of one Material
  Request, or two purchase orders of one quotation; the data model promises that
  the check for an existing document keeps procurement idempotent.

One more is not a run of its own: a closed project can be saved into a side stage,
and from then on no guard protects its closure summary, which two messages of the
code call unchangeable (`customer_project.py` 38-42). `ClosedSummaryKept` therefore
speaks of the time the project is closed.

**Bounds.** `PresalesKinds`, `SideExits`, `ExitStages`, `FormStages`, `FormSummaries` and `MaxInFlight` only
limit which inputs occur, and the instances are small: one of each document is
enough for every gap code, a second amount makes approvals go stale, one event or
cancellation in flight meets one closing, and two in flight meet each other and
the save of a user. Requests are filed by form in one stage
only in the `closure` run, where they skip the gap check; earlier stages add
requests that never match. Risks are in the `closure` run, where their scans also write
the level that is approved and closed, the exception is in the `stage` run: both reach the
closure through the same kind of gap. A side stage is taken from the closed stage in
`closure`, from every stage in `stage`. Summaries are typed by `close_project` only in
`closure`; a form that types one changes nothing else. In `samples`, `FirstRounds`, `FormSamples`, `FormStatuses` and
`InApproval` say which rows users insert, edit and approve: one chain of three
rounds is the shortest in which a fork and a wrong number are both possible, two
calls are what a race needs, a second tracking number is one to overwrite the first. In `sales`, `Requesters` and `Lapsing` limit who asks
for approval and which content expires; the requester's own rules cover some of
what he asks for, so that approving himself would succeed but for the guard.
In `sources`, four documents are one whole chain from
request to purchase order, and more than the two of one source that a race makes.
`MaxHistory` allows each order two changes of its ETA, the least of which the second
has one to continue from; two updates are what a race needs.
In `risks`, `FormProjects` says which forms are opened, `Broken` which project fails,
`ReadingsOf` which readings a document shows: its one reading, one day, is overdue
because the setting of zero days counts as one. `Days` lie around the two thresholds of
that setting, one day and two. Two scans are all the schedule has; one key has every transition and every conflict between a scan, the other scan and a
user, since those of different keys meet in the project row only.
In `fulfilment`, `StockLevels` and `IncomingLevels` are what other documents make of a
bin: a backlog, and enough for the deliveries of one order but not for all. The lines
of the two competing deliveries are such that either fits alone and both do not; one
delivery names a line twice; a line has a conversion factor of two; one safety stock is
negative.
Except for `MaxHistory` no behaviour is cut off by a counter: all variables are finite,
but for the round of a sample, which the number of samples bounds, and the delivered
quantities, which each delivery changes twice at most.

**Symmetry.** Calls are interchangeable in `samples`; requests, calls and orders
in `sales`; documents and calls in `procured_once`, and updates and dates beside them in
`sources`. These runs check properties that treat them alike. `risks` checks liveness and
has no symmetry.

**Fairness.** Nothing in the code obliges a user to act, so fairness is stated for the
scheduled scans alone, and `Converges` is the one liveness property. For each job:
weak fairness of `BeginScan`, because the scheduler starts it every hour or every day
(`scheduler_events` in `hooks.py`); of `ProcessProject` or `RefuseProject` for each
project, because the worker goes through the list, and a wait for a lock ends with
the lock or with the database's lock timeout, which refuses the project; of
`CommitScan`, because the worker commits after the last project. `Die` and `Fault`
stay possible at any time. That they, users and documents come to rest is the premise
of `Converges` (`<>[][EngineStep]_vars`), not an assumption of the specification.

Deadlock is checked in every run but `exceptions`, where a closed or cancelled
exception is final and the model rightly stops.

## 4. What is proved

**Closure.** `ProjectClosureProofs` holds, for all constants that meet `ClosureAssumption` and
`DisjointAssumption` (documents of different kinds are different, every delivery
and invoice has an order, authorities are pairs of amount and risk):

| Theorem | States |
|---|---|
| `TypeCorrect` | `Spec => []TypeOK` |
| `ClosureInvariant` | `Spec => []ClosureInv` |
| `ClosureSound` | `Spec => []ClosedOnApprovedEvidence` |
| `SummarySound` | `Spec => []ClosedSummaryKept` |
| `ClosureImplementsLifecycle` | `Spec => ImplementsLifecycle` |
| `ClosesSound` | `Spec => ClosesAsApproved` |
| `DocumentsSound` | `Spec => DocumentsNeverOvershoot` |

`ClosedOnApprovedEvidence` alone is not inductive: the commit of a closing relies
on checks made a step earlier. `ClosureInv` adds that approvals are sound
(`ApprovalsSound`), that a closing starts from the payment-pending stage
(`ClosingFromReady`), and that from the checks on, through the whole time the
project is closed, an approved case stands and every cancellation in flight is
counted as overtaken (`CaseStands`). That what is closed is what was approved
(`ClosesAsApproved`) needs `ClosingOnCase`: amount, risk level and documents of the
closing are those of a case, the documents submitted or cancelled beside it apart; a
document gets into evidence by its own submission only, for which a payment must not
lie before its invoice (`PaymentsFollow`). `EventsSound` says that an event which
may still save the project differs from the row as it now is by one climb, and not past
what its documents called for: whoever else had moved the stage would have moved the
stamp. `ImplementsLifecycle` and `DocumentsNeverOvershoot` follow from it. The steps rest on lemmas about what a step
leaves alone: an approved request is final (`ApprovedIsFinal`), a submitted
document loses its status only to a cancellation under way (`SubmittedStands`),
only a closing's own commit moves the stage while the row is locked
(`ProjectMoves`). `ProjectStageProofs` shows that a refresh keeps the stage or
climbs by one towards the derived stage, for every set of documents.

**Samples.** `SampleWorkflowProofs`, for all constants that meet `SampleAssumption`
and `FormStatusAssumption` (the absent values are no values, form statuses are
statuses): `SampleInvariant`, `RoundsSound`, `AnswersSound`, `AnswersKept`, `SentKept`.
`SampleInv` adds to the properties that an open form holds the current row
(`FormsAreCurrent`), that what a call has read has a lasting consequence
(`CallsAreFounded`: the sample went out, or is answered), and that a status of
dispatched samples comes from a dispatch (`StatusIsEarned`).

**Sales.** `SalesConversionProofs`, for all constants that meet `SalesAssumption`
(authorities are pairs of content and risk): `SalesInvariant`, `SubmissionSound`,
`OrdersSound` and, with `SnapshotIsolation`, `ConfirmedSound`. `SalesInv` adds that approvals are by a second person who covers
them (`ApprovalsSound`), that a submission under way stays justified
(`SubmittingSound`) and that a conversion under way has seen a submitted
quotation of a project, which still is submitted and confirmed as long as nobody has
overtaken the conversion (`ConversionsFounded`). The argument: a decided request is
final (`DecidedIsFinal`), so an approval found at the checks stands at the commit,
and a quotation never returns to the draft (`QuotationMoves`).

**Exceptions.** `ExceptionWorkflowProofs`, for all constants that meet
`ExceptionAssumption`: `ExceptionInvariant`, `ClosedVerified`, `TrailKept`.

**Sources.** `SourceDocumentProofs`, for all constants that meet `SourceAssumption`
(a root is the source of one protected service, roots are no documents):
`SourceInvariant`, `SourceTypes`, `PlanSound`, `SourceCreatesOnce`. `SourceInv` adds
that whatever is made of a root is made by its service (`MadeByItsService`), that
a call which could still save the plan belongs to an order without a request
(`CurrentCallsFoundNone`), and that one document at most stands for a root
(`OnePerRoot`). Every insert for a root is then a `Create`, every cancellation of
one an `End`.

**ETA.** The same module proves about `SupplierEta` that its sources behave as
`SourceDocument` specifies (`EtaRefinesSource`), so that `PlanSound` and
`SourceCreatesOnce` carry over (`EtaPlanSound`, `EtaCreatesOnce`), types (`EtaTypes`), and,
for every number of updates and any length of the history, `EtaHistorySound`:
with `SnapshotIsolation` the history explains the ETA. `EtaInv` says that an update
which nobody has overtaken has seen the present ETA (`UpdatesCurrent`), that updates are
of orders that exist (`UpdatesOfOrders`), and that what does not exist has no history
(`AbsentUntouched`), so that the history of a new order begins with the order.

**Risks.** `RiskEngineProofs`, for all constants that meet `RulesAssumption` and
`EngineAssumption`: `RulesNeverRelax` (`Escalates` for every rule, every
set of integer readings and every setting), `FindingsNeverRelax`, `RiskInvariant`, `RiskTypes`, `RisksSound`, `ScansSettleProjects`. `RiskInv` adds to the types that no two scans hold one
project, that what a scan has read and nobody has changed still is so, and that what
it has saved is, when it commits, a legal move of the risk as it is now
(`ScansSound`). The last one needs the lock on what is saved and the check of the
stamp; without the check the property is lost (the run's mutant).

`ScansSettleProjects` is the part of `Converges` that is about steps: every commit
brings the fresh projects of a scan to what the rules find. Its invariant
`ScansShow` says that the risks of each project a scan has gone through show, in its
own view, what it has found; with the `ScansSound` part of `RiskInv` (what is not stale
is unchanged) this carries over to the risks themselves at the commit. What remains of
`Converges` is the fairness argument that such a commit comes, and comes again.

**Deliveries.** `DeliveryStockProofs`, for all constants that meet
`DeliveryAssumption`, `GapAssumption` and `UnitAssumption`: `DeliveryInvariant`, `DeliveryTypes`,
`NeverOversold`, `NoDeadlockOverBins`, `GapsCover`, and, with `SnapshotIsolation`,
`NeverOverdelivered` and `SubmissionsAtomic`. In `DeliveryInv` a submission owns the lines and bins it has
locked, apart from all others; what it has summed is still what is delivered of the
lines it holds, as long as it holds them unchanged; the bins it holds have what it
requires, and lie before those it still needs. For the deadlock the argument takes
the least bin waited for in a set of submissions: the one that waits for it holds
only smaller ones, which nobody in the set waits for.

`SubmissionsAtomic` is the refinement of `AtomicDelivery`, with the variables that the
two share mapped to themselves: a commit is a `Submit`, a cancellation a `Cancel` or
`Withdraw`, a movement of stock a `Move`, and everything else a stutter. It needs one
invariant more, `AllSourcesStand`: each line of a submission still has a standing order,
unless it has changed since the snapshot, and then its lock is refused; so at the
commit, when all lines are locked, all orders stand. `CommitIsAtomic` puts this together with what `DeliveryInv` says of quantities
and bins.

`GapsCover` is `GapCovers` for every number of orders, lines and bins. `GapBounds`
proves its inequalities for one position from what is reserved and what of it is the
order's own; that this is a part of the whole, and that the roundings of the lines add
up to half a `Unit` each at most, are facts about sums over finite sets. They are proved
from the definition of the fold by smallest counterexample (`NoSmallestCounterexample`,
`SumStep`, `SumCoversMember`, `SumsCompare`), since an induction theorem with an
operator parameter cannot be used. The state's part is `DeliveredWhole`: what is
delivered of a line is a whole number of its units of sale, whatever was submitted,
returned or cancelled.

**Samples, sales and exceptions** also have their types proved: `SampleTypes`,
`SalesTypes`, `ExceptionTypes`.

Every invariant and action property of the passing runs, and every refinement, is thus
a theorem for all constants that meet the assumptions (four of them with
`SnapshotIsolation`, see Isolation above). Only model-checked are
`Converges`, because liveness under fairness needs `ENABLED`, which the proof system used
does not handle; the four violations, which are behaviours of the instances; and that
the instances reach what the properties talk about: each property has a mutant of the
code's model that breaks it.

## 5. Not modelled

* **AI analysis.** `analyze_project` inserts a row, calls a provider, and saves the row
  in the same transaction, in a `finally`: no other transaction sees it in
  between, and whatever happens it ends as succeeded or degraded, or not at all. The
  rest is prompts, parsing and wording. `generate_weekly_drafts` writes nothing; that
  two runs of it may queue the same draft is listed as a hazard.
* **Permissions and portals.** Query conditions and pages that keep no state. Roles enter
  the models where a decision depends on them (`Authority`, `Invited`).
* **HTTP API and analytics.** Wrappers over the services, and read-only aggregates.
* **Setup, demo data, deployment.** Run once; the workflow transitions and fields they
  install are in the models as guards and variables.
* **Rules of approval.** Which contents a user's rules cover is a constant: nobody
  edits rules while a request is pending.
* **Document events of purchasing.** Receipts, purchase invoices and supplier payments
  only get the project link of their sources.
