SPECIFICATION Spec
CONSTANTS
    order = order
    delivery = delivery
    invoice = invoice
    payment = payment
    requester = requester
    approver = approver
    Orders = {order}
    Deliveries = {delivery}
    Invoices = {invoice}
    Payments = {payment}
    OrderOf <- MCOrderOf
    InvoiceOf <- MCInvoiceOf
    Ordered <- MCOrdered
    PosInvoices = {}
    Exceptions = {}
    Risks = {r1}
    Requests = {q1}
    Users = {requester, approver}
    Amounts = {1, 2}
    Authority <- MCAuthority
    Summaries = {s1}
    NoSummary = NoSummary
    NoUser = NoUser

    PresalesKinds = {}
    FormStages = {"PaymentPending"}
    SideExits = {"Failed"}
    ExitStages = {"Closed"}
    FormSummaries = {NoSummary}
    MaxInFlight = 1
INVARIANTS TypeOK ClosedOnApprovedEvidence ClosedSummaryKept
PROPERTIES ImplementsLifecycle ClosesAsApproved
