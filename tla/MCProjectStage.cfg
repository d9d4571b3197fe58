SPECIFICATION Spec
CONSTANTS
    order = order
    delivery = delivery
    invoice = invoice
    payment = payment
    requester = requester
    approver = approver
    Orders = {order}
    Deliveries = {delivery}
    Invoices = {invoice, cashInvoice}
    Payments = {payment}
    OrderOf <- MCOrderOf
    InvoiceOf <- MCInvoiceOf
    Ordered <- MCOrdered
    PosInvoices = {cashInvoice}
    Exceptions = {x1}
    Risks = {}
    Requests = {}
    Users = {requester, approver}
    Amounts = {1}
    Authority <- MCAuthority
    Summaries = {}
    NoSummary = NoSummary
    NoUser = NoUser

    PresalesKinds = {"openSample", "quotation", "confirmedQuotation"}
    FormStages = {"PaymentPending"}
    SideExits = {"Paused"}
    ExitStages = {"Potential", "Sampling", "Quoting", "Awarded", "Fulfilment", "Delivered", "PaymentPending", "Closed"}
    FormSummaries = {NoSummary}
    MaxInFlight = 2
PROPERTIES  DocumentsNeverOvershoot
