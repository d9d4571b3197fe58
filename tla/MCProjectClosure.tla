-------------------------- MODULE MCProjectClosure --------------------------
(* One order, its deliveries and invoices, and a payment that settles the  *)
(* first invoice.                                                          *)
EXTENDS ProjectClosure

CONSTANTS order, delivery, invoice, payment, requester, approver

MCOrderOf == [d \in Deliveries \cup Invoices |-> order]
MCInvoiceOf == [p \in Payments |-> invoice]
MCOrdered == [o \in {order} |-> Cardinality(Deliveries)]

\* The requester may approve small amounts at low risk, the approver anything.
MCAuthority ==
    [u \in Users |-> IF u = approver THEN Amounts \X RiskLevels ELSE {<<1, "Low">>}]
=============================================================================
