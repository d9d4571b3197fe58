SPECIFICATION Spec
CONSTANTS
    deal = deal
    delivery = delivery
    salesOrder = salesOrder
    Roots = {salesOrder}
    ServiceOf <- OneOrder
    Docs = {d1, d2, d3, d4}
    Suppliers = {v1, v2}
    Invited = {v1}
    Calls = {c1, c2}
    NoSupplier = NoSupplier
    NoCall = NoCall
    NoDoc = NoDoc
    NoPlan = NoPlan
SYMMETRY Symmetry
INVARIANT ProcuredOnce
