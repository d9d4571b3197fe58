SPECIFICATION EtaSpec
CONSTANTS
    deal = deal
    delivery = delivery
    salesOrder = salesOrder
    Roots = {deal, delivery, salesOrder}
    ServiceOf <- Served
    Docs = {d1, d2, d3, d4}
    Suppliers = {v1, v2}
    Invited = {v1}
    Calls = {c1, c2}
    NoSupplier = NoSupplier
    NoCall = NoCall
    NoDoc = NoDoc
    NoPlan = NoPlan
    Etas = {e1, e2}
    NoEta = NoEta
    NoUpdate = NoUpdate
    Updates = {u1, u2}
    MaxHistory = 2
    SnapshotIsolation = TRUE
SYMMETRY EtaSymmetry
INVARIANTS EtaTypeOK PlanNamesRequest EtaHistoryExplains
PROPERTY CreatesOnce
