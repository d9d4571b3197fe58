SPECIFICATION Spec
CONSTANTS
    Unit = 2
    project = project
    other = other
    order = order
    spare = spare
    a = a
    b = b
    c = c
    e = e
    first = first
    second = second
    third = third
    back = back
    Orders = {order, spare}
    Lines = {a, b, c, e}
    OrderOf <- MCOrderOf
    Projects = {project, other}
    NoProject = NoProject
    ProjectOf <- MCProjectOf
    Ordered <- MCOrdered
    Factor <- MCFactor
    Bins = {1, 2}
    BinOf <- MCBinOf
    SafetyStock <- MCSafetyStock
    StockLevels <- MCStockLevels
    IncomingLevels <- MCIncomingLevels
    Deliveries = {first, second, third, back}
    RowsOf <- MCRowsOf
    Quantity <- MCQuantity
    Required <- MCRequired
    ReturnOf <- MCReturnOf
    NoDelivery = NoDelivery
    NoSubmission = NoSubmission
    SnapshotIsolation = TRUE
INVARIANTS TypeOK BinsNeverDeadlock GapCovers
PROPERTIES NotOverdelivered StockNotOversold SubmitsAtomically
