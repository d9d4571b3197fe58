--------------------------- MODULE DeliveryStock ---------------------------
(***************************************************************************)
(* Delivery Notes of Sales Orders: their project link, the checks of a     *)
(* submission, and what they make of order lines and bins, next to the     *)
(* material gaps of the orders.                                            *)
(*                                                                         *)
(* Models validate_delivery_stock (services/delivery.py) with              *)
(* propagate_project_link (services/project_linking.py) before it, and     *)
(* what ERPNext does when a delivery is submitted.  A submission is one    *)
(* transaction.  It sums what is delivered in the snapshot of its first    *)
(* read, after it has locked the order lines one by one, in the order of   *)
(* its rows; then it locks the bins, sorted, and compares the stock it     *)
(* finds there.  All locks are kept to its end.                            *)
(***************************************************************************)
EXTENDS MaterialPlanning, Sequences, FiniteSets, FiniteSetsExt

CONSTANTS
    Orders, Lines, OrderOf,
    Projects, NoProject, ProjectOf,  \* of an order, or none
    Ordered,       \* stock quantity of a line
    Factor,        \* stock units in a unit of sale of a line
    Bins,          \* an item in a warehouse, numbered as they are sorted
    BinOf,         \* of a line, as it was ordered
    SafetyStock,   \* of the item of a bin, as stored
    StockLevels, IncomingLevels,     \* what other documents make of a bin
    Deliveries,
    RowsOf,        \* the order lines of a delivery's rows
    Quantity,      \* stock quantity of a delivery, per line
    Required,      \* the same, per bin
    ReturnOf, NoDelivery,            \* the delivery that a return is of
    NoSubmission,
    SnapshotIsolation                \* innodb_snapshot_isolation

ASSUME DeliveryAssumption ==
    /\ OrderOf \in [Lines -> Orders]
    /\ ProjectOf \in [Orders -> Projects \cup {NoProject}]
    /\ NoProject \notin Projects
    /\ Ordered \in [Lines -> Nat]
    /\ Bins \subseteq Nat
    /\ BinOf \in [Lines -> Bins]
    /\ Lines \cap Bins = {}
    /\ StockLevels \subseteq Int
    /\ IncomingLevels \subseteq Nat
    /\ RowsOf \in [Deliveries -> Seq(Lines)]
    /\ Quantity \in [Deliveries -> [Lines -> Int]]
    /\ \A d \in Deliveries, l \in Lines :
          Quantity[d][l] # 0 => \E i \in 1..Len(RowsOf[d]) : RowsOf[d][i] = l
    /\ Required \in [Deliveries -> [Bins -> Int]]
    /\ ReturnOf \in [Deliveries -> Deliveries \cup {NoDelivery}]
    /\ NoDelivery \notin Deliveries
    /\ SnapshotIsolation \in BOOLEAN

\* A quantity of a line is a number of its units of sale.
WholeUnits(l, q) == q = Factor[l] * (q \div Factor[l])

ASSUME GapAssumption ==
    /\ IsFiniteSet(Orders)
    /\ IsFiniteSet(Lines)
    /\ Factor \in [Lines -> Nat \ {0}]
    /\ SafetyStock \in [Bins -> Int]
    /\ \A d \in Deliveries, l \in Lines : WholeUnits(l, Quantity[d][l])

LinesOf(d) == {RowsOf[d][i] : i \in 1..Len(RowsOf[d])}
BinsOf(d) == {b \in Bins : Required[d][b] # 0}
OrdersOf(d) == {OrderOf[l] : l \in LinesOf(d)}
IsReturn(d) == ReturnOf[d] # NoDelivery

Submission ==
    [ delivered : [Lines -> Int],   \* by others, in its snapshot
      rows : Nat,                   \* of which it has locked the order line
      checked : BOOLEAN,            \* the quantities
      bins : SUBSET Bins,           \* that it has locked
      changed : SUBSET (Lines \cup Bins) ]  \* by others, since the snapshot

VARIABLES
    status,       \* of the deliveries
    standing,     \* the orders that are submitted
    delivered,    \* of each line, by all submitted deliveries
    stock,        \* actual_qty of the bins
    incoming,     \* ordered_qty of the bins
    submissions

vars == <<status, standing, delivered, stock, incoming, submissions>>

TypeOK ==
    /\ status \in [Deliveries -> {"Draft", "Submitted", "Cancelled"}]
    /\ standing \subseteq Orders
    /\ delivered \in [Lines -> Int]
    /\ stock \in [Bins -> Int]
    /\ incoming \in [Bins -> Nat]
    /\ submissions \in [Deliveries -> Submission \cup {NoSubmission}]
    /\ \A d \in Deliveries : submissions[d] # NoSubmission =>
          /\ status[d] = "Draft"
          /\ submissions[d].rows <= Len(RowsOf[d])
          /\ submissions[d].checked => submissions[d].rows = Len(RowsOf[d])

Active == {d \in Deliveries : submissions[d] # NoSubmission}

HeldLines(d) == {RowsOf[d][i] : i \in 1..submissions[d].rows}
LineFree(l) == \A d \in Active : l \notin HeldLines(d)
BinFree(b) == \A d \in Active : b \notin submissions[d].bins

\* The submissions after some rows have changed.
Outdated(rows) ==
    [ d \in Deliveries |->
        IF d \in Active THEN [submissions[d] EXCEPT !.changed = @ \cup rows]
                        ELSE NoSubmission ]

\* The lock of a row that has changed since the snapshot is refused.
Current(d, row) == SnapshotIsolation => row \notin submissions[d].changed

Init ==
    /\ status = [d \in Deliveries |-> "Draft"]
    /\ standing = Orders
    /\ delivered = [l \in Lines |-> 0]
    /\ stock = [b \in Bins |-> 0]
    /\ incoming = [b \in Bins |-> 0]
    /\ submissions = [d \in Deliveries |-> NoSubmission]

-----------------------------------------------------------------------------
(* The project of a delivery.                                              *)

source_projects(d) == {ProjectOf[o] : o \in OrdersOf(d)} \ {NoProject}

\* A mutant: the project is what the user has put.
ProjectAsGiven(d, given) == {given} \ {NoProject}

\* The projects that the sources and the user give a delivery.
propagate_project_link(d, given) == (source_projects(d) \cup {given}) \ {NoProject}

-----------------------------------------------------------------------------
(* A submission with its checks.                                           *)

\* A mutant: the docstatus of the orders is not looked at.
SourcesMatchUnsubmitted(d, project) ==
    /\ LinesOf(d) # {}
    /\ \A l \in LinesOf(d) : Quantity[d][l] > 0
    /\ \A o \in OrdersOf(d) : ProjectOf[o] = project

\* All that it reads in its snapshot, but for what has been delivered.
SourcesMatch(d, project) ==
    /\ LinesOf(d) # {}
    /\ \A l \in LinesOf(d) : Quantity[d][l] > 0
    /\ \A o \in OrdersOf(d) : o \in standing /\ ProjectOf[o] = project

Begin(d, given) ==
    /\ status[d] = "Draft"
    /\ submissions[d] = NoSubmission
    /\ ~IsReturn(d)
    /\ \E project \in Projects :
          /\ propagate_project_link(d, given) = {project}
          /\ SourcesMatch(d, project)
    /\ submissions' = [submissions EXCEPT ![d] =
                          [ delivered |-> delivered, rows |-> 0, checked |-> FALSE,
                            bins |-> {}, changed |-> {} ]]
    /\ UNCHANGED <<status, standing, delivered, stock, incoming>>

NextLine(d) == RowsOf[d][submissions[d].rows + 1]

LockLine(d) ==
    /\ d \in Active
    /\ submissions[d].rows < Len(RowsOf[d])
    /\ \A e \in Active \ {d} : NextLine(d) \notin HeldLines(e)
    /\ Current(d, NextLine(d))
    /\ submissions' = [submissions EXCEPT ![d].rows = @ + 1]
    /\ UNCHANGED <<status, standing, delivered, stock, incoming>>

QuantityFits(d, l) == submissions[d].delivered[l] + Quantity[d][l] <= Ordered[l]

\* A mutant: the quantities are compared before every line is locked.
CheckQuantitiesEarly(d) ==
    /\ d \in Active
    /\ ~submissions[d].checked
    /\ \A l \in LinesOf(d) : QuantityFits(d, l)
    /\ submissions' = [submissions EXCEPT ![d].checked = TRUE]
    /\ UNCHANGED <<status, standing, delivered, stock, incoming>>

CheckQuantities(d) ==
    /\ d \in Active
    /\ ~submissions[d].checked
    /\ submissions[d].rows = Len(RowsOf[d])
    /\ \A l \in LinesOf(d) : QuantityFits(d, l)
    /\ submissions' = [submissions EXCEPT ![d].checked = TRUE]
    /\ UNCHANGED <<status, standing, delivered, stock, incoming>>

\* A mutant: the bins are locked in any order.
AnyBin(d, b) == b \in BinsOf(d) \ submissions[d].bins

\* The bins are locked in their order.
NextBin(d, b) ==
    /\ b \in BinsOf(d) \ submissions[d].bins
    /\ \A c \in BinsOf(d) \ submissions[d].bins : b <= c

\* A mutant: the stock is not looked at.
LockBinOnly(d, b) ==
    /\ d \in Active
    /\ submissions[d].checked
    /\ NextBin(d, b)
    /\ BinFree(b)
    /\ Current(d, b)
    /\ submissions' = [submissions EXCEPT ![d].bins = @ \cup {b}]
    /\ UNCHANGED <<status, standing, delivered, stock, incoming>>

LockBin(d, b) ==
    /\ d \in Active
    /\ submissions[d].checked
    /\ NextBin(d, b)
    /\ BinFree(b)
    /\ Current(d, b)
    /\ stock[b] >= Required[d][b]
    /\ submissions' = [submissions EXCEPT ![d].bins = @ \cup {b}]
    /\ UNCHANGED <<status, standing, delivered, stock, incoming>>

\* ERPNext books the delivery: it updates the order lines and the bins.
Book(d) ==
    /\ status' = [status EXCEPT ![d] = "Submitted"]
    /\ delivered' = [l \in Lines |-> delivered[l] + Quantity[d][l]]
    /\ stock' = [b \in Bins |-> stock[b] - Required[d][b]]

Commit(d) ==
    /\ d \in Active
    /\ submissions[d].checked
    /\ submissions[d].bins = BinsOf(d)
    /\ Book(d)
    /\ submissions' = [Outdated(LinesOf(d) \cup BinsOf(d)) EXCEPT ![d] = NoSubmission]
    /\ UNCHANGED <<standing, incoming>>

\* A check, a lock timeout, a deadlock, a check of ERPNext, a lost connection.
Abort(d) ==
    /\ d \in Active
    /\ submissions' = [submissions EXCEPT ![d] = NoSubmission]
    /\ UNCHANGED <<status, standing, delivered, stock, incoming>>

-----------------------------------------------------------------------------
(* What goes on beside it.                                                 *)

RowsFree(d) == (\A l \in LinesOf(d) : LineFree(l)) /\ (\A b \in BinsOf(d) : BinFree(b))

\* Returns, and deliveries without a project, are not checked.
SubmitUnchecked(d, given) ==
    /\ status[d] = "Draft"
    /\ submissions[d] = NoSubmission
    /\ IF IsReturn(d) THEN status[ReturnOf[d]] = "Submitted"
                      ELSE propagate_project_link(d, given) = {}
    /\ OrdersOf(d) \subseteq standing
    /\ RowsFree(d)
    /\ Book(d)
    /\ submissions' = Outdated(LinesOf(d) \cup BinsOf(d))
    /\ UNCHANGED <<standing, incoming>>

\* Not while a submitted return refers to it.
CancelDelivery(d) ==
    /\ status[d] = "Submitted"
    /\ \A r \in Deliveries : ReturnOf[r] = d => status[r] # "Submitted"
    /\ RowsFree(d)
    /\ status' = [status EXCEPT ![d] = "Cancelled"]
    /\ delivered' = [l \in Lines |-> delivered[l] - Quantity[d][l]]
    /\ stock' = [b \in Bins |-> stock[b] + Required[d][b]]
    /\ submissions' = Outdated(LinesOf(d) \cup BinsOf(d))
    /\ UNCHANGED <<standing, incoming>>

\* Not while a submitted delivery refers to it.
CancelOrder(o) ==
    LET lines == {l \in Lines : OrderOf[l] = o}
    IN  /\ o \in standing
        /\ \A d \in Deliveries : o \in OrdersOf(d) => status[d] # "Submitted"
        /\ \A l \in lines : LineFree(l)
        /\ standing' = standing \ {o}
        /\ submissions' = Outdated(lines)
        /\ UNCHANGED <<status, delivered, stock, incoming>>

\* Purchases, receipts, transfers, other deliveries.
BinMoves(b) ==
    /\ BinFree(b)
    /\ \E q \in StockLevels : stock' = [stock EXCEPT ![b] = q]
    /\ \E q \in IncomingLevels : incoming' = [incoming EXCEPT ![b] = q]
    /\ submissions' = Outdated({b})
    /\ UNCHANGED <<status, standing, delivered>>

Next ==
    \/ \E d \in Deliveries, given \in Projects \cup {NoProject} : Begin(d, given)
    \/ \E d \in Deliveries : LockLine(d)
    \/ \E d \in Deliveries : CheckQuantities(d)
    \/ \E d \in Deliveries, b \in Bins : LockBin(d, b)
    \/ \E d \in Deliveries : Commit(d)
    \/ \E d \in Deliveries : Abort(d)
    \/ \E d \in Deliveries, given \in Projects \cup {NoProject} : SubmitUnchecked(d, given)
    \/ \E d \in Deliveries : CancelDelivery(d)
    \/ \E o \in Orders : CancelOrder(o)
    \/ \E b \in Bins : BinMoves(b)

Spec == Init /\ [][Next]_vars

-----------------------------------------------------------------------------
(* What must hold.                                                         *)

Submits(d) == status[d] = "Draft" /\ status'[d] = "Submitted"
OfProject(d) == \E o \in OrdersOf(d) : ProjectOf[o] # NoProject

\* However many deliveries of a line are submitted together, whatever is returned
\* or cancelled meanwhile and whatever project the user has put: no submission of
\* a delivery from an order of a project takes a line beyond what was ordered.
\* (delivery.py 24-80; docs/user-guide/procurement-and-delivery.md:20.)
NotOverdelivered ==
    [][ \A d \in Deliveries :
          Submits(d) /\ OfProject(d) /\ ~IsReturn(d) =>
              \A l \in LinesOf(d) : delivered'[l] <= Ordered[l] ]_vars

\* Nor does it leave less than nothing in a bin, although others move stock and
\* lock bins between its checks.  (delivery.py 83-113; Product-Spec.md:321.)
StockNotOversold ==
    [][ \A d \in Deliveries :
          Submits(d) /\ OfProject(d) /\ ~IsReturn(d) =>
              \A b \in BinsOf(d) : stock'[b] >= 0 ]_vars

\* A submission has the effect of one that reads, checks and books all at once, at
\* its commit: the lines, the bins and the orders whose docstatus it has read in its
\* snapshot are then as it has found them.  (delivery.py 24-113, 44.)
Atomic == INSTANCE AtomicDelivery

SubmitsAtomically == Atomic!AtomicSpec

\* Deliveries wait for each other's order lines, in whatever order their rows
\* name them, but never in a cycle for bins.  (delivery.py:93.)
BinsNeverDeadlock ==
    \A cycle \in (SUBSET Active) \ {{}} :
        \E d \in cycle : \A e \in cycle \ {d} :
            ~ \E b \in submissions[d].bins :
                  submissions[e].checked /\ NextBin(e, b)

LinesAt(o, b) == {l \in Lines : OrderOf[l] = o /\ BinOf[l] = b}

\* The unrounded demand of an order from a bin.
Demand(o, b) ==
    SumFunctionOnSet([l \in Lines |-> AtLeast0(Ordered[l] - delivered[l])], LinesAt(o, b))

Reserved(b) == SumFunctionOnSet([o \in Orders |-> Demand(o, b)], standing)

\* The same demand, as the rows of the order tell it.
OwnDemand(o, b) ==
    SumFunctionOnSet(
        [l \in Lines |-> OpenDemand(Ordered[l], delivered[l] \div Factor[l], Factor[l])],
        LinesAt(o, b))

\* The gap of an order.
Gap(o, b) ==
    required_qty(OwnDemand(o, b), Reserved(b), stock[b], incoming[b], SafetyStock[b])

\* Buying what an order requires covers everything that is reserved and the
\* safety stock, and nothing beyond, but for what the roundings make of it: one
\* for each line of the order, and five more.  (material_planning.py 80-155.)
GapCovers ==
    \A o \in standing, b \in Bins :
        LET roundings == Cardinality(LinesAt(o, b)) + 5
            surplus == stock[b] + incoming[b] + Gap(o, b)
                           - Reserved(b) - AtLeast0(SafetyStock[b])
        IN  /\ Gap(o, b) >= 0
            /\ 2 * surplus >= -Unit * roundings
            /\ Gap(o, b) > 0 => 2 * surplus <= Unit * roundings
=============================================================================
