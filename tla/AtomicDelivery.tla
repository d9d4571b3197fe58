--------------------------- MODULE AtomicDelivery ---------------------------
(***************************************************************************)
(* What the checks of a delivery promise: as if everything it asks were    *)
(* asked at the very moment of its submission, a delivery of a project is  *)
(* booked only for orders of that project that are submitted then, within  *)
(* what is ordered of every line and with what is in every bin.            *)
(*                                                                         *)
(* There are no locks here, no snapshot and nothing in between.            *)
(* DeliveryStock implements this with several of each.                     *)
(***************************************************************************)
EXTENDS Integers

CONSTANTS
    Orders, Lines, OrderOf,
    NoProject, ProjectOf,
    Ordered,
    Bins, StockLevels,
    Deliveries,
    Quantity, Required,
    ReturnOf, NoDelivery

VARIABLES status, standing, delivered, stock

books == <<status, standing, delivered, stock>>

AtomicInit ==
    /\ status = [d \in Deliveries |-> "Draft"]
    /\ standing = Orders
    /\ delivered = [l \in Lines |-> 0]
    /\ stock = [b \in Bins |-> 0]

\* The orders that a delivery takes from, or gives back to.
OrdersOf(d) == {OrderOf[l] : l \in {l \in Lines : Quantity[d][l] # 0}}

\* A return, or of no project: it is not checked.
Exempt(d) ==
    ReturnOf[d] # NoDelivery \/ \A o \in OrdersOf(d) : ProjectOf[o] = NoProject

OneProject(d) == \A o, p \in OrdersOf(d) : ProjectOf[o] = ProjectOf[p]

WithinOrder(d) ==
    \A l \in Lines :
        Quantity[d][l] # 0 => delivered[l] + Quantity[d][l] <= Ordered[l]

InStock(d) == \A b \in Bins : Required[d][b] # 0 => Required[d][b] <= stock[b]

Submit(d) ==
    /\ status[d] = "Draft"
    /\ ReturnOf[d] # NoDelivery => status[ReturnOf[d]] = "Submitted"
    /\ OrdersOf(d) \subseteq standing
    /\ ~Exempt(d) => OneProject(d) /\ WithinOrder(d) /\ InStock(d)
    /\ status' = [status EXCEPT ![d] = "Submitted"]
    /\ delivered' = [l \in Lines |-> delivered[l] + Quantity[d][l]]
    /\ stock' = [b \in Bins |-> stock[b] - Required[d][b]]
    /\ UNCHANGED standing

Cancel(d) ==
    /\ status[d] = "Submitted"
    /\ \A r \in Deliveries : ReturnOf[r] = d => status[r] # "Submitted"
    /\ status' = [status EXCEPT ![d] = "Cancelled"]
    /\ delivered' = [l \in Lines |-> delivered[l] - Quantity[d][l]]
    /\ stock' = [b \in Bins |-> stock[b] + Required[d][b]]
    /\ UNCHANGED standing

\* Not while something of it is delivered.
Withdraw(o) ==
    /\ o \in standing
    /\ \A d \in Deliveries : o \in OrdersOf(d) => status[d] # "Submitted"
    /\ standing' = standing \ {o}
    /\ UNCHANGED <<status, delivered, stock>>

Move(b) ==
    /\ \E q \in StockLevels : stock' = [stock EXCEPT ![b] = q]
    /\ UNCHANGED <<status, standing, delivered>>

AtomicNext ==
    \/ \E d \in Deliveries : Submit(d) \/ Cancel(d)
    \/ \E o \in Orders : Withdraw(o)
    \/ \E b \in Bins : Move(b)

AtomicSpec == AtomicInit /\ [][AtomicNext]_books
=============================================================================
