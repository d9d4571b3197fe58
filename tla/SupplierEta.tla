---------------------------- MODULE SupplierEta ----------------------------
(***************************************************************************)
(* The arrival dates of the purchase orders that the services of           *)
(* SourceDocument make, and the history of their changes.                  *)
(*                                                                         *)
(* Models update_supplier_eta (services/procurement.py) with the           *)
(* controller of Supplier ETA History.  The update reads the order, takes  *)
(* the lock of its row and reloads it, but from the snapshot of the first  *)
(* read: both the check for a change and the previous ETA that the history *)
(* keeps are of that snapshot.  The first ETA comes with the order, which  *)
(* takes it from the quotation it is made of.                              *)
(***************************************************************************)
EXTENDS SourceDocument, Sequences

CONSTANTS
    Etas,              \* dates not before that of the order
    NoEta, NoUpdate,
    Updates,           \* updates in flight at a time
    MaxHistory,        \* bound: changes of one order
    SnapshotIsolation  \* innodb_snapshot_isolation

ASSUME EtaAssumption ==
    /\ Etas # {}
    /\ NoEta \notin Etas
    /\ MaxHistory \in Nat
    /\ SnapshotIsolation \in BOOLEAN

EtaChange == [previous_eta : Etas \cup {NoEta}, new_eta : Etas]

Update ==
    [ order : Docs,
      custom_supplier_eta : Etas \cup {NoEta},   \* in its snapshot
      new_eta : Etas,
      current : BOOLEAN ]                        \* the order has not changed since

VARIABLES
    eta,       \* custom_supplier_eta
    promised,  \* history variable: what eta was when the order was inserted
    history,   \* the Supplier ETA History of each order, as it was inserted
    updates

etaVars == <<docs, ready, plans, calls, eta, promised, history, updates>>

EtaTypeOK ==
    /\ TypeOK
    /\ eta \in [Docs -> Etas \cup {NoEta}]
    /\ promised \in [Docs -> Etas \cup {NoEta}]
    /\ history \in [Docs -> Seq(EtaChange)]
    /\ updates \in [Updates -> Update \cup {NoUpdate}]

EtaInit ==
    /\ Init
    /\ eta = [d \in Docs |-> NoEta]
    /\ promised = [d \in Docs |-> NoEta]
    /\ history = [d \in Docs |-> <<>>]
    /\ updates = [u \in Updates |-> NoUpdate]

\* The updates in flight after some orders have changed.
Overtaken(orders) ==
    [ u \in Updates |->
        IF updates[u] # NoUpdate /\ updates[u].order \in orders
        THEN [updates[u] EXCEPT !.current = FALSE] ELSE updates[u] ]

\* The purchase orders that a step of the services inserts.
NewOrders == {d \in Docs : docs[d] = Absent /\ docs'[d] # Absent /\ docs'[d].service = "order"}

\* A purchase order is inserted with the latest delivery date of its quotation.
SourceMoves ==
    /\ Next
    /\ \E latest \in Etas :
          /\ eta' = [d \in Docs |-> IF d \in NewOrders THEN latest ELSE eta[d]]
          /\ promised' = [d \in Docs |-> IF d \in NewOrders THEN latest ELSE promised[d]]
    /\ updates' = Overtaken({d \in Docs : docs'[d] # docs[d]})
    /\ UNCHANGED history

BeginUpdate(u, order, new_eta) ==
    /\ updates[u] = NoUpdate
    /\ Submitted(order)
    /\ docs[order].service = "order"
    /\ new_eta # eta[order]
    /\ Len(history[order]) < MaxHistory
    /\ updates' = [updates EXCEPT ![u] =
                      [ order |-> order, custom_supplier_eta |-> eta[order],
                        new_eta |-> new_eta, current |-> TRUE ]]
    /\ UNCHANGED <<docs, ready, plans, calls, eta, promised, history>>

\* A mutant: the row of the order is not locked.
OrderUnlocked(u) == updates[u] # NoUpdate

\* The lock of the order's row is refused when it has changed since the snapshot.
OrderLocked(u) == SnapshotIsolation => updates[u].current

\* The history row and the new ETA, under the lock of the order's row.
FinishUpdate(u) ==
    LET order == updates[u].order
    IN  /\ updates[u] # NoUpdate
        /\ OrderLocked(u)
        /\ history' = [history EXCEPT ![order] = Append(@,
                          [ previous_eta |-> updates[u].custom_supplier_eta,
                            new_eta |-> updates[u].new_eta ])]
        /\ eta' = [eta EXCEPT ![order] = updates[u].new_eta]
        /\ updates' = [Overtaken({order}) EXCEPT ![u] = NoUpdate]
        /\ UNCHANGED <<docs, ready, plans, calls, promised>>

\* A lock that is refused or not obtained, an order cancelled or closed meanwhile.
AbandonUpdate(u) ==
    /\ updates[u] # NoUpdate
    /\ updates' = [updates EXCEPT ![u] = NoUpdate]
    /\ UNCHANGED <<docs, ready, plans, calls, eta, promised, history>>

EtaNext ==
    \/ SourceMoves
    \/ \E u \in Updates, d \in Docs, e \in Etas : BeginUpdate(u, d, e)
    \/ \E u \in Updates : FinishUpdate(u)
    \/ \E u \in Updates : AbandonUpdate(u)

EtaSpec == EtaInit /\ [][EtaNext]_etaVars

-----------------------------------------------------------------------------
(* What must hold.                                                         *)

\* A purchase order has an ETA from its insert on, and its history explains the
\* present one: it starts from the ETA the order was inserted with, each change
\* continues from the ETA that the one before has left, and the last one leaves
\* the present ETA, although updates of one order meet.  (procurement.py 318-382,
\* supplier_eta_history.py 8-26.)
EtaHistoryExplains ==
    \A d \in Docs :
        /\ docs[d] # Absent /\ docs[d].service = "order" => eta[d] # NoEta
        /\ \A i \in 1..Len(history[d]) :
              history[d][i].previous_eta =
                  IF i = 1 THEN promised[d] ELSE history[d][i - 1].new_eta
        /\ eta[d] = IF history[d] = <<>> THEN promised[d]
                                         ELSE history[d][Len(history[d])].new_eta
=============================================================================
