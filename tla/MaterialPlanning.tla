-------------------------- MODULE MaterialPlanning --------------------------
(***************************************************************************)
(* The arithmetic of a material gap (calculate_material_gap and            *)
(* _group_open_stock_demand of services/material_planning.py): what an     *)
(* order still needs of an item in a warehouse beyond stock, reservations  *)
(* and inbound supply.                                                     *)
(*                                                                         *)
(* A quantity is a number of the smallest units that the database stores.  *)
(* The code rounds to millionths, which are Unit of them.                  *)
(***************************************************************************)
EXTENDS Integers

CONSTANT Unit

ASSUME UnitAssumption == Unit \in Nat \ {0}

AtLeast0(q) == IF q < 0 THEN 0 ELSE q

\* The nearest multiple of Unit.
normalized_quantity(q) == Unit * ((2 * q + Unit) \div (2 * Unit))

\* What is still to be delivered of a row of an order, whose delivered quantity
\* counts units of sale.
OpenDemand(stock_qty, delivered_qty, conversion_factor) ==
    normalized_quantity(AtLeast0(
        stock_qty - delivered_qty * (IF conversion_factor = 0 THEN 1
                                                              ELSE conversion_factor)))

\* A mutant: the order's own reservation is taken off the stock as well.
RequiredTwice(own, reserved, actual, incoming, safety) ==
    AtLeast0(normalized_quantity(
        own + AtLeast0(normalized_quantity(safety))
            - (normalized_quantity(actual) - AtLeast0(normalized_quantity(reserved)))
            - AtLeast0(normalized_quantity(incoming))))

\* What an order requires that has an open demand of its own, given the Bin.
required_qty(own, reserved, actual, incoming, safety) ==
    LET other_reserved == AtLeast0(AtLeast0(normalized_quantity(reserved)) - own)
        available == normalized_quantity(actual) - other_reserved
    IN  AtLeast0(normalized_quantity(
            own + AtLeast0(normalized_quantity(safety)) - available
                - AtLeast0(normalized_quantity(incoming))))
=============================================================================
