------------------------- MODULE MCSalesConversion --------------------------
(***************************************************************************)
(* Instances of SalesConversion for TLC.                                   *)
(***************************************************************************)
EXTENDS SalesConversion, TLC

CONSTANTS u1, u2, a, b, n

Snap(content, level) == [content |-> content, risk |-> level]

\* Nobody may decide on the breaching content at a high risk, and the one who
\* asks could cover some of what he asks for.
SomeAuthority ==
    u1 :> {Snap(a, "Low"), Snap(b, "Low")} @@
    u2 :> {Snap(a, "Low"), Snap(a, "High"), Snap(b, "Low")}

Symmetry == Permutations(Requests) \cup Permutations(Calls) \cup Permutations(Orders)
=============================================================================
