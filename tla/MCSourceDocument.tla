-------------------------- MODULE MCSourceDocument --------------------------
(***************************************************************************)
(* Instances of SourceDocument for TLC.                                    *)
(***************************************************************************)
EXTENDS SourceDocument, TLC

CONSTANTS deal, delivery, salesOrder

Served == deal :> "project" @@ delivery :> "receipt" @@ salesOrder :> "material"
OneOrder == salesOrder :> "material"

Symmetry == Permutations(Docs) \cup Permutations(Calls)
=============================================================================
