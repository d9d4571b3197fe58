--------------------------- MODULE MCSupplierEta ---------------------------
(***************************************************************************)
(* An instance of SupplierEta for TLC, on that of SourceDocument.          *)
(***************************************************************************)
EXTENDS MCSourceDocument, SupplierEta

EtaSymmetry == Symmetry \cup Permutations(Updates) \cup Permutations(Etas)
=============================================================================
