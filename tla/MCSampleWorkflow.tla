--------------------------- MODULE MCSampleWorkflow --------------------------
(***************************************************************************)
(* Instances of SampleWorkflow for TLC.                                    *)
(***************************************************************************)
EXTENDS SampleWorkflow, TLC

CONSTANTS s1, s2, s3, c1, c2

\* The calls are interchangeable; the samples are not, users edit only some.
Symmetry == Permutations(Calls)
=============================================================================
