------------------------- MODULE MCExceptionWorkflow -------------------------
(***************************************************************************)
(* Instances of ExceptionWorkflow for TLC.                                 *)
(***************************************************************************)
EXTENDS ExceptionWorkflow, TLC

CONSTANTS sales, worker, verifier, salesFile, workerFile, verifierFile

MCFileOwner == salesFile :> sales @@ workerFile :> worker @@ verifierFile :> verifier
=============================================================================
