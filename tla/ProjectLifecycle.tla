-------------------------- MODULE ProjectLifecycle --------------------------
(***************************************************************************)
(* What the stage of a Customer Project promises to everyone who reads it, *)
(* with the documents, transactions and approvals behind it left out.      *)
(*                                                                         *)
(*   - The project climbs the main sequence one stage at a time.           *)
(*   - It becomes Closed only from PaymentPending and only once somebody   *)
(*     has signed off a closure case without gaps; a sign-off stands.      *)
(*   - It may leave any main stage for a side stage, and then never moves  *)
(*     again.                                                              *)
(*                                                                         *)
(* ProjectClosure implements this specification.                           *)
(***************************************************************************)
EXTENDS ProjectStage

VARIABLES
    stage,     \* the project's stage
    signedOff  \* whether a gap-free closure case has been approved

lifecycleVars == <<stage, signedOff>>

LifecycleInit ==
    /\ stage = MAIN_STAGE_SEQUENCE[1]
    /\ signedOff = FALSE

Advance ==
    /\ \E r \in 1..6 : /\ stage = MAIN_STAGE_SEQUENCE[r]
                       /\ stage' = MAIN_STAGE_SEQUENCE[r + 1]
    /\ UNCHANGED signedOff

SignOff ==
    /\ signedOff' = TRUE
    /\ UNCHANGED stage

Close ==
    /\ stage = CLOSURE_READY_STAGE
    /\ signedOff
    /\ stage' = CLOSED_STAGE
    /\ UNCHANGED signedOff

Exit ==
    /\ stage \in MAIN_STAGES
    /\ stage' \in SIDE_STAGES
    /\ UNCHANGED signedOff

LifecycleNext == Advance \/ SignOff \/ Close \/ Exit

LifecycleSpec == LifecycleInit /\ [][LifecycleNext]_lifecycleVars
=============================================================================
