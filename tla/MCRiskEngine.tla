---------------------------- MODULE MCRiskEngine ----------------------------
(***************************************************************************)
(* An instance of RiskEngine for TLC.                                      *)
(***************************************************************************)
EXTENDS RiskEngine, TLC

CONSTANTS p1, p2, sample

MCDays == -1..5
MCProjectOf == sample :> p1
MCRuleOf == sample :> "SAMPLE_FEEDBACK_DELAY"
MCReadingsOf == sample :> {1}
=============================================================================
