---------------------------- MODULE ProjectStage ----------------------------
(***************************************************************************)
(* The stages of a Customer Project and the two pure functions that decide *)
(* about them: which stage changes a save may make                         *)
(* (validate_stage_transition) and which stage the submitted documents of  *)
(* the project call for (derive_project_stage, _next_stage_toward).        *)
(*                                                                         *)
(* The code's stage names are Chinese literals.  Here they are, in the     *)
(* order of MAIN_STAGE_SEQUENCE: qianzai xiangmu (Potential), yangpin      *)
(* jieduan (Sampling), baojia jieduan (Quoting), yi dingdian (Awarded),    *)
(* dingdan lvyue (Fulfilment), yi jiaofu (Delivered), dai huikuan          *)
(* (PaymentPending), yi jiexiang (Closed); and the side stages zanting     *)
(* (Paused), shibai (Failed), quxiao (Cancelled).                          *)
(***************************************************************************)
EXTENDS Naturals

MAIN_STAGE_SEQUENCE ==
    << "Potential", "Sampling", "Quoting", "Awarded",
       "Fulfilment", "Delivered", "PaymentPending", "Closed" >>

Ranks == 1..8

MAIN_STAGES == {MAIN_STAGE_SEQUENCE[r] : r \in Ranks}
SIDE_STAGES == {"Paused", "Failed", "Cancelled"}
ALL_STAGES == MAIN_STAGES \cup SIDE_STAGES

CLOSURE_READY_STAGE == "PaymentPending"
CLOSED_STAGE == "Closed"

StageRank(s) == CHOOSE r \in Ranks : MAIN_STAGE_SEQUENCE[r] = s

\* MAIN_TRANSITIONS: each main stage leads to the next one only.
MAIN_TRANSITIONS ==
    {<<MAIN_STAGE_SEQUENCE[r], MAIN_STAGE_SEQUENCE[r + 1]>> : r \in 1..7}

-----------------------------------------------------------------------------
\* Whether validate_stage_transition lets a saved project go from one stage to
\* another.  A side stage has no way out; every main stage, the closed one
\* included, has a way into each side stage.
ValidStageTransition(previous, current) ==
    \/ previous = current
    \/ /\ previous \notin SIDE_STAGES
       /\ \/ current \in SIDE_STAGES
          \/ <<previous, current>> \in MAIN_TRANSITIONS

-----------------------------------------------------------------------------
\* The kinds of document derive_project_stage looks for, each with the rank of
\* the stage it stands for.  The code tries them from the highest rank down.
FactRank ==
    [ unpaidInvoice      |-> 7,
      delivery           |-> 6,
      order              |-> 5,
      confirmedQuotation |-> 4,
      quotation          |-> 3,
      openSample         |-> 2 ]

Facts == DOMAIN FactRank

\* derive_project_stage for a project that is neither closed nor in a side
\* stage, given the kinds of document found: the highest stage any of them
\* stands for, Potential when there is none.
DerivedRank(facts) ==
    LET found == {1} \cup {FactRank[f] : f \in facts}
    IN  CHOOSE r \in found : \A other \in found : other <= r

DeriveProjectStage(stage, facts) ==
    IF stage \in SIDE_STAGES \cup {CLOSED_STAGE}
    THEN stage
    ELSE MAIN_STAGE_SEQUENCE[DerivedRank(facts)]

\* _next_stage_toward: one step up the main sequence, never down, however far
\* ahead the derived stage is.
NextStageToward(current, derived) ==
    IF /\ {current, derived} \subseteq MAIN_STAGES
       /\ StageRank(current) < StageRank(derived)
    THEN MAIN_STAGE_SEQUENCE[StageRank(current) + 1]
    ELSE current

\* The stage refresh_project_stage_from_document leaves the project in.
RefreshedStage(stage, facts) ==
    NextStageToward(stage, DeriveProjectStage(stage, facts))
=============================================================================
