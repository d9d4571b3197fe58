------------------------- MODULE ProjectStageProofs -------------------------
(***************************************************************************)
(* What the two stage functions can do, for every stage and every set of   *)
(* documents found.                                                        *)
(***************************************************************************)
EXTENDS ProjectStage, TLAPS

\* The climb of one stage that both functions allow, short of the closed stage.
Climbs(s, t) == \E r \in 1..6 : /\ s = MAIN_STAGE_SEQUENCE[r]
                                /\ t = MAIN_STAGE_SEQUENCE[r + 1]

\* Main stages, side stages and their ranks are what their names say.
LEMMA StageNames ==
    /\ MAIN_STAGES = {"Potential", "Sampling", "Quoting", "Awarded",
                      "Fulfilment", "Delivered", "PaymentPending", "Closed"}
    /\ MAIN_STAGES \cap SIDE_STAGES = {}
    /\ \A r \in Ranks : MAIN_STAGE_SEQUENCE[r] \in MAIN_STAGES
    /\ \A s \in MAIN_STAGES : \E r \in Ranks : s = MAIN_STAGE_SEQUENCE[r]
  <1>1. Ranks = {1, 2, 3, 4, 5, 6, 7, 8}
    BY DEF Ranks
  <1>2. MAIN_STAGES = {MAIN_STAGE_SEQUENCE[r] : r \in {1, 2, 3, 4, 5, 6, 7, 8}}
    BY <1>1 DEF MAIN_STAGES
  <1>3. MAIN_STAGES = {"Potential", "Sampling", "Quoting", "Awarded",
                       "Fulfilment", "Delivered", "PaymentPending", "Closed"}
    BY <1>2 DEF MAIN_STAGE_SEQUENCE
  <1>4. MAIN_STAGES \cap SIDE_STAGES = {}
    BY <1>3 DEF SIDE_STAGES
  <1>5. QED
    BY <1>3, <1>4 DEF MAIN_STAGES

\* No two ranks share a stage, so StageRank inverts MAIN_STAGE_SEQUENCE.
LEMMA RankOfStage ==
    /\ \A r, t \in Ranks : MAIN_STAGE_SEQUENCE[r] = MAIN_STAGE_SEQUENCE[t] => r = t
    /\ \A r \in Ranks : StageRank(MAIN_STAGE_SEQUENCE[r]) = r
  <1>1. ASSUME NEW r \in Ranks, NEW t \in Ranks,
               MAIN_STAGE_SEQUENCE[r] = MAIN_STAGE_SEQUENCE[t]
        PROVE  r = t
    <2>1. /\ r \in {1, 2, 3, 4, 5, 6, 7, 8}
          /\ t \in {1, 2, 3, 4, 5, 6, 7, 8}
      BY DEF Ranks
    <2>2. QED
      BY <1>1, <2>1 DEF MAIN_STAGE_SEQUENCE
  <1>2. ASSUME NEW r \in Ranks
        PROVE  StageRank(MAIN_STAGE_SEQUENCE[r]) = r
    BY <1>1 DEF StageRank
  <1>3. QED
    BY <1>1, <1>2

\* The documents never call for the closed stage, and DerivedRank is the highest
\* of their ranks: the CHOOSE of DerivedRank has something to choose.
LEMMA DerivedRankIsHighest ==
    ASSUME NEW facts \in SUBSET Facts
    PROVE  /\ DerivedRank(facts) \in 1..7
           /\ \A f \in facts : FactRank[f] <= DerivedRank(facts)
  <1> DEFINE found == {1} \cup {FactRank[f] : f \in facts}
  <1>1. \A f \in Facts : FactRank[f] \in 2..7
    BY DEF Facts, FactRank
  <1>2. found \subseteq 1..7
    BY <1>1
  <1>3. 1 \in found
    OBVIOUS
  <1> HIDE DEF found
  <1>4. \E r \in found : \A other \in found : other <= r
    BY <1>2, <1>3
  <1>5. DerivedRank(facts) = CHOOSE r \in found : \A other \in found : other <= r
    BY DEF DerivedRank, found
  <1>6. /\ DerivedRank(facts) \in found
        /\ \A other \in found : other <= DerivedRank(facts)
    BY <1>4, <1>5
  <1>7. \A f \in facts : FactRank[f] \in found
    BY DEF found
  <1>8. DerivedRank(facts) \in 1..7
    BY <1>2, <1>6
  <1>9. QED
    BY <1>6, <1>7, <1>8

\* A refresh keeps the stage or climbs by one, and only towards the derived
\* stage; it never closes a project.
LEMMA RefreshKeepsOrClimbs ==
    ASSUME NEW s \in ALL_STAGES, NEW facts \in SUBSET Facts
    PROVE  \/ RefreshedStage(s, facts) = s
           \/ /\ Climbs(s, RefreshedStage(s, facts))
              /\ StageRank(RefreshedStage(s, facts)) <= DerivedRank(facts)
  <1> DEFINE derived == DeriveProjectStage(s, facts)
  <1>1. CASE s \in SIDE_STAGES \cup {CLOSED_STAGE}
    <2>1. derived = s
      BY <1>1 DEF DeriveProjectStage
    <2>2. RefreshedStage(s, facts) = s \/ StageRank(s) < StageRank(s)
      BY <2>1 DEF RefreshedStage, NextStageToward
    <2>3. s \in MAIN_STAGES => ~ (StageRank(s) < StageRank(s))
      <3>1. SUFFICES ASSUME s \in MAIN_STAGES
                     PROVE  ~ (StageRank(s) < StageRank(s))
        OBVIOUS
      <3>2. PICK r \in Ranks : s = MAIN_STAGE_SEQUENCE[r]
        BY <3>1, StageNames
      <3>3. StageRank(s) = r
        BY <3>2, RankOfStage
      <3>4. QED
        BY <3>3 DEF Ranks
    <2>4. QED
      BY <2>1, <2>3 DEF RefreshedStage, NextStageToward
  <1>2. CASE s \notin SIDE_STAGES \cup {CLOSED_STAGE}
    <2>1. PICK r \in Ranks : s = MAIN_STAGE_SEQUENCE[r]
      BY <1>2, StageNames DEF ALL_STAGES
    <2>2. DerivedRank(facts) \in 1..7 /\ derived = MAIN_STAGE_SEQUENCE[DerivedRank(facts)]
      BY <1>2, DerivedRankIsHighest DEF DeriveProjectStage
    <2>3. StageRank(s) = r /\ StageRank(derived) = DerivedRank(facts)
      BY <2>1, <2>2, RankOfStage DEF Ranks
    <2>4. CASE r < DerivedRank(facts)
      <3>1. r \in 1..6 /\ r + 1 \in Ranks /\ r + 1 <= DerivedRank(facts)
        BY <2>2, <2>4 DEF Ranks
      <3>2. {s, derived} \subseteq MAIN_STAGES
        BY <2>1, <2>2, StageNames DEF Ranks
      <3>3. RefreshedStage(s, facts) = MAIN_STAGE_SEQUENCE[r + 1]
        BY <2>3, <2>4, <3>2 DEF RefreshedStage, NextStageToward
      <3>4. QED
        BY <2>1, <3>1, <3>3, RankOfStage DEF Climbs
    <2>5. CASE ~ (r < DerivedRank(facts))
      BY <2>3, <2>5 DEF RefreshedStage, NextStageToward
    <2>6. QED
      BY <2>4, <2>5
  <1>3. QED
    BY <1>1, <1>2

\* A save that does not close the project keeps the stage, leaves the main
\* sequence, or climbs by one.
LEMMA SaveKeepsExitsOrClimbs ==
    ASSUME NEW s \in ALL_STAGES, NEW t \in ALL_STAGES,
           ValidStageTransition(s, t), t = CLOSED_STAGE => s = CLOSED_STAGE
    PROVE  \/ s = t
           \/ s \in MAIN_STAGES /\ t \in SIDE_STAGES
           \/ Climbs(s, t)
  <1>1. s \notin SIDE_STAGES => s \in MAIN_STAGES
    BY DEF ALL_STAGES
  <1>2. ASSUME s # t, t \notin SIDE_STAGES
        PROVE  Climbs(s, t)
    <2>1. PICK r \in 1..7 : s = MAIN_STAGE_SEQUENCE[r] /\ t = MAIN_STAGE_SEQUENCE[r + 1]
      BY <1>2 DEF ValidStageTransition, MAIN_TRANSITIONS
    <2>2. r # 7
      BY <1>2, <2>1 DEF MAIN_STAGE_SEQUENCE, CLOSED_STAGE
    <2>3. QED
      BY <2>1, <2>2 DEF Climbs
  <1>3. QED
    BY <1>1, <1>2 DEF ValidStageTransition
=============================================================================
