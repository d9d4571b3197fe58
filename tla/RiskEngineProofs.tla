-------------------------- MODULE RiskEngineProofs --------------------------
(***************************************************************************)
(* What RiskEngine guarantees for any number of projects, risks and scans, *)
(* and what the rules guarantee for all readings and settings.             *)
(*                                                                         *)
(* A scan saves risks as they were in its snapshot.  That the save of what *)
(* has changed since is refused, and that no two scans hold one project,   *)
(* makes each of its saves a legal move of the risk as it is at the commit.*)
(***************************************************************************)
EXTENDS RiskEngine, TLAPS

\* What a scan has saved is a move of the risk as it still is, of a project that
\* it alone holds; what it has read and nobody changed still is so.
ScansSound ==
    \A j \in Running :
        /\ scans[j].done \cap scans[j].todo = {}
        /\ \A i \in Running \ {j} : scans[i].done \cap scans[j].done = {}
        /\ \A k \in scans[j].written :
              /\ ProjectOf[k] \in scans[j].done
              /\ MayBecome(risks[k], scans[j].view[k])
        /\ \A k \in Keys \ (scans[j].written \cup scans[j].stale) :
              scans[j].view[k] = risks[k]

RiskInv == TypeOK /\ ScansSound

-----------------------------------------------------------------------------
(* The rules.                                                              *)

\* The codes of the rules.
LEMMA RuleCodesAre ==
    RuleCodes = { "MILESTONE_OVERDUE", "SAMPLE_FEEDBACK_DELAY", "QUOTATION_EXPIRY",
                  "STOCK_DELIVERY_GAP", "SUPPLIER_DELAY", "HIGH_EXCEPTION_OPEN",
                  "RECEIVABLE_OVERDUE", "PROJECT_INACTIVE" }
  BY DEF RuleCodes, RULES

\* A setting is a positive number of days.
LEMMA SettingIsPositive ==
    ASSUME NEW value \in Int \cup {NotANumber}, NEW default \in Nat \ {0}
    PROVE  setting_days(value, default) \in Nat \ {0}
  BY DEF setting_days

\* So are the three that the rules read.
LEMMA SettingsArePositive ==
    /\ setting_days(FeedbackWarningDays, 3) \in Nat \ {0}
    /\ setting_days(QuotationExpiryWarningDays, 7) \in Nat \ {0}
    /\ setting_days(ProjectInactiveDays, 7) \in Nat \ {0}
  <1>1. /\ FeedbackWarningDays \in Int \cup {NotANumber}
        /\ QuotationExpiryWarningDays \in Int \cup {NotANumber}
        /\ ProjectInactiveDays \in Int \cup {NotANumber}
    BY RulesAssumption
  <1>2. 3 \in Nat \ {0} /\ 7 \in Nat \ {0}
    OBVIOUS
  <1> QED  BY <1>1, <1>2, SettingIsPositive

\* Every rule finds nothing or a risk of a level.
LEMMA RulesTyped ==
    ASSUME NEW days \in Int, NEW rule \in RuleCodes
    PROVE  RULES(days)[rule] \in Findings
  <1>1. WaitingLevel(days, setting_days(FeedbackWarningDays, 3)) \in Findings
    BY DEF WaitingLevel, Findings
  <1>2. WaitingLevel(days, setting_days(ProjectInactiveDays, 7)) \in Findings
    BY DEF WaitingLevel, Findings
  <1>3. find_quotation_expiry(days) \in Findings
    BY DEF find_quotation_expiry, Findings
  <1> QED
    BY <1>1, <1>2, <1>3, RuleCodesAre
    DEF RULES, Findings, find_overdue_milestones, find_overdue_receivables,
        find_pending_sample_feedback, find_inactive_project,
        find_stock_delivery_gap, find_supplier_delay, find_open_high_exceptions

\* What is awaited longer ranks no lower.
LEMMA WaitingEscalates ==
    ASSUME NEW d \in Int, NEW e \in Int, d <= e, NEW warning \in Nat \ {0}
    PROVE  Rank(WaitingLevel(d, warning)) <= Rank(WaitingLevel(e, warning))
  BY DEF Rank, WaitingLevel, NoFinding, RISK_LEVEL_RANK

\* What expired longer ago ranks no lower.
LEMMA ExpiryEscalates ==
    ASSUME NEW d \in Int, NEW e \in Int, d <= e
    PROVE  Rank(find_quotation_expiry(d)) <= Rank(find_quotation_expiry(e))
  <1> DEFINE w == setting_days(QuotationExpiryWarningDays, 7)
  <1>1. w \in Nat \ {0}
    BY SettingsArePositive
  <1> HIDE DEF w
  <1>2. \A n \in Int : find_quotation_expiry(n) =
            IF -n > w THEN NoFinding ELSE IF n > 0 THEN "High" ELSE "Medium"
    BY DEF find_quotation_expiry, w
  <1> QED  BY <1>1, <1>2 DEF Rank, NoFinding, RISK_LEVEL_RANK

\* For all readings and all settings: no rule lowers a risk, or loses sight of it,
\* as its reading grows.
THEOREM RulesNeverRelax == \A rule \in RuleCodes, from \in Int : Escalates(rule, from)
  <1> SUFFICES ASSUME NEW d \in Int, NEW e \in Int, d <= e, NEW rule \in RuleCodes
               PROVE  Rank(RULES(d)[rule]) <= Rank(RULES(e)[rule])
    BY RulesAssumption DEF Escalates
  <1>1. CASE rule = "SAMPLE_FEEDBACK_DELAY"
    <2>1. setting_days(FeedbackWarningDays, 3) \in Nat \ {0}
      BY SettingsArePositive
    <2>2. \A n \in Int : RULES(n)[rule] =
              WaitingLevel(n, setting_days(FeedbackWarningDays, 3))
      BY <1>1 DEF RULES, find_pending_sample_feedback
    <2> QED  BY <2>1, <2>2, WaitingEscalates
  <1>2. CASE rule = "PROJECT_INACTIVE"
    <2>1. setting_days(ProjectInactiveDays, 7) \in Nat \ {0}
      BY SettingsArePositive
    <2>2. \A n \in Int : RULES(n)[rule] =
              WaitingLevel(n, setting_days(ProjectInactiveDays, 7))
      BY <1>2 DEF RULES, find_inactive_project
    <2> QED  BY <2>1, <2>2, WaitingEscalates
  <1>3. CASE rule = "QUOTATION_EXPIRY"
    <2>1. \A n \in Int : RULES(n)[rule] = find_quotation_expiry(n)
      BY <1>3 DEF RULES
    <2> QED  BY <2>1, ExpiryEscalates
  <1>4. CASE rule \in {"MILESTONE_OVERDUE", "RECEIVABLE_OVERDUE"}
    <2>1. \A n \in Int : RULES(n)[rule] =
              IF n <= 0 THEN NoFinding ELSE IF n >= 7 THEN "High" ELSE "Medium"
      BY <1>4 DEF RULES, find_overdue_milestones, find_overdue_receivables
    <2> QED  BY <2>1 DEF Rank, NoFinding, RISK_LEVEL_RANK
  <1>5. CASE rule = "STOCK_DELIVERY_GAP"
    <2>1. \A n \in Int : RULES(n)[rule] = IF n >= 0 THEN "High" ELSE "Medium"
      BY <1>5 DEF RULES, find_stock_delivery_gap
    <2> QED  BY <2>1 DEF Rank, NoFinding, RISK_LEVEL_RANK
  <1>6. CASE rule = "SUPPLIER_DELAY"
    <2>1. \A n \in Int : RULES(n)[rule] = IF n <= 0 THEN NoFinding ELSE "High"
      BY <1>6 DEF RULES, find_supplier_delay
    <2> QED  BY <2>1 DEF Rank, NoFinding, RISK_LEVEL_RANK
  <1>7. CASE rule = "HIGH_EXCEPTION_OPEN"
    <2>1. \A n \in Int : RULES(n)[rule] = "High"
      BY <1>7 DEF RULES, find_open_high_exceptions
    <2> QED  BY <2>1 DEF Rank, NoFinding, RISK_LEVEL_RANK
  <1> QED  BY <1>1, <1>2, <1>3, <1>4, <1>5, <1>6, <1>7, RuleCodesAre

-----------------------------------------------------------------------------
(* Types.                                                                  *)

\* What the rules find on a document as it is now.
LEMMA FindingTyped ==
    ASSUME TypeOK, NEW k \in Keys
    PROVE  Finding(k) \in Findings
  <1>1. RuleOf[k] \in RuleCodes
    BY EngineAssumption
  <1>2. CASE facts[k] = Gone
    BY <1>2 DEF Finding, Findings
  <1>3. CASE facts[k] # Gone
    <2>1. facts[k] \in Int
      BY <1>3 DEF TypeOK
    <2> QED  BY <1>1, <1>3, <2>1, RulesTyped DEF Finding
  <1> QED  BY <1>2, <1>3

\* The highest level is a level, with no open risk as well.
LEMMA HighestLevelTyped ==
    ASSUME NEW view, NEW p
    PROVE  HighestLevel(view, p) \in RiskLevels
  BY DEF HighestLevel, RiskLevels, RISK_LEVEL_RANK

\* Scans stay scans when rows change under them.
LEMMA OutdatedTyped ==
    ASSUME TypeOK, NEW rows \in SUBSET (Keys \cup Projects)
    PROVE  Outdated(rows) \in [Jobs -> Scan \cup {NoScan}]
  <1>1. ASSUME NEW j \in Running
        PROVE  [scans[j] EXCEPT !.stale = @ \cup rows] \in Scan
    <2>1. scans[j] \in Scan
      BY <1>1 DEF TypeOK, Running
    <2> QED  BY <2>1 DEF Scan
  <1> QED  BY <1>1 DEF Outdated, Running

\* What a scan has seen and found is of its types.
LEMMA UpsertedTyped ==
    ASSUME TypeOK, NEW j \in Running, NEW p \in Projects
    PROVE  /\ Upserted(j, p) \in [Keys -> Risk \cup {Absent}]
           /\ Found(j, p) \in SUBSET Keys
           /\ Stale(j, p) \in SUBSET Keys
           /\ \A k \in Found(j, p) \cup Stale(j, p) : Upserted(j, p)[k] \in Risk
  <1>1. scans[j] \in Scan
    BY DEF TypeOK, Running
  <1>2. Found(j, p) \in SUBSET Keys /\ Stale(j, p) \in SUBSET Keys
    BY DEF Found, Stale, KeysOf
  <1>3. ASSUME NEW k \in Found(j, p)
        PROVE  Recorded(scans[j].view[k], scans[j].seen[k]) \in Risk
    <2>1. scans[j].seen[k] \in RiskLevels
      BY <1>1, <1>2, <1>3
      DEF Found, Scan, Findings, NoFinding, RiskLevels, RISK_LEVEL_RANK
    <2> QED  BY <2>1 DEF Recorded, Risk, ALLOWED_STATUSES
  <1>4. ASSUME NEW k \in Stale(j, p)
        PROVE  [status |-> "ToVerify", level |-> scans[j].view[k].level] \in Risk
    <2>1. scans[j].view[k] \in Risk
      BY <1>1, <1>2, <1>4 DEF Stale, Scan
    <2> QED  BY <2>1 DEF Risk, ALLOWED_STATUSES
  <1>5. Found(j, p) \cap Stale(j, p) = {}
    BY DEF Stale
  <1>6. \A k \in Keys : scans[j].view[k] \in Risk \cup {Absent}
    BY <1>1 DEF Scan
  <1> QED  BY <1>2, <1>3, <1>4, <1>5, <1>6 DEF Upserted

\* A step leaves the types as they are.
LEMMA TypesKept ==
    ASSUME TypeOK, [Next]_vars
    PROVE  TypeOK'
  <1>1. ASSUME NEW k \in Keys, FactMoves(k)
        PROVE  TypeOK'
    <2>1. ReadingsOf[k] \cup {Gone} \subseteq Int \cup {Gone}
      BY EngineAssumption, RulesAssumption
    <2> QED  BY <1>1, <2>1 DEF FactMoves, TypeOK
  <1>2. ASSUME NEW k \in Keys, NEW s \in ALLOWED_STATUSES, UserMoves(k, s)
        PROVE  TypeOK'
    <2>1. risks[k] \in Risk
      BY <1>2 DEF UserMoves, TypeOK
    <2>2. [risks[k] EXCEPT !.status = s] \in Risk
      BY <2>1 DEF Risk
    <2>3. scans' \in [Jobs -> Scan \cup {NoScan}]
      BY <1>2, OutdatedTyped DEF UserMoves
    <2> QED  BY <1>2, <2>2, <2>3 DEF UserMoves, TypeOK
  <1>3. CASE \E p \in Projects : OpenForm(p)
    BY <1>3 DEF OpenForm, TypeOK
  <1>4. ASSUME NEW p \in Projects, SaveForm(p)
        PROVE  TypeOK'
    <2>1. scans' \in [Jobs -> Scan \cup {NoScan}]
      BY <1>4, OutdatedTyped DEF SaveForm
    <2> QED  BY <1>4, <2>1 DEF SaveForm, TypeOK
  <1>5. CASE \E j \in Jobs : Die(j)
    BY <1>5 DEF Die, TypeOK
  <1>6. ASSUME NEW j \in Jobs, NEW p \in Projects,
               Fault(j, p) \/ RefuseProject(j, p)
        PROVE  TypeOK'
    <2>1. scans[j] \in Scan
      BY <1>6 DEF Fault, RefuseProject, Running, TypeOK
    <2>2. [scans[j] EXCEPT !.todo = @ \ {p}] \in Scan
      BY <2>1 DEF Scan
    <2> QED  BY <1>6, <2>2 DEF Fault, RefuseProject, TypeOK
  <1>7. ASSUME NEW j \in Jobs, BeginScan(j)
        PROVE  TypeOK'
    <2>1. [k \in Keys |-> Finding(k)] \in [Keys -> Findings]
      BY FindingTyped
    <2>2. [ todo |-> Projects, done |-> {}, seen |-> [k \in Keys |-> Finding(k)],
            view |-> risks, written |-> {}, stale |-> {} ] \in Scan
      BY <2>1 DEF Scan, TypeOK
    <2> QED  BY <1>7, <2>2 DEF BeginScan, TypeOK
  <1>8. ASSUME NEW j \in Jobs, NEW p \in Projects, ProcessProject(j, p)
        PROVE  TypeOK'
    <2>1. j \in Running
      BY <1>8 DEF ProcessProject
    <2>2. scans[j] \in Scan
      BY <2>1 DEF Running, TypeOK
    <2>3. [scans[j] EXCEPT !.todo = @ \ {p}, !.done = @ \cup {p},
                           !.view = Upserted(j, p),
                           !.written = @ \cup Found(j, p) \cup Stale(j, p)] \in Scan
      BY <2>1, <2>2, UpsertedTyped DEF Scan
    <2> QED  BY <1>8, <2>3 DEF ProcessProject, TypeOK
  <1>9. ASSUME NEW j \in Jobs, CommitScan(j)
        PROVE  TypeOK'
    <2>1. scans[j] \in Scan
      BY <1>9 DEF CommitScan, Running, TypeOK
    <2>2. scans[j].written \cup scans[j].done \in SUBSET (Keys \cup Projects)
      BY <2>1 DEF Scan
    <2>3. Outdated(scans[j].written \cup scans[j].done)
              \in [Jobs -> Scan \cup {NoScan}]
      BY <2>2, OutdatedTyped
    <2>4. scans' \in [Jobs -> Scan \cup {NoScan}]
      BY <1>9, <2>3 DEF CommitScan
    <2>5. overall' \in [Projects -> RiskLevels]
      BY <1>9, HighestLevelTyped DEF CommitScan, TypeOK
    <2>6. risks' \in [Keys -> Risk \cup {Absent}]
      BY <1>9, <2>1 DEF CommitScan, TypeOK, Scan
    <2> QED  BY <1>9, <2>4, <2>5, <2>6 DEF CommitScan, TypeOK
  <1>10. CASE UNCHANGED vars
    BY <1>10 DEF vars, TypeOK
  <1> QED
    BY <1>1, <1>2, <1>3, <1>4, <1>5, <1>6, <1>7, <1>8, <1>9, <1>10 DEF Next

-----------------------------------------------------------------------------
(* The soundness of scans.                                                 *)

\* Nothing is wrong with a scan when others change rows that it has not saved,
\* as long as it counts them as stale, or when it gives up projects or itself.
LEMMA OthersChange ==
    ASSUME ScansSound, NEW rows,
           \A k \in Keys \ rows : risks'[k] = risks[k],
           \A j \in Running' :
              /\ j \in Running
              /\ scans'[j].done = scans[j].done
              /\ scans'[j].todo \subseteq scans[j].todo
              /\ scans'[j].view = scans[j].view
              /\ scans'[j].written = scans[j].written
              /\ scans'[j].written \cap rows = {}
              /\ scans[j].stale \cup (rows \cap Keys) \subseteq scans'[j].stale,
           \A j \in Running : scans[j].written \subseteq Keys
    PROVE  ScansSound'
  <1> SUFFICES ASSUME NEW j \in Running'
               PROVE  /\ scans'[j].done \cap scans'[j].todo = {}
                      /\ \A i \in Running' \ {j} :
                            scans'[i].done \cap scans'[j].done = {}
                      /\ \A k \in scans'[j].written :
                            /\ ProjectOf[k] \in scans'[j].done
                            /\ MayBecome(risks'[k], scans'[j].view[k])
                      /\ \A k \in Keys \ (scans'[j].written \cup scans'[j].stale) :
                            scans'[j].view[k] = risks'[k]
    BY DEF ScansSound
  <1>1. j \in Running
    OBVIOUS
  <1>2. scans'[j].done \cap scans'[j].todo = {}
    BY <1>1 DEF ScansSound
  <1>3. \A i \in Running' \ {j} : scans'[i].done \cap scans'[j].done = {}
    BY <1>1 DEF ScansSound
  <1>4. ASSUME NEW k \in scans'[j].written
        PROVE  /\ ProjectOf[k] \in scans'[j].done
               /\ MayBecome(risks'[k], scans'[j].view[k])
    <2>1. k \in scans[j].written /\ k \in Keys /\ k \notin rows
      BY <1>1, <1>4
    <2>2. risks'[k] = risks[k] /\ scans'[j].view[k] = scans[j].view[k]
      BY <1>1, <2>1
    <2>3. ProjectOf[k] \in scans[j].done /\ MayBecome(risks[k], scans[j].view[k])
      BY <1>1, <2>1 DEF ScansSound
    <2> QED  BY <1>1, <2>2, <2>3
  <1>5. ASSUME NEW k \in Keys \ (scans'[j].written \cup scans'[j].stale)
        PROVE  scans'[j].view[k] = risks'[k]
    <2>1. k \notin rows /\ k \in Keys \ (scans[j].written \cup scans[j].stale)
      BY <1>1, <1>5
    <2>2. scans[j].view[k] = risks[k]
      BY <1>1, <2>1 DEF ScansSound
    <2> QED  BY <1>1, <2>1, <2>2
  <1> QED  BY <1>2, <1>3, <1>4, <1>5

\* So it is when only projects or scans are given up, or rows of projects change.
LEMMA ScansGiveUp ==
    ASSUME ScansSound, UNCHANGED risks,
           \A j \in Running' :
              /\ j \in Running
              /\ scans'[j].done = scans[j].done
              /\ scans'[j].todo \subseteq scans[j].todo
              /\ scans'[j].view = scans[j].view
              /\ scans'[j].written = scans[j].written
              /\ scans[j].stale \subseteq scans'[j].stale,
           \A j \in Running : scans[j].written \subseteq Keys
    PROVE  ScansSound'
  <1>1. \A k \in Keys \ {} : risks'[k] = risks[k]
    OBVIOUS
  <1>2. ASSUME NEW j \in Running'
        PROVE  /\ j \in Running
               /\ scans'[j].done = scans[j].done
               /\ scans'[j].todo \subseteq scans[j].todo
               /\ scans'[j].view = scans[j].view
               /\ scans'[j].written = scans[j].written
               /\ scans'[j].written \cap {} = {}
               /\ scans[j].stale \cup ({} \cap Keys) \subseteq scans'[j].stale
    BY <1>2
  <1> QED  BY <1>1, <1>2, OthersChange

\* What runs after others have changed some rows, and how.
LEMMA OutdatedRuns ==
    ASSUME TypeOK, NEW rows, NEW j \in Jobs, Outdated(rows)[j] # NoScan
    PROVE  /\ j \in Running
           /\ Outdated(rows)[j].todo = scans[j].todo
           /\ Outdated(rows)[j].done = scans[j].done
           /\ Outdated(rows)[j].view = scans[j].view
           /\ Outdated(rows)[j].written = scans[j].written
           /\ Outdated(rows)[j].stale = scans[j].stale \cup rows
  <1>1. j \in Running
    BY DEF Outdated
  <1>2. scans[j] \in Scan
    BY <1>1 DEF Running, TypeOK
  <1>3. Outdated(rows)[j] = [scans[j] EXCEPT !.stale = @ \cup rows]
    BY <1>1 DEF Outdated
  <1> QED  BY <1>1, <1>2, <1>3 DEF Scan

\* What the scan of a project saves may become of the risks as they are.
LEMMA UpsertsAreMoves ==
    ASSUME RiskInv, NEW j \in Running, NEW p \in scans[j].todo, p \in Projects,
           Savable(j, p), NEW k \in Found(j, p) \cup Stale(j, p)
    PROVE  k \in Keys /\ ProjectOf[k] = p /\ MayBecome(risks[k], Upserted(j, p)[k])
  <1>1. scans[j] \in Scan
    BY DEF RiskInv, TypeOK, Running
  <1>2. k \in Keys /\ ProjectOf[k] = p
    BY DEF Found, Stale, KeysOf
  <1>3. k \notin scans[j].written \cup scans[j].stale
    BY <1>2 DEF RiskInv, ScansSound, Savable
  <1>4. scans[j].view[k] = risks[k]
    BY <1>2, <1>3 DEF RiskInv, ScansSound
  <1>5. Upserted(j, p)[k] \in Risk
    BY UpsertedTyped DEF RiskInv
  <1>6. risks[k] \in Risk \cup {Absent}
    BY <1>2 DEF RiskInv, TypeOK
  <1>7. CASE k \in Found(j, p)
    <2>1. Upserted(j, p)[k] = Recorded(risks[k], scans[j].seen[k])
      BY <1>2, <1>4, <1>7 DEF Upserted
    <2>2. Upserted(j, p)[k].status =
             IF risks[k] # Absent /\ risks[k].status = "InProgress"
             THEN "InProgress" ELSE "Discovered"
      BY <2>1 DEF Recorded
    <2>3. risks[k] # Absent => risks[k].status \in ALLOWED_STATUSES
      BY <1>6 DEF Risk
    <2> QED  BY <1>2, <1>5, <2>2, <2>3 DEF MayBecome, ALLOWED_STATUSES
  <1>8. CASE k \in Stale(j, p)
    <2>1. k \notin Found(j, p)
      BY <1>8 DEF Stale
    <2>2. Upserted(j, p)[k] = [status |-> "ToVerify", level |-> scans[j].view[k].level]
      BY <1>2, <1>8, <2>1 DEF Upserted
    <2>3. Upserted(j, p)[k].status = "ToVerify"
      BY <2>2
    <2>4. risks[k] # Absent /\ risks[k].status \in {"Discovered", "InProgress"}
      BY <1>4, <1>8 DEF Stale
    <2> QED  BY <1>2, <1>5, <2>3, <2>4 DEF MayBecome, USER_TRANSITIONS
  <1> QED  BY <1>7, <1>8

\* The scan of a project keeps the scans sound.
LEMMA ProcessSound ==
    ASSUME RiskInv, NEW j \in Jobs, NEW p \in Projects, ProcessProject(j, p)
    PROVE  ScansSound'
  <1>1. j \in Running /\ p \in scans[j].todo /\ Savable(j, p)
    BY DEF ProcessProject
  <1>2. scans[j] \in Scan
    BY <1>1 DEF RiskInv, TypeOK, Running
  <1> DEFINE t == [scans[j] EXCEPT !.todo = @ \ {p}, !.done = @ \cup {p},
                       !.view = Upserted(j, p),
                       !.written = @ \cup Found(j, p) \cup Stale(j, p)]
  <1>3. /\ t.todo = scans[j].todo \ {p}
        /\ t.done = scans[j].done \cup {p}
        /\ t.view = Upserted(j, p)
        /\ t.written = scans[j].written \cup Found(j, p) \cup Stale(j, p)
        /\ t.stale = scans[j].stale
    BY <1>2 DEF Scan
  <1>4. /\ scans'[j] = t
        /\ \A i \in Jobs \ {j} : scans'[i] = scans[i]
        /\ risks' = risks
        /\ Running' \subseteq Running
    BY <1>1 DEF ProcessProject, RiskInv, TypeOK, Running
  <1> HIDE DEF t
  <1>5. ASSUME NEW i \in Running'
        PROVE  /\ scans'[i].done \cap scans'[i].todo = {}
               /\ \A h \in Running' \ {i} : scans'[h].done \cap scans'[i].done = {}
    <2>1. i \in Running /\ i \in Jobs
      BY <1>4 DEF Running
    <2>2. p \notin scans[j].done
      BY <1>1 DEF RiskInv, ScansSound
    <2>3. scans'[i].done \cap scans'[i].todo = {}
      BY <1>3, <1>4, <2>1, <2>2, <1>1 DEF RiskInv, ScansSound
    <2>4. ASSUME NEW h \in Running', h # i
          PROVE  scans'[h].done \cap scans'[i].done = {}
      <3>1. h \in Running /\ h \in Jobs
        BY <1>4 DEF Running
      <3>2. scans[h].done \cap scans[i].done = {}
        BY <2>1, <2>4, <3>1 DEF RiskInv, ScansSound
      <3>3. \A g \in Running \ {j} : p \notin scans[g].done
        BY <1>1 DEF Savable
      <3> QED  BY <1>3, <1>4, <2>1, <2>4, <3>1, <3>2, <3>3
    <2> QED  BY <2>3, <2>4
  <1>6. ASSUME NEW i \in Running', NEW k \in scans'[i].written
        PROVE  /\ ProjectOf[k] \in scans'[i].done
               /\ MayBecome(risks'[k], scans'[i].view[k])
    <2>1. i \in Running /\ i \in Jobs
      BY <1>4 DEF Running
    <2>2. CASE i # j
      BY <1>4, <1>6, <2>1, <2>2 DEF RiskInv, ScansSound
    <2>3. CASE i = j /\ k \in scans[j].written
      <3>1. ProjectOf[k] \in scans[j].done /\ MayBecome(risks[k], scans[j].view[k])
        BY <1>1, <2>3 DEF RiskInv, ScansSound
      <3>2. ProjectOf[k] # p
        BY <1>1, <3>1 DEF RiskInv, ScansSound
      <3>3. k \in Keys
        BY <1>2, <2>3 DEF Scan
      <3>4. Upserted(j, p)[k] = scans[j].view[k]
        BY <3>2, <3>3 DEF Upserted, Found, Stale, KeysOf
      <3> QED  BY <1>3, <1>4, <2>3, <3>1, <3>4
    <2>4. CASE i = j /\ k \in Found(j, p) \cup Stale(j, p)
      <3>1. ProjectOf[k] = p /\ MayBecome(risks[k], Upserted(j, p)[k])
        BY <1>1, <2>4, UpsertsAreMoves
      <3> QED  BY <1>3, <1>4, <2>4, <3>1
    <2> QED  BY <1>3, <1>4, <1>6, <2>2, <2>3, <2>4
  <1>7. ASSUME NEW i \in Running',
               NEW k \in Keys \ (scans'[i].written \cup scans'[i].stale)
        PROVE  scans'[i].view[k] = risks'[k]
    <2>1. i \in Running /\ i \in Jobs
      BY <1>4 DEF Running
    <2>2. CASE i # j
      BY <1>4, <1>7, <2>1, <2>2 DEF RiskInv, ScansSound
    <2>3. CASE i = j
      <3>1. /\ k \notin Found(j, p) \cup Stale(j, p)
            /\ k \notin scans[j].written \cup scans[j].stale
        BY <1>3, <1>4, <1>7, <2>3
      <3>2. scans[j].view[k] = risks[k]
        BY <1>1, <3>1 DEF RiskInv, ScansSound
      <3>3. Upserted(j, p)[k] = scans[j].view[k]
        BY <3>1 DEF Upserted
      <3> QED  BY <1>3, <1>4, <2>3, <3>2, <3>3
    <2> QED  BY <2>2, <2>3
  <1> QED  BY <1>5, <1>6, <1>7 DEF ScansSound

\* A scan starts sound: it has saved nothing, and reads what is there.
LEMMA BeginSound ==
    ASSUME RiskInv, NEW j \in Jobs, BeginScan(j)
    PROVE  ScansSound'
  <1>1. /\ risks' = risks
        /\ scans'[j].done = {} /\ scans'[j].written = {} /\ scans'[j].view = risks
        /\ \A i \in Jobs \ {j} : scans'[i] = scans[i]
    BY DEF BeginScan, RiskInv, TypeOK
  <1>2. \A i \in Running' : i \in Jobs /\ (i # j => i \in Running)
    BY <1>1 DEF Running
  <1>3. ASSUME NEW i \in Running'
        PROVE  /\ scans'[i].done \cap scans'[i].todo = {}
               /\ \A h \in Running' \ {i} : scans'[h].done \cap scans'[i].done = {}
    BY <1>1, <1>2 DEF RiskInv, ScansSound
  <1>4. ASSUME NEW i \in Running', NEW k \in scans'[i].written
        PROVE  /\ ProjectOf[k] \in scans'[i].done
               /\ MayBecome(risks'[k], scans'[i].view[k])
    BY <1>1, <1>2, <1>4 DEF RiskInv, ScansSound
  <1>5. ASSUME NEW i \in Running',
               NEW k \in Keys \ (scans'[i].written \cup scans'[i].stale)
        PROVE  scans'[i].view[k] = risks'[k]
    BY <1>1, <1>2, <1>5 DEF RiskInv, ScansSound
  <1> QED  BY <1>3, <1>4, <1>5 DEF ScansSound

\* A commit shows what a scan has saved to the others, none of whom has saved the
\* same.
LEMMA CommitSound ==
    ASSUME RiskInv, NEW j \in Jobs, CommitScan(j)
    PROVE  ScansSound'
  <1> DEFINE rows == scans[j].written \cup scans[j].done
  <1>1. \A i \in Running : scans[i] \in Scan
    BY DEF RiskInv, TypeOK, Running
  <1>2. j \in Running
    BY DEF CommitScan
  <1>3. rows \in SUBSET (Keys \cup Projects)
    BY <1>1, <1>2 DEF Scan
  <1>4. Outdated(rows) \in [Jobs -> Scan \cup {NoScan}]
    BY <1>3, OutdatedTyped DEF RiskInv
  <1>5. /\ scans'[j] = NoScan
        /\ \A i \in Jobs \ {j} : scans'[i] = Outdated(rows)[i]
    BY <1>4 DEF CommitScan
  <1>6. \A k \in Keys \ scans[j].written : risks'[k] = risks[k]
    BY DEF CommitScan
  <1>7. \A i \in Running : scans[i].written \subseteq Keys
    BY <1>1 DEF Scan
  <1>8. ASSUME NEW i \in Running'
        PROVE  /\ i \in Running
               /\ scans'[i].done = scans[i].done
               /\ scans'[i].todo \subseteq scans[i].todo
               /\ scans'[i].view = scans[i].view
               /\ scans'[i].written = scans[i].written
               /\ scans'[i].written \cap scans[j].written = {}
               /\ scans[i].stale \cup (scans[j].written \cap Keys)
                      \subseteq scans'[i].stale
    <2>1. i \in Jobs /\ i # j /\ Outdated(rows)[i] # NoScan
      BY <1>5 DEF Running
    <2> HIDE DEF rows
    <2>2. /\ i \in Running
          /\ Outdated(rows)[i].todo = scans[i].todo
          /\ Outdated(rows)[i].done = scans[i].done
          /\ Outdated(rows)[i].view = scans[i].view
          /\ Outdated(rows)[i].written = scans[i].written
          /\ Outdated(rows)[i].stale = scans[i].stale \cup rows
      BY <2>1, OutdatedRuns DEF RiskInv
    <2>3. scans[i].written \cap scans[j].written = {}
      BY <1>2, <2>1, <2>2 DEF RiskInv, ScansSound
    <2> QED  BY <1>5, <2>1, <2>2, <2>3 DEF rows
  <1> HIDE DEF rows
  <1> QED  BY <1>6, <1>7, <1>8, OthersChange DEF RiskInv

\* Every step keeps the scans sound.
LEMMA SoundKept ==
    ASSUME RiskInv, [Next]_vars
    PROVE  ScansSound'
  <1>1. \A j \in Running : j \in Jobs /\ scans[j] \in Scan
    BY DEF RiskInv, TypeOK, Running
  <1>2. \A j \in Running : scans[j].written \subseteq Keys
    BY <1>1 DEF Scan
  <1>3. CASE UNCHANGED <<risks, scans>>
    BY <1>3 DEF RiskInv, ScansSound, Running
  <1>4. CASE \E k \in Keys : FactMoves(k)
    BY <1>3, <1>4 DEF FactMoves
  <1>5. CASE \E p \in Projects : OpenForm(p)
    BY <1>3, <1>5 DEF OpenForm
  <1>6. ASSUME NEW k \in Keys, NEW s \in ALLOWED_STATUSES, UserMoves(k, s)
        PROVE  ScansSound'
    <2>1. \A i \in Keys \ {k} : risks'[i] = risks[i]
      BY <1>6 DEF UserMoves, RiskInv, TypeOK
    <2>2. ASSUME NEW j \in Running'
          PROVE  /\ j \in Running
                 /\ scans'[j].done = scans[j].done
                 /\ scans'[j].todo \subseteq scans[j].todo
                 /\ scans'[j].view = scans[j].view
                 /\ scans'[j].written = scans[j].written
                 /\ scans'[j].written \cap {k} = {}
                 /\ scans[j].stale \cup ({k} \cap Keys) \subseteq scans'[j].stale
      <3>1. scans' = Outdated({k}) /\ Unlocked(k)
        BY <1>6 DEF UserMoves
      <3>2. j \in Jobs /\ Outdated({k})[j] # NoScan
        BY <3>1 DEF Running
      <3>3. /\ j \in Running
            /\ Outdated({k})[j].todo = scans[j].todo
            /\ Outdated({k})[j].done = scans[j].done
            /\ Outdated({k})[j].view = scans[j].view
            /\ Outdated({k})[j].written = scans[j].written
            /\ Outdated({k})[j].stale = scans[j].stale \cup {k}
        BY <3>2, OutdatedRuns DEF RiskInv
      <3> QED  BY <3>1, <3>3 DEF Unlocked
    <2> QED  BY <1>2, <2>1, <2>2, OthersChange DEF RiskInv
  <1>7. ASSUME NEW p \in Projects, SaveForm(p)
        PROVE  ScansSound'
    <2>1. UNCHANGED risks
      BY <1>7 DEF SaveForm
    <2>2. ASSUME NEW j \in Running'
          PROVE  /\ j \in Running
                 /\ scans'[j].done = scans[j].done
                 /\ scans'[j].todo \subseteq scans[j].todo
                 /\ scans'[j].view = scans[j].view
                 /\ scans'[j].written = scans[j].written
                 /\ scans[j].stale \subseteq scans'[j].stale
      <3>1. scans' = Outdated({p})
        BY <1>7 DEF SaveForm
      <3>2. j \in Jobs /\ Outdated({p})[j] # NoScan
        BY <3>1 DEF Running
      <3>3. /\ j \in Running
            /\ Outdated({p})[j].todo = scans[j].todo
            /\ Outdated({p})[j].done = scans[j].done
            /\ Outdated({p})[j].view = scans[j].view
            /\ Outdated({p})[j].written = scans[j].written
            /\ Outdated({p})[j].stale = scans[j].stale \cup {p}
        BY <3>2, OutdatedRuns DEF RiskInv
      <3> QED  BY <3>1, <3>3
    <2> QED  BY <1>2, <2>1, <2>2, ScansGiveUp DEF RiskInv
  <1>8. ASSUME NEW i \in Jobs, Die(i)
        PROVE  ScansSound'
    <2>1. UNCHANGED risks
      BY <1>8 DEF Die
    <2>2. \A j \in Running' : j \in Running /\ scans'[j] = scans[j]
      BY <1>8 DEF Die, RiskInv, TypeOK, Running
    <2> QED  BY <1>2, <2>1, <2>2, ScansGiveUp DEF RiskInv
  <1>9. ASSUME NEW i \in Jobs, NEW p \in Projects, Fault(i, p) \/ RefuseProject(i, p)
        PROVE  ScansSound'
    <2>1. UNCHANGED risks
      BY <1>9 DEF Fault, RefuseProject
    <2>2. /\ i \in Running
          /\ scans' = [scans EXCEPT ![i] = [scans[i] EXCEPT !.todo = @ \ {p}]]
      BY <1>9 DEF Fault, RefuseProject
    <2>3. ASSUME NEW j \in Running'
          PROVE  /\ j \in Running
                 /\ scans'[j].done = scans[j].done
                 /\ scans'[j].todo \subseteq scans[j].todo
                 /\ scans'[j].view = scans[j].view
                 /\ scans'[j].written = scans[j].written
                 /\ scans'[j].stale = scans[j].stale
      <3>1. CASE j = i
        BY <1>1, <2>2, <3>1 DEF RiskInv, TypeOK, Scan
      <3>2. CASE j # i
        BY <2>2, <3>2 DEF RiskInv, TypeOK, Running
      <3> QED  BY <3>1, <3>2
    <2> QED  BY <1>2, <2>1, <2>3, ScansGiveUp DEF RiskInv
  <1>10. CASE \E j \in Jobs : BeginScan(j)
    BY <1>10, BeginSound
  <1>11. CASE \E j \in Jobs, p \in Projects : ProcessProject(j, p)
    BY <1>11, ProcessSound
  <1>12. CASE \E j \in Jobs : CommitScan(j)
    BY <1>12, CommitSound
  <1>13. CASE UNCHANGED vars
    BY <1>3, <1>13 DEF vars
  <1> QED
    BY <1>4, <1>5, <1>6, <1>7, <1>8, <1>9, <1>10, <1>11, <1>12, <1>13 DEF Next

-----------------------------------------------------------------------------
(* What a scan makes of the projects it has gone through.                  *)

\* The risks of such a project show, as the scan has saved or left them, what the
\* rules have found in its snapshot.
ScansShow ==
    \A j \in Running, k \in Keys :
        ProjectOf[k] \in scans[j].done => Shows(scans[j].view[k], scans[j].seen[k])

\* The risks of a project do so once they are saved.
LEMMA UpsertedShows ==
    ASSUME TypeOK, NEW j \in Running, NEW p \in Projects, NEW k \in KeysOf(p)
    PROVE  Shows(Upserted(j, p)[k], scans[j].seen[k])
  <1>1. scans[j] \in Scan /\ k \in Keys
    BY DEF TypeOK, Running, KeysOf
  <1>2. /\ scans[j].seen[k] \in Findings
        /\ scans[j].view[k] \in Risk \cup {Absent}
    BY <1>1 DEF Scan
  <1>3. CASE k \in Found(j, p)
    <2>1. scans[j].seen[k] # NoFinding
      BY <1>3 DEF Found
    <2>2. Upserted(j, p)[k] = Recorded(scans[j].view[k], scans[j].seen[k])
      BY <1>1, <1>3 DEF Upserted
    <2>3. Upserted(j, p)[k] \in Risk
      BY <1>3, UpsertedTyped
    <2>4. /\ Upserted(j, p)[k].status \in {"Discovered", "InProgress"}
          /\ Upserted(j, p)[k].level = scans[j].seen[k]
      BY <2>2 DEF Recorded
    <2> QED  BY <2>1, <2>3, <2>4 DEF Shows
  <1>4. CASE k \in Stale(j, p)
    <2>1. k \notin Found(j, p)
      BY <1>4 DEF Stale
    <2>2. scans[j].seen[k] = NoFinding
      BY <2>1 DEF Found
    <2>3. Upserted(j, p)[k] = [status |-> "ToVerify", level |-> scans[j].view[k].level]
      BY <1>1, <1>4, <2>1 DEF Upserted
    <2> QED  BY <2>2, <2>3 DEF Shows
  <1>5. CASE k \notin Found(j, p) \cup Stale(j, p)
    <2>1. scans[j].seen[k] = NoFinding
      BY <1>5 DEF Found
    <2>2. Upserted(j, p)[k] = scans[j].view[k]
      BY <1>1, <1>5 DEF Upserted
    <2>3. scans[j].view[k] # Absent => scans[j].view[k].status \notin {"Discovered", "InProgress"}
      BY <1>5 DEF Stale
    <2>4. scans[j].view[k] # Absent => scans[j].view[k].status \in ALLOWED_STATUSES
      BY <1>2 DEF Risk
    <2> QED  BY <2>1, <2>2, <2>3, <2>4 DEF Shows, ALLOWED_STATUSES
  <1> QED  BY <1>3, <1>4, <1>5

\* They go on showing it to the commit.
LEMMA ScansShowKept ==
    ASSUME RiskInv, ScansShow, [Next]_vars
    PROVE  ScansShow'
  <1>1. ASSUME \A j \in Running' :
                  /\ j \in Running
                  /\ scans'[j].done = scans[j].done
                  /\ scans'[j].view = scans[j].view
                  /\ scans'[j].seen = scans[j].seen
        PROVE  ScansShow'
    BY <1>1 DEF ScansShow
  <1>2. ASSUME NEW rows, NEW j \in Running, scans'[j] = Outdated(rows)[j]
        PROVE  /\ scans'[j].done = scans[j].done
               /\ scans'[j].view = scans[j].view
               /\ scans'[j].seen = scans[j].seen
    <2>1. scans[j] \in Scan /\ j \in Jobs
      BY DEF RiskInv, TypeOK, Running
    <2>2. scans'[j] = [scans[j] EXCEPT !.stale = @ \cup rows]
      BY <1>2, <2>1 DEF Outdated
    <2> QED  BY <2>1, <2>2 DEF Scan
  <1>3. CASE UNCHANGED scans
    BY <1>1, <1>3 DEF Running
  <1>4. ASSUME NEW rows, scans' = Outdated(rows)
        PROVE  ScansShow'
    <2>1. \A j \in Running' : j \in Running /\ j \in Jobs
      BY <1>4 DEF Running, Outdated
    <2> QED  BY <1>1, <1>2, <1>4, <2>1
  <1>5. ASSUME NEW j \in Jobs, Die(j)
        PROVE  ScansShow'
    <2>1. \A i \in Running' : i \in Running /\ scans'[i] = scans[i]
      BY <1>5 DEF Die, Running, RiskInv, TypeOK
    <2> QED  BY <1>1, <2>1
  <1>6. ASSUME NEW j \in Jobs, NEW p \in Projects, Fault(j, p) \/ RefuseProject(j, p)
        PROVE  ScansShow'
    <2>1. j \in Running /\ scans[j] \in Scan
      BY <1>6 DEF Fault, RefuseProject, RiskInv, TypeOK, Running
    <2>2. scans' = [scans EXCEPT ![j] = [scans[j] EXCEPT !.todo = @ \ {p}]]
      BY <1>6 DEF Fault, RefuseProject
    <2>3. \A i \in Running' : i # j => i \in Running /\ scans'[i] = scans[i]
      BY <2>2 DEF Running, RiskInv, TypeOK
    <2>4. /\ scans'[j].done = scans[j].done
          /\ scans'[j].view = scans[j].view
          /\ scans'[j].seen = scans[j].seen
      BY <1>6, <2>1, <2>2 DEF RiskInv, TypeOK, Scan
    <2> QED  BY <1>1, <2>1, <2>3, <2>4
  <1>7. ASSUME NEW j \in Jobs, BeginScan(j)
        PROVE  ScansShow'
    <2>1. /\ scans'[j].done = {}
          /\ \A i \in Running' : i # j => i \in Running /\ scans'[i] = scans[i]
      BY <1>7 DEF BeginScan, Running, RiskInv, TypeOK
    <2> QED  BY <2>1 DEF ScansShow
  <1>8. ASSUME NEW j \in Jobs, NEW p \in Projects, ProcessProject(j, p)
        PROVE  ScansShow'
    <2>1. j \in Running /\ scans[j] \in Scan
      BY <1>8 DEF ProcessProject, RiskInv, TypeOK, Running
    <2>2. \A i \in Running' : i # j => i \in Running /\ scans'[i] = scans[i]
      BY <1>8 DEF ProcessProject, Running, RiskInv, TypeOK
    <2>3. /\ scans'[j].done = scans[j].done \cup {p}
          /\ scans'[j].view = Upserted(j, p)
          /\ scans'[j].seen = scans[j].seen
      BY <1>8, <2>1 DEF ProcessProject, RiskInv, TypeOK, Scan
    <2>4. ASSUME NEW k \in Keys, ProjectOf[k] \in scans'[j].done
          PROVE  Shows(scans'[j].view[k], scans'[j].seen[k])
      <3>1. CASE ProjectOf[k] = p
        <4>1. k \in KeysOf(p)
          BY <3>1 DEF KeysOf
        <4> QED  BY <2>1, <2>3, <4>1, UpsertedShows DEF RiskInv
      <3>2. CASE ProjectOf[k] # p
        <4>1. Upserted(j, p)[k] = scans[j].view[k]
          BY <3>2 DEF Upserted, Found, Stale, KeysOf
        <4>2. Shows(scans[j].view[k], scans[j].seen[k])
          BY <2>1, <2>3, <2>4, <3>2 DEF ScansShow
        <4> QED  BY <2>3, <4>1, <4>2
      <3> QED  BY <3>1, <3>2
    <2> QED  BY <2>2, <2>4 DEF ScansShow
  <1>9. ASSUME NEW j \in Jobs, CommitScan(j)
        PROVE  ScansShow'
    <2> DEFINE rows == scans[j].written \cup scans[j].done
    <2>1. scans' = [Outdated(rows) EXCEPT ![j] = NoScan]
      BY <1>9 DEF CommitScan
    <2> HIDE DEF rows
    <2>2. \A i \in Running' : i \in Running /\ scans'[i] = Outdated(rows)[i]
      BY <2>1 DEF Running, Outdated
    <2> QED  BY <1>1, <1>2, <2>2
  <1>10. CASE UNCHANGED vars
    BY <1>3, <1>10 DEF vars
  <1> QED
    BY <1>3, <1>4, <1>5, <1>6, <1>7, <1>8, <1>9, <1>10
    DEF Next, FactMoves, UserMoves, OpenForm, SaveForm

\* The level of a project depends on its own risks only.
LEMMA HighestOfSame ==
    ASSUME NEW v, NEW w, NEW p, \A k \in KeysOf(p) : v[k] = w[k]
    PROVE  HighestLevel(v, p) = HighestLevel(w, p)
  <1>1. {k \in KeysOf(p) : v[k] # Absent /\ v[k].status # "Closed"}
            = {k \in KeysOf(p) : w[k] # Absent /\ w[k].status # "Closed"}
    OBVIOUS
  <1> DEFINE open == {k \in KeysOf(p) : v[k] # Absent /\ v[k].status # "Closed"}
  <1>2. \A k \in open : v[k].level = w[k].level
    OBVIOUS
  <1> HIDE DEF open
  <1>3. HighestLevel(v, p) = IF \E k \in open : v[k].level = "High" THEN "High"
                             ELSE IF \E k \in open : v[k].level = "Medium" THEN "Medium"
                             ELSE "Low"
    BY DEF HighestLevel, open
  <1>4. HighestLevel(w, p) = IF \E k \in open : w[k].level = "High" THEN "High"
                             ELSE IF \E k \in open : w[k].level = "Medium" THEN "Medium"
                             ELSE "Low"
    BY <1>1 DEF HighestLevel, open
  <1> QED  BY <1>2, <1>3, <1>4

-----------------------------------------------------------------------------
(* The theorems.                                                           *)

\* The invariant holds: in every state each scan has only saved what is, when it
\* commits, a move of the risks as they are.
THEOREM RiskInvariant == Spec => []RiskInv
  <1>1. Init => RiskInv
    BY EngineAssumption
    DEF Init, RiskInv, TypeOK, ScansSound, Running, RiskLevels, RISK_LEVEL_RANK
  <1>2. RiskInv /\ [Next]_vars => RiskInv'
    BY TypesKept, SoundKept DEF RiskInv
  <1> QED  BY <1>1, <1>2, PTL DEF Spec, Safety

\* Every variable keeps its type.
THEOREM RiskTypes == Spec => []TypeOK
  <1>1. RiskInv => TypeOK
    BY DEF RiskInv
  <1> QED  BY <1>1, RiskInvariant, PTL

\* Nor does a risk that is left alone get lower, or get lost, whatever its document
\* shows.
THEOREM FindingsNeverRelax == Spec => []FindingsEscalate
  <1>1. TypeOK => FindingsEscalate
    <2> SUFFICES ASSUME TypeOK, NEW k \in Keys, facts[k] # Gone
                 PROVE  Escalates(RuleOf[k], facts[k])
      BY DEF FindingsEscalate
    <2>1. facts[k] \in Int
      BY DEF TypeOK
    <2>2. RuleOf[k] \in RuleCodes
      BY EngineAssumption
    <2> QED  BY <2>1, <2>2, RulesNeverRelax
  <1> QED  BY <1>1, RiskTypes, PTL

\* However scans and users meet, risks only make legal moves.
THEOREM RisksSound == Spec => RisksFollowTransitions
  <1> DEFINE A == \A k \in Keys : risks'[k] = risks[k] \/ MayBecome(risks[k], risks'[k])
  <1>1. RiskInv /\ [Next]_vars => [A]_vars
    <2> SUFFICES ASSUME RiskInv, Next PROVE A
      BY DEF vars
    <2>1. CASE risks' = risks
      BY <2>1
    <2>2. ASSUME NEW k \in Keys, NEW s \in ALLOWED_STATUSES, UserMoves(k, s)
          PROVE  A
      <3>1. risks[k] \in Risk /\ risks[k] # Absent
        BY <2>2 DEF UserMoves, RiskInv, TypeOK
      <3> DEFINE r == [risks[k] EXCEPT !.status = s]
      <3>2. r \in Risk /\ r.status = s
        BY <3>1 DEF Risk
      <3>3. risks'[k] = r /\ \A i \in Keys \ {k} : risks'[i] = risks[i]
        BY <2>2 DEF UserMoves, RiskInv, TypeOK
      <3> HIDE DEF r
      <3>4. MayBecome(risks[k], r)
        BY <2>2, <3>1, <3>2 DEF UserMoves, MayMove, MayBecome
      <3> QED  BY <3>3, <3>4
    <2>3. ASSUME NEW j \in Jobs, CommitScan(j)
          PROVE  A
      <3>1. j \in Running
        BY <2>3 DEF CommitScan
      <3>2. \A k \in scans[j].written : MayBecome(risks[k], scans[j].view[k])
        BY <3>1 DEF RiskInv, ScansSound
      <3>3. \A k \in Keys : risks'[k] = IF k \in scans[j].written
                                       THEN scans[j].view[k] ELSE risks[k]
        BY <2>3 DEF CommitScan
      <3> QED  BY <3>2, <3>3
    <2> QED
      BY <2>1, <2>2, <2>3
      DEF Next, FactMoves, OpenForm, SaveForm, Die, Fault, BeginScan,
          ProcessProject, RefuseProject
  <1>2. Spec => [][Next]_vars
    BY DEF Spec, Safety
  <1>3. Spec => [][A]_vars
    BY <1>1, <1>2, RiskInvariant, PTL
  <1> QED  BY <1>3 DEF RisksFollowTransitions

\* The safety within Converges: a scan that commits settles every project it has gone
\* through of which nothing has moved since its snapshot, and unsettles no other.
THEOREM ScansSettleProjects == Spec => ScansSettle
  <1> DEFINE A == \A j \in Jobs, p \in Projects :
                    CommitScan(j) =>
                        /\ p \in scans[j].done /\ Fresh(j, p) => Settled(p)'
                        /\ p \notin scans[j].done /\ Settled(p) => Settled(p)'
  <1>1. Init => ScansShow
    BY DEF Init, ScansShow, Running
  <1>2. RiskInv /\ ScansShow /\ [Next]_vars => ScansShow'
    BY ScansShowKept
  <1>3. RiskInv /\ ScansShow /\ [Next]_vars => [A]_vars
    <2> SUFFICES ASSUME RiskInv, ScansShow, NEW j \in Jobs, NEW p \in Projects, CommitScan(j)
                 PROVE  /\ p \in scans[j].done /\ Fresh(j, p) => Settled(p)'
                        /\ p \notin scans[j].done /\ Settled(p) => Settled(p)'
      OBVIOUS
    <2>1. j \in Running
      BY DEF CommitScan
    <2>2. \A k \in KeysOf(p) :
            /\ k \in Keys /\ ProjectOf[k] = p
            /\ risks'[k] = IF k \in scans[j].written THEN scans[j].view[k] ELSE risks[k]
            /\ Finding(k)' = Finding(k)
      BY DEF CommitScan, KeysOf, Finding
    <2>3. overall'[p] = IF p \in scans[j].done THEN HighestLevel(scans[j].view, p)
                                              ELSE overall[p]
      BY DEF CommitScan
    <2>4. ASSUME p \in scans[j].done, Fresh(j, p)
          PROVE  Settled(p)'
      <3>1. ASSUME NEW k \in KeysOf(p)
            PROVE  risks'[k] = scans[j].view[k] /\ scans[j].seen[k] = Finding(k)'
        <4>1. scans[j].seen[k] = Finding(k) /\ k \notin scans[j].stale
          BY <2>4 DEF Fresh
        <4>2. k \notin scans[j].written => scans[j].view[k] = risks[k]
          BY <2>1, <2>2, <4>1 DEF RiskInv, ScansSound
        <4> QED  BY <2>2, <4>1, <4>2
      <3>2. \A k \in KeysOf(p) : Shows(risks'[k], Finding(k)')
        BY <2>1, <2>2, <2>4, <3>1 DEF ScansShow
      <3>3. HighestLevel(scans[j].view, p) = HighestLevel(risks', p)
        BY <3>1, HighestOfSame
      <3> QED  BY <2>3, <2>4, <3>2, <3>3 DEF Settled, Shows, HighestLevel
    <2>5. ASSUME p \notin scans[j].done, Settled(p)
          PROVE  Settled(p)'
      <3>1. \A k \in KeysOf(p) : risks'[k] = risks[k]
        <4> TAKE k \in KeysOf(p)
        <4>1. k \notin scans[j].written
          BY <2>1, <2>2, <2>5 DEF RiskInv, ScansSound
        <4> QED  BY <2>2, <4>1
      <3>2. HighestLevel(risks, p) = HighestLevel(risks', p)
        BY <3>1, HighestOfSame
      <3>3. \A k \in KeysOf(p) : Shows(risks'[k], Finding(k)')
        BY <2>2, <2>5, <3>1 DEF Settled
      <3> QED  BY <2>3, <2>5, <3>2, <3>3 DEF Settled, Shows, HighestLevel
    <2> QED  BY <2>4, <2>5
  <1>4. Spec => Init /\ [][Next]_vars
    BY DEF Spec, Safety
  <1>5. Spec => [][A]_vars
    BY <1>1, <1>2, <1>3, <1>4, RiskInvariant, PTL
  <1> QED  BY <1>5 DEF ScansSettle
=============================================================================
