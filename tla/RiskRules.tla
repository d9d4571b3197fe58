------------------------------ MODULE RiskRules ------------------------------
(***************************************************************************)
(* The rules of the risk engine (risk_engine/rules.py) as pure operators.  *)
(*                                                                         *)
(* A rule looks at one document of a project and finds a risk of a level,  *)
(* or nothing.  What it compares is one number, its reading: the days that *)
(* a date has passed, or by which it is ahead of another.                  *)
(***************************************************************************)
EXTENDS Integers

CONSTANTS
    Days,                         \* the readings that documents may show
    FeedbackWarningDays,          \* of AutoFlow Settings, as stored
    QuotationExpiryWarningDays,
    ProjectInactiveDays,
    NotANumber                    \* a setting that int() refuses

ASSUME RulesAssumption ==
    /\ Days \subseteq Int
    /\ {FeedbackWarningDays, QuotationExpiryWarningDays, ProjectInactiveDays}
            \subseteq Int \cup {NotANumber}
    /\ NotANumber \notin Int

RISK_LEVEL_RANK == [Low |-> 1, Medium |-> 2, High |-> 3]
RiskLevels == DOMAIN RISK_LEVEL_RANK

NoFinding == "NoFinding"
Findings == {"Medium", "High", NoFinding}

\* Nothing found ranks below every level.
Rank(finding) == IF finding = NoFinding THEN 0 ELSE RISK_LEVEL_RANK[finding]

\* A number of days is at least one.
setting_days(value, default) ==
    IF value = NotANumber THEN default ELSE IF value < 1 THEN 1 ELSE value

\* Of something that is due: by how many days it is overdue.
find_overdue_milestones(days) ==
    IF days <= 0 THEN NoFinding ELSE IF days >= 7 THEN "High" ELSE "Medium"

find_overdue_receivables(days) ==
    IF days <= 0 THEN NoFinding ELSE IF days >= 7 THEN "High" ELSE "Medium"

\* A mutant: high on the very day only.
WaitingLevelOnTheDay(days, warning) ==
    IF days < warning THEN NoFinding
    ELSE IF days = 2 * warning THEN "High" ELSE "Medium"

\* Of something that is awaited: for how many days already.
WaitingLevel(days, warning) ==
    IF days < warning THEN NoFinding
    ELSE IF days >= 2 * warning THEN "High" ELSE "Medium"

find_pending_sample_feedback(days) ==
    WaitingLevel(days, setting_days(FeedbackWarningDays, 3))

find_inactive_project(days) ==
    WaitingLevel(days, setting_days(ProjectInactiveDays, 7))

\* Of an unconfirmed quotation: how many days ago its last day was.
find_quotation_expiry(days) ==
    IF -days > setting_days(QuotationExpiryWarningDays, 7) THEN NoFinding
    ELSE IF days > 0 THEN "High" ELSE "Medium"

\* Of a Sales Order with a material gap: by how many days it is needed before
\* the customer's delivery date.
find_stock_delivery_gap(days) == IF days >= 0 THEN "High" ELSE "Medium"

\* Of an open Purchase Order: by how many days the supplier is later than that.
find_supplier_delay(days) == IF days <= 0 THEN NoFinding ELSE "High"

\* Of a high exception that is open.
find_open_high_exceptions(days) == "High"

\* What each rule finds on a document with a reading.
RULES(days) ==
    [ MILESTONE_OVERDUE     |-> find_overdue_milestones(days),
      SAMPLE_FEEDBACK_DELAY |-> find_pending_sample_feedback(days),
      QUOTATION_EXPIRY      |-> find_quotation_expiry(days),
      STOCK_DELIVERY_GAP    |-> find_stock_delivery_gap(days),
      SUPPLIER_DELAY        |-> find_supplier_delay(days),
      HIGH_EXCEPTION_OPEN   |-> find_open_high_exceptions(days),
      RECEIVABLE_OVERDUE    |-> find_overdue_receivables(days),
      PROJECT_INACTIVE      |-> find_inactive_project(days) ]

RuleCodes == DOMAIN RULES(0)

\* From a reading on, the rule never finds less the more days have passed.
Escalates(rule, from) ==
    \A d, e \in Days :
        from <= d /\ d <= e => Rank(RULES(d)[rule]) <= Rank(RULES(e)[rule])
=============================================================================
