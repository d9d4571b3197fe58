SPECIFICATION Spec
CONSTANTS
    Days <- MCDays
    FeedbackWarningDays = 0
    QuotationExpiryWarningDays = NotANumber
    ProjectInactiveDays = 7
    NotANumber = NotANumber
    p1 = p1
    p2 = p2
    sample = sample
    Projects = {p1, p2}
    Keys = {sample}
    ProjectOf <- MCProjectOf
    RuleOf <- MCRuleOf
    ReadingsOf <- MCReadingsOf
    Broken = {p2}
    FormProjects = {p1}
    Jobs = {hourly, daily}
    Gone = Gone
    Absent = Absent
    NoForm = NoForm
    NoScan = NoScan
INVARIANTS TypeOK FindingsEscalate
PROPERTIES RisksFollowTransitions ScansSettle Converges
