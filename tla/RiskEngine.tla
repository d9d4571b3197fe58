----------------------------- MODULE RiskEngine -----------------------------
(***************************************************************************)
(* The risk engine: scans of all projects that record what the rules find, *)
(* beside users who work on the risks and save old forms of the projects.  *)
(*                                                                         *)
(* Models evaluate_project and upsert_risks as _scan_active_projects calls *)
(* them, and the saves of a Project Risk.  A scan is one transaction: its  *)
(* first read fixes the snapshot in which all its plain reads happen, each *)
(* project has a savepoint of its own, and nothing is visible, nor is a    *)
(* row lock released, before it commits.  The save of a risk that changed  *)
(* since the snapshot is refused.                                          *)
(***************************************************************************)
EXTENDS RiskRules, FiniteSets

CONSTANTS
    Projects,      \* those that are active
    Keys,          \* deduplication keys: a rule and a document of a project
    ProjectOf, RuleOf,
    ReadingsOf,    \* the readings that a key's document may show
    Broken,        \* the projects some rule of which raises
    FormProjects,  \* the projects whose forms are opened
    Jobs,          \* the hourly and the daily scan
    Gone, Absent, NoForm, NoScan

ASSUME EngineAssumption ==
    /\ ProjectOf \in [Keys -> Projects]
    /\ RuleOf \in [Keys -> RuleCodes]
    /\ ReadingsOf \in [Keys -> SUBSET Days]
    /\ Keys \cap Projects = {}
    /\ Gone \notin Int
    /\ NoForm \notin RiskLevels

ALLOWED_STATUSES == {"Discovered", "InProgress", "ToVerify", "Closed"}

USER_TRANSITIONS ==
    [ Discovered |-> {"InProgress"},
      InProgress |-> {"ToVerify"},
      ToVerify   |-> {"InProgress", "Closed"},
      Closed     |-> {} ]

Risk == [status : ALLOWED_STATUSES, level : RiskLevels]

Scan ==
    [ todo : SUBSET Projects,
      done : SUBSET Projects,             \* whose row it has locked
      seen : [Keys -> Findings],          \* what the rules find in its snapshot
      view : [Keys -> Risk \cup {Absent}],\* the risks there, and its own writes
      written : SUBSET Keys,
      stale : SUBSET (Keys \cup Projects) ] \* rows that have changed since

VARIABLES
    facts,     \* the reading of each key's document, or Gone
    risks,     \* the Project Risk of each key
    overall,   \* overall_risk_level of each project
    forms,     \* the level that an open form of each project shows
    scans

vars == <<facts, risks, overall, forms, scans>>

TypeOK ==
    /\ facts \in [Keys -> Int \cup {Gone}]
    /\ risks \in [Keys -> Risk \cup {Absent}]
    /\ overall \in [Projects -> RiskLevels]
    /\ forms \in [Projects -> RiskLevels \cup {NoForm}]
    /\ scans \in [Jobs -> Scan \cup {NoScan}]

KeysOf(p) == {k \in Keys : ProjectOf[k] = p}

Finding(k) == IF facts[k] = Gone THEN NoFinding ELSE RULES(facts[k])[RuleOf[k]]

Running == {j \in Jobs : scans[j] # NoScan}

\* A risk that a scan has saved stays locked until the scan commits.
Unlocked(k) == \A j \in Running : k \notin scans[j].written

\* The scans after some rows have changed.
Outdated(rows) ==
    [ j \in Jobs |->
        IF j \in Running THEN [scans[j] EXCEPT !.stale = @ \cup rows] ELSE NoScan ]

\* A mutant: no level when all are closed.
HighestLevelWithoutDefault(view, p) ==
    LET open == {k \in KeysOf(p) : view[k] # Absent /\ view[k].status # "Closed"}
    IN  IF \E k \in open : view[k].level = "High" THEN "High"
        ELSE IF \E k \in open : view[k].level = "Medium" THEN "Medium"
        ELSE NoFinding

\* The highest level of the risks of a project that are not closed, in a view.
HighestLevel(view, p) ==
    LET open == {k \in KeysOf(p) : view[k] # Absent /\ view[k].status # "Closed"}
    IN  IF \E k \in open : view[k].level = "High" THEN "High"
        ELSE IF \E k \in open : view[k].level = "Medium" THEN "Medium"
        ELSE "Low"

Init ==
    /\ facts = [k \in Keys |-> Gone]
    /\ risks = [k \in Keys |-> Absent]
    /\ overall = [p \in Projects |-> "Low"]
    /\ forms = [p \in Projects |-> NoForm]
    /\ scans = [j \in Jobs |-> NoScan]

-----------------------------------------------------------------------------
(* What goes on beside the engine.                                         *)

\* Days pass, documents appear, move and are done with.
FactMoves(k) ==
    /\ \E r \in ReadingsOf[k] \cup {Gone} : facts' = [facts EXCEPT ![k] = r]
    /\ UNCHANGED <<risks, overall, forms, scans>>

MayMove(k, s) == s \in USER_TRANSITIONS[risks[k].status]

\* A user saves a risk with a new status; its other fields are the engine's.
UserMoves(k, s) ==
    /\ risks[k] # Absent
    /\ Unlocked(k)
    /\ MayMove(k, s)
    /\ risks' = [risks EXCEPT ![k].status = s]
    /\ scans' = Outdated({k})
    /\ UNCHANGED <<facts, overall, forms>>

OpenForm(p) ==
    /\ p \in FormProjects
    /\ forms' = [forms EXCEPT ![p] = overall[p]]
    /\ UNCHANGED <<facts, risks, overall, scans>>

\* The form of a project holds the level it was opened with, and is not out of
\* date after a scan, which does not touch the modified stamp.
SaveForm(p) ==
    /\ forms[p] # NoForm
    /\ \A j \in Running : p \notin scans[j].done
    /\ overall' = [overall EXCEPT ![p] = forms[p]]
    /\ forms' = [forms EXCEPT ![p] = NoForm]
    /\ scans' = Outdated({p})
    /\ UNCHANGED <<facts, risks>>

\* The worker is stopped, or a deadlock rolls the transaction back, savepoints
\* and all.
Die(j) ==
    /\ j \in Running
    /\ scans' = [scans EXCEPT ![j] = NoScan]
    /\ UNCHANGED <<facts, risks, overall, forms>>

\* A project fails for a passing reason.
Fault(j, p) ==
    /\ j \in Running
    /\ p \in scans[j].todo
    /\ scans' = [scans EXCEPT ![j].todo = @ \ {p}]
    /\ UNCHANGED <<facts, risks, overall, forms>>

-----------------------------------------------------------------------------
(* The engine.                                                             *)

BeginScan(j) ==
    /\ scans[j] = NoScan
    /\ scans' = [scans EXCEPT ![j] =
                    [ todo |-> Projects, done |-> {},
                      seen |-> [k \in Keys |-> Finding(k)],
                      view |-> risks, written |-> {}, stale |-> {} ]]
    /\ UNCHANGED <<facts, risks, overall, forms>>

Found(j, p) == {k \in KeysOf(p) : scans[j].seen[k] # NoFinding}

\* A mutant: a risk in progress is left to whoever works on it.
StaleDiscovered(j, p) ==
    { k \in KeysOf(p) \ Found(j, p) :
        scans[j].view[k] # Absent /\ scans[j].view[k].status = "Discovered" }

\* The risks of the project that are worked on but that no rule finds any more.
Stale(j, p) ==
    { k \in KeysOf(p) \ Found(j, p) :
        /\ scans[j].view[k] # Absent
        /\ scans[j].view[k].status \in {"Discovered", "InProgress"} }

\* A risk that is found again is discovered anew, unless it is being worked on.
Recorded(risk, level) ==
    [ status |-> IF risk # Absent /\ risk.status = "InProgress"
                 THEN "InProgress" ELSE "Discovered",
      level |-> level ]

\* The view of a scan after it has saved the risks of a project.
Upserted(j, p) ==
    [ k \in Keys |->
        IF k \in Found(j, p) THEN Recorded(scans[j].view[k], scans[j].seen[k])
        ELSE IF k \in Stale(j, p)
        THEN [status |-> "ToVerify", level |-> scans[j].view[k].level]
        ELSE scans[j].view[k] ]

\* A mutant: a risk is saved whatever has become of it since the snapshot.
SavableUnchecked(j, p) == \A i \in Running \ {j} : p \notin scans[i].done

\* Nobody else has the row of the project, or has changed what is to be saved.
Savable(j, p) ==
    /\ \A i \in Running \ {j} : p \notin scans[i].done
    /\ (Found(j, p) \cup Stale(j, p)) \cap scans[j].stale = {}

ProcessProject(j, p) ==
    /\ j \in Running
    /\ p \in scans[j].todo \ Broken
    /\ Savable(j, p)
    /\ scans' = [scans EXCEPT ![j].todo = @ \ {p},
                              ![j].done = @ \cup {p},
                              ![j].view = Upserted(j, p),
                              ![j].written = @ \cup Found(j, p) \cup Stale(j, p)]
    /\ UNCHANGED <<facts, risks, overall, forms>>

\* A mutant: no savepoint, the error ends the scan.
RefuseScan(j, p) ==
    /\ j \in Running
    /\ p \in scans[j].todo
    /\ p \in Broken \cup scans[j].stale \/ ~Savable(j, p)
    /\ scans' = [scans EXCEPT ![j] = NoScan]
    /\ UNCHANGED <<facts, risks, overall, forms>>

\* A rule raises, a save is refused, the lock is not obtained in time, or not at
\* all on a row that has changed, where the database is set so: what was done for
\* the project is rolled back to its savepoint, and the scan goes on.
RefuseProject(j, p) ==
    /\ j \in Running
    /\ p \in scans[j].todo
    /\ p \in Broken \cup scans[j].stale \/ ~Savable(j, p)
    /\ scans' = [scans EXCEPT ![j].todo = @ \ {p}]
    /\ UNCHANGED <<facts, risks, overall, forms>>

CommitScan(j) ==
    /\ j \in Running
    /\ scans[j].todo = {}
    /\ risks' = [ k \in Keys |-> IF k \in scans[j].written THEN scans[j].view[k]
                                                           ELSE risks[k] ]
    /\ overall' = [ p \in Projects |->
                      IF p \in scans[j].done THEN HighestLevel(scans[j].view, p)
                                             ELSE overall[p] ]
    /\ scans' = [Outdated(scans[j].written \cup scans[j].done) EXCEPT ![j] = NoScan]
    /\ UNCHANGED <<facts, forms>>

EngineStep ==
    \E j \in Jobs :
        \/ BeginScan(j)
        \/ \E p \in Projects : ProcessProject(j, p) \/ RefuseProject(j, p)
        \/ CommitScan(j)

Next ==
    \/ \E k \in Keys : FactMoves(k)
    \/ \E k \in Keys, s \in ALLOWED_STATUSES : UserMoves(k, s)
    \/ \E p \in Projects : OpenForm(p)
    \/ \E p \in Projects : SaveForm(p)
    \/ \E j \in Jobs : Die(j)
    \/ \E j \in Jobs, p \in Projects : Fault(j, p)
    \/ \E j \in Jobs : BeginScan(j)
    \/ \E j \in Jobs, p \in Projects : ProcessProject(j, p)
    \/ \E j \in Jobs, p \in Projects : RefuseProject(j, p)
    \/ \E j \in Jobs : CommitScan(j)

Safety == Init /\ [][Next]_vars

\* The scheduler starts every job again and again, a worker takes the projects
\* one after the other, and the worker commits at the end.
Fairness ==
    \A j \in Jobs :
        /\ WF_vars(BeginScan(j))
        /\ \A p \in Projects : WF_vars(ProcessProject(j, p) \/ RefuseProject(j, p))
        /\ WF_vars(CommitScan(j))

Spec == Safety /\ Fairness

-----------------------------------------------------------------------------
(* What must hold.                                                         *)

\* Whatever the settings are, a risk that is left alone never gets lower from the
\* reading that its document shows, and the rule never loses sight of it.
\* (rules.py 18-339.)
FindingsEscalate ==
    \A k \in Keys : facts[k] # Gone => Escalates(RuleOf[k], facts[k])

\* What may become of a risk.
MayBecome(old, new) ==
    /\ new \in Risk
    /\ \/ old = Absent /\ new.status = "Discovered"
       \/ /\ old # Absent
          /\ \/ new.status \in USER_TRANSITIONS[old.status]
             \/ old.status = new.status /\ old.status \in {"Discovered", "InProgress"}
             \/ old.status = "Discovered" /\ new.status = "ToVerify"
             \/ old.status \in {"ToVerify", "Closed"} /\ new.status = "Discovered"

\* However scans and users meet, the status of a risk goes from one to the next
\* along the user's transitions, back to discovered from the end, or to be
\* verified by the engine: no work is undone by a scan, and only a user closes a
\* risk, after it was to be verified.  (project_risk.py 9-14, service.py 164-204;
\* Product-Spec.md 228-229.)
RisksFollowTransitions ==
    [][\A k \in Keys : risks'[k] = risks[k] \/ MayBecome(risks[k], risks'[k])]_vars

\* A risk shows what a rule finds.
Shows(risk, finding) ==
    IF finding = NoFinding
    THEN risk = Absent \/ risk.status \in {"ToVerify", "Closed"}
    ELSE /\ risk \in Risk
         /\ risk.status \in {"Discovered", "InProgress"}
         /\ risk.level = finding

\* What a project shows when its risks are what the rules find.
Settled(p) ==
    /\ \A k \in KeysOf(p) : Shows(risks[k], Finding(k))
    /\ overall[p] = HighestLevel(risks, p)

\* What a scan has read of a project still is so.
Fresh(j, p) ==
    \A k \in KeysOf(p) : scans[j].seen[k] = Finding(k) /\ k \notin scans[j].stale

\* A scan that commits settles every project it has gone through of which nothing has
\* moved since its snapshot, whatever the state of its risks was, what other scans
\* have been doing and which projects failed; and it unsettles none of the others.
\* (service.py 137-207, scheduled.py 9-24; Product-Spec.md 199, 207.)
ScansSettle ==
    [][ \A j \in Jobs, p \in Projects :
          CommitScan(j) =>
              /\ p \in scans[j].done /\ Fresh(j, p) => Settled(p)'
              /\ p \notin scans[j].done /\ Settled(p) => Settled(p)' ]_vars

\* Once nobody interferes any more, every project that the rules can evaluate
\* comes to show what they find and stays so, whatever forms were saved over its
\* level, scans lost or projects refused before, and although the scan of a
\* broken project fails for ever.  (scheduled.py 9-24; Product-Spec.md 199, 207.)
Converges ==
    <>[][EngineStep]_vars => <>[](\A p \in Projects \ Broken : Settled(p))
=============================================================================
