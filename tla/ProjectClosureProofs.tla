------------------------ MODULE ProjectClosureProofs ------------------------
(***************************************************************************)
(* What ProjectClosure guarantees for any number of documents, requests,   *)
(* users, concurrent document events and cancellations.                    *)
(*                                                                         *)
(* ClosedOnApprovedEvidence is not inductive: between the checks of        *)
(* close_project and its commit the approved case and its documents must   *)
(* already stand, the project must still be waiting for payment, and every *)
(* cancellation in flight must have been counted as overtaken.  And what   *)
(* an event has yet to save must be a climb from the stage as it still is. *)
(* ClosureInv says so.                                                     *)
(***************************************************************************)
EXTENDS ProjectClosure, ProjectStageProofs, TLAPS

\* Whoever approved a request was not its requester and had the authority.
ApprovalsSound ==
    \A q \in Requests :
        requests[q].status = "Approved" =>
            /\ requests[q].approver # requests[q].requester
            /\ <<requests[q].snapshot.amount, requests[q].snapshot.risk>>
                   \in Authority[requests[q].approver]

\* From the checks of close_project on, through the whole time the project is
\* closed, it rests on an approved case, and a cancellation can only be one that
\* was under way beside the closing.
CaseStands ==
    closing # {} \/ project.stage = CLOSED_STAGE =>
        /\ cancelling \subseteq overtaken
        /\ \E q \in Requests : CleanApproval(q) /\ EvidenceStands(q)

ClosingFromReady == closing # {} => project.stage = CLOSURE_READY_STAGE

\* A payment is submitted after its invoice, which never is a draft again.
PaymentsFollow ==
    \A p \in Payments : docstatus[p] = "Submitted" => docstatus[InvoiceOf[p]] # "Draft"

\* What is about to be closed is what was approved.
CaseAgrees(q, c) ==
    /\ CleanApproval(q)
    /\ requests[q].snapshot.amount = project.amount
    /\ requests[q].snapshot.risk = c.risk
    /\ EvidenceStands(q)
    /\ EvidenceComplete(q)

ClosingOnCase == \A c \in closing : \E q \in Requests : CaseAgrees(q, c)

\* What an event has yet to save differs from the row by one climb, and not past
\* what its documents called for.  Only the risk level may be older.
SaveFits(s) ==
    /\ Climbs(project.stage, s.row.stage)
    /\ StageRank(s.row.stage) <= s.called
    /\ s.row.summary = project.summary
    /\ s.row.amount = project.amount

EventsSound == \A e \in events : \A s \in e.saves : SaveFits(s)

ClosureInv ==
    /\ TypeOK
    /\ ApprovalsSound
    /\ CaseStands
    /\ ClosingFromReady
    /\ ClosedSummaryKept
    /\ PaymentsFollow
    /\ ClosingOnCase
    /\ EventsSound

-----------------------------------------------------------------------------
(* The three kinds of step of a document.                                  *)

BeginsEvent ==
    \E adds \in SUBSET PresalesKinds, drops \in SUBSET PresalesKinds,
       submits \in SUBSET Documents : DocumentEvent(adds, drops, submits)

ActsBeside ==
    \/ RecordFeedback
    \/ CancelQuotation
    \/ \E d \in Deliveries : ConfirmReceipt(d)
    \/ \E i \in Invoices : WriteOffInvoice(i)

EndsEvent == \E e \in events : CommitEvent(e) \/ AbortEvent(e)

\* A document's step begins an event, ends one, or runs none.
LEMMA DocumentCases ==
    ASSUME PresalesStep \/ DocumentStep
    PROVE  BeginsEvent \/ ActsBeside \/ EndsEvent
  <1>1. CASE PresalesStep
    <2>1. CASE SaveSample
      <3>1. {"openSample"} \in SUBSET PresalesKinds /\ {} \in SUBSET PresalesKinds
        BY <2>1 DEF SaveSample
      <3>2. {} \in SUBSET Documents
        OBVIOUS
      <3>3. QED
        BY <2>1, <3>1, <3>2, Zenon DEF SaveSample, BeginsEvent
    <2>2. CASE SubmitQuotation
      <3>1. {"quotation"} \in SUBSET PresalesKinds /\ {} \in SUBSET PresalesKinds
        BY <2>2 DEF SubmitQuotation
      <3>2. {} \in SUBSET Documents
        OBVIOUS
      <3>3. QED
        BY <2>2, <3>1, <3>2, Zenon DEF SubmitQuotation, BeginsEvent
    <2>3. CASE ConfirmQuotation
      <3>1. {"confirmedQuotation"} \in SUBSET PresalesKinds /\ {} \in SUBSET PresalesKinds
        BY <2>3 DEF ConfirmQuotation
      <3>2. {} \in SUBSET Documents
        OBVIOUS
      <3>3. QED
        BY <2>3, <3>1, <3>2, Zenon DEF ConfirmQuotation, BeginsEvent
    <2>4. QED
      BY <1>1, <2>1, <2>2, <2>3 DEF PresalesStep, ActsBeside
  <1>2. CASE DocumentStep
    <2>1. {} \in SUBSET PresalesKinds /\ {} \in SUBSET Documents
      OBVIOUS
    <2>2. CASE UpdateSubmittedDocument
      BY <2>1, <2>2, Zenon DEF UpdateSubmittedDocument, BeginsEvent
    <2>3. ASSUME NEW d \in Documents, SubmitDocument(d)
          PROVE  BeginsEvent
      <3>1. {d} \in SUBSET Documents
        OBVIOUS
      <3>2. QED
        BY <2>1, <2>3, <3>1, Zenon DEF SubmitDocument, BeginsEvent
    <2>4. QED
      BY <1>2, <2>2, <2>3 DEF DocumentStep, ActsBeside, EndsEvent
  <1>3. QED
    BY <1>1, <1>2

\* A step that begins an event writes nothing else.
LEMMA BeginsAlone ==
    ASSUME BeginsEvent
    PROVE  UNCHANGED <<project, evidenceVars, riskVars, requests, closingVars>>
  <1>1. PICK adds \in SUBSET PresalesKinds, drops \in SUBSET PresalesKinds,
             submits \in SUBSET Documents : DocumentEvent(adds, drops, submits)
    BY DEF BeginsEvent
  <1>2. QED
    BY <1>1 DEF DocumentEvent

-----------------------------------------------------------------------------
(* Types.                                                                  *)

\* The queries of the closure service return rows of their tables.
LEMMA SnapshotTyped == TypeOK => ClosureSnapshot \in SnapshotRow
  <1> SUFFICES ASSUME TypeOK PROVE ClosureSnapshot \in SnapshotRow
    OBVIOUS
  <1>1. EvidenceRows \in EvidenceRow
    BY DEF EvidenceRows, RowsOf, EvidenceRow, SubmittedAmong, TypeOK
  <1>2. QED
    BY <1>1 DEF ClosureSnapshot, SnapshotRow, TypeOK, ProjectRow

\* The event that a request begins is typed, and what it will save fits the row.
LEMMA EventBegins ==
    ASSUME TypeOK, BeginsEvent
    PROVE  /\ events' \subseteq EventRow
           /\ \A e \in events' : e \in events \/ \A s \in e.saves : SaveFits(s)
  <1>1. PICK adds \in SUBSET PresalesKinds, drops \in SUBSET PresalesKinds,
             submits \in SUBSET Documents : DocumentEvent(adds, drops, submits)
    BY DEF BeginsEvent
  <1> DEFINE facts == ProjectFacts((presales \ drops) \cup adds,
                                   RowsOf(SubmittedAmong(Documents) \cup submits))
             refreshed == [project EXCEPT !.stage = RefreshedStage(@, facts)]
             saves == {s \in {[row |-> refreshed, called |-> DerivedRank(facts)]} :
                           refreshed # project}
             event == [adds |-> adds, drops |-> drops, submits |-> submits,
                       saves |-> saves]
  <1>2. events' = events \cup {event}
    BY <1>1 DEF DocumentEvent
  <1>3. facts \in SUBSET Facts
    BY ClosureAssumption DEF ProjectFacts, Facts, FactRank, TypeOK
  <1>4. DerivedRank(facts) \in 1..7
    BY <1>3, DerivedRankIsHighest
  <1>5. project \in ProjectRow /\ project.stage \in ALL_STAGES
    BY DEF TypeOK, ProjectRow
  <1> HIDE DEF facts
  <1>6. \/ RefreshedStage(project.stage, facts) = project.stage
        \/ /\ Climbs(project.stage, RefreshedStage(project.stage, facts))
           /\ StageRank(RefreshedStage(project.stage, facts)) <= DerivedRank(facts)
    BY <1>3, <1>5, RefreshKeepsOrClimbs
  <1>7. RefreshedStage(project.stage, facts) \in ALL_STAGES
    <2>1. \A r \in 1..6 : MAIN_STAGE_SEQUENCE[r + 1] \in ALL_STAGES
      BY StageNames DEF Ranks, ALL_STAGES
    <2>2. QED
      BY <1>5, <1>6, <2>1 DEF Climbs
  <1>8. /\ refreshed \in ProjectRow
        /\ refreshed.stage = RefreshedStage(project.stage, facts)
        /\ refreshed.summary = project.summary
        /\ refreshed.amount = project.amount
        /\ refreshed # project => refreshed.stage # project.stage
    BY <1>5, <1>7 DEF ProjectRow
  <1> HIDE DEF refreshed
  <1>9. \A s \in saves : /\ s = [row |-> refreshed, called |-> DerivedRank(facts)]
                         /\ refreshed # project
    OBVIOUS
  <1>10. \A s \in saves : SaveFits(s)
    BY <1>6, <1>8, <1>9 DEF SaveFits
  <1>11. saves \subseteq [row : ProjectRow, called : 1..7]
    BY <1>4, <1>8, <1>9
  <1> HIDE DEF saves
  <1>12. event \in EventRow
    BY <1>11 DEF EventRow
  <1>13. event.saves = saves
    OBVIOUS
  <1>14. QED
    BY <1>2, <1>10, <1>12, <1>13 DEF TypeOK

\* What an event saves, writes and leaves is typed.
LEMMA EventEnds ==
    ASSUME TypeOK, NEW e \in events, CommitEvent(e)
    PROVE  /\ project' \in ProjectRow
           /\ presales' \subseteq PresalesKinds
           /\ docstatus' \in [Documents -> {"Draft", "Submitted", "Cancelled"}]
           /\ events' \subseteq events
           /\ overtaken' \subseteq Documents
  <1>1. e \in EventRow
    BY DEF TypeOK
  <1>2. project' \in ProjectRow
    BY <1>1 DEF CommitEvent, RefreshProjectStage, EventRow, TypeOK
  <1>3. presales' \subseteq PresalesKinds
    BY <1>1 DEF CommitEvent, WriteDocument, EventRow, TypeOK
  <1>4. docstatus' \in [Documents -> {"Draft", "Submitted", "Cancelled"}]
    BY DEF CommitEvent, WriteDocument, TypeOK
  <1>5. events' \subseteq events
    BY DEF CommitEvent, RefreshProjectStage, NotOutdated
  <1>6. overtaken' \subseteq Documents
    BY <1>1 DEF CommitEvent, EventRow, TypeOK
  <1>7. QED
    BY <1>2, <1>3, <1>4, <1>5, <1>6

\* A filed request is a row of the request table.
LEMMA InsertTyped ==
    ASSUME TypeOK, NEW q \in Requests, NEW u \in Users, InsertRequest(q, u)
    PROVE  requests' \in [Requests -> RequestRow]
  <1>1. ClosureSnapshot \in SnapshotRow
    BY SnapshotTyped
  <1>2. [ status |-> "Pending", requester |-> u, approver |-> NoUser,
          snapshot |-> ClosureSnapshot ] \in RequestRow
    BY <1>1 DEF RequestRow
  <1>3. QED
    BY <1>2 DEF InsertRequest, TypeOK

\* The first save of a project gives every variable its type.
LEMMA TypeInit == Init => TypeOK
  <1> SUFFICES ASSUME Init PROVE TypeOK
    OBVIOUS
  <1>1. MAIN_STAGE_SEQUENCE[1] \in ALL_STAGES
    BY StageNames DEF Ranks, ALL_STAGES
  <1>2. "Low" \in RiskLevels
    BY DEF RiskLevels
  <1>3. project \in ProjectRow
    BY <1>1, <1>2 DEF Init, ProjectRow
  <1>4. requests \in [Requests -> RequestRow]
    BY DEF Init, RequestRow
  <1>5. QED
    BY <1>3, <1>4 DEF Init, TypeOK

\* Every step of every actor keeps the types.
LEMMA TypeNext == TypeOK /\ [Next]_vars => TypeOK'
  <1> SUFFICES ASSUME TypeOK, [Next]_vars PROVE TypeOK'
    OBVIOUS
  <1>1. CASE BeginsEvent
    BY <1>1, EventBegins, BeginsAlone DEF TypeOK, evidenceVars, riskVars, closingVars
  <1>2. CASE ActsBeside
    BY <1>2 DEF ActsBeside, RecordFeedback, CancelQuotation, ConfirmReceipt,
                WriteOffInvoice, TypeOK, riskVars, closingVars
  <1>3. ASSUME NEW e \in events, CommitEvent(e) PROVE TypeOK'
    BY <1>3, EventEnds DEF CommitEvent, TypeOK, riskVars
  <1>4. ASSUME NEW e \in events, AbortEvent(e) PROVE TypeOK'
    BY <1>4 DEF AbortEvent, TypeOK, evidenceVars, riskVars, closingVars
  <1>6. CASE RiskStep
    <2>1. ASSUME NEW found \in SUBSET Risks, EvaluateRisks(found) PROVE TypeOK'
      BY <2>1 DEF EvaluateRisks, TypeOK, evidenceVars, closingVars
    <2>2. CASE UpsertRisks
      <3>1. project' \in ProjectRow
        BY <2>2 DEF UpsertRisks, RiskLevels, TypeOK, ProjectRow
      <3>2. QED
        BY <2>2, <3>1 DEF UpsertRisks, TypeOK, evidenceVars, closingVars
    <2>3. CASE AbandonScan
      BY <2>3 DEF AbandonScan, TypeOK, evidenceVars, closingVars
    <2>4. ASSUME NEW r \in Risks, CloseRisk(r) PROVE TypeOK'
      BY <2>4 DEF CloseRisk, TypeOK, evidenceVars, closingVars
    <2>5. ASSUME NEW e \in Exceptions, RaiseException(e) \/ ResolveException(e)
          PROVE  TypeOK'
      BY <2>5 DEF RaiseException, ResolveException, TypeOK, evidenceVars, closingVars
    <2>6. QED
      BY <1>6, <2>1, <2>2, <2>3, <2>4, <2>5 DEF RiskStep
  <1>7. CASE RequestStep
    <2>1. requests' \in [Requests -> RequestRow]
      <3>1. ASSUME NEW q \in Requests, NEW u \in Users,
                   CreateClosureRequest(q, u) \/ CreateRequestDirectly(q, u)
            PROVE  requests' \in [Requests -> RequestRow]
        BY <3>1, InsertTyped DEF CreateClosureRequest, CreateRequestDirectly
      <3>2. ASSUME NEW q \in Requests, NEW u \in Users,
                   NEW verdict \in {"Approved", "Returned", "Rejected"},
                   Decide(q, u, verdict)
            PROVE  requests' \in [Requests -> RequestRow]
        <4>1. requests[q] \in RequestRow \ {Unused}
          BY <3>2 DEF Decide, TypeOK, Unused
        <4>2. [requests[q] EXCEPT !.status = verdict, !.approver = u] \in RequestRow
          BY <4>1 DEF RequestRow
        <4>3. requests' = [requests EXCEPT
                  ![q] = [requests[q] EXCEPT !.status = verdict, !.approver = u]]
          BY <3>2 DEF Decide, TypeOK
        <4>4. QED
          BY <4>2, <4>3 DEF TypeOK
      <3>3. QED
        BY <1>7, <3>1, <3>2 DEF RequestStep
    <2>2. UNCHANGED <<project, evidenceVars, riskVars, events, closingVars>>
      BY <1>7 DEF RequestStep, CreateClosureRequest, CreateRequestDirectly, Decide
    <2>3. QED
      BY <2>1, <2>2 DEF TypeOK, evidenceVars, riskVars, closingVars
  <1>8. CASE ClosingStep
    <2>1. ASSUME NEW summary \in Summaries, BeginClose(summary) PROVE TypeOK'
      BY <2>1 DEF BeginClose, TypeOK, ProjectRow, evidenceVars, riskVars
    <2>2. CASE CommitClose
      <3>1. CLOSED_STAGE \in ALL_STAGES
        BY StageNames DEF ALL_STAGES, CLOSED_STAGE
      <3>2. PICK c \in closing :
                /\ project' = [project EXCEPT !.stage = CLOSED_STAGE, !.summary = c.summary,
                                              !.overallRisk = c.risk]
                /\ closedWith' = c.summary
        BY <2>2 DEF CommitClose
      <3>3. c.summary \in Summaries /\ c.risk \in RiskLevels
        BY DEF TypeOK
      <3>4. project' \in ProjectRow
        BY <3>1, <3>2, <3>3 DEF TypeOK, ProjectRow
      <3>5. QED
        BY <2>2, <3>2, <3>3, <3>4
        DEF CommitClose, NotOutdated, TypeOK, evidenceVars, riskVars
    <2>3. CASE AbortClose
      BY <2>3 DEF AbortClose, TypeOK, evidenceVars, riskVars
    <2>4. ASSUME NEW d \in Documents, BeginCancel(d) PROVE TypeOK'
      BY <2>4 DEF BeginCancel, TypeOK, evidenceVars, riskVars
    <2>5. ASSUME NEW d \in Documents, CommitCancel(d) PROVE TypeOK'
      BY <2>5 DEF CommitCancel, TypeOK, riskVars
    <2>6. ASSUME NEW d \in Documents, AbortCancel(d) PROVE TypeOK'
      BY <2>6 DEF AbortCancel, TypeOK, evidenceVars, riskVars
    <2>7. QED
      BY <1>8, <2>1, <2>2, <2>3, <2>4, <2>5, <2>6 DEF ClosingStep
  <1>9. CASE SaveStep
    <2>1. PICK stage \in MAIN_STAGES \cup SideExits, amount \in Amounts,
               summary \in FormSummaries \cup {project.summary} :
                   SaveProject(stage, amount, summary)
      BY <1>9 DEF SaveStep
    <2>2. stage \in ALL_STAGES /\ summary \in Summaries \cup {NoSummary}
      BY ClosureAssumption DEF ALL_STAGES, TypeOK, ProjectRow
    <2>3. project' \in ProjectRow
      BY <2>1, <2>2 DEF SaveProject, TypeOK, ProjectRow
    <2>4. QED
      BY <2>1, <2>3 DEF SaveProject, NotOutdated, TypeOK, evidenceVars, riskVars
  <1>10. CASE UNCHANGED vars
    BY <1>10 DEF vars, TypeOK
  <1>11. QED
    BY <1>1, <1>2, <1>3, <1>4, <1>6, <1>7, <1>8, <1>9, <1>10, DocumentCases
    DEF Next, EndsEvent

\* Every variable has its type in every reachable state.
THEOREM TypeCorrect == Spec => []TypeOK
  BY TypeInit, TypeNext, PTL DEF Spec

-----------------------------------------------------------------------------
(* What one step leaves alone.                                             *)

\* A step that files or decides no request leaves every request as it was.
LEMMA RequestsKept ==
    ASSUME [Next]_vars, ~ RequestStep
    PROVE  UNCHANGED requests
  <1>1. CASE PresalesStep \/ DocumentStep
    <2>1. BeginsEvent \/ ActsBeside \/ EndsEvent
      BY <1>1, DocumentCases
    <2>2. QED
      BY <2>1, BeginsAlone DEF ActsBeside, RecordFeedback, CancelQuotation, ConfirmReceipt,
                               WriteOffInvoice, EndsEvent, CommitEvent, AbortEvent
  <1>3. CASE RiskStep
    BY <1>3 DEF RiskStep, EvaluateRisks, UpsertRisks, AbandonScan, CloseRisk, RaiseException,
                ResolveException
  <1>4. CASE ClosingStep
    BY <1>4 DEF ClosingStep, BeginClose, CommitClose, AbortClose, BeginCancel,
                CommitCancel, AbortCancel
  <1>5. CASE SaveStep
    BY <1>5 DEF SaveStep, SaveProject
  <1>6. CASE UNCHANGED vars
    BY <1>6 DEF vars
  <1>7. QED
    BY <1>1, <1>3, <1>4, <1>5, <1>6 DEF Next

\* An approved request is final: only pending ones are decided and only unused
\* ones are filed.
LEMMA ApprovedIsFinal ==
    ASSUME TypeOK, [Next]_vars, NEW q \in Requests, requests[q].status = "Approved"
    PROVE  requests'[q] = requests[q]
  <1>1. CASE RequestStep
    <2>1. PICK p \in Requests, u \in Users :
              \/ CreateClosureRequest(p, u)
              \/ CreateRequestDirectly(p, u)
              \/ \E verdict \in {"Approved", "Returned", "Rejected"} : Decide(p, u, verdict)
      BY <1>1 DEF RequestStep
    <2>2. p # q
      BY <2>1 DEF CreateClosureRequest, CreateRequestDirectly, InsertRequest, Decide, Unused
    <2>3. \E row : requests' = [requests EXCEPT ![p] = row]
      BY <2>1 DEF CreateClosureRequest, CreateRequestDirectly, InsertRequest, Decide
    <2>4. QED
      BY <2>2, <2>3 DEF TypeOK
  <1>2. CASE ~ RequestStep
    BY <1>2, RequestsKept
  <1>3. QED
    BY <1>1, <1>2

\* So an approved case without gaps remains one.
LEMMA ApprovalStands ==
    ASSUME TypeOK, [Next]_vars, NEW q \in Requests, CleanApproval(q)
    PROVE  CleanApproval(q)'
  <1>1. requests'[q] = requests[q]
    BY ApprovedIsFinal DEF CleanApproval
  <1>2. QED
    BY <1>1 DEF CleanApproval

\* Closed and the side stages are not what a climb leads to, and none of them
\* is the stage a closing starts from.
LEMMA StagesApart ==
    /\ \A s, t : Climbs(s, t) => t # CLOSED_STAGE /\ t \in MAIN_STAGES
    /\ CLOSED_STAGE \notin SIDE_STAGES
    /\ CLOSED_STAGE # CLOSURE_READY_STAGE
  <1>1. \A r \in 1..6 : /\ MAIN_STAGE_SEQUENCE[r + 1] # MAIN_STAGE_SEQUENCE[8]
                        /\ MAIN_STAGE_SEQUENCE[r + 1] \in MAIN_STAGES
    BY RankOfStage, StageNames DEF Ranks
  <1>2. MAIN_STAGE_SEQUENCE[8] = CLOSED_STAGE
    BY DEF MAIN_STAGE_SEQUENCE, CLOSED_STAGE
  <1>3. QED
    BY <1>1, <1>2 DEF Climbs, SIDE_STAGES, CLOSED_STAGE, CLOSURE_READY_STAGE

\* How a commit of an event moves the row: by a climb, which is what it has yet to
\* save, and only while nobody is closing the project.
LEMMA CommitMoves ==
    ASSUME EventsSound, NEW e \in events, CommitEvent(e)
    PROVE  \/ UNCHANGED project
           \/ /\ RowUnlocked
              /\ project'.summary = project.summary
              /\ project'.amount = project.amount
              /\ Climbs(project.stage, project'.stage)
              /\ \E s \in e.saves : StageRank(project'.stage) <= s.called
  <1>1. CASE UNCHANGED project
    BY <1>1
  <1>2. CASE RowUnlocked /\ \E s \in e.saves : project' = s.row
    BY <1>2 DEF EventsSound, SaveFits
  <1>3. QED
    BY <1>1, <1>2 DEF CommitEvent, RefreshProjectStage

\* Who moves the stage, the amount and the summary: a climb or an exit while nobody
\* closes the project, or the commit of close_project.  The summary of a closed
\* project is nobody's to change.
LEMMA ProjectMoves ==
    ASSUME TypeOK, EventsSound, [Next]_vars, ~ CommitClose
    PROVE  /\ \/ project'.stage = project.stage
              \/ RowUnlocked /\ Climbs(project.stage, project'.stage)
              \/ /\ RowUnlocked
                 /\ project.stage \in MAIN_STAGES
                 /\ project'.stage \in SIDE_STAGES
           /\ RowUnlocked \/ project'.amount = project.amount
           /\ project.stage = CLOSED_STAGE => project'.summary = project.summary
  <1>1. CASE PresalesStep \/ DocumentStep
    <2>1. BeginsEvent \/ ActsBeside \/ EndsEvent
      BY <1>1, DocumentCases
    <2>2. CASE BeginsEvent
      BY <2>2, BeginsAlone
    <2>3. CASE ActsBeside
      BY <2>3 DEF ActsBeside, RecordFeedback, CancelQuotation, ConfirmReceipt,
                  WriteOffInvoice
    <2>4. ASSUME NEW e \in events, CommitEvent(e)
          PROVE  UNCHANGED project \/ /\ RowUnlocked
                                      /\ project'.summary = project.summary
                                      /\ Climbs(project.stage, project'.stage)
      BY <2>4, CommitMoves
    <2>5. ASSUME NEW e \in events, AbortEvent(e)
          PROVE  UNCHANGED project
      BY <2>5 DEF AbortEvent
    <2>6. CASE EndsEvent
      BY <2>4, <2>5, <2>6 DEF EndsEvent
    <2>7. QED
      BY <2>1, <2>2, <2>3, <2>6
  <1>3. CASE RiskStep
    <2>1. \/ UNCHANGED project
          \/ \E level : project' = [project EXCEPT !.overallRisk = level]
      BY <1>3 DEF RiskStep, EvaluateRisks, UpsertRisks, AbandonScan, CloseRisk, RaiseException,
                  ResolveException
    <2>2. QED
      BY <2>1 DEF TypeOK, ProjectRow
  <1>4. CASE RequestStep \/ ClosingStep \/ UNCHANGED vars
    <2>1. UNCHANGED project
      BY <1>4 DEF RequestStep, CreateClosureRequest, CreateRequestDirectly, Decide,
                  ClosingStep, BeginClose, AbortClose, BeginCancel, CommitCancel,
                  AbortCancel, vars
    <2>2. QED
      BY <2>1
  <1>5. CASE SaveStep
    <2>1. PICK stage \in MAIN_STAGES \cup SideExits, amount \in Amounts,
               summary \in FormSummaries \cup {project.summary} :
                   SaveProject(stage, amount, summary)
      BY <1>5 DEF SaveStep
    <2>2. stage \in ALL_STAGES /\ project.stage \in ALL_STAGES
      BY ClosureAssumption DEF ALL_STAGES, TypeOK, ProjectRow
    <2>3. project'.stage = stage /\ project'.summary = summary
      BY <2>1 DEF SaveProject, TypeOK, ProjectRow
    <2>4. \/ project.stage = stage
          \/ project.stage \in MAIN_STAGES /\ stage \in SIDE_STAGES
          \/ Climbs(project.stage, stage)
      BY <2>1, <2>2, SaveKeepsExitsOrClimbs DEF SaveProject
    <2>5. QED
      BY <2>1, <2>3, <2>4 DEF SaveProject
  <1>6. QED
    BY <1>1, <1>3, <1>4, <1>5 DEF Next

\* What events have yet to save fits the row as it is: whoever saves the row takes
\* them out, and a scan writes no more than the risk level.
LEMMA EventsSoundNext ==
    ASSUME TypeOK, EventsSound, [Next]_vars
    PROVE  EventsSound'
  <1>1. ASSUME \A e \in events' : e \in events \/ e.saves = {},
               \/ UNCHANGED project
               \/ \E level : project' = [project EXCEPT !.overallRisk = level]
               \/ \A e \in events' : e.saves = {}
        PROVE  EventsSound'
    <2>1. CASE \A e \in events' : e.saves = {}
      BY <2>1 DEF EventsSound
    <2>2. CASE \/ UNCHANGED project
               \/ \E level : project' = [project EXCEPT !.overallRisk = level]
      <3>1. /\ project'.stage = project.stage
            /\ project'.summary = project.summary
            /\ project'.amount = project.amount
        BY <2>2 DEF TypeOK, ProjectRow
      <3>2. ASSUME NEW e \in events', NEW s \in e.saves
            PROVE  SaveFits(s)'
        <4>1. SaveFits(s)
          BY <1>1 DEF EventsSound
        <4>2. QED
          BY <3>1, <4>1 DEF SaveFits
      <3>3. QED
        BY <3>2 DEF EventsSound
    <2>3. QED
      BY <1>1, <2>1, <2>2
  <1>2. CASE BeginsEvent
    <2>1. UNCHANGED project
      BY <1>2, BeginsAlone
    <2>2. ASSUME NEW e \in events', NEW s \in e.saves
          PROVE  SaveFits(s)'
      <3>1. SaveFits(s)
        BY <1>2, EventBegins DEF EventsSound
      <3>2. QED
        BY <2>1, <3>1 DEF SaveFits
    <2>3. QED
      BY <2>2 DEF EventsSound
  <1>3. CASE ActsBeside
    BY <1>1, <1>3 DEF ActsBeside, RecordFeedback, CancelQuotation, ConfirmReceipt,
                      WriteOffInvoice
  <1>4. CASE EndsEvent
    BY <1>1, <1>4 DEF EndsEvent, CommitEvent, AbortEvent, RefreshProjectStage, NotOutdated
  <1>5. CASE RiskStep
    BY <1>1, <1>5 DEF RiskStep, EvaluateRisks, UpsertRisks, AbandonScan, CloseRisk,
                      RaiseException, ResolveException
  <1>6. CASE RequestStep
    BY <1>1, <1>6 DEF RequestStep, CreateClosureRequest, CreateRequestDirectly, Decide
  <1>7. CASE ClosingStep
    BY <1>1, <1>7 DEF ClosingStep, BeginClose, CommitClose, AbortClose, BeginCancel,
                      CommitCancel, AbortCancel, NotOutdated
  <1>8. CASE SaveStep
    BY <1>1, <1>8 DEF SaveStep, SaveProject, NotOutdated
  <1>9. CASE UNCHANGED vars
    BY <1>1, <1>9 DEF vars
  <1>10. QED
    BY <1>2, <1>3, <1>4, <1>5, <1>6, <1>7, <1>8, <1>9, DocumentCases DEF Next

\* Who starts, ends and remembers a closing.
LEMMA ClosingMoves ==
    ASSUME [Next]_vars
    PROVE  /\ \/ UNCHANGED closing
              \/ closing' = {}
              \/ \E summary \in Summaries : BeginClose(summary)
           /\ UNCHANGED closedWith \/ CommitClose
  <1>1. CASE ClosingStep
    BY <1>1 DEF ClosingStep, BeginClose, CommitClose, AbortClose, BeginCancel,
                CommitCancel, AbortCancel
  <1>2. CASE ~ ClosingStep
    <2>1. UNCHANGED <<closing, closedWith>>
      <3>1. CASE PresalesStep \/ DocumentStep
        BY <3>1, DocumentCases, BeginsAlone
        DEF ActsBeside, RecordFeedback, CancelQuotation, ConfirmReceipt, WriteOffInvoice,
            EndsEvent, CommitEvent, AbortEvent, closingVars
      <3>2. CASE RiskStep
        BY <3>2 DEF RiskStep, EvaluateRisks, UpsertRisks, AbandonScan, CloseRisk,
                    RaiseException, ResolveException, closingVars
      <3>3. CASE RequestStep
        BY <3>3 DEF RequestStep, CreateClosureRequest, CreateRequestDirectly,
                    Decide, closingVars
      <3>4. CASE SaveStep
        BY <3>4 DEF SaveStep, SaveProject
      <3>5. CASE UNCHANGED vars
        BY <3>5 DEF vars
      <3>6. QED
        BY <1>2, <3>1, <3>2, <3>3, <3>4, <3>5 DEF Next
    <2>2. QED
      BY <2>1
  <1>3. QED
    BY <1>1, <1>2

\* Documents: who submits and who cancels one.
LEMMA DocumentMoves ==
    ASSUME [Next]_vars
    PROVE  \/ UNCHANGED docstatus
           \/ \E e \in events : CommitEvent(e)
           \/ \E d \in Documents : CommitCancel(d)
  <1>1. CASE PresalesStep \/ DocumentStep
    <2>1. BeginsEvent \/ ActsBeside \/ EndsEvent
      BY <1>1, DocumentCases
    <2>2. QED
      BY <2>1, BeginsAlone DEF ActsBeside, RecordFeedback, CancelQuotation, ConfirmReceipt,
                               WriteOffInvoice, EndsEvent, AbortEvent, evidenceVars
  <1>2. CASE RiskStep
    BY <1>2 DEF RiskStep, EvaluateRisks, UpsertRisks, AbandonScan, CloseRisk,
                RaiseException, ResolveException, evidenceVars
  <1>3. CASE RequestStep
    BY <1>3 DEF RequestStep, CreateClosureRequest, CreateRequestDirectly, Decide,
                evidenceVars
  <1>4. CASE ClosingStep
    BY <1>4 DEF ClosingStep, BeginClose, CommitClose, AbortClose, BeginCancel,
                AbortCancel, evidenceVars
  <1>5. CASE SaveStep
    BY <1>5 DEF SaveStep, SaveProject, evidenceVars
  <1>6. CASE UNCHANGED vars
    BY <1>6 DEF vars
  <1>7. QED
    BY <1>1, <1>2, <1>3, <1>4, <1>5, <1>6 DEF Next

\* A submitted document stays so unless its cancellation was under way.
LEMMA SubmittedStands ==
    ASSUME TypeOK, [Next]_vars, NEW d \in Documents, docstatus[d] = "Submitted"
    PROVE  docstatus'[d] = "Submitted" \/ d \in cancelling
  <1>1. CASE \E e \in events : CommitEvent(e)
    BY <1>1 DEF CommitEvent, WriteDocument, TypeOK
  <1>2. CASE \E b \in Documents : CommitCancel(b)
    BY <1>2 DEF CommitCancel, TypeOK
  <1>3. QED
    BY <1>1, <1>2, DocumentMoves

\* A document that becomes submitted was a draft whose source is submitted, and is
\* counted as submitted beside a closing that is under way.
LEMMA SubmissionsSeen ==
    ASSUME TypeOK, [Next]_vars, NEW d \in Documents,
           docstatus[d] # "Submitted", docstatus'[d] = "Submitted"
    PROVE  /\ CanSubmit(d)
           /\ UNCHANGED closing
           /\ closing # {} => d \in overtaken'
  <1>1. ~ \E b \in Documents : CommitCancel(b)
    BY DEF CommitCancel, TypeOK
  <1>2. PICK e \in events : CommitEvent(e)
    BY <1>1, DocumentMoves
  <1>3. d \in e.submits
    BY <1>2 DEF CommitEvent, WriteDocument, TypeOK
  <1>4. QED
    BY <1>2, <1>3 DEF CommitEvent, WriteDocument

\* The invoice of a submitted payment stays submitted or is cancelled.
LEMMA PaymentsFollowNext ==
    ASSUME TypeOK, PaymentsFollow, [Next]_vars
    PROVE  PaymentsFollow'
  <1> SUFFICES ASSUME NEW p \in Payments, docstatus'[p] = "Submitted"
               PROVE  docstatus'[InvoiceOf[p]] # "Draft"
    BY DEF PaymentsFollow
  <1>1. p \in Documents /\ InvoiceOf[p] \in Documents
    BY ClosureAssumption DEF Documents
  <1>2. docstatus[InvoiceOf[p]] # "Draft"
    <2>1. CASE docstatus[p] = "Submitted"
      BY <2>1 DEF PaymentsFollow
    <2>2. CASE docstatus[p] # "Submitted"
      BY <1>1, <2>2, SubmissionsSeen DEF CanSubmit
    <2>3. QED
      BY <2>1, <2>2
  <1>3. CASE \E e \in events : CommitEvent(e)
    BY <1>1, <1>2, <1>3 DEF CommitEvent, WriteDocument, TypeOK
  <1>4. CASE \E b \in Documents : CommitCancel(b)
    BY <1>1, <1>2, <1>4 DEF CommitCancel, TypeOK
  <1>5. QED
    BY <1>2, <1>3, <1>4, DocumentMoves

\* Cancellations: one that starts while the project is being closed, or is
\* closed, is among the overtaken ones, which are forgotten only when neither
\* holds any more.
LEMMA CancellationsOvertaken ==
    ASSUME TypeOK, [Next]_vars, ClosingFromReady, cancelling \subseteq overtaken,
           ~ \E summary \in Summaries : BeginClose(summary),
           closing # {} \/ project.stage = CLOSED_STAGE,
           closing' # {} \/ project'.stage = CLOSED_STAGE
    PROVE  overtaken \subseteq overtaken' /\ cancelling' \subseteq overtaken'
  <1>1. CASE ClosingStep
    <2>1. ~ AbortClose
      BY StagesApart DEF AbortClose, ClosingFromReady
    <2>2. CASE CommitClose
      BY <2>2 DEF CommitClose
    <2>3. ASSUME NEW d \in Documents, BeginCancel(d)
          PROVE  overtaken \subseteq overtaken' /\ cancelling' \subseteq overtaken'
      BY <2>3 DEF BeginCancel
    <2>4. ASSUME NEW d \in Documents, CommitCancel(d) \/ AbortCancel(d)
          PROVE  overtaken \subseteq overtaken' /\ cancelling' \subseteq overtaken'
      BY <2>4 DEF CommitCancel, AbortCancel
    <2>5. QED
      BY <1>1, <2>1, <2>2, <2>3, <2>4 DEF ClosingStep
  <1>2. CASE SaveStep
    <2>1. PICK stage \in MAIN_STAGES \cup SideExits, amount \in Amounts,
               summary \in FormSummaries \cup {project.summary} :
                   SaveProject(stage, amount, summary)
      BY <1>2 DEF SaveStep
    <2>2. closing' = {} /\ project'.stage = stage /\ UNCHANGED cancelling
      BY <2>1 DEF SaveProject, RowUnlocked, TypeOK, ProjectRow
    <2>3. UNCHANGED overtaken
      BY <2>1, <2>2 DEF SaveProject
    <2>4. QED
      BY <2>2, <2>3
  <1>3. CASE ~ ClosingStep /\ ~ SaveStep
    <2>1. UNCHANGED cancelling /\ overtaken \subseteq overtaken'
      <3>1. CASE PresalesStep \/ DocumentStep
        BY <3>1, DocumentCases, BeginsAlone
        DEF ActsBeside, RecordFeedback, CancelQuotation, ConfirmReceipt, WriteOffInvoice,
            EndsEvent, CommitEvent, AbortEvent, closingVars
      <3>2. CASE RiskStep
        BY <3>2 DEF RiskStep, EvaluateRisks, UpsertRisks, AbandonScan, CloseRisk,
                    RaiseException, ResolveException, closingVars
      <3>3. CASE RequestStep
        BY <3>3 DEF RequestStep, CreateClosureRequest, CreateRequestDirectly,
                    Decide, closingVars
      <3>4. CASE UNCHANGED vars
        BY <3>4 DEF vars
      <3>5. QED
        BY <1>3, <3>1, <3>2, <3>3, <3>4 DEF Next
    <2>2. QED
      BY <2>1
  <1>4. QED
    BY <1>1, <1>2, <1>3

\* The documents of a filed case are documents of the project.
LEMMA CaseDocuments ==
    ASSUME TypeOK, NEW q \in Requests, requests[q].status # "Unused"
    PROVE  DocumentsIn(requests[q].snapshot.rows) \subseteq Documents
  <1>1. requests[q] \in RequestRow \ {Unused}
    BY DEF TypeOK, Unused
  <1>2. requests[q].snapshot.rows \in EvidenceRow
    BY <1>1 DEF RequestRow, SnapshotRow
  <1>3. QED
    BY <1>2 DEF EvidenceRow, DocumentsIn, Documents

-----------------------------------------------------------------------------
(* The inductive invariant.                                                *)

\* A new project is not closed and nothing is approved.
LEMMA ClosureInit == Init => ClosureInv
  <1> SUFFICES ASSUME Init PROVE ClosureInv
    OBVIOUS
  <1>1. project.stage # CLOSED_STAGE
    <2>1. MAIN_STAGE_SEQUENCE[1] # MAIN_STAGE_SEQUENCE[8]
      BY RankOfStage DEF Ranks
    <2>2. QED
      BY <2>1 DEF Init, MAIN_STAGE_SEQUENCE, CLOSED_STAGE
  <1>2. \A q \in Requests : requests[q].status # "Approved"
    BY DEF Init, Unused
  <1>3. QED
    BY <1>1, <1>2, TypeInit
    DEF Init, ClosureInv, ApprovalsSound, CaseStands, ClosingFromReady, ClosedSummaryKept,
        PaymentsFollow, ClosingOnCase, EventsSound, Documents

\* Only Decide approves, and it asks for the authority and a second person.
LEMMA ApprovalsSoundNext ==
    ASSUME TypeOK, ApprovalsSound, [Next]_vars
    PROVE  ApprovalsSound'
  <1>1. CASE RequestStep
    <2>1. PICK p \in Requests, u \in Users :
              \/ CreateClosureRequest(p, u)
              \/ CreateRequestDirectly(p, u)
              \/ \E verdict \in {"Approved", "Returned", "Rejected"} : Decide(p, u, verdict)
      BY <1>1 DEF RequestStep
    <2>2. CASE CreateClosureRequest(p, u) \/ CreateRequestDirectly(p, u)
      <3>1. InsertRequest(p, u)
        BY <2>2 DEF CreateClosureRequest, CreateRequestDirectly
      <3>2. \A q \in Requests : requests'[q].status = "Approved" => requests'[q] = requests[q]
        BY <3>1 DEF InsertRequest, TypeOK
      <3>3. QED
        BY <3>2 DEF ApprovalsSound
    <2>3. ASSUME NEW verdict \in {"Approved", "Returned", "Rejected"},
                 Decide(p, u, verdict)
          PROVE  ApprovalsSound'
      <3>1. \A q \in Requests : q # p => requests'[q] = requests[q]
        BY <2>3 DEF Decide, TypeOK
      <3>2. requests[p] \in RequestRow \ {Unused}
        BY <2>3 DEF Decide, TypeOK, Unused
      <3>3. /\ requests'[p].approver = u
            /\ requests'[p].requester = requests[p].requester
            /\ requests'[p].snapshot = requests[p].snapshot
        BY <2>3, <3>2 DEF Decide, TypeOK, RequestRow
      <3>4. /\ u # requests[p].requester
            /\ <<requests[p].snapshot.amount, requests[p].snapshot.risk>> \in Authority[u]
        BY <2>3 DEF Decide, HasAuthority
      <3>5. QED
        BY <3>1, <3>3, <3>4 DEF ApprovalsSound
    <2>4. QED
      BY <2>1, <2>2, <2>3
  <1>2. CASE ~ RequestStep
    BY <1>2, RequestsKept DEF ApprovalsSound
  <1>3. QED
    BY <1>1, <1>2

\* The checks of close_project find an approved, current, gap-free case.
LEMMA CloseFindsCase ==
    ASSUME TypeOK, ApprovalsSound, NEW summary \in Summaries, BeginClose(summary)
    PROVE  /\ project.stage = CLOSURE_READY_STAGE
           /\ \E q \in Requests :
                 /\ CleanApproval(q)
                 /\ requests[q].snapshot.amount = project.amount
                 /\ requests[q].snapshot.risk = project.overallRisk
                 /\ DocumentsIn(requests[q].snapshot.rows) = DocumentsIn(EvidenceRows)
                 /\ \A d \in DocumentsIn(requests[q].snapshot.rows) :
                        docstatus[d] = "Submitted"
  <1>1. project.stage = CLOSURE_READY_STAGE
    <2>1. ~ HasGap("PROJECT_STAGE_NOT_READY", ClosureSnapshot)
      BY DEF BeginClose, ClosureGaps, GapCodes
    <2>2. ClosureSnapshot.stage \in {CLOSURE_READY_STAGE, CLOSED_STAGE}
      BY <2>1 DEF HasGap
    <2>3. QED
      BY <2>2 DEF ClosureSnapshot, BeginClose
  <1>2. PICK q \in Requests : /\ requests[q].status = "Approved"
                              /\ requests[q].snapshot = ClosureSnapshot
    BY DEF BeginClose, HasApprovedClosureRequest
  <1>3. CleanApproval(q)
    BY <1>2 DEF BeginClose, ApprovalsSound, CleanApproval
  <1>4. /\ ClosureSnapshot.amount = project.amount
        /\ ClosureSnapshot.risk = project.overallRisk
        /\ ClosureSnapshot.rows = EvidenceRows
    BY DEF ClosureSnapshot
  <1>5. \A d \in DocumentsIn(EvidenceRows) : docstatus[d] = "Submitted"
    BY DEF EvidenceRows, RowsOf, DocumentsIn, SubmittedAmong
  <1>6. QED
    BY <1>1, <1>2, <1>3, <1>4, <1>5

\* The case found stands until the project is neither closing nor closed.
LEMMA CaseStandsNext ==
    ASSUME TypeOK, ApprovalsSound, EventsSound, CaseStands, ClosingFromReady, [Next]_vars
    PROVE  CaseStands'
  <1> SUFFICES ASSUME closing' # {} \/ project'.stage = CLOSED_STAGE
               PROVE  /\ cancelling' \subseteq overtaken'
                      /\ \E q \in Requests : CleanApproval(q)' /\ EvidenceStands(q)'
    BY DEF CaseStands
  <1>1. ASSUME NEW summary \in Summaries, BeginClose(summary)
        PROVE  /\ cancelling' \subseteq overtaken'
               /\ \E q \in Requests : CleanApproval(q)' /\ EvidenceStands(q)'
    <2>1. cancelling' \subseteq overtaken'
      BY <1>1 DEF BeginClose
    <2>2. PICK q \in Requests :
              /\ CleanApproval(q)
              /\ \A d \in DocumentsIn(requests[q].snapshot.rows) : docstatus[d] = "Submitted"
      BY <1>1, CloseFindsCase
    <2>3. UNCHANGED <<requests, docstatus>>
      BY <1>1 DEF BeginClose, evidenceVars
    <2>4. CleanApproval(q)'
      BY <2>2, ApprovalStands
    <2>5. EvidenceStands(q)'
      BY <2>2, <2>3 DEF EvidenceStands
    <2>6. QED
      BY <2>1, <2>4, <2>5
  <1>2. CASE ~ \E summary \in Summaries : BeginClose(summary)
    <2>1. closing # {} \/ project.stage = CLOSED_STAGE
      BY <1>2, ClosingMoves, ProjectMoves, StagesApart DEF CommitClose
    <2>2. cancelling \subseteq overtaken
      BY <2>1 DEF CaseStands
    <2>3. overtaken \subseteq overtaken' /\ cancelling' \subseteq overtaken'
      BY <1>2, <2>1, <2>2, CancellationsOvertaken
    <2>4. PICK q \in Requests : CleanApproval(q) /\ EvidenceStands(q)
      BY <2>1 DEF CaseStands
    <2>5. requests'[q] = requests[q] /\ requests[q].status # "Unused"
      BY <2>4, ApprovedIsFinal DEF CleanApproval
    <2>6. \A d \in DocumentsIn(requests[q].snapshot.rows) :
              docstatus'[d] = "Submitted" \/ d \in overtaken'
      BY <2>2, <2>3, <2>4, <2>5, CaseDocuments, SubmittedStands DEF EvidenceStands
    <2>7. EvidenceStands(q)'
      BY <2>5, <2>6 DEF EvidenceStands
    <2>8. QED
      BY <2>3, <2>4, <2>7, ApprovalStands
  <1>3. QED
    BY <1>1, <1>2

\* The lock of the row keeps the stage while the project is being closed.
LEMMA ClosingFromReadyNext ==
    ASSUME TypeOK, ApprovalsSound, EventsSound, ClosingFromReady, [Next]_vars
    PROVE  ClosingFromReady'
  <1> SUFFICES ASSUME closing' # {}
               PROVE  project'.stage = CLOSURE_READY_STAGE
    BY DEF ClosingFromReady
  <1>1. ~ CommitClose
    BY DEF CommitClose
  <1>2. CASE \E summary \in Summaries : BeginClose(summary)
    BY <1>2, CloseFindsCase DEF BeginClose
  <1>3. CASE UNCHANGED closing
    BY <1>1, <1>3, ProjectMoves DEF ClosingFromReady, RowUnlocked
  <1>4. QED
    BY <1>2, <1>3, ClosingMoves

\* The summary of a closed project is set by the commit and kept by all others.
LEMMA ClosedSummaryNext ==
    ASSUME TypeOK, EventsSound, ClosedSummaryKept, [Next]_vars
    PROVE  ClosedSummaryKept'
  <1>1. CASE CommitClose
    <2>1. PICK c \in closing :
              /\ project' = [project EXCEPT !.stage = CLOSED_STAGE, !.summary = c.summary,
                                            !.overallRisk = c.risk]
              /\ closedWith' = c.summary
      BY <1>1 DEF CommitClose
    <2>2. c.summary \in Summaries
      BY DEF TypeOK
    <2>3. QED
      BY <2>1, <2>2, ClosureAssumption DEF ClosedSummaryKept, TypeOK, ProjectRow
  <1>2. CASE ~ CommitClose
    BY <1>2, ProjectMoves, StagesApart, ClosingMoves DEF ClosedSummaryKept
  <1>3. QED
    BY <1>1, <1>2

\* What has been read for a closing still is the approved case: approvals are final,
\* the row is locked, and who cancels or submits a document meanwhile is counted.
LEMMA ClosingOnCaseNext ==
    ASSUME TypeOK, ApprovalsSound, EventsSound, CaseStands, ClosingFromReady,
           PaymentsFollow, ClosingOnCase, [Next]_vars
    PROVE  ClosingOnCase'
  <1> SUFFICES ASSUME NEW c \in closing'
               PROVE  \E q \in Requests : CaseAgrees(q, c)'
    BY DEF ClosingOnCase
  <1>1. ASSUME NEW summary \in Summaries, BeginClose(summary)
        PROVE  \E q \in Requests : CaseAgrees(q, c)'
    <2>1. PICK q \in Requests :
              /\ CleanApproval(q)
              /\ requests[q].snapshot.amount = project.amount
              /\ requests[q].snapshot.risk = project.overallRisk
              /\ DocumentsIn(requests[q].snapshot.rows) = DocumentsIn(EvidenceRows)
              /\ \A d \in DocumentsIn(requests[q].snapshot.rows) : docstatus[d] = "Submitted"
      BY <1>1, CloseFindsCase
    <2>2. UNCHANGED <<project, requests, docstatus, receipts, writtenOff>>
      BY <1>1 DEF BeginClose, evidenceVars
    <2>3. c.risk = project.overallRisk
      BY <1>1 DEF BeginClose
    <2>4. CleanApproval(q)'
      BY <2>1, ApprovalStands
    <2>5. EvidenceRows' = EvidenceRows
      BY <2>2 DEF EvidenceRows, RowsOf, SubmittedAmong
    <2>6. EvidenceStands(q)' /\ EvidenceComplete(q)'
      BY <2>1, <2>2, <2>5 DEF EvidenceStands, EvidenceComplete, DocumentsIn
    <2>7. QED
      BY <2>1, <2>2, <2>3, <2>4, <2>6 DEF CaseAgrees
  <1>2. CASE ~ \E summary \in Summaries : BeginClose(summary)
    <2>1. UNCHANGED closing /\ ~ CommitClose
      BY <1>2, ClosingMoves DEF CommitClose
    <2>2. PICK q \in Requests : CaseAgrees(q, c)
      BY <2>1 DEF ClosingOnCase
    <2>3. requests'[q] = requests[q] /\ requests[q].status # "Unused"
      BY <2>2, ApprovedIsFinal DEF CaseAgrees, CleanApproval
    <2>4. project'.amount = project.amount
      BY <2>1, ProjectMoves DEF RowUnlocked
    <2>5. cancelling \subseteq overtaken /\ overtaken \subseteq overtaken'
      <3>1. cancelling \subseteq overtaken
        BY <2>1 DEF CaseStands
      <3>2. QED
        BY <1>2, <2>1, <3>1, CancellationsOvertaken
    <2>6. EvidenceStands(q)'
      <3>1. \A d \in DocumentsIn(requests[q].snapshot.rows) :
                docstatus'[d] = "Submitted" \/ d \in overtaken'
        BY <2>2, <2>3, <2>5, CaseDocuments, SubmittedStands DEF CaseAgrees, EvidenceStands
      <3>2. QED
        BY <2>3, <3>1 DEF EvidenceStands
    <2>7. EvidenceComplete(q)'
      <3>1. ASSUME NEW d \in DocumentsIn(EvidenceRows)'
            PROVE  d \in DocumentsIn(EvidenceRows) \/ d \in overtaken'
        <4>1. /\ d \in Documents
              /\ docstatus'[d] = "Submitted"
              /\ d \in Payments => docstatus'[InvoiceOf[d]] = "Submitted"
          BY DisjointAssumption
          DEF DocumentsIn, EvidenceRows, RowsOf, SubmittedAmong, Documents
        <4>2. CASE docstatus[d] # "Submitted"
          BY <2>1, <4>1, <4>2, SubmissionsSeen
        <4>3. CASE docstatus[d] = "Submitted"
          <5>1. d \in Payments => docstatus[InvoiceOf[d]] = "Submitted"
            <6>1. SUFFICES ASSUME d \in Payments, docstatus[InvoiceOf[d]] # "Submitted"
                           PROVE  FALSE
              OBVIOUS
            <6>2. InvoiceOf[d] \in Documents
              BY <6>1, ClosureAssumption DEF Documents
            <6>3. docstatus[InvoiceOf[d]] = "Draft"
              BY <4>1, <6>1, <6>2, SubmissionsSeen DEF CanSubmit
            <6>4. QED
              BY <4>3, <6>1, <6>3 DEF PaymentsFollow
          <5>2. d \in DocumentsIn(EvidenceRows)
            BY <4>1, <4>3, <5>1, ClosureAssumption
            DEF DocumentsIn, EvidenceRows, RowsOf, SubmittedAmong, Documents
          <5>3. QED
            BY <5>2
        <4>4. QED
          BY <4>2, <4>3
      <3>2. QED
        BY <2>2, <2>3, <2>5, <3>1 DEF CaseAgrees, EvidenceComplete
    <2>8. QED
      BY <2>2, <2>3, <2>4, <2>6, <2>7, ApprovalStands DEF CaseAgrees
  <1>3. QED
    BY <1>1, <1>2

\* So the invariant is inductive.
LEMMA ClosureNext == ClosureInv /\ [Next]_vars => ClosureInv'
  BY TypeNext, ApprovalsSoundNext, CaseStandsNext, ClosingFromReadyNext, ClosedSummaryNext,
     PaymentsFollowNext, ClosingOnCaseNext, EventsSoundNext
  DEF ClosureInv

\* The strengthened invariant holds in every reachable state.
THEOREM ClosureInvariant == Spec => []ClosureInv
  BY ClosureInit, ClosureNext, PTL DEF Spec

\* A closed project rests on an approved, gap-free case whose documents stand.
THEOREM ClosureSound == Spec => []ClosedOnApprovedEvidence
  <1>1. ClosureInv => ClosedOnApprovedEvidence
    BY DEF ClosureInv, CaseStands, ClosedOnApprovedEvidence
  <1>2. QED
    BY <1>1, ClosureInvariant, PTL

\* While the project is closed, its summary is the one it was closed with.
THEOREM SummarySound == Spec => []ClosedSummaryKept
  <1>1. ClosureInv => ClosedSummaryKept
    BY DEF ClosureInv
  <1>2. QED
    BY <1>1, ClosureInvariant, PTL

\* A project is closed at the amount and risk level, and on the documents, of an
\* approved case, whatever was submitted, cancelled or scanned since its checks.
THEOREM ClosesSound == Spec => ClosesAsApproved
  <1>1. ClosureInv /\ [Next]_vars =>
            [ project.stage # CLOSED_STAGE /\ project'.stage = CLOSED_STAGE
                  => \E q \in Requests :
                         /\ CleanApproval(q)
                         /\ requests[q].snapshot.amount = project'.amount
                         /\ requests[q].snapshot.risk = project'.overallRisk
                         /\ EvidenceStands(q)
                         /\ EvidenceComplete(q) ]_vars
    <2> SUFFICES ASSUME ClosureInv, [Next]_vars,
                        project.stage # CLOSED_STAGE, project'.stage = CLOSED_STAGE
                 PROVE  \E q \in Requests :
                            /\ CleanApproval(q)
                            /\ requests[q].snapshot.amount = project'.amount
                            /\ requests[q].snapshot.risk = project'.overallRisk
                            /\ EvidenceStands(q)
                            /\ EvidenceComplete(q)
      OBVIOUS
    <2>1. TypeOK /\ EventsSound /\ ClosingOnCase
      BY DEF ClosureInv
    <2>2. CommitClose
      BY <2>1, ProjectMoves, StagesApart
    <2>3. PICK c \in closing :
              project' = [project EXCEPT !.stage = CLOSED_STAGE, !.summary = c.summary,
                                         !.overallRisk = c.risk]
      BY <2>2 DEF CommitClose
    <2>4. project'.amount = project.amount /\ project'.overallRisk = c.risk
      BY <2>1, <2>3 DEF TypeOK, ProjectRow
    <2>5. QED
      BY <2>1, <2>4 DEF ClosingOnCase, CaseAgrees
  <1>2. QED
    BY <1>1, ClosureInvariant, PTL DEF Spec, ClosesAsApproved

-----------------------------------------------------------------------------
(* The refinement.                                                         *)

SignedOff == \E q \in Requests : CleanApproval(q)

\* The life cycle speaks of the same stages.
LEMMA SameStages ==
    /\ Lifecycle!MAIN_STAGE_SEQUENCE = MAIN_STAGE_SEQUENCE
    /\ Lifecycle!MAIN_STAGES = MAIN_STAGES
    /\ Lifecycle!SIDE_STAGES = SIDE_STAGES
    /\ Lifecycle!CLOSURE_READY_STAGE = CLOSURE_READY_STAGE
    /\ Lifecycle!CLOSED_STAGE = CLOSED_STAGE
  <1>1. Lifecycle!MAIN_STAGE_SEQUENCE = MAIN_STAGE_SEQUENCE
    BY DEF MAIN_STAGE_SEQUENCE, Lifecycle!MAIN_STAGE_SEQUENCE
  <1>2. Lifecycle!MAIN_STAGES = MAIN_STAGES
    BY <1>1 DEF MAIN_STAGES, Lifecycle!MAIN_STAGES, Ranks, Lifecycle!Ranks
  <1>3. QED
    BY <1>1, <1>2
    DEF SIDE_STAGES, Lifecycle!SIDE_STAGES, CLOSED_STAGE, Lifecycle!CLOSED_STAGE,
        CLOSURE_READY_STAGE, Lifecycle!CLOSURE_READY_STAGE

\* Every step of the project is a step of the life cycle or leaves its stage
\* and its sign-off alone.
LEMMA LifecycleStep ==
    ASSUME ClosureInv, [Next]_vars
    PROVE  [Lifecycle!LifecycleNext]_(Lifecycle!lifecycleVars)
  <1>1. TypeOK /\ EventsSound
    BY DEF ClosureInv
  <1>2. CASE RequestStep
    <2>1. UNCHANGED project
      BY <1>2 DEF RequestStep, CreateClosureRequest, CreateRequestDirectly, Decide
    <2>2. SignedOff => SignedOff'
      BY <1>1, ApprovalStands DEF SignedOff
    <2>3. SignedOff' = TRUE \/ SignedOff' = SignedOff
      BY <2>2 DEF SignedOff
    <2>4. QED
      BY <2>1, <2>3 DEF SignedOff, Lifecycle!LifecycleNext, Lifecycle!SignOff,
                        Lifecycle!lifecycleVars
  <1>3. CASE ~ RequestStep
    <2>1. SignedOff' = SignedOff
      BY <1>3, RequestsKept DEF SignedOff, CleanApproval
    <2>2. CASE CommitClose
      <3>1. project.stage = CLOSURE_READY_STAGE /\ SignedOff
        BY <2>2 DEF CommitClose, ClosureInv, ClosingFromReady, CaseStands, SignedOff
      <3>2. project'.stage = CLOSED_STAGE
        BY <1>1, <2>2 DEF CommitClose, TypeOK, ProjectRow
      <3>3. QED
        BY <2>1, <3>1, <3>2, SameStages DEF SignedOff, Lifecycle!LifecycleNext, Lifecycle!Close
    <2>3. CASE ~ CommitClose
      <3>1. \/ project'.stage = project.stage
            \/ Climbs(project.stage, project'.stage)
            \/ project.stage \in MAIN_STAGES /\ project'.stage \in SIDE_STAGES
        BY <1>1, <2>3, ProjectMoves
      <3>2. QED
        BY <2>1, <3>1, SameStages
        DEF SignedOff, Climbs, Lifecycle!LifecycleNext, Lifecycle!Advance,
            Lifecycle!Exit, Lifecycle!lifecycleVars
    <2>4. QED
      BY <2>2, <2>3
  <1>4. QED
    BY <1>2, <1>3

\* The project implements the abstract life cycle.
THEOREM ClosureImplementsLifecycle == Spec => ImplementsLifecycle
  <1>1. Init => Lifecycle!LifecycleInit
    <2> SUFFICES ASSUME Init PROVE Lifecycle!LifecycleInit
      OBVIOUS
    <2>1. ~ SignedOff
      BY DEF Init, SignedOff, CleanApproval, Unused
    <2>2. QED
      BY <2>1, SameStages DEF Init, SignedOff, Lifecycle!LifecycleInit
  <1>2. ClosureInv /\ [Next]_vars => [Lifecycle!LifecycleNext]_(Lifecycle!lifecycleVars)
    BY LifecycleStep
  <1>3. QED
    BY <1>1, <1>2, ClosureInvariant, PTL
    DEF Spec, ImplementsLifecycle, Lifecycle!LifecycleSpec

-----------------------------------------------------------------------------
(* The stage and the documents.                                            *)

\* The event of a document carries the stage no further than the documents called
\* for when it began, however many events, saves and scans meet.
THEOREM DocumentsSound == Spec => DocumentsNeverOvershoot
  <1>1. ClosureInv /\ [Next]_vars =>
            [ \A e \in events :
                  CommitEvent(e) /\ project'.stage # project.stage
                      => \E s \in e.saves : StageRank(project'.stage) <= s.called ]_vars
    <2> SUFFICES ASSUME ClosureInv, NEW e \in events, CommitEvent(e),
                        project'.stage # project.stage
                 PROVE  \E s \in e.saves : StageRank(project'.stage) <= s.called
      OBVIOUS
    <2>1. EventsSound
      BY DEF ClosureInv
    <2>2. QED
      BY <2>1, CommitMoves
  <1>2. QED
    BY <1>1, ClosureInvariant, PTL DEF Spec, DocumentsNeverOvershoot
=============================================================================
