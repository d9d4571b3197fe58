----------------------- MODULE SalesConversionProofs ------------------------
(***************************************************************************)
(* What SalesConversion guarantees for any number of users, contents,      *)
(* requests, calls and orders, and any rules.                              *)
(*                                                                         *)
(* The properties are not inductive: the commit of a submission relies on  *)
(* an approval read earlier, an insert of an order on a quotation read     *)
(* earlier.  Both stay good because an approval is final and a quotation   *)
(* never returns to the draft.                                             *)
(***************************************************************************)
EXTENDS SalesConversion, TLAPS

\* Every approval is by a second person whose rules cover what was filed.
ApprovalsSound ==
    \A r \in Filed :
        requests[r].status = "Approved" =>
            /\ requests[r].approver # requests[r].requester
            /\ Covers(requests[r].approver, requests[r].snapshot)

\* A submission under way has passed its checks.
SubmittingSound ==
    submitting # NoSubmission =>
        /\ quotation.docstatus = "Draft"
        /\ submitting.snapshot.content \notin Unlinked => WithinAuthority(submitting)

\* A conversion under way has seen a submitted quotation of a project, and if
\* nothing has overtaken it the quotation stands as it was seen.
ConversionsFounded ==
    \A c \in Calls :
        calls[c] # NoCall /\ calls[c].op = "convert" =>
            /\ quotation.docstatus # "Draft"
            /\ quotation.content \notin Unlinked
            /\ calls[c].current => quotation.docstatus = "Submitted" /\ quotation.confirmed

SalesInv ==
    /\ TypeOK
    /\ ApprovalsSound
    /\ SubmittingSound
    /\ ConversionsFounded
    /\ SubmittedWithinAuthority
    /\ OneOrderAsApproved

-----------------------------------------------------------------------------
(* Types.                                                                  *)

\* A new request is a request.
LEMMA NewRequestTyped ==
    ASSUME NEW user \in Users, NEW snapshot \in Snapshots
    PROVE  NewRequest(user, snapshot) \in Request
  BY DEF NewRequest, Request

\* What is taken of a content is a snapshot.
LEMMA SnapshotTyped ==
    ASSUME TypeOK, NEW content \in Contents
    PROVE  SnapshotOf(content) \in Snapshots /\ SnapshotOf(content).content = content
  BY DEF TypeOK, SnapshotOf, Snapshots, RiskLevels

\* A call that is not absent carries what its kind needs.
LEMMA CallTyped ==
    ASSUME TypeOK, NEW c \in Calls, calls[c] # NoCall
    PROVE  /\ calls[c] \in Call
           /\ calls[c].op = "request" =>
                 calls[c].user \in Users /\ calls[c].snapshot \in Snapshots
  BY DEF TypeOK, Call

\* What overtakes the conversions leaves the other calls alone and no conversion
\* current.
LEMMA OvertakenCalls ==
    ASSUME TypeOK
    PROVE  /\ Overtaken \in [Calls -> Call \cup {NoCall}]
           /\ \A c \in Calls :
                 Overtaken[c] # NoCall /\ Overtaken[c].op = "convert" =>
                     calls[c] # NoCall /\ calls[c].op = "convert" /\ ~Overtaken[c].current
  <1>1. ASSUME NEW c \in Calls, calls[c] # NoCall, calls[c].op = "convert"
        PROVE  /\ [calls[c] EXCEPT !.current = FALSE] \in Call
               /\ ~[calls[c] EXCEPT !.current = FALSE].current
    <2>1. calls[c] \in [op : {"convert"}, current : BOOLEAN]
      BY <1>1, CallTyped DEF Call
    <2>2. QED
      BY <2>1 DEF Call
  <1>2. \A c \in Calls : calls[c] \in Call \cup {NoCall}
    BY DEF TypeOK
  <1>3. \A c \in Calls :
            Overtaken[c] = IF calls[c] # NoCall /\ calls[c].op = "convert"
                           THEN [calls[c] EXCEPT !.current = FALSE] ELSE calls[c]
    BY DEF Overtaken
  <1>4. Overtaken \in [Calls -> Call \cup {NoCall}]
    BY <1>1, <1>2 DEF Overtaken
  <1>5. QED
    BY <1>1, <1>3, <1>4

\* Every step keeps the variables in their types.
LEMMA TypeStep ==
    ASSUME TypeOK, [Next]_vars
    PROVE  TypeOK'
  <1> USE DEF TypeOK, world
  <1>1. CASE SampleMoves
    BY <1>1 DEF SampleMoves
  <1>2. ASSUME NEW content \in Lapsing, Lapse(content) PROVE TypeOK'
    BY <1>2, SalesAssumption DEF Lapse
  <1>3. ASSUME NEW level \in RiskLevels, RiskMoves(level) PROVE TypeOK'
    BY <1>3 DEF RiskMoves
  <1>4. ASSUME NEW content \in Contents, EditDraft(content) PROVE TypeOK'
    BY <1>4 DEF EditDraft, Quotation
  <1>5. ASSUME NEW confirmed \in BOOLEAN, Confirm(confirmed) PROVE TypeOK'
    BY <1>5, OvertakenCalls DEF Confirm, Quotation
  <1>6. ASSUME NEW user \in Users, NEW content \in Contents, BeginSubmit(user, content)
        PROVE  TypeOK'
    BY <1>6, SnapshotTyped DEF BeginSubmit, Submission
  <1>7. CASE CommitSubmit
    <2>1. submitting.snapshot.content \in Contents
      BY <1>7 DEF CommitSubmit, Submission, Snapshots
    <2>2. QED
      BY <1>7, <2>1 DEF CommitSubmit, Quotation
  <1>8. CASE AbortSubmit
    BY <1>8 DEF AbortSubmit
  <1>9. CASE CancelQuotation
    BY <1>9, OvertakenCalls DEF CancelQuotation, Quotation
  <1>10. ASSUME NEW user \in Requesters, NEW r \in Requests, FileRequest(user, r)
         PROVE  TypeOK'
    <2>1. NewRequest(user, SnapshotOf(quotation.content)) \in Request
      BY SalesAssumption, SnapshotTyped, NewRequestTyped DEF Quotation
    <2>2. QED
      BY <1>10, <2>1 DEF FileRequest
  <1>11. ASSUME NEW user \in Users, NEW r \in Requests, NEW verdict \in DecisionInputs,
                Decide(user, r, verdict)
         PROVE  TypeOK'
    <2>1. [requests[r] EXCEPT !.status = verdict, !.approver = user] \in Request
      BY <1>11 DEF Decide, Filed, Request
    <2>2. QED
      BY <1>11, <2>1 DEF Decide
  <1>12. ASSUME NEW c \in Calls, NEW user \in Requesters, BeginRequest(c, user)
         PROVE  TypeOK'
    <2>1. SnapshotOf(quotation.content) \in Snapshots
      BY SnapshotTyped DEF Quotation
    <2>2. QED
      BY <1>12, <2>1, SalesAssumption DEF BeginRequest, Call
  <1>13. ASSUME NEW c \in Calls, NEW r \in Requests, FinishRequest(c, r) PROVE TypeOK'
    <2>1. NewRequest(calls[c].user, calls[c].snapshot) \in Request
      BY <1>13, CallTyped, NewRequestTyped DEF FinishRequest
    <2>2. QED
      BY <1>13, <2>1 DEF FinishRequest
  <1>14. ASSUME NEW c \in Calls, BeginConvert(c) PROVE TypeOK'
    BY <1>14 DEF BeginConvert, Call
  <1>15. ASSUME NEW c \in Calls, NEW o \in Orders, FinishConvert(c, o) PROVE TypeOK'
    BY <1>15 DEF FinishConvert
  <1>16. ASSUME NEW c \in Calls, AbandonCall(c) PROVE TypeOK'
    BY <1>16 DEF AbandonCall
  <1>17. ASSUME NEW o \in Orders, SubmitOrder(o) \/ CancelOrder(o) \/ DeleteOrder(o)
         PROVE  TypeOK'
    BY <1>17, OvertakenCalls DEF SubmitOrder, CancelOrder, DeleteOrder
  <1>18. CASE UNCHANGED vars
    BY <1>18 DEF vars
  <1>19. QED
    BY <1>1, <1>2, <1>3, <1>4, <1>5, <1>6, <1>7, <1>8, <1>9, <1>10, <1>11, <1>12,
       <1>13, <1>14, <1>15, <1>16, <1>17, <1>18
    DEF Next

-----------------------------------------------------------------------------
(* What a step leaves alone.                                               *)

\* A decided request is final.
LEMMA DecidedIsFinal ==
    ASSUME TypeOK, [Next]_vars, NEW r \in Filed, requests[r].status # "Pending"
    PROVE  r \in Filed' /\ requests'[r] = requests[r]
  <1>1. r \in Requests /\ requests[r] # NoRequest
    BY DEF Filed
  <1>2. requests'[r] = requests[r]
    <2>1. ASSUME NEW user, NEW q \in Requests, FileRequest(user, q)
          PROVE  requests'[r] = requests[r]
      BY <1>1, <2>1 DEF FileRequest, Filed, TypeOK
    <2>2. ASSUME NEW user, NEW q \in Requests, NEW verdict, Decide(user, q, verdict)
          PROVE  requests'[r] = requests[r]
      BY <1>1, <2>2 DEF Decide, Filed, TypeOK
    <2>3. ASSUME NEW c, NEW q \in Requests, FinishRequest(c, q)
          PROVE  requests'[r] = requests[r]
      BY <1>1, <2>3 DEF FinishRequest, Filed, TypeOK
    <2>4. QED
      BY <2>1, <2>2, <2>3
      DEF Next, vars, world, SampleMoves, Lapse, RiskMoves, EditDraft, Confirm,
          BeginSubmit, CommitSubmit, AbortSubmit, CancelQuotation, BeginRequest,
          BeginConvert, FinishConvert, AbandonCall, SubmitOrder, CancelOrder,
          DeleteOrder
  <1>3. QED
    BY <1>1, <1>2 DEF Filed

\* So what was approved stays approved.
LEMMA ApprovedStands ==
    ASSUME TypeOK, [Next]_vars, NEW snapshot, Approved(snapshot)
    PROVE  Approved(snapshot)'
  <1>1. PICK r \in Filed :
            /\ requests[r].status = "Approved"
            /\ requests[r].snapshot = snapshot
            /\ requests[r].approver # requests[r].requester
            /\ Covers(requests[r].approver, snapshot)
    BY DEF Approved
  <1>2. r \in Filed' /\ requests'[r] = requests[r]
    BY <1>1, DecidedIsFinal
  <1>3. QED
    BY <1>1, <1>2 DEF Approved, Covers

\* And what lay within authority stays there.
LEMMA AuthorityStands ==
    ASSUME TypeOK, [Next]_vars, NEW s, WithinAuthority(s)
    PROVE  \/ s.snapshot.content \notin Breaching /\ Covers(s.user, s.snapshot)
           \/ Approved(s.snapshot)'
  BY ApprovedStands DEF WithinAuthority

\* Only a commit takes the quotation out of the draft, nothing takes it back, and
\* the content of a submitted quotation is frozen.
LEMMA QuotationMoves ==
    ASSUME TypeOK, [Next]_vars
    PROVE  \/ CommitSubmit
           \/ /\ quotation.docstatus # "Draft" =>
                    quotation'.docstatus # "Draft" /\ quotation'.content = quotation.content
              /\ quotation.docstatus = "Draft" => quotation'.docstatus = "Draft"
              /\ UNCHANGED submission
  <1> USE DEF TypeOK, Quotation
  <1>1. ASSUME NEW content, EditDraft(content)
        PROVE  quotation.docstatus = "Draft" /\ quotation'.docstatus = "Draft"
                  /\ UNCHANGED submission
    BY <1>1 DEF EditDraft
  <1>2. ASSUME NEW confirmed, Confirm(confirmed)
        PROVE  /\ quotation'.docstatus = quotation.docstatus
               /\ quotation'.content = quotation.content
               /\ UNCHANGED submission
    BY <1>2 DEF Confirm
  <1>3. ASSUME CancelQuotation
        PROVE  /\ quotation.docstatus = "Submitted" /\ quotation'.docstatus = "Cancelled"
               /\ quotation'.content = quotation.content
               /\ UNCHANGED submission
    BY <1>3 DEF CancelQuotation
  <1>4. QED
    BY <1>1, <1>2, <1>3
    DEF Next, vars, world, SampleMoves, Lapse, RiskMoves, BeginSubmit, AbortSubmit,
        FileRequest, Decide, BeginRequest, FinishRequest, BeginConvert,
        FinishConvert, AbandonCall, SubmitOrder, CancelOrder, DeleteOrder

-----------------------------------------------------------------------------
(* The steps of the invariant.                                             *)

\* A decision is the only way to an approval, and it checks the decider.
LEMMA ApprovalsStep ==
    ASSUME TypeOK, ApprovalsSound, [Next]_vars
    PROVE  ApprovalsSound'
  <1> SUFFICES ASSUME NEW r \in Filed', requests'[r].status = "Approved"
               PROVE  /\ requests'[r].approver # requests'[r].requester
                      /\ Covers(requests'[r].approver, requests'[r].snapshot)
    BY DEF ApprovalsSound, Covers
  <1>1. r \in Requests /\ requests'[r] # NoRequest
    BY DEF Filed
  <1>2. CASE r \in Filed /\ requests'[r] = requests[r]
    BY <1>2 DEF ApprovalsSound
  <1>3. ASSUME NEW user \in Users, NEW q \in Requests, NEW verdict \in DecisionInputs,
               Decide(user, q, verdict), q = r
        PROVE  /\ requests'[r].approver # requests'[r].requester
               /\ Covers(requests'[r].approver, requests'[r].snapshot)
    <2>1. requests[r] \in Request
      BY <1>3 DEF Decide, Filed, TypeOK
    <2>2. /\ requests'[r].approver = user
          /\ requests'[r].requester = requests[r].requester
          /\ requests'[r].snapshot = requests[r].snapshot
      BY <1>1, <1>3, <2>1 DEF Decide, TypeOK, Request
    <2>3. QED
      BY <1>3, <2>2 DEF Decide
  <1>4. ASSUME NEW user, NEW snapshot, requests'[r] = NewRequest(user, snapshot)
        PROVE  FALSE
    BY <1>4 DEF NewRequest
  <1>5. ASSUME NEW user, NEW q \in Requests, FileRequest(user, q)
        PROVE  requests'[r] = requests[r]
                  \/ requests'[r] = NewRequest(user, SnapshotOf(quotation.content))
    BY <1>1, <1>5 DEF FileRequest, TypeOK
  <1>6. ASSUME NEW c \in Calls, NEW q \in Requests, FinishRequest(c, q)
        PROVE  requests'[r] = requests[r]
                  \/ requests'[r] = NewRequest(calls[c].user, calls[c].snapshot)
    BY <1>1, <1>6 DEF FinishRequest, TypeOK
  <1>7. ASSUME NEW user \in Users, NEW q \in Requests, NEW verdict \in DecisionInputs,
               Decide(user, q, verdict), q # r
        PROVE  requests'[r] = requests[r]
    BY <1>1, <1>7 DEF Decide, TypeOK
  <1>8. QED
    BY <1>1, <1>2, <1>3, <1>4, <1>5, <1>6, <1>7
    DEF Next, vars, world, Filed, SampleMoves, Lapse, RiskMoves, EditDraft, Confirm,
        BeginSubmit, CommitSubmit, AbortSubmit, CancelQuotation, BeginRequest,
        BeginConvert, FinishConvert, AbandonCall, SubmitOrder, CancelOrder,
        DeleteOrder

\* The checks of a submission establish what its commit relies on: the row lock
\* keeps the draft, and the approval is final.
LEMMA SubmittingStep ==
    ASSUME TypeOK, ApprovalsSound, SubmittingSound, [Next]_vars
    PROVE  SubmittingSound'
  <1>1. ASSUME NEW user \in Users, NEW content \in Contents, BeginSubmit(user, content)
        PROVE  SubmittingSound'
    <2>1. PICK snapshot : snapshot = SnapshotOf(content)
      OBVIOUS
    <2>2. /\ submitting' = [user |-> user, snapshot |-> snapshot]
          /\ UNCHANGED <<quotation, requests>>
          /\ quotation.docstatus = "Draft"
      BY <1>1, <2>1 DEF BeginSubmit
    <2>3. submitting'.user = user /\ submitting'.snapshot = snapshot
      BY <2>2
    <2>4. snapshot.content = content
      BY <2>1, SnapshotTyped
    <2>5. content \notin Unlinked =>
             \/ snapshot.content \notin Breaching /\ Covers(user, snapshot)
             \/ has_current_approved_request(snapshot)
      BY <1>1, <2>1 DEF BeginSubmit, requires_price_approval
    <2>6. ASSUME has_current_approved_request(snapshot) PROVE Approved(snapshot)'
      <3>1. PICK r \in Filed :
                requests[r].status = "Approved" /\ requests[r].snapshot = snapshot
        BY <2>6 DEF has_current_approved_request
      <3>2. requests'[r] = requests[r] /\ r \in Filed'
        BY <2>2, <3>1 DEF Filed
      <3>3. QED
        BY <3>1, <3>2 DEF ApprovalsSound, Approved, Covers
    <2>7. WithinAuthority(submitting)' <=>
             \/ submitting'.snapshot.content \notin Breaching
                   /\ Covers(submitting'.user, submitting'.snapshot)
             \/ Approved(snapshot)'
      BY <2>3 DEF WithinAuthority, Covers, Approved
    <2>8. QED
      BY <2>2, <2>3, <2>4, <2>5, <2>6, <2>7 DEF SubmittingSound, Covers
  <1>2. CASE UNCHANGED submitting
    <2> SUFFICES ASSUME submitting # NoSubmission PROVE SubmittingSound'
      BY <1>2 DEF SubmittingSound
    <2>1. PICK s : s = submitting
      OBVIOUS
    <2>2. quotation'.docstatus = "Draft"
      BY <1>2, QuotationMoves DEF SubmittingSound, CommitSubmit
    <2>3. WithinAuthority(s) =>
             \/ s.snapshot.content \notin Breaching /\ Covers(s.user, s.snapshot)
             \/ Approved(s.snapshot)'
      BY AuthorityStands
    <2>4. WithinAuthority(submitting) => WithinAuthority(submitting)'
      BY <1>2, <2>1, <2>3 DEF WithinAuthority, Covers, Approved
    <2>5. QED
      BY <1>2, <2>2, <2>4 DEF SubmittingSound
  <1>3. CASE CommitSubmit \/ AbortSubmit
    BY <1>3 DEF CommitSubmit, AbortSubmit, SubmittingSound
  <1>4. QED
    BY <1>1, <1>2, <1>3
    DEF Next, vars, world, SampleMoves, Lapse, RiskMoves, EditDraft, Confirm,
        CancelQuotation, FileRequest, Decide, BeginRequest, FinishRequest,
        BeginConvert, FinishConvert, AbandonCall, SubmitOrder, CancelOrder,
        DeleteOrder

\* What was submitted stays within authority.
LEMMA SubmittedStep ==
    ASSUME TypeOK, SubmittingSound, SubmittedWithinAuthority, [Next]_vars
    PROVE  SubmittedWithinAuthority'
  <1>1. CASE CommitSubmit
    <2>1. /\ submission' = submitting
          /\ submitting # NoSubmission
          /\ quotation'.content = submitting.snapshot.content
      BY <1>1 DEF CommitSubmit, TypeOK, Quotation
    <2>2. WithinAuthority(submitting) => WithinAuthority(submission)'
      BY <2>1, AuthorityStands DEF WithinAuthority, Covers
    <2>3. QED
      BY <2>1, <2>2 DEF SubmittingSound, SubmittedWithinAuthority
  <1>2. CASE ~CommitSubmit
    <2>1. SUFFICES ASSUME quotation'.docstatus # "Draft", quotation'.content \notin Unlinked
                   PROVE  SubmittedWithinAuthority'
      BY DEF SubmittedWithinAuthority
    <2>2. /\ quotation.docstatus # "Draft"
          /\ quotation'.content = quotation.content
          /\ submission' = submission
      BY <1>2, <2>1, QuotationMoves
    <2>3. WithinAuthority(submission) => WithinAuthority(submission)'
      BY <2>2, AuthorityStands DEF WithinAuthority, Covers
    <2>4. QED
      BY <2>1, <2>2, <2>3 DEF SubmittedWithinAuthority
  <1>3. QED
    BY <1>1, <1>2

\* Conversions start from a submitted quotation, which never becomes a draft.
LEMMA ConversionsStep ==
    ASSUME TypeOK, SubmittingSound, ConversionsFounded, [Next]_vars
    PROVE  ConversionsFounded'
  <1> SUFFICES ASSUME NEW c \in Calls, calls'[c] # NoCall, calls'[c].op = "convert"
               PROVE  /\ quotation'.docstatus # "Draft"
                      /\ quotation'.content \notin Unlinked
                      /\ calls'[c].current =>
                            quotation'.docstatus = "Submitted" /\ quotation'.confirmed
    BY DEF ConversionsFounded
  <1>1. \/ calls'[c] = calls[c]
        \/ calls' = Overtaken
        \/ BeginConvert(c) /\ UNCHANGED quotation
    <2>1. ASSUME NEW d \in Calls, BeginConvert(d)
          PROVE  calls'[c] = calls[c] \/ (d = c /\ UNCHANGED quotation)
      BY <2>1 DEF BeginConvert, TypeOK
    <2>2. ASSUME NEW d \in Calls, NEW user, BeginRequest(d, user)
          PROVE  calls'[c] = calls[c]
      BY <2>2 DEF BeginRequest, TypeOK
    <2>3. ASSUME NEW d \in Calls, NEW r, FinishRequest(d, r) PROVE calls'[c] = calls[c]
      BY <2>3 DEF FinishRequest, TypeOK
    <2>4. ASSUME NEW d \in Calls, NEW o, FinishConvert(d, o) PROVE calls'[c] = calls[c]
      BY <2>4 DEF FinishConvert, TypeOK
    <2>5. ASSUME NEW d \in Calls, AbandonCall(d) PROVE calls'[c] = calls[c]
      BY <2>5 DEF AbandonCall, TypeOK
    <2>6. QED
      BY <2>1, <2>2, <2>3, <2>4, <2>5
      DEF Next, vars, world, SampleMoves, Lapse, RiskMoves,
          EditDraft, Confirm, BeginSubmit, CommitSubmit, AbortSubmit,
          CancelQuotation, FileRequest, Decide, SubmitOrder, CancelOrder,
          DeleteOrder
  <1>2. /\ quotation.docstatus # "Draft"
        /\ quotation.content \notin Unlinked
    BY <1>1, OvertakenCalls DEF ConversionsFounded, BeginConvert
  <1>3. ~CommitSubmit
    BY <1>2 DEF CommitSubmit, SubmittingSound
  <1>4. ASSUME calls'[c].current
        PROVE  quotation'.docstatus = "Submitted" /\ quotation'.confirmed
    <2>1. CASE BeginConvert(c) /\ UNCHANGED quotation
      BY <2>1 DEF BeginConvert
    <2>2. CASE calls' = Overtaken
      BY <1>4, <2>2, OvertakenCalls
    <2>3. CASE calls'[c] = calls[c] /\ calls' # Overtaken
      <3>1. quotation.docstatus = "Submitted" /\ quotation.confirmed
        BY <1>4, <2>3 DEF ConversionsFounded
      <3>2. UNCHANGED quotation
        BY <1>2, <1>3, <2>3
        DEF Next, vars, world, SampleMoves, Lapse, RiskMoves, EditDraft, Confirm,
            BeginSubmit, AbortSubmit, CancelQuotation, FileRequest, Decide,
            BeginRequest, FinishRequest, BeginConvert, FinishConvert, AbandonCall,
            SubmitOrder, CancelOrder, DeleteOrder
      <3>3. QED
        BY <3>1, <3>2
    <2>4. QED
      BY <1>1, <2>1, <2>2, <2>3
  <1>5. QED
    BY <1>2, <1>3, <1>4, QuotationMoves

\* The unique index, the conversion's reads and the framework's two checks keep
\* the order and the quotation in step.
LEMMA OrdersStep ==
    ASSUME TypeOK, SubmittingSound, ConversionsFounded, OneOrderAsApproved, [Next]_vars
    PROVE  OneOrderAsApproved'
  <1> USE DEF TypeOK, OneOrderAsApproved, ExistingOrders
  <1>1. ASSUME NEW c \in Calls, NEW o \in Orders, FinishConvert(c, o)
        PROVE  OneOrderAsApproved'
    BY <1>1 DEF FinishConvert, ConversionsFounded, world
  <1>2. ASSUME NEW o \in Orders, SubmitOrder(o) \/ CancelOrder(o) \/ DeleteOrder(o)
        PROVE  OneOrderAsApproved'
    BY <1>2 DEF SubmitOrder, CancelOrder, DeleteOrder, Quotation, world
  <1>3. CASE UNCHANGED orders /\ CommitSubmit
    BY <1>3 DEF CommitSubmit, SubmittingSound
  <1>4. CASE CancelQuotation
    BY <1>4 DEF CancelQuotation, Quotation
  <1>5. ASSUME NEW content \in Contents, EditDraft(content) PROVE OneOrderAsApproved'
    BY <1>5 DEF EditDraft
  <1>6. ASSUME NEW confirmed \in BOOLEAN, Confirm(confirmed) PROVE OneOrderAsApproved'
    BY <1>6 DEF Confirm, Quotation
  <1>7. CASE UNCHANGED <<orders, quotation>>
    BY <1>7
  <1>8. QED
    BY <1>1, <1>2, <1>3, <1>4, <1>5, <1>6, <1>7
    DEF Next, vars, world, SampleMoves, Lapse, RiskMoves, BeginSubmit, CommitSubmit,
        AbortSubmit, FileRequest, Decide, BeginRequest, FinishRequest, BeginConvert,
        AbandonCall

-----------------------------------------------------------------------------
(* The theorems.                                                           *)

\* The inductive invariant holds of every reachable state.
THEOREM SalesInvariant == Spec => []SalesInv
  <1>1. Init => SalesInv
    <2> SUFFICES ASSUME Init PROVE SalesInv
      OBVIOUS
    <2>1. TypeOK
      <3>1. quotation \in Quotation
        BY DEF Init, Quotation
      <3>2. sampleApproved \in BOOLEAN
        BY DEF Init
      <3>3. QED
        BY <3>1, <3>2 DEF Init, TypeOK
    <2>2. quotation.docstatus = "Draft" /\ Filed = {} /\ ExistingOrders = {}
      BY DEF Init, Filed, ExistingOrders
    <2>3. SubmittingSound /\ ConversionsFounded
      BY DEF Init, SubmittingSound, ConversionsFounded
    <2>4. OneOrderAsApproved
      BY <2>2 DEF Init, OneOrderAsApproved
    <2>5. QED
      BY <2>1, <2>2, <2>3, <2>4 DEF SalesInv, ApprovalsSound, SubmittedWithinAuthority
  <1>2. SalesInv /\ [Next]_vars => SalesInv'
    BY TypeStep, ApprovalsStep, SubmittingStep, SubmittedStep, ConversionsStep, OrdersStep
    DEF SalesInv
  <1>3. QED
    BY <1>1, <1>2, PTL DEF Spec

\* Every variable keeps its type (sales_conversion.py).
THEOREM SalesTypes == Spec => []TypeOK
  <1>1. SalesInv => TypeOK
    BY DEF SalesInv
  <1>2. QED
    BY <1>1, SalesInvariant, PTL

\* No quotation of a project leaves the draft beyond its submitter's authority
\* without a second person's approval of exactly what it offers.
THEOREM SubmissionSound == Spec => []SubmittedWithinAuthority
  <1>1. SalesInv => SubmittedWithinAuthority
    BY DEF SalesInv
  <1>2. QED
    BY <1>1, SalesInvariant, PTL

\* The conversion leaves one order at most, of a submitted quotation of a project.
THEOREM OrdersSound == Spec => []OneOrderAsApproved
  <1>1. SalesInv => OneOrderAsApproved
    BY DEF SalesInv
  <1>2. QED
    BY <1>1, SalesInvariant, PTL

\* Where the lock of a changed row is refused, an order is made of a quotation that
\* stands and is confirmed.  (create_sales_order_from_quotation)
THEOREM ConfirmedSound ==
    ASSUME SnapshotIsolation = TRUE PROVE Spec => OrdersAreConfirmed
  <1>1. SalesInv /\ [Next]_vars =>
            [ \A o \in Orders :
                  orders[o] = "None" /\ orders'[o] # "None" =>
                      quotation.docstatus = "Submitted" /\ quotation.confirmed ]_vars
    <2> SUFFICES ASSUME SalesInv, [Next]_vars, NEW o \in Orders,
                        orders[o] = "None", orders'[o] # "None"
                 PROVE  quotation.docstatus = "Submitted" /\ quotation.confirmed
      OBVIOUS
    <2>1. ASSUME NEW p \in Orders, SubmitOrder(p) \/ CancelOrder(p) \/ DeleteOrder(p)
          PROVE  FALSE
      BY <2>1 DEF SubmitOrder, CancelOrder, DeleteOrder, SalesInv, TypeOK
    <2>2. PICK c \in Calls, p \in Orders : FinishConvert(c, p)
      BY <2>1
      DEF Next, vars, world, SampleMoves, Lapse, RiskMoves, EditDraft, Confirm,
          BeginSubmit, CommitSubmit, AbortSubmit, CancelQuotation, FileRequest,
          Decide, BeginRequest, FinishRequest, BeginConvert, AbandonCall
    <2>3. QED
      BY <2>2 DEF FinishConvert, QuotationLocked, SalesInv, ConversionsFounded
  <1>2. QED
    BY <1>1, SalesInvariant, PTL DEF Spec, OrdersAreConfirmed
=============================================================================
