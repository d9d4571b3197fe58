------------------------ MODULE SampleWorkflowProofs ------------------------
(***************************************************************************)
(* What SampleWorkflow guarantees for any number of samples, calls and     *)
(* forms.                                                                  *)
(*                                                                         *)
(* The properties are not inductive: what an open form will write and what *)
(* a call in flight has seen must be known as well.  An open form holds    *)
(* the row as it is, and what a call saw at its first read is permanent.   *)
(***************************************************************************)
EXTENDS SampleWorkflow, TLAPS

\* A form that could still be saved holds the current row.
FormsAreCurrent ==
    \A s \in Samples : forms[s] # NoForm => s \in Existing /\ forms[s] = samples[s]

\* What a call has read may be out of date, but not these consequences of it.
CallsAreFounded ==
    \A c \in Calls :
        calls[c] # NoCall =>
            /\ calls[c].sample \in Existing
            /\ calls[c].op = "feedback" => samples[calls[c].sample].dispatched
            /\ calls[c].op = "resample" => feedback[calls[c].sample] # NoFeedback

\* Statuses of dispatched samples come from dispatch_sample.
StatusIsEarned ==
    \A s \in Existing :
        samples[s].status \in DISPATCHED_STATUSES => samples[s].dispatched

SampleInv ==
    /\ TypeOK
    /\ RoundsFormChains
    /\ AnswersFollowDispatch
    /\ FormsAreCurrent
    /\ CallsAreFounded
    /\ StatusIsEarned

-----------------------------------------------------------------------------
(* Rows.                                                                   *)

\* A row is not an absent one.
LEMMA RowPresent == \A r \in SampleRow : r # Absent
  BY DEF SampleRow, Absent, Statuses, DISPATCHED_STATUSES, FEEDBACK_DECISIONS

\* The samples that exist have rows.
LEMMA ExistingTyped ==
    ASSUME TypeOK, NEW s \in Existing
    PROVE  s \in Samples /\ samples[s] \in SampleRow
  BY DEF TypeOK, Existing

\* The next round of a sample is a row.
LEMMA NextRoundTyped ==
    ASSUME TypeOK, NEW s \in Existing
    PROVE  NextRound(s) \in SampleRow
  <1>1. samples[s].round + 1 \in Nat \ {0}
    BY ExistingTyped DEF SampleRow
  <1>2. QED
    BY <1>1, ExistingTyped
    DEF NextRound, SampleRow, Statuses

-----------------------------------------------------------------------------
(* A save of an existing sample, by whatever form, workflow or service.    *)

\* A validated save that leaves the chain and the link alone, and never unsets
\* dispatch_time, preserves the invariant.
LEMMA SavePreserves ==
    ASSUME SampleInv, NEW s \in Existing, NEW r \in SampleRow,
           ValidSample(r),
           r.previous = samples[s].previous, r.round = samples[s].round,
           r.feedback = samples[s].feedback,
           samples[s].dispatched => r.dispatched,
           samples' = [samples EXCEPT ![s] = r],
           OutdateForm(s), UNCHANGED <<feedback, calls>>
    PROVE  SampleInv'
  <1> USE DEF SampleInv
  <1>1. s \in Samples /\ samples[s] \in SampleRow /\ r # Absent
    BY ExistingTyped, RowPresent
  <1>2. Existing' = Existing
    BY <1>1 DEF Existing, TypeOK
  <1>3. TypeOK'
    BY <1>1 DEF TypeOK, OutdateForm
  <1>4. RoundsFormChains'
    <2>1. \A x \in Existing : /\ samples'[x].previous = samples[x].previous
                             /\ samples'[x].round = samples[x].round
      BY <1>1 DEF TypeOK, Existing
    <2>2. \A x \in Existing : Resamples(x)' = Resamples(x)
      BY <1>2, <2>1 DEF Resamples
    <2>3. QED
      BY <1>2, <2>1, <2>2 DEF RoundsFormChains
  <1>5. AnswersFollowDispatch'
    <2>1. \A x \in Samples \ {s} : samples'[x] = samples[x]
      BY DEF TypeOK
    <2>2. samples'[s] = r
      BY <1>1 DEF TypeOK
    <2>3. QED
      BY <1>1, <1>2, <2>1, <2>2 DEF AnswersFollowDispatch, ValidSample
  <1>6. FormsAreCurrent'
    BY <1>1, <1>2 DEF FormsAreCurrent, OutdateForm, TypeOK
  <1>7. CallsAreFounded'
    BY <1>1, <1>2 DEF CallsAreFounded, TypeOK
  <1>8. StatusIsEarned'
    BY <1>1, <1>2 DEF StatusIsEarned, ValidSample, TypeOK
  <1>9. QED
    BY <1>3, <1>4, <1>5, <1>6, <1>7, <1>8

\* An inserted sample follows an answered one that has no next round, or none.
LEMMA InsertPreserves ==
    ASSUME SampleInv, NEW s \in Samples, NEW r \in SampleRow,
           samples[s] = Absent,
           ~ r.feedback, r.status \notin DISPATCHED_STATUSES,
           ValidRound(r),
           r.previous # NoSample => /\ r.previous \in Existing
                                    /\ feedback[r.previous] # NoFeedback
                                    /\ Resamples(r.previous) = {},
           samples' = [samples EXCEPT ![s] = r],
           UNCHANGED <<feedback, forms>>,
           \A c \in Calls : calls'[c] # NoCall => calls'[c] = calls[c],
           calls' \in [Calls -> CallRow \cup {NoCall}]
    PROVE  SampleInv'
  <1> USE DEF SampleInv
  <1>1. r # Absent /\ s \notin Existing
    BY RowPresent DEF Existing
  <1>2. Existing' = Existing \cup {s}
    BY <1>1 DEF Existing, TypeOK
  <1>3. /\ samples'[s] = r
        /\ \A x \in Samples \ {s} : samples'[x] = samples[x]
    BY DEF TypeOK
  <1>4. TypeOK'
    BY DEF TypeOK
  <1>5. feedback[s] = NoFeedback
    BY <1>1 DEF AnswersFollowDispatch
  <1>6. RoundsFormChains'
    <2>1. \A x \in Existing : samples'[x] = samples[x] /\ x # s
      BY <1>1, <1>3 DEF Existing
    <2>2. \A x \in Existing : samples[x].previous # s
      BY <1>1, SampleAssumption DEF RoundsFormChains
    <2>3. \A x \in Existing' :
              Resamples(x)' = IF x = r.previous THEN Resamples(x) \cup {s}
                              ELSE IF x = s THEN {} ELSE Resamples(x)
      <3>1. r.previous # s
        BY <1>1, SampleAssumption
      <3>2. QED
        BY <1>2, <1>3, <2>1, <2>2, <3>1 DEF Resamples
    <2>4. ASSUME NEW x \in Existing'
          PROVE  /\ samples'[x].previous # NoSample =>
                       /\ samples'[x].previous \in Existing'
                       /\ samples'[x].round = samples'[samples'[x].previous].round + 1
                       /\ feedback'[samples'[x].previous] # NoFeedback
      <3>1. CASE x = s
        BY <3>1, <1>2, <1>3, <2>1 DEF ValidRound
      <3>2. CASE x \in Existing
        BY <3>2, <1>2, <2>1 DEF RoundsFormChains
      <3>3. QED
        BY <3>1, <3>2, <1>2
    <2>5. ASSUME NEW x \in Existing'
          PROVE  \A y, z \in Resamples(x)' : y = z
      <3>1. CASE x = r.previous
        <4>1. x \in Samples
          BY <1>2 DEF Existing
        <4>2. Resamples(x) = {}
          BY <3>1, <4>1, SampleAssumption
        <4>3. QED
          BY <3>1, <4>2, <2>3
      <3>2. CASE x # r.previous
        BY <3>2, <2>3, <1>2 DEF RoundsFormChains
      <3>3. QED
        BY <3>1, <3>2
    <2>6. QED
      BY <2>4, <2>5 DEF RoundsFormChains
  <1>7. AnswersFollowDispatch'
    <2>1. r.status \notin FEEDBACK_DECISIONS
      BY DEF DISPATCHED_STATUSES
    <2>2. QED
      BY <1>2, <1>3, <1>5, <2>1 DEF AnswersFollowDispatch, Existing
  <1>8. FormsAreCurrent'
    BY <1>1, <1>2, <1>3 DEF FormsAreCurrent
  <1>9. CallsAreFounded'
    BY <1>1, <1>2, <1>3, ExistingTyped DEF CallsAreFounded
  <1>10. StatusIsEarned'
    BY <1>1, <1>2, <1>3, ExistingTyped DEF StatusIsEarned
  <1>11. QED
    BY <1>4, <1>6, <1>7, <1>8, <1>9, <1>10

-----------------------------------------------------------------------------
(* The inductive invariant.                                                *)

LEMMA InvInit == Init => SampleInv
  <1> SUFFICES ASSUME Init PROVE SampleInv
    OBVIOUS
  <1>1. Existing = {}
    BY DEF Init, Existing
  <1>2. QED
    BY <1>1 DEF Init, SampleInv, TypeOK, RoundsFormChains, AnswersFollowDispatch,
                FormsAreCurrent, CallsAreFounded, StatusIsEarned,
                FEEDBACK_DECISIONS, NoFeedback

\* An answer is recorded once, of a sample that was sent.
LEMMA AnswerPreserves ==
    ASSUME SampleInv, NEW c \in Calls, NEW decision \in DecisionInputs,
           RecordCustomerFeedback(c, decision)
    PROVE  SampleInv'
  <1> USE DEF SampleInv
  <1> DEFINE s == calls[c].sample
             r == [samples[s] EXCEPT !.feedback = TRUE, !.status = decision]
  <1>1. /\ decision \in FEEDBACK_DECISIONS
        /\ calls[c] # NoCall
        /\ calls[c].op = "feedback"
        /\ feedback[s] = NoFeedback
        /\ feedback' = [feedback EXCEPT ![s] = decision]
        /\ samples' = [samples EXCEPT ![s] = r]
        /\ OutdateForm(s)
        /\ calls' = [calls EXCEPT ![c] = NoCall]
    BY DEF RecordCustomerFeedback, Proceeds
  <1>2. s \in Existing /\ samples[s].dispatched
    BY <1>1 DEF CallsAreFounded
  <1>3. s \in Samples /\ samples[s] \in SampleRow
    BY <1>2, ExistingTyped
  <1>4. /\ r \in SampleRow /\ r.feedback /\ r.dispatched /\ r.status = decision
        /\ r.previous = samples[s].previous /\ r.round = samples[s].round
    BY <1>1, <1>2, <1>3 DEF SampleRow, Statuses, DISPATCHED_STATUSES
  <1>5. r # Absent
    BY <1>4, RowPresent
  <1>6. decision # NoFeedback
    BY <1>1 DEF FEEDBACK_DECISIONS, NoFeedback
  <1> HIDE DEF r, s
  <1>7. Existing' = Existing
    BY <1>1, <1>2, <1>3, <1>5 DEF Existing, TypeOK
  <1>8. /\ samples'[s] = r /\ feedback'[s] = decision
        /\ \A x \in Samples \ {s} : samples'[x] = samples[x] /\ feedback'[x] = feedback[x]
    BY <1>1, <1>3 DEF TypeOK
  <1>9. TypeOK'
    BY <1>1, <1>3, <1>4 DEF TypeOK, OutdateForm
  <1>10. RoundsFormChains'
    <2>1. \A x \in Existing : /\ samples'[x].previous = samples[x].previous
                             /\ samples'[x].round = samples[x].round
      BY <1>4, <1>8 DEF Existing
    <2>2. \A x \in Existing : Resamples(x)' = Resamples(x)
      BY <1>7, <2>1 DEF Resamples
    <2>3. \A x \in Existing : feedback[x] # NoFeedback => feedback'[x] # NoFeedback
      BY <1>6, <1>8 DEF Existing
    <2>4. QED
      BY <1>7, <2>1, <2>2, <2>3 DEF RoundsFormChains
  <1>11. AnswersFollowDispatch'
    BY <1>2, <1>3, <1>4, <1>6, <1>7, <1>8 DEF AnswersFollowDispatch
  <1>12. FormsAreCurrent'
    BY <1>1, <1>3, <1>7, <1>8 DEF FormsAreCurrent, OutdateForm, TypeOK
  <1>13. CallsAreFounded'
    <2>1. ASSUME NEW d \in Calls, calls'[d] # NoCall
          PROVE  d # c /\ calls'[d] = calls[d]
      BY <2>1, <1>1 DEF TypeOK
    <2>2. \A x \in Existing : samples[x].dispatched => samples'[x].dispatched
      BY <1>4, <1>8 DEF Existing
    <2>3. \A x \in Samples : feedback[x] # NoFeedback => feedback'[x] # NoFeedback
      BY <1>6, <1>8
    <2>4. QED
      BY <1>7, <2>1, <2>2, <2>3 DEF CallsAreFounded, Existing
  <1>14. StatusIsEarned'
    BY <1>4, <1>7, <1>8 DEF StatusIsEarned, Existing
  <1>15. QED
    BY <1>9, <1>10, <1>11, <1>12, <1>13, <1>14

\* Every step preserves the invariant.
LEMMA InvNext == SampleInv /\ [Next]_vars => SampleInv'
  <1> SUFFICES ASSUME SampleInv, [Next]_vars PROVE SampleInv'
    OBVIOUS
  <1> USE DEF SampleInv
  <1>1. ASSUME NEW s \in FirstRounds, NEW status \in FormStatuses,
               NEW inspected \in BOOLEAN, NEW tracking \in Trackings \cup {NoTracking},
               CreateSample(s, status, inspected, tracking)
        PROVE  SampleInv'
    <2> DEFINE r == [ status |-> status, approval |-> "Draft",
                      inspected |-> inspected, tracking |-> tracking,
                      dispatched |-> FALSE, feedback |-> FALSE,
                      previous |-> NoSample, round |-> 1 ]
    <2>1. /\ samples[s] = Absent /\ ValidRound(r) /\ ValidSample(r)
          /\ samples' = [samples EXCEPT ![s] = r]
          /\ UNCHANGED <<feedback, forms, calls>>
      BY <1>1 DEF CreateSample
    <2>2. r.status \notin DISPATCHED_STATUSES
      BY <2>1 DEF ValidSample
    <2>3. r \in SampleRow
      BY FormStatusAssumption DEF SampleRow
    <2>4. s \in Samples /\ ~ r.feedback /\ r.previous = NoSample
      BY SampleAssumption
    <2> HIDE DEF r
    <2>5. QED
      BY <2>1, <2>2, <2>3, <2>4, InsertPreserves DEF TypeOK
  <1>2. ASSUME NEW s \in Samples, OpenForm(s)
        PROVE  SampleInv'
    <2>1. /\ s \in Existing
          /\ forms' = [forms EXCEPT ![s] = samples[s]]
          /\ UNCHANGED <<samples, feedback, calls>>
      BY <1>2 DEF OpenForm
    <2>2. TypeOK'
      BY <2>1, ExistingTyped DEF TypeOK
    <2>3. FormsAreCurrent'
      BY <2>1 DEF FormsAreCurrent, Existing, TypeOK
    <2>4. QED
      BY <2>1, <2>2, <2>3 DEF RoundsFormChains, AnswersFollowDispatch,
            CallsAreFounded, StatusIsEarned, Existing, Resamples
  <1>3. ASSUME NEW s \in Samples, NEW status \in Statuses, NEW inspected \in BOOLEAN,
               NEW tracking \in Trackings \cup {NoTracking},
               SaveForm(s, status, inspected, tracking)
        PROVE  SampleInv'
    <2> DEFINE r == [forms[s] EXCEPT !.status = status, !.inspected = inspected,
                                     !.tracking = tracking]
    <2>1. /\ forms[s] # NoForm /\ ValidSample(r)
          /\ samples' = [samples EXCEPT ![s] = r]
          /\ OutdateForm(s) /\ UNCHANGED <<feedback, calls>>
      BY <1>3 DEF SaveForm
    <2>2. s \in Existing /\ forms[s] = samples[s]
      BY <2>1 DEF FormsAreCurrent
    <2>3. samples[s] \in SampleRow
      BY <2>2, ExistingTyped
    <2>4. /\ r \in SampleRow
          /\ r.previous = samples[s].previous /\ r.round = samples[s].round
          /\ r.feedback = samples[s].feedback /\ r.dispatched = samples[s].dispatched
      BY <2>2, <2>3 DEF SampleRow
    <2> HIDE DEF r
    <2>5. QED
      BY <2>1, <2>2, <2>4, SavePreserves
  <1>4. ASSUME NEW s \in Samples, NEW t \in ApprovalTransitions, ApplyWorkflow(s, t)
        PROVE  SampleInv'
    <2> DEFINE status == CASE t.to = "Approved" -> "Prepared"
                           [] t.to = "Returned" -> "Draft"
                           [] OTHER -> samples[s].status
               r == [samples[s] EXCEPT !.approval = t.to, !.status = status]
    <2>1. /\ s \in Existing /\ ValidSample(r)
          /\ samples' = [samples EXCEPT ![s] = r]
          /\ OutdateForm(s) /\ UNCHANGED <<feedback, calls>>
      BY <1>4 DEF ApplyWorkflow
    <2>2. samples[s] \in SampleRow
      BY <2>1, ExistingTyped
    <2>3. status \in Statuses
      BY <2>2 DEF Statuses, SampleRow
    <2>4. t.to \in {"Pending", "Approved", "Returned"}
      BY DEF ApprovalTransitions
    <2> HIDE DEF status
    <2>5. /\ r \in SampleRow
          /\ r.previous = samples[s].previous /\ r.round = samples[s].round
          /\ r.feedback = samples[s].feedback /\ r.dispatched = samples[s].dispatched
      BY <2>2, <2>3, <2>4 DEF SampleRow
    <2> HIDE DEF r
    <2>6. QED
      BY <2>1, <2>5, SavePreserves
  <1>5. ASSUME NEW s \in Samples, NEW tracking \in Trackings, DispatchSample(s, tracking)
        PROVE  SampleInv'
    <2> DEFINE r == [samples[s] EXCEPT !.status = "Dispatched", !.tracking = tracking,
                                       !.dispatched = TRUE]
    <2>1. /\ s \in Existing /\ samples[s].inspected
          /\ samples' = [samples EXCEPT ![s] = r]
          /\ OutdateForm(s) /\ UNCHANGED <<feedback, calls>>
      BY <1>5 DEF DispatchSample
    <2>2. samples[s] \in SampleRow
      BY <2>1, ExistingTyped
    <2>3. /\ r \in SampleRow /\ r.dispatched /\ r.inspected
          /\ r.tracking = tracking /\ r.status = "Dispatched"
          /\ r.previous = samples[s].previous /\ r.round = samples[s].round
          /\ r.feedback = samples[s].feedback
      BY <2>1, <2>2 DEF SampleRow, Statuses, DISPATCHED_STATUSES
    <2> HIDE DEF r
    <2>4. ValidSample(r)
      BY <2>3, SampleAssumption DEF ValidSample, FEEDBACK_DECISIONS
    <2>5. QED
      BY <2>1, <2>3, <2>4, SavePreserves
  <1>6. ASSUME NEW c \in Calls, NEW op \in {"feedback", "resample"}, NEW s \in Samples,
               BeginCall(c, op, s)
        PROVE  SampleInv'
    <2> DEFINE call == [op |-> op, sample |-> s]
    <2>1. /\ s \in Existing /\ Ready(op, s)
          /\ calls' = [calls EXCEPT ![c] = call]
          /\ UNCHANGED <<samples, feedback, forms>>
      BY <1>6 DEF BeginCall
    <2>2. call \in CallRow /\ call.op = op /\ call.sample = s
      BY DEF CallRow
    <2> HIDE DEF call
    <2>3. TypeOK'
      BY <2>1, <2>2 DEF TypeOK
    <2>4. op = "feedback" => samples[s].dispatched
      BY <2>1 DEF Ready, StatusIsEarned, DISPATCHED_STATUSES
    <2>5. op = "resample" => feedback[s] # NoFeedback
      BY <2>1 DEF Ready, AnswersFollowDispatch, FEEDBACK_DECISIONS
    <2>6. CallsAreFounded'
      BY <2>1, <2>2, <2>4, <2>5 DEF CallsAreFounded, Existing, TypeOK
    <2>7. QED
      BY <2>1, <2>3, <2>6 DEF RoundsFormChains, AnswersFollowDispatch,
            FormsAreCurrent, StatusIsEarned, Existing, Resamples
  <1>7. ASSUME NEW c \in Calls, AbandonCall(c)
        PROVE  SampleInv'
    BY <1>7 DEF AbandonCall, TypeOK, RoundsFormChains, AnswersFollowDispatch,
        FormsAreCurrent, CallsAreFounded, StatusIsEarned, Existing, Resamples
  <1>8. ASSUME NEW c \in Calls, NEW decision \in DecisionInputs,
               RecordCustomerFeedback(c, decision)
        PROVE  SampleInv'
    BY <1>8, AnswerPreserves
  <1>9. ASSUME NEW c \in Calls, NEW new \in Samples, CreateResample(c, new)
        PROVE  SampleInv'
    <2> DEFINE p == calls[c].sample
               r == NextRound(p)
    <2>1. /\ calls[c] # NoCall /\ calls[c].op = "resample"
          /\ Resamples(p) = {} /\ samples[new] = Absent /\ ValidRound(r)
          /\ samples' = [samples EXCEPT ![new] = r]
          /\ calls' = [calls EXCEPT ![c] = NoCall]
          /\ UNCHANGED <<feedback, forms>>
      BY <1>9 DEF CreateResample, Proceeds
    <2>2. p \in Existing /\ feedback[p] # NoFeedback
      BY <2>1 DEF CallsAreFounded
    <2>3. r \in SampleRow
      BY <2>2, NextRoundTyped
    <2>4. ~ r.feedback /\ r.status \notin DISPATCHED_STATUSES /\ r.previous = p
      BY DEF NextRound, DISPATCHED_STATUSES, FEEDBACK_DECISIONS
    <2> HIDE DEF p, r
    <2>5. /\ calls' \in [Calls -> CallRow \cup {NoCall}]
          /\ \A d \in Calls : calls'[d] # NoCall => calls'[d] = calls[d]
      BY <2>1 DEF TypeOK
    <2>6. QED
      BY <2>1, <2>2, <2>3, <2>4, <2>5, InsertPreserves
  <1>10. CASE UNCHANGED vars
    BY <1>10 DEF vars, TypeOK, RoundsFormChains, AnswersFollowDispatch,
        FormsAreCurrent, CallsAreFounded, StatusIsEarned, Existing, Resamples
  <1>11. QED
    BY <1>1, <1>2, <1>3, <1>4, <1>5, <1>6, <1>7, <1>8, <1>9, <1>10 DEF Next

-----------------------------------------------------------------------------
(* The theorems.                                                           *)

\* The invariant holds in every reachable state.
THEOREM SampleInvariant == Spec => []SampleInv
  <1>1. QED
    BY InvInit, InvNext, PTL DEF Spec

\* Every variable keeps its type (sample_workflow.py, sample_request.py).
THEOREM SampleTypes == Spec => []TypeOK
  <1>1. SampleInv => TypeOK
    BY DEF SampleInv
  <1>2. QED
    BY <1>1, SampleInvariant, PTL

\* The rounds of a sample form one chain (create_resample).
THEOREM RoundsSound == Spec => []RoundsFormChains
  <1>1. SampleInv => RoundsFormChains
    BY DEF SampleInv
  <1>2. QED
    BY <1>1, SampleInvariant, PTL

\* Answers belong to samples that were sent (record_customer_feedback).
THEOREM AnswersSound == Spec => []AnswersFollowDispatch
  <1>1. SampleInv => AnswersFollowDispatch
    BY DEF SampleInv
  <1>2. QED
    BY <1>1, SampleInvariant, PTL

\* No save, of a form opened before the answer either, changes or unlinks it.
THEOREM AnswersKept == Spec => AnswersAreKept
  <1> DEFINE Kept == \A s \in Samples :
                        feedback[s] # NoFeedback =>
                            feedback'[s] = feedback[s] /\ samples'[s].feedback
  <1>1. SampleInv /\ SampleInv' /\ [Next]_vars => [Kept]_vars
    <2> SUFFICES ASSUME SampleInv, SampleInv', [Next]_vars,
                        NEW s \in Samples, feedback[s] # NoFeedback
                 PROVE  feedback'[s] = feedback[s] /\ samples'[s].feedback
      OBVIOUS
    <2>1. feedback'[s] = feedback[s]
      BY DEF Next, CreateSample, OpenForm, SaveForm, ApplyWorkflow, DispatchSample,
          BeginCall, AbandonCall, RecordCustomerFeedback, CreateResample, vars,
          SampleInv, TypeOK
    <2>2. samples'[s].feedback
      BY <2>1 DEF SampleInv, AnswersFollowDispatch
    <2>3. QED
      BY <2>1, <2>2
  <1>2. QED
    BY <1>1, SampleInvariant, PTL DEF Spec, AnswersAreKept

\* What was sent stays as it was sent, until a user changes what he has before him
\* or takes the sample back (dispatch_sample, SampleRequest.validate).
THEOREM SentKept == Spec => SentAsDispatched
  <1> DEFINE Kept(s) == /\ samples'[s].dispatched
                        /\ samples'[s].tracking # samples[s].tracking =>
                              forms[s] = samples[s] \/ samples[s].status = "Prepared"
  <1>1. SampleInv /\ [Next]_vars =>
            [\A s \in Existing : samples[s].dispatched => Kept(s)]_vars
    <2> SUFFICES ASSUME SampleInv, [Next]_vars, NEW s \in Existing, samples[s].dispatched
                 PROVE  Kept(s)
      OBVIOUS
    <2>1. s \in Samples /\ samples[s] \in SampleRow /\ samples[s] # Absent
      BY ExistingTyped DEF SampleInv, Existing
    <2>2. ASSUME NEW x \in Samples, NEW status, NEW inspected, NEW tracking,
                 SaveForm(x, status, inspected, tracking)
          PROVE  Kept(s)
      <3>1. CASE x = s
        BY <2>1, <2>2, <3>1 DEF SaveForm, SampleInv, FormsAreCurrent, TypeOK, SampleRow
      <3>2. CASE x # s
        BY <2>1, <2>2, <3>2 DEF SaveForm, SampleInv, TypeOK
      <3>3. QED
        BY <3>1, <3>2
    <2>3. ASSUME NEW x \in Samples, NEW t \in ApprovalTransitions, ApplyWorkflow(x, t)
          PROVE  Kept(s)
      <3>1. CASE x = s
        BY <2>1, <2>3, <3>1 DEF ApplyWorkflow, SampleInv, TypeOK, SampleRow
      <3>2. CASE x # s
        BY <2>1, <2>3, <3>2 DEF ApplyWorkflow, SampleInv, TypeOK
      <3>3. QED
        BY <3>1, <3>2
    <2>4. ASSUME NEW x \in Samples, NEW tracking \in Trackings, DispatchSample(x, tracking)
          PROVE  Kept(s)
      <3>1. CASE x = s
        BY <2>1, <2>4, <3>1 DEF DispatchSample, SampleInv, TypeOK, SampleRow
      <3>2. CASE x # s
        BY <2>1, <2>4, <3>2 DEF DispatchSample, SampleInv, TypeOK
      <3>3. QED
        BY <3>1, <3>2
    <2>5. ASSUME NEW c \in Calls, NEW decision, RecordCustomerFeedback(c, decision)
          PROVE  Kept(s)
      BY <2>1, <2>5 DEF RecordCustomerFeedback, SampleInv, TypeOK, SampleRow
    <2>6. ASSUME NEW x \in Samples, samples[x] = Absent,
                 \E row : samples' = [samples EXCEPT ![x] = row]
          PROVE  Kept(s)
      BY <2>1, <2>6 DEF SampleInv, TypeOK
    <2>7. ASSUME NEW x \in Samples, NEW status, NEW inspected, NEW tracking,
                 CreateSample(x, status, inspected, tracking)
          PROVE  Kept(s)
      BY <2>6, <2>7 DEF CreateSample
    <2>8. ASSUME NEW c \in Calls, NEW x \in Samples, CreateResample(c, x)
          PROVE  Kept(s)
      BY <2>6, <2>8 DEF CreateResample
    <2>9. CASE UNCHANGED samples
      BY <2>9
    <2> HIDE DEF Kept
    <2>10. QED
      BY <2>2, <2>3, <2>4, <2>5, <2>7, <2>8, <2>9, SampleAssumption
      DEF Next, vars, OpenForm, BeginCall, AbandonCall
  <1>2. QED
    BY <1>1, SampleInvariant, PTL DEF Spec, SentAsDispatched
=============================================================================
