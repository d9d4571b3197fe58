--------------------------- MODULE SampleWorkflow ---------------------------
(***************************************************************************)
(* The Sample Requests of one Customer Project: approval, inspection,      *)
(* dispatch, the one answer of the customer, and the next round.           *)
(*                                                                         *)
(* Models services/sample_workflow.py, the controllers of Sample Request   *)
(* and Customer Feedback and the workflow that setup/workflows.py          *)
(* installs.  A web request is one transaction.  Where it ends in a save   *)
(* the framework compares the row under its lock with the document in hand *)
(* and refuses the save of an outdated one, so a form is opened in one     *)
(* step and saved in another.  record_customer_feedback and                *)
(* create_resample take two steps as well: their first read may fix the    *)
(* snapshot the later ones see, they end in no such comparison, and only   *)
(* the lock of the sample row and the unique indexes are between them.     *)
(***************************************************************************)
EXTENDS Naturals

CONSTANTS
    Samples,      \* potential Sample Requests of the project
    Calls,        \* calls of the two services in flight at a time
    Trackings,    \* carrier and tracking number, filled in
    NoTracking, NoSample, NoCall, NoForm,
    FirstRounds,  \* bound: the samples inserted by a form
    FormSamples,  \* bound: the samples whose forms users save
    FormStatuses, \* bound: the statuses users choose in a form
    InApproval    \* bound: the samples that go through the approval workflow

ASSUME SampleAssumption ==
    /\ NoTracking \notin Trackings
    /\ NoSample \notin Samples
    /\ FirstRounds \subseteq Samples
    /\ FormSamples \subseteq Samples
    /\ InApproval \subseteq Samples

-----------------------------------------------------------------------------
(* Statuses.  Two statuses no guard tells apart are one here: Draft is the *)
(* draft and the one to be approved, Prepared is in production and in      *)
(* inspection, Dispatched is sent and awaiting feedback.                   *)

FEEDBACK_DECISIONS == {"Accepted", "Resample", "Refused"}
DISPATCHED_STATUSES == {"Dispatched"} \cup FEEDBACK_DECISIONS
Statuses == {"Draft", "Prepared"} \cup DISPATCHED_STATUSES

ASSUME FormStatusAssumption == FormStatuses \subseteq Statuses

\* Decisions a caller may pass to the service.
DecisionInputs == FEEDBACK_DECISIONS \cup {"Unknown"}
NoFeedback == "NoFeedback"

\* The transitions of the approval workflow; the last two set the status.
ApprovalTransitions ==
    { [from |-> "Draft",    to |-> "Pending"],
      [from |-> "Returned", to |-> "Pending"],
      [from |-> "Pending",  to |-> "Approved"],
      [from |-> "Pending",  to |-> "Returned"] }

SampleRow ==
    [ status : Statuses,
      approval : {"Draft", "Pending", "Approved", "Returned"},
      inspected : BOOLEAN,      \* inspection_status, and with it every item, has passed
      tracking : Trackings \cup {NoTracking},
      dispatched : BOOLEAN,     \* dispatch_time is set
      feedback : BOOLEAN,       \* the link to the Customer Feedback is set
      previous : Samples \cup {NoSample},
      round : Nat \ {0} ]

Absent == [status |-> "Absent"]

VARIABLES
    samples,   \* the Sample Request rows
    feedback,  \* the decision of the Customer Feedback row of each sample
    forms,     \* the copy of a row that an open form holds
    calls      \* calls of the services between their first read and the rest

vars == <<samples, feedback, forms, calls>>

Existing == {s \in Samples : samples[s] # Absent}
Resamples(s) == {x \in Existing : samples[x].previous = s}

\* SampleRequest.validate: dispatch fields and feedback link.  A form changes
\* neither the chain nor dispatch_time nor the link, they are read-only.
ValidSample(r) ==
    /\ r.status \in DISPATCHED_STATUSES =>
          r.inspected /\ r.dispatched /\ r.tracking # NoTracking
    /\ r.status \in FEEDBACK_DECISIONS => r.feedback

\* SampleRequest._validate_round_chain, of a new row.
ValidRound(r) ==
    r.round = IF r.previous = NoSample THEN 1 ELSE samples[r.previous].round + 1

\* The modified stamp of the row moves: an open form of it is outdated, its
\* save will be refused.
OutdateForm(s) == forms' = [forms EXCEPT ![s] = NoForm]

CallRow == [op : {"feedback", "resample"}, sample : Samples]

TypeOK ==
    /\ samples \in [Samples -> SampleRow \cup {Absent}]
    /\ feedback \in [Samples -> FEEDBACK_DECISIONS \cup {NoFeedback}]
    /\ forms \in [Samples -> SampleRow \cup {NoForm}]
    /\ calls \in [Calls -> CallRow \cup {NoCall}]

Init ==
    /\ samples = [s \in Samples |-> Absent]
    /\ feedback = [s \in Samples |-> NoFeedback]
    /\ forms = [s \in Samples |-> NoForm]
    /\ calls = [c \in Calls |-> NoCall]

-----------------------------------------------------------------------------
(* Forms and the approval workflow.                                        *)

\* A first-round sample, inserted by a form.
CreateSample(s, status, inspected, tracking) ==
    LET r == [ status |-> status, approval |-> "Draft", inspected |-> inspected,
               tracking |-> tracking, dispatched |-> FALSE, feedback |-> FALSE,
               previous |-> NoSample, round |-> 1 ]
    IN  /\ samples[s] = Absent
        /\ ValidRound(r)
        /\ ValidSample(r)
        /\ samples' = [samples EXCEPT ![s] = r]
        /\ UNCHANGED <<feedback, forms, calls>>

OpenForm(s) ==
    /\ s \in Existing \cap FormSamples
    /\ forms[s] = NoForm
    /\ forms' = [forms EXCEPT ![s] = samples[s]]
    /\ UNCHANGED <<samples, feedback, calls>>

\* The whole document goes back, the fields the user did not touch included.
SaveForm(s, status, inspected, tracking) ==
    LET r == [forms[s] EXCEPT !.status = status, !.inspected = inspected,
                              !.tracking = tracking]
    IN  /\ forms[s] # NoForm
        /\ status \in FormStatuses \cup {forms[s].status}
        /\ ValidSample(r)
        /\ samples' = [samples EXCEPT ![s] = r]
        /\ OutdateForm(s)
        /\ UNCHANGED <<feedback, calls>>

\* A transition of AutoFlow Sample Approval: the state, the status that goes
\* with it, and a save.  The status it finds does not matter.
ApplyWorkflow(s, t) ==
    LET r == [samples[s] EXCEPT
                  !.approval = t.to,
                  !.status = CASE t.to = "Approved" -> "Prepared"
                               [] t.to = "Returned" -> "Draft"
                               [] OTHER -> @]
    IN  /\ s \in Existing \cap InApproval
        /\ samples[s].approval = t.from
        /\ ValidSample(r)
        /\ samples' = [samples EXCEPT ![s] = r]
        /\ OutdateForm(s)
        /\ UNCHANGED <<feedback, calls>>

\* A mutant: a dispatched sample is dispatched again.
DispatchAgain(s, tracking) ==
    /\ s \in Existing
    /\ samples[s].status \in {"Prepared", "Dispatched"}
    /\ samples[s].inspected
    /\ samples' = [samples EXCEPT ![s].status = "Dispatched",
                                  ![s].tracking = tracking,
                                  ![s].dispatched = TRUE]
    /\ OutdateForm(s)
    /\ UNCHANGED <<feedback, calls>>

\* dispatch_sample ends in a save, so what it read is what is stored.  Of a
\* dispatched sample it changes nothing: the same tracking is answered with the
\* sample, another is refused.
DispatchSample(s, tracking) ==
    /\ s \in Existing
    /\ samples[s].status = "Prepared"
    /\ samples[s].inspected
    /\ samples' = [samples EXCEPT ![s].status = "Dispatched",
                                  ![s].tracking = tracking,
                                  ![s].dispatched = TRUE]
    /\ OutdateForm(s)
    /\ UNCHANGED <<feedback, calls>>

-----------------------------------------------------------------------------
(* record_customer_feedback and create_resample.                           *)

\* A mutant: any sample can be answered.
ReadyUnchecked(op, s) == op = "resample" => samples[s].status = "Resample"

\* The status a service asks of the sample it has reloaded.
Ready(op, s) ==
    IF op = "feedback" THEN samples[s].status = "Dispatched"
                       ELSE samples[s].status = "Resample"

\* The first read of the transaction, which may fix the snapshot of all its
\* plain reads: the reload under the row lock then shows the sample as it was
\* here, whatever has become of it.  (A call that reads the current row there
\* behaves as one that begins later.)
BeginCall(c, op, s) ==
    /\ calls[c] = NoCall
    /\ s \in Existing
    /\ Ready(op, s)
    /\ calls' = [calls EXCEPT ![c] = [op |-> op, sample |-> s]]
    /\ UNCHANGED <<samples, feedback, forms>>

\* The call holds the row lock and its sample passed the status check.
Proceeds(c, op) == calls[c] # NoCall /\ calls[c].op = op

\* An early return, an error of a check, of an index or of the isolation level,
\* a lock not obtained within 15 seconds: nothing is written.
AbandonCall(c) ==
    /\ calls[c] # NoCall
    /\ calls' = [calls EXCEPT ![c] = NoCall]
    /\ UNCHANGED <<samples, feedback, forms>>

\* A mutant: the decision is not checked.
InsertFeedbackUnchecked(c, decision) ==
    LET s == calls[c].sample
    IN  /\ Proceeds(c, "feedback")
        /\ feedback[s] = NoFeedback
        /\ feedback' = [feedback EXCEPT ![s] = decision]
        /\ samples' = [samples EXCEPT ![s].feedback = TRUE, ![s].status = decision]
        /\ OutdateForm(s)
        /\ calls' = [calls EXCEPT ![c] = NoCall]

\* A mutant: db_set with update_modified=False.
InsertFeedbackUnstamped(c, decision) ==
    LET s == calls[c].sample
    IN  /\ decision \in FEEDBACK_DECISIONS
        /\ Proceeds(c, "feedback")
        /\ feedback[s] = NoFeedback
        /\ feedback' = [feedback EXCEPT ![s] = decision]
        /\ samples' = [samples EXCEPT ![s].feedback = TRUE, ![s].status = decision]
        /\ calls' = [calls EXCEPT ![c] = NoCall]
        /\ UNCHANGED forms

\* The feedback row, which the unique index admits once for a sample, and the
\* status by db_set: no validation, no comparison, but a new modified stamp.
RecordCustomerFeedback(c, decision) ==
    LET s == calls[c].sample
    IN  /\ decision \in FEEDBACK_DECISIONS
        /\ Proceeds(c, "feedback")
        /\ feedback[s] = NoFeedback
        /\ feedback' = [feedback EXCEPT ![s] = decision]
        /\ samples' = [samples EXCEPT ![s].feedback = TRUE, ![s].status = decision]
        /\ OutdateForm(s)
        /\ calls' = [calls EXCEPT ![c] = NoCall]

\* The next round of s: a fresh copy, uninspected, linked to the round before.
NextRound(s) ==
    [ status |-> "Draft", approval |-> "Draft", inspected |-> FALSE,
      tracking |-> NoTracking, dispatched |-> FALSE, feedback |-> FALSE,
      previous |-> s, round |-> samples[s].round + 1 ]

\* A mutant: previous_sample_request without its unique index.
CreateResampleUnindexed(c, new) ==
    LET r == NextRound(calls[c].sample)
    IN  /\ Proceeds(c, "resample")
        /\ samples[new] = Absent
        /\ ValidRound(r)
        /\ samples' = [samples EXCEPT ![new] = r]
        /\ calls' = [calls EXCEPT ![c] = NoCall]
        /\ UNCHANGED <<feedback, forms>>

\* An existing next round is returned, or the unique index refuses a second.
CreateResample(c, new) ==
    LET r == NextRound(calls[c].sample)
    IN  /\ Proceeds(c, "resample")
        /\ Resamples(calls[c].sample) = {}
        /\ samples[new] = Absent
        /\ ValidRound(r)
        /\ samples' = [samples EXCEPT ![new] = r]
        /\ calls' = [calls EXCEPT ![c] = NoCall]
        /\ UNCHANGED <<feedback, forms>>

Next ==
    \/ \E s \in FirstRounds, status \in FormStatuses, inspected \in BOOLEAN,
          tracking \in Trackings \cup {NoTracking} :
              CreateSample(s, status, inspected, tracking)
    \/ \E s \in Samples : OpenForm(s)
    \/ \E s \in Samples, status \in Statuses, inspected \in BOOLEAN,
          tracking \in Trackings \cup {NoTracking} :
              SaveForm(s, status, inspected, tracking)
    \/ \E s \in Samples, t \in ApprovalTransitions : ApplyWorkflow(s, t)
    \/ \E s \in Samples, tracking \in Trackings : DispatchSample(s, tracking)
    \/ \E c \in Calls, op \in {"feedback", "resample"}, s \in Samples :
              BeginCall(c, op, s)
    \/ \E c \in Calls : AbandonCall(c)
    \/ \E c \in Calls, decision \in DecisionInputs : RecordCustomerFeedback(c, decision)
    \/ \E c \in Calls, new \in Samples : CreateResample(c, new)

Spec == Init /\ [][Next]_vars

-----------------------------------------------------------------------------
(* What must hold.                                                         *)

\* The rounds of a sample form one chain: a next round has the following number,
\* comes after an answered sample, and is the only one of it, whatever calls of
\* create_resample meet.  (previous_sample_request is unique; sample_workflow.py
\* 133-178, sample_request.py 23-45.)
RoundsFormChains ==
    \A s \in Existing :
        /\ samples[s].previous # NoSample =>
              /\ samples[s].previous \in Existing
              /\ samples[s].round = samples[samples[s].previous].round + 1
              /\ feedback[samples[s].previous] # NoFeedback
        /\ \A x, y \in Resamples(s) : x = y

\* The customer answers only what was sent: an answered sample once went out
\* through dispatch_sample, is linked with its one feedback, and no status of an
\* answer is shown without one.  (sample_workflow.py 83-130 writes two tables
\* without the controller's validation.)
AnswersFollowDispatch ==
    \A s \in Samples :
        /\ feedback[s] # NoFeedback =>
              /\ s \in Existing
              /\ samples[s].dispatched
              /\ samples[s].feedback
        /\ s \in Existing =>
              (samples[s].feedback \/ samples[s].status \in FEEDBACK_DECISIONS
                  => feedback[s] # NoFeedback)

\* An answer stays as it was given and stays linked, although forms opened
\* before it are saved after it.  (customer_feedback.py 14-23, the stamp that
\* sample_workflow.py 126-129 writes.)
AnswersAreKept ==
    [][\A s \in Samples :
          feedback[s] # NoFeedback =>
              feedback'[s] = feedback[s] /\ samples'[s].feedback]_vars

\* What was sent stays as it was sent: a repeated dispatch, a workflow transition,
\* an answer or a form opened before the dispatch and saved after it neither lose
\* that the sample went out nor overwrite its tracking.  Only a user who has the
\* sent sample before him, or the dispatch of a sample that one has taken back into
\* preparation, gives it another.  (sample_workflow.py 46-73, sample_request.py
\* 74-88.)
SentAsDispatched ==
    [][\A s \in Existing :
          samples[s].dispatched =>
              /\ samples'[s].dispatched
              /\ samples'[s].tracking # samples[s].tracking =>
                    forms[s] = samples[s] \/ samples[s].status = "Prepared"]_vars

\* docs/architecture/data-model.md:32: the final answer and the status of the
\* sample agree.  Nothing in SampleRequest.validate compares the two.
StatusShowsAnswer ==
    \A s \in Existing : feedback[s] # NoFeedback => samples[s].status = feedback[s]
=============================================================================
