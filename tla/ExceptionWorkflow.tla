-------------------------- MODULE ExceptionWorkflow --------------------------
(***************************************************************************)
(* One Business Exception from its report to its verified closure.         *)
(*                                                                         *)
(* Models services/exception_workflow.py and the controllers of Business   *)
(* Exception and Corrective Action.  Several people edit the exception by  *)
(* form while its status moves by transition_exception.  Both end in a     *)
(* save, which the framework refuses when the row has changed since the    *)
(* document was read, so a transaction that succeeds has read the current  *)
(* row: each is one step.  A form may change several fields; every order   *)
(* of single changes is allowed here, which reaches the same rows.         *)
(***************************************************************************)
EXTENDS FiniteSets

CONSTANTS
    Users,
    Actions,     \* rows of the table of corrective actions
    Files,       \* private files
    FileOwner,   \* who uploaded a file
    NoUser, NoFile

ASSUME ExceptionAssumption ==
    /\ FileOwner \in [Files -> Users]
    /\ NoUser \notin Users
    /\ NoFile \notin Files

RISK_LEVELS == {"Lower", "High"}   \* Lower: the low and the middle level
TERMINAL_STATUSES == {"Closed", "Cancelled"}
STATUSES == {"Found", "Graded", "Assigned", "Analysing", "Correcting", "ToVerify"}
                \cup TERMINAL_STATUSES

\* Levels a client may send.
LevelInputs == RISK_LEVELS \cup {"Unknown"}

TRANSITIONS ==
    [ st \in STATUSES |->
        CASE st = "Found"      -> {"Graded", "Cancelled"}
          [] st = "Graded"     -> {"Assigned", "Cancelled"}
          [] st = "Assigned"   -> {"Analysing", "Cancelled"}
          [] st = "Analysing"  -> {"Correcting", "Cancelled"}
          [] st = "Correcting" -> {"ToVerify", "Cancelled"}
          [] st = "ToVerify"   -> {"Closed", "Correcting"}
          [] OTHER             -> {} ]

ActionRow ==
    [ ownerUser : Users, completed : BOOLEAN, evidence : Files \cup {NoFile} ]

NoAction == [completed |-> FALSE]
NotRaised == [status |-> "NotRaised"]

ExceptionRow ==
    [ status : STATUSES, riskLevel : RISK_LEVELS, raisedBy : Users,
      responsibleUser : Users \cup {NoUser},   \* with department and target date
      rootCause : BOOLEAN,                     \* of at least 10 characters
      actions : [Actions -> ActionRow \cup {NoAction}],
      verificationEvidence : Files \cup {NoFile},
      verifiedBy : Users \cup {NoUser} ]

VARIABLE doc   \* the Business Exception row

Taken(r) == {a \in Actions : r.actions[a] # NoAction}
ActionOwners(r) == {r.actions[a].ownerUser : a \in Taken(r)}

TypeOK == doc \in ExceptionRow \cup {NotRaised}

Init == doc = NotRaised

-----------------------------------------------------------------------------
(* Checks.                                                                 *)

\* A mutant: the level of a save is not checked.
ValidActionsOnly(r) ==
    \A a \in Taken(r) : r.actions[a].completed => r.actions[a].evidence # NoFile

\* BusinessException.validate with CorrectiveAction.validate.
ValidException(r) ==
    /\ r.riskLevel \in RISK_LEVELS
    /\ \A a \in Taken(r) : r.actions[a].completed => r.actions[a].evidence # NoFile

\* _validate_action_evidence.
ActionEvidence(r) ==
    /\ Taken(r) # {}
    /\ \A a \in Taken(r) :
          /\ r.actions[a].completed
          /\ r.actions[a].evidence # NoFile
          /\ FileOwner[r.actions[a].evidence] = r.actions[a].ownerUser

\* _validate_independent_verifier.
IndependentVerifier(u, r) ==
    r.riskLevel = "High" => u \notin {r.raisedBy, r.responsibleUser} \cup ActionOwners(r)

-----------------------------------------------------------------------------
(* Reports and forms.                                                      *)

Raise(u, level) ==
    LET r == [ status |-> "Found", riskLevel |-> level, raisedBy |-> u,
               responsibleUser |-> NoUser, rootCause |-> FALSE,
               actions |-> [a \in Actions |-> NoAction],
               verificationEvidence |-> NoFile, verifiedBy |-> NoUser ]
    IN  /\ doc = NotRaised
        /\ ValidException(r)
        /\ doc' = r

\* What a form can turn the exception into with one change.
Edits ==
    {[doc EXCEPT !.riskLevel = level] : level \in LevelInputs}
        \cup {[doc EXCEPT !.responsibleUser = u] : u \in Users \cup {NoUser}}
        \cup {[doc EXCEPT !.rootCause = given] : given \in BOOLEAN}
        \cup {[doc EXCEPT !.actions = [@ EXCEPT ![a] = row]] :
                  a \in Actions, row \in ActionRow \cup {NoAction}}

\* A mutant: only a cancelled exception is final.
SaveClosedForm(r) ==
    /\ doc.status # "Cancelled"
    /\ ValidException(r)
    /\ doc' = r

\* A save outside the workflow leaves the status and the verification alone,
\* and nothing at all once the saved status is terminal.
SaveForm(r) ==
    /\ doc.status \notin TERMINAL_STATUSES
    /\ ValidException(r)
    /\ doc' = r

-----------------------------------------------------------------------------
(* transition_exception.                                                   *)

\* A mutant: any other status is a legal target.
MayMoveAnywhere(target) == doc # NotRaised /\ target # doc.status

\* The target is another status that can be reached from this one.
MayMove(target) == doc # NotRaised /\ target \in TRANSITIONS[doc.status]

Grade ==
    /\ MayMove("Graded")
    /\ doc' = [doc EXCEPT !.status = "Graded"]

Assign ==
    /\ MayMove("Assigned")
    /\ doc.responsibleUser # NoUser
    /\ doc' = [doc EXCEPT !.status = "Assigned"]

Analyse ==
    /\ MayMove("Analysing")
    /\ doc' = [doc EXCEPT !.status = "Analysing"]

\* From the analysis, or back from a verification that failed.
StartCorrection ==
    /\ MayMove("Correcting")
    /\ doc.rootCause
    /\ Taken(doc) # {}
    /\ doc' = [doc EXCEPT !.status = "Correcting", !.verificationEvidence = NoFile,
                          !.verifiedBy = NoUser]

AskVerification ==
    /\ MayMove("ToVerify")
    /\ ActionEvidence(doc)
    /\ doc' = [doc EXCEPT !.status = "ToVerify"]

\* The actions may have been edited since AskVerification: they are looked at again.
Close(u, evidence) ==
    /\ MayMove("Closed")
    /\ ActionEvidence(doc)
    /\ FileOwner[evidence] = u
    /\ IndependentVerifier(u, doc)
    /\ doc' = [doc EXCEPT !.status = "Closed", !.verificationEvidence = evidence,
                          !.verifiedBy = u]

\* With a reason, which nothing else depends on.
Cancel ==
    /\ MayMove("Cancelled")
    /\ doc' = [doc EXCEPT !.status = "Cancelled"]

Next ==
    \/ \E u \in Users, level \in LevelInputs : Raise(u, level)
    \/ doc # NotRaised /\ \E r \in Edits : SaveForm(r)
    \/ Grade
    \/ Assign
    \/ Analyse
    \/ StartCorrection
    \/ AskVerification
    \/ \E u \in Users, evidence \in Files : Close(u, evidence)
    \/ Cancel

Spec == Init /\ [][Next]_doc

-----------------------------------------------------------------------------
(* What must hold.                                                         *)

\* A closed exception stays verified: every action done with a file of its
\* owner, evidence uploaded by the verifier, and, of a high one, a verifier who
\* neither raised it nor is named in it - as it stands now, after all edits by
\* form before the closing.  (exception_workflow.py 57-87, 136-142.)
ClosedOnVerifiedWork ==
    doc # NotRaised /\ doc.status = "Closed" =>
        /\ doc.verifiedBy \in Users
        /\ doc.verificationEvidence \in Files
        /\ FileOwner[doc.verificationEvidence] = doc.verifiedBy
        /\ \E a \in Actions : doc.actions[a] # NoAction
        /\ \A a \in Actions : doc.actions[a] # NoAction =>
              /\ doc.actions[a].completed
              /\ doc.actions[a].evidence \in Files
              /\ FileOwner[doc.actions[a].evidence] = doc.actions[a].ownerUser
              /\ doc.riskLevel = "High" => doc.actions[a].ownerUser # doc.verifiedBy
        /\ doc.riskLevel = "High" => doc.verifiedBy \notin {doc.raisedBy, doc.responsibleUser}

\* The trail: an exception is raised once, moves along TRANSITIONS only, keeps
\* who raised it, and is final when closed or cancelled.  (exception_workflow.py
\* 9-16, business_exception.py 48-61.)
TrailIsKept ==
    [][doc # NotRaised =>
          /\ doc' # NotRaised
          /\ doc'.raisedBy = doc.raisedBy
          /\ doc'.status # doc.status => doc'.status \in TRANSITIONS[doc.status]
          /\ doc.status \in TERMINAL_STATUSES => doc' = doc]_doc
=============================================================================
