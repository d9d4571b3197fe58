----------------------- MODULE ExceptionWorkflowProofs -----------------------
(***************************************************************************)
(* What ExceptionWorkflow guarantees for any users, actions and files.     *)
(* Type correctness and ClosedOnVerifiedWork are inductive together: only  *)
(* Close makes an exception closed, and afterwards no action is enabled.   *)
(***************************************************************************)
EXTENDS ExceptionWorkflow, TLAPS

ExceptionInv == TypeOK /\ ClosedOnVerifiedWork

\* A raised exception has a row.
LEMMA Raised == TypeOK /\ doc # NotRaised => doc \in ExceptionRow
  BY DEF TypeOK

\* The table of transitions leads to statuses, and nowhere from a terminal one.
LEMMA TransitionsTyped ==
    \A st \in STATUSES :
        /\ TRANSITIONS[st] \subseteq STATUSES \ {st}
        /\ st \in TERMINAL_STATUSES => TRANSITIONS[st] = {}
        /\ "Closed" \in TRANSITIONS[st] => st = "ToVerify"
  BY DEF TRANSITIONS, STATUSES, TERMINAL_STATUSES

\* A step of transition_exception that changes the status, and perhaps resets
\* the verification, leaves a row.
LEMMA MoveTyped ==
    ASSUME TypeOK, NEW target, MayMove(target),
           NEW file \in Files \cup {NoFile}, NEW u \in Users \cup {NoUser}
    PROVE  /\ doc \in ExceptionRow
           /\ target \in STATUSES
           /\ doc.status \notin TERMINAL_STATUSES
           /\ [doc EXCEPT !.status = target] \in ExceptionRow
           /\ [doc EXCEPT !.status = target, !.verificationEvidence = file,
                          !.verifiedBy = u] \in ExceptionRow
  <1>1. doc \in ExceptionRow
    BY Raised DEF MayMove
  <1>2. doc.status \in STATUSES /\ target \in TRANSITIONS[doc.status]
    BY <1>1 DEF MayMove, ExceptionRow
  <1>3. target \in STATUSES /\ doc.status \notin TERMINAL_STATUSES
    BY <1>2, TransitionsTyped
  <1>4. QED
    BY <1>1, <1>3 DEF ExceptionRow

\* What a form can send is a row once validate has accepted its level, and has
\* the status, reporter and verification of the row it was opened on.
LEMMA EditTyped ==
    ASSUME TypeOK, doc # NotRaised, NEW r \in Edits, ValidException(r)
    PROVE  /\ r \in ExceptionRow
           /\ r.status = doc.status
           /\ r.raisedBy = doc.raisedBy
  <1>1. doc \in ExceptionRow
    BY Raised
  <1>2. CASE \E level \in LevelInputs : r = [doc EXCEPT !.riskLevel = level]
    BY <1>1, <1>2 DEF ExceptionRow, ValidException
  <1>3. CASE \E u \in Users \cup {NoUser} : r = [doc EXCEPT !.responsibleUser = u]
    BY <1>1, <1>3 DEF ExceptionRow
  <1>4. CASE \E given \in BOOLEAN : r = [doc EXCEPT !.rootCause = given]
    BY <1>1, <1>4 DEF ExceptionRow
  <1>5. CASE \E a \in Actions, row \in ActionRow \cup {NoAction} :
                r = [doc EXCEPT !.actions = [@ EXCEPT ![a] = row]]
    <2>1. PICK a \in Actions, row \in ActionRow \cup {NoAction} :
                r = [doc EXCEPT !.actions = [doc.actions EXCEPT ![a] = row]]
      BY <1>5
    <2>2. [doc.actions EXCEPT ![a] = row] \in [Actions -> ActionRow \cup {NoAction}]
      BY <1>1 DEF ExceptionRow
    <2>3. QED
      BY <1>1, <2>1, <2>2 DEF ExceptionRow
  <1>6. QED
    BY <1>2, <1>3, <1>4, <1>5 DEF Edits

LEMMA InvInit == Init => ExceptionInv
  BY DEF Init, ExceptionInv, TypeOK, ClosedOnVerifiedWork

\* A closing is verified when it happens.
LEMMA ClosePreserves ==
    ASSUME TypeOK, NEW u \in Users, NEW file \in Files, Close(u, file)
    PROVE  ExceptionInv'
  <1> DEFINE r == [doc EXCEPT !.status = "Closed", !.verificationEvidence = file,
                              !.verifiedBy = u]
  <1>1. MayMove("Closed") /\ doc' = r
    BY DEF Close
  <1>2. doc \in ExceptionRow /\ r \in ExceptionRow
    BY <1>1, MoveTyped
  <1>3. /\ r.verifiedBy = u /\ r.verificationEvidence = file
        /\ r.actions = doc.actions /\ r.riskLevel = doc.riskLevel
        /\ r.raisedBy = doc.raisedBy /\ r.responsibleUser = doc.responsibleUser
    BY <1>2 DEF ExceptionRow
  <1>4. \A a \in Actions : doc.actions[a] \in ActionRow \cup {NoAction}
    BY <1>2 DEF ExceptionRow
  <1>5. \E a \in Actions : doc.actions[a] # NoAction
    BY DEF Close, ActionEvidence, Taken
  <1>6. ASSUME NEW a \in Actions, doc.actions[a] # NoAction
        PROVE  /\ doc.actions[a].completed
               /\ doc.actions[a].evidence \in Files
               /\ FileOwner[doc.actions[a].evidence] = doc.actions[a].ownerUser
               /\ doc.riskLevel = "High" => doc.actions[a].ownerUser # u
    <2>1. a \in Taken(doc) /\ doc.actions[a] \in ActionRow
      BY <1>4, <1>6 DEF Taken
    <2>2. /\ doc.actions[a].completed
          /\ doc.actions[a].evidence # NoFile
          /\ FileOwner[doc.actions[a].evidence] = doc.actions[a].ownerUser
      BY <2>1 DEF Close, ActionEvidence
    <2>3. doc.riskLevel = "High" => doc.actions[a].ownerUser # u
      BY <2>1 DEF Close, IndependentVerifier, ActionOwners
    <2>4. QED
      BY <2>1, <2>2, <2>3 DEF ActionRow
  <1>7. doc.riskLevel = "High" => u \notin {doc.raisedBy, doc.responsibleUser}
    BY DEF Close, IndependentVerifier
  <1>8. FileOwner[file] = u
    BY DEF Close
  <1> HIDE DEF r
  <1>9. ClosedOnVerifiedWork'
    BY <1>1, <1>3, <1>5, <1>6, <1>7, <1>8 DEF ClosedOnVerifiedWork
  <1>10. QED
    BY <1>1, <1>2, <1>9 DEF ExceptionInv, TypeOK

\* Every step preserves the invariant.
LEMMA InvNext == ExceptionInv /\ [Next]_doc => ExceptionInv'
  <1> SUFFICES ASSUME ExceptionInv, [Next]_doc PROVE ExceptionInv'
    OBVIOUS
  <1> USE DEF ExceptionInv
  <1>1. ASSUME NEW u \in Users, NEW level \in LevelInputs, Raise(u, level)
        PROVE  ExceptionInv'
    <2>1. doc' \in ExceptionRow /\ doc'.status = "Found"
      BY <1>1 DEF Raise, ValidException, ExceptionRow, STATUSES
    <2>2. QED
      BY <2>1 DEF TypeOK, ClosedOnVerifiedWork
  <1>2. ASSUME doc # NotRaised, NEW r \in Edits, SaveForm(r)
        PROVE  ExceptionInv'
    <2>1. doc' \in ExceptionRow /\ doc'.status = doc.status
      BY <1>2, EditTyped DEF SaveForm
    <2>2. doc'.status # "Closed"
      BY <1>2, <2>1 DEF SaveForm, TERMINAL_STATUSES
    <2>3. QED
      BY <2>1, <2>2 DEF TypeOK, ClosedOnVerifiedWork
  <1>3. ASSUME NEW target \in STATUSES \ {"Closed"}, MayMove(target),
               doc' = [doc EXCEPT !.status = target]
        PROVE  ExceptionInv'
    <2>1. doc' \in ExceptionRow /\ doc \in ExceptionRow
      BY <1>3, MoveTyped
    <2>2. doc'.status # "Closed"
      BY <1>3, <2>1 DEF ExceptionRow
    <2>3. QED
      BY <2>1, <2>2 DEF TypeOK, ClosedOnVerifiedWork
  <1>4. CASE StartCorrection
    <2>1. doc' \in ExceptionRow /\ doc \in ExceptionRow
      BY <1>4, MoveTyped DEF StartCorrection
    <2>2. doc'.status # "Closed"
      BY <1>4, <2>1 DEF StartCorrection, ExceptionRow
    <2>3. QED
      BY <2>1, <2>2 DEF TypeOK, ClosedOnVerifiedWork
  <1>5. ASSUME NEW u \in Users, NEW file \in Files, Close(u, file)
        PROVE  ExceptionInv'
    BY <1>5, ClosePreserves
  <1>6. CASE Grade \/ Assign \/ Analyse \/ AskVerification \/ Cancel
    <2>1. {"Graded", "Assigned", "Analysing", "ToVerify", "Cancelled"}
              \subseteq STATUSES \ {"Closed"}
      BY DEF STATUSES, TERMINAL_STATUSES
    <2>2. QED
      BY <1>3, <1>6, <2>1 DEF Grade, Assign, Analyse, AskVerification, Cancel
  <1>7. CASE UNCHANGED doc
    BY <1>7 DEF TypeOK, ClosedOnVerifiedWork
  <1>8. QED
    BY <1>1, <1>2, <1>4, <1>5, <1>6, <1>7 DEF Next

-----------------------------------------------------------------------------
(* The theorems.                                                           *)

\* The invariant holds in every reachable state.
THEOREM ExceptionInvariant == Spec => []ExceptionInv
  BY InvInit, InvNext, PTL DEF Spec

\* Every variable keeps its type (exception_workflow.py).
THEOREM ExceptionTypes == Spec => []TypeOK
  <1>1. ExceptionInv => TypeOK
    BY DEF ExceptionInv
  <1>2. QED
    BY <1>1, ExceptionInvariant, PTL

\* A closed exception was verified, by somebody else if it is high, and stays so
\* (transition_exception).
THEOREM ClosedVerified == Spec => []ClosedOnVerifiedWork
  <1>1. ExceptionInv => ClosedOnVerifiedWork
    BY DEF ExceptionInv
  <1>2. QED
    BY <1>1, ExceptionInvariant, PTL

\* The trail of an exception is kept (BusinessException.validate).
THEOREM TrailKept == Spec => TrailIsKept
  <1> DEFINE Kept == doc # NotRaised =>
                       /\ doc' # NotRaised
                       /\ doc'.raisedBy = doc.raisedBy
                       /\ doc'.status # doc.status =>
                             doc'.status \in TRANSITIONS[doc.status]
                       /\ doc.status \in TERMINAL_STATUSES => doc' = doc
  <1>1. TypeOK /\ TypeOK' /\ [Next]_doc => [Kept]_doc
    <2> SUFFICES ASSUME TypeOK, TypeOK', Next, doc # NotRaised PROVE Kept
      OBVIOUS
    <2>1. doc \in ExceptionRow /\ doc.status \in STATUSES
      BY Raised DEF ExceptionRow
    <2>2. \A r \in ExceptionRow : r # NotRaised
      BY DEF ExceptionRow, NotRaised, STATUSES, TERMINAL_STATUSES
    <2>3. ASSUME NEW r \in Edits, SaveForm(r)
          PROVE  Kept
      BY <2>2, <2>3, EditTyped DEF SaveForm
    <2>4. ASSUME NEW target, MayMove(target),
                 NEW file \in Files \cup {NoFile}, NEW u \in Users \cup {NoUser},
                 \/ doc' = [doc EXCEPT !.status = target]
                 \/ doc' = [doc EXCEPT !.status = target,
                                       !.verificationEvidence = file, !.verifiedBy = u]
          PROVE  Kept
      <3>0. /\ doc.status \notin TERMINAL_STATUSES
            /\ [doc EXCEPT !.status = target] \in ExceptionRow
            /\ [doc EXCEPT !.status = target, !.verificationEvidence = file,
                           !.verifiedBy = u] \in ExceptionRow
        BY <2>4, MoveTyped
      <3>1. /\ doc' \in ExceptionRow
            /\ doc.status \notin TERMINAL_STATUSES
        BY <2>4, <3>0
      <3>2. doc'.status = target /\ doc'.raisedBy = doc.raisedBy
        BY <2>1, <2>4 DEF ExceptionRow
      <3>3. QED
        BY <2>2, <2>4, <3>1, <3>2 DEF MayMove
    <2>5. ASSUME NEW u \in Users, NEW level \in LevelInputs, Raise(u, level)
          PROVE  Kept
      BY <2>5 DEF Raise
    <2> HIDE DEF Kept
    <2>6. QED
      BY <2>3, <2>4, <2>5
      DEF Next, Grade, Assign, Analyse, StartCorrection, AskVerification, Close, Cancel
  <1>2. ExceptionInv => TypeOK
    BY DEF ExceptionInv
  <1>3. QED
    BY <1>1, <1>2, ExceptionInvariant, PTL DEF Spec, TrailIsKept
=============================================================================
