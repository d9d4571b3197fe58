------------------------ MODULE DeliveryStockProofs ------------------------
(***************************************************************************)
(* What DeliveryStock guarantees for any number of orders, lines, bins and *)
(* deliveries.                                                             *)
(*                                                                         *)
(* A submission owns the order lines and the bins that it has locked: they *)
(* stay as its checks have seen them until it commits.  For the bins that  *)
(* is so because they are read after they were locked.  What is delivered  *)
(* of the lines is read in the snapshot, before or after; there it takes   *)
(* SnapshotIsolation, under which the lock of what has changed is refused. *)
(***************************************************************************)
EXTENDS DeliveryStock, FiniteSetTheorems, WellFoundedInduction, TLAPS

\* Two submissions own different rows.
Apart(d, e) ==
    /\ HeldLines(e) \cap HeldLines(d) = {}
    /\ submissions[e].bins \cap submissions[d].bins = {}

\* What a submission has checked still holds, and it takes the bins in order.
Sound(d) ==
    /\ submissions[d].checked => \A l \in LinesOf(d) : QuantityFits(d, l)
    /\ \A l \in Lines \ submissions[d].changed :
          submissions[d].delivered[l] = delivered[l]
    /\ SnapshotIsolation => HeldLines(d) \cap submissions[d].changed = {}
    /\ submissions[d].bins # {} => submissions[d].checked
    /\ \A b \in submissions[d].bins : b \in BinsOf(d) /\ Required[d][b] <= stock[b]
    /\ \A b \in submissions[d].bins, c \in BinsOf(d) \ submissions[d].bins : b < c

SubmissionsSound ==
    \A d \in Active : Sound(d) /\ \A e \in Active \ {d} : Apart(d, e)

DeliveryInv == TypeOK /\ SubmissionsSound

-----------------------------------------------------------------------------
(* Rows.                                                                   *)

\* The lines and bins of a delivery.
LEMMA RowsTyped ==
    ASSUME NEW d \in Deliveries
    PROVE  /\ LinesOf(d) \in SUBSET Lines
           /\ BinsOf(d) \in SUBSET Bins
           /\ \A l \in Lines \ LinesOf(d) : Quantity[d][l] = 0
           /\ \A b \in Bins \ BinsOf(d) : Required[d][b] = 0
  <1>1. RowsOf[d] \in Seq(Lines)
    BY DeliveryAssumption
  <1>2. \A i \in 1..Len(RowsOf[d]) : RowsOf[d][i] \in Lines
    BY <1>1
  <1>3. LinesOf(d) \in SUBSET Lines
    BY <1>2 DEF LinesOf
  <1>4. ASSUME NEW l \in Lines \ LinesOf(d)
        PROVE  Quantity[d][l] = 0
    <2>1. ~ \E i \in 1..Len(RowsOf[d]) : RowsOf[d][i] = l
      BY <1>4 DEF LinesOf
    <2>2. Quantity[d][l] # 0 => \E i \in 1..Len(RowsOf[d]) : RowsOf[d][i] = l
      BY DeliveryAssumption, Zenon
    <2> QED  BY <2>1, <2>2
  <1> QED  BY <1>3, <1>4 DEF BinsOf

\* What an active submission is.
LEMMA ActiveTyped ==
    ASSUME TypeOK, NEW d \in Active
    PROVE  /\ d \in Deliveries
           /\ submissions[d] \in Submission
           /\ submissions[d].rows \in Nat
           /\ submissions[d].rows <= Len(RowsOf[d])
           /\ HeldLines(d) \in SUBSET LinesOf(d)
           /\ submissions[d].checked => HeldLines(d) = LinesOf(d)
  <1>1. d \in Deliveries /\ submissions[d] \in Submission
    BY DEF TypeOK, Active
  <1>2. /\ submissions[d].rows \in Nat
        /\ submissions[d].rows <= Len(RowsOf[d])
        /\ submissions[d].checked => submissions[d].rows = Len(RowsOf[d])
    BY <1>1 DEF TypeOK, Submission, Active
  <1>3. Len(RowsOf[d]) \in Nat
    BY <1>1, DeliveryAssumption
  <1>4. HeldLines(d) \in SUBSET LinesOf(d)
    BY <1>2, <1>3 DEF HeldLines, LinesOf
  <1>5. submissions[d].checked => HeldLines(d) = LinesOf(d)
    BY <1>2 DEF HeldLines, LinesOf
  <1> QED  BY <1>1, <1>2, <1>4, <1>5

\* Submissions stay so when rows change under them.
LEMMA OutdatedTyped ==
    ASSUME TypeOK, NEW rows \in SUBSET (Lines \cup Bins)
    PROVE  /\ Outdated(rows) \in [Deliveries -> Submission \cup {NoSubmission}]
           /\ \A d \in Deliveries : Outdated(rows)[d] # NoSubmission =>
                /\ d \in Active
                /\ Outdated(rows)[d].delivered = submissions[d].delivered
                /\ Outdated(rows)[d].rows = submissions[d].rows
                /\ Outdated(rows)[d].checked = submissions[d].checked
                /\ Outdated(rows)[d].bins = submissions[d].bins
                /\ Outdated(rows)[d].changed = submissions[d].changed \cup rows
  <1>1. ASSUME NEW d \in Active
        PROVE  LET s == [submissions[d] EXCEPT !.changed = @ \cup rows]
               IN  /\ s \in Submission
                   /\ s.delivered = submissions[d].delivered
                   /\ s.rows = submissions[d].rows
                   /\ s.checked = submissions[d].checked
                   /\ s.bins = submissions[d].bins
                   /\ s.changed = submissions[d].changed \cup rows
    <2>1. submissions[d] \in Submission
      BY ActiveTyped
    <2> QED  BY <2>1 DEF Submission
  <1>2. \A d \in Deliveries :
           Outdated(rows)[d] = IF d \in Active
                               THEN [submissions[d] EXCEPT !.changed = @ \cup rows]
                               ELSE NoSubmission
    BY DEF Outdated
  <1>3. Outdated(rows) \in [Deliveries -> Submission \cup {NoSubmission}]
    BY <1>1 DEF Outdated
  <1>4. \A d \in Deliveries : Outdated(rows)[d] # NoSubmission =>
                /\ d \in Active
                /\ Outdated(rows)[d].delivered = submissions[d].delivered
                /\ Outdated(rows)[d].rows = submissions[d].rows
                /\ Outdated(rows)[d].checked = submissions[d].checked
                /\ Outdated(rows)[d].bins = submissions[d].bins
                /\ Outdated(rows)[d].changed = submissions[d].changed \cup rows
    BY <1>1, <1>2
  <1> QED  BY <1>3, <1>4

\* What a booking of a delivery makes of the lines and bins, and what it leaves.
LEMMA Bookings ==
    ASSUME TypeOK, NEW d \in Deliveries
    PROVE  LET more == [l \in Lines |-> delivered[l] + Quantity[d][l]]
               fewer == [l \in Lines |-> delivered[l] - Quantity[d][l]]
               less == [b \in Bins |-> stock[b] - Required[d][b]]
               back == [b \in Bins |-> stock[b] + Required[d][b]]
           IN  /\ more \in [Lines -> Int] /\ fewer \in [Lines -> Int]
               /\ less \in [Bins -> Int] /\ back \in [Bins -> Int]
               /\ \A l \in Lines \ LinesOf(d) :
                     more[l] = delivered[l] /\ fewer[l] = delivered[l]
               /\ \A b \in Bins \ BinsOf(d) : less[b] = stock[b] /\ back[b] = stock[b]
  <1>1. /\ delivered \in [Lines -> Int] /\ Quantity[d] \in [Lines -> Int]
        /\ stock \in [Bins -> Int] /\ Required[d] \in [Bins -> Int]
    BY DeliveryAssumption DEF TypeOK
  <1>2. /\ \A l \in Lines \ LinesOf(d) : Quantity[d][l] = 0
        /\ \A b \in Bins \ BinsOf(d) : Required[d][b] = 0
    BY RowsTyped
  <1> QED  BY <1>1, <1>2

-----------------------------------------------------------------------------
(* Types.                                                                  *)

\* A step keeps the types.
LEMMA TypesKept ==
    ASSUME TypeOK, [Next]_vars
    PROVE  TypeOK'
  <1>1. \A d \in Deliveries : Len(RowsOf[d]) \in Nat
    BY DeliveryAssumption
  <1>2. ASSUME NEW d \in Deliveries, NEW given, Begin(d, given)
        PROVE  TypeOK'
    <2> DEFINE s == [ delivered |-> delivered, rows |-> 0, checked |-> FALSE,
                      bins |-> {}, changed |-> {} ]
    <2>1. s \in Submission /\ s.rows = 0 /\ ~s.checked
      BY DEF TypeOK, Submission
    <2>2. submissions' = [submissions EXCEPT ![d] = s]
      BY <1>2 DEF Begin
    <2> HIDE DEF s
    <2>3. /\ submissions' \in [Deliveries -> Submission \cup {NoSubmission}]
          /\ submissions'[d] = s
          /\ \A e \in Deliveries \ {d} : submissions'[e] = submissions[e]
      BY <2>1, <2>2 DEF TypeOK
    <2>4. 0 <= Len(RowsOf[d])
      BY <1>1
    <2>5. /\ status[d] = "Draft"
          /\ UNCHANGED <<status, standing, delivered, stock, incoming>>
      BY <1>2 DEF Begin
    <2> QED  BY <2>1, <2>3, <2>4, <2>5 DEF TypeOK
  <1>3. ASSUME NEW d \in Deliveries, LockLine(d)
        PROVE  TypeOK'
    <2> DEFINE s == [submissions[d] EXCEPT !.rows = @ + 1]
    <2>1. d \in Active /\ submissions[d] \in Submission
      BY <1>3, ActiveTyped DEF LockLine
    <2>2. /\ s \in Submission
          /\ s.rows = submissions[d].rows + 1
          /\ s.checked = submissions[d].checked
      BY <2>1 DEF Submission
    <2>3. s.rows <= Len(RowsOf[d]) /\ ~s.checked
      <3>1. /\ submissions[d].rows \in Nat
            /\ submissions[d].rows < Len(RowsOf[d])
            /\ submissions[d].checked => submissions[d].rows = Len(RowsOf[d])
        BY <1>3, <2>1, ActiveTyped DEF LockLine, TypeOK, Active
      <3> QED  BY <1>1, <2>2, <3>1
    <2>4. submissions' = [submissions EXCEPT ![d] = s]
      BY <1>3 DEF LockLine
    <2> HIDE DEF s
    <2> QED  BY <1>3, <2>1, <2>2, <2>3, <2>4 DEF LockLine, TypeOK, Active
  <1>4. ASSUME NEW d \in Deliveries, CheckQuantities(d)
        PROVE  TypeOK'
    <2> DEFINE s == [submissions[d] EXCEPT !.checked = TRUE]
    <2>1. d \in Active /\ submissions[d] \in Submission
      BY <1>4, ActiveTyped DEF CheckQuantities
    <2>2. s \in Submission /\ s.rows = submissions[d].rows
      BY <2>1 DEF Submission
    <2>3. submissions' = [submissions EXCEPT ![d] = s]
      BY <1>4 DEF CheckQuantities
    <2> HIDE DEF s
    <2> QED  BY <1>1, <1>4, <2>1, <2>2, <2>3 DEF CheckQuantities, TypeOK, Active
  <1>5. ASSUME NEW d \in Deliveries, NEW b \in Bins, LockBin(d, b)
        PROVE  TypeOK'
    <2> DEFINE s == [submissions[d] EXCEPT !.bins = @ \cup {b}]
    <2>1. d \in Active /\ submissions[d] \in Submission
      BY <1>5, ActiveTyped DEF LockBin
    <2>2. /\ s \in Submission /\ s.rows = submissions[d].rows
          /\ s.checked = submissions[d].checked
      BY <2>1 DEF Submission
    <2>3. submissions' = [submissions EXCEPT ![d] = s]
      BY <1>5 DEF LockBin
    <2> HIDE DEF s
    <2> QED  BY <1>5, <2>1, <2>2, <2>3 DEF LockBin, TypeOK, Active
  <1>6. ASSUME NEW d \in Deliveries, Commit(d)
        PROVE  TypeOK'
    <2> DEFINE rows == LinesOf(d) \cup BinsOf(d)
    <2>1. rows \in SUBSET (Lines \cup Bins)
      BY RowsTyped
    <2>2. submissions' = [Outdated(rows) EXCEPT ![d] = NoSubmission]
      BY <1>6 DEF Commit
    <2> HIDE DEF rows
    <2>3. /\ submissions' \in [Deliveries -> Submission \cup {NoSubmission}]
          /\ submissions'[d] = NoSubmission
          /\ \A e \in Deliveries \ {d} : submissions'[e] = Outdated(rows)[e]
      BY <2>1, <2>2, OutdatedTyped
    <2>4. \A e \in Deliveries : submissions'[e] # NoSubmission =>
              /\ e \in Active /\ e # d
              /\ submissions'[e].rows = submissions[e].rows
              /\ submissions'[e].checked = submissions[e].checked
      BY <2>1, <2>3, OutdatedTyped
    <2>5. delivered' \in [Lines -> Int] /\ stock' \in [Bins -> Int]
      BY <1>6, Bookings DEF Commit, Book
    <2>6. /\ status' = [status EXCEPT ![d] = "Submitted"]
          /\ UNCHANGED <<standing, incoming>>
      BY <1>6 DEF Commit, Book
    <2> QED  BY <2>3, <2>4, <2>5, <2>6 DEF TypeOK, Active
  <1>7. ASSUME NEW d \in Deliveries, Abort(d)
        PROVE  TypeOK'
    BY <1>7 DEF Abort, TypeOK
  <1>8. ASSUME NEW d \in Deliveries, NEW given, SubmitUnchecked(d, given)
        PROVE  TypeOK'
    <2> DEFINE rows == LinesOf(d) \cup BinsOf(d)
    <2>1. rows \in SUBSET (Lines \cup Bins)
      BY RowsTyped
    <2>2. submissions' = Outdated(rows)
      BY <1>8 DEF SubmitUnchecked
    <2> HIDE DEF rows
    <2>3. /\ submissions' \in [Deliveries -> Submission \cup {NoSubmission}]
          /\ \A e \in Deliveries : submissions'[e] # NoSubmission =>
              /\ e \in Active
              /\ submissions'[e].rows = submissions[e].rows
              /\ submissions'[e].checked = submissions[e].checked
      BY <2>1, <2>2, OutdatedTyped
    <2>4. delivered' \in [Lines -> Int] /\ stock' \in [Bins -> Int]
      BY <1>8, Bookings DEF SubmitUnchecked, Book
    <2>5. d \notin Active
      BY <1>8 DEF SubmitUnchecked, Active
    <2> QED  BY <1>8, <2>3, <2>4, <2>5 DEF SubmitUnchecked, Book, TypeOK, Active
  <1>9. ASSUME NEW d \in Deliveries, CancelDelivery(d)
        PROVE  TypeOK'
    <2> DEFINE rows == LinesOf(d) \cup BinsOf(d)
    <2>1. rows \in SUBSET (Lines \cup Bins)
      BY RowsTyped
    <2>2. submissions' = Outdated(rows)
      BY <1>9 DEF CancelDelivery
    <2> HIDE DEF rows
    <2>3. /\ submissions' \in [Deliveries -> Submission \cup {NoSubmission}]
          /\ \A e \in Deliveries : submissions'[e] # NoSubmission =>
              /\ e \in Active
              /\ submissions'[e].rows = submissions[e].rows
              /\ submissions'[e].checked = submissions[e].checked
      BY <2>1, <2>2, OutdatedTyped
    <2>4. delivered' \in [Lines -> Int] /\ stock' \in [Bins -> Int]
      BY <1>9, Bookings DEF CancelDelivery
    <2>5. d \notin Active
      BY <1>9 DEF CancelDelivery, Active, TypeOK
    <2> QED  BY <1>9, <2>3, <2>4, <2>5 DEF CancelDelivery, TypeOK, Active
  <1>10. ASSUME NEW o \in Orders, CancelOrder(o)
         PROVE  TypeOK'
    <2> DEFINE rows == {l \in Lines : OrderOf[l] = o}
    <2>1. rows \in SUBSET (Lines \cup Bins)
      OBVIOUS
    <2>2. submissions' = Outdated(rows)
      BY <1>10 DEF CancelOrder
    <2> HIDE DEF rows
    <2>3. /\ submissions' \in [Deliveries -> Submission \cup {NoSubmission}]
          /\ \A e \in Deliveries : submissions'[e] # NoSubmission =>
              /\ e \in Active
              /\ submissions'[e].rows = submissions[e].rows
              /\ submissions'[e].checked = submissions[e].checked
      BY <2>1, <2>2, OutdatedTyped
    <2> QED  BY <1>10, <2>3 DEF CancelOrder, TypeOK, Active
  <1>11. ASSUME NEW b \in Bins, BinMoves(b)
         PROVE  TypeOK'
    <2>1. submissions' = Outdated({b})
      BY <1>11 DEF BinMoves
    <2>2. /\ submissions' \in [Deliveries -> Submission \cup {NoSubmission}]
          /\ \A e \in Deliveries : submissions'[e] # NoSubmission =>
              /\ e \in Active
              /\ submissions'[e].rows = submissions[e].rows
              /\ submissions'[e].checked = submissions[e].checked
      BY <2>1, OutdatedTyped
    <2>3. stock' \in [Bins -> Int] /\ incoming' \in [Bins -> Nat]
      BY <1>11, DeliveryAssumption DEF BinMoves, TypeOK
    <2> QED  BY <1>11, <2>2, <2>3 DEF BinMoves, TypeOK, Active
  <1>12. CASE UNCHANGED vars
    BY <1>12 DEF vars, TypeOK
  <1> QED
    BY <1>2, <1>3, <1>4, <1>5, <1>6, <1>7, <1>8, <1>9, <1>10, <1>11, <1>12 DEF Next

-----------------------------------------------------------------------------
(* The soundness of submissions.                                           *)

\* A submission is not wronged by a change of rows that it has not locked, as long
\* as it counts them as changed.
LEMMA OthersChange ==
    ASSUME DeliveryInv, NEW rows,
           \A e \in Active' :
              /\ e \in Active
              /\ submissions'[e].delivered = submissions[e].delivered
              /\ submissions'[e].rows = submissions[e].rows
              /\ submissions'[e].checked = submissions[e].checked
              /\ submissions'[e].bins = submissions[e].bins
              /\ submissions'[e].changed = submissions[e].changed \cup rows
              /\ HeldLines(e) \cap rows = {}
              /\ submissions[e].bins \cap rows = {},
           \A l \in Lines \ rows : delivered'[l] = delivered[l],
           \A b \in Bins \ rows : stock'[b] = stock[b]
    PROVE  SubmissionsSound'
  <1>1. \A e \in Active' : HeldLines(e)' = HeldLines(e)
    BY DEF HeldLines
  <1>2. ASSUME NEW d \in Active', NEW e \in Active' \ {d}
        PROVE  Apart(d, e)'
    <2>1. d \in Active /\ e \in Active \ {d}
      BY <1>2
    <2>2. Apart(d, e)
      BY <2>1 DEF DeliveryInv, SubmissionsSound
    <2> QED  BY <1>1, <2>2 DEF Apart
  <1>3. ASSUME NEW d \in Active'
        PROVE  Sound(d)'
    <2>1. d \in Active
      BY <1>3
    <2>2. Sound(d)
      BY <2>1 DEF DeliveryInv, SubmissionsSound
    <2>3. submissions'[d].checked => \A l \in LinesOf(d) : QuantityFits(d, l)'
      BY <2>2 DEF Sound, QuantityFits
    <2>4. \A l \in Lines \ submissions'[d].changed :
             submissions'[d].delivered[l] = delivered'[l]
      BY <2>2 DEF Sound
    <2>5. SnapshotIsolation => HeldLines(d)' \cap submissions'[d].changed = {}
      BY <1>1, <2>2 DEF Sound
    <2>6. \A b \in submissions'[d].bins :
             b \in BinsOf(d) /\ Required[d][b] <= stock'[b]
      BY <2>2 DEF Sound, BinsOf
    <2> QED  BY <2>2, <2>3, <2>4, <2>5, <2>6 DEF Sound
  <1> QED  BY <1>2, <1>3 DEF SubmissionsSound

\* Nor is it by a step of another submission that keeps apart from it.
LEMMA OwnChange ==
    ASSUME DeliveryInv, NEW d \in Deliveries,
           \A e \in Deliveries \ {d} : submissions'[e] = submissions[e],
           UNCHANGED <<delivered, stock>>,
           d \in Active' => Sound(d)',
           d \in Active' => \A e \in Active \ {d} : Apart(d, e)'
    PROVE  SubmissionsSound'
  <1>1. \A e \in Active' : e # d => e \in Active /\ e \in Deliveries \ {d}
    BY DEF Active
  <1>2. ASSUME NEW e \in Active', e # d
        PROVE  Sound(e)'
    <2>1. Sound(e) /\ submissions'[e] = submissions[e]
      BY <1>1, <1>2 DEF DeliveryInv, SubmissionsSound
    <2> QED  BY <2>1 DEF Sound, QuantityFits, HeldLines, BinsOf
  <1>3. ASSUME NEW e \in Active', NEW f \in Active' \ {e}
        PROVE  Apart(e, f)'
    <2>1. CASE e = d
      BY <1>1, <1>3, <2>1
    <2>2. CASE f = d
      <3>1. Apart(d, e)'
        BY <1>1, <1>3, <2>2
      <3> QED  BY <2>2, <3>1 DEF Apart
    <2>3. CASE e # d /\ f # d
      <3>1. /\ Apart(e, f) /\ submissions'[e] = submissions[e]
            /\ submissions'[f] = submissions[f]
        BY <1>1, <1>3, <2>3 DEF DeliveryInv, SubmissionsSound
      <3> QED  BY <3>1 DEF Apart, HeldLines
    <2> QED  BY <2>1, <2>2, <2>3
  <1> QED  BY <1>2, <1>3 DEF SubmissionsSound

\* A submission starts sound.
LEMMA BeginSound ==
    ASSUME DeliveryInv, NEW d \in Deliveries, NEW given, Begin(d, given)
    PROVE  SubmissionsSound'
  <1> DEFINE s == [ delivered |-> delivered, rows |-> 0, checked |-> FALSE,
                    bins |-> {}, changed |-> {} ]
  <1>1. s.delivered = delivered /\ s.rows = 0 /\ ~s.checked /\ s.bins = {}
    OBVIOUS
  <1>2. submissions' = [submissions EXCEPT ![d] = s] /\ UNCHANGED <<delivered, stock>>
    BY DEF Begin
  <1> HIDE DEF s
  <1>3. submissions'[d] = s /\ \A e \in Deliveries \ {d} : submissions'[e] = submissions[e]
    BY <1>2 DEF DeliveryInv, TypeOK
  <1>4. HeldLines(d)' = {}
    BY <1>1, <1>3 DEF HeldLines
  <1>5. Sound(d)'
    BY <1>1, <1>2, <1>3, <1>4 DEF Sound
  <1>6. \A e \in Active \ {d} : Apart(d, e)'
    BY <1>1, <1>3, <1>4 DEF Apart
  <1> QED  BY <1>2, <1>3, <1>5, <1>6, OwnChange

\* A line that it locks is nobody else's, and as it was in the snapshot.
LEMMA LockLineSound ==
    ASSUME DeliveryInv, NEW d \in Deliveries, LockLine(d)
    PROVE  SubmissionsSound'
  <1> DEFINE s == [submissions[d] EXCEPT !.rows = @ + 1]
  <1>1. /\ d \in Active /\ submissions[d] \in Submission
        /\ submissions[d].rows \in Nat /\ Sound(d)
    BY ActiveTyped DEF LockLine, DeliveryInv, SubmissionsSound
  <1>2. /\ s.rows = submissions[d].rows + 1
        /\ s.delivered = submissions[d].delivered
        /\ s.checked = submissions[d].checked
        /\ s.bins = submissions[d].bins /\ s.changed = submissions[d].changed
    BY <1>1 DEF Submission
  <1>3. submissions' = [submissions EXCEPT ![d] = s] /\ UNCHANGED <<delivered, stock>>
    BY DEF LockLine
  <1> HIDE DEF s
  <1>4. submissions'[d] = s /\ \A e \in Deliveries \ {d} : submissions'[e] = submissions[e]
    BY <1>3 DEF DeliveryInv, TypeOK
  <1>5. HeldLines(d)' = HeldLines(d) \cup {NextLine(d)}
    <2>1. HeldLines(d)' = {RowsOf[d][i] : i \in 1..(submissions[d].rows + 1)}
      BY <1>2, <1>4 DEF HeldLines
    <2>2. 1..(submissions[d].rows + 1) = 1..submissions[d].rows \cup {submissions[d].rows + 1}
      BY <1>1
    <2> QED  BY <2>1, <2>2 DEF HeldLines, NextLine
  <1>6. Sound(d)'
    <2>1. SnapshotIsolation => HeldLines(d)' \cap submissions'[d].changed = {}
      BY <1>1, <1>2, <1>4, <1>5 DEF Sound, LockLine, Current
    <2>2. submissions'[d].checked => \A l \in LinesOf(d) : QuantityFits(d, l)'
      BY <1>1, <1>2, <1>4 DEF Sound, QuantityFits
    <2> QED  BY <1>1, <1>2, <1>3, <1>4, <2>1, <2>2 DEF Sound, BinsOf
  <1>7. ASSUME NEW e \in Active \ {d}
        PROVE  Apart(d, e)'
    <2>1. Apart(d, e) /\ submissions'[e] = submissions[e]
      BY <1>1, <1>4 DEF DeliveryInv, SubmissionsSound, Active
    <2>2. HeldLines(e)' = HeldLines(e)
      BY <2>1 DEF HeldLines
    <2>3. NextLine(d) \notin HeldLines(e)
      BY DEF LockLine
    <2> QED  BY <1>2, <1>4, <1>5, <2>1, <2>2, <2>3 DEF Apart
  <1> QED  BY <1>3, <1>4, <1>6, <1>7, OwnChange

\* Its quantities fit once they are checked.
LEMMA CheckSound ==
    ASSUME DeliveryInv, NEW d \in Deliveries, CheckQuantities(d)
    PROVE  SubmissionsSound'
  <1> DEFINE s == [submissions[d] EXCEPT !.checked = TRUE]
  <1>1. d \in Active /\ submissions[d] \in Submission /\ Sound(d)
    BY ActiveTyped DEF CheckQuantities, DeliveryInv, SubmissionsSound
  <1>2. /\ s.rows = submissions[d].rows /\ s.delivered = submissions[d].delivered
        /\ s.checked
        /\ s.bins = submissions[d].bins /\ s.changed = submissions[d].changed
    BY <1>1 DEF Submission
  <1>3. submissions' = [submissions EXCEPT ![d] = s] /\ UNCHANGED <<delivered, stock>>
    BY DEF CheckQuantities
  <1> HIDE DEF s
  <1>4. submissions'[d] = s /\ \A e \in Deliveries \ {d} : submissions'[e] = submissions[e]
    BY <1>3 DEF DeliveryInv, TypeOK
  <1>5. HeldLines(d)' = HeldLines(d)
    BY <1>2, <1>4 DEF HeldLines
  <1>6. Sound(d)'
    <2>1. \A l \in LinesOf(d) : QuantityFits(d, l)'
      BY <1>2, <1>4 DEF CheckQuantities, QuantityFits
    <2> QED  BY <1>1, <1>2, <1>3, <1>4, <1>5, <2>1 DEF Sound, BinsOf
  <1>7. ASSUME NEW e \in Active \ {d}
        PROVE  Apart(d, e)'
    <2>1. Apart(d, e) /\ submissions'[e] = submissions[e]
      BY <1>1, <1>4 DEF DeliveryInv, SubmissionsSound, Active
    <2> QED  BY <1>2, <1>4, <1>5, <2>1 DEF Apart, HeldLines
  <1> QED  BY <1>3, <1>4, <1>6, <1>7, OwnChange

\* A bin that it locks is nobody else's, holds enough, and is the next in order.
LEMMA LockBinSound ==
    ASSUME DeliveryInv, NEW d \in Deliveries, NEW b \in Bins, LockBin(d, b)
    PROVE  SubmissionsSound'
  <1> DEFINE s == [submissions[d] EXCEPT !.bins = @ \cup {b}]
  <1>1. d \in Active /\ submissions[d] \in Submission /\ Sound(d)
    BY ActiveTyped DEF LockBin, DeliveryInv, SubmissionsSound
  <1>2. /\ s.rows = submissions[d].rows /\ s.delivered = submissions[d].delivered
        /\ s.checked = submissions[d].checked
        /\ s.bins = submissions[d].bins \cup {b}
        /\ s.changed = submissions[d].changed
    BY <1>1 DEF Submission
  <1>3. submissions' = [submissions EXCEPT ![d] = s] /\ UNCHANGED <<delivered, stock>>
    BY DEF LockBin
  <1> HIDE DEF s
  <1>4. submissions'[d] = s /\ \A e \in Deliveries \ {d} : submissions'[e] = submissions[e]
    BY <1>3 DEF DeliveryInv, TypeOK
  <1>5. HeldLines(d)' = HeldLines(d)
    BY <1>2, <1>4 DEF HeldLines
  <1>6. Sound(d)'
    <2>1. submissions'[d].checked => \A l \in LinesOf(d) : QuantityFits(d, l)'
      BY <1>1, <1>2, <1>4 DEF Sound, QuantityFits
    <2>2. submissions'[d].checked
      BY <1>2, <1>4 DEF LockBin
    <2>3. \A c \in submissions'[d].bins : c \in BinsOf(d) /\ Required[d][c] <= stock'[c]
      BY <1>1, <1>2, <1>3, <1>4 DEF Sound, LockBin, NextBin
    <2>4. \A c \in BinsOf(d) \ submissions'[d].bins : b < c
      <3> TAKE c \in BinsOf(d) \ submissions'[d].bins
      <3>1. b <= c /\ c # b /\ c \in Bins
        BY <1>2, <1>4 DEF LockBin, NextBin, BinsOf
      <3>2. b \in Nat /\ c \in Nat
        BY <3>1, DeliveryAssumption
      <3> QED  BY <3>1, <3>2
    <2>5. \A a \in submissions'[d].bins, c \in BinsOf(d) \ submissions'[d].bins : a < c
      BY <1>1, <1>2, <1>4, <2>4 DEF Sound
    <2> QED  BY <1>1, <1>2, <1>3, <1>4, <1>5, <2>1, <2>2, <2>3, <2>5 DEF Sound
  <1>7. ASSUME NEW e \in Active \ {d}
        PROVE  Apart(d, e)'
    <2>1. Apart(d, e) /\ submissions'[e] = submissions[e]
      BY <1>1, <1>4 DEF DeliveryInv, SubmissionsSound, Active
    <2>2. b \notin submissions[e].bins
      BY DEF LockBin, BinFree
    <2> QED  BY <1>2, <1>4, <1>5, <2>1, <2>2 DEF Apart, HeldLines
  <1> QED  BY <1>3, <1>4, <1>6, <1>7, OwnChange

\* A booking, of a submission or unchecked, and a cancellation change only rows of
\* the delivery, which are free or its own.
LEMMA BookingSound ==
    ASSUME DeliveryInv, NEW d \in Deliveries,
           \A e \in Active \ {d} :
              /\ HeldLines(e) \cap LinesOf(d) = {}
              /\ submissions[e].bins \cap BinsOf(d) = {},
           \/ submissions' = [Outdated(LinesOf(d) \cup BinsOf(d)) EXCEPT ![d] = NoSubmission]
           \/ d \notin Active /\ submissions' = Outdated(LinesOf(d) \cup BinsOf(d)),
           \/ delivered' = [l \in Lines |-> delivered[l] + Quantity[d][l]]
           \/ delivered' = [l \in Lines |-> delivered[l] - Quantity[d][l]],
           \/ stock' = [b \in Bins |-> stock[b] - Required[d][b]]
           \/ stock' = [b \in Bins |-> stock[b] + Required[d][b]]
    PROVE  SubmissionsSound'
  <1> DEFINE rows == LinesOf(d) \cup BinsOf(d)
  <1>1. rows \in SUBSET (Lines \cup Bins) /\ LinesOf(d) \in SUBSET Lines
        /\ BinsOf(d) \in SUBSET Bins /\ Lines \cap Bins = {}
    BY RowsTyped, DeliveryAssumption
  <1>2. /\ \A l \in Lines \ rows : delivered'[l] = delivered[l]
        /\ \A b \in Bins \ rows : stock'[b] = stock[b]
    BY <1>1, Bookings DEF DeliveryInv
  <1>3. \/ submissions' = [Outdated(rows) EXCEPT ![d] = NoSubmission]
        \/ d \notin Active /\ submissions' = Outdated(rows)
    OBVIOUS
  <1>4. \A e \in Active :
          /\ HeldLines(e) \in SUBSET Lines
          /\ submissions[e].bins \in SUBSET Bins
    <2> TAKE e \in Active
    <2>1. e \in Deliveries /\ submissions[e] \in Submission /\ HeldLines(e) \in SUBSET LinesOf(e)
      BY ActiveTyped DEF DeliveryInv
    <2>2. LinesOf(e) \in SUBSET Lines
      BY <2>1, RowsTyped
    <2> QED  BY <2>1, <2>2 DEF Submission
  <1>5. \A e \in Active \ {d} :
          HeldLines(e) \cap rows = {} /\ submissions[e].bins \cap rows = {}
    BY <1>1, <1>4
  <1> HIDE DEF rows
  <1>6. ASSUME NEW e \in Active'
        PROVE  /\ e # d
               /\ e \in Active
               /\ submissions'[e].delivered = submissions[e].delivered
               /\ submissions'[e].rows = submissions[e].rows
               /\ submissions'[e].checked = submissions[e].checked
               /\ submissions'[e].bins = submissions[e].bins
               /\ submissions'[e].changed = submissions[e].changed \cup rows
    <2>1. e \in Deliveries /\ submissions'[e] # NoSubmission
      BY <1>6 DEF Active
    <2>2. /\ Outdated(rows) \in [Deliveries -> Submission \cup {NoSubmission}]
          /\ \A f \in Deliveries : Outdated(rows)[f] # NoSubmission => f \in Active
      BY <1>1, OutdatedTyped DEF DeliveryInv
    <2>3. e # d /\ submissions'[e] = Outdated(rows)[e]
      BY <1>3, <2>1, <2>2
    <2> QED  BY <1>1, <2>1, <2>3, OutdatedTyped DEF DeliveryInv
  <1>7. \A e \in Active' :
          /\ e \in Active
          /\ submissions'[e].delivered = submissions[e].delivered
          /\ submissions'[e].rows = submissions[e].rows
          /\ submissions'[e].checked = submissions[e].checked
          /\ submissions'[e].bins = submissions[e].bins
          /\ submissions'[e].changed = submissions[e].changed \cup rows
          /\ HeldLines(e) \cap rows = {}
          /\ submissions[e].bins \cap rows = {}
    BY <1>5, <1>6
  <1> QED  BY <1>2, <1>7, OthersChange

\* Neither does a step wrong a submission that changes other rows at once.
LEMMA RowsChange ==
    ASSUME DeliveryInv, NEW rows \in SUBSET (Lines \cup Bins),
           submissions' = Outdated(rows), UNCHANGED delivered,
           \A b \in Bins \ rows : stock'[b] = stock[b],
           \A e \in Active : HeldLines(e) \cap rows = {} /\ submissions[e].bins \cap rows = {}
    PROVE  SubmissionsSound'
  <1>1. ASSUME NEW e \in Active'
        PROVE
              /\ e \in Active
              /\ submissions'[e].delivered = submissions[e].delivered
              /\ submissions'[e].rows = submissions[e].rows
              /\ submissions'[e].checked = submissions[e].checked
              /\ submissions'[e].bins = submissions[e].bins
              /\ submissions'[e].changed = submissions[e].changed \cup rows
              /\ HeldLines(e) \cap rows = {}
              /\ submissions[e].bins \cap rows = {}
    <2>1. e \in Deliveries /\ Outdated(rows)[e] # NoSubmission
      BY <1>1 DEF Active
    <2>2.
          /\ e \in Active
          /\ submissions'[e].delivered = submissions[e].delivered
          /\ submissions'[e].rows = submissions[e].rows
          /\ submissions'[e].checked = submissions[e].checked
          /\ submissions'[e].bins = submissions[e].bins
          /\ submissions'[e].changed = submissions[e].changed \cup rows
      BY <2>1, OutdatedTyped DEF DeliveryInv
    <2> QED  BY <2>2
  <1>2. \A l \in Lines \ rows : delivered'[l] = delivered[l]
    OBVIOUS
  <1> QED  BY <1>1, <1>2, OthersChange

\* Every step keeps the submissions sound.
LEMMA SoundKept ==
    ASSUME DeliveryInv, [Next]_vars
    PROVE  SubmissionsSound'
  <1>1. CASE \E d \in Deliveries, given \in Projects \cup {NoProject} : Begin(d, given)
    BY <1>1, BeginSound
  <1>2. CASE \E d \in Deliveries : LockLine(d)
    BY <1>2, LockLineSound
  <1>3. CASE \E d \in Deliveries : CheckQuantities(d)
    BY <1>3, CheckSound
  <1>4. CASE \E d \in Deliveries, b \in Bins : LockBin(d, b)
    BY <1>4, LockBinSound
  <1>5. ASSUME NEW d \in Deliveries, Commit(d)
        PROVE  SubmissionsSound'
    <2>1. /\ d \in Active /\ HeldLines(d) = LinesOf(d)
          /\ submissions[d].bins = BinsOf(d)
      BY <1>5, ActiveTyped DEF Commit, DeliveryInv
    <2>2. \A e \in Active \ {d} :
             /\ HeldLines(e) \cap LinesOf(d) = {}
             /\ submissions[e].bins \cap BinsOf(d) = {}
      BY <2>1 DEF DeliveryInv, SubmissionsSound, Apart
    <2> QED  BY <1>5, <2>2, BookingSound DEF Commit, Book
  <1>6. ASSUME NEW d \in Deliveries, Abort(d)
        PROVE  SubmissionsSound'
    <2>1. /\ submissions'[d] = NoSubmission
          /\ \A e \in Deliveries \ {d} : submissions'[e] = submissions[e]
          /\ UNCHANGED <<delivered, stock>>
      BY <1>6 DEF Abort, DeliveryInv, TypeOK
    <2>2. d \notin Active'
      BY <2>1 DEF Active
    <2> QED  BY <2>1, <2>2, OwnChange
  <1>7. ASSUME NEW d \in Deliveries, NEW given, SubmitUnchecked(d, given)
        PROVE  SubmissionsSound'
    <2>1. d \notin Active /\ RowsFree(d)
      BY <1>7 DEF SubmitUnchecked, Active
    <2>2. \A e \in Active \ {d} :
             /\ HeldLines(e) \cap LinesOf(d) = {}
             /\ submissions[e].bins \cap BinsOf(d) = {}
      BY <2>1 DEF RowsFree, LineFree, BinFree
    <2> QED  BY <1>7, <2>1, <2>2, BookingSound DEF SubmitUnchecked, Book
  <1>8. ASSUME NEW d \in Deliveries, CancelDelivery(d)
        PROVE  SubmissionsSound'
    <2>1. d \notin Active /\ RowsFree(d)
      BY <1>8 DEF CancelDelivery, Active, DeliveryInv, TypeOK
    <2>2. \A e \in Active \ {d} :
             /\ HeldLines(e) \cap LinesOf(d) = {}
             /\ submissions[e].bins \cap BinsOf(d) = {}
      BY <2>1 DEF RowsFree, LineFree, BinFree
    <2> QED  BY <1>8, <2>1, <2>2, BookingSound DEF CancelDelivery
  <1>9. ASSUME NEW o \in Orders, CancelOrder(o)
        PROVE  SubmissionsSound'
    <2> DEFINE lines == {l \in Lines : OrderOf[l] = o}
    <2>1. \A e \in Active : HeldLines(e) \cap lines = {} /\ submissions[e].bins \cap lines = {}
      <3> TAKE e \in Active
      <3>1. submissions[e].bins \in SUBSET Bins
        BY ActiveTyped DEF DeliveryInv, Submission
      <3>2. \A l \in lines : l \notin HeldLines(e)
        BY <1>9 DEF CancelOrder, LineFree
      <3> QED  BY <3>1, <3>2, DeliveryAssumption
    <2>2. lines \in SUBSET (Lines \cup Bins)
      OBVIOUS
    <2>3. /\ submissions' = Outdated(lines) /\ UNCHANGED delivered
          /\ \A b \in Bins \ lines : stock'[b] = stock[b]
      BY <1>9 DEF CancelOrder
    <2> HIDE DEF lines
    <2> QED  BY <2>1, <2>2, <2>3, RowsChange
  <1>10. ASSUME NEW b \in Bins, BinMoves(b)
         PROVE  SubmissionsSound'
    <2>1. \A e \in Active : HeldLines(e) \cap {b} = {} /\ submissions[e].bins \cap {b} = {}
      <3> TAKE e \in Active
      <3>1. HeldLines(e) \in SUBSET Lines
        BY ActiveTyped, RowsTyped DEF DeliveryInv
      <3>2. b \notin submissions[e].bins
        BY <1>10 DEF BinMoves, BinFree
      <3> QED  BY <3>1, <3>2, DeliveryAssumption
    <2>2. {b} \in SUBSET (Lines \cup Bins)
      OBVIOUS
    <2>3. /\ submissions' = Outdated({b}) /\ UNCHANGED delivered
          /\ \A c \in Bins \ {b} : stock'[c] = stock[c]
      BY <1>10 DEF BinMoves, DeliveryInv, TypeOK
    <2> QED  BY <2>1, <2>2, <2>3, RowsChange
  <1>11. CASE UNCHANGED vars
    <2>1. UNCHANGED <<submissions, delivered, stock>>
      BY <1>11 DEF vars
    <2>2. Active' = Active
      BY <2>1 DEF Active
    <2>3. ASSUME NEW d \in Active
          PROVE  Sound(d)'
      <3>1. Sound(d)
        BY DEF DeliveryInv, SubmissionsSound
      <3> QED  BY <2>1, <3>1 DEF Sound, QuantityFits, HeldLines
    <2>4. ASSUME NEW d \in Active, NEW e \in Active \ {d}
          PROVE  Apart(d, e)'
      <3>1. Apart(d, e)
        BY DEF DeliveryInv, SubmissionsSound
      <3> QED  BY <2>1, <3>1 DEF Apart, HeldLines
    <2> QED  BY <2>2, <2>3, <2>4 DEF SubmissionsSound
  <1> QED
    BY <1>1, <1>2, <1>3, <1>4, <1>5, <1>6, <1>7, <1>8, <1>9, <1>10, <1>11 DEF Next

-----------------------------------------------------------------------------
(* The theorems.                                                           *)

\* The invariant: what a submission has checked holds until it commits.
THEOREM DeliveryInvariant == Spec => []DeliveryInv
  <1>1. Init => DeliveryInv
    <2> SUFFICES ASSUME Init PROVE DeliveryInv
      OBVIOUS
    <2>1. Active = {}
      BY DEF Init, Active
    <2> QED  BY <2>1 DEF Init, DeliveryInv, TypeOK, SubmissionsSound, Active
  <1>2. DeliveryInv /\ [Next]_vars => DeliveryInv'
    BY TypesKept, SoundKept DEF DeliveryInv
  <1> QED  BY <1>1, <1>2, PTL DEF Spec

\* Every variable keeps its type.
THEOREM DeliveryTypes == Spec => []TypeOK
  <1>1. DeliveryInv => TypeOK
    BY DEF DeliveryInv
  <1> QED  BY <1>1, DeliveryInvariant, PTL

\* A delivery of a project is submitted with its checks or not at all.
LEMMA SubmitsByCommit ==
    ASSUME DeliveryInv, [Next]_vars, NEW d \in Deliveries,
           Submits(d), OfProject(d), ~IsReturn(d)
    PROVE  Commit(d)
  <1>1. status \in [Deliveries -> {"Draft", "Submitted", "Cancelled"}] /\ status[d] # status'[d]
    BY DEF Submits, DeliveryInv, TypeOK
  <1>2. ~ UNCHANGED status
    BY <1>1
  <1>3. ASSUME NEW e \in Deliveries, NEW given, SubmitUnchecked(e, given)
        PROVE  Commit(d)
    <2>1. e = d
      BY <1>1, <1>3 DEF SubmitUnchecked, Book
    <2>2. propagate_project_link(d, given) = {}
      BY <1>3, <2>1 DEF SubmitUnchecked
    <2>3. \A o \in OrdersOf(d) : ProjectOf[o] = NoProject
      BY <2>2 DEF propagate_project_link, source_projects
    <2> QED  BY <2>3 DEF OfProject
  <1>4. ASSUME NEW e \in Deliveries, CancelDelivery(e)
        PROVE  Commit(d)
    <2>1. status'[d] # "Submitted"
      BY <1>1, <1>4 DEF CancelDelivery
    <2> QED  BY <2>1 DEF Submits
  <1>5. ASSUME NEW e \in Deliveries, Commit(e)
        PROVE  Commit(d)
    BY <1>1, <1>5 DEF Commit, Book
  <1> QED
    BY <1>2, <1>3, <1>4, <1>5
    DEF Next, vars, Begin, LockLine, CheckQuantities, LockBin, Abort, CancelOrder, BinMoves

\* No line is delivered beyond what was ordered, where the lock of a row that has
\* changed since the snapshot is refused.
THEOREM NeverOverdelivered == ASSUME SnapshotIsolation = TRUE PROVE Spec => NotOverdelivered
  <1> DEFINE A == \A d \in Deliveries :
                    Submits(d) /\ OfProject(d) /\ ~IsReturn(d) =>
                        \A l \in LinesOf(d) : delivered'[l] <= Ordered[l]
  <1>1. DeliveryInv /\ [Next]_vars => [A]_vars
    <2> SUFFICES ASSUME DeliveryInv, [Next]_vars,
                        NEW d \in Deliveries, Submits(d), OfProject(d), ~IsReturn(d),
                        NEW l \in LinesOf(d)
                 PROVE  delivered'[l] <= Ordered[l]
      OBVIOUS
    <2>1. Commit(d)
      BY SubmitsByCommit
    <2>2. /\ d \in Active /\ submissions[d].checked /\ HeldLines(d) = LinesOf(d)
          /\ l \in Lines /\ Sound(d)
      BY <2>1, ActiveTyped, RowsTyped DEF Commit, DeliveryInv, SubmissionsSound
    <2>3. submissions[d].delivered[l] = delivered[l]
      BY <2>2 DEF Sound
    <2>4. delivered[l] + Quantity[d][l] <= Ordered[l]
      BY <2>2, <2>3 DEF Sound, QuantityFits
    <2>5. delivered'[l] = delivered[l] + Quantity[d][l]
      BY <2>1, <2>2 DEF Commit, Book
    <2> QED  BY <2>4, <2>5
  <1>2. Spec => [][Next]_vars
    BY DEF Spec
  <1>3. Spec => [][A]_vars
    BY <1>1, <1>2, DeliveryInvariant, PTL
  <1> QED  BY <1>3 DEF NotOverdelivered

\* No bin is oversold, with or without it.
THEOREM NeverOversold == Spec => StockNotOversold
  <1> DEFINE A == \A d \in Deliveries :
                    Submits(d) /\ OfProject(d) /\ ~IsReturn(d) =>
                        \A b \in BinsOf(d) : stock'[b] >= 0
  <1>1. DeliveryInv /\ [Next]_vars => [A]_vars
    <2> SUFFICES ASSUME DeliveryInv, [Next]_vars,
                        NEW d \in Deliveries, Submits(d), OfProject(d), ~IsReturn(d),
                        NEW b \in BinsOf(d)
                 PROVE  stock'[b] >= 0
      OBVIOUS
    <2>1. Commit(d)
      BY SubmitsByCommit
    <2>2. d \in Active /\ submissions[d].bins = BinsOf(d) /\ Sound(d) /\ b \in Bins
      BY <2>1 DEF Commit, DeliveryInv, SubmissionsSound, BinsOf
    <2>3. Required[d][b] <= stock[b]
      BY <2>2 DEF Sound
    <2>4. stock'[b] = stock[b] - Required[d][b]
      BY <2>1, <2>2 DEF Commit, Book
    <2>5. stock[b] \in Int /\ Required[d][b] \in Int
      BY <2>2, DeliveryAssumption DEF DeliveryInv, TypeOK
    <2> QED  BY <2>3, <2>4, <2>5
  <1>2. Spec => [][Next]_vars
    BY DEF Spec
  <1>3. Spec => [][A]_vars
    BY <1>1, <1>2, DeliveryInvariant, PTL
  <1> QED  BY <1>3 DEF StockNotOversold

-----------------------------------------------------------------------------
(* A submission as if it were one step.                                    *)

\* The sources of a submission are of one project, and those whose lines it has not
\* been told are changed stand as it has read them.
SourcesStand(d) ==
    /\ ~IsReturn(d)
    /\ \A o, p \in OrdersOf(d) : ProjectOf[o] = ProjectOf[p]
    /\ \A l \in LinesOf(d) \ submissions[d].changed : OrderOf[l] \in standing

AllSourcesStand == \A d \in Active : SourcesStand(d)

\* Sources stand when what has changed only grows and no order is cancelled.
LEMMA SourcesStandStill ==
    ASSUME AllSourcesStand, UNCHANGED standing,
           \A e \in Active' : /\ e \in Active
                              /\ submissions[e].changed \subseteq submissions'[e].changed
    PROVE  AllSourcesStand'
  <1> SUFFICES ASSUME NEW e \in Active'
               PROVE  SourcesStand(e)'
    BY DEF AllSourcesStand
  <1>1. SourcesStand(e) /\ submissions[e].changed \subseteq submissions'[e].changed
    BY DEF AllSourcesStand
  <1> QED  BY <1>1 DEF SourcesStand

\* In every step they stand: whoever cancels an order changes its lines.
LEMMA SourcesStandKept ==
    ASSUME TypeOK, AllSourcesStand, [Next]_vars
    PROVE  AllSourcesStand'
  <1> DEFINE rowsOf(d) == LinesOf(d) \cup BinsOf(d)
  <1>1. \A d \in Deliveries : rowsOf(d) \in SUBSET (Lines \cup Bins)
    BY RowsTyped
  <1> HIDE DEF rowsOf
  <1>2. ASSUME NEW rows \in SUBSET (Lines \cup Bins),
               \A e \in Active' : submissions'[e] = Outdated(rows)[e]
        PROVE  \A e \in Active' :
                  /\ e \in Active
                  /\ submissions'[e].changed = submissions[e].changed \cup rows
    BY <1>2, OutdatedTyped DEF Active
  <1>3. ASSUME NEW d \in Deliveries, NEW given, Begin(d, given)
        PROVE  AllSourcesStand'
    <2>1. /\ submissions'[d].changed = {}
          /\ \A e \in Deliveries \ {d} : submissions'[e] = submissions[e]
          /\ UNCHANGED standing
      BY <1>3 DEF Begin, TypeOK
    <2>2. ~IsReturn(d) /\ \E project \in Projects : SourcesMatch(d, project)
      BY <1>3 DEF Begin
    <2>3. SourcesStand(d)'
      <3>1. \A l \in LinesOf(d) : OrderOf[l] \in OrdersOf(d)
        BY DEF OrdersOf
      <3> QED  BY <2>1, <2>2, <3>1 DEF SourcesStand, SourcesMatch
    <2>4. ASSUME NEW e \in Active', e # d
          PROVE  SourcesStand(e)'
      <3>1. e \in Active /\ submissions'[e] = submissions[e]
        BY <2>1, <2>4 DEF Active
      <3> QED  BY <2>1, <3>1 DEF AllSourcesStand, SourcesStand
    <2> QED  BY <2>3, <2>4 DEF AllSourcesStand
  <1>4. ASSUME NEW d \in Deliveries,
               \/ LockLine(d) \/ CheckQuantities(d) \/ Abort(d)
               \/ \E b \in Bins : LockBin(d, b)
        PROVE  AllSourcesStand'
    <2>1. d \in Active /\ submissions[d] \in Submission /\ UNCHANGED standing
      BY <1>4, ActiveTyped DEF LockLine, CheckQuantities, Abort, LockBin
    <2>2. \A e \in Deliveries \ {d} : submissions'[e] = submissions[e]
      BY <1>4 DEF LockLine, CheckQuantities, Abort, LockBin, TypeOK
    <2>3. d \in Active' => submissions'[d].changed = submissions[d].changed
      <3>1. CASE LockLine(d)
        BY <2>1, <3>1 DEF LockLine, Submission, TypeOK, Active
      <3>2. CASE CheckQuantities(d)
        BY <2>1, <3>2 DEF CheckQuantities, Submission, TypeOK, Active
      <3>3. CASE Abort(d)
        BY <2>1, <3>3 DEF Abort, TypeOK, Active
      <3>4. CASE \E b \in Bins : LockBin(d, b)
        BY <2>1, <3>4 DEF LockBin, Submission, TypeOK, Active
      <3> QED  BY <1>4, <3>1, <3>2, <3>3, <3>4
    <2>4. \A e \in Active' : /\ e \in Active
                             /\ submissions[e].changed \subseteq submissions'[e].changed
      BY <2>1, <2>2, <2>3 DEF Active
    <2> QED  BY <2>1, <2>4, SourcesStandStill
  <1>5. ASSUME NEW d \in Deliveries,
               \/ Commit(d) \/ CancelDelivery(d)
               \/ \E given \in Projects \cup {NoProject} : SubmitUnchecked(d, given)
        PROVE  AllSourcesStand'
    <2>1. UNCHANGED standing
      BY <1>5 DEF Commit, CancelDelivery, SubmitUnchecked
    <2>2. \/ submissions' = Outdated(rowsOf(d))
          \/ submissions' = [Outdated(rowsOf(d)) EXCEPT ![d] = NoSubmission]
      BY <1>5 DEF Commit, CancelDelivery, SubmitUnchecked, rowsOf
    <2>3. \A e \in Active' : submissions'[e] = Outdated(rowsOf(d))[e]
      BY <1>1, <2>2, OutdatedTyped DEF Active
    <2> QED  BY <1>1, <1>2, <2>1, <2>3, SourcesStandStill
  <1>6. ASSUME NEW o \in Orders, CancelOrder(o)
        PROVE  AllSourcesStand'
    <2> DEFINE lines == {l \in Lines : OrderOf[l] = o}
    <2>1. lines \in SUBSET (Lines \cup Bins) /\ submissions' = Outdated(lines)
      BY <1>6 DEF CancelOrder
    <2>2. standing' = standing \ {o}
      BY <1>6 DEF CancelOrder
    <2>3. ASSUME NEW e \in Active'
          PROVE  SourcesStand(e)'
      <3>1. e \in Active /\ submissions'[e].changed = submissions[e].changed \cup lines
        BY <1>2, <2>1
      <3>2. LinesOf(e) \in SUBSET Lines /\ SourcesStand(e)
        BY <3>1, RowsTyped DEF Active, AllSourcesStand
      <3> QED  BY <2>2, <3>1, <3>2 DEF SourcesStand
    <2> QED  BY <2>3 DEF AllSourcesStand
  <1>7. ASSUME NEW b \in Bins, BinMoves(b)
        PROVE  AllSourcesStand'
    <2>1. {b} \in SUBSET (Lines \cup Bins) /\ submissions' = Outdated({b}) /\ UNCHANGED standing
      BY <1>7 DEF BinMoves
    <2> QED  BY <1>2, <2>1, SourcesStandStill
  <1>8. CASE UNCHANGED vars
    BY <1>8, SourcesStandStill DEF vars, Active
  <1> QED  BY <1>3, <1>4, <1>5, <1>6, <1>7, <1>8 DEF Next

\* What the abstract delivery takes from is among the rows of the delivery.
LEMMA SameOrders ==
    ASSUME NEW d \in Deliveries
    PROVE  /\ Atomic!OrdersOf(d) \subseteq OrdersOf(d)
           /\ \A l \in Lines : Quantity[d][l] # 0 => l \in LinesOf(d)
           /\ IsReturn(d) => Atomic!Exempt(d)
  BY RowsTyped DEF Atomic!OrdersOf, OrdersOf, Atomic!Exempt, IsReturn

\* A commit is an atomic submission: nothing that it was checked against has moved.
LEMMA CommitIsAtomic ==
    ASSUME SnapshotIsolation = TRUE, DeliveryInv, AllSourcesStand,
           NEW d \in Deliveries, Commit(d)
    PROVE  Atomic!Submit(d)
  <1>1. /\ d \in Active /\ submissions[d].checked /\ submissions[d].bins = BinsOf(d)
        /\ HeldLines(d) = LinesOf(d) /\ Sound(d) /\ SourcesStand(d)
    BY ActiveTyped DEF Commit, DeliveryInv, SubmissionsSound, AllSourcesStand
  <1>2. LinesOf(d) \in SUBSET Lines /\ LinesOf(d) \cap submissions[d].changed = {}
    BY <1>1, RowsTyped DEF Sound
  <1>3. OrdersOf(d) \subseteq standing
    BY <1>1, <1>2 DEF SourcesStand, OrdersOf
  <1>4. Atomic!WithinOrder(d)
    <2> SUFFICES ASSUME NEW l \in Lines, Quantity[d][l] # 0
                 PROVE  delivered[l] + Quantity[d][l] <= Ordered[l]
      BY DEF Atomic!WithinOrder
    <2>1. l \in LinesOf(d)
      BY SameOrders
    <2>2. submissions[d].delivered[l] = delivered[l]
      BY <1>1, <1>2, <2>1 DEF Sound
    <2> QED  BY <1>1, <2>1, <2>2 DEF Sound, QuantityFits
  <1>5. Atomic!InStock(d)
    BY <1>1 DEF Atomic!InStock, Sound, BinsOf
  <1>6. Atomic!OneProject(d)
    BY <1>1, SameOrders DEF Atomic!OneProject, SourcesStand
  <1>7. status[d] = "Draft" /\ ReturnOf[d] = NoDelivery
    BY <1>1 DEF DeliveryInv, TypeOK, Active, SourcesStand, IsReturn
  <1> QED
    BY <1>3, <1>4, <1>5, <1>6, <1>7, SameOrders DEF Atomic!Submit, Commit, Book

\* Nor is anything lost where nothing is checked.
LEMMA UncheckedIsAtomic ==
    ASSUME NEW d \in Deliveries, NEW given, SubmitUnchecked(d, given)
    PROVE  Atomic!Submit(d)
  <1>1. Atomic!Exempt(d)
    <2>1. CASE IsReturn(d)
      BY <2>1, SameOrders
    <2>2. CASE ~IsReturn(d)
      <3>1. propagate_project_link(d, given) = {}
        BY <2>2 DEF SubmitUnchecked
      <3>2. \A o \in OrdersOf(d) : ProjectOf[o] = NoProject
        BY <3>1 DEF propagate_project_link, source_projects
      <3> QED  BY <3>2, SameOrders DEF Atomic!Exempt
    <2> QED  BY <2>1, <2>2
  <1>2. Atomic!OrdersOf(d) \subseteq standing
    BY SameOrders DEF SubmitUnchecked
  <1>3. ReturnOf[d] # NoDelivery => status[ReturnOf[d]] = "Submitted"
    BY DEF SubmitUnchecked, IsReturn
  <1> QED  BY <1>1, <1>2, <1>3 DEF Atomic!Submit, SubmitUnchecked, Book

\* Where the lock of a row that has changed since the snapshot is refused: with all
\* its locks, its snapshot and what goes on beside it, a submission has the effect of
\* one that asks and books everything at its commit.
THEOREM SubmissionsAtomic == ASSUME SnapshotIsolation = TRUE PROVE Spec => SubmitsAtomically
  <1>1. Init => Atomic!AtomicInit /\ AllSourcesStand
    BY DEF Init, Atomic!AtomicInit, AllSourcesStand, Active
  <1>2. TypeOK /\ AllSourcesStand /\ [Next]_vars => AllSourcesStand'
    BY SourcesStandKept
  <1>3. DeliveryInv /\ AllSourcesStand /\ [Next]_vars => [Atomic!AtomicNext]_(Atomic!books)
    <2> SUFFICES ASSUME DeliveryInv, AllSourcesStand, [Next]_vars
                 PROVE  Atomic!AtomicNext \/ UNCHANGED Atomic!books
      OBVIOUS
    <2>1. ASSUME NEW d \in Deliveries, Commit(d)
          PROVE  Atomic!AtomicNext
      BY <2>1, CommitIsAtomic DEF Atomic!AtomicNext
    <2>2. ASSUME NEW d \in Deliveries, NEW given, SubmitUnchecked(d, given)
          PROVE  Atomic!AtomicNext
      BY <2>2, UncheckedIsAtomic DEF Atomic!AtomicNext
    <2>3. ASSUME NEW d \in Deliveries, CancelDelivery(d)
          PROVE  Atomic!AtomicNext
      BY <2>3 DEF CancelDelivery, Atomic!Cancel, Atomic!AtomicNext
    <2>4. ASSUME NEW o \in Orders, CancelOrder(o)
          PROVE  Atomic!AtomicNext
      <3>1. \A d \in Deliveries : o \in Atomic!OrdersOf(d) => status[d] # "Submitted"
        BY <2>4, SameOrders DEF CancelOrder
      <3> QED  BY <2>4, <3>1 DEF CancelOrder, Atomic!Withdraw, Atomic!AtomicNext
    <2>5. ASSUME NEW b \in Bins, BinMoves(b)
          PROVE  Atomic!AtomicNext
      BY <2>5 DEF BinMoves, Atomic!Move, Atomic!AtomicNext
    <2>6. ASSUME \/ UNCHANGED vars
                 \/ \E d \in Deliveries, given \in Projects \cup {NoProject} : Begin(d, given)
                 \/ \E d \in Deliveries : LockLine(d) \/ CheckQuantities(d) \/ Abort(d)
                 \/ \E d \in Deliveries, b \in Bins : LockBin(d, b)
          PROVE  UNCHANGED Atomic!books
      BY <2>6 DEF vars, Begin, LockLine, CheckQuantities, Abort, LockBin, Atomic!books
    <2> QED  BY <2>1, <2>2, <2>3, <2>4, <2>5, <2>6 DEF Next
  <1>4. DeliveryInv => TypeOK
    BY DEF DeliveryInv
  <1>5. Spec => Init /\ [][Next]_vars
    BY DEF Spec
  <1>6. Spec => Atomic!AtomicInit /\ [][Atomic!AtomicNext]_(Atomic!books)
    BY <1>1, <1>2, <1>3, <1>4, <1>5, DeliveryInvariant, PTL
  <1> QED  BY <1>6 DEF SubmitsAtomically, Atomic!AtomicSpec

-----------------------------------------------------------------------------
(* Waiting for bins.                                                       *)

\* The least of some natural numbers.
LEMMA Minimum ==
    ASSUME NEW T \in SUBSET Nat, T # {}
    PROVE  \E m \in T : \A n \in T : m <= n
  <1> DEFINE R == OpToRel(<, Nat)
  <1>1. IsWellFoundedOn(R, Nat)
    BY NatLessThanWellFounded
  <1>2. \A x, y \in Nat : x < y => <<x, y>> \in R
    BY DEF OpToRel
  <1> HIDE DEF R
  <1>3. PICK x \in T : \A y \in T : ~ (<<y, x>> \in R)
    BY <1>1, WFMin
  <1>4. \A y \in T : y \in Nat /\ x \in Nat
    OBVIOUS
  <1>5. \A y \in T : ~(y < x)
    BY <1>2, <1>3, <1>4
  <1> QED  BY <1>4, <1>5

\* In a set of submissions the one that waits for the least bin, or one that waits
\* for none, holds nothing that another of them waits for.
THEOREM NoDeadlockOverBins == Spec => []BinsNeverDeadlock
  <1>1. DeliveryInv => BinsNeverDeadlock
    <2> SUFFICES ASSUME DeliveryInv
                 PROVE  \A cycle \in (SUBSET Active) \ {{}} :
                          \E d \in cycle : \A e \in cycle \ {d} :
                            ~ \E b \in submissions[d].bins :
                                  submissions[e].checked /\ NextBin(e, b)
      BY Zenon DEF BinsNeverDeadlock
    <2> TAKE cycle \in (SUBSET Active) \ {{}}
    <2>0. cycle \in SUBSET Active /\ cycle # {}
      OBVIOUS
    <2> DEFINE awaited == {b \in Bins : \E e \in cycle : submissions[e].checked /\ NextBin(e, b)}
    <2>1. \A e \in cycle : \A b : NextBin(e, b) => b \in Bins /\ b \in BinsOf(e) \ submissions[e].bins
      BY DEF NextBin, BinsOf
    <2>2. CASE awaited = {}
      BY <2>0, <2>1, <2>2
    <2>3. CASE awaited # {}
      <3>1. awaited \in SUBSET Nat
        BY DeliveryAssumption
      <3>2. PICK m \in awaited : \A n \in awaited : m <= n
        BY <2>3, <3>1, Minimum
      <3>3. PICK d \in cycle : submissions[d].checked /\ NextBin(d, m)
        BY <3>2
      <3>4. ASSUME NEW e \in cycle \ {d}, NEW b \in submissions[d].bins,
                   submissions[e].checked, NextBin(e, b)
            PROVE  FALSE
        <4>1. b \in awaited /\ b \in Nat /\ m \in Nat
          BY <2>1, <3>1, <3>4
        <4>2. m <= b
          BY <3>2, <4>1
        <4>3. b < m
          BY <2>0, <2>1, <3>3, <3>4 DEF DeliveryInv, SubmissionsSound, Sound
        <4> QED  BY <4>1, <4>2, <4>3
      <3> QED  BY <3>4
    <2> QED  BY <2>2, <2>3
  <1> QED  BY <1>1, DeliveryInvariant, PTL

-----------------------------------------------------------------------------
(* Sums.  The induction theorems of the library take an operator; a set of *)
(* counterexamples without a smallest one does as well.                    *)

\* A function that sums f over the subsets of S of at most n elements.
SumsUpTo(g, f, S, n) ==
    \A s \in SUBSET S : Cardinality(s) <= n =>
        g[s] = IF s = {} THEN 0 ELSE LET x == CHOOSE x \in s : TRUE IN f[x] + g[s \ {x}]

\* A finite set is larger by one than it is without a member.
LEMMA SmallerSet ==
    ASSUME NEW S, IsFiniteSet(S), S # {}
    PROVE  LET x == CHOOSE x \in S : TRUE
           IN  /\ x \in S
               /\ S \ {x} \in SUBSET S
               /\ IsFiniteSet(S \ {x})
               /\ Cardinality(S) \in Nat
               /\ Cardinality(S \ {x}) = Cardinality(S) - 1
               /\ Cardinality(S \ {x}) \in Nat
  <1> DEFINE x == CHOOSE x \in S : TRUE
  <1>1. x \in S
    OBVIOUS
  <1> HIDE DEF x
  <1>2. IsFiniteSet(S \ {x}) /\ Cardinality(S \ {x}) = Cardinality(S) - 1
    BY <1>1, FS_RemoveElement
  <1>3. Cardinality(S) \in Nat /\ Cardinality(S \ {x}) \in Nat
    BY <1>2, FS_CardinalityType
  <1> QED  BY <1>1, <1>2, <1>3 DEF x

\* There is one, for every n.
LEMMA SumsExist ==
    ASSUME NEW f, NEW S, IsFiniteSet(S), NEW n \in Nat
    PROVE  \E g : g = [s \in SUBSET S |-> g[s]] /\ SumsUpTo(g, f, S, n)
  <1> DEFINE Good(k) == \E g : g = [s \in SUBSET S |-> g[s]] /\ SumsUpTo(g, f, S, k)
             bad == {k \in Nat : ~Good(k)}
  <1>1. SUFFICES ASSUME bad # {} PROVE FALSE
    OBVIOUS
  <1>2. PICK k \in bad : \A j \in bad : k <= j
    BY <1>1, Minimum
  <1>3. \A s \in SUBSET S : /\ IsFiniteSet(s) /\ Cardinality(s) \in Nat
                            /\ Cardinality(s) = 0 <=> s = {}
    BY FS_Subset, FS_CardinalityType, FS_EmptySet
  <1>4. CASE k = 0
    <2> DEFINE g == [s \in SUBSET S |-> 0]
    <2>1. g = [s \in SUBSET S |-> g[s]]
      OBVIOUS
    <2>2. SumsUpTo(g, f, S, 0)
      BY <1>3 DEF SumsUpTo
    <2> QED  BY <1>2, <1>4, <2>1, <2>2
  <1>5. CASE k # 0
    <2>1. Good(k - 1)
      <3>1. k - 1 \in Nat /\ k - 1 \notin bad
        <4> HIDE DEF Good
        <4> QED  BY <1>2, <1>5
      <3> QED  BY <3>1
    <2>2. PICK g : SumsUpTo(g, f, S, k - 1)
      BY <2>1
    <2> DEFINE h == [s \in SUBSET S |->
                       IF s = {} THEN 0
                       ELSE LET x == CHOOSE x \in s : TRUE IN f[x] + g[s \ {x}]]
    <2>3. h = [s \in SUBSET S |-> h[s]]
      OBVIOUS
    <2>4. ASSUME NEW s \in SUBSET S, Cardinality(s) <= k - 1
          PROVE  h[s] = g[s]
      BY <2>2, <2>4 DEF SumsUpTo
    <2>5. ASSUME NEW s \in SUBSET S, Cardinality(s) <= k
          PROVE  h[s] = IF s = {} THEN 0
                        ELSE LET x == CHOOSE x \in s : TRUE IN f[x] + h[s \ {x}]
      <3>1. CASE s = {}
        BY <3>1
      <3>2. CASE s # {}
        <4> DEFINE x == CHOOSE x \in s : TRUE
        <4>1. /\ s \ {x} \in SUBSET s
              /\ Cardinality(s \ {x}) = Cardinality(s) - 1
              /\ Cardinality(s) \in Nat
          BY <1>3, <3>2, SmallerSet
        <4> HIDE DEF x
        <4>2. Cardinality(s \ {x}) <= k - 1 /\ s \ {x} \in SUBSET S
          BY <2>5, <4>1, <1>2
        <4>3. h[s \ {x}] = g[s \ {x}]
          BY <2>4, <4>2
        <4>4. h[s] = f[x] + g[s \ {x}]
          BY <3>2 DEF x
        <4> QED  BY <3>2, <4>3, <4>4 DEF x
      <3> QED  BY <3>1, <3>2
    <2> HIDE DEF h
    <2>6. SumsUpTo(h, f, S, k)
      BY <2>5 DEF SumsUpTo
    <2> QED  BY <1>2, <2>3, <2>6
  <1> QED  BY <1>4, <1>5

\* Hence the recursion that defines a sum has a solution.
LEMMA SumIteration ==
    ASSUME NEW f, NEW S, IsFiniteSet(S)
    PROVE  \E g : /\ SumsUpTo(g, f, S, Cardinality(S))
                  /\ SumFunctionOnSet(f, S) = g[S]
  <1> DEFINE body(g) == [s \in SUBSET S |->
                           IF s = {} THEN 0
                           ELSE LET x == CHOOSE x \in s : TRUE IN f[x] + g[s \ {x}]]
             iter == CHOOSE g : g = body(g)
  <1>1. SumFunctionOnSet(f, S) = iter[S]
    BY DEF SumFunctionOnSet, FoldFunctionOnSet, MapThenFoldSet
  <1>2. \A s \in SUBSET S : Cardinality(s) <= Cardinality(S)
    BY FS_Subset
  <1>3. PICK g : g = [s \in SUBSET S |-> g[s]] /\ SumsUpTo(g, f, S, Cardinality(S))
    BY SumsExist, FS_CardinalityType
  <1>4. g = body(g)
    <2>1. \A s \in SUBSET S : g[s] = body(g)[s]
      BY <1>2, <1>3 DEF SumsUpTo
    <2> HIDE DEF body
    <2>2. body(g) = [s \in SUBSET S |-> body(g)[s]]
      BY DEF body
    <2> QED  BY <1>3, <2>1, <2>2
  <1> HIDE DEF body
  <1>5. iter = body(iter)
    BY <1>4
  <1> HIDE DEF iter
  <1>6. SumsUpTo(iter, f, S, Cardinality(S))
    <2>1. \A s \in SUBSET S : iter[s] = body(iter)[s]
      BY <1>5
    <2> QED  BY <2>1 DEF SumsUpTo, body
  <1> QED  BY <1>1, <1>6

\* Induction over the subsets of a finite set.
LEMMA NoSmallestCounterexample ==
    ASSUME NEW S, IsFiniteSet(S), NEW C \in SUBSET (SUBSET S),
           {} \notin C,
           \A s \in C : s \ {CHOOSE x \in s : TRUE} \in C
    PROVE  C = {}
  <1> SUFFICES ASSUME C # {} PROVE FALSE
    OBVIOUS
  <1>1. \A s \in C : IsFiniteSet(s) /\ Cardinality(s) \in Nat
    BY FS_Subset, FS_CardinalityType
  <1> DEFINE sizes == {Cardinality(s) : s \in C}
  <1>2. sizes \in SUBSET Nat /\ sizes # {}
    BY <1>1
  <1>3. PICK n \in sizes : \A m \in sizes : n <= m
    BY <1>2, Minimum
  <1>4. PICK s \in C : n = Cardinality(s)
    BY <1>3
  <1>5. s # {}
    OBVIOUS
  <1> DEFINE t == s \ {CHOOSE x \in s : TRUE}
  <1>6. t \in C /\ Cardinality(t) = Cardinality(s) - 1
    BY <1>1, <1>5, SmallerSet
  <1> HIDE DEF t
  <1>7. Cardinality(s) <= Cardinality(t) /\ Cardinality(s) \in Nat
    BY <1>1, <1>3, <1>4, <1>6
  <1> QED  BY <1>6, <1>7

\* A sum is a member and the sum of the others.
LEMMA SumStep ==
    ASSUME NEW f, NEW S, IsFiniteSet(S), S # {}
    PROVE  LET x == CHOOSE x \in S : TRUE
           IN  SumFunctionOnSet(f, S) = f[x] + SumFunctionOnSet(f, S \ {x})
  <1> DEFINE x == CHOOSE x \in S : TRUE
             T == S \ {x}
  <1>1. /\ T \in SUBSET S /\ IsFiniteSet(T)
        /\ Cardinality(S) \in Nat /\ Cardinality(T) \in Nat
        /\ Cardinality(T) = Cardinality(S) - 1
    BY SmallerSet
  <1> HIDE DEF T
  <1>2. PICK g : SumsUpTo(g, f, S, Cardinality(S)) /\ SumFunctionOnSet(f, S) = g[S]
    BY SumIteration
  <1>3. PICK h : SumsUpTo(h, f, T, Cardinality(T)) /\ SumFunctionOnSet(f, T) = h[T]
    BY <1>1, SumIteration
  <1>4. g[S] = f[x] + g[T]
    BY <1>1, <1>2 DEF SumsUpTo, T
  <1> HIDE DEF x
  <1>5. g[T] = h[T]
    <2> DEFINE C == {s \in SUBSET T : g[s] # h[s]}
    <2>1. \A s \in SUBSET T : Cardinality(s) <= Cardinality(T) /\ Cardinality(s) \in Nat
      BY <1>1, FS_Subset, FS_CardinalityType
    <2>2. \A s \in SUBSET T :
            /\ g[s] = IF s = {} THEN 0
                      ELSE LET y == CHOOSE y \in s : TRUE IN f[y] + g[s \ {y}]
            /\ h[s] = IF s = {} THEN 0
                      ELSE LET y == CHOOSE y \in s : TRUE IN f[y] + h[s \ {y}]
      <3> TAKE s \in SUBSET T
      <3>1. s \in SUBSET S /\ Cardinality(s) <= Cardinality(S)
        BY <1>1, <2>1
      <3>2. Cardinality(s) <= Cardinality(T)
        BY <2>1
      <3> HIDE DEF C
      <3> QED  BY <1>2, <1>3, <3>1, <3>2 DEF SumsUpTo
    <2>3. {} \notin C
      BY <2>2
    <2>4. ASSUME NEW s \in C
          PROVE  s \ {CHOOSE y \in s : TRUE} \in C
      <3>1. s \in SUBSET T /\ s # {}
        BY <2>3
      <3> DEFINE y == CHOOSE y \in s : TRUE
      <3>2. g[s] = f[y] + g[s \ {y}] /\ h[s] = f[y] + h[s \ {y}]
        BY <2>2, <3>1
      <3>3. g[s] # h[s]
        OBVIOUS
      <3> HIDE DEF y
      <3>4. s \ {y} \in SUBSET T /\ g[s \ {y}] # h[s \ {y}]
        BY <3>1, <3>2, <3>3
      <3> QED  BY <3>4 DEF y
    <2>5. C \in SUBSET (SUBSET T)
      OBVIOUS
    <2> HIDE DEF C
    <2>6. C = {}
      BY <1>1, <2>3, <2>4, <2>5, NoSmallestCounterexample
    <2> QED  BY <2>6 DEF C
  <1> QED  BY <1>2, <1>3, <1>4, <1>5 DEF T, x

\* Nothing sums to zero.
LEMMA SumOfNone ==
    ASSUME NEW f
    PROVE  SumFunctionOnSet(f, {}) = 0
  <1>1. PICK g : SumsUpTo(g, f, {}, Cardinality({})) /\ SumFunctionOnSet(f, {}) = g[{}]
    BY SumIteration, FS_EmptySet
  <1> QED  BY <1>1, FS_EmptySet DEF SumsUpTo

\* A sum of naturals is natural.
LEMMA SumOfNaturals ==
    ASSUME NEW S, IsFiniteSet(S), NEW f, \A x \in S : f[x] \in Nat
    PROVE  SumFunctionOnSet(f, S) \in Nat
  <1> DEFINE C == {s \in SUBSET S : SumFunctionOnSet(f, s) \notin Nat}
  <1>1. {} \notin C
    BY SumOfNone
  <1>2. ASSUME NEW s \in C
        PROVE  s \ {CHOOSE x \in s : TRUE} \in C
    <2>1. s \in SUBSET S /\ IsFiniteSet(s) /\ s # {}
      BY <1>1, FS_Subset
    <2> DEFINE x == CHOOSE x \in s : TRUE
    <2>2. x \in s /\ SumFunctionOnSet(f, s) = f[x] + SumFunctionOnSet(f, s \ {x})
      BY <2>1, SumStep
    <2> HIDE DEF x
    <2>3. SumFunctionOnSet(f, s) \notin Nat /\ f[x] \in Nat
      BY <2>1, <2>2
    <2>4. SumFunctionOnSet(f, s \ {x}) \notin Nat
      BY <2>2, <2>3
    <2> QED  BY <2>1, <2>4 DEF x
  <1>3. C \in SUBSET (SUBSET S)
    OBVIOUS
  <1> HIDE DEF C
  <1>4. C = {}
    BY <1>1, <1>2, <1>3, NoSmallestCounterexample
  <1> QED  BY <1>4 DEF C

\* A sum of naturals is no less than what it sums.
LEMMA SumCoversMember ==
    ASSUME NEW S, IsFiniteSet(S), NEW f, \A x \in S : f[x] \in Nat, NEW y \in S
    PROVE  f[y] <= SumFunctionOnSet(f, S)
  <1> DEFINE C == {s \in SUBSET S : y \in s /\ ~(f[y] <= SumFunctionOnSet(f, s))}
  <1>1. {} \notin C
    OBVIOUS
  <1>2. ASSUME NEW s \in C
        PROVE  s \ {CHOOSE x \in s : TRUE} \in C
    <2>1. s \in SUBSET S /\ IsFiniteSet(s) /\ y \in s
      BY FS_Subset
    <2> DEFINE x == CHOOSE x \in s : TRUE
    <2>2. x \in s /\ SumFunctionOnSet(f, s) = f[x] + SumFunctionOnSet(f, s \ {x})
      BY <2>1, SumStep
    <2> HIDE DEF x
    <2>3. IsFiniteSet(s \ {x}) /\ s \ {x} \in SUBSET S
      BY <2>1, FS_Subset
    <2>4. SumFunctionOnSet(f, s \ {x}) \in Nat
      BY <2>3, SumOfNaturals
    <2>5. f[x] \in Nat /\ f[y] \in Nat /\ ~(f[y] <= SumFunctionOnSet(f, s))
      BY <2>1, <2>2
    <2>6. x # y /\ ~(f[y] <= SumFunctionOnSet(f, s \ {x}))
      BY <2>2, <2>4, <2>5
    <2>7. s \ {x} \in C
      BY <2>1, <2>3, <2>6
    <2> QED  BY <2>7 DEF x
  <1>3. C \in SUBSET (SUBSET S)
    OBVIOUS
  <1> HIDE DEF C
  <1>4. C = {}
    BY <1>1, <1>2, <1>3, NoSmallestCounterexample
  <1> QED  BY <1>4 DEF C

\* Two sums of as many numbers differ by no more than these do.
LEMMA SumsCompare ==
    ASSUME NEW S, IsFiniteSet(S), NEW u \in Nat, NEW f, NEW g,
           \A x \in S : f[x] \in Nat /\ g[x] \in Nat /\ 2 * f[x] <= 2 * g[x] + u
    PROVE  2 * SumFunctionOnSet(f, S) <= 2 * SumFunctionOnSet(g, S) + u * Cardinality(S)
  <1> DEFINE Fits(s) ==
               2 * SumFunctionOnSet(f, s) <= 2 * SumFunctionOnSet(g, s) + u * Cardinality(s)
             C == {s \in SUBSET S : ~Fits(s)}
  <1>1. {} \notin C
    BY SumOfNone, FS_EmptySet
  <1>2. ASSUME NEW s \in C
        PROVE  s \ {CHOOSE x \in s : TRUE} \in C
    <2>1. s \in SUBSET S /\ IsFiniteSet(s) /\ s # {}
      BY <1>1, FS_Subset
    <2> DEFINE x == CHOOSE x \in s : TRUE
    <2>2. /\ x \in s
          /\ SumFunctionOnSet(f, s) = f[x] + SumFunctionOnSet(f, s \ {x})
          /\ SumFunctionOnSet(g, s) = g[x] + SumFunctionOnSet(g, s \ {x})
          /\ IsFiniteSet(s \ {x})
          /\ Cardinality(s) \in Nat
          /\ Cardinality(s \ {x}) = Cardinality(s) - 1
      BY <2>1, SumStep, SmallerSet
    <2> HIDE DEF x
    <2>3. s \ {x} \in SUBSET S
      BY <2>1
    <2>4. SumFunctionOnSet(f, s \ {x}) \in Nat /\ SumFunctionOnSet(g, s \ {x}) \in Nat
      BY <2>2, <2>3, SumOfNaturals
    <2>5. f[x] \in Nat /\ g[x] \in Nat /\ 2 * f[x] <= 2 * g[x] + u
      BY <2>1, <2>2
    <2>6. ~Fits(s)
      OBVIOUS
    <2>7. u * Cardinality(s) = u * Cardinality(s \ {x}) + u
      BY <2>2
    <2>8. u * Cardinality(s) \in Nat /\ u * Cardinality(s \ {x}) \in Int
      BY <2>2
    <2>9. ~Fits(s \ {x})
      BY <2>2, <2>4, <2>5, <2>6, <2>7, <2>8
    <2> HIDE DEF Fits
    <2> QED  BY <2>3, <2>9 DEF x
  <1>3. C \in SUBSET (SUBSET S)
    OBVIOUS
  <1> HIDE DEF C
  <1>4. C = {}
    BY <1>1, <1>2, <1>3, NoSmallestCounterexample
  <1> QED  BY <1>4 DEF C

-----------------------------------------------------------------------------
(* The arithmetic of a gap.                                                *)

\* Division by a positive number rounds down.
LEMMA Division ==
    ASSUME NEW n \in Int, NEW m \in Nat \ {0}
    PROVE  n \div m \in Int /\ m * (n \div m) <= n /\ n < m * (n \div m) + m
  OBVIOUS

\* A rounding moves a quantity by half a Unit at most, and none below zero.
LEMMA Rounding ==
    ASSUME NEW q \in Int
    PROVE  /\ normalized_quantity(q) \in Int
           /\ 2 * q - Unit <= 2 * normalized_quantity(q)
           /\ 2 * normalized_quantity(q) <= 2 * q + Unit
           /\ q >= 0 => normalized_quantity(q) >= 0
           /\ q <= 0 => normalized_quantity(q) <= 0
  <1> DEFINE k == (2 * q + Unit) \div (2 * Unit)
  <1>1. Unit \in Nat \ {0} /\ 2 * Unit \in Nat \ {0} /\ 2 * q + Unit \in Int
    BY UnitAssumption
  <1>2. k \in Int /\ 2 * Unit * k <= 2 * q + Unit /\ 2 * q + Unit < 2 * Unit * k + 2 * Unit
    BY <1>1, Division
  <1> HIDE DEF k
  <1>3. normalized_quantity(q) = Unit * k
    BY DEF normalized_quantity, k
  <1>4. ASSUME q >= 0
        PROVE  Unit * k >= 0
    <2>1. 2 * Unit * (k + 1) > 0
      BY <1>1, <1>2, <1>4
    <2>2. k + 1 > 0
      BY <1>1, <1>2, <2>1
    <2> QED  BY <1>1, <1>2, <2>2
  <1>5. ASSUME q <= 0
        PROVE  Unit * k <= 0
    <2>1. 2 * Unit * (k - 1) < 0
      BY <1>1, <1>2, <1>5
    <2>2. k - 1 < 0
      BY <1>1, <1>2, <2>1
    <2> QED  BY <1>1, <1>2, <2>2
  <1> QED  BY <1>1, <1>2, <1>3, <1>4, <1>5

\* For all quantities: an order whose own demand is part of what is reserved, but
\* for n roundings, requires what covers all reservations and the safety stock and
\* nothing beyond, but for five more.  (GapCovers for the sums of the lines.)
THEOREM GapBounds ==
    ASSUME NEW own \in Nat, NEW reserved \in Nat, NEW actual \in Int,
           NEW inbound \in Nat, NEW safety \in Int, NEW n \in Nat,
           2 * own <= 2 * reserved + Unit * n
    PROVE  LET gap == required_qty(own, reserved, actual, inbound, safety)
               surplus == actual + inbound + gap - reserved - AtLeast0(safety)
           IN  /\ gap >= 0
               /\ 2 * surplus >= -(5 * Unit)
               /\ gap > 0 => 2 * surplus <= Unit * n + 5 * Unit
  <1> DEFINE r == normalized_quantity(reserved)
             a == normalized_quantity(actual)
             i == normalized_quantity(inbound)
             s == AtLeast0(normalized_quantity(safety))
             safe == AtLeast0(safety)
             other == AtLeast0(r - own)
             short == own + s - (a - other) - i
             g == normalized_quantity(short)
  <1>1. Unit \in Nat \ {0} /\ Unit * n \in Nat
    BY UnitAssumption
  <1>2. /\ r \in Nat /\ 2 * reserved - Unit <= 2 * r /\ 2 * r <= 2 * reserved + Unit
        /\ a \in Int /\ 2 * actual - Unit <= 2 * a /\ 2 * a <= 2 * actual + Unit
        /\ i \in Nat /\ 2 * inbound - Unit <= 2 * i /\ 2 * i <= 2 * inbound + Unit
        /\ s \in Nat /\ 2 * safe - Unit <= 2 * s /\ 2 * s <= 2 * safe + Unit
        /\ safe \in Nat
    <2> DEFINE v == normalized_quantity(safety)
    <2>1. /\ v \in Int /\ 2 * safety - Unit <= 2 * v /\ 2 * v <= 2 * safety + Unit
          /\ safety >= 0 => v >= 0
          /\ safety <= 0 => v <= 0
      BY Rounding
    <2> HIDE DEF v
    <2>2. s = AtLeast0(v)
      BY DEF v
    <2>3. /\ safe \in Nat /\ s \in Nat
          /\ 2 * safe - Unit <= 2 * s /\ 2 * s <= 2 * safe + Unit
      BY <1>1, <2>1, <2>2 DEF AtLeast0
    <2> HIDE DEF s, safe
    <2> QED  BY <1>1, <2>3, Rounding
  <1>3. required_qty(own, reserved, actual, inbound, safety) = AtLeast0(g)
    BY <1>2 DEF required_qty, AtLeast0
  <1> HIDE DEF r, a, i, s, safe
  <1>4. other \in Nat /\ other >= r - own /\ (other = r - own \/ (other = 0 /\ own > r))
    BY <1>2 DEF AtLeast0
  <1> HIDE DEF other
  <1>5. short \in Int /\ short = own + other + s - a - i
    BY <1>2, <1>4
  <1> HIDE DEF short
  <1>6. g \in Int /\ 2 * short - Unit <= 2 * g /\ 2 * g <= 2 * short + Unit
    BY <1>5, Rounding
  <1> HIDE DEF g
  <1>7. AtLeast0(g) >= 0 /\ AtLeast0(g) >= g /\ (AtLeast0(g) > 0 => AtLeast0(g) = g)
        /\ AtLeast0(g) \in Int
    BY <1>6 DEF AtLeast0
  <1> DEFINE gap == AtLeast0(g)
             surplus == actual + inbound + gap - reserved - safe
  <1> HIDE DEF gap
  <1>8. gap \in Int /\ gap >= 0 /\ gap >= g /\ (gap > 0 => gap = g)
    BY <1>7 DEF gap
  <1>9. 2 * surplus >= -(5 * Unit)
    BY <1>1, <1>2, <1>4, <1>5, <1>6, <1>8
  <1>10. ASSUME gap > 0
         PROVE  2 * surplus <= Unit * n + 5 * Unit
    <2>1. 2 * (own + other) <= 2 * reserved + Unit * n + Unit
      BY <1>1, <1>2, <1>4
    <2>2. 2 * gap <= 2 * (own + other) + 2 * s - 2 * a - 2 * i + Unit
      BY <1>1, <1>2, <1>4, <1>5, <1>6, <1>8, <1>10
    <2> DEFINE un == Unit * n
    <2>3. un \in Nat /\ 2 * (own + other) <= 2 * reserved + un + Unit
      BY <1>1, <2>1
    <2> HIDE DEF un
    <2>4. 2 * surplus <= un + 5 * Unit
      BY <1>1, <1>2, <1>4, <1>8, <2>2, <2>3
    <2> QED  BY <2>4 DEF un
  <1> QED  BY <1>3, <1>8, <1>9, <1>10 DEF gap, safe

\* A multiple of a factor counts as many of it.
LEMMA Multiple ==
    ASSUME NEW n \in Int, NEW m \in Nat \ {0}
    PROVE  (m * n) \div m = n
  <1> DEFINE k == (m * n) \div m
  <1>1. k \in Int /\ m * k <= m * n /\ m * n < m * k + m
    BY Division
  <1> HIDE DEF k
  <1>2. m * (n - k) >= 0 /\ m * (n - k - 1) < 0
    BY <1>1
  <1>3. n - k >= 0 /\ n - k - 1 < 0
    BY <1>1, <1>2
  <1> QED  BY <1>1, <1>3 DEF k

\* Whole units stay so when whole units are added or taken off.
LEMMA WholeUnitsAdd ==
    ASSUME NEW l \in Lines, NEW p \in Int, NEW q \in Int,
           WholeUnits(l, p), WholeUnits(l, q)
    PROVE  WholeUnits(l, p + q) /\ WholeUnits(l, p - q)
  <1> DEFINE m == Factor[l]
             i == p \div m
             j == q \div m
  <1>1. m \in Nat \ {0}
    BY GapAssumption
  <1>2. i \in Int /\ j \in Int /\ p = m * i /\ q = m * j
    BY <1>1, Division DEF WholeUnits
  <1> HIDE DEF m, i, j
  <1>3. p + q = m * (i + j) /\ p - q = m * (i - j)
    BY <1>1, <1>2
  <1>4. (p + q) \div m = i + j /\ (p - q) \div m = i - j
    BY <1>1, <1>2, <1>3, Multiple
  <1> QED  BY <1>3, <1>4 DEF WholeUnits, m

\* All that is delivered is in units of sale.
DeliveredWhole == \A l \in Lines : WholeUnits(l, delivered[l])

LEMMA DeliveredWholeKept ==
    ASSUME TypeOK, DeliveredWhole, [Next]_vars
    PROVE  DeliveredWhole'
  <1> SUFFICES ASSUME NEW l \in Lines
               PROVE  WholeUnits(l, delivered'[l])
    BY DEF DeliveredWhole, WholeUnits
  <1>1. delivered[l] \in Int /\ WholeUnits(l, delivered[l])
    BY DEF TypeOK, DeliveredWhole
  <1>2. \A d \in Deliveries :
          /\ WholeUnits(l, delivered[l] + Quantity[d][l])
          /\ WholeUnits(l, delivered[l] - Quantity[d][l])
    <2> TAKE d \in Deliveries
    <2>1. Quantity[d][l] \in Int
      BY DeliveryAssumption
    <2>2. WholeUnits(l, Quantity[d][l])
      BY GapAssumption, Zenon
    <2> QED  BY <1>1, <2>1, <2>2, WholeUnitsAdd
  <1>3. \/ delivered' = delivered
        \/ \E d \in Deliveries :
              \/ delivered' = [k \in Lines |-> delivered[k] + Quantity[d][k]]
              \/ delivered' = [k \in Lines |-> delivered[k] - Quantity[d][k]]
    BY DEF Next, vars, Begin, LockLine, CheckQuantities, LockBin, Commit, Book, Abort,
           SubmitUnchecked, CancelDelivery, CancelOrder, BinMoves
  <1> QED  BY <1>1, <1>2, <1>3

\* What the rows of an order tell of its demand is, but for one rounding for each of
\* its lines, part of all that is reserved.
LEMMA OwnDemandReserved ==
    ASSUME TypeOK, DeliveredWhole, NEW o \in standing, NEW b \in Bins
    PROVE  /\ Cardinality(LinesAt(o, b)) \in Nat
           /\ OwnDemand(o, b) \in Nat
           /\ Reserved(b) \in Nat
           /\ 2 * OwnDemand(o, b) <= 2 * Reserved(b) + Unit * Cardinality(LinesAt(o, b))
  <1> DEFINE owed == [l \in Lines |-> AtLeast0(Ordered[l] - delivered[l])]
             rows == [l \in Lines |->
                        OpenDemand(Ordered[l], delivered[l] \div Factor[l], Factor[l])]
             demands == [p \in Orders |-> Demand(p, b)]
  <1>1. Unit \in Nat /\ IsFiniteSet(Lines) /\ IsFiniteSet(Orders)
    BY UnitAssumption, GapAssumption
  <1>2. \A p : LinesAt(p, b) \in SUBSET Lines /\ IsFiniteSet(LinesAt(p, b))
    BY <1>1, FS_Subset DEF LinesAt
  <1>3. standing \in SUBSET Orders /\ IsFiniteSet(standing)
    BY <1>1, FS_Subset DEF TypeOK
  <1>4. \A l \in Lines :
          owed[l] \in Nat /\ rows[l] \in Nat /\ 2 * rows[l] <= 2 * owed[l] + Unit
    <2> TAKE l \in Lines
    <2>1. /\ Ordered[l] \in Int /\ delivered[l] \in Int /\ Factor[l] \in Nat \ {0}
          /\ delivered[l] = Factor[l] * (delivered[l] \div Factor[l])
      BY DeliveryAssumption, GapAssumption DEF TypeOK, DeliveredWhole, WholeUnits
    <2>2. (delivered[l] \div Factor[l]) * Factor[l] = delivered[l]
      BY <2>1
    <2>3. owed[l] \in Nat
      BY <2>1 DEF AtLeast0
    <2>4. rows[l] = normalized_quantity(owed[l])
      BY <2>1, <2>2 DEF OpenDemand
    <2> QED  BY <2>3, <2>4, Rounding
  <1> HIDE DEF owed, rows
  <1>5. \A p : Demand(p, b) \in Nat
    <2>1. \A p : Demand(p, b) = SumFunctionOnSet(owed, LinesAt(p, b))
      BY DEF Demand, owed
    <2> QED  BY <1>2, <1>4, <2>1, SumOfNaturals
  <1>6. /\ SumFunctionOnSet(rows, LinesAt(o, b)) \in Nat
        /\ 2 * SumFunctionOnSet(rows, LinesAt(o, b))
              <= 2 * SumFunctionOnSet(owed, LinesAt(o, b)) + Unit * Cardinality(LinesAt(o, b))
    BY <1>1, <1>2, <1>4, SumOfNaturals, SumsCompare
  <1>7. /\ OwnDemand(o, b) = SumFunctionOnSet(rows, LinesAt(o, b))
        /\ Demand(o, b) = SumFunctionOnSet(owed, LinesAt(o, b))
        /\ Reserved(b) = SumFunctionOnSet(demands, standing)
    BY DEF OwnDemand, Demand, Reserved, owed, rows
  <1>8. \A p \in standing : demands[p] \in Nat /\ demands[p] = Demand(p, b)
    BY <1>3, <1>5
  <1> HIDE DEF demands
  <1>9. /\ SumFunctionOnSet(demands, standing) \in Nat
        /\ demands[o] <= SumFunctionOnSet(demands, standing)
    BY <1>3, <1>8, SumOfNaturals, SumCoversMember
  <1>10. Cardinality(LinesAt(o, b)) \in Nat
    BY <1>2, FS_CardinalityType
  <1>11. Unit * Cardinality(LinesAt(o, b)) \in Nat
    BY <1>1, <1>10
  <1> QED  BY <1>5, <1>6, <1>7, <1>8, <1>9, <1>10, <1>11

\* For any number of orders, lines and bins: the gap of an order that stands covers
\* all that is reserved and the safety stock, and goes beyond by roundings only.
THEOREM GapsCover == Spec => []GapCovers
  <1>1. Init => DeliveredWhole
    <2> SUFFICES ASSUME Init, NEW l \in Lines
                 PROVE  WholeUnits(l, delivered[l])
      BY DEF DeliveredWhole
    <2>1. Factor[l] \in Nat \ {0} /\ delivered[l] = 0
      BY GapAssumption DEF Init
    <2>2. 0 = Factor[l] * (0 \div Factor[l])
      BY <2>1
    <2> QED  BY <2>1, <2>2 DEF WholeUnits
  <1>2. TypeOK /\ DeliveredWhole /\ [Next]_vars => DeliveredWhole'
    BY DeliveredWholeKept
  <1>3. TypeOK /\ DeliveredWhole => GapCovers
    <2> SUFFICES ASSUME TypeOK, DeliveredWhole, NEW o \in standing, NEW b \in Bins
                 PROVE  LET roundings == Cardinality(LinesAt(o, b)) + 5
                            surplus == stock[b] + incoming[b] + Gap(o, b)
                                           - Reserved(b) - AtLeast0(SafetyStock[b])
                        IN  /\ Gap(o, b) >= 0
                            /\ 2 * surplus >= -Unit * roundings
                            /\ Gap(o, b) > 0 => 2 * surplus <= Unit * roundings
      BY Zenon DEF GapCovers
    <2> DEFINE n == Cardinality(LinesAt(o, b))
               surplus == stock[b] + incoming[b] + Gap(o, b)
                              - Reserved(b) - AtLeast0(SafetyStock[b])
    <2>1. /\ n \in Nat /\ OwnDemand(o, b) \in Nat /\ Reserved(b) \in Nat
          /\ 2 * OwnDemand(o, b) <= 2 * Reserved(b) + Unit * n
      BY OwnDemandReserved
    <2>2. stock[b] \in Int /\ incoming[b] \in Nat /\ SafetyStock[b] \in Int
      BY GapAssumption DEF TypeOK
    <2> HIDE DEF n
    <2>3. /\ Gap(o, b) >= 0
          /\ 2 * surplus >= -(5 * Unit)
          /\ Gap(o, b) > 0 => 2 * surplus <= Unit * n + 5 * Unit
      BY <2>1, <2>2, GapBounds, Zenon DEF Gap
    <2>4. /\ Unit * (n + 5) = Unit * n + 5 * Unit
          /\ -Unit * (n + 5) = -(Unit * n) - 5 * Unit
          /\ Unit \in Nat /\ Unit * n \in Nat
      BY <2>1, UnitAssumption
    <2>5. surplus \in Int
      <3>1. Gap(o, b) \in Int
        BY <2>1, <2>2, Rounding DEF Gap, required_qty, AtLeast0
      <3> QED  BY <2>1, <2>2, <3>1 DEF AtLeast0
    <2> HIDE DEF surplus
    <2>6. 2 * surplus >= -Unit * (n + 5)
      BY <2>3, <2>4, <2>5
    <2>7. Gap(o, b) > 0 => 2 * surplus <= Unit * (n + 5)
      BY <2>3, <2>4
    <2> QED  BY <2>3, <2>6, <2>7 DEF n, surplus
  <1>4. Spec => Init /\ [][Next]_vars
    BY DEF Spec
  <1> QED  BY <1>1, <1>2, <1>3, <1>4, DeliveryTypes, PTL
=============================================================================
