----------------------- MODULE WitnessDelivery_proofs -----------------------
(***************************************************************************)
(* Theorems about WitnessDelivery for every set of commands and every      *)
(* bound on deaths.  The compare-and-set of Rearm and Commit is all that   *)
(* keeps two commands apart; what it buys is SnapCurrent: a command that   *)
(* nobody overtook (~moved) and that is about to write still has in its    *)
(* snapshot the verdict that is in the row.                                *)
(***************************************************************************)
EXTENDS WitnessDelivery, TLAPS

AtRead(p)   == pc[p] = "read"
Sending(p)  == pc[p] \in {"submitting", "answered"}
Rearmed(r)  == [r EXCEPT !.permanent = FALSE]

(* A command about to write that was not overtaken: for a re-arm, the row  *)
(* is what it read, or what another re-arm made of it; for a commit, the   *)
(* row has no receipt and did not fail for good.                           *)
Current(p) ==
  ~moved[p] =>
    /\ AtRead(p) => row = snap[p] \/ (Refused(snap[p]) /\ row = Rearmed(snap[p]))
    /\ Sending(p) => row.receipt = "none" /\ ~row.permanent

SnapCurrent == \A p \in Procs : Current(p)

IInv == TypeOK /\ VerifiedStands /\ SnapCurrent

(* What a delivery records of an answer: never a forged receipt, final     *)
(* only by the witness's word.                                             *)
LEMMA RecordedType ==
  ASSUME NEW c \in Conditions
  PROVE  /\ Recorded(Outcome(c)) \in Rows
         /\ Recorded(Outcome(c)).receipt # "forged"
         /\ Recorded(Outcome(c)).permanent => Recorded(Outcome(c)).error \in {"rejected", "unverified"}
  BY DEF Conditions, Outcome, Recorded, Retryable, Rows, Receipts, Errors

(* A fresh row and a row of an older build are both sound.                 *)
LEMMA InitIInv == Init => IInv
<1> SUFFICES ASSUME Init PROVE IInv
  OBVIOUS
<1>1. TypeOK
  <2>1. FreshRow \in Rows /\ LegacyRow \in Rows
    BY DEF FreshRow, LegacyRow, Rows, Receipts, Errors
  <2>2. "down" \in Conditions
    BY DEF Conditions
  <2>3. QED
    BY <2>1, <2>2, DeathsAssumption DEF Init, TypeOK
<1>2. VerifiedStands
  BY DEF Init, VerifiedStands, FreshRow, LegacyRow
<1>3. SnapCurrent
  BY DEF Init, SnapCurrent, Current, AtRead, Sending
<1>4. QED
  BY <1>1, <1>2, <1>3 DEF IInv

(* A command that leaves keeps the types.                                  *)
LEMMA LeaveType ==
  ASSUME TypeOK, NEW p \in Procs, Leave(p)
  PROVE  /\ early' \subseteq Procs
         /\ pc' \in [Procs -> {"idle", "read", "ready", "submitting", "answered", "delivered"}]
         /\ snap' \in [Procs -> Rows]
         /\ moved' \in [Procs -> BOOLEAN]
         /\ answer' \in [Procs -> {Outcome(c) : c \in Conditions}]
<1>1. FreshRow \in Rows
  BY DEF FreshRow, Rows, Receipts, Errors
<1>2. Outcome("down") \in {Outcome(c) : c \in Conditions}
  BY DEF Conditions
<1>3. QED
  BY <1>1, <1>2 DEF TypeOK, Leave, Goto

(* Types are kept by every action.                                         *)
LEMMA TypeOKStep == TypeOK /\ [Next]_vars => TypeOK'
<1> SUFFICES ASSUME TypeOK, [Next]_vars PROVE TypeOK'
  OBVIOUS
<1> USE DEF TypeOK
<1>1. ASSUME NEW p \in Procs, Publish(p) PROVE TypeOK'
  BY <1>1 DEF Publish, ReadRow, Goto
<1>2. ASSUME NEW p \in Procs, KeepRow(p) \/ NotDue(p) PROVE TypeOK'
  BY <1>2 DEF KeepRow, NotDue, Goto
<1>3. ASSUME NEW p \in Procs, Rearm(p) PROVE TypeOK'
  <2>1. [snap[p] EXCEPT !.permanent = FALSE] \in Rows
    BY DEF Rows
  <2>2. QED
    BY <1>3, <2>1 DEF Rearm, Goto, InFlight
<1>4. ASSUME NEW p \in Procs, RearmConflict(p) \/ CommitConflict(p) PROVE TypeOK'
  BY <1>4, LeaveType DEF RearmConflict, CommitConflict
<1>5. ASSUME NEW p \in Procs, Pick(p) PROVE TypeOK'
  BY <1>5 DEF Pick, ReadRow, Goto
<1>6. ASSUME NEW p \in Procs, Submit(p) PROVE TypeOK'
  BY <1>6 DEF Submit, Goto
<1>7. ASSUME NEW p \in Procs, Commit(p) PROVE TypeOK'
  <2>1. PICK c \in Conditions : answer[p] = Outcome(c)
    OBVIOUS
  <2>2. Recorded(answer[p]) \in Rows
    BY <2>1, RecordedType
  <2>3. QED
    BY <1>7, <2>2 DEF Commit, Goto, InFlight
<1>8. ASSUME NEW p \in Procs, Show(p) PROVE TypeOK'
  BY <1>8, LeaveType DEF Show
<1>9. ASSUME NEW p \in Procs, Die(p) PROVE TypeOK'
  <2>1. deaths' \in 0..MaxDeaths
    BY <1>9, DeathsAssumption DEF Die
  <2>2. QED
    BY <1>9, <2>1, LeaveType DEF Die
<1>10. CASE Ripen
  BY <1>10 DEF Ripen, InFlight
<1>11. ASSUME NEW c \in Conditions, Change(c) PROVE TypeOK'
  BY <1>11 DEF Change
<1>12. CASE UNCHANGED vars
  BY <1>12 DEF vars
<1>13. QED
  BY <1>1, <1>2, <1>3, <1>4, <1>5, <1>6, <1>7, <1>8, <1>9, <1>10, <1>11, <1>12 DEF Next, Step

(* A re-arm that was not overtaken meets the refused row it read, or one   *)
(* that another re-arm made of it.                                         *)
LEMMA RearmMeets ==
  ASSUME TypeOK, SnapCurrent, NEW p \in Procs, Rearm(p)
  PROVE  /\ row' = Rearmed(snap[p]) /\ Refused(snap[p]) /\ snap[p] \in Rows
         /\ row = snap[p] \/ row = Rearmed(snap[p])
         /\ row'.receipt = "none" /\ ~row'.permanent
         /\ row.receipt = "none" /\ row.error = "refused"
<1>1. /\ row' = Rearmed(snap[p]) /\ Refused(snap[p]) /\ snap[p] \in Rows
      /\ row = snap[p] \/ row = Rearmed(snap[p])
  BY DEF Rearm, Rearmed, TypeOK, SnapCurrent, Current, AtRead
<1>2. QED
  BY <1>1 DEF Refused, Rearmed, Rows

(* A commit that was not overtaken meets a row still to be delivered, and  *)
(* stores what a witness can be found to have answered.                    *)
LEMMA CommitMeets ==
  ASSUME TypeOK, SnapCurrent, NEW p \in Procs, Commit(p)
  PROVE  /\ row.receipt = "none" /\ ~row.permanent
         /\ row'.receipt # "forged"
         /\ row'.permanent => row'.error \in {"rejected", "unverified"}
<1>1. PICK c \in Conditions : answer[p] = Outcome(c)
  BY DEF TypeOK
<1>2. row' = Recorded(Outcome(c))
  BY <1>1 DEF Commit
<1>3. row.receipt = "none" /\ ~row.permanent
  BY DEF Commit, SnapCurrent, Current, Sending
<1>4. QED
  BY <1>2, <1>3, RecordedType

(* Every other step leaves the row alone.                                  *)
LEMMA RowStep ==
  ASSUME [Next]_vars
  PROVE  row' = row \/ \E p \in Procs : Rearm(p) \/ Commit(p)
  BY DEF Next, Step, vars, Publish, KeepRow, RearmConflict, Pick, NotDue, Submit, CommitConflict,
         Show, Die, Ripen, Change

(* A command not overtaken is still current: any other's write marks it    *)
(* moved.                                                                  *)
LEMMA SnapCurrentStep == TypeOK /\ SnapCurrent /\ [Next]_vars => SnapCurrent'
<1> SUFFICES ASSUME TypeOK, SnapCurrent, [Next]_vars, NEW q \in Procs PROVE Current(q)'
  BY DEF SnapCurrent
<1> USE DEF TypeOK, AtRead, Sending
<1>0. Current(q)
  BY DEF SnapCurrent
<1>1. ASSUME row' = row, pc'[q] = pc[q], snap'[q] = snap[q], moved'[q] = moved[q]
      PROVE  Current(q)'
  BY <1>0, <1>1 DEF Current, Refused, Rearmed
<1>2. ASSUME pc'[q] \notin {"read", "submitting", "answered"} PROVE Current(q)'
  BY <1>2 DEF Current
<1>3. ASSUME NEW p \in Procs, Publish(p) PROVE Current(q)'
  BY <1>1, <1>3 DEF Publish, ReadRow, Goto, Current
<1>4. ASSUME NEW p \in Procs, KeepRow(p) \/ NotDue(p) PROVE Current(q)'
  BY <1>1, <1>2, <1>4 DEF KeepRow, NotDue, Goto
<1>5. ASSUME NEW p \in Procs, Rearm(p) PROVE Current(q)'
  <2>1. /\ row' = Rearmed(snap[p]) /\ Refused(snap[p]) /\ snap[p] \in Rows
        /\ row = snap[p] \/ row = Rearmed(snap[p])
        /\ row'.receipt = "none" /\ ~row'.permanent
    BY <1>5, RearmMeets
  <2>2. UNCHANGED <<snap, moved>>
    BY <1>5 DEF Rearm
  <2>3. CASE p = q
    BY <1>2, <1>5, <2>3 DEF Rearm, Goto
  <2>4. CASE p # q
    <3>1. pc'[q] = pc[q]
      BY <1>5, <2>4 DEF Rearm, Goto
    <3>2. ASSUME AtRead(q), ~moved[q]
          PROVE  row' = snap[q] \/ (Refused(snap[q]) /\ row' = Rearmed(snap[q]))
      <4>1. row = snap[q] \/ (Refused(snap[q]) /\ row = Rearmed(snap[q]))
        BY <1>0, <3>2 DEF Current
      <4>2. CASE row = snap[p]
        BY <2>1, <4>1, <4>2 DEF Refused, Rearmed, Rows
      <4>3. CASE row = Rearmed(snap[p])
        BY <2>1, <4>1, <4>3
      <4>4. QED
        BY <2>1, <4>2, <4>3
    <3>3. QED
      BY <2>1, <2>2, <3>1, <3>2 DEF Current, Refused, Rearmed
  <2>5. QED
    BY <2>3, <2>4
<1>6. ASSUME NEW p \in Procs, Leave(p), row' = row PROVE Current(q)'
  BY <1>1, <1>2, <1>6 DEF Leave, Goto
<1>7. ASSUME NEW p \in Procs, RearmConflict(p) \/ CommitConflict(p) \/ Show(p) \/ Die(p)
      PROVE  Current(q)'
  BY <1>6, <1>7 DEF RearmConflict, CommitConflict, Show, Die
<1>8. ASSUME NEW p \in Procs, Pick(p) PROVE Current(q)'
  BY <1>1, <1>8 DEF Pick, Due, ReadRow, Goto, Current
<1>9. ASSUME NEW p \in Procs, Submit(p) PROVE Current(q)'
  BY <1>0, <1>1, <1>9 DEF Submit, Goto, Current
<1>10. ASSUME NEW p \in Procs, Commit(p) PROVE Current(q)'
  BY <1>2, <1>10 DEF Commit, Goto, Current
<1>11. CASE Ripen \/ (\E c \in Conditions : Change(c)) \/ UNCHANGED vars
  BY <1>1, <1>11 DEF Ripen, Change, vars
<1>12. QED
  BY <1>3, <1>4, <1>5, <1>7, <1>8, <1>9, <1>10, <1>11 DEF Next, Step

(* A stored receipt is not overwritten by a step.                          *)
LEMMA ReceiptStep ==
  ASSUME TypeOK, SnapCurrent, [Next]_vars, row.receipt = "genuine"
  PROVE  row' = row
  BY RowStep, RearmMeets, CommitMeets

(* What was shown as verified stays in the row.                            *)
LEMMA VerifiedStandsStep == IInv /\ [Next]_vars => VerifiedStands'
<1> SUFFICES ASSUME IInv, [Next]_vars PROVE VerifiedStands'
  OBVIOUS
<1>1. row'.receipt # "forged"
  BY RowStep, RearmMeets, CommitMeets DEF IInv, VerifiedStands
<1>2. verified' = verified \/ row.receipt = "genuine"
  BY DEF Next, Step, vars, Publish, KeepRow, Rearm, RearmConflict, Pick, NotDue, Submit, Commit,
         CommitConflict, Show, Die, Ripen, Change
<1>3. QED
  BY <1>1, <1>2, ReceiptStep DEF IInv, VerifiedStands

(* The invariant on which the theorems rest.                               *)
THEOREM DeliveryInvariant == Spec => []IInv
<1>1. IInv /\ [Next]_vars => IInv'
  BY TypeOKStep, SnapCurrentStep, VerifiedStandsStep DEF IInv
<1>2. QED
  BY InitIInv, <1>1, PTL DEF Spec

(* Every variable stays of its type.                                       *)
THEOREM DeliveryTypes == Spec => []TypeOK
<1>1. IInv => TypeOK
  BY DEF IInv
<1>2. QED
  BY DeliveryInvariant, <1>1, PTL

(* A receipt, once stored, is never overwritten, by a second command that  *)
(* submitted the row or by a re-arm from a row read before.                *)
THEOREM ReceiptsAreKept == Spec => ReceiptKept
<1>1. IInv /\ [Next]_vars => [row.receipt = "genuine" => row'.receipt = "genuine"]_vars
  BY ReceiptStep DEF IInv
<1>2. QED
  BY DeliveryInvariant, <1>1, PTL DEF Spec, ReceiptKept

(* What was printed as verified is in the row, and no forged receipt is.   *)
THEOREM VerifiedIsStored == Spec => []VerifiedStands
<1>1. IInv => VerifiedStands
  BY DEF IInv
<1>2. QED
  BY DeliveryInvariant, <1>1, PTL

(* A delivery failed for good, but not by a 403, is never taken up again.  *)
THEOREM FailureIsFinal == Spec => FailedForGood
<1>1. IInv /\ [Next]_vars => [row.permanent /\ row.error # "refused" => row' = row]_vars
  BY RowStep, RearmMeets, CommitMeets DEF IInv
<1>2. QED
  BY DeliveryInvariant, <1>1, PTL DEF Spec, FailedForGood

(* No gate, proxy or outage ends a delivery.                               *)
THEOREM OutagesAreRetried == Spec => OutageIsNotFinal
<1>1. IInv /\ [Next]_vars =>
        [row'.permanent /\ ~row.permanent => row'.error \in {"rejected", "unverified"}]_vars
  BY RowStep, RearmMeets, CommitMeets DEF IInv
<1>2. QED
  BY DeliveryInvariant, <1>1, PTL DEF Spec, OutageIsNotFinal
=============================================================================
