------------------------- MODULE Checkpoints_proofs -------------------------
(***************************************************************************)
(* Theorems about Checkpoints for any number of commands, profiles, keys   *)
(* and entries, any batch and any work budget.  A command owes what it     *)
(* found at its start and is not covered yet: never more than all that is  *)
(* uncovered, and nothing once some command saw that nothing is.           *)
(***************************************************************************)
EXTENDS Checkpoints, FiniteSetTheorems, TLAPS

(* What a command owes is among what no checkpoint covers.                 *)
OwedIsUncovered == \A p \in Procs : owed[p] <= lag

(* A command that was told "no change" owes nothing from then on, and what *)
(* it loaded then is not short.                                            *)
NothingOwed ==
  \A p \in Procs :
    /\ pc[p] \in {"unchanged", "loaded"} => owed[p] = 0
    /\ pc[p] = "loaded" => ~loaded[p].short

IInv == TypeOK /\ OwedIsUncovered /\ NothingOwed /\ AnswerCoversStart /\ AnswerIsTrusted

(* A batch covers a batch, or what is left when that is less.              *)
LEMMA CoveredValue ==
  ASSUME lag \in Nat
  PROVE  Covered = IF lag <= Batch THEN lag ELSE Batch
<1> DEFINE m == IF lag <= Batch THEN lag ELSE Batch
<1>1. Batch \in Nat
  BY BoundsAssumption
<1>2. m \in {lag, Batch} /\ \A y \in {lag, Batch} : m <= y
  BY <1>1
<1>3. \A x \in {lag, Batch} : (\A y \in {lag, Batch} : x <= y) => x = m
  BY <1>1
<1>4. QED
  BY <1>2, <1>3 DEF Covered, Min

(* A batch takes at most what there is, of the log and of what is owed.    *)
LEMMA LessBounds ==
  ASSUME lag \in Nat, NEW n \in Nat
  PROVE  /\ Less(n) \in 0..n
         /\ lag - Covered \in 0..lag
         /\ n <= lag => Less(n) <= lag - Covered
  BY CoveredValue, BoundsAssumption DEF Less

(* No command has begun, so none owes anything.                            *)
LEMMA InitIInv == Init => IInv
<1> SUFFICES ASSUME Init PROVE IInv
  OBVIOUS
<1>1. Nothing \in [signer : {NoSigner} \cup Signers, short : BOOLEAN]
  BY DEF Nothing
<1>2. TypeOK
  BY <1>1, BoundsAssumption DEF Init, TypeOK
<1>3. OwedIsUncovered /\ NothingOwed /\ AnswerCoversStart /\ AnswerIsTrusted
  BY DEF Init, OwedIsUncovered, NothingOwed, AnswerCoversStart, AnswerIsTrusted
<1>4. QED
  BY <1>2, <1>3 DEF IInv

(* A command that ends owes nothing and has loaded nothing.                *)
LEMMA EndKeeps ==
  ASSUME IInv, NEW p \in Procs, End(p), UNCHANGED <<lag, signer, profile>>,
         faults' \in 0..MaxFaults,
         printed' \subseteq [profile : Profiles, cut : [signer : Signers, short : BOOLEAN]]
  PROVE  TypeOK' /\ OwedIsUncovered' /\ NothingOwed'
<1> USE DEF IInv
<1>1. Nothing \in [signer : {NoSigner} \cup Signers, short : BOOLEAN]
  BY DEF Nothing
<1>2. TypeOK'
  BY <1>1, BoundsAssumption DEF TypeOK, End
<1>3. OwedIsUncovered'
  BY DEF TypeOK, End, OwedIsUncovered
<1>4. NothingOwed'
  BY DEF TypeOK, End, NothingOwed
<1>5. QED
  BY <1>2, <1>3, <1>4

(* One case per action: who appends, begins, cuts, loads or ends.          *)
LEMMA StepIInv == IInv /\ [Next]_vars => IInv'
<1> SUFFICES ASSUME IInv, [Next]_vars PROVE IInv'
  OBVIOUS
<1> USE DEF IInv
<1>0. lag \in Nat /\ (\A q \in Procs : owed[q] \in Nat)
  BY DEF TypeOK
<1>1. ASSUME NEW p \in Procs, NEW f \in Profiles, Create(p, f) PROVE IInv'
  <2>1. TypeOK'
    BY <1>1 DEF TypeOK, Create
  <2>2. OwedIsUncovered'
    BY <1>0, <1>1 DEF TypeOK, Create, OwedIsUncovered
  <2>3. NothingOwed'
    BY <1>1 DEF TypeOK, Create, NothingOwed
  <2>4. QED
    BY <1>1, <2>1, <2>2, <2>3 DEF Create, AnswerCoversStart, AnswerIsTrusted
<1>2. ASSUME NEW p \in Procs, RunBatch(p) PROVE IInv'
  <2>1. lag' \in 0..MaxLag /\ owed' \in [Procs -> 0..MaxLag]
    BY <1>0, <1>2, LessBounds, BoundsAssumption DEF TypeOK, RunBatch
  <2>2. batches' \in [Procs -> 0..MaxBatches]
    BY <1>2, BoundsAssumption DEF TypeOK, RunBatch
  <2>3. signer' \in Signers
    BY <1>2, ProfilesAssumption DEF TypeOK, RunBatch
  <2>4. TypeOK'
    <3>1. UNCHANGED <<pc, profile, loaded, printed, faults>>
      BY <1>2 DEF RunBatch
    <3>2. QED
      BY <2>1, <2>2, <2>3, <3>1 DEF TypeOK
  <2>5. OwedIsUncovered'
    BY <1>0, <1>2, LessBounds DEF RunBatch, OwedIsUncovered
  <2>6. \A q \in Procs : owed[q] = 0 => owed'[q] = 0
    BY <1>0, <1>2, LessBounds DEF RunBatch
  <2>7. NothingOwed'
    BY <1>2, <2>6 DEF RunBatch, NothingOwed
  <2>8. QED
    BY <1>2, <2>4, <2>5, <2>7 DEF RunBatch, AnswerCoversStart, AnswerIsTrusted
<1>3. ASSUME NEW p \in Procs, NoChange(p) PROVE IInv'
  <2>1. owed[p] = 0
    BY <1>0, <1>3 DEF NoChange, OwedIsUncovered
  <2>2. TypeOK'
    BY <1>3 DEF TypeOK, NoChange
  <2>3. NothingOwed'
    BY <1>3, <2>1 DEF TypeOK, NoChange, NothingOwed
  <2>4. QED
    BY <1>3, <2>2, <2>3 DEF NoChange, OwedIsUncovered, AnswerCoversStart, AnswerIsTrusted
<1>4. ASSUME NEW p \in Procs, OverBudget(p) \/ Reject(p) \/ Fail(p) PROVE IInv'
  <2>1. End(p) /\ UNCHANGED <<lag, signer, profile, printed>>
    BY <1>4 DEF OverBudget, Reject, Fail
  <2>2. faults' \in 0..MaxFaults
    BY <1>4, BoundsAssumption DEF TypeOK, OverBudget, Reject, Fail
  <2>3. TypeOK' /\ OwedIsUncovered' /\ NothingOwed'
    BY <2>1, <2>2, EndKeeps DEF TypeOK
  <2>4. QED
    BY <2>1, <2>3 DEF AnswerCoversStart, AnswerIsTrusted
<1>5. ASSUME NEW p \in Procs, Load(p) PROVE IInv'
  <2>1. owed[p] = 0
    BY <1>5 DEF Load, NothingOwed
  <2>2. loaded' = [loaded EXCEPT ![p] = [signer |-> signer, short |-> FALSE]]
    <3>1. (owed[p] > 0) = FALSE
      BY <2>1
    <3>2. loaded' = [loaded EXCEPT ![p] = [signer |-> signer, short |-> owed[p] > 0]]
      BY <1>5 DEF Load
    <3>3. QED
      BY <3>1, <3>2, Zenon
  <2>3. TypeOK'
    BY <1>5, <2>2 DEF TypeOK, Load
  <2>4. NothingOwed'
    BY <1>5, <2>1, <2>2 DEF TypeOK, Load, NothingOwed
  <2>5. QED
    BY <1>5, <2>3, <2>4 DEF Load, OwedIsUncovered, AnswerCoversStart, AnswerIsTrusted
<1>6. ASSUME NEW p \in Procs, Answer(p) PROVE IInv'
  <2> DEFINE new == [profile |-> profile[p], cut |-> loaded[p]]
  <2>1. loaded[p].signer \in TrustedBy[profile[p]] /\ ~loaded[p].short
    BY <1>6 DEF Answer, Accepted, NothingOwed
  <2>2. new \in [profile : Profiles, cut : [signer : Signers, short : BOOLEAN]]
    BY <2>1, ProfilesAssumption DEF TypeOK
  <2>3. printed' = printed \cup {new}
    BY <1>6 DEF Answer
  <2>4. faults' = faults /\ UNCHANGED <<lag, signer, profile>> /\ End(p)
    BY <1>6 DEF Answer
  <2>5. TypeOK' /\ OwedIsUncovered' /\ NothingOwed'
    BY <2>2, <2>3, <2>4, EndKeeps DEF TypeOK
  <2>6. ~new.cut.short /\ new.cut.signer \in TrustedBy[new.profile]
    BY <2>1
  <2>7. QED
    BY <2>3, <2>5, <2>6 DEF AnswerCoversStart, AnswerIsTrusted
<1>7. CASE Append
  BY <1>0, <1>7, BoundsAssumption
     DEF Append, TypeOK, OwedIsUncovered, NothingOwed, AnswerCoversStart, AnswerIsTrusted
<1>8. CASE UNCHANGED vars
  BY <1>8 DEF vars, TypeOK, OwedIsUncovered, NothingOwed, AnswerCoversStart, AnswerIsTrusted
<1>9. QED
  BY <1>1, <1>2, <1>3, <1>4, <1>5, <1>6, <1>7, <1>8 DEF Next, Step

(* IInv holds of every reachable state, for any batch and work budget.     *)
THEOREM CheckpointInvariant == Spec => []IInv
<1>1. QED
  BY InitIInv, StepIInv, PTL DEF Spec

(* Every variable of Checkpoints keeps its type; the command never runs    *)
(* more batches than its work budget.                                      *)
THEOREM CheckpointTypes == Spec => []TypeOK
<1>1. IInv => TypeOK
  BY DEF IInv
<1>2. QED
  BY <1>1, CheckpointInvariant, PTL

(* What `create` answers with covers every entry the log had when the      *)
(* command began, whoever else was cutting checkpoints on the same log.    *)
THEOREM AnswersCoverTheStart == Spec => []AnswerCoversStart
<1>1. IInv => AnswerCoversStart
  BY DEF IInv
<1>2. QED
  BY <1>1, CheckpointInvariant, PTL

(* What `create` answers with is signed by a key its profile trusts.       *)
THEOREM AnswersAreTrusted == Spec => []AnswerIsTrusted
<1>1. IInv => AnswerIsTrusted
  BY DEF IInv
<1>2. QED
  BY <1>1, CheckpointInvariant, PTL
=============================================================================
