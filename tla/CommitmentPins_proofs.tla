------------------------ MODULE CommitmentPins_proofs ------------------------
(***************************************************************************)
(* Theorems about CommitmentPins for any number of runs, streams and       *)
(* checkpoints, whatever commitments carriers offer.  The lock makes the   *)
(* file a run writes back the one that is still there, and from that every *)
(* pin stands and everything verified follows it.                          *)
(***************************************************************************)
EXTENDS CommitmentPins, TLAPS

USE PinAssumption, CommitmentsAssumption, ContainsAssumption, WaitAssumption

(* With no pin file yet nothing is pinned, held or reported.               *)
LEMMA InitIInv == Init => IInv
BY DEF Init, IInv, TypeOK, Pins, Empty, MutualExclusion, HoldsLock, ReadIsCurrent,
       SavedFollows, OneHistory

(* Every step of a run keeps the pin file and the runs well typed.         *)
LEMMA TypeOKStep == TypeOK /\ [Next]_vars => TypeOK'
<1> SUFFICES ASSUME TypeOK, [Next]_vars PROVE TypeOK'
  OBVIOUS
<1> USE DEF TypeOK, Goto, Leave
<1>1. Empty \in Pins
  BY DEF Empty, Pins
<1>2. ASSUME NEW p \in Procs, NEW c \in Commitments, Find(p, c)
      PROVE  TypeOK'
  BY <1>2 DEF Find
<1>3. ASSUME NEW p \in Procs, Acquire(p) \/ Retry(p) \/ LoadPins(p)
      PROVE  TypeOK'
  BY <1>3 DEF Acquire, Retry, LoadPins
<1>4. ASSUME NEW p \in Procs, GiveUp(p) \/ NotVerified(p) \/ Report(p) \/ Die(p)
      PROVE  TypeOK'
  <2>1. Leave(p) /\ UNCHANGED <<pins, judged>>
    BY <1>4 DEF GiveUp, NotVerified, Report, Die
  <2>2. verified' \subseteq Commitments
    BY <1>4 DEF GiveUp, NotVerified, Report, Die
  <2>3. /\ pc' \in [Procs -> {"idle", "locking", "locked", "read", "saved"}]
        /\ waited' \in [Procs -> 0..MaxWait]
    BY <2>1
  <2>4. read' \in [Procs -> Pins]
    BY <1>1, <2>1
  <2>5. QED
    BY <2>1, <2>2, <2>3, <2>4
<1>5. ASSUME NEW p \in Procs, Save(p)
      PROVE  TypeOK'
  <2>1. Added(judged[p], read[p]) \in Pins
    BY DEF Added, Pins
  <2>2. QED
    BY <1>5, <2>1 DEF Save
<1>6. CASE UNCHANGED vars
  BY <1>6 DEF vars
<1>7. QED
  BY <1>2, <1>3, <1>4, <1>5, <1>6 DEF Next, Step

(* Only a run that holds the lock and passes writes the pin file, and then *)
(* it adds to what is there.                                               *)
LEMMA PinsStep ==
  ASSUME IInv, [Next]_vars
  PROVE  \/ pins' = pins
         \/ \E p \in Procs : Save(p) /\ pins' = Added(judged[p], pins) /\ Consistent(judged[p], pins)
<1>1. ASSUME NEW p \in Procs, Save(p)
      PROVE  pins' = Added(judged[p], pins) /\ Consistent(judged[p], pins)
  BY <1>1 DEF Save, Passes, IInv, ReadIsCurrent
<1>2. QED
  BY <1>1 DEF Next, Step, vars, Find, Acquire, Retry, GiveUp, LoadPins, NotVerified, Report, Die

(* A pin stands, so what follows the pins goes on following them.          *)
LEMMA PinsGrow ==
  ASSUME IInv, [Next]_vars
  PROVE  /\ \A s \in Streams : pins[s] # NoPin => pins'[s] = pins[s]
         /\ \A c \in Commitments : Follows(c) => Follows(c)'
<1>1. \A s \in Streams : pins[s] # NoPin => pins'[s] = pins[s]
  BY PinsStep DEF Added
<1>2. QED
  BY <1>1 DEF Follows

(* The flock: a run comes to hold the lock only when no run holds it.      *)
LEMMA MutualExclusionStep == IInv /\ [Next]_vars => MutualExclusion'
<1> SUFFICES ASSUME IInv, [Next]_vars PROVE MutualExclusion'
  OBVIOUS
<1> USE DEF IInv, TypeOK, MutualExclusion, HoldsLock, Goto, Leave
<1>1. ASSUME NEW p \in Procs, Acquire(p)
      PROVE  MutualExclusion'
  BY <1>1 DEF Acquire
<1>2. ASSUME NEW p \in Procs,
             (\E c \in Commitments : Find(p, c)) \/ Retry(p) \/ GiveUp(p) \/ LoadPins(p)
               \/ NotVerified(p) \/ Save(p) \/ Report(p) \/ Die(p)
      PROVE  MutualExclusion'
  <2>1. \A q \in Procs : HoldsLock(q)' => HoldsLock(q)
    BY <1>2 DEF Find, Retry, GiveUp, LoadPins, NotVerified, Save, Report, Die
  <2>2. QED
    BY <2>1
<1>3. CASE UNCHANGED vars
  BY <1>3 DEF vars
<1>4. QED
  BY <1>1, <1>2, <1>3 DEF Next, Step

(* What a run read under the lock stays what the file holds: only the run  *)
(* that holds the lock writes.                                             *)
LEMMA ReadIsCurrentStep == IInv /\ [Next]_vars => ReadIsCurrent'
<1> SUFFICES ASSUME IInv, [Next]_vars, NEW q \in Procs, pc'[q] = "read"
             PROVE  read'[q] = pins'
  BY DEF ReadIsCurrent
<1> USE DEF IInv, TypeOK, Goto, Leave
<1>1. ASSUME NEW p \in Procs, Save(p)
      PROVE  read'[q] = pins'
  <2>1. p # q /\ pc[q] = "read" /\ pc[p] = "read"
    BY <1>1 DEF Save
  <2>2. QED
    BY <2>1 DEF MutualExclusion, HoldsLock
<1>2. ASSUME NEW p \in Procs, LoadPins(p)
      PROVE  read'[q] = pins'
  BY <1>2 DEF LoadPins, ReadIsCurrent
<1>3. ASSUME NEW p \in Procs,
             (\E c \in Commitments : Find(p, c)) \/ Acquire(p) \/ Retry(p) \/ GiveUp(p)
               \/ NotVerified(p) \/ Report(p) \/ Die(p)
      PROVE  read'[q] = pins'
  BY <1>3 DEF Find, Acquire, Retry, GiveUp, NotVerified, Report, Die, ReadIsCurrent
<1>4. CASE UNCHANGED vars
  BY <1>4 DEF vars, ReadIsCurrent
<1>5. QED
  BY <1>1, <1>2, <1>3, <1>4 DEF Next, Step

(* What a run saved, and what is reported from it, follows the pins.       *)
LEMMA VerifiedStep == IInv /\ [Next]_vars => SavedFollows' /\ OneHistory'
<1> SUFFICES ASSUME IInv, [Next]_vars PROVE SavedFollows' /\ OneHistory'
  OBVIOUS
<1> USE DEF IInv, TypeOK, Goto, Leave
<1>1. ASSUME NEW p \in Procs, Save(p)
      PROVE  Follows(judged[p])'
  <2>1. /\ judged' = judged /\ judged[p] \in Commitments
        /\ pins' = Added(judged[p], pins) /\ Consistent(judged[p], pins)
    BY <1>1 DEF Save, Passes, ReadIsCurrent
  <2>2. ASSUME NEW s \in Streams, judged[p].last[s] # NoPin, ~judged[p].witnessed
        PROVE  pins'[s] # NoPin /\ <<judged[p].last[s], pins'[s]>> \in Contains
    <3>1. judged[p].last[s] \in Checkpoints
      BY <2>1, <2>2 DEF Pins
    <3>2. CASE pins[s] = NoPin
      BY <2>1, <2>2, <3>1, <3>2 DEF Added
    <3>3. CASE pins[s] # NoPin
      BY <2>1, <2>2, <3>3 DEF Added, Consistent
    <3>4. QED
      BY <3>2, <3>3
  <2>3. QED
    BY <2>1, <2>2 DEF Follows
<1>2. ASSUME NEW q \in Procs, pc'[q] = "saved"
      PROVE  Follows(judged[q])'
  <2>1. CASE pc[q] = "saved" /\ judged'[q] = judged[q]
    BY <2>1, PinsGrow DEF SavedFollows, Follows
  <2>2. CASE Save(q)
    BY <1>1, <2>2
  <2>3. QED
    BY <1>2, <2>1, <2>2 DEF Next, Step, vars, Find, Acquire, Retry, GiveUp, LoadPins, NotVerified, Save, Report, Die
<1>3. ASSUME NEW c \in verified'
      PROVE  Follows(c)'
  <2>1. CASE c \in verified
    BY <2>1, PinsGrow DEF OneHistory
  <2>2. ASSUME NEW p \in Procs, Report(p), c = judged[p]
        PROVE  Follows(c)'
    BY <2>2, PinsGrow DEF Report, SavedFollows
  <2>3. QED
    BY <1>3, <2>1, <2>2 DEF Next, Step, vars, Find, Acquire, Retry, GiveUp, LoadPins, NotVerified, Save, Report, Die
<1>4. QED
  BY <1>2, <1>3 DEF SavedFollows, OneHistory

(* The invariant on which the theorems rest.                               *)
THEOREM Inductive == Spec => []IInv
<1>1. IInv /\ [Next]_vars => IInv'
  BY TypeOKStep, MutualExclusionStep, ReadIsCurrentStep, VerifiedStep DEF IInv
<1>2. QED
  BY InitIInv, <1>1, PTL DEF Spec

(* Type correctness of the pin file and the runs.                          *)
THEOREM TypeCorrect == Spec => []TypeOK
<1>1. IInv => TypeOK
  BY DEF IInv
<1>2. QED
  BY Inductive, <1>1, PTL

(* No run writes back a pin file that another run has written since.       *)
THEOREM NoStaleWrite == Spec => []ReadIsCurrent
<1>1. IInv => ReadIsCurrent
  BY DEF IInv
<1>2. QED
  BY Inductive, <1>1, PTL

(* All an asker ever saw VERIFIED of an unwitnessed stream is one history. *)
THEOREM VerifiedIsOneHistory == Spec => []OneHistory
<1>1. IInv => OneHistory
  BY DEF IInv
<1>2. QED
  BY Inductive, <1>1, PTL

(* The first pin of a stream is never replaced and never lost.             *)
THEOREM PinsAreForGood == Spec => PinStands
<1>1. IInv /\ [Next]_vars => [\A s \in Streams : pins[s] # NoPin => pins'[s] = pins[s]]_vars
  BY PinsGrow
<1>2. QED
  BY Inductive, <1>1, PTL DEF Spec, PinStands
=============================================================================
