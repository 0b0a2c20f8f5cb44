--------------------------- MODULE WitnessDelivery ---------------------------
(***************************************************************************)
(* One checkpoint's delivery to its witness: `cll checkpoint publish`      *)
(* (cli/checkpoint.go, cli/witness_scrapi.go) over the durable witness row *)
(* of one (service, checkpoint size).  Each command reads the row, re-arms *)
(* one a former build gave up after a 403, reads it again, submits if it   *)
(* is due, and commits the outcome with a compare-and-set on the row's     *)
(* attempt count.  Several commands and ticks run at once.                 *)
(*                                                                         *)
(* Two quantities of the code have no bound and are kept as relations.     *)
(* The attempt count is compared with a count read earlier and nothing     *)
(* else: moved[p] says that an attempt was committed since p read it.      *)
(* Time is compared with the row's next-attempt time: waiting says the     *)
(* row's backoff has not passed, and early holds the commands that took    *)
(* their `now` before it did.                                              *)
(***************************************************************************)
EXTENDS Naturals, FiniteSets

CONSTANTS
  Procs,     \* running publish commands
  MaxDeaths  \* bound: commands killed half-way in one behaviour

ASSUME DeathsAssumption == MaxDeaths \in Nat

VARIABLES
  row,      \* the stored witness row
  waiting,  \* its next-attempt time is still ahead
  early,    \* commands whose own `now` lies before its next-attempt time
  witness,  \* what a submission meets: up, gate, proxy, down, rejects, forges
  pc,
  snap,     \* the row as each command last read it
  moved,    \* an attempt was committed since that read
  answer,   \* what the submission of each command came back with
  verified, \* history: commands that printed state "verified"
  deaths    \* commands killed so far

vars == <<row, waiting, early, witness, pc, snap, moved, answer, verified, deaths>>

Receipts == {"none", "genuine", "forged"}
Errors   == {"none", "notReached", "refused", "outage", "rejected", "unverified"}
Rows     == [permanent : BOOLEAN, receipt : Receipts, error : Errors]

(* A row as a checkpoint cut leaves it, and one stored by a build that     *)
(* took a 403 for final.                                                   *)
FreshRow  == [permanent |-> FALSE, receipt |-> "none", error |-> "none"]
LegacyRow == [permanent |-> TRUE,  receipt |-> "none", error |-> "refused"]

Conditions == {"up", "gate", "proxy", "down", "outage", "rejects", "forges"}

(* classifySubmitError and the receipt check: what each condition of the   *)
(* way to the witness, and of the witness, becomes in the row.             *)
Outcome(condition) ==
  CASE condition = "up"                 -> [receipt |-> "genuine", error |-> "none"]
    [] condition = "forges"             -> [receipt |-> "forged",  error |-> "none"]
    [] condition \in {"down", "proxy"}  -> [receipt |-> "none", error |-> "notReached"]
    [] condition = "gate"               -> [receipt |-> "none", error |-> "refused"]
    [] condition = "outage"             -> [receipt |-> "none", error |-> "outage"]
    [] condition = "rejects"            -> [receipt |-> "none", error |-> "rejected"]

(* A 503 stands for every error to be retried, a 400 for one that is not.  *)
Retryable(error) == error \in {"notReached", "refused", "outage"}

(* The runner keeps a receipt only when the verifier accepts it.           *)
Recorded(outcome) ==
  IF outcome.receipt = "genuine"
    THEN [permanent |-> FALSE, receipt |-> "genuine", error |-> "none"]
    ELSE IF outcome.receipt = "forged"
      THEN [permanent |-> TRUE, receipt |-> "none", error |-> "unverified"]
      ELSE [permanent |-> ~Retryable(outcome.error), receipt |-> "none", error |-> outcome.error]

InFlight == {p \in Procs : pc[p] # "idle"}

----------------------------------------------------------------------------
Init ==
  /\ row \in {FreshRow, LegacyRow}
  /\ waiting \in BOOLEAN
  /\ early    = {}
  /\ witness \in Conditions
  /\ pc       = [p \in Procs |-> "idle"]
  /\ snap     = [p \in Procs |-> FreshRow]
  /\ moved    = [p \in Procs |-> FALSE]
  /\ answer   = [p \in Procs |-> Outcome("down")]
  /\ verified = {}
  /\ deaths   = 0

Goto(p, at) == pc' = [pc EXCEPT ![p] = at]

(* The command ends, or dies.                                              *)
Leave(p) ==
  /\ Goto(p, "idle")
  /\ early'  = early \ {p}
  /\ snap'   = [snap EXCEPT ![p] = FreshRow]
  /\ moved'  = [moved EXCEPT ![p] = FALSE]
  /\ answer' = [answer EXCEPT ![p] = Outcome("down")]

ReadRow(p) ==
  /\ snap'  = [snap EXCEPT ![p] = row]
  /\ moved' = [moved EXCEPT ![p] = FALSE]

(* publish: `now` is taken, then the row is read.                          *)
Publish(p) ==
  /\ pc[p] = "idle"
  /\ ReadRow(p)
  /\ early' = IF waiting THEN early \cup {p} ELSE early
  /\ Goto(p, "read")
  /\ UNCHANGED <<row, waiting, witness, answer, verified, deaths>>

(* RearmRefused: only a row given up after a 403, and only if no attempt   *)
(* was committed since it was read.  Its next-attempt time becomes this    *)
(* command's now cut to whole seconds, which is ahead of the now of some   *)
(* commands already running.                                               *)
Refused(r) == r.permanent /\ r.receipt = "none" /\ r.error = "refused"

(* Mutant of KeepRow: the re-arm is skipped.                               *)
KeepAnyRow(p) ==
  /\ pc[p] = "read"
  /\ Goto(p, "ready")
  /\ UNCHANGED <<row, waiting, early, witness, snap, moved, answer, verified, deaths>>

KeepRow(p) ==
  /\ pc[p] = "read"
  /\ ~Refused(snap[p])
  /\ Goto(p, "ready")
  /\ UNCHANGED <<row, waiting, early, witness, snap, moved, answer, verified, deaths>>

Rearm(p) ==
  /\ pc[p] = "read"
  /\ Refused(snap[p])
  /\ ~moved[p]
  /\ row'     = [snap[p] EXCEPT !.permanent = FALSE]
  /\ waiting' = FALSE
  /\ early'  \in SUBSET (InFlight \ {p})
  /\ Goto(p, "ready")
  /\ UNCHANGED <<witness, snap, moved, answer, verified, deaths>>

RearmConflict(p) ==
  /\ pc[p] = "read"
  /\ Refused(snap[p])
  /\ moved[p]
  /\ Leave(p)
  /\ UNCHANGED <<row, waiting, witness, verified, deaths>>

(* selectedWitness.PendingWitnesses: the second read, and whether the row  *)
(* is to be tried at this command's now.                                   *)
Due(p) == row.receipt = "none" /\ ~row.permanent /\ ~waiting /\ p \notin early

Pick(p) ==
  /\ pc[p] = "ready"
  /\ Due(p)
  /\ ReadRow(p)
  /\ Goto(p, "submitting")
  /\ UNCHANGED <<row, waiting, early, witness, answer, verified, deaths>>

NotDue(p) ==
  /\ pc[p] = "ready"
  /\ ~Due(p)
  /\ Goto(p, "delivered")
  /\ UNCHANGED <<row, waiting, early, witness, snap, moved, answer, verified, deaths>>

Submit(p) ==
  /\ pc[p] = "submitting"
  /\ answer' = [answer EXCEPT ![p] = Outcome(witness)]
  /\ Goto(p, "answered")
  /\ UNCHANGED <<row, waiting, early, witness, snap, moved, verified, deaths>>

(* Mutant of Commit: the outcome is stored with no compare-and-set.        *)
CommitBlindly(p) ==
  /\ pc[p] = "answered"
  /\ row'     = Recorded(answer[p])
  /\ waiting' = TRUE
  /\ early'   = InFlight
  /\ moved'   = [q \in Procs |-> pc[q] # "idle"]
  /\ Goto(p, "delivered")
  /\ UNCHANGED <<witness, snap, answer, verified, deaths>>

(* The runner's CommitWitness: refused when another attempt came first.    *)
Commit(p) ==
  /\ pc[p] = "answered"
  /\ ~moved[p]
  /\ row'     = Recorded(answer[p])
  /\ waiting' = TRUE
  /\ early'   = InFlight
  /\ moved'   = [q \in Procs |-> pc[q] # "idle"]
  /\ Goto(p, "delivered")
  /\ UNCHANGED <<witness, snap, answer, verified, deaths>>

CommitConflict(p) ==
  /\ pc[p] = "answered"
  /\ moved[p]
  /\ Leave(p)
  /\ UNCHANGED <<row, waiting, witness, verified, deaths>>

(* The row is read once more and shown; VerifyWitness checks its receipt.  *)
Show(p) ==
  /\ pc[p] = "delivered"
  /\ verified' = IF row.receipt = "genuine" THEN verified \cup {p} ELSE verified
  /\ Leave(p)
  /\ UNCHANGED <<row, waiting, witness, deaths>>

Die(p) ==
  /\ pc[p] # "idle"
  /\ deaths < MaxDeaths
  /\ deaths' = deaths + 1
  /\ Leave(p)
  /\ UNCHANGED <<row, waiting, witness, verified>>

(* The backoff passes: a command already running took its now before that. *)
Ripen ==
  /\ waiting
  /\ waiting' = FALSE
  /\ early'   = InFlight
  /\ UNCHANGED <<row, witness, pc, snap, moved, answer, verified, deaths>>

Change(condition) ==
  /\ witness # condition
  /\ witness' = condition
  /\ UNCHANGED <<row, waiting, early, pc, snap, moved, answer, verified, deaths>>

----------------------------------------------------------------------------
Step(p) ==
  \/ KeepRow(p) \/ Rearm(p) \/ RearmConflict(p)
  \/ Pick(p) \/ NotDue(p) \/ Submit(p)
  \/ Commit(p) \/ CommitConflict(p) \/ Show(p)

Next ==
  \/ \E p \in Procs : Publish(p) \/ Step(p) \/ Die(p)
  \/ Ripen
  \/ \E condition \in Conditions : Change(condition)

Spec == Init /\ [][Next]_vars

(* A started command runs on, time passes, and a tick runs the command     *)
(* again on some process for ever.                                         *)
Fairness ==
  /\ \A p \in Procs : WF_vars(Step(p))
  /\ WF_vars(Ripen)
  /\ \A p \in Procs : WF_vars(Publish(p))

FairSpec == Spec /\ Fairness

----------------------------------------------------------------------------
TypeOK ==
  /\ row \in Rows
  /\ waiting \in BOOLEAN
  /\ early \subseteq Procs
  /\ witness \in Conditions
  /\ pc \in [Procs -> {"idle", "read", "ready", "submitting", "answered", "delivered"}]
  /\ snap \in [Procs -> Rows]
  /\ moved \in [Procs -> BOOLEAN]
  /\ answer \in [Procs -> {Outcome(c) : c \in Conditions}]
  /\ verified \subseteq Procs
  /\ deaths \in 0..MaxDeaths

(* A receipt, once stored, is never overwritten: not by a second command   *)
(* that submitted the same row, nor by a re-arm from a row read before.    *)
ReceiptKept == [][row.receipt = "genuine" => row'.receipt = "genuine"]_vars

(* What a command printed as verified is in the row from then on, and the  *)
(* row never holds a receipt the pinned witness key does not verify.       *)
VerifiedStands ==
  /\ verified # {} => row.receipt = "genuine"
  /\ row.receipt # "forged"

(* cli/checkpoint.go:288 "this delivery is not retried": a delivery failed *)
(* for good stays as it is, whatever a concurrent re-arm read before; only *)
(* a 403 of a former build is taken back.                                  *)
FailedForGood ==
  [][row.permanent /\ row.error # "refused" => row' = row]_vars

(* A network gate, a proxy or an outage never ends a delivery: the row of  *)
(* such an attempt is left to be retried.                                  *)
OutageIsNotFinal ==
  [][row'.permanent /\ ~row.permanent => row'.error \in {"rejected", "unverified"}]_vars

(* Once the witness can be reached for good, every delivery that is not    *)
(* failed for good gets its receipt, a legacy one included.                *)
Delivered == row.receipt = "genuine" \/ (row.permanent /\ ~Refused(row))
ReachedMeansDelivered == <>[](witness = "up") => <>Delivered
=============================================================================
