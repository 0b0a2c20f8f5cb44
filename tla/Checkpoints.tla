----------------------------- MODULE Checkpoints -----------------------------
(***************************************************************************)
(* `cll checkpoint create` (cli/checkpoint.go CutCheckpointAt): a bounded  *)
(* loop of the checkpoint library's RunOnce, each indexing one batch of    *)
(* the log and signing a checkpoint at that tip, until it reports that     *)
(* nothing changed.  Several commands, under profiles with different       *)
(* signing keys, work on one log while publications go on appending to it. *)
(*                                                                         *)
(* The log only grows, so its length is kept as two differences: lag, the  *)
(* entries no checkpoint covers, and for each command owed, how many of    *)
(* the entries it found at its start are still among them.                 *)
(***************************************************************************)
EXTENDS Naturals, FiniteSetsExt

CONSTANTS
  Procs,       \* running create commands
  Profiles,    \* profiles that share the log
  Signers,     \* checkpoint signing keys
  SignerOf,    \* checkpoint.signing of each profile
  TrustedBy,   \* checkpoint.trusted_keys of each profile
  NoSigner,    \* the log has no checkpoint yet
  Batch,       \* entries one RunOnce indexes
  MaxBatches,  \* maxCheckpointBatches
  MaxLag,      \* bound: uncovered entries at any time
  MaxFaults    \* bound: failed batches and deaths in one behaviour

ASSUME ProfilesAssumption ==
  /\ SignerOf  \in [Profiles -> Signers]
  /\ TrustedBy \in [Profiles -> SUBSET Signers]
  /\ NoSigner \notin Signers
ASSUME BoundsAssumption ==
  /\ Batch \in Nat \ {0} /\ MaxBatches \in Nat \ {0}
  /\ MaxLag \in Nat /\ MaxFaults \in Nat

VARIABLES
  lag,      \* entries the current checkpoint does not cover
  signer,   \* who signed the current checkpoint
  pc, profile,
  batches,  \* RunOnce calls of each command that changed something
  owed,     \* entries found at its start that are still uncovered
  loaded,   \* the checkpoint state each command loaded
  printed,  \* history: what commands answered
  faults

vars == <<lag, signer, pc, profile, batches, owed, loaded, printed, faults>>

Nothing == [signer |-> NoSigner, short |-> FALSE]

Init ==
  /\ lag \in 0..MaxLag
  /\ signer  \in {NoSigner} \cup Signers
  /\ pc      = [p \in Procs |-> "idle"]
  /\ profile \in [Procs -> Profiles]
  /\ batches = [p \in Procs |-> 0]
  /\ owed    = [p \in Procs |-> 0]
  /\ loaded  = [p \in Procs |-> Nothing]
  /\ printed = {}
  /\ faults  = 0

End(p) ==
  /\ pc'      = [pc EXCEPT ![p] = "idle"]
  /\ batches' = [batches EXCEPT ![p] = 0]
  /\ owed'    = [owed EXCEPT ![p] = 0]
  /\ loaded'  = [loaded EXCEPT ![p] = Nothing]

(* CheckpointSignerTrusted: the command refuses to sign with a key its own *)
(* profile does not trust.                                                 *)
SignerTrusted(f) == SignerOf[f] \in TrustedBy[f]

Create(p, f) ==
  /\ pc[p] = "idle"
  /\ SignerTrusted(f)
  /\ pc'      = [pc EXCEPT ![p] = "batching"]
  /\ profile' = [profile EXCEPT ![p] = f]
  /\ owed'    = [owed EXCEPT ![p] = lag]
  /\ UNCHANGED <<lag, signer, batches, loaded, printed, faults>>

(* runner.RunOnce (external): one batch and a checkpoint at its tip.       *)
Covered == Min({lag, Batch})
Less(n) == IF n > Covered THEN n - Covered ELSE 0

RunBatch(p) ==
  /\ pc[p] = "batching"
  /\ lag > 0
  /\ batches[p] < MaxBatches
  /\ lag'     = lag - Covered
  /\ owed'    = [q \in Procs |-> Less(owed[q])]
  /\ signer'  = SignerOf[profile[p]]
  /\ batches' = [batches EXCEPT ![p] = @ + 1]
  /\ UNCHANGED <<pc, profile, loaded, printed, faults>>

(* Mutant of NoChange: less than a batch counts as nothing to do.          *)
NoFullBatch(p) ==
  /\ pc[p] = "batching"
  /\ lag < Batch
  /\ batches[p] < MaxBatches
  /\ pc' = [pc EXCEPT ![p] = "unchanged"]
  /\ UNCHANGED <<lag, signer, profile, batches, owed, loaded, printed, faults>>

NoChange(p) ==
  /\ pc[p] = "batching"
  /\ lag = 0
  /\ batches[p] < MaxBatches
  /\ pc' = [pc EXCEPT ![p] = "unchanged"]
  /\ UNCHANGED <<lag, signer, profile, batches, owed, loaded, printed, faults>>

(* The work budget is spent: ErrPending, and the operator runs it again.   *)
OverBudget(p) ==
  /\ pc[p] = "batching"
  /\ batches[p] = MaxBatches
  /\ End(p)
  /\ UNCHANGED <<lag, signer, profile, printed, faults>>

(* LoadCLL: by now another command may have signed a later checkpoint.     *)
Load(p) ==
  /\ pc[p] = "unchanged"
  /\ loaded' = [loaded EXCEPT ![p] = [signer |-> signer, short |-> owed[p] > 0]]
  /\ pc'     = [pc EXCEPT ![p] = "loaded"]
  /\ UNCHANGED <<lag, signer, profile, batches, owed, printed, faults>>

(* VerifyCheckpoint against the profile's trusted keys, then the answer;   *)
(* a log with no checkpoint, or one signed by a stranger, is an error.     *)
Accepted(p) == loaded[p].signer \in TrustedBy[profile[p]]

Answer(p) ==
  /\ pc[p] = "loaded"
  /\ Accepted(p)
  /\ printed' = printed \cup {[profile |-> profile[p], cut |-> loaded[p]]}
  /\ End(p)
  /\ UNCHANGED <<lag, signer, profile, faults>>

Reject(p) ==
  /\ pc[p] = "loaded"
  /\ ~Accepted(p)
  /\ End(p)
  /\ UNCHANGED <<lag, signer, profile, printed, faults>>

(* A batch that fails or loses a race for the tip ends the command, and so *)
(* does a signal; what earlier batches committed stays.                    *)
Fail(p) ==
  /\ pc[p] # "idle"
  /\ faults < MaxFaults
  /\ faults' = faults + 1
  /\ End(p)
  /\ UNCHANGED <<lag, signer, profile, printed>>

Append ==
  /\ lag < MaxLag
  /\ lag' = lag + 1
  /\ UNCHANGED <<signer, pc, profile, batches, owed, loaded, printed, faults>>

Step(p) ==
  RunBatch(p) \/ NoChange(p) \/ OverBudget(p) \/ Load(p) \/ Answer(p) \/ Reject(p)

Next == Append \/ \E p \in Procs : (\E f \in Profiles : Create(p, f)) \/ Step(p) \/ Fail(p)

Spec == Init /\ [][Next]_vars

(* A started command runs on, and an operator repeats one that was cut     *)
(* short.                                                                  *)
Fairness ==
  \A p \in Procs : WF_vars(Step(p)) /\ WF_vars(\E f \in Profiles : Create(p, f))

FairSpec == Spec /\ Fairness

----------------------------------------------------------------------------
TypeOK ==
  /\ lag \in 0..MaxLag
  /\ signer \in {NoSigner} \cup Signers
  /\ pc \in [Procs -> {"idle", "batching", "unchanged", "loaded"}]
  /\ profile \in [Procs -> Profiles]
  /\ batches \in [Procs -> 0..MaxBatches]
  /\ owed \in [Procs -> 0..MaxLag]
  /\ loaded \in [Procs -> [signer : {NoSigner} \cup Signers, short : BOOLEAN]]
  /\ printed \subseteq [profile : Profiles, cut : [signer : Signers, short : BOOLEAN]]
  /\ faults \in 0..MaxFaults

(* A checkpoint `create` answers with covers every entry the log had when  *)
(* the command began, whoever else was indexing: "no change" was reported  *)
(* after they had all been covered, and the tip is loaded after that.      *)
AnswerCoversStart == \A a \in printed : ~a.cut.short

(* What `create` answers with is signed by a key the asking profile        *)
(* trusts, although another profile may have signed the tip in the         *)
(* meantime (cli/checkpoint.go:520 "after re-verifying the stored          *)
(* statement").                                                            *)
AnswerIsTrusted == \A a \in printed : a.cut.signer \in TrustedBy[a.profile]

(* Once appends stop, repeating the command catches up whatever backlog    *)
(* the work budget left.                                                   *)
BacklogDrains == (<>[][~Append]_vars) => <>[](lag = 0)
=============================================================================
