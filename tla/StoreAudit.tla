----------------------------- MODULE StoreAudit -----------------------------
(***************************************************************************)
(* `verify --profile` (cli/verify_store.go) over a log that publications   *)
(* keep appending to: it pages through the entries, reads the record each  *)
(* names from its own namespace, and then checks citations over all it     *)
(* read.  It holds no lock, so every read meets whatever is there by then. *)
(***************************************************************************)
EXTENDS Publication, FiniteSetsExt

CONSTANTS
  PageSize,   \* storeScanPage
  Parent,     \* the capsule each capsule cites, itself when it cites none
  Auditor     \* the profile's namespace

ASSUME PageAssumption == PageSize \in Nat \ {0}
ASSUME ParentAssumption == Parent \in [Capsules -> Capsules]
ASSUME AuditorAssumption == Auditor \in Namespaces

VARIABLES
  apc,      \* the audit: idle, scanning or done
  after,    \* sequence of the last entry read
  pageEnd,  \* last sequence of the page in hand
  verdicts, \* verdicts[s]: passed, failed or unchecked, for each entry read
  orphans,  \* entries whose citation VerifyStore could not resolve
  code,     \* the exit code
  start     \* history: length of the log when the audit began

auditVars == <<apc, after, pageEnd, verdicts, orphans, code, start>>
allVars   == <<vars, auditVars>>

AuditInit ==
  /\ Init
  /\ apc = "idle" /\ after = 0 /\ pageEnd = 0 /\ verdicts = <<>>
  /\ orphans = {} /\ code = 0 /\ start = 0

OpenAudit ==
  /\ apc = "idle"
  /\ apc' = "scanning" /\ start' = Len(log)
  /\ UNCHANGED <<vars, after, pageEnd, verdicts, orphans, code>>

(* ScanEntries(after, storeScanPage)                                       *)
ScanPage ==
  /\ apc = "scanning" /\ after = pageEnd /\ pageEnd < Len(log)
  /\ pageEnd' = Min({after + PageSize, Len(log)})
  /\ UNCHANGED <<vars, apc, after, verdicts, orphans, code, start>>

(* A record that is not there fails; one whose originals were purged could *)
(* not be checked.                                                         *)
RecordVerdict(c) ==
  CASE store[Auditor][c] = "absent" -> "failed"
    [] store[Auditor][c] = "purged" -> "unchecked"
    [] OTHER                        -> "passed"

ReadEntry ==
  /\ apc = "scanning" /\ after < pageEnd
  /\ after'    = after + 1
  /\ verdicts' = Append(verdicts, RecordVerdict(log[after + 1]))
  /\ UNCHANGED <<vars, apc, pageEnd, orphans, code, start>>

(* VerifyStore over everything read: an unread entry joins as its bare id, *)
(* so it counts as present, and has no result of its own.                  *)
Joined  == {log[s] : s \in 1..after}
Orphans == {s \in 1..after : verdicts[s] # "failed" /\ Parent[log[s]] \notin Joined}

(* Mutant of FinishAudit: the audit stops between any two pages.           *)
FinishAtPageEnd ==
  /\ apc = "scanning" /\ after = pageEnd
  /\ apc'     = "done"
  /\ orphans' = Orphans
  /\ code'    = IF Orphans # {} \/ "failed" \in Range(verdicts) THEN 1
                ELSE IF "unchecked" \in Range(verdicts) THEN 3 ELSE 0
  /\ UNCHANGED <<vars, after, pageEnd, verdicts, start>>

FinishAudit ==
  /\ apc = "scanning" /\ after = pageEnd /\ pageEnd >= Len(log)
  /\ apc'     = "done"
  /\ orphans' = Orphans
  /\ code'    = IF Orphans # {} \/ "failed" \in Range(verdicts) THEN 1
                ELSE IF "unchecked" \in Range(verdicts) THEN 3 ELSE 0
  /\ UNCHANGED <<vars, after, pageEnd, verdicts, start>>

AuditStep == ScanPage \/ ReadEntry \/ FinishAudit

AuditNext == (Next /\ UNCHANGED auditVars) \/ OpenAudit \/ AuditStep

AuditSpec == AuditInit /\ [][AuditNext]_allVars

----------------------------------------------------------------------------
(* A publication in flight never reads as a missing record: the audit      *)
(* fails an entry only if it did not come through the audited namespace.   *)
NoFalseMissing ==
  \A s \in 1..after : verdicts[s] = "failed" => via[s] # Auditor

(* What the audit calls an orphan is one: its record is in the audited     *)
(* namespace, and the capsule it cites was not in the log when the audit   *)
(* began, whatever the parent's own record turned out to be and however    *)
(* much was published while the audit paged.                               *)
OrphanIsReal ==
  \A s \in orphans :
    /\ Held(Auditor, log[s])
    /\ \A t \in 1..start : log[t] # Parent[log[s]]

(* Exit 0 vouches for the log as it stood when the audit began: of every   *)
(* entry it had, the record is in the audited namespace and the capsule it *)
(* cites is in the log, although the pages were read at other moments.     *)
CleanAuditVouches ==
  apc = "done" /\ code = 0 =>
    \A s \in 1..start : Held(Auditor, log[s]) /\ InLog(Parent[log[s]])

(* What an audit says of records and citations is so of the log it began   *)
(* on, both when it accuses and when it passes, whatever is published,     *)
(* purged or cut short between two of its pages.                           *)
AuditAnswersForStart == OrphanIsReal /\ CleanAuditVouches

(* An audit that is done has read every entry the log had when it began,   *)
(* however many were appended while it paged.                              *)
AuditIsComplete == apc = "done" => start <= after
=============================================================================
