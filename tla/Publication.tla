---------------------------- MODULE Publication ----------------------------
(***************************************************************************)
(* Publication on a plain profile: `publish`, `cll append` and `disclose`  *)
(* (cli/command.go, cli/storage.go, cli/bundle.go).  Each is one short     *)
(* process that writes to two stores with no transaction across them:      *)
(* first the artifact store (Artifacts.Put), then the checkpointed local   *)
(* log (Log.Append).  Any number of processes run at once; one may die     *)
(* between two writes, and a write may be durable and its answer lost.     *)
(***************************************************************************)
EXTENDS Naturals, Sequences, FiniteSets

CONSTANTS
  Procs,        \* running capsulectl commands
  Requests,     \* frozen requests, each the one Capsule it seals to
  Whole,        \* the ones that supply every original their digests bind
  Disclosures,  \* the capsules disclose acts seal, told apart by their nonces
  Namespaces,   \* artifact namespaces of the profiles that share the log
  NoNamespace,  \* the profile of `cll append` that has no artifact store
  MaxFaults     \* bound: deaths and failed writes in one behaviour

ASSUME WholeAssumption == Whole \subseteq Requests
ASSUME FreshAssumption == Disclosures \cap Requests = {}
ASSUME NamespaceAssumption == NoNamespace \notin Namespaces
ASSUME FaultsAssumption == MaxFaults \in Nat

VARIABLES
  store,    \* [namespace][capsule]: what the artifact store holds of it
  log,      \* the CLL: capsule ids, the sequence number is the index
  via,      \* history: the profile namespace each entry was appended through
  pc,       \* where each process is
  job,      \* the command each process runs
  result,   \* the sequence number Append returned to it, 0 before
  acked,    \* history: publications reported to a user as appended
  emitted,  \* history: disclosure capsules whose bundle left the process
  minted,   \* history: disclosure capsules sealed so far (their nonce is fresh)
  faults    \* deaths and failed writes so far

stores == <<store, log, via>>
procs  == <<pc, job, result>>
seen   == <<acked, emitted, minted>>
vars   == <<store, log, via, pc, job, result, acked, emitted, minted, faults>>

Capsules == Requests \cup Disclosures
Profiles == Namespaces \cup {NoNamespace}
Kinds    == {"publish", "append", "disclose"}
Jobs     == [kind : Kinds, capsule : Capsules, ns : Profiles]
NoJob    == [kind |-> "none"]

Positions(c) == {i \in 1..Len(log) : log[i] = c}
InLog(c)     == Positions(c) # {}

Held(n, c)   == n \in Namespaces /\ store[n][c] # "absent"

----------------------------------------------------------------------------
Init ==
  /\ store   = [n \in Namespaces |-> [c \in Capsules |-> "absent"]]
  /\ log     = <<>>
  /\ via     = <<>>
  /\ pc      = [p \in Procs |-> "idle"]
  /\ job     = [p \in Procs |-> NoJob]
  /\ result  = [p \in Procs |-> 0]
  /\ acked   = {}
  /\ emitted = {}
  /\ minted  = {}
  /\ faults  = 0

Begin(p, j, at) ==
  /\ pc[p] = "idle"
  /\ pc'  = [pc EXCEPT ![p] = at]
  /\ job' = [job EXCEPT ![p] = j]

Exit(p) ==
  /\ pc'     = [pc EXCEPT ![p] = "idle"]
  /\ job'    = [job EXCEPT ![p] = NoJob]
  /\ result' = [result EXCEPT ![p] = 0]

(* Mutant of Publish: the append comes before the put.                     *)
PublishAppendsFirst(p, c, n) ==
  /\ c \in Whole
  /\ Begin(p, [kind |-> "publish", capsule |-> c, ns |-> n], "kept")
  /\ UNCHANGED <<stores, seen, result, faults>>

(* publish: Seal, then MissingBindings, which stops a request that lacks   *)
(* an original (ErrPartial) before anything is written.                    *)
Publish(p, c, n) ==
  /\ c \in Whole
  /\ Begin(p, [kind |-> "publish", capsule |-> c, ns |-> n], "sealed")
  /\ UNCHANGED <<stores, seen, result, faults>>

(* cll append of a sealed artifact file: the same check, and an artifact   *)
(* store only when the profile has a namespace.                            *)
AppendFile(p, c, n) ==
  /\ c \in Whole
  /\ Begin(p, [kind |-> "append", capsule |-> c, ns |-> n],
           IF n = NoNamespace THEN "kept" ELSE "sealed")
  /\ UNCHANGED <<stores, seen, result, faults>>

(* disclose: a bundle around a root that is in the log; the disclosure     *)
(* record carries a fresh nonce, so every act seals a new capsule.         *)
Disclose(p, d, n) ==
  /\ log # <<>>
  /\ d \notin minted
  /\ Begin(p, [kind |-> "disclose", capsule |-> d, ns |-> n], "sealed")
  /\ minted' = minted \cup {d}
  /\ UNCHANGED <<stores, result, acked, emitted, faults>>

----------------------------------------------------------------------------

(* Artifacts.Put: a record already held is put again without effect, a     *)
(* purged one is refused and stays purged.                                 *)
PutResult(s) == IF s = "absent" THEN "held" ELSE s

(* Mutant of PutArtifact: a record already held is refused.                *)
PutOnlyNew(p) ==
  LET j == job[p] IN
  /\ pc[p] = "sealed"
  /\ store[j.ns][j.capsule] = "absent"
  /\ store' = [store EXCEPT ![j.ns][j.capsule] = "held"]
  /\ pc'    = [pc EXCEPT ![p] = "kept"]
  /\ UNCHANGED <<log, via, job, result, seen, faults>>

PutArtifact(p) ==
  LET j == job[p] IN
  /\ pc[p] = "sealed"
  /\ store[j.ns][j.capsule] # "purged"
  /\ store' = [store EXCEPT ![j.ns][j.capsule] = PutResult(@)]
  /\ pc'    = [pc EXCEPT ![p] = "kept"]
  /\ UNCHANGED <<log, via, job, result, seen, faults>>

PutRefused(p) ==
  /\ pc[p] = "sealed"
  /\ store[job[p].ns][job[p].capsule] = "purged"
  /\ Exit(p)
  /\ UNCHANGED <<stores, seen, faults>>

(* The put fails: its record is durable or it is not.                      *)
PutFails(p) ==
  LET j == job[p] IN
  /\ pc[p] = "sealed"
  /\ faults < MaxFaults
  /\ faults' = faults + 1
  /\ store' \in {store, [store EXCEPT ![j.ns][j.capsule] = PutResult(@)]}
  /\ Exit(p)
  /\ UNCHANGED <<log, via, seen>>

(* cll.Backend.Append, idempotent by identity: an id already in the log    *)
(* gets the sequence it has.                                               *)
LogAppend(c, n) ==
  IF InLog(c)
    THEN UNCHANGED <<log, via>>
    ELSE log' = Append(log, c) /\ via' = Append(via, n)

(* Mutant of SequenceOf: off by one.                                       *)
SequenceFromZero(c) ==
  IF InLog(c) THEN CHOOSE i \in Positions(c) : TRUE ELSE Len(log)

SequenceOf(c) ==
  IF InLog(c) THEN CHOOSE i \in Positions(c) : TRUE ELSE Len(log) + 1

AppendRecord(p) ==
  LET j == job[p] IN
  /\ pc[p] = "kept"
  /\ LogAppend(j.capsule, j.ns)
  /\ result' = [result EXCEPT ![p] = SequenceOf(j.capsule)]
  /\ pc'     = [pc EXCEPT ![p] = "appended"]
  /\ UNCHANGED <<store, job, seen, faults>>

(* Append fails, or is durable and its answer is lost: the command exits   *)
(* with ErrPending and prints no sequence.                                 *)
AppendPending(p) ==
  LET j == job[p] IN
  /\ pc[p] = "kept"
  /\ faults < MaxFaults
  /\ faults' = faults + 1
  /\ \/ LogAppend(j.capsule, j.ns)
     \/ UNCHANGED <<log, via>>
  /\ Exit(p)
  /\ UNCHANGED <<store, seen>>

(* The command's last step: publish and append print the publication, a    *)
(* disclose writes the bundle out.                                         *)
Report(p) ==
  LET j == job[p] IN
  /\ pc[p] = "appended"
  /\ IF j.kind = "disclose"
       THEN emitted' = emitted \cup {j.capsule} /\ UNCHANGED acked
       ELSE /\ acked' = acked \cup {[capsule |-> j.capsule, ns |-> j.ns, seq |-> result[p]]}
            /\ UNCHANGED emitted
  /\ Exit(p)
  /\ UNCHANGED <<stores, minted, faults>>

Die(p) ==
  /\ pc[p] # "idle"
  /\ faults < MaxFaults
  /\ faults' = faults + 1
  /\ Exit(p)
  /\ UNCHANGED <<stores, seen>>

(* Mutant of Purge: the record goes, and not just its originals.           *)
PurgeRecord(n, c) ==
  /\ store[n][c] = "held"
  /\ store' = [store EXCEPT ![n][c] = "absent"]
  /\ UNCHANGED <<log, via, procs, seen, faults>>

(* Retention (the artifact SDK's Purge) erases a record's originals.       *)
Purge(n, c) ==
  /\ store[n][c] = "held"
  /\ store' = [store EXCEPT ![n][c] = "purged"]
  /\ UNCHANGED <<log, via, procs, seen, faults>>

----------------------------------------------------------------------------
Step(p) == PutArtifact(p) \/ PutRefused(p) \/ AppendRecord(p) \/ Report(p)

Next ==
  \/ \E p \in Procs, c \in Requests :
       \/ \E n \in Namespaces : Publish(p, c, n)
       \/ \E n \in Profiles : AppendFile(p, c, n)
  \/ \E p \in Procs, d \in Disclosures, n \in Namespaces : Disclose(p, d, n)
  \/ \E p \in Procs : Step(p) \/ PutFails(p) \/ AppendPending(p) \/ Die(p)
  \/ \E n \in Namespaces, c \in Capsules : Purge(n, c)

Spec == Init /\ [][Next]_vars

(* A started command runs on, and a caller repeats its frozen request      *)
(* (README.md:926): the code itself never retries.                         *)
Fairness ==
  /\ \A p \in Procs : WF_vars(Step(p))
  /\ \A c \in Whole, n \in Namespaces : SF_vars(\E p \in Procs : Publish(p, c, n))

FairSpec == Spec /\ Fairness

----------------------------------------------------------------------------
(* Type correctness of the two stores and the processes.                   *)
TypeOK ==
  /\ store  \in [Namespaces -> [Capsules -> {"absent", "held", "purged"}]]
  /\ log    \in Seq(Capsules)
  /\ via    \in Seq(Profiles) /\ Len(via) = Len(log)
  /\ pc     \in [Procs -> {"idle", "sealed", "kept", "appended"}]
  /\ job    \in [Procs -> Jobs \cup {NoJob}]
  /\ result \in [Procs -> Nat]
  /\ acked  \subseteq [capsule : Capsules, ns : Profiles, seq : Nat]
  /\ emitted \subseteq Disclosures
  /\ minted  \subseteq Disclosures
  /\ faults \in 0..MaxFaults
  /\ \A p \in Procs : pc[p] # "idle" => job[p] \in Jobs
  /\ \A p \in Procs : pc[p] = "sealed" => job[p].ns \in Namespaces

(* What the log names can be fetched: an entry appended through a profile  *)
(* with a namespace has its record in that namespace, at every moment and  *)
(* whoever died or failed in between.  The put comes before the append.    *)
EntryHasRecord ==
  \A i \in 1..Len(log) : via[i] \in Namespaces => Held(via[i], log[i])

(* A publication reported as appended stays true: its capsule is at the    *)
(* sequence the user was told, and its record is in the user's namespace   *)
(* even when another profile appended the entry first.                     *)
AckedIsThere ==
  \A a \in acked :
    /\ a.seq \in 1..Len(log)
    /\ log[a.seq] = a.capsule
    /\ a.ns \in Namespaces => Held(a.ns, a.capsule)

(* README.md:927: "CLL returns the existing sequence for that Capsule ID". *)
(* However often and through whatever profiles a request is retried, every *)
(* answer names the same sequence.                                         *)
OneSequencePerCapsule ==
  \A a, b \in acked : a.capsule = b.capsule => a.seq = b.seq

(* Nothing enters the log whose originals were never all supplied.         *)
OnlyWholeLogged == \A i \in 1..Len(log) : log[i] \in Whole \cup Disclosures

(* A disclosed bundle never leaves the process before its disclosure is on *)
(* the log (cli/bundle.go:662 "appended before the bundle is emitted").    *)
EmittedIsOnRecord == \A d \in emitted : InLog(d)

(* The inductive invariant behind these: what each process knows while it  *)
(* runs, and that an id is in the log once.                                *)
JobsWhole ==
  \A p \in Procs : pc[p] # "idle" =>
    job[p].capsule \in (IF job[p].kind = "disclose" THEN Disclosures ELSE Whole)

RecordKeptFirst ==
  \A p \in Procs : pc[p] \in {"kept", "appended"} /\ job[p].ns \in Namespaces =>
    Held(job[p].ns, job[p].capsule)

AnswerIsThere ==
  \A p \in Procs : pc[p] = "appended" =>
    result[p] \in 1..Len(log) /\ log[result[p]] = job[p].capsule

NoDuplicates == \A i, k \in 1..Len(log) : log[i] = log[k] => i = k

IInv ==
  /\ TypeOK
  /\ JobsWhole /\ RecordKeptFirst /\ AnswerIsThere /\ NoDuplicates
  /\ EntryHasRecord /\ AckedIsThere /\ OnlyWholeLogged /\ EmittedIsOnRecord

(* Publication does what EvidenceLog promises: kept is what the artifact   *)
(* stores ever held, the rest is read off directly.                        *)
Kept == {k \in Namespaces \X Capsules : store[k[1]][k[2]] # "absent"}
Promise == INSTANCE EvidenceLog WITH kept <- Kept, told <- acked, out <- emitted
Refines == Promise!Spec

(* README.md:931: "Purged originals are never recreated": no retry brings  *)
(* a purged record back.                                                   *)
PurgedStaysPurged ==
  [][\A n \in Namespaces, c \in Capsules :
       store[n][c] = "purged" => store'[n][c] = "purged"]_vars

(* A caller that keeps repeating its frozen request is told its sequence   *)
(* in the end, unless retention purged the record: no state the failures   *)
(* leave behind makes the retry fail for good.                             *)
RetryEndsAcked ==
  \A c \in Whole, n \in Namespaces :
    <>(store[n][c] = "purged" \/ \E a \in acked : a.capsule = c /\ a.ns = n)
=============================================================================
