------------------------- MODULE Publication_proofs -------------------------
(***************************************************************************)
(* Theorems about Publication for every set of processes, requests,        *)
(* profiles and every bound on the faults, and about the audit that reads  *)
(* beside it, for any page size.  IInv is inductive: the type invariant    *)
(* comes first, then what never shrinks (records kept, the log), then each *)
(* conjunct from those two.  An audit's step is no step of publication, so *)
(* publication's invariant holds beside it; and what the audit has read    *)
(* stays as it was, because the log only grows (LogGrows).                 *)
(***************************************************************************)
EXTENDS StoreAudit, TLAPS

USE DEF Capsules, Profiles, Kinds, Jobs

(* Empty stores and idle processes satisfy the invariant.                  *)
LEMMA InitIInv == Init => IInv
<1> SUFFICES ASSUME Init PROVE IInv
  OBVIOUS
<1>1. TypeOK
  BY FaultsAssumption DEF Init, TypeOK
<1>2. QED
  BY <1>1 DEF Init, IInv, JobsWhole, RecordKeptFirst, AnswerIsThere, NoDuplicates,
     EntryHasRecord, AckedIsThere, OnlyWholeLogged, EmittedIsOnRecord

(* A step leaves the artifact stores alone, or makes one record held that  *)
(* is not purged, or purges one.                                           *)
LEMMA StoreStep ==
  ASSUME TypeOK, [Next]_vars
  PROVE  \/ store' = store
         \/ \E n \in Namespaces, c \in Capsules, v \in {"held", "purged"} :
              /\ store[n][c] = "purged" => v = "purged"
              /\ store' = [store EXCEPT ![n][c] = v]
<1> USE DEF stores, seen, Exit, Begin
<1>1. ASSUME NEW p \in Procs, pc[p] = "sealed",
             store' = [store EXCEPT ![job[p].ns][job[p].capsule] = PutResult(@)]
      PROVE  \E n \in Namespaces, c \in Capsules, v \in {"held", "purged"} :
               /\ store[n][c] = "purged" => v = "purged"
               /\ store' = [store EXCEPT ![n][c] = v]
  <2>1. job[p].ns \in Namespaces /\ job[p].capsule \in Capsules
    BY <1>1 DEF TypeOK
  <2>2. LET s == store[job[p].ns][job[p].capsule] IN
          PutResult(s) \in {"held", "purged"} /\ (s = "purged" => PutResult(s) = "purged")
    BY <2>1 DEF TypeOK, PutResult
  <2>3. QED
    BY <1>1, <2>1, <2>2
<1>2. CASE \E p \in Procs : PutArtifact(p) \/ PutFails(p)
  BY <1>1, <1>2 DEF PutArtifact, PutFails
<1>3. CASE \E m \in Namespaces, d \in Capsules : Purge(m, d)
  BY <1>3 DEF Purge
<1>4. CASE \E p \in Procs, d \in Capsules, m \in Profiles : Publish(p, d, m) \/ AppendFile(p, d, m) \/ Disclose(p, d, m)
  BY <1>4 DEF Publish, AppendFile, Disclose
<1>5. CASE \E p \in Procs : PutRefused(p) \/ AppendRecord(p) \/ AppendPending(p) \/ Report(p) \/ Die(p)
  BY <1>5 DEF PutRefused, AppendRecord, AppendPending, Report, Die
<1>6. CASE UNCHANGED vars
  BY <1>6 DEF vars
<1>7. QED
  BY <1>2, <1>3, <1>4, <1>5, <1>6 DEF Next, Step

(* A record that is held, purged or not, is never again absent.            *)
LEMMA HeldStays ==
  ASSUME TypeOK, [Next]_vars, NEW n \in Namespaces, NEW c \in Capsules, store[n][c] # "absent"
  PROVE  store'[n][c] # "absent"
<1>1. CASE store' = store
  BY <1>1
<1>2. ASSUME NEW m \in Namespaces, NEW d \in Capsules, NEW v \in {"held", "purged"},
             store' = [store EXCEPT ![m][d] = v]
      PROVE  store'[n][c] # "absent"
  <2>1. store'[n][c] = IF n = m /\ c = d THEN v ELSE store[n][c]
    BY <1>2 DEF TypeOK
  <2>2. QED
    BY <2>1
<1>3. QED
  BY <1>1, <1>2, StoreStep

(* A step leaves the log alone, or appends one id that is not in it.       *)
LEMMA LogStep ==
  ASSUME TypeOK, [Next]_vars
  PROVE  \/ UNCHANGED <<log, via>>
         \/ \E p \in Procs : /\ pc[p] = "kept" /\ ~InLog(job[p].capsule)
                            /\ log' = Append(log, job[p].capsule)
                            /\ via' = Append(via, job[p].ns)
<1> USE DEF stores, seen, Exit, Begin
<1>1. CASE \E p \in Procs : AppendRecord(p) \/ AppendPending(p)
  BY <1>1 DEF AppendRecord, AppendPending, LogAppend
<1>2. CASE \E p \in Procs : PutArtifact(p) \/ PutRefused(p) \/ PutFails(p) \/ Report(p) \/ Die(p)
  BY <1>2 DEF PutArtifact, PutRefused, PutFails, Report, Die
<1>3. CASE \E m \in Namespaces, d \in Capsules : Purge(m, d)
  BY <1>3 DEF Purge
<1>4. CASE \E p \in Procs, d \in Capsules, m \in Profiles : Publish(p, d, m) \/ AppendFile(p, d, m) \/ Disclose(p, d, m)
  BY <1>4 DEF Publish, AppendFile, Disclose
<1>5. CASE UNCHANGED vars
  BY <1>5 DEF vars
<1>6. QED
  BY <1>1, <1>2, <1>3, <1>4, <1>5 DEF Next, Step

(* The log only grows: an entry keeps its place and the profile it came by. *)
LEMMA LogGrows ==
  ASSUME TypeOK, [Next]_vars
  PROVE  /\ 1..Len(log) \subseteq 1..Len(log')
         /\ \A i \in 1..Len(log) : log'[i] = log[i] /\ via'[i] = via[i]
         /\ \A c : InLog(c) => InLog(c)'
<1>1. /\ 1..Len(log) \subseteq 1..Len(log')
      /\ \A i \in 1..Len(log) : log'[i] = log[i] /\ via'[i] = via[i]
  <2>1. CASE UNCHANGED <<log, via>>
    BY <2>1 DEF TypeOK
  <2>2. ASSUME NEW p \in Procs, pc[p] = "kept",
               log' = Append(log, job[p].capsule), via' = Append(via, job[p].ns)
        PROVE  <1>1
    <3>1. job[p].capsule \in Capsules /\ job[p].ns \in Profiles
      BY <2>2 DEF TypeOK
    <3>2. Len(log') = Len(log) + 1
      BY <2>2, <3>1 DEF TypeOK
    <3>3. QED
      BY <2>2, <3>1, <3>2 DEF TypeOK
  <2>3. QED
    BY <2>1, <2>2, LogStep
<1>2. QED
  BY <1>1 DEF InLog, Positions

(* The type invariant needs of IInv that a disclose works on a disclosure. *)
LEMMA TypeOKStep == IInv /\ [Next]_vars => TypeOK'
<1> SUFFICES ASSUME IInv, [Next]_vars PROVE TypeOK'
  OBVIOUS
<1> USE DEF IInv, stores, seen, procs
<1>1. store' \in [Namespaces -> [Capsules -> {"absent", "held", "purged"}]]
  <2>1. CASE store' = store
    BY <2>1 DEF TypeOK
  <2>2. ASSUME NEW m \in Namespaces, NEW d \in Capsules, NEW v \in {"held", "purged"},
               store' = [store EXCEPT ![m][d] = v]
        PROVE  <1>1
    BY <2>2 DEF TypeOK
  <2>3. QED
    BY <2>1, <2>2, StoreStep
<1>2. log' \in Seq(Capsules) /\ via' \in Seq(Profiles) /\ Len(via') = Len(log')
  <2>1. CASE UNCHANGED <<log, via>>
    BY <2>1 DEF TypeOK
  <2>2. ASSUME NEW p \in Procs, pc[p] = "kept",
               log' = Append(log, job[p].capsule), via' = Append(via, job[p].ns)
        PROVE  <1>2
    <3>1. job[p].capsule \in Capsules /\ job[p].ns \in Profiles
      BY <2>2 DEF TypeOK
    <3>2. QED
      BY <2>2, <3>1 DEF TypeOK
  <2>3. QED
    BY <2>1, <2>2, LogStep
<1>3. /\ pc' \in [Procs -> {"idle", "sealed", "kept", "appended"}]
      /\ job' \in [Procs -> Jobs \cup {NoJob}]
      /\ result' \in [Procs -> Nat]
      /\ acked' \subseteq [capsule : Capsules, ns : Profiles, seq : Nat]
      /\ emitted' \subseteq Disclosures
      /\ minted' \subseteq Disclosures
      /\ faults' \in 0..MaxFaults
      /\ \A p \in Procs : pc'[p] # "idle" => job'[p] \in Jobs
      /\ \A p \in Procs : pc'[p] = "sealed" => job'[p].ns \in Namespaces
  <2>1. ASSUME NEW p \in Procs, NEW c \in Requests, NEW n \in Profiles,
               AppendFile(p, c, n) \/ (n \in Namespaces /\ Publish(p, c, n))
        PROVE  <1>3
    <3>1. PICK j \in Jobs, at \in {"sealed", "kept"} : Begin(p, j, at) /\ (at = "sealed" => j.ns \in Namespaces)
      BY <2>1 DEF AppendFile, Publish
    <3>2. QED
      BY <2>1, <3>1 DEF AppendFile, Publish, Begin, TypeOK
  <2>2. ASSUME NEW p \in Procs, NEW d \in Disclosures, NEW n \in Namespaces, Disclose(p, d, n)
        PROVE  <1>3
    BY <2>2 DEF Disclose, Begin, TypeOK
  <2>3. ASSUME NEW p \in Procs, PutArtifact(p)
        PROVE  <1>3
    BY <2>3 DEF PutArtifact, TypeOK
  <2>4. ASSUME NEW p \in Procs, Exit(p)
        PROVE  /\ pc' \in [Procs -> {"idle", "sealed", "kept", "appended"}]
               /\ job' \in [Procs -> Jobs \cup {NoJob}]
               /\ result' \in [Procs -> Nat]
               /\ \A q \in Procs : pc'[q] # "idle" => job'[q] \in Jobs
               /\ \A q \in Procs : pc'[q] = "sealed" => job'[q].ns \in Namespaces
    BY <2>4 DEF Exit, TypeOK
  <2>5. ASSUME NEW p \in Procs, PutRefused(p) \/ Die(p) \/ PutFails(p) \/ AppendPending(p)
        PROVE  <1>3
    <3>1. Exit(p) /\ UNCHANGED <<acked, emitted, minted>>
      BY <2>5 DEF PutRefused, Die, PutFails, AppendPending
    <3>2. faults' \in 0..MaxFaults
      BY <2>5, FaultsAssumption DEF PutRefused, Die, PutFails, AppendPending, TypeOK
    <3>3. QED
      BY <2>4, <3>1, <3>2 DEF TypeOK
  <2>6. ASSUME NEW p \in Procs, AppendRecord(p)
        PROVE  <1>3
    <3>1. SequenceOf(job[p].capsule) \in Nat
      BY DEF SequenceOf, InLog, Positions, TypeOK
    <3>2. QED
      BY <2>6, <3>1 DEF AppendRecord, TypeOK
  <2>7. ASSUME NEW p \in Procs, Report(p)
        PROVE  <1>3
    <3>1. job[p] \in Jobs /\ result[p] \in Nat
      BY <2>7 DEF Report, TypeOK
    <3>2. job[p].kind = "disclose" => job[p].capsule \in Disclosures
      BY <2>7 DEF Report, JobsWhole
    <3>3. acked' \subseteq [capsule : Capsules, ns : Profiles, seq : Nat] /\ emitted' \subseteq Disclosures
      BY <2>7, <3>1, <3>2 DEF Report, TypeOK
    <3>4. QED
      BY <2>4, <2>7, <3>3 DEF Report, TypeOK
  <2>8. ASSUME NEW n \in Namespaces, NEW c \in Capsules, Purge(n, c)
        PROVE  <1>3
    BY <2>8 DEF Purge, TypeOK
  <2>9. CASE UNCHANGED vars
    BY <2>9 DEF vars, TypeOK
  <2>10. QED
    BY <2>1, <2>2, <2>3, <2>5, <2>6, <2>7, <2>8, <2>9 DEF Next, Step
<1>4. QED
  BY <1>1, <1>2, <1>3 DEF TypeOK

(* What a step does to a process: nothing, or it ends it, begins a command *)
(* on it, or takes it past one of its two writes.                          *)
Begun(q) ==
  /\ pc'[q] \in {"sealed", "kept"}
  /\ job'[q].capsule \in (IF job'[q].kind = "disclose" THEN Disclosures ELSE Whole)
  /\ pc'[q] = "kept" => job'[q].ns = NoNamespace

(* Nothing else happens to a process than what Begun and its two writes    *)
(* are, or that it ends.                                                   *)
LEMMA ProcStep ==
  ASSUME TypeOK, [Next]_vars, NEW q \in Procs
  PROVE  \/ pc'[q] = pc[q] /\ job'[q] = job[q] /\ result'[q] = result[q]
         \/ pc'[q] = "idle" \/ Begun(q) \/ PutArtifact(q) \/ AppendRecord(q)
<1> USE DEF stores, seen, procs
<1>1. ASSUME NEW p \in Procs, Exit(p)
      PROVE  pc'[q] = "idle" \/ (pc'[q] = pc[q] /\ job'[q] = job[q] /\ result'[q] = result[q])
  BY <1>1 DEF Exit, TypeOK
<1>2. CASE \E p \in Procs : PutRefused(p) \/ PutFails(p) \/ AppendPending(p) \/ Report(p) \/ Die(p)
  BY <1>1, <1>2 DEF PutRefused, PutFails, AppendPending, Report, Die
<1>3. ASSUME NEW p \in Procs, PutArtifact(p) \/ AppendRecord(p), p # q
      PROVE  pc'[q] = pc[q] /\ job'[q] = job[q] /\ result'[q] = result[q]
  BY <1>3 DEF PutArtifact, AppendRecord, TypeOK
<1>4. ASSUME NEW p \in Procs, NEW c \in Capsules, NEW n \in Profiles,
             AppendFile(p, c, n) \/ Publish(p, c, n) \/ (c \in Disclosures /\ Disclose(p, c, n))
      PROVE  Begun(q) \/ (pc'[q] = pc[q] /\ job'[q] = job[q] /\ result'[q] = result[q])
  <2>1. CASE p = q
    BY <1>4, <2>1 DEF AppendFile, Publish, Disclose, Begin, Begun, TypeOK
  <2>2. CASE p # q
    BY <1>4, <2>2 DEF AppendFile, Publish, Disclose, Begin, TypeOK
  <2>3. QED
    BY <2>1, <2>2
<1>5. CASE \E n \in Namespaces, c \in Capsules : Purge(n, c)
  BY <1>5 DEF Purge
<1>6. CASE UNCHANGED vars
  BY <1>6 DEF vars
<1>7. QED
  BY <1>2, <1>3, <1>4, <1>5, <1>6 DEF Next, Step

(* What processes know of their own work is kept by every step.            *)
LEMMA ProcessesStep ==
  ASSUME IInv, [Next]_vars
  PROVE  JobsWhole' /\ RecordKeptFirst' /\ AnswerIsThere'
<1> USE DEF IInv
<1>1. TypeOK' /\ TypeOK
  BY TypeOKStep
<1>2. ASSUME NEW q \in Procs, pc'[q] # "idle"
      PROVE  job'[q].capsule \in (IF job'[q].kind = "disclose" THEN Disclosures ELSE Whole)
  <2>1. CASE PutArtifact(q) \/ AppendRecord(q)
    BY <2>1 DEF PutArtifact, AppendRecord, JobsWhole
  <2>2. QED
    BY <1>1, <1>2, <2>1, ProcStep DEF Begun, JobsWhole
<1>3. ASSUME NEW q \in Procs, pc'[q] \in {"kept", "appended"}, job'[q].ns \in Namespaces
      PROVE  store'[job'[q].ns][job'[q].capsule] # "absent"
  <2>1. job'[q].capsule \in Capsules
    BY <1>1, <1>3 DEF TypeOK
  <2>2. CASE PutArtifact(q)
    <3>1. job'[q] = job[q] /\ store' = [store EXCEPT ![job[q].ns][job[q].capsule] = PutResult(@)]
      BY <2>2 DEF PutArtifact
    <3>2. PutResult(store[job[q].ns][job[q].capsule]) # "absent"
      BY DEF PutResult
    <3>3. QED
      BY <1>1, <1>3, <2>1, <3>1, <3>2 DEF TypeOK, Held
  <2>3. CASE pc'[q] = pc[q] /\ job'[q] = job[q]
    BY <1>1, <1>3, <2>1, <2>3, HeldStays DEF RecordKeptFirst, Held
  <2>4. CASE AppendRecord(q)
    BY <1>1, <1>3, <2>1, <2>4, HeldStays DEF AppendRecord, RecordKeptFirst, Held
  <2>5. CASE Begun(q)
    BY <1>1, <1>3, <2>5, NamespaceAssumption DEF Begun, TypeOK
  <2>6. QED
    BY <1>1, <1>3, <2>2, <2>3, <2>4, <2>5, ProcStep
<1>4. ASSUME NEW q \in Procs, pc'[q] = "appended"
      PROVE  result'[q] \in 1..Len(log') /\ log'[result'[q]] = job'[q].capsule
  <2>1. CASE AppendRecord(q)
    <3>1. /\ job'[q] = job[q] /\ result'[q] = SequenceOf(job[q].capsule)
          /\ LogAppend(job[q].capsule, job[q].ns)
      BY <2>1, <1>1 DEF AppendRecord, TypeOK
    <3>2. CASE InLog(job[q].capsule)
      BY <1>1, <3>1, <3>2 DEF LogAppend, SequenceOf, InLog, Positions
    <3>3. CASE ~InLog(job[q].capsule)
      <4>1. job[q].capsule \in Capsules
        BY <2>1, <1>1 DEF AppendRecord, TypeOK
      <4>2. QED
        BY <1>1, <3>1, <3>3, <4>1 DEF LogAppend, SequenceOf, TypeOK
    <3>4. QED
      BY <3>2, <3>3
  <2>2. CASE pc'[q] = pc[q] /\ job'[q] = job[q] /\ result'[q] = result[q]
    BY <1>1, <1>4, <2>2, LogGrows DEF AnswerIsThere, TypeOK
  <2>3. QED
    BY <1>1, <1>4, <2>1, <2>2, ProcStep DEF Begun, PutArtifact, TypeOK
<1>5. QED
  BY <1>2, <1>3, <1>4 DEF JobsWhole, RecordKeptFirst, AnswerIsThere, Held

(* What is in the log: a new entry is the capsule of a process that has    *)
(* kept its record, and was not there before.                              *)
LEMMA LogContentsStep ==
  ASSUME IInv, [Next]_vars
  PROVE  NoDuplicates' /\ EntryHasRecord' /\ OnlyWholeLogged'
<1> USE DEF IInv
<1>1. TypeOK' /\ TypeOK
  BY TypeOKStep
<1>2. CASE UNCHANGED <<log, via>>
  <2>1. NoDuplicates' /\ OnlyWholeLogged'
    BY <1>2 DEF NoDuplicates, OnlyWholeLogged
  <2>2. ASSUME NEW i \in 1..Len(log'), via'[i] \in Namespaces
        PROVE  store'[via'[i]][log'[i]] # "absent"
    <3>1. i \in 1..Len(log) /\ via[i] \in Namespaces /\ via'[i] = via[i] /\ log'[i] = log[i]
      BY <1>2, <2>2
    <3>2. log[i] \in Capsules /\ store[via[i]][log[i]] # "absent"
      BY <1>1, <3>1 DEF EntryHasRecord, Held, TypeOK
    <3>3. QED
      BY <1>1, <3>1, <3>2, HeldStays
  <2>3. QED
    BY <2>1, <2>2 DEF EntryHasRecord, Held
<1>3. ASSUME NEW p \in Procs, pc[p] = "kept", ~InLog(job[p].capsule),
             log' = Append(log, job[p].capsule), via' = Append(via, job[p].ns)
      PROVE  NoDuplicates' /\ EntryHasRecord' /\ OnlyWholeLogged'
  <2>1. /\ job[p].capsule \in Capsules /\ job[p].ns \in Profiles
        /\ job[p].capsule \in Whole \cup Disclosures
    BY <1>1, <1>3 DEF TypeOK, JobsWhole
  <2>2. /\ Len(log) \in Nat /\ Len(log') = Len(log) + 1
        /\ log'[Len(log) + 1] = job[p].capsule
        /\ \A i \in 1..Len(log) : log'[i] = log[i]
    BY <1>1, <1>3, <2>1 DEF TypeOK
  <2>7. /\ via'[Len(log) + 1] = job[p].ns
        /\ \A i \in 1..Len(log) : via'[i] = via[i]
    BY <1>1, <1>3, <2>1 DEF TypeOK
  <2>8. \A i \in 1..Len(log) : log[i] # job[p].capsule
    BY <1>3 DEF InLog, Positions
  <2>3. NoDuplicates'
    BY <2>2, <2>8 DEF NoDuplicates
  <2>4. OnlyWholeLogged'
    BY <2>1, <2>2 DEF OnlyWholeLogged
  <2>5. ASSUME NEW i \in 1..Len(log'), via'[i] \in Namespaces
        PROVE  store'[via'[i]][log'[i]] # "absent"
    <3>1. CASE i \in 1..Len(log)
      <4>1. via[i] \in Namespaces /\ via'[i] = via[i] /\ log'[i] = log[i]
        BY <2>2, <2>5, <2>7, <3>1
      <4>2. log[i] \in Capsules /\ store[via[i]][log[i]] # "absent"
        BY <1>1, <3>1, <4>1 DEF EntryHasRecord, Held, TypeOK
      <4>3. QED
        BY <1>1, <4>1, <4>2, HeldStays
    <3>2. CASE i = Len(log) + 1
      <4>1. via'[i] = job[p].ns /\ log'[i] = job[p].capsule
        BY <2>2, <2>7, <3>2
      <4>2. store[job[p].ns][job[p].capsule] # "absent"
        BY <1>3, <2>5, <4>1 DEF RecordKeptFirst, Held
      <4>3. QED
        BY <1>1, <2>1, <2>5, <4>1, <4>2, HeldStays
    <3>3. QED
      BY <2>2, <3>1, <3>2
  <2>6. QED
    BY <2>3, <2>4, <2>5 DEF EntryHasRecord, Held
<1>4. QED
  BY <1>1, <1>2, <1>3, LogStep

(* What users were told: an answer given stands, and a new one is that of  *)
(* a process past its append.                                              *)
LEMMA ToldStep ==
  ASSUME IInv, [Next]_vars
  PROVE  AckedIsThere' /\ EmittedIsOnRecord'
<1> USE DEF IInv
<1>1. TypeOK' /\ TypeOK
  BY TypeOKStep
<1>2. \/ UNCHANGED <<acked, emitted>>
      \/ \E p \in Procs : Report(p)
  BY DEF Next, Step, vars, stores, procs, seen, Publish, AppendFile, Disclose, PutArtifact,
         PutRefused, PutFails, AppendRecord, AppendPending, Die, Purge
<1>3. ASSUME NEW a \in acked
      PROVE  /\ a.seq \in 1..Len(log') /\ log'[a.seq] = a.capsule
             /\ a.ns \in Namespaces => store'[a.ns][a.capsule] # "absent"
  <2>1. /\ a.capsule \in Capsules /\ a.seq \in 1..Len(log) /\ log[a.seq] = a.capsule
        /\ a.ns \in Namespaces => Held(a.ns, a.capsule)
    BY <1>1 DEF TypeOK, AckedIsThere
  <2>2. a.seq \in 1..Len(log') /\ log'[a.seq] = a.capsule
    BY <1>1, <2>1, LogGrows DEF TypeOK
  <2>3. a.ns \in Namespaces => store'[a.ns][a.capsule] # "absent"
    BY <1>1, <2>1, HeldStays DEF Held
  <2>4. QED
    BY <2>2, <2>3
<1>4. ASSUME NEW d \in emitted
      PROVE  InLog(d)'
  BY <1>1, LogGrows DEF EmittedIsOnRecord
<1>5. ASSUME NEW p \in Procs, Report(p)
      PROVE  AckedIsThere' /\ EmittedIsOnRecord'
  <2>1. /\ UNCHANGED <<store, log>>
        /\ result[p] \in 1..Len(log) /\ log[result[p]] = job[p].capsule
        /\ job[p].ns \in Namespaces => Held(job[p].ns, job[p].capsule)
    BY <1>1, <1>5 DEF Report, stores, AnswerIsThere, RecordKeptFirst
  <2>2. \A a \in acked' : a \in acked \/ a = [capsule |-> job[p].capsule, ns |-> job[p].ns, seq |-> result[p]]
    BY <1>5 DEF Report
  <2>3. AckedIsThere'
    BY <1>3, <2>1, <2>2 DEF AckedIsThere, Held
  <2>4. \A d \in emitted' : d \in emitted \/ d = job[p].capsule
    BY <1>5 DEF Report
  <2>5. EmittedIsOnRecord'
    BY <1>4, <2>1, <2>4 DEF EmittedIsOnRecord, InLog, Positions
  <2>6. QED
    BY <2>3, <2>5
<1>6. CASE UNCHANGED <<acked, emitted>>
  <2>1. AckedIsThere'
    BY <1>3, <1>6 DEF AckedIsThere, Held
  <2>2. EmittedIsOnRecord'
    BY <1>4, <1>6 DEF EmittedIsOnRecord
  <2>3. QED
    BY <2>1, <2>2
<1>7. QED
  BY <1>2, <1>5, <1>6

(* The invariant on which the theorems rest.                               *)
THEOREM Inductive == Spec => []IInv
<1>1. IInv /\ [Next]_vars => IInv'
  BY TypeOKStep, ProcessesStep, LogContentsStep, ToldStep DEF IInv
<1>2. QED
  BY InitIInv, <1>1, PTL DEF Spec

(* Type correctness of publication, for any number of processes.           *)
THEOREM TypeCorrect == Spec => []TypeOK
<1>1. IInv => TypeOK
  BY DEF IInv
<1>2. QED
  BY Inductive, <1>1, PTL

(* Nothing is in the log through a namespace that does not have its record *)
(* there: the put is durable before the append, in any interleaving.       *)
THEOREM LogIsBacked == Spec => []EntryHasRecord
<1>1. IInv => EntryHasRecord
  BY DEF IInv
<1>2. QED
  BY Inductive, <1>1, PTL

(* A publication a user was told of is where the user was told it is.      *)
THEOREM AnswersStand == Spec => []AckedIsThere
<1>1. IInv => AckedIsThere
  BY DEF IInv
<1>2. QED
  BY Inductive, <1>1, PTL

(* Two answers about one capsule name one sequence, since the log has it   *)
(* once: a repeated request never makes a second entry.                    *)
THEOREM RetriesAgree == Spec => []OneSequencePerCapsule
<1>1. IInv => OneSequencePerCapsule
  BY DEF IInv, NoDuplicates, AckedIsThere, OneSequencePerCapsule
<1>2. QED
  BY Inductive, <1>1, PTL

(* A disclosure is on the log before its bundle leaves the process.        *)
THEOREM DisclosuresOnRecord == Spec => []EmittedIsOnRecord
<1>1. IInv => EmittedIsOnRecord
  BY DEF IInv
<1>2. QED
  BY Inductive, <1>1, PTL

(* A purged record stays purged: no retry, however late, brings it back.   *)
THEOREM PurgeIsFinal == Spec => PurgedStaysPurged
<1>1. ASSUME TypeOK, [Next]_vars, NEW n \in Namespaces, NEW c \in Capsules, store[n][c] = "purged"
      PROVE  store'[n][c] = "purged"
  <2>1. ASSUME NEW m \in Namespaces, NEW d \in Capsules, NEW v \in {"held", "purged"},
               store[m][d] = "purged" => v = "purged",
               store' = [store EXCEPT ![m][d] = v]
        PROVE  store'[n][c] = "purged"
    <3>1. store'[n][c] = IF n = m /\ c = d THEN v ELSE store[n][c]
      BY <2>1, <1>1 DEF TypeOK
    <3>2. QED
      BY <1>1, <2>1, <3>1
  <2>2. QED
    BY <1>1, <2>1, StoreStep
<1>2. TypeOK /\ [Next]_vars =>
        [\A n \in Namespaces, c \in Capsules :
           store[n][c] = "purged" => store'[n][c] = "purged"]_vars
  BY <1>1
<1>3. QED
  BY TypeCorrect, <1>2, PTL DEF Spec, PurgedStaysPurged

----------------------------------------------------------------------------
(* Publication implements EvidenceLog.                                     *)
LEMMA InitRefines == Init => Promise!Init
<1> SUFFICES ASSUME Init PROVE Promise!Init
  OBVIOUS
<1>1. Kept = {}
  BY DEF Init, Kept
<1>2. QED
  BY <1>1 DEF Init, Promise!Init

(* What a store step does to the set of records ever kept.                 *)
LEMMA KeptStep ==
  ASSUME TypeOK, NEW n \in Namespaces, NEW c \in Capsules, NEW v \in {"held", "purged"},
         store' = [store EXCEPT ![n][c] = v]
  PROVE  Kept' = Kept \cup {<<n, c>>}
<1>1. \A m \in Namespaces, d \in Capsules :
        store'[m][d] = IF m = n /\ d = c THEN v ELSE store[m][d]
  BY DEF TypeOK
<1>2. ASSUME NEW k \in Namespaces \X Capsules
      PROVE  store'[k[1]][k[2]] # "absent" <=> (store[k[1]][k[2]] # "absent" \/ k = <<n, c>>)
  BY <1>1
<1>3. QED
  BY <1>2 DEF Kept

(* Every step of publication is one of the evidence log, or a stutter.     *)
LEMMA StepRefines == IInv /\ [Next]_vars => [Promise!Next]_(Promise!vars)
<1> SUFFICES ASSUME IInv, [Next]_vars
             PROVE  Promise!Next \/ UNCHANGED <<Kept, log, via, acked, emitted>>
  BY DEF Promise!vars
<1>1. TypeOK
  BY DEF IInv
<1>2. ASSUME NEW p \in Procs, pc[p] = "sealed", UNCHANGED <<log, via, acked, emitted>>,
             store' = [store EXCEPT ![job[p].ns][job[p].capsule] = PutResult(@)]
      PROVE  Promise!Next
  <2>1. job[p].ns \in Namespaces /\ job[p].capsule \in Capsules
    BY <1>1, <1>2 DEF TypeOK
  <2>2. PutResult(store[job[p].ns][job[p].capsule]) \in {"held", "purged"}
    BY <1>1, <2>1 DEF TypeOK, PutResult
  <2>3. Kept' = Kept \cup {<<job[p].ns, job[p].capsule>>}
    BY <1>1, <1>2, <2>1, <2>2, KeptStep
  <2>4. Promise!Keep(job[p].ns, job[p].capsule)
    BY <1>2, <2>3 DEF Promise!Keep
  <2>5. QED
    BY <2>1, <2>4 DEF Promise!Next
<1>3. ASSUME NEW p \in Procs, pc[p] = "kept", LogAppend(job[p].capsule, job[p].ns),
             UNCHANGED <<store, acked, emitted>>
      PROVE  Promise!Next \/ UNCHANGED <<Kept, log, via, acked, emitted>>
  <2>1. Kept' = Kept
    BY <1>3 DEF Kept
  <2>2. CASE InLog(job[p].capsule)
    BY <1>3, <2>1, <2>2 DEF LogAppend
  <2>3. CASE ~InLog(job[p].capsule)
    <3>1. job[p].capsule \in Capsules /\ job[p].ns \in Profiles
      BY <1>1, <1>3 DEF TypeOK
    <3>2. ~Promise!Entered(job[p].capsule)
      BY <2>3 DEF Promise!Entered, InLog, Positions
    <3>3. Promise!Backed(job[p].capsule, job[p].ns)
      BY <1>3, <3>1 DEF IInv, RecordKeptFirst, Held, Promise!Backed, Kept
    <3>4. Promise!Enter(job[p].capsule, job[p].ns)
      BY <1>3, <2>1, <2>3, <3>2, <3>3 DEF LogAppend, Promise!Enter
    <3>5. QED
      BY <3>1, <3>4 DEF Promise!Next
  <2>4. QED
    BY <2>2, <2>3
<1>4. ASSUME NEW p \in Procs, Report(p)
      PROVE  Promise!Next
  <2>1. /\ result[p] \in 1..Len(log) /\ log[result[p]] = job[p].capsule
        /\ job[p].capsule \in Capsules /\ job[p].ns \in Profiles
        /\ job[p].ns \in Namespaces => <<job[p].ns, job[p].capsule>> \in Kept
    BY <1>1, <1>4 DEF Report, TypeOK, IInv, AnswerIsThere, RecordKeptFirst, Held, Kept
  <2>2. UNCHANGED <<Kept, log, via>>
    BY <1>4 DEF Report, stores, Kept
  <2>3. CASE job[p].kind = "disclose"
    <3>1. Promise!HandOut(job[p].capsule)
      BY <1>4, <2>1, <2>2, <2>3 DEF Report, Promise!HandOut, Promise!Entered
    <3>2. QED
      BY <2>1, <3>1 DEF Promise!Next
  <2>4. CASE job[p].kind # "disclose"
    <3>1. Promise!Tell(result[p], job[p].ns)
      BY <1>4, <2>1, <2>2, <2>4 DEF Report, Promise!Tell, Promise!Backed
    <3>2. QED
      BY <2>1, <3>1 DEF Promise!Next
  <2>5. QED
    BY <2>3, <2>4
<1>5. ASSUME NEW n \in Namespaces, NEW c \in Capsules, Purge(n, c)
      PROVE  UNCHANGED <<Kept, log, via, acked, emitted>>
  <2>1. Kept' = Kept \cup {<<n, c>>} /\ <<n, c>> \in Kept
    BY <1>1, <1>5, KeptStep DEF Purge, Kept
  <2>2. QED
    BY <1>5, <2>1 DEF Purge, seen
<1>6. ASSUME NEW p \in Procs,
             PutArtifact(p) \/ PutRefused(p) \/ PutFails(p) \/ AppendRecord(p)
               \/ AppendPending(p) \/ Die(p)
      PROVE  Promise!Next \/ UNCHANGED <<Kept, log, via, acked, emitted>>
  <2>1. CASE PutArtifact(p)
    BY <1>2, <2>1 DEF PutArtifact, seen
  <2>2. CASE PutFails(p)
    BY <1>2, <2>2 DEF PutFails, seen, Kept
  <2>3. CASE AppendRecord(p)
    BY <1>3, <2>3 DEF AppendRecord, seen
  <2>4. CASE AppendPending(p)
    BY <1>3, <2>4 DEF AppendPending, seen, Kept
  <2>5. CASE PutRefused(p) \/ Die(p)
    BY <2>5 DEF PutRefused, Die, stores, seen, Kept
  <2>6. QED
    BY <1>6, <2>1, <2>2, <2>3, <2>4, <2>5
<1>7. ASSUME NEW p \in Procs, NEW c \in Capsules, NEW n \in Profiles,
             Publish(p, c, n) \/ AppendFile(p, c, n) \/ Disclose(p, c, n)
      PROVE  UNCHANGED <<Kept, log, via, acked, emitted>>
  BY <1>7 DEF Publish, AppendFile, Disclose, stores, seen, Kept
<1>8. CASE UNCHANGED vars
  BY <1>8 DEF vars, Kept
<1>9. QED
  BY <1>4, <1>5, <1>6, <1>7, <1>8 DEF Next, Step

(* Every behaviour of publication, with its processes, failures and        *)
(* retries, is one of the abstract evidence log.                           *)
THEOREM PublicationRefines == Spec => Refines
<1>1. Spec => []IInv
  BY Inductive
<1>2. QED
  BY <1>1, InitRefines, StepRefines, PTL DEF Spec, Refines, Promise!Spec

------------------------------------------------------------------------------
(* The audit of a store (cli/verify_store.go).                             *)

VerdictKinds == {"passed", "failed", "unchecked"}

(* Where an audit is in the log: what it has read, the page in hand and    *)
(* the log, in that order.                                                 *)
AuditTypes ==
  /\ apc \in {"idle", "scanning", "done"}
  /\ after \in Nat /\ pageEnd \in Nat /\ start \in Nat
  /\ after <= pageEnd /\ pageEnd <= Len(log) /\ start <= Len(log)
  /\ verdicts \in Seq(VerdictKinds) /\ Len(verdicts) = after
  /\ orphans \subseteq 1..after
  /\ apc # "done" => orphans = {} /\ code = 0

(* The log and the stores bear out what the audit has read.                *)
ReadIsHeld == \A s \in 1..after : verdicts[s] # "failed" => Held(Auditor, log[s])

(* The exit code against all that was read, not just what was there first. *)
CodeStands ==
  apc = "done" /\ code = 0 =>
    \A s \in 1..after : verdicts[s] # "failed" /\ InLog(Parent[log[s]])

AuditInv ==
  /\ AuditTypes /\ NoFalseMissing /\ AuditIsComplete
  /\ ReadIsHeld /\ OrphanIsReal /\ CodeStands

(* A step of the composition is one of publication, or none.               *)
LEMMA AuditSteps == [AuditNext]_allVars => [Next]_vars
<1>1. OpenAudit \/ AuditStep => UNCHANGED vars
  BY DEF OpenAudit, AuditStep, ScanPage, ReadEntry, FinishAudit
<1>2. QED
  BY <1>1 DEF AuditNext, allVars

(* An audit only reads: an audited store is a store publications run on.   *)
THEOREM AuditLeavesPublication == AuditSpec => Spec
<1>1. AuditInit => Init
  BY DEF AuditInit
<1>2. QED
  BY <1>1, AuditSteps, PTL DEF AuditSpec, Spec

(* An audit that has read nothing has reported nothing.                    *)
LEMMA InitAuditInv == AuditInit => AuditInv
  BY DEF AuditInit, Init, AuditInv, AuditTypes, NoFalseMissing, AuditIsComplete, ReadIsHeld,
         OrphanIsReal, CodeStands

(* The next page ends within the log, and not before what was read.        *)
LEMMA PageEnd ==
  ASSUME NEW n \in Nat, NEW m \in Nat, n <= m
  PROVE  Min({n + PageSize, m}) \in n..m
<1> DEFINE least == IF n + PageSize <= m THEN n + PageSize ELSE m
<1>0. PageSize \in Nat
  BY PageAssumption
<1>1. least \in {n + PageSize, m} /\ \A y \in {n + PageSize, m} : least <= y
  BY <1>0
<1>2. \A x \in {n + PageSize, m} : (\A y \in {n + PageSize, m} : x <= y) => x = least
  BY <1>0
<1>3. Min({n + PageSize, m}) = least
  BY <1>1, <1>2 DEF Min
<1>4. QED
  BY <1>0, <1>3

(* One case per action of the audit, and one for a step of publication.    *)
LEMMA AuditInvStep == IInv /\ AuditInv /\ [AuditNext]_allVars => AuditInv'
<1> SUFFICES ASSUME IInv, AuditInv, [AuditNext]_allVars PROVE AuditInv'
  OBVIOUS
<1> USE DEF AuditInv
<1>0. TypeOK
  BY DEF IInv
<1>1. Len(log) \in Nat
  BY <1>0 DEF TypeOK
<1>2. ASSUME [Next]_vars, UNCHANGED auditVars PROVE AuditInv'
  <2>1. /\ 1..Len(log) \subseteq 1..Len(log')
        /\ \A i \in 1..Len(log) : log'[i] = log[i] /\ via'[i] = via[i]
    BY <1>0, <1>2, LogGrows
  <2>2. Len(log') \in Nat
    BY <1>0, <1>2, TypeOKStep DEF IInv, TypeOK
  <2>3. Len(log) <= Len(log')
    BY <1>1, <2>1, <2>2
  <2>4. AuditTypes'
    BY <1>1, <1>2, <2>2, <2>3 DEF AuditTypes, auditVars
  <2>5. 1..after \subseteq 1..Len(log)
    BY <1>1 DEF AuditTypes
  <2>6. NoFalseMissing'
    BY <1>2, <2>1, <2>5 DEF NoFalseMissing, auditVars
  <2>7. \A s \in 1..after : log[s] \in Capsules /\ (Held(Auditor, log[s]) => Held(Auditor, log[s])')
    <3>1. \A s \in 1..after : log[s] \in Capsules
      <4>1. \A s \in 1..Len(log) : log[s] \in Capsules
        BY <1>0 DEF TypeOK
      <4>2. QED
        BY <2>5, <4>1
    <3>2. \A c \in Capsules : store[Auditor][c] # "absent" => store'[Auditor][c] # "absent"
      BY <1>0, <1>2, HeldStays, AuditorAssumption
    <3>3. \A s \in 1..after : log'[s] = log[s]
      BY <2>1, <2>5
    <3>4. QED
      BY <3>1, <3>2, <3>3 DEF Held
  <2>8. ReadIsHeld'
    <3>1. \A s \in 1..after : log'[s] = log[s]
      BY <2>1, <2>5
    <3>2. \A s \in 1..after : verdicts[s] # "failed" => Held(Auditor, log[s])'
      BY <2>7 DEF ReadIsHeld
    <3>3. UNCHANGED <<after, verdicts>>
      BY <1>2 DEF auditVars
    <3>4. QED
      BY <3>2, <3>3 DEF ReadIsHeld
  <2>9. OrphanIsReal'
    <3>1. \A s \in orphans : s \in 1..after
      BY DEF AuditTypes
    <3>2. 1..start \subseteq 1..Len(log)
      BY <1>1 DEF AuditTypes
    <3>3. \A s \in orphans : Held(Auditor, log[s])' /\ log'[s] = log[s]
      BY <2>1, <2>5, <2>7, <3>1 DEF OrphanIsReal
    <3>4. \A t \in 1..start : log'[t] = log[t]
      BY <2>1, <3>2
    <3>5. UNCHANGED <<orphans, start>>
      BY <1>2 DEF auditVars
    <3>6. QED
      BY <3>3, <3>4, <3>5 DEF OrphanIsReal
  <2>10. CodeStands'
    <3>1. \A s \in 1..after : log'[s] = log[s]
      BY <2>1, <2>5
    <3>2. \A c : InLog(c) => InLog(c)'
      BY <1>0, <1>2, LogGrows
    <3>3. UNCHANGED <<apc, code, after, verdicts>>
      BY <1>2 DEF auditVars
    <3>4. QED
      BY <3>1, <3>2, <3>3 DEF CodeStands
  <2>11. QED
    BY <1>2, <2>4, <2>6, <2>8, <2>9, <2>10 DEF AuditIsComplete, auditVars
<1>3. CASE OpenAudit
  <2>1. UNCHANGED <<store, log, via, after, pageEnd, verdicts, orphans, code>>
        /\ apc = "idle" /\ apc' = "scanning" /\ start' = Len(log)
    BY <1>3 DEF OpenAudit, vars
  <2>2. orphans = {} /\ code = 0
    BY <2>1 DEF AuditTypes
  <2>3. QED
    BY <1>1, <2>1, <2>2 DEF AuditTypes, NoFalseMissing, AuditIsComplete, ReadIsHeld, Held,
                           OrphanIsReal, CodeStands
<1>4. CASE ScanPage
  <2>1. pageEnd' \in after..Len(log)
    BY <1>1, <1>4, PageEnd DEF ScanPage, AuditTypes
  <2>2. UNCHANGED <<store, log, via, apc, after, verdicts, orphans, code, start>>
    BY <1>4 DEF ScanPage, vars
  <2>3. AuditTypes'
    BY <1>1, <2>1, <2>2 DEF AuditTypes
  <2>4. /\ NoFalseMissing' /\ AuditIsComplete'
        /\ ReadIsHeld' /\ OrphanIsReal' /\ CodeStands'
    BY <2>2 DEF NoFalseMissing, AuditIsComplete, ReadIsHeld, Held, OrphanIsReal, CodeStands,
                InLog, Positions
  <2>5. QED
    BY <2>3, <2>4
<1>5. CASE ReadEntry
  <2> DEFINE c == log[after + 1]
  <2>1. /\ after' = after + 1 /\ verdicts' = Append(verdicts, RecordVerdict(c))
        /\ apc = "scanning" /\ after < pageEnd
        /\ UNCHANGED <<store, log, via, apc, pageEnd, orphans, code, start>>
    BY <1>5 DEF ReadEntry, vars
  <2>2. after + 1 \in 1..Len(log)
    BY <1>1, <2>1 DEF AuditTypes
  <2>3. RecordVerdict(c) \in VerdictKinds
    BY DEF RecordVerdict, VerdictKinds
  <2>4. AuditTypes'
    BY <1>1, <2>1, <2>3 DEF AuditTypes
  <2>5. /\ \A s \in 1..after : verdicts'[s] = verdicts[s]
        /\ verdicts'[after + 1] = RecordVerdict(c)
        /\ 1..after' = 1..after \cup {after + 1}
    BY <2>1, <2>3 DEF AuditTypes
  <2>6. RecordVerdict(c) = "failed" <=> ~Held(Auditor, c)
    <3>1. RecordVerdict(c) = "failed" <=> store[Auditor][c] = "absent"
      BY DEF RecordVerdict
    <3>2. QED
      BY <3>1, AuditorAssumption DEF Held
  <2>7. via[after + 1] = Auditor => Held(Auditor, c)
    BY <2>2, AuditorAssumption DEF IInv, EntryHasRecord, Held
  <2>8. NoFalseMissing' /\ ReadIsHeld'
    BY <2>1, <2>5, <2>6, <2>7 DEF NoFalseMissing, ReadIsHeld, Held
  <2>9. OrphanIsReal' /\ CodeStands' /\ AuditIsComplete'
    BY <2>1 DEF OrphanIsReal, Held, CodeStands, AuditIsComplete
  <2>10. QED
    BY <2>4, <2>8, <2>9
<1>6. CASE FinishAudit
  <2>1. /\ orphans' = Orphans /\ apc' = "done" /\ after = pageEnd /\ pageEnd >= Len(log)
        /\ UNCHANGED <<store, log, via, after, pageEnd, verdicts, start>>
        /\ code' = 0 => Orphans = {} /\ "failed" \notin Range(verdicts)
    BY <1>6 DEF FinishAudit, vars
  <2>2. \A s \in Orphans : /\ s \in 1..after /\ verdicts[s] # "failed"
                           /\ \A t \in 1..after : log[t] # Parent[log[s]]
    BY DEF Orphans, Joined
  <2>3. start <= after
    BY <1>1, <2>1 DEF AuditTypes
  <2>4. AuditTypes' /\ AuditIsComplete'
    BY <1>1, <2>1, <2>2, <2>3 DEF AuditTypes, AuditIsComplete
  <2>5. OrphanIsReal'
    <3>1. 1..start \subseteq 1..after
      BY <2>3 DEF AuditTypes
    <3>2. \A s \in Orphans : Held(Auditor, log[s])
      BY <2>2 DEF ReadIsHeld
    <3>3. QED
      BY <2>1, <2>2, <3>1, <3>2 DEF OrphanIsReal, Held
  <2>6. CodeStands'
    <3>1. SUFFICES ASSUME code' = 0, NEW s \in 1..after
                   PROVE  verdicts[s] # "failed" /\ InLog(Parent[log[s]])
      BY <2>1 DEF CodeStands, InLog, Positions
    <3>2. verdicts[s] \in Range(verdicts)
      BY DEF AuditTypes, Range
    <3>3. verdicts[s] # "failed"
      BY <2>1, <3>1, <3>2
    <3>4. PICK t \in 1..after : log[t] = Parent[log[s]]
      BY <2>1, <3>1, <3>3 DEF Orphans, Joined
    <3>5. t \in 1..Len(log)
      BY <1>1 DEF AuditTypes
    <3>6. QED
      BY <3>3, <3>4, <3>5 DEF InLog, Positions
  <2>7. NoFalseMissing' /\ ReadIsHeld'
    BY <2>1 DEF NoFalseMissing, ReadIsHeld, Held
  <2>8. QED
    BY <2>4, <2>5, <2>6, <2>7
<1>7. QED
  BY <1>2, <1>3, <1>4, <1>5, <1>6 DEF AuditNext, AuditStep, allVars

(* Both invariants hold of every state of an audited store.                *)
THEOREM AuditInvariant == AuditSpec => [](IInv /\ AuditInv)
<1>1. AuditSpec => []IInv
  BY AuditLeavesPublication, Inductive, PTL
<1>2. QED
  BY <1>1, InitAuditInv, AuditInvStep, PTL DEF AuditSpec

(* No publication under way, failed or killed, makes the audit report a    *)
(* record of its own namespace missing.                                    *)
THEOREM NothingFalselyMissing == AuditSpec => []NoFalseMissing
<1>1. AuditInv => NoFalseMissing
  BY DEF AuditInv
<1>2. QED
  BY <1>1, AuditInvariant, PTL

(* A reported orphan has its own record, and cites what was not in the log *)
(* when the audit began, however unreadable other records are and whatever *)
(* is published meanwhile: from what was read being held (ReadIsHeld) and  *)
(* the audit having read the whole of that log.                            *)
THEOREM OrphansAreReal == AuditSpec => []OrphanIsReal
<1>1. AuditInv => OrphanIsReal
  BY DEF AuditInv
<1>2. QED
  BY <1>1, AuditInvariant, PTL

(* Exit 0 vouches for the whole log the audit began on, records and        *)
(* citations.                                                              *)
THEOREM CleanAuditsVouch == AuditSpec => []CleanAuditVouches
<1>1. IInv /\ AuditInv => CleanAuditVouches
  <2> SUFFICES ASSUME IInv, AuditInv, apc = "done", code = 0, NEW s \in 1..start
               PROVE  Held(Auditor, log[s]) /\ InLog(Parent[log[s]])
    BY DEF CleanAuditVouches
  <2>1. s \in 1..after
    BY DEF AuditInv, AuditTypes, AuditIsComplete
  <2>2. QED
    BY <2>1 DEF AuditInv, ReadIsHeld, CodeStands
<1>2. QED
  BY <1>1, AuditInvariant, PTL

(* Both ways: what an audit accuses and what it passes is so of the log it *)
(* began on.                                                               *)
THEOREM AuditsAnswerForStart == AuditSpec => []AuditAnswersForStart
<1>1. OrphanIsReal /\ CleanAuditVouches => AuditAnswersForStart
  BY DEF AuditAnswersForStart
<1>2. QED
  BY <1>1, OrphansAreReal, CleanAuditsVouch, PTL

(* An audit ends with every entry read that was there when it began.       *)
THEOREM AuditsAreComplete == AuditSpec => []AuditIsComplete
<1>1. AuditInv => AuditIsComplete
  BY DEF AuditInv
<1>2. QED
  BY <1>1, AuditInvariant, PTL
=============================================================================
