------------------------------ MODULE Countersign ------------------------------
(***************************************************************************)
(* Countersignatures (cli/countersign.go, cli/countersign_receipt.go).     *)
(* countersign request reads a bundle file, has a service countersign its  *)
(* digest and writes the file again with the entries added; two of them may*)
(* run over one file.  countersign verify reads the file, whatever was done*)
(* to it since.  A digest is the content it is of, a signature the term it *)
(* was made on.                                                            *)
(***************************************************************************)
EXTENDS Naturals, Sequences, SequencesExt, FiniteSets

CONSTANTS
  Commands,           \* the commands that run countersign request
  Services,           \* the countersigners' keys
  ProducerKey,        \* the key the bundle's producer signs with
  MaxEditsToFile,
  MaxEntries,         \* entries of the file when a request reads it
  NoCall

ASSUME CountersignAssumption == MaxEditsToFile \in Nat /\ ProducerKey \notin Services

VARIABLES
  file,      \* the bundle file
  calls,     \* what each request holds
  added,     \* the entries each request said it added
  overlap,   \* of those, what came between another request's reading and its writing
  touched    \* times the file was changed by hand

countersignVars == <<file, calls, added, overlap, touched>>

API == "countersign/v1"
NoReceipt == [by |-> "nobody", on |-> "nothing"]

NewFile(content) ==
  [content |-> content, declared |-> TRUE, disclosures |-> FALSE, reproduced |-> FALSE, entries |-> <<>>]

(* The countersignatures are not covered by the digest.                    *)
BundleDigest(b) == <<b.content, b.declared>>

(* An entry with no type is read as one of this API.                       *)
CountersignSigningInput(e) ==
  <<e.over, e.key, e.id, e.statement, IF e.type = "" THEN API ELSE e.type>>

SignedEntry(key, over, statement, type) ==
  LET e == [type |-> type, key |-> key, id |-> key, over |-> over, statement |-> statement,
            receipt |-> [by |-> key, on |-> statement]]
  IN e @@ ("sig" :> [by |-> key, on |-> CountersignSigningInput(e)])

verifyCountersignSignature(e) == e.sig = [by |-> e.key, on |-> CountersignSigningInput(e)]

CountersignInit ==
  /\ \E d, r \in BOOLEAN : file = [NewFile("c1") EXCEPT !.disclosures = d, !.reproduced = r]
  /\ calls = [r \in Commands |-> NoCall]
  /\ added = {} /\ overlap = {} /\ touched = 0

------------------------------------------------------------------------------
(* countersign request.                                                    *)

ReadBundle(r) ==
  /\ calls[r] = NoCall
  /\ ~file.disclosures /\ ~file.reproduced /\ Len(file.entries) <= MaxEntries
  /\ calls' = [calls EXCEPT ![r] = [bundle |-> file, known |-> added, entries |-> <<>>]]
  /\ UNCHANGED <<file, added, overlap, touched>>

(* What a service may answer a submission of this digest with.             *)
ServiceReplies(digest, key) ==
  LET good  == SignedEntry(key, digest, "recomputed", API)
      plain == SignedEntry(key, digest, "recomputed", "")
      other == SignedEntry(key, <<"c2", TRUE>>, "recomputed", API)
      forged == [good EXCEPT !.statement = "rewritten"]
      reserved == SignedEntry(key, digest, "recomputed", "cose-sign1")
  IN {<<>>, <<good>>, <<plain, reserved>>, <<good, other>>, <<forged>>}

(* Mutant of acceptEntries: an entry of another digest is taken.           *)
acceptEntriesOver(entries, digest) ==
  entries # <<>> /\ \A i \in DOMAIN entries : verifyCountersignSignature(entries[i])

(* requestCountersignatures: one entry that does not verify and none is    *)
(* attached.                                                               *)
acceptEntries(entries, digest) ==
  /\ entries # <<>>
  /\ \A i \in DOMAIN entries : entries[i].over = digest /\ verifyCountersignSignature(entries[i])

Submit(r) ==
  /\ calls[r] # NoCall /\ calls[r].entries = <<>>
  /\ LET digest == BundleDigest(calls[r].bundle) IN
     \E key \in Services, reply \in UNION {ServiceReplies(digest, k) : k \in Services} :
       /\ \A i \in DOMAIN reply : reply[i].key = key
       /\ calls' = [calls EXCEPT ![r] = IF acceptEntries(reply, digest) THEN [@ EXCEPT !.entries = reply] ELSE NoCall]
  /\ UNCHANGED <<file, added, overlap, touched>>

AttachCountersignatures(bundle, entries) == [bundle EXCEPT !.entries = @ \o entries]

(* The whole file is written from what was read, and reported.             *)
WriteBack(r) ==
  /\ calls[r] # NoCall /\ calls[r].entries # <<>>
  /\ file' = AttachCountersignatures(calls[r].bundle, calls[r].entries)
  /\ added' = added \cup ToSet(calls[r].entries)
  /\ overlap' = overlap \cup (added \ (calls[r].known \cup ToSet(calls[r].entries)))
  /\ calls' = [calls EXCEPT ![r] = NoCall]
  /\ UNCHANGED touched

(* The command may end at any step before it writes; one with --out, or of *)
(* a bundle it builds itself, writes another file and leaves this one.     *)
Abort(r) ==
  /\ calls[r] # NoCall /\ calls' = [calls EXCEPT ![r] = NoCall]
  /\ UNCHANGED <<file, added, overlap, touched>>
------------------------------------------------------------------------------
(* What may be done to the file before it is verified: signed parts cannot *)
(* be signed again without the key.                                        *)
EditFile ==
  /\ touched < MaxEditsToFile
  /\ touched' = touched + 1
  /\ \/ \E i \in DOMAIN file.entries :
          \E e \in {[file.entries[i] EXCEPT !.statement = "rewritten"], [file.entries[i] EXCEPT !.id = "another"],
                    [file.entries[i] EXCEPT !.over = <<"c2", TRUE>>], [file.entries[i] EXCEPT !.type = "cose-sign1"],
                    [file.entries[i] EXCEPT !.type = ""], [file.entries[i] EXCEPT !.receipt = NoReceipt],
                    [file.entries[i] EXCEPT !.receipt = [by |-> ProducerKey, on |-> "recomputed"]]} \cup
                   {[file.entries[i] EXCEPT !.key = k] : k \in Services \cup {ProducerKey}} :
            file' = [file EXCEPT !.entries[i] = e]
     \/ \E i \in DOMAIN file.entries : file' = [file EXCEPT !.entries = RemoveAt(@, i)]
     \/ file' = [file EXCEPT !.content = "c2"]
     \/ file' = [file EXCEPT !.declared = FALSE]
     \/ file' = [file EXCEPT !.entries = Append(@, SignedEntry(ProducerKey, BundleDigest(file), "recomputed", API))]
  /\ file' # file
  /\ UNCHANGED <<calls, added, overlap>>

CountersignNext ==
  \/ \E r \in Commands : ReadBundle(r) \/ Submit(r) \/ WriteBack(r) \/ Abort(r)
  \/ EditFile

CountersignSpec == CountersignInit /\ [][CountersignNext]_countersignVars
------------------------------------------------------------------------------
(* countersign verify.                                                     *)

verifyCountersignReceipt(e) ==
  CASE e.receipt = NoReceipt -> "absent"
    [] e.receipt # NoReceipt /\ e.receipt = [by |-> e.key, on |-> e.statement] -> "verified"
    [] OTHER -> "unverified"

(* The profile's trusted keys and the key the bundle declares.             *)
producerKeys(b, trusted) == trusted \cup (IF b.declared THEN {ProducerKey} ELSE {})

entryState(b, e, trusted, directory) ==
  CASE e.type \notin {"", API} -> "unverified"
    [] e.type \in {"", API} /\ (e.over # BundleDigest(b) \/ ~verifyCountersignSignature(e)) -> "invalid"
    [] OTHER -> IF e.key \in producerKeys(b, trusted) THEN "not_independent"
                ELSE IF e.key \in directory THEN "resolved" ELSE "unresolved_signer"

EntryStates(b, trusted, directory) == {entryState(b, e, trusted, directory) : e \in ToSet(b.entries)}

Reported(b, trusted, directory) ==
  {e \in ToSet(b.entries) : entryState(b, e, trusted, directory) \notin {"unverified", "invalid"}}

rank == <<"none", "invalid", "unverified", "unresolved_signer", "not_independent", "resolved">>

summary(b, trusted, directory) ==
  rank[Max({1} \cup {i \in DOMAIN rank : rank[i] \in EntryStates(b, trusted, directory)})]

(* Mutant of verifyExit: the summary decides.                              *)
verifyExitBySummary(b, trusted, directory) ==
  CASE summary(b, trusted, directory) = "invalid" -> "failed"
    [] summary(b, trusted, directory) \in {"unverified", "unresolved_signer"} -> "partial"
    [] OTHER -> "ok"

verifyExit(b, trusted, directory) ==
  CASE "invalid" \in EntryStates(b, trusted, directory) -> "failed"
    [] /\ "invalid" \notin EntryStates(b, trusted, directory)
       /\ \/ EntryStates(b, trusted, directory) \cap {"unverified", "unresolved_signer"} # {}
          \/ \E e \in Reported(b, trusted, directory) : verifyCountersignReceipt(e) = "unverified" -> "partial"
    [] OTHER -> "ok"
------------------------------------------------------------------------------
(* Whoever reads the file, with whatever directory: an exit of 0 says that *)
(* every entry in it was signed by its own key over this bundle and these  *)
(* checks, and one that is called independent is not the producer's, though*)
(* the reader does not know the producer (VerifyCountersignatures and the  *)
(* exit of countersign verify, which the summary does not decide).         *)
VerifiedIsSigned ==
  \A trusted \in {{}, {ProducerKey}}, directory \in SUBSET (Services \cup {ProducerKey}) :
    /\ verifyExit(file, trusted, directory) = "ok" =>
         \A e \in ToSet(file.entries) :
           /\ e.sig.by = e.key
           /\ e.sig.on = <<BundleDigest(file), e.key, e.id, e.statement, API>>
           /\ e.receipt # NoReceipt => e.receipt = [by |-> e.key, on |-> e.statement]
    /\ \A e \in ToSet(file.entries) :
         entryState(file, e, trusted, directory) \in {"resolved", "unresolved_signer"} /\ file.declared =>
           e.key # ProducerKey

(* An entry a request said it added stays in the file and verifies there,  *)
(* whatever requests came after it and however long a service kept them,   *)
(* unless the file was edited.  What is lost is only what was added between*)
(* the reading and the writing of another request: there is no lock        *)
(* (AttachCountersignatures, cli/countersign.go:692).                      *)
AddedStays ==
  touched = 0 =>
    \A e \in added \ overlap :
      e \in ToSet(file.entries) /\ entryState(file, e, {}, Services) # "invalid"
================================================================================
