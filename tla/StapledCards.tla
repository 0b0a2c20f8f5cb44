----------------------------- MODULE StapledCards -----------------------------
(***************************************************************************)
(* A history_card/1 stapled to a commitment, or served in answer to a      *)
(* request (cli/verify_history_staple.go, cli/verify_history_chain.go): the*)
(* checks of one card, the two commands that read them (`verify --history` *)
(* and `commitment find`) and the comparison of the copies several callers *)
(* were served.  A log is known by its content, the sequence of its        *)
(* records; a checkpoint's size and root stand for that content, which is  *)
(* what a collision-free hash gives, so a consistency proof exists exactly *)
(* when one content is the start of the other.                             *)
(***************************************************************************)
EXTENDS Naturals, Sequences, SequencesExt, FiniteSets

CONSTANTS
  Keys,      \* responder and log keys
  NoKey,     \* the reader gave no key
  Logs,
  Streams,
  NoStream,  \* a card without a stream, a staple without a label
  Contents,  \* contents of a log: sequences of records
  Requests,  \* requests a card may answer
  MaxChanges, \* changes to a file between its writer and its reader
  Nothing    \* no file, no octets, no node id, no pin, no answer

ASSUME KeysAssumption == NoKey \notin Keys /\ NoStream \notin Streams
ASSUME MadeOfAssumption == Keys # {} /\ Logs # {} /\ Streams # {} /\ Requests # {}
ASSUME ContentsAssumption == Contents \subseteq Seq(Nat) /\ <<>> \notin Contents

NoRequest == "none"

(* A signed checkpoint.  readable: it parses under its own signature.      *)
(* previous is what its signed prev_size and prev_root name.               *)
Statements == [readable : BOOLEAN, key : Keys, log : Logs,
               content : Contents, previous : Contents, proved : BOOLEAN]

Pass == "PASS"
Fail == "FAIL"
NotChecked == "NOT_CHECKED"
NotPresent == "NOT_PRESENT"

stapleMustPass ==
  {"envelope_signature", "responder_trust", "request_binding", "card_form", "subject_scope",
   "checkpoint_anchor", "checkpoint_signature", "checkpoint_key", "checkpoint_consistency"}

envelopeMustPass ==
  {"profile_version", "envelope_signature", "responder_trust", "issued_at_form",
   "request_binding", "subject_binding", "artifact_digest", "anchor_match"}

Judged(good) == IF good THEN Pass ELSE Fail

(* The properties of a row that have the status.                           *)
With(status, row) == {p \in DOMAIN row.properties : row.properties[p] = status}

------------------------------------------------------------------------------
(* One card.                                                               *)

(* chainFailure: next does not extend prev.                                *)
chainFailure(prev, next) ==
  \/ prev.log # next.log
  \/ next.previous # prev.content
  \/ Len(next.content) <= Len(prev.content)
  \/ ~(next.proved /\ IsPrefix(prev.content, next.content))

Readable(chain) == \A i \in DOMAIN chain : chain[i].readable

(* cardForm returns the statements only when the card has its form.        *)
cardForm(card) == IF card.form THEN card.chain ELSE <<>>

checkpointProperties ==
  {"checkpoint_anchor", "checkpoint_signature", "checkpoint_key", "checkpoint_consistency"}

checkpointChecks(card, accepted) ==
  LET chain == cardForm(card) IN
  [p \in checkpointProperties |->
     IF chain = <<>> THEN NotChecked ELSE
     CASE p = "checkpoint_anchor"    -> Judged(card.anchor = Last(chain))
       [] p = "checkpoint_signature" -> Judged(Readable(chain))
       [] p = "checkpoint_key" ->
            IF accepted = {} THEN NotChecked
            ELSE Judged(\A i \in DOMAIN chain : chain[i].readable => chain[i].key \in accepted)
       [] p = "checkpoint_consistency" ->
            IF ~Readable(chain) THEN NotChecked
            ELSE Judged(\A i \in 2..Len(chain) : ~chainFailure(chain[i - 1], chain[i]))]

(* The evidence-request verifier, outside this repository: what it says of *)
(* a reply under the request it is given with.                             *)
requestChecks(card, request) ==
  CASE request = NoRequest     -> [p \in {"request_binding"} |-> NotPresent]
    [] request = "not a request" -> [p \in {"request_binding"} |-> Fail]
    [] OTHER -> [p \in envelopeMustPass \ {"responder_trust"} |->
          CASE p = "envelope_signature" -> Judged(card.signed)
            [] p = "request_binding"    -> Judged(card.answers = request)
            [] OTHER                    -> Pass]

responderTrust(card, counterparty) ==
  IF counterparty = NoKey THEN NotChecked ELSE Judged(card.responder = counterparty)

cardChecks(card, request, counterparty, accepted) ==
  IF ~card.envelope THEN
    [properties |-> [p \in {"envelope_signature"} |-> Fail],
     stream |-> NoStream, label |-> NoStream, responder |-> NoKey, card |-> card]
  ELSE
    [properties |->
       LET asked == requestChecks(card, request)
           chain == checkpointChecks(card, accepted)
           own   == {"envelope_signature", "responder_trust", "subject_scope", "card_form"}
       IN [p \in own \cup DOMAIN asked \cup checkpointProperties |->
             CASE p = "envelope_signature"   -> Judged(card.signed)
               [] p = "responder_trust"      -> responderTrust(card, counterparty)
               [] p = "subject_scope"        -> Judged(card.inScope)
               [] p = "card_form"            -> Judged(card.form)
               [] p \in checkpointProperties -> chain[p]
               [] OTHER                      -> asked[p]],
     stream    |-> IF card.form THEN card.stream ELSE NoStream,
     label     |-> NoStream,
     responder |-> card.responder,
     card      |-> card]

(* chainOf: the checkpoints of a well formed, readable card; else none.    *)
chainOf(card) ==
  IF card.envelope /\ card.form /\ Readable(card.chain) THEN card.chain ELSE <<>>

(* Mutant of extendsPin: any chain as long as the pin extends it.          *)
extendsBySize(chain, content) ==
  chain # <<>> /\ Len(Last(chain).content) >= Len(content)

(* extendsPin: the held checkpoint is in the chain, which runs on from it. *)
(* A chain's sizes only grow, so the first of the held size is the one.    *)
extendsPin(chain, content) ==
  /\ chain # <<>>
  /\ Len(Last(chain).content) >= Len(content)
  /\ \E i \in DOMAIN chain :
       /\ Len(chain[i].content) = Len(content)
       /\ \A j \in 1..(i - 1) : Len(chain[j].content) # Len(content)
       /\ chain[i].content = content
------------------------------------------------------------------------------
(* A commitment's staples.                                                 *)

commitmentChecks(doc, counterparty) ==
  IF counterparty = NoKey THEN NotChecked
  ELSE Judged(doc.key = counterparty /\ doc.signed)

(* A commitment of the earlier form names no stream for its one card.      *)
Unlabelled(doc, staple) == staple.label = NoStream /\ doc.single

stapleProperties ==
  {"stream_match", "card_digest", "caller_invariance", "commitment_signature", "commitment_anchor"}

StapleRow(doc, staple, counterparty, accepted) ==
  LET row == cardChecks(staple.card, NoRequest, counterparty, accepted) IN
  [row EXCEPT
    !.label = IF Unlabelled(doc, staple) THEN row.stream ELSE staple.label,
    !.properties = [p \in DOMAIN @ \cup stapleProperties |->
      CASE p = "stream_match" -> Judged(Unlabelled(doc, staple) \/ row.stream = staple.label)
        [] p = "card_digest" -> Judged(staple.digest)
        [] p = "caller_invariance" -> NotChecked
        [] p = "commitment_signature" -> commitmentChecks(doc, counterparty)
        [] p = "commitment_anchor" ->
             IF ~doc.anchored THEN NotPresent
             ELSE Judged(staple.card.envelope /\ staple.card.anchor = doc.anchor)
        [] OTHER -> row.properties[p]]]

(* commitmentStapleRows: a staple of another derivation is not ours.       *)
commitmentStapleRows(doc, counterparty, accepted) ==
  LET ours(s) == s.derivation \in {"", "history_card/1"}
      cards   == SelectSeq(doc.staples, ours)
  IN [i \in DOMAIN cards |-> StapleRow(doc, cards[i], counterparty, accepted)]

(* Mutant of stapleFailures: a broken chain is not a failure.              *)
stapleFailuresLax(rows) ==
  UNION {With(Fail, rows[i]) \ {"commitment_anchor", "checkpoint_consistency"} : i \in DOMAIN rows}

(* What `commitment find` refuses a staple for: every failed check but the *)
(* one that the card is anchored on the commitment's own checkpoint.       *)
stapleFailures(rows) ==
  UNION {With(Fail, rows[i]) \ {"commitment_anchor"} : i \in DOMAIN rows}

Accepted(rows) ==
  \A i \in DOMAIN rows :
    /\ With(Fail, rows[i]) = {}
    /\ stapleMustPass \subseteq With(Pass, rows[i])
    /\ (envelopeMustPass \cup {"commitment_signature"}) \cap DOMAIN rows[i].properties
         \subseteq With(Pass, rows[i])

(* The exit of `verify --history` on a staple (verifyStaple and, when it is*)
(* not accepted, stapleOutcome).  notes: findings without a failed check.  *)
stapleOutcome(rows, notes) ==
  LET unfinished(i) == (With(NotChecked, rows[i]) \ {"caller_invariance"}) \cup
                       (stapleMustPass \ DOMAIN rows[i].properties)
      missing(i)    == With(NotPresent, rows[i]) \ {"request_binding"}
      unbound(i)    == "request_binding" \in With(NotPresent, rows[i])
  IN IF rows = <<>> THEN "input error"
     ELSE IF Accepted(rows) THEN "accepted"
     ELSE IF notes \/ \E i \in DOMAIN rows : With(Fail, rows[i]) # {} \/ missing(i) # {} THEN "failed"
     ELSE IF \E i \in DOMAIN rows : unfinished(i) # {} THEN "checks not run"
     ELSE IF \E i \in DOMAIN rows : unbound(i) THEN "answers no request" ELSE "failed"
------------------------------------------------------------------------------
(* Copies of one card, each the answer to a caller's request.              *)

(* An answer verifies under the reader's key (NewVerifier's trust policy). *)
Verifies(x, counterparty) ==
  x.card.envelope /\ x.card.signed /\ counterparty # NoKey /\ x.card.responder = counterparty

SameQuestion(x, y) ==
  /\ x.card.envelope /\ y.card.envelope
  /\ x.card.responder = y.card.responder
  /\ x.card.anchor = y.card.anchor
  /\ x.card.inScope = y.card.inScope

(* The envelopes AAC's verifier compares: those that verify.               *)
Compared(staple, copies, counterparty) ==
  {x \in copies \cup {staple} : SameQuestion(x, staple) /\ Verifies(x, counterparty)}

(* callerInvariance: [status, note], note being a finding without failure. *)
callerInvariance(staple, copies, counterparty) ==
  LET same     == {x \in copies \ {staple} : SameQuestion(x, staple)}
      compared == Compared(staple, copies, counterparty)
      another  == \E x \in compared \ {staple} : x.request # staple.request
      result   == IF \E x, y \in compared : x.artifact # y.artifact THEN Fail
                  ELSE IF Cardinality(compared) > 1 THEN Pass ELSE NotChecked
  IN CASE same = {} -> [status |-> NotChecked, note |-> copies # {}]
       [] same # {} /\ ~Verifies(staple, counterparty) -> [status |-> NotChecked, note |-> TRUE]
       [] OTHER -> IF result = Pass /\ ~another THEN [status |-> NotChecked, note |-> TRUE]
                   ELSE [status |-> result, note |-> result = NotChecked]

(* A served card, {history, request, reply}: its one row, and its exit.    *)
ServedRow(staple, copies, counterparty, accepted) ==
  LET row == cardChecks(staple.card, staple.request, counterparty, accepted) IN
  [row EXCEPT !.properties = [p \in DOMAIN @ \cup {"caller_invariance"} |->
     IF p = "caller_invariance" THEN callerInvariance(staple, copies, counterparty).status ELSE row.properties[p]]]

servedOutcome(staple, copies, counterparty, accepted) ==
  stapleOutcome(<<ServedRow(staple, copies, counterparty, accepted)>>,
                callerInvariance(staple, copies, counterparty).note)
------------------------------------------------------------------------------
(* The file on its way: a node's commitment with its card and the copies   *)
(* other callers were served, of which a carrier may change any part.      *)
VARIABLES
  stapled,  \* the commitment, its staples and the copies
  changes   \* how many parts were changed

stapleVars == <<stapled, changes>>

Statement(content, previous) ==
  [readable |-> TRUE, key |-> CHOOSE k \in Keys : TRUE, log |-> CHOOSE l \in Logs : TRUE,
   content |-> content, previous |-> previous, proved |-> TRUE]

(* The chains a log's writer signs: each checkpoint grows the one before.  *)
Chains ==
  {<<Statement(c, c)>> : c \in Contents} \cup
  {<<Statement(d[1], d[1]), Statement(d[2], d[1])>> :
     d \in {d \in Contents \X Contents : IsStrictPrefix(d[1], d[2])}}

Card(chain, request) ==
  [envelope |-> TRUE, signed |-> TRUE, responder |-> CHOOSE k \in Keys : TRUE, form |-> TRUE,
   inScope |-> TRUE, answers |-> request, anchor |-> Last(chain),
   stream |-> CHOOSE s \in Streams : TRUE, chain |-> chain]

Served(chain, request) == [card |-> Card(chain, request), request |-> request, artifact |-> chain]

Commitment(card) ==
  [key |-> card.responder, signed |-> TRUE, anchored |-> TRUE, anchor |-> card.anchor, single |-> FALSE,
   staples |-> <<[label |-> card.stream, derivation |-> "history_card/1", digest |-> TRUE, card |-> card]>>]

StapledInit ==
  /\ \E chain \in Chains, form \in {"commitment", "served"} :
       LET r == CHOOSE r \in Requests : TRUE IN
       stapled = [form |-> form, doc |-> Commitment(Card(chain, r)),
                  served |-> Served(chain, r), copies |-> {}]
  /\ changes = 0

ChangedStatements(t) ==
  {[t EXCEPT !.readable = FALSE], [t EXCEPT !.proved = FALSE]} \cup
  {[t EXCEPT !.key = k] : k \in Keys} \cup {[t EXCEPT !.log = l] : l \in Logs} \cup
  {[t EXCEPT !.content = c] : c \in Contents} \cup {[t EXCEPT !.previous = c] : c \in Contents}

ChangedCards(card) ==
  {[card EXCEPT !.envelope = FALSE], [card EXCEPT !.signed = FALSE], [card EXCEPT !.form = FALSE],
   [card EXCEPT !.inScope = FALSE]} \cup
  {[card EXCEPT !.responder = k] : k \in Keys} \cup {[card EXCEPT !.stream = s] : s \in Streams} \cup
  (UNION {{[card EXCEPT !.chain[i] = t] : t \in ChangedStatements(card.chain[i])} : i \in DOMAIN card.chain}) \cup
  {[card EXCEPT !.chain[Len(card.chain)] = t, !.anchor = t] : t \in ChangedStatements(Last(card.chain))}

ChangedStaples(staple) ==
  {[staple EXCEPT !.digest = FALSE]} \cup
  {[staple EXCEPT !.label = s] : s \in Streams \cup {NoStream}} \cup
  {[staple EXCEPT !.derivation = d] : d \in {"", "standard_history/1"}} \cup
  {[staple EXCEPT !.card = c] : c \in ChangedCards(staple.card)}

ChangedCommitments(doc) ==
  {[doc EXCEPT !.signed = FALSE], [doc EXCEPT !.anchored = FALSE], [doc EXCEPT !.single = TRUE],
   [doc EXCEPT !.staples = <<>>], [doc EXCEPT !.staples = Append(@, doc.staples[1])]} \cup
  {[doc EXCEPT !.key = k] : k \in Keys} \cup
  UNION {{[doc EXCEPT !.staples[i] = t] : t \in ChangedStaples(doc.staples[i])} : i \in DOMAIN doc.staples}

(* A sender or a carrier changes one part of the commitment.               *)
ChangeCommitment ==
  /\ stapled.form = "commitment"
  /\ changes < MaxChanges
  /\ stapled.doc.staples # <<>>
  /\ \E doc \in ChangedCommitments(stapled.doc) : stapled' = [stapled EXCEPT !.doc = doc]
  /\ changes' = changes + 1

(* Another caller was served, the node's own answer or a copy made up.     *)
GiveCopy ==
  /\ stapled.form = "served"
  /\ changes < MaxChanges
  /\ \E chain \in Chains, r \in Requests, k \in Keys, good \in BOOLEAN :
       LET copy == [Served(chain, r) EXCEPT !.card.responder = k, !.card.signed = good,
                                            !.card.anchor = stapled.served.card.anchor]
       IN stapled' = [stapled EXCEPT !.copies = @ \cup {copy}]
  /\ changes' = changes + 1

ChangeServed ==
  /\ stapled.form = "served"
  /\ changes < MaxChanges
  /\ \E card \in ChangedCards(stapled.served.card), r \in Requests \cup {"not a request"} :
       stapled' = [stapled EXCEPT !.served.card = card, !.served.request = r, !.served.artifact = card.chain]
  /\ changes' = changes + 1

StapledNext == stapled # Nothing /\ (ChangeCommitment \/ GiveCopy \/ ChangeServed)

StapledSpec == StapledInit /\ [][StapledNext]_stapleVars
------------------------------------------------------------------------------
(* What a reader may hold: its counterparty's key or none, and log keys.   *)
Readers == (Keys \cup {NoKey}) \X SUBSET Keys

(* A card whose chain holds, and in which a reader finds the checkpoint it *)
(* saw before, ends in a content that starts with what that checkpoint     *)
(* committed to: no log that was forked, shortened or restarted passes as  *)
(* the log of the pin (chainFailure and extendsPin together).              *)
NoForkPasses ==
  stapled # Nothing =>
  \A i \in DOMAIN stapled.doc.staples, seen \in Contents :
    LET card == stapled.doc.staples[i].card IN
    (/\ "checkpoint_consistency" \in DOMAIN checkpointChecks(card, {})
     /\ checkpointChecks(card, {})["checkpoint_consistency"] = Pass
     /\ extendsPin(chainOf(card), seen))
      => IsPrefix(seen, Last(card.chain).content)

(* What is said of the copies of a card rests on answers that verify under *)
(* the reader's key: a forged copy changes nothing, and a card passes only *)
(* beside the same answer to another request (callerInvariance).           *)
CopiesCount(reader) ==
  LET key    == reader[1]
      served == stapled.served
      status(copies) == callerInvariance(served, copies, key).status
      genuine == {x \in stapled.copies : Verifies(x, key)}
  IN /\ status(stapled.copies) = status(genuine)
     /\ status(stapled.copies) = Pass =>
          \E x \in genuine : x.request # served.request /\ x.artifact = served.artifact
     /\ servedOutcome(served, stapled.copies, key, reader[2]) = "accepted" =>
          \A x \in genuine : SameQuestion(x, served) => x.artifact = served.artifact

(* verify --history exits with a failure wherever commitment find finds    *)
(* one, whatever its other findings; and the other way round but for what  *)
(* only verify --history reads, the anchor and the --receipt files, of     *)
(* which one that does not witness the anchor of a card not accepted is a  *)
(* finding (`more').                                                       *)
CommandsAgree(reader) ==
  LET rows         == commitmentStapleRows(stapled.doc, reader[1], reader[2])
      failed(more) == stapleOutcome(rows, more) = "failed"
      anchored     == \A i \in DOMAIN rows : "commitment_anchor" \in With(Pass, rows[i])
  IN /\ stapleFailures(rows) # {} => \A more \in BOOLEAN : failed(more)
     /\ failed(FALSE) /\ anchored => stapleFailures(rows) # {}

(* Readers of the same cards do not disagree: `commitment find` and        *)
(* `verify --history` on a commitment's staples, and the callers a card    *)
(* was served to, of whose copies only the genuine ones count.             *)
ReadersAgree ==
  stapled # Nothing => \A reader \in Readers : CopiesCount(reader) /\ CommandsAgree(reader)
==============================================================================
