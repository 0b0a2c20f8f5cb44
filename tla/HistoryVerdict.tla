---------------------------- MODULE HistoryVerdict ----------------------------
(***************************************************************************)
(* verify --history over a History file (cli/verify_history.go and the     *)
(* readers of the other instances, cli/verify_history_frame.go and         *)
(* cli/verify_history_service.go).  The file holds requests and replies;   *)
(* the reader gives the keys it accepts.  Stapled cards have a module of   *)
(* their own, StapledCards.                                                *)
(***************************************************************************)
EXTENDS Naturals, Sequences, SequencesExt, FiniteSets

CONSTANTS
  HolderKeys,
  PickedDeals,     \* the deals the holder selected
  MaxHarm,         \* parts of a file that are changed
  MaxExchanges,
  NoFile           \* no file, no key

ASSUME HistoryAssumption == MaxHarm \in Nat /\ MaxExchanges \in Nat
ASSUME PickedAssumption == IsFiniteSet(PickedDeals) /\ PickedDeals # {}

VARIABLES
  history,   \* the file: instance, exchanges, definition, and the derivation's own check of the artifact
  given,     \* the keys given with --holder-key, and the other flags
  harm

historyVars == <<history, given, harm>>

Basic    == "personal_history_basic/1"
Standard == "standard_history/1"
Service  == "inference-service-history/0"
Outcome  == "personal_history_outcome/1"
Staple   == "history_card/1"
Unnamed  == "unnamed"
historyInstances == {Basic, Standard, Service, Outcome, Staple}

(* Three of the eight stand for envelopeMustPass, responder_trust apart.   *)
MustPass == {"envelope_signature", "request_binding", "artifact_digest"}
EnvelopeStatuses == {"PASS", "FAIL", "NOT_PRESENT"}

NewExchange(deal, key) ==
  [deal |-> deal, envelope |-> TRUE, responder |-> key, statuses |-> [p \in MustPass |-> "PASS"],
   inclusion |-> "NOT_CHECKED", material |-> FALSE]

------------------------------------------------------------------------------
(* The AAC evaluator: an answer under PH 6.1, the History's own properties.*)

Trusted(x, keys) == x.responder \in keys

StatusesOf(x, keys) ==
  IF ~x.envelope THEN {}
  ELSE {<<p, x.statuses[p]>> : p \in MustPass} \cup
       {<<"anchor_inclusion", x.inclusion>>, <<"responder_trust", IF Trusted(x, keys) THEN "PASS" ELSE "FAIL">>}

AnswerAccepted(x, keys) ==
  /\ x.envelope /\ Trusted(x, keys)
  /\ \A p \in MustPass : x.statuses[p] = "PASS"
  /\ x.inclusion = "NOT_CHECKED" /\ ~x.material

AcceptedIn(f, keys) == {x \in ToSet(f.exchanges) : AnswerAccepted(x, keys)}

HistoryProperties(f, keys) ==
  {<<"selection", IF {x.deal : x \in AcceptedIn(f, keys)} = PickedDeals THEN "PASS" ELSE "FAIL">>,
   <<"one_holder_key", IF Cardinality({x.responder : x \in AcceptedIn(f, keys)}) = 1 THEN "PASS" ELSE "FAIL">>,
   <<"definition", f.definition>>}

HistoryAccepted(f, keys) ==
  /\ \A x \in ToSet(f.exchanges) : AnswerAccepted(x, keys)
  /\ \A p \in HistoryProperties(f, keys) : p[2] = "PASS"
------------------------------------------------------------------------------
(* The Basic level.                                                        *)

signing_keys(f) == {x.responder : x \in {x \in ToSet(f.exchanges) : x.envelope}} \ {NoFile}

FailedStatuses(x, keys) ==
  {p \in StatusesOf(x, keys) : p[2] = "FAIL" /\ (p[1] # "responder_trust" \/ keys # {})}

(* Mutant of exchangeFindings: only what FAILs is a finding.               *)
exchangeFindingsFailed(x, keys) ==
  FailedStatuses(x, keys) \cup (IF x.envelope THEN {} ELSE {<<"reply", "not an envelope">>})

exchangeFindings(x, keys) ==
  FailedStatuses(x, keys) \cup
  (IF x.envelope THEN {} ELSE {<<"reply", "not an envelope">>}) \cup
  (IF keys # {} /\ x.envelope /\ ~AnswerAccepted(x, keys) /\ FailedStatuses(x, keys) = {}
   THEN {<<"answer", "not accepted">>} ELSE {})

historyEvaluate(f, keys) ==
  [accepted |-> HistoryAccepted(f, keys),
   findings |-> (UNION {exchangeFindings(x, keys) : x \in ToSet(f.exchanges)}) \cup
                (IF keys = {} THEN {} ELSE {p \in HistoryProperties(f, keys) : p[2] # "PASS"})]

(* HistoryVerdict: with no key given the keys the replies name are tried,  *)
(* to tell what is left; that no key is named is a finding.                *)
Evaluated(f, keys) ==
  CASE keys # {} -> historyEvaluate(f, keys)
    [] keys = {} /\ signing_keys(f) = {} ->
         LET r == historyEvaluate(f, {}) IN
         [accepted |-> FALSE, findings |-> r.findings \cup {<<"reply", "names no holder key">>}]
    [] OTHER -> [historyEvaluate(f, signing_keys(f)) EXCEPT !.accepted = FALSE]

(* verifyHistoryFile.                                                      *)
basicExit(f, keys) ==
  LET r == Evaluated(f, keys) IN
  [exit |-> CASE r.accepted -> "ok"
              [] ~r.accepted /\ keys = {} /\ r.findings = {} -> "partial"
              [] OTHER -> "failed",
   findings |-> r.findings]
------------------------------------------------------------------------------
(* The other instances; a reader accepts under the keys given only.        *)

notPassing(statuses) == {p \in statuses : p[2] # "PASS"}

OneAnswer(f) == f.exchanges[1]

verifyStandardHistory(f, keys) ==
  LET x == OneAnswer(f) IN
  IF ~x.envelope THEN [accepted |-> FALSE, reason |-> TRUE, findings |-> {}]
  ELSE LET findings ==
             {p \in StatusesOf(x, keys) : p[1] # "anchor_inclusion" /\ p[2] # "PASS"} \cup
             (IF x.inclusion = "NOT_CHECKED" THEN {} ELSE {<<"anchor_inclusion", "is not NOT_CHECKED">>}) \cup
             (IF f.definition = "PASS" THEN {} ELSE {<<"card", "not a standard card">>})
       IN [accepted |-> findings = {}, reason |-> FALSE, findings |-> findings]

verifyInferenceHistory(f, keys) ==
  LET x        == OneAnswer(f)
      accepted == AnswerAccepted(x, keys) /\ f.definition = "PASS"
      findings == notPassing(StatusesOf(x, keys)) \cup notPassing({<<"definition", f.definition>>})
  IN IF ~x.envelope THEN [accepted |-> FALSE, reason |-> TRUE, findings |-> {}]
     ELSE [accepted |-> accepted, reason |-> FALSE,
           findings |-> IF ~accepted /\ findings = {} THEN {<<"exchange", "not accepted">>} ELSE findings]

verifyOutcomeHistory(f, keys) ==
  [accepted |-> HistoryAccepted(f, keys), reason |-> FALSE,
   findings |->
     notPassing(UNION {StatusesOf(x, keys) : x \in ToSet(f.exchanges)}) \cup
     {<<"exchange", "not accepted">> : x \in {x \in ToSet(f.exchanges) : ~x.envelope}} \cup
     notPassing(HistoryProperties(f, keys))]

notEvaluable == [accepted |-> FALSE, reason |-> TRUE, findings |-> {}]

(* Mutant of otherExit: the reason is not one of the findings.             *)
otherExitBare(r) == [exit |-> IF r.accepted THEN "ok" ELSE "failed", findings |-> r.findings]

(* verifyOtherInstance: the failure line points at the findings.           *)
otherExit(r) ==
  [exit |-> IF r.accepted THEN "ok" ELSE "failed",
   findings |-> IF ~r.accepted /\ r.findings = {} /\ r.reason THEN {<<"reply", "reason">>} ELSE r.findings]

verifyOtherInstance(f, keys) ==
  CASE f.id \notin historyInstances -> otherExit(notEvaluable)
    [] f.id = Service  -> otherExit(verifyInferenceHistory(f, keys))
    [] f.id = Outcome  -> otherExit(verifyOutcomeHistory(f, keys))
    [] f.id = Standard -> otherExit(verifyStandardHistory(f, keys))
------------------------------------------------------------------------------
StapleFlags  == {"counterparty-key", "checkpoint-key", "also-served"}
ServiceFlags == {"log-key", "witness-key", "peer-key"}

(* A flag of the other kind of file is an input error (serviceFlagsFit).   *)
FlagsFit(f, keys, flags) ==
  /\ flags \cap StapleFlags # {} => f.id = Staple
  /\ f.id = Staple => keys = {}
  /\ flags \cap ServiceFlags # {} => f.id = Service
  /\ "outcome-policy" \in flags => f.id = Outcome

(* A file that names no instance is read as the Basic level.               *)
verifyHistoryFile(f, keys, flags) ==
  CASE ~FlagsFit(f, keys, flags) -> [exit |-> "input", findings |-> {}]
    [] FlagsFit(f, keys, flags) /\ f.id \in {Basic, Unnamed} -> basicExit(f, keys)
    [] FlagsFit(f, keys, flags) /\ f.id = Staple -> [exit |-> "staple", findings |-> {}]
    [] OTHER -> verifyOtherInstance(f, keys)
------------------------------------------------------------------------------
(* A file as its holder made it, and what may happen to it.                *)
HistoryInit ==
  /\ harm = 0
  /\ \E key \in HolderKeys, id \in historyInstances \cup {Unnamed, "another"} :
       history = [id |-> id, definition |-> "PASS",
                  exchanges |-> LET ds == SetToSeq(PickedDeals) IN [i \in DOMAIN ds |-> NewExchange(ds[i], key)]]
  /\ \E keys \in SUBSET HolderKeys,
        flags \in {{}, {"counterparty-key"}, {"log-key"}, {"outcome-policy"}} : given = [keys |-> keys, flags |-> flags]

HarmTo(f) ==
  /\ harm < MaxHarm /\ f # history
  /\ history' = f /\ harm' = harm + 1 /\ UNCHANGED given

HarmExchange ==
  history # NoFile /\ \E i \in DOMAIN history.exchanges :
    LET x == history.exchanges[i]
        Changed(y) == HarmTo([history EXCEPT !.exchanges[i] = y])
    IN \/ Changed([x EXCEPT !.envelope = FALSE])
       \/ Changed([x EXCEPT !.material = TRUE])
       \/ \E k \in HolderKeys \cup {NoFile} : Changed([x EXCEPT !.responder = k])
       \/ \E p \in MustPass, s \in EnvelopeStatuses : Changed([x EXCEPT !.statuses[p] = s])
       \/ \E s \in {"PASS", "FAIL"} : Changed([x EXCEPT !.inclusion = s])

ManyAnswers == {Basic, Unnamed, Outcome}

DropExchange ==
  history # NoFile /\ history.id \in ManyAnswers /\ \E i \in DOMAIN history.exchanges :
    HarmTo([history EXCEPT !.exchanges = RemoveAt(@, i)])

RepeatExchange ==
  /\ history # NoFile /\ history.id \in ManyAnswers
  /\ Len(history.exchanges) < MaxExchanges
  /\ \E i \in DOMAIN history.exchanges :
       HarmTo([history EXCEPT !.exchanges = Append(@, @[i])])

HarmDefinition == history # NoFile /\ HarmTo([history EXCEPT !.definition = "FAIL"])

HistoryNext == HarmExchange \/ DropExchange \/ RepeatExchange \/ HarmDefinition

HistorySpec == HistoryInit /\ [][HistoryNext]_historyVars
------------------------------------------------------------------------------
(* Exit 3 says that only a key is left to pin: pinning the keys the report *)
(* names, and nothing else, then accepts the file, and where pinning them  *)
(* would, the exit without a key is 3 and no failure (HistoryVerdict,      *)
(* cli/verify_history.go:108 "nothing failed").                            *)
KeyDecides ==
  history # NoFile /\ history.id \in {Basic, Unnamed} =>
    (basicExit(history, {}).exit = "partial" <=>
       signing_keys(history) # {} /\ basicExit(history, signing_keys(history)).exit = "ok")

(* A failure line points at findings, so a file that fails has some, and an*)
(* accepted one was accepted under keys the reader gave, never those it    *)
(* names (verifyOtherInstance, historyEvaluate).                           *)
FailureIsNamed ==
  history # NoFile =>
    LET r == verifyHistoryFile(history, given.keys, given.flags) IN
    /\ r.exit = "failed" => r.findings # {}
    /\ r.exit = "ok" => \E i \in DOMAIN history.exchanges : history.exchanges[i].responder \in given.keys
================================================================================
