----------------------------- MODULE BundleVerdict -----------------------------
(***************************************************************************)
(* The verdict of `verify --bundle` on an Evidence Bundle, and of a page   *)
(* that carries one (cli/verify_bundle.go, cli/composed.go,                *)
(* cli/page_gate.go, cli/bundle_witness.go, cli/deal_sealed_report.go): the*)
(* claims of the AAC verifier, which is outside this repository, the deal  *)
(* report a copy shows and what seals it, and the members of a composed/v1 *)
(* block with their responses and refusals.  A signature is known by the   *)
(* key that made it.                                                       *)
(***************************************************************************)
EXTENDS Naturals, Sequences, FiniteSets

CONSTANTS
  Parties,      \* keys of those who sign
  Reports,      \* report records a deal's log may hold
  MaxDamage,    \* parts of a bundle that are changed
  NoPart        \* a part a bundle does not have

ASSUME DamageAssumption == MaxDamage \in Nat /\ NoPart \notin Parties
ASSUME MadeAssumption == Parties # {} /\ Reports # {}

VARIABLES
  bundle,  \* the bundle as it is read
  origin,  \* how it was made
  damage

bundleVars == <<bundle, origin, damage>>

ClaimNames == {"graph_closure", "checkpoint", "interval_coverage", "membership", "signatures"}
Statuses == {"pass", "withheld", "fail"}

Producer == CHOOSE p \in Parties : TRUE
ThisDeal == "deal"
ThisCheckpoint == "checkpoint"

------------------------------------------------------------------------------
(* How a deal's copy carries the text of its report.                       *)

disclosed(deal) == {r \in deal.held : deal.shown[r] # "withheld"}
matched(deal) == {r \in deal.held : deal.shown[r] = "match"}

(* standaloneReportEntry: everything that ties the record beside the bundle*)
(* to this deal, this checkpoint and the one who made the last step.       *)
standaloneReportEntry(deal, x) ==
  IF /\ x.id = deal.pointer /\ x.isReport /\ ~x.extra
     /\ x.signer = x.keyID /\ x.keyID = deal.lastStepKey
     /\ x.input = x.sealed
     /\ x.deal = ThisDeal /\ x.forCopy
     /\ x.bound = ThisCheckpoint
     /\ deal.held = {}
     /\ x.asOfCheckpoint
  THEN "pass" ELSE "fail"

(* Mutant of DealReportEntry: text beside a report that is not disclosed.  *)
DealReportEntryLax(deal) ==
  CASE deal.standalone # NoPart ->
         IF deal.pointer = NoPart \/ deal.text # NoPart THEN "fail"
         ELSE standaloneReportEntry(deal, deal.standalone)
    [] deal.standalone = NoPart /\ deal.pointer # NoPart ->
         IF disclosed(deal) = {deal.pointer} /\ deal.pointer \in matched(deal) THEN "pass" ELSE "fail"
    [] deal.standalone = NoPart /\ deal.pointer = NoPart /\ deal.text = "history" /\ disclosed(deal) = {} -> "uninterpreted"
    [] OTHER -> IF disclosed(deal) # {} THEN "fail" ELSE "uninterpreted"

(* DealReportEntry: pass, fail or uninterpreted.                           *)
DealReportEntry(deal) ==
  CASE deal.standalone # NoPart ->
         IF deal.pointer = NoPart \/ deal.text # NoPart THEN "fail"
         ELSE standaloneReportEntry(deal, deal.standalone)
    [] deal.standalone = NoPart /\ deal.pointer # NoPart ->
         IF disclosed(deal) = {deal.pointer} /\ deal.pointer \in matched(deal) THEN "pass" ELSE "fail"
    [] deal.standalone = NoPart /\ deal.pointer = NoPart /\ deal.text = "history" /\ disclosed(deal) = {} -> "uninterpreted"
    [] OTHER ->
         CASE deal.held # {} -> "fail"
           [] deal.held = {} /\ deal.sale -> "uninterpreted"
           [] OTHER -> IF deal.text # NoPart /\ deal.steps THEN "fail" ELSE "uninterpreted"

(* DealSealedReport: the text a reader is shown.                           *)
DealSealedReport(deal) ==
  CASE deal.pointer = NoPart -> deal.text
    [] deal.pointer # NoPart /\ deal.standalone # NoPart ->
         IF deal.standalone.id = deal.pointer THEN deal.standalone.input ELSE NoPart
    [] OTHER ->
         CASE deal.pointer \notin disclosed(deal) -> NoPart
           [] deal.pointer \in matched(deal) -> deal.pointer
           [] OTHER -> "edited"
------------------------------------------------------------------------------
(* The members of a composed block.                                        *)

(* verifyRefusalSignature and verifyResponseSignature.                     *)
SignatureState(s) ==
  CASE s.key = NoPart /\ s.sig = NoPart -> "unverified"
    [] s.key # NoPart /\ s.sig = s.key -> "verified"
    [] OTHER -> "invalid"

(* The AAC verifier's own reading of the block: it fails on a signature    *)
(* that does not verify.                                                   *)
ComposedStatus(members) ==
  IF \E i \in DOMAIN members :
       \/ members[i].refusal # NoPart /\ SignatureState(members[i].refusal) = "invalid"
       \/ members[i].response # NoPart /\ SignatureState(members[i].response) = "invalid"
  THEN "fail" ELSE "pass"

(* claimsVerdict: INVALID if one fails, INCOMPLETE if one is not a pass; a *)
(* pass that carries findings counts as one withheld, and is one here.     *)
claimsVerdict(statuses) ==
  CASE "fail" \in statuses -> "INVALID"
    [] "fail" \notin statuses /\ statuses \subseteq {"pass"} -> "VALID"
    [] OTHER -> "INCOMPLETE"

verdictClaim(verdict) ==
  CASE verdict = "VALID" -> "pass" [] verdict = "INCOMPLETE" -> "withheld" [] OTHER -> "fail"

ClaimStatuses(b) == {b.claims[c] : c \in ClaimNames}

(* A member's own bundle, assessed as any other.                           *)
MemberVerdict(b) == IF b.identity THEN claimsVerdict(ClaimStatuses(b)) ELSE "INVALID"

responseFailure(m) ==
  /\ m.response # NoPart
  /\ \/ m.response.key # NoPart /\ m.response.key # m.observer
     \/ m.response.key # NoPart /\ m.response.interop /\ ~m.response.anchored

(* Mutant of ServedAnswer: whoever signed the refusal.                     *)
ServedByAnyone(m) == m.refusal # NoPart /\ SignatureState(m.refusal) = "verified"

(* A refusal that its observer signed is the observer's answer.            *)
ServedAnswer(m) ==
  m.refusal # NoPart /\ SignatureState(m.refusal) = "verified" /\ m.refusal.key = m.observer

(* composedOutput: what a member adds to the claims, its served answer set *)
(* apart.                                                                  *)
MemberClaims(m) ==
  (IF m.bundle # NoPart THEN {verdictClaim(MemberVerdict(m.bundle))} ELSE {}) \cup
  (IF responseFailure(m) THEN {"fail"} ELSE {}) \cup
  (IF m.refusal = NoPart \/ ServedAnswer(m) THEN {}
   ELSE IF SignatureState(m.refusal) = "verified" THEN {"fail"} ELSE {"withheld"})

composedOutput(members) ==
  {ComposedStatus(members)} \cup UNION {MemberClaims(members[i]) : i \in DOMAIN members}
------------------------------------------------------------------------------
(* The bundle.                                                             *)

(* A cadence chain's claim stands in for the receipts on the checkpoint.   *)
witnesses(b) == IF b.cadence # NoPart THEN b.cadence ELSE b.witness

DisclosuresOK(b) == \A r \in b.deal.held : b.deal.shown[r] # "mismatch"

(* The claims other than served refusals (assessBundle).                   *)
PageClaims(b) ==
  ClaimStatuses(b) \cup
  ({witnesses(b), b.coverage, DealReportEntry(b.deal)} \cap {"fail"}) \cup
  (IF b.deal.sale THEN {b.deal.saleEntry} ELSE {}) \cup ({b.selection} \ {NoPart}) \cup
  (IF b.members = <<>> THEN {} ELSE composedOutput(b.members))

servedRefusals(b) == {i \in DOMAIN b.members : ServedAnswer(b.members[i])}

Sound(b) == b.identity /\ DisclosuresOK(b)

pageVerdict(b) == IF Sound(b) THEN claimsVerdict(PageClaims(b)) ELSE "INVALID"

Verdict(b) ==
  IF Sound(b) THEN claimsVerdict(PageClaims(b) \cup {"withheld" : i \in servedRefusals(b)}) ELSE "INVALID"

(* PageGate: a page of a bundle that checks out and whose rows it shows.   *)
PageGate(b) == pageVerdict(b) = "VALID" /\ b.rowsShown
------------------------------------------------------------------------------
(* Bundles as they are made, and what may happen to them.                  *)

NoDeal == [pointer |-> NoPart, text |-> NoPart, standalone |-> NoPart, held |-> {},
           shown |-> [r \in {} |-> ""], steps |-> FALSE, lastStepKey |-> NoPart, sale |-> FALSE, saleEntry |-> "fail"]

PlainBundle ==
  [claims |-> [c \in ClaimNames |-> "pass"], identity |-> TRUE, witness |-> "not_shown", cadence |-> NoPart,
   coverage |-> "pass", deal |-> NoDeal, selection |-> NoPart, members |-> <<>>, rowsShown |-> TRUE]

DealCopy(form) ==
  LET r == CHOOSE r \in Reports : TRUE
      book == [NoDeal EXCEPT !.steps = TRUE, !.lastStepKey = Producer]
  IN CASE form = "in_log" ->
            [book EXCEPT !.pointer = r, !.held = Reports,
                         !.shown = [s \in Reports |-> IF s = r THEN "match" ELSE "withheld"]]
       [] form = "standalone" ->
            [book EXCEPT !.pointer = r,
               !.standalone = [id |-> r, isReport |-> TRUE, extra |-> FALSE, signer |-> Producer, keyID |-> Producer,
                               input |-> r, sealed |-> r, deal |-> ThisDeal, forCopy |-> TRUE,
                               bound |-> ThisCheckpoint, asOfCheckpoint |-> TRUE]]
       [] form = "history" -> [book EXCEPT !.text = "history"]
       [] OTHER -> [NoDeal EXCEPT !.text = "as made"]

NewMember(p) ==
  [observer |-> p, bundle |-> [claims |-> [c \in ClaimNames |-> "pass"], identity |-> TRUE],
   response |-> [key |-> p, sig |-> p, interop |-> TRUE, anchored |-> TRUE], refusal |-> NoPart]

Refuser(p) == [observer |-> p, bundle |-> NoPart, response |-> NoPart, refusal |-> [key |-> p, sig |-> p]]

BundleInit ==
  /\ damage = 0
  /\ origin \in {"in_log", "standalone", "history", "inline", "composed"}
  /\ IF origin = "composed"
     THEN \E p, q \in Parties, ms \in {1, 2} :
            bundle = [PlainBundle EXCEPT !.members = IF ms = 1 THEN <<NewMember(p)>> ELSE <<NewMember(p), Refuser(q)>>]
     ELSE bundle = [PlainBundle EXCEPT !.deal = DealCopy(origin), !.cadence = "pass"]

DamageTo(b) ==
  /\ bundle # NoPart /\ damage < MaxDamage
  /\ b # bundle /\ bundle' = b
  /\ damage' = damage + 1 /\ UNCHANGED origin

(* A record or a proof is left out or does not verify; the bundle says it  *)
(* is a History, whose selection and deals verify or not (historyEntry).   *)
DamageClaim ==
  bundle # NoPart /\
  \/ \E c \in ClaimNames, s \in Statuses : DamageTo([bundle EXCEPT !.claims[c] = s])
  \/ DamageTo([bundle EXCEPT !.identity = FALSE])
  \/ \E s \in {"fail", "pass"} : DamageTo([bundle EXCEPT !.witness = s])
  \/ \E s \in {"fail", "withheld", "not_shown", NoPart} : DamageTo([bundle EXCEPT !.cadence = s])
  \/ DamageTo([bundle EXCEPT !.coverage = "fail"])
  \/ \E s \in {"pass", "not_shown", "fail"} : DamageTo([bundle EXCEPT !.selection = s])
  \/ DamageTo([bundle EXCEPT !.rowsShown = FALSE])

(* The section and the extension of a copy may be rewritten; its records   *)
(* may not, without a claim that fails.                                    *)
RewriteReport ==
  bundle # NoPart /\ origin # "composed" /\
  \/ \E t \in {NoPart, "edited", "history"} : DamageTo([bundle EXCEPT !.deal.text = t])
  \/ \E p \in Reports \cup {NoPart, "another"} : DamageTo([bundle EXCEPT !.deal.pointer = p])
  \/ \E p \in Reports \cup {NoPart}, t \in {"edited"} :
       DamageTo([bundle EXCEPT !.deal.text = t, !.deal.pointer = NoPart, !.deal.standalone = NoPart])
  \/ \E r \in bundle.deal.held, s \in {"match", "mismatch", "withheld"} : DamageTo([bundle EXCEPT !.deal.shown[r] = s])
  \/ DamageTo([bundle EXCEPT !.deal.sale = TRUE])
  \/ DamageTo([bundle EXCEPT !.deal.standalone = NoPart])

(* A standalone report of an earlier checkpoint, of another deal, or one   *)
(* somebody made.                                                          *)
ReplaceStandalone ==
  bundle # NoPart /\ bundle.deal.standalone # NoPart /\
  LET x == bundle.deal.standalone IN
  \E y \in {[x EXCEPT !.input = "edited"], [x EXCEPT !.input = "edited", !.sealed = "edited", !.signer = NoPart],
            [x EXCEPT !.extra = TRUE], [x EXCEPT !.isReport = FALSE], [x EXCEPT !.forCopy = FALSE],
            [x EXCEPT !.asOfCheckpoint = FALSE],
            [x EXCEPT !.input = "earlier", !.sealed = "earlier", !.bound = "earlier checkpoint"],
            [x EXCEPT !.input = "another's", !.sealed = "another's", !.deal = "another deal"]} \cup
           {[x EXCEPT !.input = "edited", !.sealed = "edited", !.signer = p, !.keyID = p] :
              p \in Parties \ {Producer}} \cup
           {[x EXCEPT !.keyID = p] : p \in Parties} \cup {[x EXCEPT !.id = "another"]} :
    DamageTo([bundle EXCEPT !.deal.standalone = y])

DamageMember ==
  bundle # NoPart /\ \E i \in DOMAIN bundle.members :
    LET m == bundle.members[i] IN
    \/ m.bundle # NoPart /\ \E c \in ClaimNames, s \in Statuses :
         DamageTo([bundle EXCEPT !.members[i].bundle.claims[c] = s])
    \/ m.bundle # NoPart /\ DamageTo([bundle EXCEPT !.members[i].bundle.identity = FALSE])
    \/ \E p \in Parties : DamageTo([bundle EXCEPT !.members[i].observer = p])
    \/ m.response # NoPart /\ \E k, s \in Parties \cup {NoPart} :
         DamageTo([bundle EXCEPT !.members[i].response.key = k, !.members[i].response.sig = s])
    \/ m.response # NoPart /\ DamageTo([bundle EXCEPT !.members[i].response.anchored = FALSE])
    \/ m.refusal # NoPart /\ \E k, s \in Parties \cup {NoPart} :
         DamageTo([bundle EXCEPT !.members[i].refusal.key = k, !.members[i].refusal.sig = s])

BundleNext == DamageClaim \/ RewriteReport \/ ReplaceStandalone \/ DamageMember

BundleSpec == BundleInit /\ [][BundleNext]_bundleVars
------------------------------------------------------------------------------
(* The text a copy shows under a verdict that does not reject it is what   *)
(* was sealed: a report the deal's log holds or its producer signed for    *)
(* this checkpoint.  Only a copy that was made before reports were sealed  *)
(* shows other text, and it is said to be unbound (DealReportEntry with    *)
(* DealSealedReport, which a page reads).                                  *)
TextIsSealed ==
  bundle # NoPart =>
    (Verdict(bundle) # "INVALID" /\ DealSealedReport(bundle.deal) \notin {NoPart, "history"} =>
       \/ DealSealedReport(bundle.deal) \in Reports /\ origin \in {"in_log", "standalone"}
       \/ origin = "inline" /\ DealReportEntry(bundle.deal) = "uninterpreted")

(* A page is drawn for no more than the verdict allows: of a bundle with a *)
(* defect anywhere, in a member's own bundle or in the deals a History     *)
(* selects too, none; and where the file is INCOMPLETE all the same, only  *)
(* answers that its observers signed keep it from VALID (bundleAssessment, *)
(* composedOutput, PageGate).                                              *)
PageClaimsNoMore ==
  bundle # NoPart /\ PageGate(bundle) =>
    /\ Verdict(bundle) = IF \E i \in DOMAIN bundle.members : bundle.members[i].refusal # NoPart
                         THEN "INCOMPLETE" ELSE "VALID"
    /\ bundle.selection \in {NoPart, "pass"}
    /\ \A i \in DOMAIN bundle.members :
         LET m == bundle.members[i] IN
         /\ m.refusal # NoPart => m.refusal.key = m.observer /\ m.refusal.sig = m.observer
         /\ m.response # NoPart => m.response.key \in {NoPart, m.observer} /\ m.response.sig = m.response.key
         /\ m.bundle # NoPart => m.bundle.identity /\ \A c \in ClaimNames : m.bundle.claims[c] = "pass"
================================================================================
