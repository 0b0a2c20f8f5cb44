------------------------------ MODULE Settlement ------------------------------
(***************************************************************************)
(* Settlement legs (settlement/build.go, settlement/verify.go and          *)
(* cli/settlement.go).  The AAC verifier names a record by its capsule id; *)
(* several legs may carry one: copies, copies under another key and broken *)
(* ones.  Verify says of each leg by its label what is its own, and what   *)
(* the legs are evidence of together.  A finding about one record is mapped*)
(* as a failure is, so one kind of code stands for both; of the codes about*)
(* several legs the model has the one for an observation of either side    *)
(* under one key, and not that of a routing fee in another asset.          *)
(***************************************************************************)
EXTENDS Naturals, Sequences, FiniteSets, FiniteSetsExt

CONSTANTS
  SealerKeys,
  Receipts,      \* x402 receipts the payee may build its leg from
  MaxLegs,
  NoLeg          \* no leg, no key, no policy

ASSUME SettlementAssumption == MaxLegs \in Nat

VARIABLES
  legs,      \* the leg files given, by label
  pool,      \* the contents that exist
  policy     \* whether the verifier holds keys for the roles

settlementVars == <<legs, pool, policy>>

Content(name, leg, role, ref) ==
  [name |-> name, leg |-> leg, role |-> role, ref |-> ref, value |-> "5", malformed |-> FALSE,
   direction |-> NoLeg, proof |-> FALSE]

(* Amounts are whole numbers in the asset's units; a fee only where the    *)
(* scheme may take one; and no account identifier in clear.                *)
AmountForm(value) == value \in {"0", "1", "5", "6"}

Scale(r) ==
  CASE r.known # NoLeg -> IF r.given \in {NoLeg, r.known} THEN r.known ELSE NoLeg
    [] r.known = NoLeg -> r.given

FeeOf(r) ==
  CASE r.fee = NoLeg /\ r.scheme = "exact" -> "0"
    [] r.fee # NoLeg /\ (r.scheme # "exact" \/ r.fee = "0") -> r.fee
    [] OTHER -> "refused"

NeverEnters(values, accounts) == values \cap accounts = {}

PayeeObservedX402(r) ==
  IF /\ r.sameNetwork /\ r.transaction # "" /\ AmountForm(r.amount)
     /\ Scale(r) # NoLeg /\ AmountForm(FeeOf(r))
     /\ NeverEnters({r.transaction, r.observedAt}, {r.payTo, r.payer})
  THEN {[Content("payee", "payee_observed", "payee", "terms") EXCEPT !.value = r.amount]}
  ELSE {}

DeliveredSent(proof) ==
  [Content("sent", "delivered", "payee", "terms") EXCEPT !.direction = "sent", !.proof = proof]

SettlementInit ==
  /\ legs = <<>> /\ policy \in BOOLEAN
  /\ \E r \in Receipts :
       pool = {Content("terms", "terms", "payee", NoLeg), Content("payer", "payer_observed", "payer", "terms"),
               DeliveredSent(TRUE),
               [Content("received", "delivered", "payer", "terms") EXCEPT !.direction = "received"],
               [Content("stray", "delivered", "payer", "elsewhere") EXCEPT !.direction = "received"],
               [Content("bad", "payer_observed", "payer", "terms") EXCEPT !.malformed = TRUE]} \cup
              PayeeObservedX402(r)

(* A leg file: a content under the id it claims, sealed by a key or with   *)
(* an envelope that does not verify.                                       *)
Claimed(c) ==
  CASE c.name = "stray" -> {"received"} [] c.name = "bad" -> {"payer"} [] c.name = "received" -> {"stray"} [] OTHER -> {}

GiveLeg ==
  /\ Len(legs) < MaxLegs
  /\ \E c \in pool, key \in SealerKeys \cup {NoLeg} : \E id \in {c.name} \cup Claimed(c) :
       legs' = Append(legs, [content |-> c, id |-> id, key |-> key])
  /\ UNCHANGED <<pool, policy>>

SettlementNext == GiveLeg

SettlementSpec == SettlementInit /\ [][SettlementNext]_settlementVars
------------------------------------------------------------------------------
(* The AAC verifier.                                                       *)

Accepts(role, key) == policy => key = IF role = "payer" THEN "kpayer" ELSE "kpayee"

(* What is wrong with a leg by itself.                                     *)
OwnCodes(l) ==
  (IF l.id # l.content.name THEN {"capsule_id_mismatch"} ELSE {}) \cup
  (IF l.key = NoLeg THEN {"envelope_invalid"} ELSE {}) \cup
  (IF l.content.malformed THEN {"settlement_malformed"} ELSE {}) \cup
  (IF l.id = l.content.name /\ l.key # NoLeg /\ ~Accepts(l.content.role, l.key)
   THEN {"sealer_not_authorized_for_role"} ELSE {})

authenticated(l) == l.id = l.content.name /\ l.key # NoLeg

(* Mutant of live: any leg with an id takes part.                          *)
liveAny(l) == TRUE

live(l) == OwnCodes(l) = {}

LiveTerms == {legs[i].id : i \in {i \in DOMAIN legs : OwnCodes(legs[i]) = {} /\ legs[i].content.leg = "terms"}}

unresolved(l) == OwnCodes(l) = {} /\ l.content.leg # "terms" /\ l.content.ref \notin LiveTerms

CodesOf(l) == OwnCodes(l) \cup (IF unresolved(l) THEN {"terms_ref_unresolved"} ELSE {})

(* A copy under a key already seen is not read again; an unauthenticated   *)
(* record repeats no code.                                                 *)
ReadAgain(i, code) ==
  \E j \in 1..(i - 1) :
    /\ legs[j].id = legs[i].id
    /\ authenticated(legs[j]) <=> authenticated(legs[i])
    /\ authenticated(legs[i]) => legs[j].key = legs[i].key
    /\ ~authenticated(legs[i]) => code \in CodesOf(legs[j])

(* The verifier's entries: an id and a code each.  The leg an entry is     *)
(* about is its place among the entries, and is not in it.                 *)
Entries ==
  UNION {{[leg |-> i, id |-> legs[i].id, code |-> c] : c \in {c \in CodesOf(legs[i]) : ~ReadAgain(i, c)}} :
           i \in DOMAIN legs}

(* Two observations, one of either side, under one key: the verifier names *)
(* the ids, of well-formed records alone.                                  *)
Conflating(i, j) ==
  /\ authenticated(legs[i]) /\ authenticated(legs[j]) /\ legs[i].key = legs[j].key
  /\ legs[i].content.leg = "payer_observed" /\ legs[j].content.leg = "payee_observed"

Conflations ==
  LET Observed(i) == ~legs[i].content.malformed IN
  UNION {{<<legs[i].id, legs[j].id>> :
            j \in {k \in DOMAIN legs : Conflating(i, k) /\ Observed(i) /\ Observed(k)}} : i \in DOMAIN legs}
------------------------------------------------------------------------------
(* The answer by label (reports).                                          *)

OwnLegs(e) == {i \in DOMAIN legs : legs[i].id = e.id /\ e.code \in CodesOf(legs[i])}

SameRecord(i, j) ==
  \/ ~authenticated(legs[i]) /\ ~authenticated(legs[j])
  \/ authenticated(legs[i]) /\ authenticated(legs[j]) /\ legs[i].key = legs[j].key

(* Mutant of byRecord: every leg is a record.                              *)
byRecordSingly(own) == {{i} : i \in own}

byRecord(own) == {{j \in own : SameRecord(i, j)} : i \in own}

(* How many of the groups come before one, in order of first appearance.   *)
Before(g, groups) == Cardinality({h \in groups : Min(h) < Min(g)})

Alike(e) == {f \in Entries : f.id = e.id /\ f.code = e.code}

(* The n-th entry of an id and code names the n-th record's legs, and the  *)
(* last one whatever is left.                                              *)
ReportOf(e) ==
  LET used   == Cardinality({f \in Alike(e) : f.leg < e.leg})
      groups == byRecord(OwnLegs(e))
      at     == IF used < Cardinality(groups) THEN used ELSE Cardinality(groups) - 1
      last   == used + 1 = Cardinality(Alike(e))
  IN [entry |-> e, code |-> e.code,
      records |-> UNION {g \in groups : Before(g, groups) = at \/ (last /\ Before(g, groups) > at)}]

(* What an entry about several legs says of one id: its live legs, or all. *)
together(id) ==
  LET all == {i \in DOMAIN legs : legs[i].id = id} IN
  IF \E i \in all : live(legs[i]) THEN {i \in all : live(legs[i])} ELSE all

(* The legs of the two ids that share a key, whatever else bears the ids.  *)
conflated(payer, payee) ==
  LET shared == {i \in DOMAIN legs : \E j \in DOMAIN legs :
                   \/ Conflating(i, j) /\ legs[i].id = payer /\ legs[j].id = payee
                   \/ Conflating(j, i) /\ legs[j].id = payer /\ legs[i].id = payee}
  IN IF shared = {} THEN together(payer) \cup together(payee) ELSE shared

reports ==
  {ReportOf(e) : e \in Entries} \cup
  {[entry |-> [ids |-> c], code |-> "sealer_conflation", records |-> conflated(c[1], c[2])] : c \in Conflations}
------------------------------------------------------------------------------
(* The settlement of the terms.                                            *)

LegsOf(kind) ==
  {i \in DOMAIN legs : live(legs[i]) /\ legs[i].content.leg = kind /\ legs[i].content.ref = "terms"}

Joined == {p \in LegsOf("payer_observed") \X LegsOf("payee_observed") : legs[p[1]].key # legs[p[2]].key}

(* A pair of one key is no agreement of two sides: it is not joined.       *)
paymentState ==
  LET payer == LegsOf("payer_observed")  payee == LegsOf("payee_observed") IN
  CASE payer = {} /\ payee = {} -> "terms_only"
    [] payer # {} /\ payee = {} -> "payer_stated"
    [] payer = {} /\ payee # {} -> "payee_stated"
    [] payer # {} /\ payee # {} /\ Joined = {} -> "unjoined"
    [] OTHER -> IF \A p \in Joined : legs[p[1]].content.value = legs[p[2]].content.value THEN "agreed" ELSE "mismatch"

deliveryEvidence ==
  {CASE legs[i].content.direction = "sent" -> "seller_handoff" [] OTHER -> "buyer_receipt" : i \in LegsOf("delivered")} \cup
  {"carrier_confirmation" : i \in {i \in LegsOf("delivered") : legs[i].content.proof}}

settlements ==
  IF "terms" \in LiveTerms THEN {[payment |-> paymentState, evidence |-> deliveryEvidence]} ELSE {}

(* The line for the payments: the worst state any of them is in.           *)
settlementKey ==
  CASE settlements = {} -> "terms_only"
    [] settlements # {} /\ \E s \in settlements : s.payment \in {"payer_stated", "payee_stated"} -> "one_side"
    [] OTHER -> (CHOOSE s \in settlements : TRUE).payment

------------------------------------------------------------------------------
(* Each leg answers for itself: a code is reported of exactly the legs that*)
(* have it, each once, and one report names one record; a broken copy      *)
(* blames no sound one of the same id.  One about both sides names every   *)
(* observation there is of its key, and no altered or re-signed copy that  *)
(* only bears an id of theirs (reports, byRecord, newLegView, conflated).  *)
EachLegAnswers ==
  LET told == reports IN
  /\ \A i \in DOMAIN legs : \A c \in CodesOf(legs[i]) :
       Cardinality({f \in told : f.code = c /\ i \in f.records}) = 1
  /\ \A f \in told : \A i \in f.records :
       IF f.code = "sealer_conflation"
       THEN /\ legs[i].id = legs[i].content.name /\ legs[i].key # NoLeg
            /\ \E j \in f.records : Conflating(i, j) \/ Conflating(j, i)
       ELSE f.code \in CodesOf(legs[i]) /\ \A j \in f.records : SameRecord(i, j)
  /\ \A i, j \in DOMAIN legs :
       Conflating(i, j) /\ ~legs[i].content.malformed /\ ~legs[j].content.malformed =>
         \E f \in told : f.code = "sealer_conflation" /\ i \in f.records /\ j \in f.records

(* What a settlement says it rests on is in a leg that verified under a key*)
(* accepted for its side and answers these terms: a broken or a re-signed  *)
(* copy adds no evidence, and an agreement has two keys (Verify,           *)
(* deliveryEvidence, settlementKey).                                       *)
EvidenceIsLive ==
  LET sound(i) == /\ legs[i].key # NoLeg /\ legs[i].id = legs[i].content.name /\ ~legs[i].content.malformed
                  /\ legs[i].content.ref = "terms" /\ Accepts(legs[i].content.role, legs[i].key)
  IN \A s \in settlements :
       /\ "buyer_receipt" \in s.evidence =>
            \E i \in DOMAIN legs : sound(i) /\ legs[i].content.name = "received"
       /\ "seller_handoff" \in s.evidence => \E i \in DOMAIN legs : sound(i) /\ legs[i].content.name = "sent"
       /\ "carrier_confirmation" \in s.evidence => \E i \in DOMAIN legs : sound(i) /\ legs[i].content.proof
       /\ settlementKey = "agreed" =>
            \E i, j \in DOMAIN legs :
              /\ sound(i) /\ sound(j) /\ legs[i].key # legs[j].key
              /\ legs[i].content.leg = "payer_observed" /\ legs[j].content.leg = "payee_observed"
              /\ legs[i].content.value = legs[j].content.value
================================================================================
