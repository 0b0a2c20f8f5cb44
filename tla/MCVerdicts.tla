------------------------------ MODULE MCVerdicts ------------------------------
(* One run over the verbs that judge what they are given: an initial state *)
(* is of one verb, `verb`, over a file it is tried on; only its module     *)
(* steps, and the variables of the others stay as they are.                *)
EXTENDS CommitmentFind, HistoryVerdict, BundleVerdict, SaleBundle, CadenceChain, Countersign, Settlement,
        ContractDiff, JudgeReports, PolicyPins

VARIABLE verb

------------------------------------------------------------------------------
(* commitment find: a node's commitments, an earlier and a later one, one  *)
(* of the same date, one dated ahead, one that breaks a rule, and another's.*)
MCContents == {<<1>>, <<1,1>>, <<2,1>>}

St(c, p) == [readable |-> TRUE, key |-> "k1", log |-> "l1", content |-> c, previous |-> p, proved |-> TRUE]
Short  == <<St(<<1>>, <<1>>)>>
Long   == <<St(<<1>>, <<1>>), St(<<1,1>>, <<1>>)>>
Forked == <<St(<<2,1>>, <<2,1>>)>>

CardOf(key, line) ==
  [envelope |-> TRUE, signed |-> TRUE, responder |-> key, form |-> TRUE, inScope |-> TRUE,
   answers |-> "r1", anchor |-> Last(line), stream |-> "s1", chain |-> line]
Doc(id, key, node, issued, card, breaks) ==
  [octets |-> id, node |-> node, issued |-> issued, breaks |-> breaks, ask |-> TRUE,
   key |-> key, signed |-> TRUE, anchored |-> TRUE, anchor |-> card.anchor, single |-> FALSE,
   staples |-> <<[label |-> card.stream, derivation |-> "history_card/1", digest |-> TRUE, card |-> card]>>]
Old    == Doc("old", "k1", "n1", 1, CardOf("k1", Short), {})
New    == Doc("new", "k1", "n1", 2, CardOf("k1", Long), {})
Tie    == Doc("tie", "k1", "n1", 2, CardOf("k1", Forked), {})
Ahead  == Doc("future", "k1", "n1", 4, CardOf("k1", Long), {})
Other  == Doc("other", "k2", "n1", 3, CardOf("k2", Forked), {})
Second == Doc("second", "k1", "n2", 1, CardOf("k2", Long), {})
Bad    == Doc("bad", "k1", "n1", 3, CardOf("k1", Long), {"commitment_signature"})
MCCommitments == {Old, New, Tie, Ahead, Other, Second, Bad}

Holding(doc, inline, formed) == [octets |-> doc, inline |-> inline, formed |-> formed, naddr |-> Nothing]
Naddr(relays) == [octets |-> Nothing, inline |-> FALSE, formed |-> TRUE,
                  naddr |-> [relays |-> relays, author |-> "k1", node |-> "n1"]]
Event(id, genuine, author, created, entry) ==
  [id |-> id, genuine |-> genuine, author |-> author, node |-> "n1", created |-> created, entry |-> entry]
E1 == Event(1, TRUE, "k1", 1, Holding(Old, TRUE, TRUE))
E2 == Event(2, TRUE, "k1", 2, Holding(New, FALSE, TRUE))
F1 == Event(1, FALSE, "k1", 1, Holding(Old, TRUE, TRUE))
E3 == Event(3, TRUE, "k2", 3, Holding(Other, TRUE, TRUE))
E4 == Event(4, TRUE, "k1", 3, Holding(Tie, TRUE, FALSE))
MCEvents == {E1, E2, F1, E3, E4}
MCRelayHolds == [relay \in {"a", "b"} |-> IF relay = "a" THEN <<F1, E2, E3>> ELSE <<E1, E4>>]

Ref(carrier, holds) == [carrier |-> carrier, entries |-> holds, spoiled |-> FALSE, relays |-> <<>>, octets |-> Nothing]
FileOf(doc) == [Ref("file", <<>>) EXCEPT !.octets = doc]
Given ==
  {Ref("directory", <<Holding(Old, FALSE, TRUE), Holding(Bad, FALSE, TRUE), Holding(New, FALSE, TRUE)>>),
   Ref("directory", <<Naddr(<<"a", "b">>), Holding(Second, FALSE, TRUE)>>),
   Ref("a2a", <<Holding(Tie, FALSE, TRUE), Holding(Tie, FALSE, FALSE)>>),
   [Ref("a2a", <<Holding(Tie, FALSE, TRUE)>>) EXCEPT !.spoiled = TRUE],
   [Ref("nostr", <<>>) EXCEPT !.relays = <<"a", "b">>],
   FileOf(Ahead), FileOf(Other), FileOf(New)}
MCReferences == {<<x>> : x \in Given} \cup {<<x, y>> : x, y \in Given}

Asking(nodeKey, node, logKeys, pinning, refuse, offline) ==
  [nodeKey |-> nodeKey, node |-> node, logKeys |-> logKeys, pinning |-> pinning, receipts |-> TRUE,
   pins |-> [s \in {"s1", "s2"} |-> IF s = "s1" THEN [log |-> "l1", content |-> <<1>>] ELSE Nothing],
   refuseUnwitnessed |-> refuse, offline |-> offline]
MCAskers ==
  {Asking("nokey", Nothing, {"k1"}, FALSE, FALSE, TRUE),
   Asking("k1", Nothing, {"k1"}, TRUE, FALSE, TRUE),
   Asking("k1", "n1", {}, FALSE, FALSE, FALSE),
   Asking("k1", "n1", {"k1"}, FALSE, TRUE, TRUE),
   Asking("k2", "n1", {"k1"}, FALSE, FALSE, TRUE)}
MCReplies == {CardOf("k1", Long), CardOf("k1", Forked), [CardOf("k1", Long) EXCEPT !.signed = FALSE]}
MCWitnessed == {Last(Long)}

------------------------------------------------------------------------------
(* settlement verify: a receipt for 5, one for 6, and one whose transaction *)
(* is an account; contract diff: a month, 30 days, a month and 5 days.      *)
Receipt == [sameNetwork |-> TRUE, transaction |-> "tx", scheme |-> "exact", known |-> "6", given |-> NoLeg,
            fee |-> NoLeg, amount |-> "5", payTo |-> "payto", payer |-> "account", observedAt |-> "now"]
MCReceipts == {Receipt, [Receipt EXCEPT !.amount = "6"], [Receipt EXCEPT !.transaction = "account"]}

Duration(m, d) == [months |-> m, days |-> d]
MCDurations == {Duration(1, 0), Duration(0, 30), Duration(1, 5), Duration(0, 0)}
Window(duration, cure, grace, other) == [duration |-> duration, cure |-> cure, grace |-> grace, other |-> other]
MCWindows ==
  {Window(d, Missing, g, Missing) : d \in {Missing, Duration(1, 0), Duration(0, 30)}, g \in {Missing, Duration(0, 30)}} \cup
  {Window(Duration(1, 0), c, Missing, Missing) : c \in {Duration(0, 0), Duration(0, 30)}} \cup
  {Window(Duration(0, 30), Missing, Duration(1, 0), Missing), Window(Duration(1, 0), Missing, Missing, "said")}
MCStepLists == {<<>>} \cup {<<x>> : x \in Members} \cup {<<x, y>> : x, y \in Members}
MCAges == {0, 1} \cup 27..37 \cup 57..62
MCShapes == {<<"", "deterministic">>, <<"outcome", "judged">>, <<"process", "judged">>, <<"another", "deterministic">>}

(* profile update and check: predicates over two picks, one malformed; pin *)
(* files with a pack for a role, a role's own ruleset, and no default.     *)
Pick(name, value) == [prefix |-> "conditions", name |-> name, value |-> value, words |-> {name}]
MCAttributes == {Pick("size", "large"), Pick("size", "any"), Pick("colour", "red")}
Matching(name, words, except) == [prefix |-> "conditions", name |-> name, words |-> words, except |-> except]
Predicate(matchers) == [form |-> TRUE, material |-> matchers]
MCPredicates ==
  {Predicate(<<Matching(None, {"size"}, {"any"})>>), Predicate(<<Matching("colour", {}, {})>>),
   Predicate(<<Matching("size", {"size"}, {})>>)}
Role(pack, digests) == [pack |-> pack, digests |-> digests]
PinFile(digests, roles) == [formed |-> TRUE, digests |-> digests, roles |-> roles]
MCPinFiles ==
  {PinFile({"s1"}, [r \in {"buyer"} |-> Role("pack", {})]), PinFile({}, [r \in {"buyer"} |-> Role("pack", {"s2"})]),
   PinFile({"s1"}, [r \in {"buyer", "seller"} |-> Role(None, {"s2"})]), PinFile({}, [r \in {} |-> Role(None, {})]),
   PinFile({"s1", "s2"}, [r \in {"broker"} |-> Role("pack", {})])}

(* settlement verify: a report looks at the order of the legs only among   *)
(* those with one id, so the ids come in one order; and legs without one   *)
(* of the payee's are given in one of the pools.                           *)
IdRank == <<"payee", "terms", "payer", "sent", "received", "stray", "bad">>
RankOf(id) == CHOOSE n \in DOMAIN IdRank : IdRank[n] = id
LegsInOrder ==
  /\ \A i \in 2..Len(legs) : RankOf(legs[i - 1].id) <= RankOf(legs[i].id)
  /\ legs # <<>> /\ legs[1].id # "payee" => PayeeObservedX402(Receipt) \subseteq pool

(* deal cadence: of each tree and its mirror image, one, and of the deals  *)
(* the one that goes on first.                                             *)
OneOfTwoTrees ==
  /\ \A k \in DOMAIN ticks : ticks[k].slot["d1"] < 2
  /\ sizes # <<>> => sizes["d1"] >= sizes["d2"]

(* deal sale: the thread that is registered first.  judge: what the first  *)
(* report names.  contract diff: labels are looked at for being the same.  *)
FirstThread ==
  sale # NoSale /\ Registered(sale.log) # <<>> => Registered(sale.log)[1] = CHOOSE t \in Threads : TRUE
FirstReport ==
  evaluations # <<>> => evaluations[1] \in [case : {"c1", Blank}, pin : {"p1", Blank}, verdict : {"v1"}]
TwoVersions == contractB # Missing => contractB.version <= 2

------------------------------------------------------------------------------
verbs == {"find", "staple", "history", "bundle", "sale", "cadence", "countersign", "settlement", "diff", "judge", "policy"}

NoFind ==
  /\ asker = Nothing /\ refs = <<>> /\ queue = {} /\ fetched = 0 /\ row = FALSE /\ reading = FALSE
  /\ docs = <<>> /\ reads = <<>> /\ failures = FALSE /\ report = Nothing /\ handed = {} /\ unread = FALSE

Either(v, init, idle) == IF verb = v THEN init ELSE idle

Init ==
  /\ verb \in verbs
  /\ Either("find", FindInit, NoFind)
  /\ Either("staple", StapledInit, stapled = Nothing /\ changes = 0)
  /\ Either("history", HistoryInit, history = NoFile /\ given = NoFile /\ harm = 0)
  /\ Either("bundle", BundleInit, bundle = NoPart /\ origin = "none" /\ damage = 0)
  /\ Either("sale", SaleInit, sale = NoSale /\ copy = NoSale /\ edits = 0)
  /\ Either("cadence", CadenceInit, ticks = <<>> /\ sizes = <<>> /\ chain = NoChain /\ tampers = 0)
  /\ Either("countersign", CountersignInit,
            /\ file = NewFile("c1") /\ calls = [c \in Commands |-> NoCall]
            /\ added = {} /\ overlap = {} /\ touched = 0)
  /\ Either("settlement", SettlementInit, legs = <<>> /\ pool = {} /\ policy = FALSE)
  /\ Either("diff", ContractInit, contractA = Missing /\ contractB = Missing /\ contractEdits = 0)
  /\ JudgeInit
  /\ Either("policy", PolicyInit,
            /\ held = <<>> /\ checker = None /\ profile = NoProfile
            /\ wanted = NoWish /\ spent = [updates |-> 0, edits |-> 0])

Next ==
  \/ verb = "find" /\ FindNext
     /\ UNCHANGED <<stapleVars, historyVars, bundleVars, saleVars, cadenceVars, countersignVars,
                   settlementVars, contractVars, judgeVars, policyVars, verb>>
  \/ verb = "staple" /\ StapledNext
     /\ UNCHANGED <<findVars, historyVars, bundleVars, saleVars, cadenceVars, countersignVars, settlementVars,
                   contractVars, judgeVars, policyVars, verb>>
  \/ verb = "history" /\ HistoryNext
     /\ UNCHANGED <<findVars, stapleVars, bundleVars, saleVars, cadenceVars, countersignVars, settlementVars,
                   contractVars, judgeVars, policyVars, verb>>
  \/ verb = "bundle" /\ BundleNext
     /\ UNCHANGED <<findVars, stapleVars, historyVars, saleVars, cadenceVars, countersignVars, settlementVars,
                   contractVars, judgeVars, policyVars, verb>>
  \/ verb = "sale" /\ SaleNext
     /\ UNCHANGED <<findVars, stapleVars, historyVars, bundleVars, cadenceVars, countersignVars,
                   settlementVars, contractVars, judgeVars, policyVars, verb>>
  \/ verb = "cadence" /\ CadenceNext
     /\ UNCHANGED <<findVars, stapleVars, historyVars, bundleVars, saleVars, countersignVars, settlementVars,
                   contractVars, judgeVars, policyVars, verb>>
  \/ verb = "countersign" /\ CountersignNext
     /\ UNCHANGED <<findVars, stapleVars, historyVars, bundleVars, saleVars, cadenceVars, settlementVars,
                   contractVars, judgeVars, policyVars, verb>>
  \/ verb = "settlement" /\ SettlementNext
     /\ UNCHANGED <<findVars, stapleVars, historyVars, bundleVars, saleVars, cadenceVars, countersignVars,
                   contractVars, judgeVars, policyVars, verb>>
  \/ verb = "diff" /\ ContractNext
     /\ UNCHANGED <<findVars, stapleVars, historyVars, bundleVars, saleVars, cadenceVars, countersignVars,
                   settlementVars, judgeVars, policyVars, verb>>
  \/ verb = "judge" /\ JudgeNext
     /\ UNCHANGED <<findVars, stapleVars, historyVars, bundleVars, saleVars, cadenceVars, countersignVars,
                   settlementVars, contractVars, policyVars, verb>>
  \/ verb = "policy" /\ PolicyNext
     /\ UNCHANGED <<findVars, stapleVars, historyVars, bundleVars, saleVars, cadenceVars, countersignVars,
                   settlementVars, contractVars, judgeVars, verb>>

Spec ==
  Init /\ [][Next]_<<verb, findVars, stapleVars, historyVars, bundleVars, saleVars, cadenceVars,
                      countersignVars, settlementVars, contractVars, judgeVars, policyVars>>
==============================================================================
