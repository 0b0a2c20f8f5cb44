---------------------------- MODULE CommitmentFind ----------------------------
(***************************************************************************)
(* `commitment find` (cli/commitment_find.go with commitment_carriers.go,  *)
(* commitment_nostr.go, commitment_verify.go, commitment_cmd.go): the      *)
(* carrier references it is given are read one after another, what each    *)
(* points to is fetched within bounds, and the commitments gathered are    *)
(* ranked and judged.  Carriers, relays and the node answer or do not, as  *)
(* the network has it; nothing a carrier says is believed.                 *)
(***************************************************************************)
EXTENDS StapledCards

CONSTANTS
  Commitments,    \* octets of commitments, what they say as a record
  Events,         \* events a relay may hold; an id is the digest of its event
  Relays,
  RelayHolds,     \* Relays -> sequences of events, in the order they are sent
  References,     \* sequences of carrier references an asker may give
  Askers,         \* what an asker holds and chose
  Replies,        \* cards the node may answer a live request with
  WitnessedAnchors, \* anchors with a receipt by a witness of the policy
  Now,            \* the clock and the skew: issued_at is not later
  MaxPointers,    \* commitments one carrier may send the verb to fetch (16)
  MaxRelayEvents  \* events read from one relay (64)

ASSUME RelaysAssumption ==
  /\ RelayHolds \in [Relays -> Seq(Events)]
  /\ \A e, f \in Events : e.genuine /\ f.genuine /\ e.id = f.id => e = f
  /\ \A e \in Events : e.entry.formed /\ e.entry.inline => e.entry.octets # Nothing
ASSUME BoundsAssumption == MaxPointers \in Nat \ {0} /\ MaxRelayEvents \in Nat \ {0} /\ Now \in Nat

VARIABLES
  asker,
  refs,      \* references left to read
  queue,     \* pointers of the reference being read, with their places in it
  fetched,   \* of them, those that were fetched
  row,       \* it was cut (the carrierRead being made)
  reading,   \* a reference is being read
  docs,      \* the distinct commitments gathered, in the order they came
  reads,     \* which of the references read were cut
  failures,  \* malformed entries and events were named
  report,
  handed,    \* history: commitments genuine entries held or led to
  unread     \* history: something was left unread because of a bound

findVars == <<asker, refs, queue, fetched, row, reading, docs, reads, failures, report, handed, unread>>

FindInit ==
  /\ asker \in Askers
  /\ refs \in References
  /\ queue = {} /\ fetched = 0 /\ row = FALSE /\ reading = FALSE
  /\ docs = <<>> /\ reads = <<>> /\ failures = FALSE /\ report = Nothing
  /\ handed = {} /\ unread = FALSE

------------------------------------------------------------------------------
(* What a carrier's document says.                                         *)

(* A place is a relay, or 1 in a document, and a place in what it says.    *)
Precedes(p, q) == p[1] < q[1] \/ (p[1] = q[1] /\ p[2] < q[2])
EntriesOf(entries) == {[at |-> <<1, i>>, to |-> entries[i]] : i \in DOMAIN entries}

(* directoryEntry, a2aEntry and nostrPointer: an entry of another form is  *)
(* named and not followed.                                                 *)
Pointers(listed) == {l \in listed : l.to.formed}
Malformed(listed) == \E l \in listed : ~l.to.formed

(* a2aPointers: an evidence-request entry with a commitment member voids   *)
(* every pointer of the card.                                              *)
a2aPointers(ref) == IF ref.spoiled THEN {} ELSE Pointers(EntriesOf(ref.entries))

(* queryRelay: a relay sends some of what it holds, to EOSE or until it    *)
(* fails; past the bound it is cut.                                        *)
queryRelay(relay) ==
  LET held == RelayHolds[relay] IN
  {[events |-> SubSeq(held, 1, IF n > MaxRelayEvents THEN MaxRelayEvents ELSE n),
    failed |-> n > MaxRelayEvents \/ ~eose, cut |-> n > MaxRelayEvents] :
      n \in 0..Len(held), eose \in BOOLEAN}

Answers(relays) ==
  {f \in [1..Len(relays) -> UNION {queryRelay(r) : r \in Relays}] :
     \A i \in DOMAIN f : f[i] \in queryRelay(relays[i])}

Sent(answers) == UNION {{[at |-> <<i, k>>, event |-> answers[i].events[k]] : k \in DOMAIN answers[i].events} :
                          i \in DOMAIN answers}

(* An event is kept when no genuine one with its id came before: a bad copy*)
(* does not hide the genuine one.                                          *)
Kept(sent) ==
  {e \in sent : /\ e.event.genuine
                /\ \A f \in sent : f.event.genuine /\ f.event.id = e.event.id => ~Precedes(f.at, e.at)}

Misnamed(sent) ==
  {e \in sent : ~e.event.genuine /\ \A f \in Kept(sent) : f.event.id = e.event.id => Precedes(e.at, f.at)}

(* collectEvents fails only when no relay answered.                        *)
collectEvents(answers) ==
  [events |-> Kept(Sent(answers)), bad |-> Misnamed(Sent(answers)) # {},
   cut    |-> \E i \in DOMAIN answers : answers[i].cut,
   failed |-> \A i \in DOMAIN answers : answers[i].failed /\ answers[i].events = <<>>]

(* The announce event an naddr names: the newest of its author and node.   *)
newest(events, naddr) ==
  LET named == {e \in events : e.event.author = naddr.author /\ e.event.node = naddr.node} IN
  {e \in named : \A f \in named : \/ f.event.created < e.event.created
                                  \/ f.event.created = e.event.created /\ ~Precedes(f.at, e.at)}

(* resolvePointer: what following a pointer may give on this network.      *)
Fetches(octets) == {[octets |-> o, bad |-> FALSE, cut |-> FALSE] : o \in {octets, Nothing}}

Follows(p) ==
  CASE p.inline -> {[octets |-> p.octets, bad |-> FALSE, cut |-> FALSE]}
    [] ~p.inline /\ p.naddr = Nothing -> Fetches(p.octets)
    [] OTHER ->
         UNION {LET got == collectEvents(a)
                    hit == newest(got.events, p.naddr)
                IN IF got.failed \/ hit = {}
                   THEN {[octets |-> Nothing, bad |-> got.bad, cut |-> got.cut]}
                   ELSE LET q == (CHOOSE e \in hit : TRUE).event.entry IN
                        IF ~q.formed THEN {[octets |-> Nothing, bad |-> TRUE, cut |-> got.cut]}
                        ELSE {[octets |-> IF q.inline THEN q.octets ELSE o,
                               bad |-> got.bad, cut |-> got.cut] : o \in {q.octets, Nothing}}
                : a \in Answers(p.naddr.relays)}
------------------------------------------------------------------------------
(* Gathering.                                                              *)

Octets(seq) == {seq[i] : i \in DOMAIN seq}

(* gather's add: octets that were seen already are the same document.      *)
Add(octets) == docs' = IF octets \in Octets(docs) THEN docs ELSE Append(docs, octets)

Stay == UNCHANGED <<asker, report>>

BeginFollowing(pointers, bad, cut) ==
  /\ queue' = pointers
  /\ fetched' = 0
  /\ reading' = TRUE
  /\ row' = cut
  /\ failures' = (failures \/ bad)
  /\ refs' = Tail(refs)
  /\ UNCHANGED <<docs, reads>> /\ Stay

(* A reference that cannot be read is a row of its own.                    *)
ReadFails(cut) ==
  /\ reads' = Append(reads, cut)
  /\ refs' = Tail(refs)
  /\ UNCHANGED <<queue, fetched, row, reading, docs>> /\ Stay

ReadDocument ==
  /\ refs # <<>> /\ ~reading
  /\ LET ref == Head(refs) IN
     /\ ref.carrier \in {"directory", "a2a"}
     /\ \/ /\ ReadFails(FALSE)
           /\ UNCHANGED <<failures, handed, unread>>
        \/ /\ BeginFollowing(IF ref.carrier = "a2a" THEN a2aPointers(ref) ELSE Pointers(EntriesOf(ref.entries)),
                             Malformed(EntriesOf(ref.entries)) \/ ref.spoiled, FALSE)
           /\ UNCHANGED <<handed, unread>>

(* What the genuine events of the answers hold.                            *)
HandedBy(answers) ==
  LET holding == {e \in Sent(answers) : e.event.genuine /\ e.event.entry.formed /\ e.event.entry.inline}
  IN {e.event.entry.octets : e \in holding}

(* A search for one node id on the relays given.                           *)
SearchRelays ==
  /\ refs # <<>> /\ ~reading
  /\ Head(refs).carrier = "nostr"
  /\ \E answers \in Answers(Head(refs).relays) :
       LET got     == collectEvents(answers)
           entries == {[at |-> e.at, to |-> e.event.entry] : e \in got.events}
       IN /\ unread' = (unread \/ got.cut)
          /\ IF got.failed
             THEN ReadFails(got.cut) /\ failures' = (failures \/ got.bad) /\ UNCHANGED handed
             ELSE /\ BeginFollowing(Pointers(entries), got.bad \/ Malformed(entries), got.cut)
                  /\ handed' = handed \cup HandedBy(answers)

ReadFile ==
  /\ refs # <<>> /\ ~reading
  /\ Head(refs).carrier = "file"
  /\ \/ /\ Add(Head(refs).octets)
        /\ handed' = handed \cup {Head(refs).octets}
        /\ reads' = Append(reads, FALSE)
        /\ refs' = Tail(refs)
        /\ UNCHANGED <<queue, fetched, row, reading, failures, unread>> /\ Stay
     \/ /\ ReadFails(FALSE)
        /\ UNCHANGED <<failures, handed, unread>>

(* The pointers are followed in the order they came.                       *)
Upcoming(p) == p \in queue /\ \A q \in queue : ~Precedes(q.at, p.at)

(* Mutant of TooMany: the pointer is dropped and the row does not say so.  *)
TooManyUnsaid ==
  /\ reading /\ fetched >= MaxPointers
  /\ \E p \in queue : Upcoming(p) /\ ~p.to.inline /\ queue' = queue \ {p}
  /\ unread' = TRUE
  /\ UNCHANGED <<refs, fetched, row, reading, docs, reads, failures, handed>> /\ Stay

(* The bound is on what has to be fetched; what a carrier holds is read.   *)
TooMany ==
  /\ reading /\ fetched >= MaxPointers
  /\ \E p \in queue : Upcoming(p) /\ ~p.to.inline /\ queue' = queue \ {p}
  /\ row' = TRUE /\ unread' = TRUE
  /\ UNCHANGED <<refs, fetched, reading, docs, reads, failures, handed>> /\ Stay

FollowPointer ==
  /\ reading
  /\ \E p \in queue : \E got \in Follows(p.to) :
       /\ Upcoming(p) /\ (p.to.inline \/ fetched < MaxPointers)
       /\ fetched' = IF p.to.inline THEN fetched ELSE fetched + 1
       /\ queue' = queue \ {p}
       /\ failures' = (failures \/ got.bad \/ got.cut)
       /\ unread' = (unread \/ got.cut)
       /\ row' = (row \/ got.cut)
       /\ IF got.octets = Nothing THEN UNCHANGED <<docs, handed>>
          ELSE Add(got.octets) /\ handed' = handed \cup {got.octets}
  /\ UNCHANGED <<refs, reading, reads>> /\ Stay

EndReference ==
  /\ reading /\ queue = {}
  /\ reads' = Append(reads, row)
  /\ reading' = FALSE
  /\ UNCHANGED <<refs, queue, fetched, row, docs, failures, handed, unread>> /\ Stay
------------------------------------------------------------------------------
(* Judging.                                                                *)

(* checkCommitmentOctets: the first rule that fails names the result.      *)
Rules == <<"commitment_form", "key_id_spki", "commitment_signature", "staple_shape", "staple_digest">>

Refused(d) ==
  LET broken == SelectSeq(Rules, LAMBDA r : r \in d.breaks) IN
  CASE broken = <<>> -> "" [] broken # <<>> /\ Head(broken) = "staple_shape" -> "commitment_form"
    [] OTHER -> Head(broken)

(* issued_at is a time: without one a commitment has no form.              *)
Valid(d) == d.issued \in Nat /\ Refused(d) = ""

SameNode(d, e) == d.key = e.key /\ d.node = e.node

(* Mutant of rankCommitments: the first of a tie is current.               *)
rankFirst(seq, i) ==
  IF seq[i].issued > Now THEN "future_dated"
  ELSE IF \E j \in DOMAIN seq : Valid(seq[j]) /\ SameNode(seq[i], seq[j]) /\ seq[j].issued <= Now
             /\ (seq[j].issued > seq[i].issued \/ (seq[j].issued = seq[i].issued /\ j < i))
       THEN "superseded" ELSE "current"

rankCommitments(seq, i) ==
  LET group == {j \in DOMAIN seq : Valid(seq[j]) /\ SameNode(seq[i], seq[j]) /\ seq[j].issued <= Now}
      later == {j \in group : seq[j].issued > seq[i].issued}
      tied  == {j \in group : seq[j].issued = seq[i].issued}
  IN CASE seq[i].issued > Now -> "future_dated"
       [] seq[i].issued <= Now /\ later # {} -> "superseded"
       [] seq[i].issued <= Now /\ later = {} /\ tied # {i} -> "conflicting"
       [] OTHER -> "current"

anchorWitnessed(anchor) ==
  CASE ~asker.receipts -> NotPresent
    [] asker.receipts /\ anchor \in WitnessedAnchors -> Pass
    [] OTHER -> Fail

(* deriveWitness: a card some other key signed earns this key nothing.     *)
deriveWitness(rows, d) ==
  /\ rows # <<>>
  /\ \A i \in DOMAIN rows : rows[i].responder = d.key /\ anchorWitnessed(rows[i].card.anchor) = Pass

(* The streams a commitment's readable cards are of, one card per stream.  *)
StreamRows(rows) == {i \in DOMAIN rows : \A j \in 1..(i - 1) : rows[j].label # rows[i].label}

stapleReasons(rows) ==
  stapleFailures(rows) \cup
  {"staples" : i \in {i \in {0} : rows = <<>>}} \cup
  {"staple_stream" : i \in DOMAIN rows \ StreamRows(rows)} \cup
  {"staple_card_form" : i \in {i \in StreamRows(rows) : chainOf(rows[i].card) = <<>>}}

Chained(rows) == {i \in StreamRows(rows) : chainOf(rows[i].card) # <<>>}

(* liveCheck: a node that does not answer, or answers in another form,     *)
(* leaves the stapled chains.                                              *)
liveCheck(d, rows, reply) ==
  LET asked == ~asker.offline /\ d.ask /\ Chained(rows) # {}
      fresh == cardChecks(reply, CHOOSE r \in Requests : TRUE, d.key, asker.logKeys)
      held  == {i \in Chained(rows) : rows[i].card.stream = reply.stream}
  IN CASE ~asked \/ reply = Nothing -> {}
       [] asked /\ reply # Nothing ->
            CASE ~reply.envelope -> {}
              [] reply.envelope /\ (With(Fail, fresh) # {} \/ chainOf(reply) = <<>>) -> {"live_answer"}
              [] OTHER -> {"live_consistency" : i \in
                             {i \in held : ~extendsPin(chainOf(reply), Last(chainOf(rows[i].card)).content)}}

(* pinChecks, the checks of it; the pin file is in CommitmentPins.         *)
pinChecks(rows) ==
  {"pin_consistency" : i \in
     {i \in Chained(rows) : LET pin == asker.pins[rows[i].card.stream] IN
        pin # Nothing /\ ~(/\ Last(chainOf(rows[i].card)).log = pin.log
                           /\ extendsPin(chainOf(rows[i].card), pin.content))}}

NodeReasons(d, reply) ==
  LET bound == asker.nodeKey # NoKey
      rows  == commitmentStapleRows(d, IF bound THEN d.key ELSE NoKey, asker.logKeys)
  IN stapleReasons(rows) \cup
     (IF bound THEN liveCheck(d, rows, reply) ELSE {}) \cup
     (IF bound /\ asker.pinning THEN pinChecks(rows) ELSE {}) \cup
     (IF asker.refuseUnwitnessed /\ ~deriveWitness(rows, d) THEN {"unwitnessed_refused"} ELSE {})

Judgeable(seq) ==
  {i \in DOMAIN seq : Valid(seq[i]) /\ asker.node \in {Nothing, seq[i].node}}

(* judgeNode, for the node of the commitment at i.                         *)
judgeNode(seq, i, reply) ==
  LET group   == {j \in Judgeable(seq) : SameNode(seq[i], seq[j])}
      current == {j \in group : rankCommitments(seq, j) = "current"}
  IN CASE asker.nodeKey \notin {NoKey, seq[i].key} -> "NOT_DESCRIBING"
       [] asker.nodeKey \in {NoKey, seq[i].key} /\ current = {} -> "NOT_VERIFIED"
       [] asker.nodeKey \in {NoKey, seq[i].key} /\ \E j \in current : NodeReasons(seq[j], reply) # {} ->
            "NOT_VERIFIED"
       [] OTHER -> IF asker.nodeKey = NoKey THEN "KEY_NOT_BOUND" ELSE "VERIFIED"

(* The verdict of a run over its nodes; one that describes another node    *)
(* does not count.                                                         *)
runFind(seq, reply) ==
  LET nodes == {judgeNode(seq, i, reply) : i \in Judgeable(seq)} \ {"NOT_DESCRIBING"} IN
  CASE nodes = {} \/ "NOT_VERIFIED" \in nodes -> "NOT_VERIFIED"
    [] nodes # {} /\ "NOT_VERIFIED" \notin nodes /\ "KEY_NOT_BOUND" \in nodes -> "KEY_NOT_BOUND"
    [] OTHER -> "VERIFIED"

Judge ==
  /\ asker # Nothing /\ refs = <<>> /\ ~reading /\ report = Nothing
  /\ \E reply \in Replies \cup {Nothing} :
       LET verdict == runFind(docs, reply)
           cut     == \E i \in DOMAIN reads : reads[i]
       IN report' = [verdict |-> verdict, truncated |-> cut /\ verdict # "VERIFIED", reply |-> reply]
  /\ UNCHANGED <<asker, refs, queue, fetched, row, reading, docs, reads, failures, handed, unread>>

FindNext ==
  \/ ReadDocument \/ SearchRelays \/ ReadFile
  \/ TooMany \/ FollowPointer \/ EndReference
  \/ Judge

FindSpec == FindInit /\ [][FindNext]_findVars
------------------------------------------------------------------------------
(* The one commitment of its node that is not future-dated and later than  *)
(* every other that is not.                                                *)
Newest(d, all) ==
  /\ d.issued <= Now
  /\ \A e \in all \ {d} : SameNode(d, e) /\ e.issued <= Now => e.issued < d.issued

(* A verdict is earned by what was gathered alone, whatever carrier held   *)
(* it and in whatever order it came: VERIFIED exactly when commitments     *)
(* under the asker's own key were found and each node id among them has a  *)
(* newest one in which nothing fails; a commitment under another key, valid*)
(* or not, changes nothing (rankCommitments, judgeNode, runFind).          *)
VerdictIsEarned ==
  report # Nothing =>
    LET all  == {d \in Octets(docs) : Valid(d) /\ asker.node \in {Nothing, d.node}}
        mine == {d \in all : asker.nodeKey \in {NoKey, d.key}}
        good == /\ mine # {}
                /\ \A d \in mine : \E e \in mine :
                     SameNode(d, e) /\ Newest(e, mine) /\ NodeReasons(e, report.reply) = {}
    IN report.verdict = CASE ~good -> "NOT_VERIFIED"
                          [] good /\ asker.nodeKey = NoKey -> "KEY_NOT_BOUND"
                          [] OTHER -> "VERIFIED"

(* What genuine entries handed over is judged, whatever bad copies came    *)
(* beside them; and when a bound left something unread, a run that does not*)
(* verify says so rather than that there was nothing (collectEvents,       *)
(* follow, runFind).                                                       *)
UnreadIsNamed ==
  report # Nothing =>
    /\ handed \subseteq Octets(docs)
    /\ unread /\ report.verdict # "VERIFIED" => report.truncated
==============================================================================
