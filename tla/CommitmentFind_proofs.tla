----------------------- MODULE CommitmentFind_proofs ------------------------
(***************************************************************************)
(* Theorems about the commitments an asker finds and about the log cards   *)
(* they are stapled with, for any commitments, relays, requests and chains *)
(* of checkpoints.  A verdict is a function of the files judged: what the  *)
(* steps change is what is judged, and the invariants say of what form it  *)
(* is and where it came from.                                              *)
(***************************************************************************)
EXTENDS CommitmentFind, WellFoundedInduction, TLAPS

(* A set of naturals with a member has a least one.                        *)
LEMMA LeastOf ==
  ASSUME NEW T \in SUBSET Nat, T # {}
  PROVE  \E n \in T : \A m \in T : n <= m
<1> DEFINE R == OpToRel(<, Nat)
<1>1. IsWellFoundedOn(R, Nat)
  BY NatLessThanWellFounded
<1>2. \A x, y \in Nat : <<y, x>> \in R <=> y < x
  BY DEF OpToRel
<1> HIDE DEF R
<1>3. PICK n \in T : \A m \in T : <<m, n>> \notin R
  BY <1>1, WFMin
<1>4. ASSUME NEW m \in T PROVE n <= m
  <2>1. m \in Nat /\ n \in Nat /\ ~(m < n)
    BY <1>2, <1>3
  <2>2. QED
    BY <2>1
<1>5. QED
  BY <1>4

------------------------------------------------------------------------------
(* No verdict beyond what was found (cli/commitment_find.go).              *)

(* What a card's witness earns depends of the run on the asker alone.      *)
LEMMA SameWitness ==
  ASSUME NEW rows, NEW d, asker' = asker
  PROVE  deriveWitness(rows, d)' = deriveWitness(rows, d)
BY DEF deriveWitness, anchorWitnessed

(* So does what the node's answer shows.                                   *)
LEMMA SameLive ==
  ASSUME NEW d, NEW rows, NEW reply, asker' = asker
  PROVE  liveCheck(d, rows, reply)' = liveCheck(d, rows, reply)
BY DEF liveCheck

(* So does what the pins show.                                             *)
LEMMA SamePins ==
  ASSUME NEW rows, asker' = asker
  PROVE  pinChecks(rows)' = pinChecks(rows)
BY DEF pinChecks

(* So does everything a commitment is refused for.                         *)
LEMMA SameReasons ==
  ASSUME NEW d, NEW reply, asker' = asker
  PROVE  NodeReasons(d, reply)' = NodeReasons(d, reply)
BY SameWitness, SameLive, SamePins DEF NodeReasons

(* A run over the same commitments with the same answer of the node gives  *)
(* its asker the same verdict.                                             *)
LEMMA SameRun ==
  ASSUME NEW seq, NEW reply, asker' = asker
  PROVE  runFind(seq, reply)' = runFind(seq, reply)
<1>1. ASSUME NEW i PROVE judgeNode(seq, i, reply)' = judgeNode(seq, i, reply)
  BY SameReasons DEF judgeNode, Judgeable
<1> QED BY <1>1 DEF runFind, Judgeable

------------------------------------------------------------------------------
(* The commitments of a run that count: those of the node asked for, and of*)
(* them those under the asker's own key.                                   *)
Held(seq) == {d \in Octets(seq) : Valid(d) /\ asker.node \in {Nothing, d.node}}
Mine(seq) == {d \in Held(seq) : asker.nodeKey \in {NoKey, d.key}}

Distinct(seq) == \A i, j \in DOMAIN seq : seq[i] = seq[j] => i = j

(* The commitment of d's node that speaks for it has nothing that fails.   *)
Stands(d, seq, reply) ==
  \E e \in Mine(seq) : SameNode(d, e) /\ Newest(e, Mine(seq)) /\ NodeReasons(e, reply) = {}

(* A commitment ranks as current exactly when it is the newest of its node *)
(* (rankCommitments).                                                      *)
LEMMA CurrentIsNewest ==
  ASSUME NEW seq, Distinct(seq), NEW j \in DOMAIN seq, seq[j] \in Mine(seq)
  PROVE  rankCommitments(seq, j) = "current" <=> Newest(seq[j], Mine(seq))
<1> DEFINE group == {k \in DOMAIN seq : Valid(seq[k]) /\ SameNode(seq[j], seq[k]) /\ seq[k].issued <= Now}
           later == {k \in group : seq[k].issued > seq[j].issued}
           tied  == {k \in group : seq[k].issued = seq[j].issued}
<1>1. Valid(seq[j]) /\ seq[j].issued \in Nat /\ Now \in Nat
  BY BoundsAssumption DEF Mine, Held, Valid
<1>2. \A k \in group : seq[k] \in Mine(seq) /\ seq[k].issued \in Nat
  BY DEF Mine, Held, Octets, SameNode, Valid
<1>3. \A e \in Mine(seq) : e.issued \in Nat /\ Valid(e) /\ \E k \in DOMAIN seq : seq[k] = e
  BY DEF Mine, Held, Octets, Valid
<1>4. SameNode(seq[j], seq[j])
  BY DEF SameNode
<1>5. rankCommitments(seq, j) = "current" <=> seq[j].issued <= Now /\ later = {} /\ tied = {j}
  BY <1>1 DEF rankCommitments
<1>6. ASSUME seq[j].issued <= Now, later = {}, tied = {j} PROVE Newest(seq[j], Mine(seq))
  <2> SUFFICES ASSUME NEW e \in Mine(seq) \ {seq[j]}, SameNode(seq[j], e), e.issued <= Now
               PROVE  e.issued < seq[j].issued
    BY <1>6 DEF Newest
  <2>1. PICK k \in DOMAIN seq : seq[k] = e
    BY <1>3
  <2>2. k \in group /\ k \notin later /\ k \notin tied
    BY <1>3, <1>6, <2>1
  <2> QED BY <1>1, <1>3, <2>1, <2>2
<1>7. ASSUME Newest(seq[j], Mine(seq)) PROVE seq[j].issued <= Now /\ later = {} /\ tied = {j}
  <2>1. seq[j].issued <= Now
    BY <1>7 DEF Newest
  <2>2. \A k \in group : k # j => seq[k].issued < seq[j].issued
    BY <1>2, <1>7 DEF Newest, Distinct
  <2>3. later = {}
    BY <1>1, <1>2, <2>2
  <2>4. j \in tied
    BY <1>1, <1>4, <2>1
  <2>5. tied = {j}
    BY <1>1, <1>2, <2>2, <2>4
  <2> QED BY <2>1, <2>3, <2>5
<1> QED BY <1>5, <1>6, <1>7

(* A node is judged by its newest commitment alone; one under another key  *)
(* does not describe it (judgeNode).                                       *)
LEMMA JudgedByNewest ==
  ASSUME NEW seq, Distinct(seq), NEW reply, NEW i \in Judgeable(seq)
  PROVE  judgeNode(seq, i, reply) =
           IF seq[i] \notin Mine(seq) THEN "NOT_DESCRIBING"
           ELSE IF ~Stands(seq[i], seq, reply) THEN "NOT_VERIFIED"
           ELSE IF asker.nodeKey = NoKey THEN "KEY_NOT_BOUND" ELSE "VERIFIED"
<1> DEFINE group   == {j \in Judgeable(seq) : SameNode(seq[i], seq[j])}
           current == {j \in group : rankCommitments(seq, j) = "current"}
<1>1. i \in DOMAIN seq /\ seq[i] \in Held(seq)
  BY DEF Judgeable, Held, Octets
<1>2. CASE seq[i] \notin Mine(seq)
  <2>1. asker.nodeKey \notin {NoKey, seq[i].key}
    BY <1>1, <1>2 DEF Mine
  <2> QED BY <1>2, <2>1 DEF judgeNode
<1>3. CASE seq[i] \in Mine(seq)
  <2>1. asker.nodeKey \in {NoKey, seq[i].key}
    BY <1>3 DEF Mine
  <2>2. \A j \in group : j \in DOMAIN seq /\ seq[j] \in Mine(seq)
    BY <2>1 DEF Judgeable, Mine, Held, Octets, SameNode
  <2>3. \A j \in group : j \in current <=> Newest(seq[j], Mine(seq))
    BY <2>2, CurrentIsNewest
  <2>4. \A e \in Mine(seq) : SameNode(seq[i], e) => \E j \in group : seq[j] = e
    BY DEF Mine, Held, Octets, Judgeable
  <2>5. \A j, k \in current : j = k
    <3> SUFFICES ASSUME NEW j \in current, NEW k \in current, j # k PROVE FALSE
      OBVIOUS
    <3>1. seq[j] # seq[k] /\ SameNode(seq[j], seq[k]) /\ SameNode(seq[k], seq[j])
      BY <2>2 DEF Distinct, SameNode
    <3>2. seq[k].issued < seq[j].issued /\ seq[j].issued < seq[k].issued
      BY <2>2, <2>3, <3>1 DEF Newest
    <3>3. seq[j].issued \in Nat /\ seq[k].issued \in Nat
      BY <2>2 DEF Mine, Held, Valid
    <3> QED BY <3>2, <3>3
  <2>6. Stands(seq[i], seq, reply) <=> \E j \in current : NodeReasons(seq[j], reply) = {}
    BY <2>2, <2>3, <2>4 DEF Stands
  <2>7. Stands(seq[i], seq, reply) <=> current # {} /\ ~\E j \in current : NodeReasons(seq[j], reply) # {}
    BY <2>5, <2>6
  <2>8. judgeNode(seq, i, reply) =
          CASE current = {} -> "NOT_VERIFIED"
            [] current # {} /\ \E j \in current : NodeReasons(seq[j], reply) # {} -> "NOT_VERIFIED"
            [] OTHER -> IF asker.nodeKey = NoKey THEN "KEY_NOT_BOUND" ELSE "VERIFIED"
    BY <2>1 DEF judgeNode
  <2> HIDE DEF current, group
  <2> QED BY <1>3, <2>7, <2>8
<1> QED BY <1>2, <1>3

(* The verdict of a run over distinct commitments is the earned one        *)
(* (runFind).                                                              *)
LEMMA RunIsEarned ==
  ASSUME NEW seq, Distinct(seq), NEW reply
  PROVE  LET good == Mine(seq) # {} /\ \A d \in Mine(seq) : Stands(d, seq, reply)
         IN runFind(seq, reply) = CASE ~good -> "NOT_VERIFIED"
                                    [] good /\ asker.nodeKey = NoKey -> "KEY_NOT_BOUND"
                                    [] OTHER -> "VERIFIED"
<1> DEFINE nodes == {judgeNode(seq, i, reply) : i \in Judgeable(seq)} \ {"NOT_DESCRIBING"}
           word  == IF asker.nodeKey = NoKey THEN "KEY_NOT_BOUND" ELSE "VERIFIED"
           good  == Mine(seq) # {} /\ \A d \in Mine(seq) : Stands(d, seq, reply)
<1>1. \A d \in Mine(seq) : \E i \in Judgeable(seq) : seq[i] = d
  BY DEF Mine, Held, Octets, Judgeable
<1>2. \A i \in Judgeable(seq) :
        judgeNode(seq, i, reply) = IF seq[i] \notin Mine(seq) THEN "NOT_DESCRIBING"
                                   ELSE IF ~Stands(seq[i], seq, reply) THEN "NOT_VERIFIED" ELSE word
  BY JudgedByNewest
<1>3. \A d \in Mine(seq) : (IF Stands(d, seq, reply) THEN word ELSE "NOT_VERIFIED") \in nodes
  BY <1>1, <1>2
<1>4. \A n \in nodes : \E d \in Mine(seq) : n = IF Stands(d, seq, reply) THEN word ELSE "NOT_VERIFIED"
  BY <1>2
<1>5. runFind(seq, reply) =
        CASE nodes = {} \/ "NOT_VERIFIED" \in nodes -> "NOT_VERIFIED"
          [] nodes # {} /\ "NOT_VERIFIED" \notin nodes /\ "KEY_NOT_BOUND" \in nodes -> "KEY_NOT_BOUND"
          [] OTHER -> "VERIFIED"
  BY DEF runFind
<1> HIDE DEF nodes
<1>6. CASE ~good
  <2>1. nodes = {} \/ "NOT_VERIFIED" \in nodes
    BY <1>3, <1>4, <1>6
  <2> QED BY <1>5, <1>6, <2>1
<1>7. CASE good
  <2>1. nodes = {word}
    BY <1>3, <1>4, <1>7
  <2> QED BY <1>5, <1>7, <2>1
<1> QED BY <1>6, <1>7

------------------------------------------------------------------------------
(* A run gathers each document once, judges when nothing is left to read,  *)
(* and its verdict is that of the documents it has gathered.               *)
FindInv ==
  /\ docs \in Seq(Octets(docs))
  /\ Distinct(docs)
  /\ report # Nothing => refs = <<>> /\ ~reading
  /\ \A seq, reply :
       report # Nothing /\ seq = docs /\ reply = report.reply => report.verdict = runFind(seq, reply)

(* gather's add keeps the documents a sequence without repetition.         *)
LEMMA AddKeeps ==
  ASSUME NEW octets, docs \in Seq(Octets(docs)), Distinct(docs), Add(octets)
  PROVE  docs' \in Seq(Octets(docs)') /\ Distinct(docs)'
<1>1. CASE octets \in Octets(docs)
  BY <1>1 DEF Add, Octets, Distinct
<1>2. CASE octets \notin Octets(docs)
  <2>1. PICK all : all = Octets(docs) \cup {octets}
    OBVIOUS
  <2>2. docs \in Seq(all)
    BY <2>1
  <2>3. /\ docs' = Append(docs, octets) /\ docs' \in Seq(all) /\ Len(docs') = Len(docs) + 1
        /\ \A i \in 1..Len(docs) : docs'[i] = docs[i]
        /\ docs'[Len(docs) + 1] = octets
    BY <1>2, <2>1, <2>2 DEF Add
  <2>4. DOMAIN docs = 1..Len(docs) /\ DOMAIN docs' = 1..(Len(docs) + 1) /\ Len(docs) \in Nat
    BY <2>2, <2>3
  <2>5. Octets(docs)' = all
    BY <2>1, <2>3, <2>4 DEF Octets
  <2>6. \A i \in 1..Len(docs) : docs[i] # octets
    BY <1>2, <2>4 DEF Octets
  <2>7. Distinct(docs)'
    BY <2>3, <2>4, <2>6 DEF Distinct
  <2> QED BY <2>3, <2>5, <2>7
<1> QED BY <1>1, <1>2

(* Before the run is judged it has nothing to keep but its documents.      *)
LEMMA GatheringKeeps ==
  ASSUME FindInv, report = Nothing, report' = report,
         docs' = docs \/ \E octets : Add(octets)
  PROVE  FindInv'
<1>1. docs' \in Seq(Octets(docs)') /\ Distinct(docs)'
  <2>1. CASE docs' = docs
    BY <2>1 DEF FindInv, Octets, Distinct
  <2>2. CASE \E octets : Add(octets)
    BY <2>2, AddKeeps DEF FindInv
  <2> QED BY <2>1, <2>2
<1> QED BY <1>1 DEF FindInv

(* Every step of a run keeps FindInv.                                      *)
LEMMA FindStep == FindInv /\ [FindNext]_findVars => FindInv'
<1> SUFFICES ASSUME FindInv, [FindNext]_findVars PROVE FindInv'
  OBVIOUS
<1>1. CASE UNCHANGED findVars
  <2>1. asker' = asker /\ docs' = docs /\ report' = report /\ refs' = refs /\ reading' = reading
    BY <1>1 DEF findVars
  <2> QED BY <2>1, SameRun DEF FindInv, Octets, Distinct
<1>2. CASE ReadDocument
  BY <1>2, GatheringKeeps DEF ReadDocument, ReadFails, BeginFollowing, Stay, FindInv
<1>3. CASE SearchRelays
  <2>1. report = Nothing
    BY <1>3 DEF SearchRelays, FindInv
  <2>2. report' = report /\ docs' = docs
    BY <1>3 DEF SearchRelays, ReadFails, BeginFollowing, Stay
  <2> QED BY <2>1, <2>2, GatheringKeeps
<1>4. CASE ReadFile
  <2>1. report = Nothing
    BY <1>4 DEF ReadFile, FindInv
  <2>2. report' = report /\ (docs' = docs \/ \E octets : Add(octets))
    BY <1>4 DEF ReadFile, ReadFails, Stay
  <2> QED BY <2>1, <2>2, GatheringKeeps
<1>5. CASE TooMany \/ EndReference
  BY <1>5, GatheringKeeps DEF TooMany, EndReference, Stay, FindInv
<1>6. CASE FollowPointer
  <2>1. report = Nothing
    BY <1>6 DEF FollowPointer, FindInv
  <2>2. report' = report /\ (docs' = docs \/ \E octets : Add(octets))
    BY <1>6 DEF FollowPointer, Stay
  <2> QED BY <2>1, <2>2, GatheringKeeps
<1>7. CASE Judge
  <2>1. asker' = asker /\ docs' = docs /\ refs' = <<>> /\ ~reading'
    BY <1>7 DEF Judge
  <2>2. PICK answer : report'.verdict = runFind(docs, answer) /\ report'.reply = answer
    BY <1>7 DEF Judge
  <2>3. ASSUME NEW seq, NEW reply, seq = docs', reply = report'.reply
        PROVE  report'.verdict = runFind(seq, reply)'
    BY <2>1, <2>2, <2>3, SameRun
  <2> QED BY <2>1, <2>3 DEF FindInv, Octets, Distinct
<1> QED BY <1>1, <1>2, <1>3, <1>4, <1>5, <1>6, <1>7 DEF FindNext

(* A run over any carriers, relays and answers gives the verdict that the  *)
(* commitments it gathered earn: a current commitment under the asker's own*)
(* key, and nothing else, is what verifies a node.                         *)
THEOREM VerdictsAreEarned == FindSpec => []VerdictIsEarned
<1>1. FindInit => FindInv
  BY DEF FindInit, FindInv, Octets, Distinct
<1>2. FindInv /\ [FindNext]_findVars => FindInv'
  BY FindStep
<1>3. FindInv => VerdictIsEarned
  <2> SUFFICES ASSUME FindInv, report # Nothing PROVE VerdictIsEarned
    BY DEF VerdictIsEarned
  <2>1. report.verdict = runFind(docs, report.reply) /\ Distinct(docs)
    BY DEF FindInv
  <2> QED BY <2>1, RunIsEarned DEF VerdictIsEarned, Stands, Mine, Held
<1> QED BY <1>1, <1>2, <1>3, PTL DEF FindSpec

------------------------------------------------------------------------------
(* What could not be read is named (cli/commitment_find.go).               *)

(* What relays answer is events at places, relay by relay.                 *)
Placed(sent) ==
  \A e \in sent : e.at = <<e.at[1], e.at[2]>> /\ e.at \in Nat \X Nat /\ e.event \in Events

(* A relay's answer is a sequence of events.                               *)
LEMMA AnswersTyped ==
  ASSUME NEW relays, NEW answers \in Answers(relays), NEW i \in DOMAIN answers
  PROVE  i \in Nat /\ answers[i].events \in Seq(Events)
<1>1. i \in Nat /\ answers[i] \in UNION {queryRelay(r) : r \in Relays}
  BY DEF Answers
<1>2. PICK r \in Relays : answers[i] \in queryRelay(r)
  BY <1>1
<1>3. PICK n \in 0..Len(RelayHolds[r]) :
        answers[i].events = SubSeq(RelayHolds[r], 1, IF n > MaxRelayEvents THEN MaxRelayEvents ELSE n)
  BY <1>2 DEF queryRelay
<1>4. RelayHolds[r] \in Seq(Events)
  BY RelaysAssumption
<1>5. PICK m \in Nat : m <= Len(RelayHolds[r]) /\ answers[i].events = SubSeq(RelayHolds[r], 1, m)
  BY <1>3, <1>4, BoundsAssumption
<1> QED BY <1>1, <1>4, <1>5

(* So what the relays sent is placed.                                      *)
LEMMA SentPlaced ==
  ASSUME NEW relays, NEW answers \in Answers(relays)
  PROVE  Placed(Sent(answers))
<1> SUFFICES ASSUME NEW e \in Sent(answers)
             PROVE  e.at = <<e.at[1], e.at[2]>> /\ e.at \in Nat \X Nat /\ e.event \in Events
  BY DEF Placed
<1>1. PICK i \in DOMAIN answers : \E k \in DOMAIN answers[i].events :
                                   e = [at |-> <<i, k>>, event |-> answers[i].events[k]]
  BY DEF Sent
<1>2. PICK k \in DOMAIN answers[i].events : e = [at |-> <<i, k>>, event |-> answers[i].events[k]]
  BY <1>1
<1>3. answers[i].events \in Seq(Events) /\ i \in Nat
  BY AnswersTyped
<1>4. k \in Nat /\ answers[i].events[k] \in Events
  BY <1>3
<1> QED BY <1>2, <1>3, <1>4

(* Of the genuine events of an id one is kept, whatever came before it.    *)
LEMMA GenuineIsKept ==
  ASSUME NEW sent, Placed(sent), NEW e \in sent, e.event.genuine
  PROVE  \E f \in Kept(sent) : f.event.id = e.event.id
<1> DEFINE S  == {f \in sent : f.event.genuine /\ f.event.id = e.event.id}
           T1 == {f.at[1] : f \in S}
<1>1. T1 \in SUBSET Nat /\ T1 # {}
  <2>1. \A f \in S : f.at[1] \in Nat
    BY DEF Placed
  <2>2. e \in S
    OBVIOUS
  <2> QED BY <2>1, <2>2
<1>2. PICK n1 \in T1 : \A m \in T1 : n1 <= m
  BY <1>1, LeastOf
<1> DEFINE T2 == {f.at[2] : f \in {f \in S : f.at[1] = n1}}
<1>3. T2 \in SUBSET Nat /\ T2 # {}
  <2>1. \A f \in S : f.at[2] \in Nat
    BY DEF Placed
  <2>2. PICK f \in S : f.at[1] = n1
    BY <1>2
  <2> QED BY <2>1, <2>2
<1>4. PICK n2 \in T2 : \A m \in T2 : n2 <= m
  BY <1>3, LeastOf
<1>5. PICK f \in S : f.at[1] = n1 /\ f.at[2] = n2
  BY <1>4
<1>6. ASSUME NEW g \in sent, g.event.genuine, g.event.id = f.event.id PROVE ~Precedes(g.at, f.at)
  <2>1. g \in S
    BY <1>5, <1>6
  <2>2. g.at[1] \in Nat /\ g.at[2] \in Nat /\ f.at[1] \in Nat /\ f.at[2] \in Nat
    BY <1>5 DEF Placed
  <2>3. f.at[1] <= g.at[1]
    BY <2>1, <1>2, <1>5
  <2>4. g.at[1] = f.at[1] => f.at[2] <= g.at[2]
    BY <2>1, <1>4, <1>5
  <2> QED BY <2>2, <2>3, <2>4 DEF Precedes
<1>7. f \in Kept(sent)
  BY <1>5, <1>6 DEF Kept
<1> QED BY <1>5, <1>7

(* What genuine events hold is among what the search goes on to follow.    *)
LEMMA HandedIsListed ==
  ASSUME NEW relays, NEW answers \in Answers(relays), NEW d \in HandedBy(answers)
  PROVE  /\ d # Nothing
         /\ \E e \in Kept(Sent(answers)) :
              e.event.entry.formed /\ e.event.entry.inline /\ e.event.entry.octets = d
<1>1. PICK e \in Sent(answers) : /\ e.event.genuine /\ e.event.entry.formed /\ e.event.entry.inline
                                 /\ e.event.entry.octets = d
  BY DEF HandedBy
<1>2. Placed(Sent(answers))
  BY SentPlaced
<1>3. PICK f \in Kept(Sent(answers)) : f.event.id = e.event.id
  BY <1>1, <1>2, GenuineIsKept
<1>4. f.event \in Events /\ e.event \in Events /\ f.event.genuine
  BY <1>2, <1>3 DEF Placed, Kept
<1>5. f.event = e.event
  BY <1>1, <1>3, <1>4, RelaysAssumption
<1> QED BY <1>1, <1>3, <1>4, <1>5, RelaysAssumption

(* What was handed over is gathered or still to be followed, and what was  *)
(* cut is in the row being made or in those that are there.                *)
Awaited == {p.to.octets : p \in {p \in queue : p.to.inline}} \ {Nothing}
CutShown == (reading /\ row) \/ \E i \in DOMAIN reads : reads[i]

ReadInv ==
  /\ docs \in Seq(Octets(docs))
  /\ handed \subseteq Octets(docs) \cup Awaited
  /\ ~reading => queue = {}
  /\ reads \in Seq(BOOLEAN) /\ row \in BOOLEAN /\ unread \in BOOLEAN
  /\ unread => CutShown
  /\ report # Nothing => refs = <<>> /\ ~reading /\ UnreadIsNamed

(* gather's add keeps what was gathered, and has what it was given.        *)
LEMMA AddGathers ==
  ASSUME NEW octets, docs \in Seq(Octets(docs)), Add(octets)
  PROVE  docs' \in Seq(Octets(docs)') /\ Octets(docs)' = Octets(docs) \cup {octets}
<1>1. CASE octets \in Octets(docs)
  BY <1>1 DEF Add, Octets
<1>2. CASE octets \notin Octets(docs)
  <2>1. PICK all : all = Octets(docs) \cup {octets}
    OBVIOUS
  <2>2. docs \in Seq(all)
    BY <2>1
  <2>3. /\ docs' = Append(docs, octets) /\ docs' \in Seq(all) /\ Len(docs') = Len(docs) + 1
        /\ \A i \in 1..Len(docs) : docs'[i] = docs[i]
        /\ docs'[Len(docs) + 1] = octets
    BY <1>2, <2>1, <2>2 DEF Add
  <2>4. DOMAIN docs = 1..Len(docs) /\ DOMAIN docs' = 1..(Len(docs) + 1) /\ Len(docs) \in Nat
    BY <2>2, <2>3
  <2>5. Octets(docs)' = all
    BY <2>1, <2>3, <2>4 DEF Octets
  <2> QED BY <2>1, <2>3, <2>5
<1> QED BY <1>1, <1>2

(* A row added to the rows keeps them, and is one of them.                 *)
LEMMA RowAdded ==
  ASSUME reads \in Seq(BOOLEAN), NEW cut \in BOOLEAN, reads' = Append(reads, cut)
  PROVE  /\ reads' \in Seq(BOOLEAN)
         /\ (\E i \in DOMAIN reads' : reads'[i]) <=> cut \/ \E i \in DOMAIN reads : reads[i]
<1>1. /\ reads' \in Seq(BOOLEAN) /\ DOMAIN reads' = 1..(Len(reads) + 1) /\ DOMAIN reads = 1..Len(reads)
      /\ Len(reads) \in Nat /\ reads'[Len(reads) + 1] = cut /\ \A i \in 1..Len(reads) : reads'[i] = reads[i]
  OBVIOUS
<1> QED BY <1>1

(* A reference that cannot be read leaves what there was, and is a row.    *)
LEMMA FailingKeeps ==
  ASSUME ReadInv, ~reading, report = Nothing, NEW cut \in BOOLEAN, ReadFails(cut), handed' = handed,
         unread' = (unread \/ cut)
  PROVE  ReadInv'
<1>1. reads' = Append(reads, cut) /\ reads \in Seq(BOOLEAN) /\ report' = Nothing
  BY DEF ReadFails, Stay, ReadInv
<1>2. reads' \in Seq(BOOLEAN) /\ (unread' => CutShown')
  BY <1>1, RowAdded DEF ReadInv, CutShown
<1>3. docs' = docs /\ queue' = queue /\ reading' = reading /\ row' = row
  BY DEF ReadFails
<1>4. Octets(docs)' = Octets(docs) /\ Awaited' = Awaited
  BY <1>3 DEF Octets, Awaited
<1> QED BY <1>1, <1>2, <1>3, <1>4 DEF ReadInv

(* A search that some relay answers lists all that was handed over, and its*)
(* row says whether an answer was cut.                                     *)
LEMMA SearchKeeps == ReadInv /\ SearchRelays => ReadInv'
<1> SUFFICES ASSUME ReadInv, SearchRelays PROVE ReadInv'
  OBVIOUS
<1>0. report = Nothing /\ ~reading /\ queue = {}
  BY DEF SearchRelays, ReadInv
<1>1. PICK answers \in Answers(Head(refs).relays) :
        LET got == collectEvents(answers)
            entries == {[at |-> e.at, to |-> e.event.entry] : e \in got.events}
        IN /\ unread' = (unread \/ got.cut)
           /\ IF got.failed
              THEN ReadFails(got.cut) /\ failures' = (failures \/ got.bad) /\ UNCHANGED handed
              ELSE /\ BeginFollowing(Pointers(entries), got.bad \/ Malformed(entries), got.cut)
                   /\ handed' = handed \cup HandedBy(answers)
  BY DEF SearchRelays
<1>2. PICK cut \in BOOLEAN : collectEvents(answers).cut = cut
  BY DEF collectEvents
<1>3. unread' = (unread \/ cut)
  BY <1>1, <1>2
<1>4. CASE collectEvents(answers).failed
  <2>1. ReadFails(cut) /\ handed' = handed
    BY <1>1, <1>2, <1>4
  <2> QED BY <1>0, <1>3, <2>1, FailingKeeps
<1>5. CASE ~collectEvents(answers).failed
  <2> DEFINE entries == {[at |-> e.at, to |-> e.event.entry] : e \in Kept(Sent(answers))}
  <2>1. /\ queue' = Pointers(entries) /\ reading' /\ row' = cut /\ reads' = reads /\ docs' = docs
        /\ report' = report /\ handed' = handed \cup HandedBy(answers)
    <3>1. collectEvents(answers).events = Kept(Sent(answers))
      BY DEF collectEvents
    <3> QED BY <1>1, <1>2, <1>5, <3>1 DEF BeginFollowing, Stay
  <2>2. ASSUME NEW d \in HandedBy(answers) PROVE d \in Awaited'
    <3>1. PICK e \in Kept(Sent(answers)) :
            e.event.entry.formed /\ e.event.entry.inline /\ e.event.entry.octets = d
      BY HandedIsListed
    <3>2. [at |-> e.at, to |-> e.event.entry] \in queue'
      BY <2>1, <3>1 DEF Pointers
    <3> QED BY <3>1, <3>2, HandedIsListed DEF Awaited
  <2>3. handed' \subseteq Octets(docs)' \cup Awaited'
    BY <1>0, <2>1, <2>2 DEF ReadInv, Octets, Awaited
  <2>4. unread' => CutShown'
    BY <1>0, <1>3, <2>1 DEF ReadInv, CutShown
  <2>5. docs' \in Seq(Octets(docs)') /\ reads' \in Seq(BOOLEAN) /\ row' \in BOOLEAN
    BY <2>1 DEF ReadInv, Octets
  <2>6. unread' \in BOOLEAN
    BY <1>3
  <2> QED BY <1>0, <2>1, <2>3, <2>4, <2>5, <2>6 DEF ReadInv
<1> QED BY <1>4, <1>5

(* A pointer that is followed is gathered, when it led to something.       *)
LEMMA FollowKeeps == ReadInv /\ FollowPointer => ReadInv'
<1> SUFFICES ASSUME ReadInv, FollowPointer PROVE ReadInv'
  OBVIOUS
<1>1. reading /\ reading' /\ report = Nothing /\ report' = Nothing /\ reads' = reads
  BY DEF FollowPointer, ReadInv, Stay
<1>0. PICK p \in queue : \E got \in Follows(p.to) :
        /\ queue' = queue \ {p}
        /\ unread' = (unread \/ got.cut)
        /\ row' = (row \/ got.cut)
        /\ IF got.octets = Nothing THEN UNCHANGED <<docs, handed>>
           ELSE Add(got.octets) /\ handed' = handed \cup {got.octets}
  BY DEF FollowPointer
<1>2. PICK got \in Follows(p.to) :
        /\ queue' = queue \ {p}
        /\ unread' = (unread \/ got.cut)
        /\ row' = (row \/ got.cut)
        /\ IF got.octets = Nothing THEN UNCHANGED <<docs, handed>>
           ELSE Add(got.octets) /\ handed' = handed \cup {got.octets}
  BY <1>0
<1>3. p.to.inline => got.octets = p.to.octets
  BY <1>2 DEF Follows
<1>4. (unread' => CutShown') /\ row' \in BOOLEAN /\ unread' \in BOOLEAN
  BY <1>1, <1>2 DEF ReadInv, CutShown
<1>5. Awaited \subseteq Awaited' \cup (IF p.to.inline THEN {p.to.octets} \ {Nothing} ELSE {})
  BY <1>2 DEF Awaited
<1>6. CASE got.octets = Nothing
  <2>1. docs' = docs /\ handed' = handed /\ Octets(docs)' = Octets(docs)
    BY <1>2, <1>6 DEF Octets
  <2>2. Awaited \subseteq Awaited'
    BY <1>3, <1>5, <1>6
  <2> QED BY <1>1, <1>4, <2>1, <2>2 DEF ReadInv
<1>7. CASE got.octets # Nothing
  <2>1. Add(got.octets) /\ handed' = handed \cup {got.octets}
    BY <1>2, <1>7
  <2>2. docs' \in Seq(Octets(docs)') /\ Octets(docs)' = Octets(docs) \cup {got.octets}
    BY <2>1, AddGathers DEF ReadInv
  <2>3. Awaited \subseteq Awaited' \cup {got.octets}
    BY <1>3, <1>5
  <2> QED BY <1>1, <1>4, <2>1, <2>2, <2>3 DEF ReadInv
<1> QED BY <1>6, <1>7

(* Every step of a run keeps ReadInv.                                      *)
LEMMA ReadStep == ReadInv /\ [FindNext]_findVars => ReadInv'
<1> SUFFICES ASSUME ReadInv, [FindNext]_findVars PROVE ReadInv'
  OBVIOUS
<1>1. CASE UNCHANGED findVars
  BY <1>1 DEF findVars, ReadInv, Octets, Awaited, CutShown, UnreadIsNamed
<1>2. CASE ReadDocument
  <2>1. report = Nothing /\ ~reading /\ queue = {} /\ handed' = handed /\ unread' = unread
    BY <1>2 DEF ReadDocument, ReadInv
  <2>2. CASE ReadFails(FALSE)
    <3>1. unread' = (unread \/ FALSE)
      BY <2>1 DEF ReadInv
    <3> QED BY <2>1, <2>2, <3>1, FailingKeeps
  <2>3. CASE ~ReadFails(FALSE)
    <3>1. reading' /\ row' = FALSE /\ reads' = reads /\ docs' = docs /\ report' = report
      BY <1>2, <2>3 DEF ReadDocument, BeginFollowing, Stay
    <3>2. Octets(docs)' = Octets(docs) /\ Awaited = {}
      BY <2>1, <3>1 DEF Octets, Awaited
    <3> QED BY <2>1, <3>1, <3>2 DEF ReadInv, CutShown
  <2> QED BY <2>2, <2>3
<1>3. CASE SearchRelays
  BY <1>3, SearchKeeps
<1>4. CASE ReadFile
  <2>1. report = Nothing /\ ~reading /\ unread' = unread
    BY <1>4 DEF ReadFile, ReadInv
  <2>2. CASE ReadFails(FALSE) /\ handed' = handed
    <3>1. unread' = (unread \/ FALSE)
      BY <2>1 DEF ReadInv
    <3> QED BY <2>1, <2>2, <3>1, FailingKeeps
  <2>3. CASE ~(ReadFails(FALSE) /\ handed' = handed)
    <3>1. PICK octets : /\ Add(octets) /\ handed' = handed \cup {octets} /\ reads' = Append(reads, FALSE)
                        /\ queue' = queue /\ reading' = reading /\ row' = row /\ report' = report
      BY <1>4, <2>3 DEF ReadFile, Stay
    <3>2. docs' \in Seq(Octets(docs)') /\ Octets(docs)' = Octets(docs) \cup {octets}
      BY <3>1, AddGathers DEF ReadInv
    <3>3. reads' \in Seq(BOOLEAN) /\ (unread' => CutShown')
      BY <2>1, <3>1, RowAdded DEF ReadInv, CutShown
    <3>4. Awaited' = Awaited
      BY <3>1 DEF Awaited
    <3> QED BY <2>1, <3>1, <3>2, <3>3, <3>4 DEF ReadInv
  <2> QED BY <2>2, <2>3
<1>5. CASE TooMany
  <2>1. PICK p \in queue : ~p.to.inline /\ queue' = queue \ {p}
    BY <1>5 DEF TooMany
  <2>2. /\ reading /\ reading' /\ row' = TRUE /\ unread' = TRUE /\ reads' = reads /\ docs' = docs /\ handed' = handed
        /\ report = Nothing /\ report' = Nothing
    BY <1>5 DEF TooMany, Stay, ReadInv
  <2>3. Octets(docs)' = Octets(docs) /\ Awaited' = Awaited
    BY <2>1, <2>2 DEF Octets, Awaited
  <2> QED BY <2>2, <2>3 DEF ReadInv, CutShown
<1>6. CASE FollowPointer
  BY <1>6, FollowKeeps
<1>7. CASE EndReference
  <2>1. /\ reading /\ queue = {} /\ queue' = queue /\ ~reading' /\ reads' = Append(reads, row) /\ docs' = docs
        /\ handed' = handed /\ unread' = unread /\ row' = row /\ report = Nothing /\ report' = Nothing
    BY <1>7 DEF EndReference, Stay, ReadInv
  <2>2. row \in BOOLEAN
    BY DEF ReadInv
  <2>3. reads' \in Seq(BOOLEAN) /\ (unread' => CutShown')
    BY <2>1, <2>2, RowAdded DEF ReadInv, CutShown
  <2>4. Octets(docs)' = Octets(docs) /\ Awaited' = Awaited
    BY <2>1 DEF Octets, Awaited
  <2> QED BY <2>1, <2>3, <2>4 DEF ReadInv
<1>8. CASE Judge
  <2>1. /\ refs = <<>> /\ refs' = <<>> /\ ~reading /\ ~reading' /\ docs' = docs /\ queue' = queue
        /\ reads' = reads /\ handed' = handed /\ unread' = unread /\ row' = row
    BY <1>8 DEF Judge
  <2>2. report'.truncated = ((\E i \in DOMAIN reads : reads[i]) /\ report'.verdict # "VERIFIED")
    BY <1>8 DEF Judge
  <2>3. Octets(docs)' = Octets(docs) /\ Awaited' = Awaited /\ Awaited = {} /\ CutShown' = CutShown
    BY <2>1 DEF Octets, Awaited, ReadInv, CutShown
  <2>4. UnreadIsNamed'
    BY <2>1, <2>2, <2>3 DEF UnreadIsNamed, ReadInv, CutShown
  <2> QED BY <2>1, <2>3, <2>4 DEF ReadInv
<1> QED BY <1>1, <1>2, <1>3, <1>4, <1>5, <1>6, <1>7, <1>8 DEF FindNext

(* Whatever carriers and relays hold, send or leave out, what a genuine    *)
(* entry handed over is judged, and a run that left something unread and   *)
(* does not verify says that it did.                                       *)
THEOREM UnreadIsSaid == FindSpec => []UnreadIsNamed
<1>1. FindInit => ReadInv
  <2> SUFFICES ASSUME FindInit PROVE ReadInv
    OBVIOUS
  <2>1. docs \in Seq(Octets(docs)) /\ reads \in Seq(BOOLEAN)
    BY DEF FindInit
  <2> QED BY <2>1 DEF FindInit, ReadInv
<1>2. ReadInv /\ [FindNext]_findVars => ReadInv'
  BY ReadStep
<1>3. ReadInv => UnreadIsNamed
  BY DEF ReadInv, UnreadIsNamed
<1> QED BY <1>1, <1>2, <1>3, PTL DEF FindSpec

------------------------------------------------------------------------------
(* Steps that extend one another are one log (cli/verify_history_chain.go). *)

(* What is the start of a start is the start.                              *)
LEMMA StartOfStart ==
  ASSUME NEW S, NEW a \in Seq(S), NEW b \in Seq(S), NEW c \in Seq(S), IsPrefix(a, b), IsPrefix(b, c)
  PROVE  IsPrefix(a, c)
<1>1. Len(a) \in Nat /\ Len(b) \in Nat /\ Len(c) \in Nat /\ Len(a) <= Len(b) /\ Len(b) <= Len(c)
  BY DEF IsPrefix
<1>2. \A k \in 1 .. Len(a) : a[k] = b[k]
  <2>1. SubSeq(a, 1, Len(a)) = SubSeq(b, 1, Len(a))
    BY DEF IsPrefix
  <2>2. ASSUME NEW k \in 1 .. Len(a) PROVE SubSeq(a, 1, Len(a))[k] = a[k] /\ SubSeq(b, 1, Len(a))[k] = b[k]
    BY <1>1, <2>2
  <2> QED
    BY <2>1, <2>2
<1>3. \A k \in 1 .. Len(b) : b[k] = c[k]
  <2>1. SubSeq(b, 1, Len(b)) = SubSeq(c, 1, Len(b))
    BY DEF IsPrefix
  <2>2. ASSUME NEW k \in 1 .. Len(b) PROVE SubSeq(b, 1, Len(b))[k] = b[k] /\ SubSeq(c, 1, Len(b))[k] = c[k]
    BY <1>1, <2>2
  <2> QED
    BY <2>1, <2>2
<1>4. \A k \in 1 .. Len(a) : a[k] = c[k]
  BY <1>1, <1>2, <1>3
<1>5. SubSeq(a, 1, Len(a)) = SubSeq(c, 1, Len(a))
  <2>1. SubSeq(a, 1, Len(a)) = [k \in 1 .. Len(a) |-> a[k]]
    BY <1>1
  <2>2. SubSeq(c, 1, Len(a)) = [k \in 1 .. Len(a) |-> c[k]]
    BY <1>1
  <2> QED
    BY <1>4, <2>1, <2>2
<1> QED
  BY <1>1, <1>5 DEF IsPrefix

(* A sequence is a start of itself.                                        *)
LEMMA StartOfItself ==
  ASSUME NEW S, NEW a \in Seq(S)
  PROVE  IsPrefix(a, a)
  BY DEF IsPrefix

(* A chain of checkpoints, and what a card and a commitment are made of.   *)
NonEmptyChains == {chain \in Seq(Statements) : chain # <<>>}

Cards == [envelope : BOOLEAN, signed : BOOLEAN, responder : Keys, form : BOOLEAN, inScope : BOOLEAN,
          answers : Requests, anchor : Statements, stream : Streams, chain : NonEmptyChains]

Staples == [label : Streams \cup {NoStream}, derivation : {"history_card/1", "standard_history/1", ""},
            digest : BOOLEAN, card : Cards]

StapledInv ==
  stapled # Nothing =>
    /\ DOMAIN stapled = {"form", "doc", "served", "copies"}
    /\ DOMAIN stapled.doc = {"key", "signed", "anchored", "anchor", "single", "staples"}
    /\ stapled.doc.staples \in Seq(Staples)

(* Of a chain whose checkpoints each extend the one before, the content of *)
(* each is the start of the content of every later one.                    *)
LEMMA ChainGrows ==
  ASSUME NEW chain \in Seq(Statements),
         \A i \in 2 .. Len(chain) : ~chainFailure(chain[i - 1], chain[i]),
         NEW i \in 1 .. Len(chain), NEW n \in i .. Len(chain)
  PROVE  IsPrefix(chain[i].content, chain[n].content)
<1> DEFINE Broken == {j \in i .. Len(chain) : ~IsPrefix(chain[i].content, chain[j].content)}
<1>1. \A j \in 1 .. Len(chain) : chain[j].content \in Seq(Nat)
  <2>1. ASSUME NEW j \in 1 .. Len(chain) PROVE chain[j].content \in Contents
    <3>1. chain[j] \in Statements
      BY <2>1
    <3> QED
      BY <3>1 DEF Statements
  <2> QED
    BY <2>1, ContentsAssumption
<1> SUFFICES ASSUME Broken # {} PROVE FALSE
  OBVIOUS
<1>2. PICK j \in Broken : \A m \in Broken : j <= m
  <2>1. Broken \in SUBSET Nat
    OBVIOUS
  <2> HIDE DEF Broken
  <2> QED
    BY <2>1, LeastOf
<1>3. j # i
  BY <1>1, <1>2, StartOfItself
<1>4. j - 1 \in i .. Len(chain) /\ j - 1 \notin Broken
  BY <1>2, <1>3
<1>5. IsPrefix(chain[i].content, chain[j - 1].content)
  BY <1>4
<1>6. IsPrefix(chain[j - 1].content, chain[j].content)
  BY <1>2, <1>3 DEF chainFailure
<1>7. IsPrefix(chain[i].content, chain[j].content)
  BY <1>1, <1>2, <1>4, <1>5, <1>6, StartOfStart
<1> QED
  BY <1>2, <1>7

(* A card whose chain passes, and holds the checkpoint a reader saw, ends  *)
(* in a content that starts with what that one committed to.               *)
LEMMA PinnedIsPrefix ==
  ASSUME NEW card \in Cards, NEW seen \in Contents,
         checkpointChecks(card, {})["checkpoint_consistency"] = Pass,
         extendsPin(chainOf(card), seen)
  PROVE  IsPrefix(seen, Last(card.chain).content)
<1> DEFINE chain == card.chain
<1>1. chain \in Seq(Statements)
  BY DEF Cards, NonEmptyChains
<1>2. chainOf(card) = chain /\ card.form /\ chain # <<>>
  BY DEF extendsPin, chainOf
<1>3. \A i \in 2 .. Len(chain) : ~chainFailure(chain[i - 1], chain[i])
  <2>1. checkpointChecks(card, {})["checkpoint_consistency"] =
          IF ~Readable(chain) THEN NotChecked
          ELSE Judged(\A i \in 2 .. Len(chain) : ~chainFailure(chain[i - 1], chain[i]))
    BY <1>2 DEF checkpointChecks, checkpointProperties, cardForm
  <2> QED
    BY <2>1 DEF Judged, Pass, Fail, NotChecked
<1>4. PICK i \in DOMAIN chain : chain[i].content = seen
  BY <1>2 DEF extendsPin
<1>5. IsPrefix(chain[i].content, chain[Len(chain)].content)
  <2>1. i \in 1 .. Len(chain) /\ Len(chain) \in i .. Len(chain)
    BY <1>1, <1>4
  <2> QED
    BY <1>1, <1>3, <2>1, ChainGrows
<1> QED
  BY <1>4, <1>5 DEF Last

(* What a carrier changes of a card, a staple or a commitment has its form.*)
LEMMA ChangedStatementsTyped ==
  ASSUME NEW s \in Statements
  PROVE  ChangedStatements(s) \subseteq Statements
  BY DEF ChangedStatements, Statements

(* Changed in one field or in one checkpoint, a card is still a card.      *)
LEMMA ChangedCardsTyped ==
  ASSUME NEW card \in Cards
  PROVE  ChangedCards(card) \subseteq Cards
<1>1. card.chain \in Seq(Statements) /\ card.chain # <<>> /\ Len(card.chain) \in DOMAIN card.chain
  BY DEF Cards, NonEmptyChains
<1>2. ASSUME NEW i \in DOMAIN card.chain, NEW s \in Statements
      PROVE  [card EXCEPT !.chain[i] = s] \in Cards /\ [card EXCEPT !.chain[i] = s, !.anchor = s] \in Cards
  <2>1. [card.chain EXCEPT ![i] = s] \in NonEmptyChains
    BY <1>1, <1>2 DEF NonEmptyChains
  <2> QED
    BY <2>1 DEF Cards
<1>3. \A i \in DOMAIN card.chain : ChangedStatements(card.chain[i]) \subseteq Statements
  BY <1>1, ChangedStatementsTyped
<1>4. Last(card.chain) = card.chain[Len(card.chain)]
  BY DEF Last
<1>5. \A c \in UNION {{[card EXCEPT !.chain[i] = t] : t \in ChangedStatements(card.chain[i])} : i \in DOMAIN card.chain} :
        c \in Cards
  <2> SUFFICES ASSUME NEW i \in DOMAIN card.chain, NEW t \in ChangedStatements(card.chain[i])
               PROVE  [card EXCEPT !.chain[i] = t] \in Cards
    OBVIOUS
  <2>1. t \in Statements
    BY <1>3
  <2> QED
    BY <1>2, <2>1
<1>6. \A c \in {[card EXCEPT !.chain[Len(card.chain)] = t, !.anchor = t] : t \in ChangedStatements(Last(card.chain))} :
        c \in Cards
  BY <1>1, <1>2, <1>3, <1>4
<1>7. \A c \in {[card EXCEPT !.envelope = FALSE], [card EXCEPT !.signed = FALSE], [card EXCEPT !.form = FALSE],
                [card EXCEPT !.inScope = FALSE]} : c \in Cards
  BY DEF Cards
<1>8. \A c \in {[card EXCEPT !.responder = k] : k \in Keys} \cup {[card EXCEPT !.stream = s] : s \in Streams} : c \in Cards
  BY DEF Cards
<1> QED
  BY <1>5, <1>6, <1>7, <1>8 DEF ChangedCards

(* Changed in its label or in its card, a staple is still a staple.        *)
LEMMA ChangedStaplesTyped ==
  ASSUME NEW staple \in Staples
  PROVE  ChangedStaples(staple) \subseteq Staples
<1>1. [staple EXCEPT !.digest = FALSE] \in Staples
  BY DEF Staples
<1>2. \A s \in Streams \cup {NoStream} : [staple EXCEPT !.label = s] \in Staples
  BY DEF Staples
<1>3. \A d \in {"", "standard_history/1"} : [staple EXCEPT !.derivation = d] \in Staples
  BY DEF Staples
<1>4. \A c \in ChangedCards(staple.card) : [staple EXCEPT !.card = c] \in Staples
  <2>1. ChangedCards(staple.card) \subseteq Cards
    BY ChangedCardsTyped DEF Staples
  <2> QED
    BY <2>1 DEF Staples
<1> QED
  BY <1>1, <1>2, <1>3, <1>4 DEF ChangedStaples

(* A changed commitment still has its fields and a sequence of staples.    *)
LEMMA ChangedCommitmentsTyped ==
  ASSUME NEW doc, DOMAIN doc = {"key", "signed", "anchored", "anchor", "single", "staples"},
         doc.staples \in Seq(Staples), doc.staples # <<>>, NEW other \in ChangedCommitments(doc)
  PROVE  DOMAIN other = DOMAIN doc /\ other.staples \in Seq(Staples)
<1>1. CASE other \in {[doc EXCEPT !.signed = FALSE], [doc EXCEPT !.anchored = FALSE], [doc EXCEPT !.single = TRUE],
                      [doc EXCEPT !.staples = <<>>], [doc EXCEPT !.staples = Append(@, doc.staples[1])]}
  <2>1. CASE other = [doc EXCEPT !.staples = <<>>]
    BY <2>1
  <2>2. CASE other = [doc EXCEPT !.staples = Append(doc.staples, doc.staples[1])]
    <3>1. doc.staples[1] \in Staples /\ other.staples = Append(doc.staples, doc.staples[1])
      BY <2>2
    <3>2. Append(doc.staples, doc.staples[1]) \in Seq(Staples)
      BY <3>1
    <3> QED
      BY <2>2, <3>1, <3>2
  <2>3. CASE other \in {[doc EXCEPT !.signed = FALSE], [doc EXCEPT !.anchored = FALSE], [doc EXCEPT !.single = TRUE]}
    BY <2>3
  <2> QED
    BY <1>1, <2>1, <2>2, <2>3
<1>2. CASE other \in {[doc EXCEPT !.key = k] : k \in Keys}
  BY <1>2
<1>3. CASE other \in UNION {{[doc EXCEPT !.staples[i] = t] : t \in ChangedStaples(doc.staples[i])} : i \in DOMAIN doc.staples}
  <2>1. PICK i \in DOMAIN doc.staples : \E t \in ChangedStaples(doc.staples[i]) : other = [doc EXCEPT !.staples[i] = t]
    BY <1>3
  <2>2. doc.staples[i] \in Staples
    BY <2>1
  <2>3. PICK t \in Staples : other = [doc EXCEPT !.staples[i] = t]
    BY <2>1, <2>2, ChangedStaplesTyped
  <2> QED
    BY <2>1, <2>3
<1> QED
  BY <1>1, <1>2, <1>3 DEF ChangedCommitments

(* A node signs a chain that grows, and staples its card once.             *)
LEMMA StapledInitInv == StapledInit => StapledInv
<1> SUFFICES ASSUME StapledInit PROVE StapledInv
  OBVIOUS
<1> DEFINE r == CHOOSE r \in Requests : TRUE
<1>1. PICK chain \in Chains, form \in {"commitment", "served"} :
        stapled = [form |-> form, doc |-> Commitment(Card(chain, r)), served |-> Served(chain, r), copies |-> {}]
  BY DEF StapledInit
<1>2. /\ r \in Requests /\ (CHOOSE k \in Keys : TRUE) \in Keys /\ (CHOOSE l \in Logs : TRUE) \in Logs
      /\ (CHOOSE s \in Streams : TRUE) \in Streams
  BY MadeOfAssumption
<1>3. \A c, d \in Contents : Statement(c, d) \in Statements
  BY <1>2 DEF Statement, Statements
<1>4. chain \in NonEmptyChains
  <2>1. CASE \E c \in Contents : chain = <<Statement(c, c)>>
    BY <1>3, <2>1 DEF NonEmptyChains
  <2>2. CASE \E d \in Contents \X Contents : chain = <<Statement(d[1], d[1]), Statement(d[2], d[1])>>
    BY <1>3, <2>2 DEF NonEmptyChains
  <2> QED
    BY <2>1, <2>2 DEF Chains
<1>5. Last(chain) \in Statements
  BY <1>4 DEF NonEmptyChains, Last
<1>6. Card(chain, r) \in Cards
  BY <1>2, <1>4, <1>5 DEF Card, Cards
<1>7. Commitment(Card(chain, r)).staples \in Seq(Staples)
  <2> DEFINE staple == [label |-> Card(chain, r).stream, derivation |-> "history_card/1", digest |-> TRUE,
                        card |-> Card(chain, r)]
  <2>1. staple \in Staples
    BY <1>6 DEF Staples, Cards
  <2>2. Commitment(Card(chain, r)).staples = <<staple>>
    BY DEF Commitment
  <2> HIDE DEF staple
  <2>3. <<staple>> \in Seq(Staples)
    BY <2>1
  <2> QED
    BY <2>2, <2>3
<1> QED
  BY <1>1, <1>7 DEF StapledInv, Commitment

(* Whatever a carrier changes or a reader is given, a commitment keeps its *)
(* form.                                                                   *)
LEMMA StapledStep == StapledInv /\ [StapledNext]_stapleVars => StapledInv'
<1> SUFFICES ASSUME StapledInv, [StapledNext]_stapleVars PROVE StapledInv'
  OBVIOUS
<1>1. CASE stapled # Nothing /\ ChangeCommitment
  <2>1. PICK doc \in ChangedCommitments(stapled.doc) : stapled' = [stapled EXCEPT !.doc = doc] /\ stapled.doc.staples # <<>>
    BY <1>1 DEF ChangeCommitment
  <2>2. DOMAIN doc = DOMAIN stapled.doc /\ doc.staples \in Seq(Staples)
    BY <1>1, <2>1, ChangedCommitmentsTyped DEF StapledInv
  <2> QED
    BY <1>1, <2>1, <2>2 DEF StapledInv
<1>2. CASE stapled # Nothing /\ GiveCopy
  <2>1. PICK copy : stapled' = [stapled EXCEPT !.copies = @ \cup {copy}]
    BY <1>2 DEF GiveCopy
  <2> QED
    BY <1>2, <2>1 DEF StapledInv
<1>3. CASE stapled # Nothing /\ ChangeServed
  <2>1. PICK card, r : stapled' = [stapled EXCEPT !.served.card = card, !.served.request = r, !.served.artifact = card.chain]
    BY <1>3 DEF ChangeServed
  <2>2. stapled'.doc = stapled.doc /\ DOMAIN stapled' = DOMAIN stapled
    BY <1>3, <2>1 DEF StapledInv
  <2> QED
    BY <1>3, <2>2 DEF StapledInv
<1>4. CASE UNCHANGED stapleVars
  BY <1>4 DEF stapleVars, StapledInv
<1> QED
  BY <1>1, <1>2, <1>3, <1>4 DEF StapledNext

(* No log that was forked, shortened or restarted passes as the log of a   *)
(* checkpoint that a reader holds, however long the chain of its card.     *)
THEOREM ForksNeverPass == StapledSpec => []NoForkPasses
<1>1. StapledInv => NoForkPasses
  <2> SUFFICES ASSUME StapledInv, stapled # Nothing, NEW i \in DOMAIN stapled.doc.staples, NEW seen \in Contents,
                      checkpointChecks(stapled.doc.staples[i].card, {})["checkpoint_consistency"] = Pass,
                      extendsPin(chainOf(stapled.doc.staples[i].card), seen)
               PROVE  IsPrefix(seen, Last(stapled.doc.staples[i].card.chain).content)
    BY DEF NoForkPasses
  <2>1. stapled.doc.staples[i].card \in Cards
    <3>1. stapled.doc.staples[i] \in Staples
      BY DEF StapledInv
    <3> QED
      BY <3>1 DEF Staples
  <2> QED
    BY <2>1, PinnedIsPrefix
<1> QED
  BY <1>1, StapledInitInv, StapledStep, PTL DEF StapledSpec

------------------------------------------------------------------------------
(* Every reader of a card judges it alike (cli/verify_history_staple.go).  *)

(* In the row of a staple nothing is absent but the request it is bound to *)
(* and the commitment's anchor; the former is, unless a check failed.      *)
LEMMA StapleStatuses ==
  ASSUME NEW doc, NEW staple, NEW counterparty, NEW accepted
  PROVE  LET judged == StapleRow(doc, staple, counterparty, accepted) IN
         /\ "request_binding" \in With(NotPresent, judged) \/ "envelope_signature" \in With(Fail, judged)
         /\ With(NotPresent, judged) \subseteq {"request_binding", "commitment_anchor"}
<1> DEFINE judged == StapleRow(doc, staple, counterparty, accepted)
           card   == cardChecks(staple.card, NoRequest, counterparty, accepted)
<1>1. /\ DOMAIN judged.properties = DOMAIN card.properties \cup stapleProperties
      /\ \A p \in DOMAIN judged.properties \ stapleProperties : judged.properties[p] = card.properties[p]
      /\ \A p \in stapleProperties \ {"commitment_anchor"} : judged.properties[p] \in {Pass, Fail, NotChecked}
  BY DEF StapleRow, cardChecks, stapleProperties, Judged, commitmentChecks
<1> HIDE DEF judged
<1>2. CASE ~staple.card.envelope
  <2>1. card.properties = [p \in {"envelope_signature"} |-> Fail]
    BY <1>2 DEF cardChecks
  <2> QED
    BY <1>1, <2>1 DEF With, stapleProperties, Pass, Fail, NotChecked, NotPresent, judged
<1>3. CASE staple.card.envelope
  <2>1. /\ "request_binding" \in DOMAIN card.properties /\ card.properties["request_binding"] = NotPresent
        /\ \A p \in DOMAIN card.properties \ {"request_binding"} : card.properties[p] \in {Pass, Fail, NotChecked}
    BY <1>3 DEF cardChecks, requestChecks, checkpointChecks, checkpointProperties, responderTrust, Judged, NoRequest
  <2> QED
    BY <1>1, <2>1 DEF With, stapleProperties, Pass, Fail, NotChecked, NotPresent, judged
<1> QED
  BY <1>2, <1>3

(* The two commands agree on the staples of any commitment.                *)
LEMMA CommandsDoAgree == \A reader : CommandsAgree(reader)
<1> SUFFICES ASSUME NEW reader PROVE CommandsAgree(reader)
  OBVIOUS
<1> DEFINE rows     == commitmentStapleRows(stapled.doc, reader[1], reader[2])
           failed(more) == stapleOutcome(rows, more) = "failed"
           anchored == \A i \in DOMAIN rows : "commitment_anchor" \in With(Pass, rows[i])
           missing(i) == With(NotPresent, rows[i]) \ {"request_binding"}
<1>1. ASSUME NEW i \in DOMAIN rows
      PROVE  /\ "request_binding" \in With(NotPresent, rows[i]) \/ "envelope_signature" \in With(Fail, rows[i])
             /\ With(NotPresent, rows[i]) \subseteq {"request_binding", "commitment_anchor"}
  BY StapleStatuses DEF commitmentStapleRows
<1> HIDE DEF rows
<1>2. \A more \in BOOLEAN : stapleOutcome(rows, more) =
        IF rows = <<>> THEN "input error"
        ELSE IF Accepted(rows) THEN "accepted"
        ELSE IF more \/ \E i \in DOMAIN rows : With(Fail, rows[i]) # {} \/ missing(i) # {} THEN "failed"
        ELSE IF \E i \in DOMAIN rows : (With(NotChecked, rows[i]) \ {"caller_invariance"}) \cup
                                       (stapleMustPass \ DOMAIN rows[i].properties) # {} THEN "checks not run"
        ELSE IF \E i \in DOMAIN rows : "request_binding" \in With(NotPresent, rows[i])
             THEN "answers no request" ELSE "failed"
  BY DEF stapleOutcome
<1>3. ASSUME stapleFailures(rows) # {}, NEW more \in BOOLEAN PROVE failed(more)
  <2>1. PICK i \in DOMAIN rows : With(Fail, rows[i]) # {}
    BY <1>3 DEF stapleFailures
  <2>2. rows # <<>> /\ ~Accepted(rows)
    BY <2>1 DEF Accepted
  <2> QED
    BY <1>2, <2>1, <2>2
<1>4. ASSUME failed(FALSE), anchored PROVE stapleFailures(rows) # {}
  <2>1. ASSUME NEW i \in DOMAIN rows PROVE missing(i) = {} /\ "commitment_anchor" \notin With(Fail, rows[i])
    BY <1>1, <1>4, <2>1 DEF With, Pass, Fail, NotPresent
  <2>2. PICK i \in DOMAIN rows : TRUE
    BY <1>2, <1>4 DEF Accepted
  <2>3. PICK j \in DOMAIN rows : With(Fail, rows[j]) # {}
    <3> SUFFICES ASSUME \A j \in DOMAIN rows : With(Fail, rows[j]) = {} PROVE FALSE
      OBVIOUS
    <3>1. "request_binding" \in With(NotPresent, rows[i])
      BY <1>1, <2>2
    <3> QED
      BY <1>2, <1>4, <2>1, <2>2, <3>1
  <2>4. PICK p : p \in With(Fail, rows[j]) /\ p # "commitment_anchor"
    BY <2>1, <2>3
  <2> QED
    BY <2>3, <2>4 DEF stapleFailures
<1> QED
  BY <1>3, <1>4 DEF CommandsAgree, rows

(* The status of a card among copies: what it rests on.                    *)
LEMMA StatusOfCopies ==
  ASSUME NEW staple, NEW copies, NEW key
  PROVE  LET same     == {x \in copies \ {staple} : SameQuestion(x, staple)}
             compared == Compared(staple, copies, key)
             differ   == \E x, y \in compared : x.artifact # y.artifact
             another  == \E x \in compared \ {staple} : x.request # staple.request
         IN callerInvariance(staple, copies, key).status =
              IF same = {} \/ ~Verifies(staple, key) THEN NotChecked
              ELSE IF differ THEN Fail
              ELSE IF Cardinality(compared) > 1 /\ another THEN Pass ELSE NotChecked
<1> DEFINE same     == {x \in copies \ {staple} : SameQuestion(x, staple)}
           compared == Compared(staple, copies, key)
           differ   == \E x, y \in compared : x.artifact # y.artifact
           another  == \E x \in compared \ {staple} : x.request # staple.request
           many     == Cardinality(compared) > 1
           result   == IF differ THEN Fail ELSE IF many THEN Pass ELSE NotChecked
<1>1. callerInvariance(staple, copies, key) =
        CASE same = {} -> [status |-> NotChecked, note |-> copies # {}]
          [] same # {} /\ ~Verifies(staple, key) -> [status |-> NotChecked, note |-> TRUE]
          [] OTHER -> IF result = Pass /\ ~another THEN [status |-> NotChecked, note |-> TRUE]
                      ELSE [status |-> result, note |-> result = NotChecked]
  BY DEF callerInvariance
<1> HIDE DEF same, compared, another, differ, many
<1>2. callerInvariance(staple, copies, key).status =
        IF same = {} \/ ~Verifies(staple, key) THEN NotChecked
        ELSE IF differ THEN Fail ELSE IF many /\ another THEN Pass ELSE NotChecked
  BY <1>1 DEF Pass, Fail, NotChecked
<1> QED
  BY <1>2 DEF same, compared, another, differ, many

(* A forged copy changes nothing, and a card passes only beside the same   *)
(* answer to another request, of any card and any copies.                  *)
LEMMA CopiesDoCount == \A reader : CopiesCount(reader)
<1> SUFFICES ASSUME NEW reader PROVE CopiesCount(reader)
  OBVIOUS
<1> DEFINE key     == reader[1]
           served  == stapled.served
           copies  == stapled.copies
           genuine == {x \in copies : Verifies(x, key)}
           same(cs)     == {x \in cs \ {served} : SameQuestion(x, served)}
           compared(cs) == Compared(served, cs, key)
           differ(cs)   == \E x, y \in compared(cs) : x.artifact # y.artifact
           another(cs)  == \E x \in compared(cs) \ {served} : x.request # served.request
           status(cs)   == callerInvariance(served, cs, key).status
<1>1. ASSUME NEW cs
      PROVE  status(cs) = IF same(cs) = {} \/ ~Verifies(served, key) THEN NotChecked
                          ELSE IF differ(cs) THEN Fail
                          ELSE IF Cardinality(compared(cs)) > 1 /\ another(cs) THEN Pass ELSE NotChecked
  BY StatusOfCopies
<1>2. compared(copies) = compared(genuine)
  BY DEF Compared
<1>3. ASSUME Verifies(served, key)
      PROVE  /\ served \in compared(copies)
             /\ \A x \in genuine : SameQuestion(x, served) => x \in compared(copies)
  BY <1>3 DEF Compared, Verifies, SameQuestion
<1>4. ASSUME NEW x \in compared(copies), x # served PROVE x \in genuine /\ x \in same(genuine) /\ x \in same(copies)
  BY <1>4 DEF Compared
<1> HIDE DEF key, served, copies
<1>5. status(copies) = status(genuine)
  <2>1. CASE ~Verifies(served, key)
    <3>1. status(copies) = NotChecked /\ status(genuine) = NotChecked
      BY <1>1, <2>1
    <3> QED
      BY <3>1
  <2>2. CASE Verifies(served, key) /\ same(genuine) # {}
    <3>1. same(copies) # {}
      BY <2>2
    <3> QED
      BY <1>1, <1>2, <2>2, <3>1
  <2>3. CASE Verifies(served, key) /\ same(genuine) = {}
    <3>1. compared(copies) = {served}
      BY <1>3, <1>4, <2>3
    <3>2. ~differ(copies) /\ ~another(copies)
      BY <3>1
    <3> HIDE DEF compared, differ, another, same
    <3>3. status(copies) = NotChecked /\ status(genuine) = NotChecked
      BY <1>1, <2>3, <3>2 DEF Fail, Pass, NotChecked
    <3> QED
      BY <3>3
  <2> QED
    BY <2>1, <2>2, <2>3
<1>6. status(copies) = Pass => \E x \in genuine : x.request # served.request /\ x.artifact = served.artifact
  <2> SUFFICES ASSUME status(copies) = Pass
               PROVE  \E x \in genuine : x.request # served.request /\ x.artifact = served.artifact
    OBVIOUS
  <2>1. Verifies(served, key) /\ ~differ(copies) /\ another(copies)
    BY <1>1 DEF Pass, Fail, NotChecked
  <2>2. PICK x \in compared(copies) \ {served} : x.request # served.request
    BY <2>1
  <2>3. x.artifact = served.artifact
    BY <1>3, <2>1, <2>2
  <2> QED
    BY <1>4, <2>2, <2>3
<1>7. servedOutcome(served, copies, key, reader[2]) = "accepted" =>
        \A x \in genuine : SameQuestion(x, served) => x.artifact = served.artifact
  <2> SUFFICES ASSUME servedOutcome(served, copies, key, reader[2]) = "accepted",
                      NEW x \in genuine, SameQuestion(x, served)
               PROVE  x.artifact = served.artifact
    OBVIOUS
  <2> DEFINE judged == ServedRow(served, copies, key, reader[2])
  <2>1. With(Fail, judged) = {} /\ stapleMustPass \subseteq With(Pass, judged)
    <3>1. Accepted(<<judged>>)
      BY DEF servedOutcome, stapleOutcome
    <3> HIDE DEF judged
    <3>2. DOMAIN <<judged>> = {1} /\ <<judged>>[1] = judged
      OBVIOUS
    <3> QED
      BY <3>1, <3>2 DEF Accepted
  <2>2. Verifies(served, key)
    <3>1. "responder_trust" \in With(Pass, judged) /\ "envelope_signature" \in With(Pass, judged)
      BY <2>1 DEF stapleMustPass
    <3>2. CASE ~served.card.envelope
      BY <3>1, <3>2 DEF ServedRow, cardChecks, With, Pass, Fail
    <3>3. CASE served.card.envelope
      <4>1. judged.properties["responder_trust"] = responderTrust(served.card, key)
            /\ judged.properties["envelope_signature"] = Judged(served.card.signed)
        <5> DEFINE card == cardChecks(served.card, served.request, key, reader[2])
        <5>1. {"responder_trust", "envelope_signature"} \subseteq DOMAIN card.properties
              /\ card.properties["responder_trust"] = responderTrust(served.card, key)
              /\ card.properties["envelope_signature"] = Judged(served.card.signed)
          <6> DEFINE asked == requestChecks(served.card, served.request)
                     own   == {"envelope_signature", "responder_trust", "subject_scope", "card_form"}
                     chain == checkpointChecks(served.card, reader[2])
          <6>1. card.properties =
                  [p \in own \cup DOMAIN asked \cup checkpointProperties |->
                     CASE p = "envelope_signature"   -> Judged(served.card.signed)
                       [] p = "responder_trust"      -> responderTrust(served.card, key)
                       [] p = "subject_scope"        -> Judged(served.card.inScope)
                       [] p = "card_form"            -> Judged(served.card.form)
                       [] p \in checkpointProperties -> chain[p]
                       [] OTHER                      -> asked[p]]
            BY <3>3 DEF cardChecks
          <6> HIDE DEF asked, chain, card
          <6> QED
            BY <6>1 DEF checkpointProperties
        <5>2. \A p \in DOMAIN card.properties \ {"caller_invariance"} : judged.properties[p] = card.properties[p]
          BY <3>3 DEF ServedRow, cardChecks
        <5> HIDE DEF card, judged
        <5> QED
          BY <5>1, <5>2
      <4>2. judged.properties["responder_trust"] = Pass /\ judged.properties["envelope_signature"] = Pass
        BY <3>1 DEF With
      <4> QED
        BY <3>3, <4>1, <4>2 DEF responderTrust, Judged, Pass, Fail, NotChecked, Verifies
    <3> QED
      BY <3>2, <3>3
  <2>3. status(copies) # Fail
    <3>1. "caller_invariance" \in DOMAIN judged.properties /\ judged.properties["caller_invariance"] = status(copies)
      BY DEF ServedRow, cardChecks
    <3> QED
      BY <2>1, <3>1 DEF With
  <2>4. CASE x = served
    BY <2>4
  <2>5. CASE x # served
    <3>1. ~differ(copies)
      BY <1>1, <1>3, <1>4, <2>2, <2>3, <2>5
    <3> QED
      BY <1>3, <2>2, <3>1
  <2> QED
    BY <2>4, <2>5
<1> QED
  BY <1>5, <1>6, <1>7 DEF CopiesCount, key, served, copies

(* The readers of the same cards agree, whatever its carrier changed.      *)
THEOREM AllReadersAgree == StapledSpec => []ReadersAgree
<1>1. ReadersAgree
  BY CopiesDoCount, CommandsDoAgree DEF ReadersAgree
<1> QED
  BY <1>1, PTL
=============================================================================
