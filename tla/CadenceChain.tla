----------------------------- MODULE CadenceChain -----------------------------
(***************************************************************************)
(* The witnessed chain of a deal's checkpoint (cli/deal_cadence.go,        *)
(* cli/deal_cadence_verify.go).  At each tick the deals' checkpoints are   *)
(* the leaves of a tree of fixed depth, at random positions, whose root is *)
(* one entry of the cadence log; a witness signs that log's checkpoints.   *)
(* A bundle carries the chain from its own checkpoint to such a receipt.   *)
(* A hash is the term it was made from.                                    *)
(***************************************************************************)
EXTENDS Naturals, Sequences, SequencesExt, FiniteSets

CONSTANTS
  Deals,
  Depth,         \* of the tree: 16
  MaxTicks,
  MaxSize,       \* of a deal's log
  MaxTampers,    \* fields of a chain that are changed
  NoChain

ASSUME CadenceAssumption == Depth \in Nat \ {0} /\ MaxTicks \in Nat /\ MaxSize \in Nat \ {0} /\ MaxTampers \in Nat

VARIABLES
  ticks,     \* each tick: size and position of every deal, and its published checkpoint was receipted
  sizes,     \* of the deals' logs
  chain,     \* the bundle given away: its checkpoint and its chain
  tampers

cadenceVars == <<ticks, sizes, chain, tampers>>

Holder == "holder"

(* A position shifted right, bit by bit: that of its node on each level.   *)
Shifted(i) ==
  LET shift[n \in 0..Depth] == IF n = 0 THEN i ELSE shift[n - 1] \div 2
  IN shift

(* The positions below 2^Depth.                                            *)
Slots == {i \in 0..2^Depth : Shifted(i)[Depth] = 0}

Salt(tick, d) == <<tick, d>>

(* A deal's signed checkpoint; its root is known by the fork it is on.     *)
DealCheckpoint(d, size) == [log |-> d, size |-> size, fork |-> "main", key |-> Holder]

CadenceLeaf(log, size, statement, salt) == <<"leaf", log, size, statement, salt>>
CadenceNode(left, right) == <<"node", left, right>>
EmptyLeaf(slot) == <<"empty", slot>>

CadenceInit ==
  /\ ticks = <<>> /\ chain = NoChain /\ tampers = 0
  /\ sizes = [d \in Deals |-> 1]

------------------------------------------------------------------------------
(* The holder's side, a plugin's.                                          *)
LeafAt(k, slot) ==
  LET tick == ticks[k]
      here == {d \in Deals : tick.slot[d] = slot}
  IN IF here = {} THEN EmptyLeaf(slot)
     ELSE LET d == CHOOSE d \in here : TRUE IN
          CadenceLeaf(d, tick.size[d], DealCheckpoint(d, tick.size[d]), Salt(k, d))

(* The nodes of one level of a tick's tree, from the leaves up.            *)
Levels(k) ==
  LET level[n \in 0..Depth] ==
        IF n = 0 THEN [s \in Slots |-> LeafAt(k, s)]
        ELSE [s \in {Shifted(i)[n] : i \in Slots} |-> CadenceNode(level[n - 1][2 * s], level[n - 1][2 * s + 1])]
  IN level

RootOf(k) == Levels(k)[Depth][0]

Sibling(i) == IF i % 2 = 0 THEN i + 1 ELSE i - 1
PathOf(k, slot) == [n \in 1..Depth |-> Levels(k)[n - 1][Sibling(Shifted(slot)[n - 1])]]

CadenceCheckpoint(k) == [log |-> "cadence", entries |-> [i \in 1..k |-> RootOf(i)], key |-> Holder]

Tick ==
  /\ chain = NoChain /\ Len(ticks) < MaxTicks
  /\ \E slot \in [Deals -> Slots], receipt \in BOOLEAN :
       /\ \A d, e \in Deals : d # e => slot[d] # slot[e]
       /\ ticks' = Append(ticks, [slot |-> slot, size |-> sizes, receipt |-> receipt])
  /\ UNCHANGED <<sizes, chain, tampers>>

DealStep ==
  /\ chain = NoChain /\ ticks # <<>>
  /\ \E d \in Deals : sizes[d] < MaxSize /\ sizes' = [sizes EXCEPT ![d] = @ + 1]
  /\ UNCHANGED <<ticks, chain, tampers>>

(* The chain of tick k for the deal, in part when the deal has gone on.    *)
GiveBundle ==
  /\ chain = NoChain
  /\ \E d \in Deals, k \in DOMAIN ticks :
       chain' = [checkpoint |-> DealCheckpoint(d, sizes[d]), verified |-> TRUE,
                 part    |-> ticks[k].size[d] < sizes[d],
                 earlier |-> DealCheckpoint(d, ticks[k].size[d]), earlierSigned |-> TRUE, proof |-> TRUE,
                 log |-> d, size |-> ticks[k].size[d], index |-> ticks[k].slot[d], salt |-> Salt(k, d),
                 path |-> PathOf(k, ticks[k].slot[d]),
                 cadence |-> CadenceCheckpoint(k), named |-> "cadence", signed |-> TRUE, entry |-> k]
  /\ UNCHANGED <<ticks, sizes, tampers>>

Tampered ==
  {[chain EXCEPT !.verified = FALSE], [chain EXCEPT !.part = ~chain.part], [chain EXCEPT !.proof = FALSE],
   [chain EXCEPT !.signed = FALSE], [chain EXCEPT !.cadence.key = "another"],
   [chain EXCEPT !.earlierSigned = FALSE], [chain EXCEPT !.named = "another"],
   [chain EXCEPT !.checkpoint.key = "another"], [chain EXCEPT !.checkpoint.fork = "fork"],
   [chain EXCEPT !.path = Reverse(chain.path)], [chain EXCEPT !.path = Tail(chain.path)]} \cup
  {[chain EXCEPT !.index = i] : i \in 0..(2^(Depth + 1) - 1)} \cup
  {[chain EXCEPT !.size = n, !.checkpoint.size = n] : n \in 1..MaxSize} \cup
  (UNION {{[chain EXCEPT !.earlier = DealCheckpoint(d, n), !.log = d, !.size = n] : n \in 1..MaxSize} : d \in Deals}) \cup
  {[chain EXCEPT !.checkpoint.log = d, !.log = d] : d \in Deals} \cup
  (UNION {{[chain EXCEPT !.salt = Salt(k, d)] : k \in DOMAIN ticks} : d \in Deals}) \cup
  {[chain EXCEPT !.entry = k, !.cadence = CadenceCheckpoint(k)] : k \in DOMAIN ticks} \cup
  UNION {{[chain EXCEPT !.index = ticks[k].slot[d], !.path = PathOf(k, ticks[k].slot[d]), !.salt = Salt(k, d)] :
            k \in DOMAIN ticks} : d \in Deals}

ChangeChain ==
  /\ chain # NoChain /\ tampers < MaxTampers
  /\ chain' \in Tampered /\ chain' # chain
  /\ tampers' = tampers + 1 /\ UNCHANGED <<ticks, sizes>>

CadenceNext == Tick \/ DealStep \/ GiveBundle \/ ChangeChain

CadenceSpec == CadenceInit /\ [][CadenceNext]_cadenceVars
------------------------------------------------------------------------------
(* The check.                                                              *)

(* The root that a leaf, its position and its path give.                   *)
cadenceFold(leaf, index, path) ==
  LET fold[n \in 0..Len(path)] ==
        IF n = 0 THEN leaf
        ELSE IF Shifted(index)[n - 1] % 2 = 0 THEN CadenceNode(fold[n - 1], path[n])
                                              ELSE CadenceNode(path[n], fold[n - 1])
  IN fold[Len(path)]

(* A consistency proof verifies for two sizes of one history.              *)
VerifyConsistency(old, new) == chain.proof /\ old.fork = new.fork

earlierFailure ==
  LET prior == chain.earlier deal == chain.checkpoint IN
  \/ ~chain.earlierSigned
  \/ prior.key # deal.key \/ prior.log # deal.log \/ prior.size >= deal.size
  \/ ~VerifyConsistency(prior, deal)

(* Mutant of leafFailure: the position is not bounded.                     *)
leafUnbounded(statement) ==
  \/ chain.log # statement.log \/ chain.size # statement.size
  \/ Len(chain.path) # Depth

(* The leaf must name the checkpoint, and have one position in the tree.   *)
leafFailure(statement) ==
  \/ chain.log # statement.log \/ chain.size # statement.size
  \/ chain.index \notin Slots
  \/ Len(chain.path) # Depth

(* A witness of the directory signed a receipt for the cadence checkpoint. *)
receiptsClaim(cadence) ==
  IF \E k \in DOMAIN ticks : ticks[k].receipt /\ cadence = CadenceCheckpoint(k) THEN "pass" ELSE "not_shown"

VerifyHexInclusion(cadence, entry, root) ==
  entry \in DOMAIN cadence.entries /\ cadence.entries[entry] = root

cadenceClaim ==
  LET statement == IF chain.part THEN chain.earlier ELSE chain.checkpoint
      leaf      == CadenceLeaf(chain.log, chain.size, statement, chain.salt)
  IN CASE ~chain.verified -> "withheld"
       [] chain.verified /\ chain.part /\ earlierFailure -> "fail"
       [] chain.verified /\ ~(chain.part /\ earlierFailure) /\ leafFailure(statement) -> "fail"
       [] OTHER ->
            IF \/ ~chain.signed \/ chain.cadence.key # statement.key \/ chain.named # chain.cadence.log
               \/ ~VerifyHexInclusion(chain.cadence, chain.entry, cadenceFold(leaf, chain.index, chain.path))
            THEN "fail" ELSE receiptsClaim(chain.cadence)
------------------------------------------------------------------------------
(* A chain that passes is the deal's own: at the tick it names, the deal's *)
(* checkpoint, or an earlier one that its own extends, was the leaf at that*)
(* very position and no other, and a witness signed the cadence log that   *)
(* far; and one that nothing was done to passes as soon as its tick was    *)
(* receipted, wherever in the tree its leaf is (cadenceClaim, cadenceFold).*)
ChainIsTheDeals ==
  chain # NoChain =>
    /\ tampers = 0 => cadenceClaim = receiptsClaim(chain.cadence)
    /\ cadenceClaim = "pass" =>
         LET k == chain.entry d == chain.checkpoint.log IN
         /\ k \in DOMAIN ticks /\ d \in Deals
         /\ ticks[k].slot[d] = chain.index
         /\ ticks[k].size[d] <= chain.checkpoint.size
         /\ chain.part \/ ticks[k].size[d] = chain.checkpoint.size
         /\ chain.checkpoint.key = Holder /\ chain.checkpoint.fork = "main"
         /\ \E j \in k..Len(ticks) : ticks[j].receipt
==============================================================================
