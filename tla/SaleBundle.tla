------------------------------ MODULE SaleBundle ------------------------------
(***************************************************************************)
(* The threads of a sale bundle (cli/deal_sale_bundle.go): the user's log  *)
(* of one sale holds a registration per thread, the openings and the cuts; *)
(* a copy of the sale carries the threads' own bundles, and verify --bundle*)
(* says whether it shows each of them whole.  Commitments are known by what*)
(* they open to, and a thread by its records, of which the last is named.  *)
(***************************************************************************)
EXTENDS Naturals, Sequences, SequencesExt, FiniteSets

CONSTANTS
  Threads,
  MaxSteps,    \* steps of a thread
  MaxLog,      \* records of the sale's log
  MaxEdits,    \* parts of a copy that are left out or changed
  NoSale       \* no sale, no copy

ASSUME SaleAssumption == MaxSteps \in Nat /\ MaxLog \in Nat /\ MaxEdits \in Nat /\ IsFiniteSet(Threads)

VARIABLES
  sale,   \* the sale's log, and the steps of each thread
  copy,   \* a copy of it, given away
  edits

saleVars == <<sale, copy, edits>>

Registration(t) == [kind |-> "thread", of |-> t]
Opening(t)      == [kind |-> "thread_opened", of |-> t]
SaleCut(steps)  == [kind |-> "sale_cut", heads |-> steps]
OtherRecord(kind) == [kind |-> kind]

SaleInit ==
  /\ sale = [log |-> <<OtherRecord("task_authority"), OtherRecord("sale")>>,
             steps |-> [t \in Threads |-> 0]]
  /\ copy = NoSale /\ edits = 0

------------------------------------------------------------------------------
(* The user's side, a plugin's: the log grows until a copy is made.        *)
HasIn(log, record) == \E i \in DOMAIN log : log[i] = record

SaleGrows(record) ==
  /\ copy = NoSale /\ Len(sale.log) < MaxLog
  /\ sale' = [sale EXCEPT !.log = Append(@, record)]
  /\ UNCHANGED <<copy, edits>>

RegisterThread ==
  \E t \in Threads : ~HasIn(sale.log, Registration(t)) /\ SaleGrows(Registration(t))

OpenThread ==
  \E t \in Threads :
    /\ HasIn(sale.log, Registration(t)) /\ ~HasIn(sale.log, Opening(t))
    /\ copy = NoSale /\ Len(sale.log) < MaxLog
    /\ sale' = [log |-> Append(sale.log, Opening(t)), steps |-> [sale.steps EXCEPT ![t] = 1]]
    /\ UNCHANGED <<copy, edits>>

StepThread ==
  \E t \in Threads :
    /\ copy = NoSale /\ sale.steps[t] \in 1..(MaxSteps - 1)
    /\ sale' = [sale EXCEPT !.steps[t] = @ + 1]
    /\ UNCHANGED <<copy, edits>>

(* A cut commits to the head of each thread that is open.                  *)
CutSale == SaleGrows(SaleCut(sale.steps))

(* A thread's own bundle: whose it is, of which sale, up to which record.  *)
ThreadBundle(t, steps) == [of |-> t, sale |-> "this", last |-> steps, verdict |-> "VALID"]

Listed(t) ==
  [registration |-> t, thread |-> t, nonce |-> TRUE, opened |-> TRUE, head |-> sale.steps[t],
   member |-> IF sale.steps[t] = 0 THEN "never_opened" ELSE "present"]

Registered(log) ==
  LET regs == SelectSeq(log, LAMBDA r : r.kind = "thread") IN [i \in DOMAIN regs |-> regs[i].of]

GiveSaleCopy ==
  /\ copy = NoSale
  /\ copy' = [shown   |-> DOMAIN sale.log,
              listed  |-> [i \in DOMAIN Registered(sale.log) |-> Listed(Registered(sale.log)[i])],
              section |-> TRUE, predate |-> FALSE,
              carried |-> [t \in {t \in Threads : sale.steps[t] > 0} |-> ThreadBundle(t, sale.steps[t])]]
  /\ UNCHANGED <<sale, edits>>

(* What whoever hands it on leaves out or changes.                         *)
EditCopy(changed) ==
  /\ copy # NoSale /\ edits < MaxEdits
  /\ changed # copy
  /\ copy' = changed /\ edits' = edits + 1 /\ UNCHANGED sale

Without(seq, i) == SubSeq(seq, 1, i - 1) \o SubSeq(seq, i + 1, Len(seq))

WithholdRecord == copy # NoSale /\ \E i \in copy.shown : EditCopy([copy EXCEPT !.shown = @ \ {i}])

OmitThread ==
  copy # NoSale /\ \E i \in DOMAIN copy.listed :
    EditCopy([copy EXCEPT !.listed = Without(@, i),
                          !.carried = [t \in DOMAIN @ \ {copy.listed[i].thread} |-> @[t]]])

ChangeEntry ==
  copy # NoSale /\ \E i \in DOMAIN copy.listed :
    \E e \in {[copy.listed[i] EXCEPT !.nonce = FALSE], [copy.listed[i] EXCEPT !.opened = FALSE],
              [copy.listed[i] EXCEPT !.member = "unknown"]} \cup
             {[copy.listed[i] EXCEPT !.thread = t] : t \in Threads} \cup
             {[copy.listed[i] EXCEPT !.head = n] : n \in 0..MaxSteps} :
      EditCopy([copy EXCEPT !.listed[i] = e])

(* A thread said not to have been opened, or to be missing, is not carried.*)
Demote ==
  copy # NoSale /\ \E i \in DOMAIN copy.listed, m \in {"missing", "never_opened"} :
    EditCopy([copy EXCEPT !.listed[i].member = m,
                          !.carried = [t \in DOMAIN @ \ {copy.listed[i].thread} |-> @[t]]])

ChangeCarried ==
  copy # NoSale /\ \E t \in DOMAIN copy.carried :
    \E b \in {[copy.carried[t] EXCEPT !.last = n] : n \in 1..sale.steps[copy.carried[t].of]} \cup
             {[copy.carried[t] EXCEPT !.sale = "other"]} \cup
             {[copy.carried[t] EXCEPT !.verdict = v] : v \in {"INCOMPLETE", "INVALID"}} \cup
             {ThreadBundle(u, sale.steps[u]) : u \in {u \in Threads : sale.steps[u] > 0}} :
      EditCopy([copy EXCEPT !.carried[t] = b])

(* An earlier copy of a thread, with the entry that was right for it.      *)
OlderThread ==
  copy # NoSale /\ \E i \in DOMAIN copy.listed :
    LET t == copy.listed[i].thread IN
    /\ t \in DOMAIN copy.carried
    /\ \E n \in 1..(copy.carried[t].last - 1) :
         EditCopy([copy EXCEPT !.listed[i].head = n, !.carried[t].last = n])

ChangeSection ==
  copy # NoSale /\ \E c \in {[copy EXCEPT !.section = FALSE, !.listed = <<>>], [copy EXCEPT !.predate = TRUE]} : EditCopy(c)
------------------------------------------------------------------------------
(* The check.                                                              *)

Positions(kind) == {i \in copy.shown : sale.log[i].kind = kind}

(* The registrations the copy shows, in the order of the log.              *)
registrations == LET shown == SetToSortSeq(Positions("thread"), <) IN
                 [k \in DOMAIN shown |-> sale.log[shown[k]].of]

(* Records the bundle certifies and does not show.                         *)
undisclosed == DOMAIN sale.log \ copy.shown

openedBy == {sale.log[i].of : i \in Positions("thread_opened")}

LatestShownCut ==
  LET cuts == Positions("sale_cut") IN
  IF cuts = {} THEN 0 ELSE CHOOSE i \in cuts : \A j \in cuts : j <= i

(* Mutant of cutRead: the latest cut shown is taken for the latest.        *)
cutShown == LatestShownCut # 0

(* A record that is not shown and comes after it may be a later cut.       *)
cutRead == LatestShownCut # 0 /\ \A i \in undisclosed : i < LatestShownCut

(* A thread that was not open at the cut has no head in it.                *)
cutHeads ==
  IF cutRead THEN [t \in {t \in Threads : sale.log[LatestShownCut].heads[t] > 0} |-> sale.log[LatestShownCut].heads[t]]
  ELSE [t \in {} |-> 0]

isSale == Positions("sale") # {} /\ Positions("task_authority") # {}

Matches(i) == i \in DOMAIN registrations /\ copy.listed[i].registration = registrations[i]

Opens(e) == e.nonce /\ e.thread = e.registration

(* What is wrong with an entry of sale_threads.                            *)
entryFailure(i) ==
  LET e == copy.listed[i] IN
  \/ ~Matches(i)
  \/ e.member \notin {"present", "never_opened", "missing"}
  \/ e.member \in {"present", "never_opened"} /\ ~Opens(e)
  \/ e.member = "never_opened" /\ (e.registration \in openedBy \/ e.registration \in DOMAIN cutHeads)

entryNotShown(i) ==
  \/ copy.listed[i].member = "missing"
  \/ copy.listed[i].member = "never_opened" /\ undisclosed # {}

presentEntry(t) ==
  {i \in DOMAIN copy.listed :
     Matches(i) /\ copy.listed[i].member = "present" /\ Opens(copy.listed[i]) /\ copy.listed[i].thread = t}

presentThreads == {t \in Threads : presentEntry(t) # {}}

(* A carried thread is the registered one, and under this sale.            *)
threadBinding(t, bundle) == bundle.of = t /\ bundle.sale = "this"

threadFailure(t) ==
  LET bundle == copy.carried[t]
      e      == copy.listed[CHOOSE i \in presentEntry(t) : TRUE]
  IN \/ t \notin presentThreads
     \/ /\ t \in presentThreads
        /\ \/ bundle.verdict \notin {"VALID", "INCOMPLETE"}
           \/ ~threadBinding(t, bundle)
           \/ t \in openedBy /\ ~e.opened
           \/ t \in DOMAIN cutHeads /\ ~(e.head = cutHeads[t] /\ bundle.last = e.head)

threadNotShown(t) ==
  \/ copy.carried[t].verdict = "INCOMPLETE"
  \/ t \notin openedBy
  \/ cutRead /\ t \notin DOMAIN cutHeads

saleBundleEntry ==
  LET failed ==
        \/ ~isSale
        \/ Len(copy.listed) # Len(registrations)
        \/ \E i \in DOMAIN copy.listed : entryFailure(i)
        \/ Cardinality(DOMAIN copy.carried) # Cardinality(presentThreads)
        \/ \E t \in DOMAIN copy.carried : threadFailure(t)
      notShown ==
        \/ copy.predate \/ ~copy.section
        \/ \E i \in DOMAIN copy.listed : entryNotShown(i)
        \/ \E t \in DOMAIN copy.carried : t \in presentThreads /\ threadNotShown(t)
        \/ ~cutRead /\ presentThreads # {}
  IN CASE failed -> "fail"
       [] ~failed /\ notShown -> "incomplete"
       [] OTHER -> "pass"

SaleNext ==
  \/ RegisterThread \/ OpenThread \/ StepThread \/ CutSale
  \/ GiveSaleCopy
  \/ WithholdRecord \/ OmitThread \/ ChangeEntry \/ Demote \/ ChangeCarried \/ OlderThread \/ ChangeSection

SaleSpec == SaleInit /\ [][SaleNext]_saleVars
------------------------------------------------------------------------------
LatestCut == LET cuts == {i \in DOMAIN sale.log : sale.log[i].kind = "sale_cut"} IN
             IF cuts = {} THEN 0 ELSE CHOOSE i \in cuts : \A j \in cuts : j <= i

(* A copy that passes shows each thread it lists as it was: its own records*)
(* up to the latest cut of the sale's log, or that it was never opened,    *)
(* whatever was withheld and changed (cli/deal_sale_bundle.go:46 "a copy   *)
(* cut short", saleBundleEntry and threadBinding).                         *)
ListedIsWhole ==
  copy # NoSale =>
    (saleBundleEntry = "pass" =>
       \A i \in DOMAIN copy.listed :
         LET t == copy.listed[i].registration IN
         \/ /\ t \in DOMAIN copy.carried
            /\ copy.carried[t].of = t /\ copy.carried[t].sale = "this"
            /\ LatestCut # 0 /\ copy.carried[t].last = sale.log[LatestCut].heads[t]
         \/ ~HasIn(sale.log, Opening(t)) /\ t \notin DOMAIN copy.carried)

(* cli/deal_sale_bundle.go:32 "every thread registration on the sale log   *)
(* the bundle certifies has exactly one sale_threads entry that opens it": *)
(* what a copy that passes says of its certified log.                      *)
EveryRegistrationListed ==
  copy # NoSale =>
    (saleBundleEntry = "pass" =>
       \A t \in Threads : HasIn(sale.log, Registration(t)) =>
         Cardinality({i \in DOMAIN copy.listed : copy.listed[i].registration = t}) = 1)
==============================================================================
