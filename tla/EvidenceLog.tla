---------------------------- MODULE EvidenceLog ----------------------------
(***************************************************************************)
(* What publication promises, with no processes, failures or retries in    *)
(* it: a record is kept before its id enters the log through its           *)
(* namespace, an id enters once, and a user is only ever told of an entry  *)
(* that stands.  Publication implements it (PublicationRefines).           *)
(***************************************************************************)
EXTENDS Naturals, Sequences

CONSTANTS Capsules, Namespaces, NoNamespace

VARIABLES
  kept,   \* <<namespace, capsule>> pairs whose record was stored
  log,    \* capsule ids in sequence order
  via,    \* the namespace each entry came through
  told,   \* publications reported
  out     \* disclosures whose bundle was handed out

vars == <<kept, log, via, told, out>>

Entered(c)  == \E i \in 1..Len(log) : log[i] = c
Backed(c, n) == n = NoNamespace \/ <<n, c>> \in kept

Init == kept = {} /\ log = <<>> /\ via = <<>> /\ told = {} /\ out = {}

Keep(n, c) ==
  /\ kept' = kept \cup {<<n, c>>}
  /\ UNCHANGED <<log, via, told, out>>

Enter(c, n) ==
  /\ ~Entered(c) /\ Backed(c, n)
  /\ log' = Append(log, c)
  /\ via' = Append(via, n)
  /\ UNCHANGED <<kept, told, out>>

Tell(i, n) ==
  /\ Backed(log[i], n)
  /\ told' = told \cup {[capsule |-> log[i], ns |-> n, seq |-> i]}
  /\ UNCHANGED <<kept, log, via, out>>

HandOut(c) ==
  /\ Entered(c)
  /\ out' = out \cup {c}
  /\ UNCHANGED <<kept, log, via, told>>

Next ==
  \/ \E n \in Namespaces, c \in Capsules : Keep(n, c)
  \/ \E c \in Capsules, n \in Namespaces \cup {NoNamespace} : Enter(c, n)
  \/ \E i \in 1..Len(log), n \in Namespaces \cup {NoNamespace} : Tell(i, n)
  \/ \E c \in Capsules : HandOut(c)

Spec == Init /\ [][Next]_vars
=============================================================================
