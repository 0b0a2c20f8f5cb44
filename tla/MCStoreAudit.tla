---------------------------- MODULE MCStoreAudit ----------------------------
(* An audit of one namespace while a process publishes through it and      *)
(* appends through a profile with no artifact store; the second request    *)
(* cites the first.                                                        *)
EXTENDS StoreAudit

CONSTANTS c1, c2

MCParent == [c \in Capsules |-> IF c = c2 THEN c1 ELSE c]
=============================================================================
