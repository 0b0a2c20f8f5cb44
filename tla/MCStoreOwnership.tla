--------------------------- MODULE MCStoreOwnership ---------------------------
(* Two plugins' sessions, one core command and one or two updates on one   *)
(* store, one of whose profiles has no log_id; each kind of process is     *)
(* interchangeable among its own.                                          *)
EXTENDS StoreOwnership, TLC

Symmetry ==
  Permutations(Cores) \cup Permutations(Sessions) \cup Permutations(Updates)
    \cup Permutations(Plugins)
=============================================================================
