--------------------------- MODULE MCPluginDispatch ---------------------------
(* One name, two roots, the other one first; a plugin that keeps its log,  *)
(* one that names itself so and does not, a stranger, and a late answer.   *)
EXTENDS PluginDispatch, FiniteSets, TLC

B(name, core, answers, keeps) == [name |-> name, core |-> core, answers |-> answers, keeps |-> keeps]
Keeper   == B("a", "v1", "yes", {"a"})
Stranger == B("b", NoCore, "yes", {})
Late     == B("a", "v0", "late", {})
MCBuilds == {Keeper, Stranger, Late}
MCHostFiles == {File(b) : b \in MCBuilds} \cup {[File(Keeper) EXCEPT !.regular = FALSE], [File(Keeper) EXCEPT !.trusted = FALSE]}

(* Bound: of two managing commands and a routed one, two are under way at  *)
(* any time; one that ended counts until the power goes or it begins anew. *)
TwoAtOnce ==
  Cardinality({m \in Managers : job[m].pc # "idle"}) + (IF cmd.pc \in {"idle", "served"} THEN 0 ELSE 1) <= 2
Symmetry == Permutations(Managers)
MCAtFirst == {Absent, File(Keeper)}
MCRoots == <<"shared", "system", "user">>
=============================================================================
