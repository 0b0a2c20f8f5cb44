--------------------------- MODULE MCProfileFiles ---------------------------
(* One profile n of a jsonl store at d, two retired names for it, places e *)
(* and f to move the data to, and another name k a profile may be made     *)
(* under.  Processes and new paths are interchangeable.                     *)
EXTENDS ProfileFiles, TLC

CONSTANTS n, r1, r2, k, d, e, f, a1, t1, z1

Profile(owner) == [owner |-> owner, data |-> d, settings |-> t1]
Only(profile)  == [m \in Names |-> IF m = n THEN profile ELSE NoFile]

MCRetiredOf  == [m \in Names |-> IF m = n THEN <<r1, r2>> ELSE <<>>]
MCOffered    == {[name |-> k, file |-> [owner |-> "cll", data |-> q, settings |-> t1]] : q \in Paths}
NoneOffered  == {}
Declared     == {Only(Profile("cll")), Only(Profile(z1))}
Holding(s)   == [q \in Paths |-> IF q = d THEN s ELSE NoStore]
AStore       == {Holding(a1)}
MaybeAStore  == AStore \cup {Holding(NoStore)}

FilesSymmetry == Permutations(Procs) \cup Permutations({e, f})
=============================================================================
