----------------------------- MODULE MCHostFiles -----------------------------
(* Three protocols over files that other processes write too, which share  *)
(* nothing: the marker of a store (two plugins' sessions, one core command *)
(* and one update), the heal of the plugin root's path, and the profile    *)
(* files and data directories of MCProfileFiles.  Of the heal's objects    *)
(* m1 and m2 are the user's, g the user's with a foreign setgid, r root's  *)
(* and sticky like /tmp; the path is a directory above HOME, HOME and one  *)
(* below it.  An initial state is of one of the three, and it alone steps. *)
EXTENDS MCStoreOwnership, UserRootHeal, MCProfileFiles

VARIABLE protocol

MCPath   == <<"above", "home", "below">>
MCOwner  == [o \in Objects |-> IF o = "r" THEN "root" ELSE "me"]
MCModes  == {[o \in Objects |-> CASE o = "m1" -> x [] o = "m2" -> y [] OTHER -> Bits] :
               x, y \in {Bits, {"read"}}}
MCPlaces == {("above" :> "r" @@ "home" :> "m1" @@ "below" :> x) : x \in {"m2", "g", Link}}

AllSymmetry == Symmetry \cup FilesSymmetry

NoStoreUse ==
  /\ legacy = FALSE /\ table = FALSE /\ row = Core /\ lock = NoOne /\ writes = {}
  /\ owner   = [p \in Profiles |-> Core]
  /\ core    = [c \in Cores |-> CoreIdle]
  /\ session = [s \in Sessions |-> SessionIdle]
  /\ update  = [u \in Updates |-> UpdateIdle]

NoHeal ==
  /\ at = [place \in Dirs |-> Link] /\ mode = [o \in Objects |-> {}]
  /\ heal = [p \in Heals |-> Fresh("idle", FALSE)] /\ host = 0 /\ faults = 0

NoFiles ==
  /\ file = [m \in Names |-> NoFile] /\ dir = [q \in Paths |-> NoStore] /\ journal = {}
  /\ holder = [s \in Stores |-> NoProc] /\ mishaps = 0 /\ kept = {} /\ remade = {}
  /\ pc = [p \in Procs |-> "idle"] /\ job = [p \in Procs |-> NoJob]

InitOfOne ==
  \/ protocol = "store" /\ Init /\ NoHeal /\ NoFiles
  \/ protocol = "heal" /\ HealInit /\ NoStoreUse /\ NoFiles
  \/ protocol = "profiles" /\ FilesInit /\ NoStoreUse /\ NoHeal

NextOfOne ==
  \/ protocol = "store" /\ Next /\ UNCHANGED <<healVars, fileVars, protocol>>
  \/ protocol = "heal" /\ HealNext /\ UNCHANGED <<vars, fileVars, protocol>>
  \/ protocol = "profiles" /\ FilesNext /\ UNCHANGED <<vars, healVars, protocol>>

SpecOfOne == InitOfOne /\ [][NextOfOne]_<<vars, healVars, fileVars, protocol>>
==============================================================================
