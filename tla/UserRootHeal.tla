---------------------------- MODULE UserRootHeal ----------------------------
(***************************************************************************)
(* The heal of the per-user plugin root's path (cli/user_root_heal.go)     *)
(* that doctor, plugin install and the scheduled cadence run: it walks the *)
(* path, opens what the walk refused and judges what it opened, then takes *)
(* group and other write away, and the caller walks the path again.  A     *)
(* host may change or replace a directory at any point, and several heals  *)
(* may run.  Each look at a directory and each chmod is one step.  A mode  *)
(* is what group and others may do; links on the path are not followed.    *)
(***************************************************************************)
EXTENDS Naturals, Sequences

CONSTANTS
  Heals,      \* running commands that heal
  Path,       \* the directories of the root's path, in the order of the walk
  Below,      \* those at or below HOME
  Objects,    \* directories that may be found there
  Link,       \* a link, which the walk cannot resolve and the heal not open
  Owner,      \* me, root or other
  Sticky,     \* objects with the sticky bit
  Foreign,    \* objects setgid to a group this process is not in
  Places,     \* what may be found at each place of the path at the start
  Modes,      \* the modes objects may have at the start
  MaxHost,    \* bound: changes the host makes
  MaxFaults   \* bound: chmods that fail

Turns == 1 .. Len(Path)
Dirs  == {Path[i] : i \in Turns}

Bits  == {"read", "write"}

ASSUME PathAssumption   == Len(Path) \in Nat \ {0} /\ Below \subseteq Dirs
ASSUME ObjectAssumption == /\ Link \notin Objects
                           /\ Owner \in [Objects -> {"me", "root", "other"}]
                           /\ Sticky \subseteq Objects /\ Foreign \subseteq Objects
ASSUME PlacesAssumption == Places \subseteq [Dirs -> Objects \cup {Link}]
ASSUME ModesAssumption  == Modes \subseteq [Objects -> SUBSET Bits]
ASSUME BoundAssumption  == MaxHost \in Nat /\ MaxFaults \in Nat

VARIABLES
  at,      \* what is at each place now
  mode,    \* what group and others may do with each object
  heal,    \* each heal: where it is, what it found, opened and changed
  host, faults

healVars == <<at, mode, heal, host, faults>>

Fresh(step, able) ==
  [pc |-> step, i |-> 1, found |-> {}, opened |-> {}, changed |-> FALSE,
   failed |-> FALSE, quiet |-> TRUE, able |-> able]

HealInit ==
  /\ at   \in Places
  /\ mode \in Modes
  /\ heal = [p \in Heals |-> Fresh("idle", FALSE)]
  /\ host = 0 /\ faults = 0

----------------------------------------------------------------------------
(* checkTrustedComponent, a root-owned sticky directory allowed.           *)
Mine(o)     == Owner[o] \in {"me", "root"}
TrustedDir(d)  ==
  /\ at[d] # Link
  /\ Mine(at[d])
  /\ "write" \in mode[at[d]] => Owner[at[d]] = "root" /\ at[d] \in Sticky
Writable(d) == at[d] # Link /\ Mine(at[d]) /\ ~TrustedDir(d)

(* The preflight's judgement of an object it has opened.                   *)
MayTighten(o) == Owner[o] = "me" /\ o \notin Sticky /\ o \notin Foreign

(* Whether a heal could do it all, were it alone.                          *)
CanHeal == \A d \in Dirs : TrustedDir(d) \/ (d \in Below /\ Writable(d) /\ MayTighten(at[d]))

(* healUserRoot begins with the walk, userRootAncestryProblems.            *)
Begin(p) ==
  /\ heal[p].pc \in {"idle", "trusted", "refused"}
  /\ heal' = [heal EXCEPT ![p] = Fresh("walk", CanHeal)]
  /\ UNCHANGED <<at, mode, host, faults>>

Doing(p, step) == heal[p].pc = step /\ heal[p].i \in Turns
Done(p, step)  == heal[p].pc = step /\ heal[p].i \notin Turns
Here(p)        == Path[heal[p].i]
Goto(p, step)  == heal' = [heal EXCEPT ![p].pc = step, ![p].i = 1]

(* One directory of a walk, the heal's or the caller's after it.           *)
Problem(d) == [dir |-> d, hopeless |-> ~Writable(d) \/ d \notin Below]

Walk(p) ==
  /\ \E step \in {"walk", "recheck"} : Doing(p, step)
  /\ heal' = [heal EXCEPT ![p].i = @ + 1,
       ![p].found = IF TrustedDir(Here(p)) THEN @ ELSE @ \cup {Problem(Here(p))}]
  /\ UNCHANGED <<at, mode, host, faults>>

(* healProblems refuses at once what is not only writable, or not below    *)
(* HOME; with nothing found the caller looks again and goes on.            *)
Walked(p) ==
  /\ Done(p, "walk")
  /\ Goto(p, IF heal[p].found = {} THEN "recheck"
              ELSE IF \E x \in heal[p].found : x.hopeless THEN "refused" ELSE "open")
  /\ UNCHANGED <<at, mode, host, faults>>

WasFound(p, d) == \E x \in heal[p].found : x.dir = d

Skip(p) ==
  /\ Doing(p, "open") /\ ~WasFound(p, Here(p))
  /\ heal' = [heal EXCEPT ![p].i = @ + 1]
  /\ UNCHANGED <<at, mode, host, faults>>

(* Preflight opens each directory, following no link from HOME down, and   *)
(* judges what it opened; one it may not tighten refuses the heal.         *)
CanOpen(p) == \A j \in 1 .. heal[p].i : Path[j] \in Below => at[Path[j]] # Link
Opened(p)  == [dir |-> Here(p), object |-> at[Here(p)], mode |-> mode[at[Here(p)]]]

PreflightIf(p, good) ==
  /\ Doing(p, "open") /\ WasFound(p, Here(p))
  /\ IF CanOpen(p) /\ good
       THEN heal' = [heal EXCEPT ![p].i = @ + 1, ![p].opened = @ \cup {Opened(p)}]
       ELSE Goto(p, "refused")
  /\ UNCHANGED <<at, mode, host, faults>>

(* Mutants of Preflight: it goes by what the walk said; it has no use for  *)
(* a directory another heal tightened first.                               *)
PreflightUnjudged(p) == PreflightIf(p, TRUE)
PreflightRefusesTight(p) == PreflightIf(p, MayTighten(at[Here(p)]) /\ "write" \in mode[at[Here(p)]])

Preflight(p) == PreflightIf(p, MayTighten(at[Here(p)]))

Preflown(p) ==
  /\ Done(p, "open")
  /\ Goto(p, "apply")
  /\ UNCHANGED <<at, mode, host, faults>>

(* One directory of the apply loop: one that was tight when it was opened  *)
(* is left alone, the others get the mode they had then, less write.       *)
Target(p, t) == Doing(p, "apply") /\ t \in heal[p].opened /\ t.dir = Here(p)

LeaveTight(p) ==
  /\ Doing(p, "apply")
  /\ \A t \in heal[p].opened : t.dir = Here(p) => "write" \notin t.mode
  /\ heal' = [heal EXCEPT ![p].i = @ + 1]
  /\ UNCHANGED <<at, mode, host, faults>>

Chmod(p, t) ==
  /\ Target(p, t) /\ "write" \in t.mode
  /\ mode' = [mode EXCEPT ![t.object] = t.mode \ {"write"}]
  /\ heal' = [heal EXCEPT ![p].i = @ + 1, ![p].changed = TRUE]
  /\ UNCHANGED <<at, host, faults>>

ChmodFails(p, t) ==
  /\ Target(p, t) /\ "write" \in t.mode
  /\ faults < MaxFaults /\ faults' = faults + 1
  /\ heal' = [heal EXCEPT ![p].i = @ + 1, ![p].failed = TRUE]
  /\ UNCHANGED <<at, mode, host>>

(* A heal that failed on everything it was to change says so; after any    *)
(* other the caller walks the path again.                                  *)
Applied(p) ==
  /\ Done(p, "apply")
  /\ heal' = [heal EXCEPT ![p].i = 1, ![p].found = {},
       ![p].pc = IF heal[p].failed /\ ~heal[p].changed THEN "refused" ELSE "recheck"]
  /\ UNCHANGED <<at, mode, host, faults>>

LastWalk(p) ==
  /\ Done(p, "recheck")
  /\ Goto(p, IF heal[p].found = {} THEN "trusted" ELSE "refused")
  /\ UNCHANGED <<at, mode, host, faults>>

(* The host changes a mode, or puts another object in a directory's place. *)
Host ==
  /\ host < MaxHost /\ host' = host + 1
  /\ heal' = [p \in Heals |-> [heal[p] EXCEPT !.quiet = FALSE]]
  /\ UNCHANGED faults

Remode(o, m) ==
  /\ Host /\ m # mode[o]
  /\ mode' = [mode EXCEPT ![o] = m]
  /\ UNCHANGED at

Replace(d, o) ==
  /\ Host /\ (o = Link \/ \A e \in Dirs : at[e] # o)
  /\ at' = [at EXCEPT ![d] = o]
  /\ UNCHANGED mode

----------------------------------------------------------------------------
HealStep(p) ==
  \/ Walk(p) \/ Walked(p) \/ Skip(p) \/ Preflight(p) \/ Preflown(p) \/ LeaveTight(p)
  \/ \E t \in heal[p].opened : Chmod(p, t) \/ ChmodFails(p, t)
  \/ Applied(p) \/ LastWalk(p)

HealNext ==
  \/ \E p \in Heals : Begin(p) \/ HealStep(p)
  \/ \E o \in Objects, m \in SUBSET Bits : Remode(o, m)
  \/ \E d \in Dirs, o \in Objects \cup {Link} : Replace(d, o)

HealSpec == HealInit /\ [][HealNext]_healVars

----------------------------------------------------------------------------
(* cli/user_root_heal.go:21 "it can only tighten directories the process   *)
(* owns under $HOME": what a heal changes is a directory it opened below   *)
(* HOME, found its own and may tighten, although the host may have put     *)
(* another there since the walk or since; it gives nothing the directory   *)
(* did not have when it was opened; and it changes nothing before it has   *)
(* opened all the walk refused, so that a refused heal changed nothing.    *)
Tightened(p, o) ==
  /\ \E t \in heal[p].opened :
       t.object = o /\ t.dir \in Below /\ mode'[o] = t.mode \ {"write"}
  /\ MayTighten(o)
  /\ \A x \in heal[p].found : \E t \in heal[p].opened : t.dir = x.dir

OnlyTightens ==
  [][\A o \in Objects : mode'[o] # mode[o] /\ host' = host
       => \E p \in Heals : heal'[p] # heal[p] /\ Tightened(p, o)]_healVars

(* A heal that could do it, with no failed chmod and a host that left the  *)
(* path alone while it ran, ends with a path the walk accepts, also when   *)
(* other heals did part of the work under it.                              *)
HealsWhatItCan ==
  \A p \in Heals :
    heal[p].pc \in {"trusted", "refused"} /\ heal[p].able /\ heal[p].quiet /\ ~heal[p].failed
      => heal[p].pc = "trusted" /\ \A d \in Dirs : TrustedDir(d)
=============================================================================
