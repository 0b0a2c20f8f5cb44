------------------------------ MODULE PluginRoot ------------------------------
(***************************************************************************)
(* The plugin roots and the two commands that change the per-user one,     *)
(* `plugin install` and `plugin remove` (cli/plugin_install.go), with the  *)
(* discovery their reports are about (cli/plugin.go).  A command looks at  *)
(* the other roots and at the name it will use, then changes the           *)
(* directory, then syncs it: other commands, the host and a power loss come *)
(* in between.  A launcher is the build in it: the name and release its    *)
(* handshake gives, and whether it answers.                                *)
(***************************************************************************)
EXTENDS Naturals, Sequences

CONSTANTS
  Managers,   \* running install and remove commands
  Roots,      \* the plugin roots in the order of the search, User among them
  User,       \* the per-user root
  Names,      \* names a plugin may have
  Reserved,   \* those that are core commands
  Builds,     \* [name, core, answers, keeps]; a name outside Names is no name
  Release,    \* this core's release, Development for a build of none
  Development,
  HostFiles,  \* files the host may put on a root
  AtFirst,    \* what the other roots may hold at the start
  Absent,     \* no file
  Unchecked,  \* the other roots that lie on a path another user could change
  MaxTrouble  \* bound: changes the host makes, kills, power losses and
              \* operations that fail

NoCore == "no core version"
Answer == [yes |-> {TRUE}, no |-> {FALSE}, late |-> BOOLEAN]
File(b) == [build |-> b, regular |-> TRUE, trusted |-> TRUE]
Files   == [build : Builds, regular : BOOLEAN, trusted : BOOLEAN]
RootSet == {Roots[i] : i \in 1 .. Len(Roots)}

ASSUME RootAssumption  == User \in RootSet /\ Unchecked \subseteq RootSet \ {User}
ASSUME NameAssumption  == Reserved \subseteq Names
ASSUME BuildAssumption == \A b \in Builds : b.answers \in DOMAIN Answer /\ b.keeps \subseteq Names
ASSUME HostAssumption  == HostFiles \subseteq Files /\ Absent \notin Files
                          /\ AtFirst \subseteq Files \cup {Absent}
ASSUME PluginBounds    == MaxTrouble \in Nat
ASSUME ManagerAssumption == "host" \notin Managers

VARIABLES
  root,     \* the per-user root's directory: absent, safe or unsafe
  kept,     \* that directory itself would survive a power loss
  dir,      \* what is under each name of each root
  disk,     \* what of the per-user root would survive a power loss
  temp,     \* the temporary files of the per-user root, by the command that made it
  job,      \* each command
  host, faults

pluginVars == <<root, kept, dir, disk, temp, job, host, faults>>
files      == <<root, kept, dir, disk, temp>>

Idle == [pc |-> "idle", op |-> "none", name |-> "none", build |-> Absent,
         says |-> "none", moved |-> FALSE, lost |-> FALSE, killed |-> FALSE]

PluginInit ==
  /\ root \in {"absent", "safe", "unsafe"}
  /\ kept = (root # "absent")
  /\ dir \in [RootSet -> [Names -> AtFirst]] /\ dir[User] = [n \in Names |-> Absent]
  /\ disk = dir[User]
  /\ temp = {}
  /\ job  = [m \in Managers |-> Idle]
  /\ host = 0 /\ faults = 0

----------------------------------------------------------------------------
(* The trust walk of a launcher, CheckedTrustedPath: a regular file that   *)
(* it and every directory up to its root only this user and root can       *)
(* change; below the per-user root, also that root's own path.             *)
CheckedTrustedPath(r, n) ==
  /\ dir[r][n] # Absent
  /\ dir[r][n].regular /\ dir[r][n].trusted
  /\ r = User => root = "safe"

(* The handshake: does it answer in time, and with the name it must have.  *)
Answers(b)           == Answer[b.answers]
pluginMetadata(b, n) == {a /\ b.name = n : a \in Answers(b)}

(* What discovery makes of a file: a set, for a handshake may be late.     *)
Accepts(r, n) == IF CheckedTrustedPath(r, n) THEN pluginMetadata(dir[r][n].build, n) ELSE {FALSE}

(* Mutant of candidateLauncher: a launcher that was not inspected is none. *)
candidateLauncherBlind(r, n) ==
  IF CheckedTrustedPath(r, n) /\ r \notin Unchecked
  THEN {IF a THEN "accepted" ELSE "none" : a \in pluginMetadata(dir[r][n].build, n)}
  ELSE {"none"}

candidateLauncher(r, n) ==
  IF ~CheckedTrustedPath(r, n) THEN {"none"}
  ELSE IF r \in Unchecked      THEN {"unsafe"}
  ELSE {IF a THEN "accepted" ELSE "none" : a \in pluginMetadata(dir[r][n].build, n)}

(* The order of the search: the first root with an accepted launcher wins; *)
(* one listed again has its first place.                                   *)
Position(r)  == CHOOSE i \in 1 .. Len(Roots) : Roots[i] = r /\ \A j \in 1 .. i - 1 : Roots[j] # r
before(r)    == {Roots[i] : i \in 1 .. Position(r) - 1}
otherRoots   == RootSet \ {User}

----------------------------------------------------------------------------
(* Commands.  A command that is not idle goes on or is killed.  History:   *)
(* `moved' says that another root, or the per-user root's path, changed    *)
(* after the command looked, `lost' that another changed its name since.   *)
At(m, step)      == job[m].pc = step
Go(m, step)      == job' = [job EXCEPT ![m].pc = step]
Ended            == {"idle", "ok", "unsynced"}
Running(m)       == job[m].pc \notin Ended

(* Mutant of Refuse: the temporary file is left.                           *)
RefuseLeaving(m) == job' = [job EXCEPT ![m] = Idle]

(* An install that is refused removes its temporary file on the way out.   *)
Refuse(m) == job' = [job EXCEPT ![m] = IF m \in temp THEN [Idle EXCEPT !.pc = "cleanup"] ELSE Idle]

Changed(who, r, n) == [m \in Managers |->
  IF job[m].name # n THEN job[m]
  ELSE IF r # User THEN [job[m] EXCEPT !.moved = TRUE]
  ELSE [job[m] EXCEPT !.lost = m # who]]

(* installRoot: the path is checked before anything is made and again      *)
(* after; remove creates nothing.                                          *)
BeginInstall(m, b) ==
  /\ job[m].pc \in Ended
  /\ m \notin temp
  /\ root # "unsafe"
  /\ job' = [job EXCEPT ![m] = [Idle EXCEPT !.pc = "root", !.op = "install", !.build = b]]
  /\ UNCHANGED <<files, host, faults>>

BeginRemove(m, n) ==
  /\ job[m].pc \in Ended
  /\ m \notin temp
  /\ root = "safe"
  /\ job' = [job EXCEPT ![m] = [Idle EXCEPT !.pc = "look", !.op = "remove", !.name = n]]
  /\ UNCHANGED <<files, host, faults>>

MakeRoot(m) ==
  /\ At(m, "root")
  /\ IF root = "unsafe" THEN Refuse(m) /\ UNCHANGED root
     ELSE Go(m, "stage") /\ root' = "safe"
  /\ UNCHANGED <<kept, dir, disk, temp, host, faults>>

(* stageInRoot: a temporary file of its own, which no search looks at.     *)
stageInRoot(m) ==
  /\ At(m, "stage")
  /\ temp' = temp \cup {m}
  /\ Go(m, "staged")
  /\ UNCHANGED <<root, kept, dir, disk, host, faults>>

stageFails(m) ==
  /\ At(m, "stage")
  /\ host + faults < MaxTrouble
  /\ faults' = faults + 1
  /\ Refuse(m)
  /\ UNCHANGED <<files, host>>

(* finishInstall, up to the search: handshake, name, core release.         *)
VersionOK(b, allow) == b.core = NoCore \/ Release = Development \/ b.core = Release \/ allow
Installable(b, allow) == b.name \in Names \ Reserved /\ VersionOK(b, allow)

Examine(m) ==
  /\ At(m, "staged")
  /\ \E answered \in Answers(job[m].build), allow \in BOOLEAN :
       IF answered /\ Installable(job[m].build, allow)
       THEN job' = [job EXCEPT ![m].name = job[m].build.name, ![m].pc = "search"]
       ELSE Refuse(m)
  /\ UNCHANGED <<files, host, faults>>

(* The search for an earlier launcher of the name.                         *)
SearchEarlier(m) ==
  /\ At(m, "search")
  /\ \E found \in [before(User) -> {"none", "unsafe", "accepted"}] :
       /\ \A r \in before(User) : found[r] \in candidateLauncher(r, job[m].name)
       /\ IF \A r \in before(User) : found[r] = "none"
          THEN job' = [job EXCEPT ![m].pc = "look", ![m].says = User, ![m].moved = (root # "safe")]
          ELSE Refuse(m)
  /\ UNCHANGED <<files, host, faults>>

(* The destination is looked at before it is changed, by both commands: a  *)
(* file that is not regular is left alone, and remove needs one.           *)
Replaceable(f) == IF f = Absent THEN TRUE ELSE f.regular

LookAtName(m) ==
  /\ At(m, "look")
  /\ LET there == dir[User][job[m].name] IN
       IF Replaceable(there) /\ (job[m].op = "remove" => there # Absent)
       THEN Go(m, "change") ELSE Refuse(m)
  /\ UNCHANGED <<files, host, faults>>

(* The commit points: the rename of the temporary file, which replaces any *)
(* file but not a directory, and the removal.                              *)
Put(m, n, f) ==
  /\ dir' = [dir EXCEPT ![User][n] = f]
  /\ job' = [Changed(m, User, n) EXCEPT ![m].pc = IF job[m].op = "install" THEN "sync" ELSE "report"]

Rename(m) ==
  /\ At(m, "change") /\ job[m].op = "install"
  /\ m \in temp
  /\ Replaceable(dir[User][job[m].name])
  /\ temp' = temp \ {m}
  /\ Put(m, job[m].name, File(job[m].build))
  /\ UNCHANGED <<root, kept, disk, host, faults>>

Remove(m) ==
  /\ At(m, "change") /\ job[m].op = "remove"
  /\ dir[User][job[m].name] # Absent
  /\ Put(m, job[m].name, Absent)
  /\ UNCHANGED <<root, kept, disk, temp, host, faults>>

ChangeFails(m) ==
  /\ At(m, "change")
  /\ \/ job[m].op = "install" /\ ~Replaceable(dir[User][job[m].name])
     \/ job[m].op = "remove" /\ dir[User][job[m].name] = Absent
  /\ Refuse(m)
  /\ UNCHANGED <<files, host, faults>>

(* Remove's report of what would be selected now: the first of the other   *)
(* roots, in order, whose launcher is accepted, or may be.                 *)
SearchOthers(m) ==
  /\ At(m, "report")
  /\ \E found \in [otherRoots -> {"none", "unsafe", "accepted"}] :
       /\ \A r \in otherRoots : found[r] \in candidateLauncher(r, job[m].name)
       /\ LET hits  == {r \in otherRoots : found[r] # "none"}
              first == CHOOSE r \in hits : before(r) \cap hits = {}
          IN job' = [job EXCEPT ![m].pc = "sync", ![m].moved = FALSE,
                       ![m].says = IF hits = {} THEN "none"
                                   ELSE IF found[first] = "unsafe" THEN "unsure" ELSE first]
  /\ UNCHANGED <<files, host, faults>>

(* Mutant of syncRootDir: no sync, or one whose error is not looked at.    *)
syncIgnored(m) ==
  /\ At(m, "sync")
  /\ Go(m, "ok")
  /\ UNCHANGED <<files, host, faults>>

(* The sync of the root's directory, after which success is reported.      *)
syncRootDir(m) ==
  /\ At(m, "sync")
  /\ disk' = dir[User]
  /\ Go(m, "ok")
  /\ UNCHANGED <<root, kept, dir, temp, host, faults>>

syncFails(m) ==
  /\ At(m, "sync")
  /\ host + faults < MaxTrouble
  /\ faults' = faults + 1
  /\ Go(m, "unsynced")
  /\ UNCHANGED <<files, host>>

(* installOperand's deferred removal of the temporary file.                *)
Cleanup(m) ==
  /\ At(m, "cleanup")
  /\ temp' = temp \ {m}
  /\ job' = [job EXCEPT ![m] = Idle]
  /\ UNCHANGED <<root, kept, dir, disk, host, faults>>

Kill(m) ==
  /\ Running(m)
  /\ host + faults < MaxTrouble
  /\ faults' = faults + 1
  /\ job' = [job EXCEPT ![m] = [Idle EXCEPT !.killed = TRUE]]
  /\ UNCHANGED <<files, host>>

----------------------------------------------------------------------------
(* The world outside: an operator puts or takes a file, the per-user root's *)
(* path is loosened, the power goes.  A name not synced is then as it is or *)
(* as it was, and so is the directory, whose own parents nobody syncs.     *)
HostPut(r, n, f) ==
  /\ host + faults < MaxTrouble
  /\ r = User => root # "absent"
  /\ dir[r][n] # f
  /\ host' = host + 1
  /\ dir'  = [dir EXCEPT ![r][n] = f]
  /\ disk' = IF r = User THEN [disk EXCEPT ![n] = f] ELSE disk
  /\ job'  = Changed("host", r, n)
  /\ UNCHANGED <<root, kept, temp, faults>>

HostLoosens ==
  /\ host + faults < MaxTrouble
  /\ root = "safe"
  /\ host' = host + 1
  /\ root' = "unsafe"
  /\ job'  = [m \in Managers |-> [job[m] EXCEPT !.moved = TRUE]]
  /\ UNCHANGED <<kept, dir, disk, temp, faults>>

PowerLoss ==
  /\ host + faults < MaxTrouble
  /\ faults' = faults + 1
  /\ \E lost \in IF kept THEN {FALSE} ELSE BOOLEAN, back \in SUBSET Names :
       /\ root' = IF lost THEN "absent" ELSE root
       /\ kept' = ~lost /\ root # "absent"
       /\ disk' = [n \in Names |-> IF lost THEN Absent ELSE IF n \in back THEN disk[n] ELSE dir[User][n]]
       /\ temp' = IF lost THEN {} ELSE temp
  /\ dir' = [dir EXCEPT ![User] = disk']
  /\ job' = [m \in Managers |-> [Idle EXCEPT !.killed = job[m].killed \/ Running(m)]]
  /\ UNCHANGED host

Manage(m) ==
  \/ \E b \in Builds : BeginInstall(m, b)
  \/ \E n \in Names : BeginRemove(m, n)
  \/ MakeRoot(m) \/ stageInRoot(m) \/ stageFails(m) \/ Examine(m) \/ SearchEarlier(m)
  \/ LookAtName(m) \/ Rename(m) \/ Remove(m) \/ ChangeFails(m) \/ SearchOthers(m)
  \/ syncRootDir(m) \/ syncFails(m) \/ Cleanup(m) \/ Kill(m)

Host ==
  \/ \E r \in RootSet, n \in Names, f \in HostFiles \cup {Absent} : HostPut(r, n, f)
  \/ HostLoosens

----------------------------------------------------------------------------
Steps == {"idle", "root", "stage", "staged", "search", "look", "change", "report", "sync",
          "cleanup", "ok", "unsynced"}

PluginTypeOK ==
  /\ root \in {"absent", "safe", "unsafe"} /\ kept \in BOOLEAN
  /\ dir  \in [RootSet -> [Names -> Files \cup {Absent}]]
  /\ disk \in [Names -> Files \cup {Absent}]
  /\ temp \in SUBSET Managers
  /\ \A m \in Managers :
       /\ job[m].pc \in Steps /\ job[m].op \in {"none", "install", "remove"}
       /\ job[m].op = "install" => job[m].build \in Builds

(* A success that install or remove reported is on disk: no power loss     *)
(* takes it back while nobody else changes that name (finishInstall syncs  *)
(* the directory after its rename, and says so if it cannot).              *)
Wanted(m) == IF job[m].op = "install" THEN File(job[m].build) ELSE Absent

AckedIsDurable ==
  \A m \in Managers : job[m].pc = "ok" /\ ~job[m].lost =>
    /\ disk[job[m].name] = Wanted(m)
    /\ dir[User][job[m].name] = Wanted(m)

(* A temporary file is left behind only by a command that was killed: every *)
(* refusal removes it (installOperand), and the rename takes it away.      *)
NoLitter == \A m \in temp : Running(m) \/ job[m].killed

(* What install and remove report as the launcher that runs is the one     *)
(* discovery selects, for as long as nothing they looked at changes and    *)
(* every handshake answers alike each time (candidateLauncher against      *)
(* discoverPluginsAndRefusals).                                            *)
Steady(n)   == \A r \in RootSet : dir[r][n] # Absent => dir[r][n].build.answers # "late"
Selected(n) ==
  LET hits == {r \in RootSet : TRUE \in Accepts(r, n)}
  IN IF hits = {} THEN "none" ELSE CHOOSE r \in hits : before(r) \cap hits = {}

ReportHolds ==
  \A m \in Managers :
    LET n == job[m].name IN
    /\ job[m].pc \in {"ok", "unsynced"} /\ ~job[m].moved /\ ~job[m].lost
      /\ job[m].says # "unsure" /\ Steady(n)
      => Selected(n) = job[m].says
=============================================================================
