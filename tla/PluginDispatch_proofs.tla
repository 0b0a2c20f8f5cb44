----------------------- MODULE PluginDispatch_proofs -----------------------
(***************************************************************************)
(* Theorems about PluginRoot and PluginDispatch for any roots, names,      *)
(* builds, any number of managing commands and any trouble.  A command     *)
(* that has changed its name knows, until another changes it, what is      *)
(* there, and after its sync what a power loss would leave there; one that *)
(* reports which launcher runs knows it of the roots until they change.    *)
(***************************************************************************)
EXTENDS PluginDispatch, WellFoundedInduction, TLAPS

Fields == {"pc", "op", "name", "build", "says", "moved", "lost", "killed"}

(* A command's record: an install has its build, past the search a command *)
(* has its name, and only a remove reports.                                *)
Good(j) ==
  /\ DOMAIN j = Fields
  /\ j.pc \in Steps /\ j.lost \in BOOLEAN /\ j.killed \in BOOLEAN
  /\ j.pc \in {"root", "stage", "staged", "search"} => j.op = "install" /\ j.build \in Builds
  /\ j.pc \in {"look", "change", "sync", "ok", "unsynced"} =>
       j.op = "remove" \/ (j.op = "install" /\ j.build \in Builds)
  /\ j.pc = "report" => j.op = "remove"
  /\ j.pc \in {"search", "look", "change", "report", "sync", "ok", "unsynced"} => j.name \in Names

(* Whose temporary file there is: never one that is done with it.          *)
Tidy(m, j, files_) ==
  m \in files_ =>
    /\ j.op # "remove"
    /\ j.pc \notin {"root", "stage", "report", "sync", "ok", "unsynced"}
    /\ j.pc = "idle" => j.killed

(* What a command has put under its name is there, and lasts once it is    *)
(* synced, until another changes the name.                                 *)
Want(j) == IF j.op = "install" THEN File(j.build) ELSE Absent

Lasts(j, there, saved) ==
  ~j.lost => /\ j.pc \in {"report", "sync", "ok", "unsynced"} => there[j.name] = Want(j)
             /\ j.pc = "ok" => saved[j.name] = Want(j)

RootTypes ==
  /\ dir  \in [RootSet -> [Names -> Files \cup {Absent}]]
  /\ disk \in [Names -> Files \cup {Absent}]
  /\ temp \subseteq Managers

JobInv(m) == Good(job[m]) /\ Tidy(m, job[m], temp) /\ Lasts(job[m], dir[User], disk)

PInv == RootTypes /\ DOMAIN job = Managers /\ \A m \in Managers : JobInv(m)

(* The record of a command that has not begun.                             *)
LEMMA IdleFields ==
  /\ DOMAIN Idle = Fields /\ Idle.pc = "idle" /\ Idle.op = "none"
  /\ Idle.lost = FALSE /\ Idle.killed = FALSE
  BY DEF Idle, Fields

(* One field of a record is set.                                           *)
LEMMA SetField ==
  ASSUME NEW j, DOMAIN j = Fields, NEW f \in Fields, NEW v
  PROVE  /\ DOMAIN [j EXCEPT ![f] = v] = Fields
         /\ [j EXCEPT ![f] = v][f] = v
         /\ \A g \in Fields \ {f} : [j EXCEPT ![f] = v][g] = j[g]
  OBVIOUS

(* The invariant of the roots holds of roots no command has touched.       *)
LEMMA InitPInv == PluginInit => PInv
<1> SUFFICES ASSUME PluginInit PROVE PInv
  OBVIOUS
<1>1. RootTypes
  BY RootAssumption, HostAssumption DEF PluginInit, RootTypes
<1>2. \A m \in Managers : job[m] = Idle /\ m \notin temp
  BY DEF PluginInit
<1>3. Good(Idle) /\ \A t, s : Lasts(Idle, t, s)
  BY IdleFields DEF Good, Lasts, Steps
<1>4. QED
  BY <1>1, <1>2, <1>3 DEF PInv, JobInv, Tidy, PluginInit

(* A step of one command that leaves the roots alone.                      *)
LEMMA OwnStep ==
  ASSUME PInv, NEW m \in Managers, NEW j, job' = [job EXCEPT ![m] = j], UNCHANGED <<dir, disk>>,
         temp' \subseteq temp \cup {m}, Good(j), Tidy(m, j, temp'), Lasts(j, dir[User], disk)
  PROVE  PInv'
<1>1. DOMAIN job' = Managers /\ RootTypes'
  BY DEF PInv, RootTypes
<1>2. ASSUME NEW k \in Managers PROVE JobInv(k)'
  <2>1. CASE k = m
    BY <2>1 DEF PInv, JobInv
  <2>2. CASE k # m
    <3>1. job'[k] = job[k] /\ (k \in temp' => k \in temp)
      BY <2>2 DEF PInv
    <3>2. QED
      BY <3>1 DEF PInv, JobInv, Tidy
  <2>3. QED
    BY <2>1, <2>2
<1>3. QED
  BY <1>1, <1>2 DEF PInv

(* A command that is refused, or that has removed its temporary file.      *)
LEMMA RefuseStep ==
  ASSUME PInv, NEW m \in Managers, Refuse(m), UNCHANGED <<dir, disk, temp>>
  PROVE  PInv'
<1> DEFINE c == [Idle EXCEPT !.pc = "cleanup"]
<1>1. /\ DOMAIN c = Fields /\ c.pc = "cleanup" /\ c.op = "none" /\ c.lost = FALSE /\ c.killed = FALSE
  BY DEF Idle, Fields
<1>2. Good(c) /\ Good(Idle) /\ Lasts(c, dir[User], disk) /\ Lasts(Idle, dir[User], disk)
  BY <1>1, IdleFields DEF Good, Lasts, Steps
<1>3. CASE m \in temp
  <2>1. Tidy(m, c, temp')
    BY <1>1 DEF Tidy
  <2>2. job' = [job EXCEPT ![m] = c]
    BY <1>3 DEF Refuse
  <2>3. QED
    BY <1>2, <2>1, <2>2, OwnStep
<1>4. CASE m \notin temp
  <2>1. Tidy(m, Idle, temp')
    BY <1>4 DEF Tidy
  <2>2. job' = [job EXCEPT ![m] = Idle]
    BY <1>4 DEF Refuse
  <2>3. QED
    BY <1>2, <2>1, <2>2, OwnStep
<1>5. QED
  BY <1>3, <1>4

(* A command that goes on to its next step with what it has.               *)
LEMMA GoStep ==
  ASSUME PInv, NEW m \in Managers, NEW step, Go(m, step), UNCHANGED <<dir, disk>>, temp' \subseteq temp \cup {m},
         \/ job[m].pc = "root" /\ step = "stage" /\ temp' = temp
         \/ job[m].pc = "stage" /\ step = "staged"
         \/ job[m].pc = "look" /\ step = "change" /\ temp' = temp
         \/ job[m].pc = "sync" /\ step = "unsynced" /\ temp' = temp
  PROVE  PInv'
<1> DEFINE j == [job[m] EXCEPT !.pc = step]
<1>1. JobInv(m)
  BY DEF PInv
<1>2. /\ DOMAIN j = Fields /\ j.pc = step
      /\ j.op = job[m].op /\ j.name = job[m].name /\ j.build = job[m].build
      /\ j.lost = job[m].lost /\ j.killed = job[m].killed
  BY <1>1 DEF JobInv, Good, Fields
<1>3. job' = [job EXCEPT ![m] = j]
  BY DEF Go
<1> HIDE DEF j
<1>4. Good(j)
  BY <1>1, <1>2 DEF JobInv, Good, Steps
<1>5. Tidy(m, j, temp')
  BY <1>1, <1>2 DEF JobInv, Good, Tidy
<1>6. Lasts(j, dir[User], disk)
  BY <1>1, <1>2 DEF JobInv, Lasts, Want
<1>7. QED
  BY <1>3, <1>4, <1>5, <1>6, OwnStep

(* Steps before a command has changed anything.                            *)
LEMMA BeginStep ==
  ASSUME PInv, NEW m \in Managers,
         (\E b \in Builds : BeginInstall(m, b)) \/ (\E n \in Names : BeginRemove(m, n))
  PROVE  PInv'
<1>1. m \notin temp /\ UNCHANGED files
  BY DEF BeginInstall, BeginRemove
<1>2. ASSUME NEW b \in Builds, BeginInstall(m, b) PROVE PInv'
  <2> DEFINE j == [Idle EXCEPT !.pc = "root", !.op = "install", !.build = b]
  <2>1. DOMAIN j = Fields /\ j.pc = "root" /\ j.op = "install" /\ j.build = b /\ j.lost = FALSE /\ j.killed = FALSE
    BY DEF Idle, Fields
  <2>2. job' = [job EXCEPT ![m] = j]
    BY <1>2 DEF BeginInstall
  <2> HIDE DEF j
  <2>3. Good(j) /\ Lasts(j, dir[User], disk) /\ Tidy(m, j, temp')
    BY <1>1, <2>1 DEF Good, Lasts, Tidy, Steps, files
  <2>4. QED
    BY <1>1, <2>2, <2>3, OwnStep DEF files
<1>3. ASSUME NEW n \in Names, BeginRemove(m, n) PROVE PInv'
  <2> DEFINE j == [Idle EXCEPT !.pc = "look", !.op = "remove", !.name = n]
  <2>1. DOMAIN j = Fields /\ j.pc = "look" /\ j.op = "remove" /\ j.name = n /\ j.lost = FALSE /\ j.killed = FALSE
    BY DEF Idle, Fields
  <2>2. job' = [job EXCEPT ![m] = j]
    BY <1>3 DEF BeginRemove
  <2> HIDE DEF j
  <2>3. Good(j) /\ Lasts(j, dir[User], disk) /\ Tidy(m, j, temp')
    BY <1>1, <2>1 DEF Good, Lasts, Tidy, Steps, files
  <2>4. QED
    BY <1>1, <2>2, <2>3, OwnStep DEF files
<1>4. QED
  BY <1>2, <1>3

(* Making the root and staging touch no launcher.                          *)
LEMMA StageStep ==
  ASSUME PInv, NEW m \in Managers, MakeRoot(m) \/ stageInRoot(m) \/ stageFails(m)
  PROVE  PInv'
<1>1. CASE MakeRoot(m) /\ root = "unsafe"
  BY <1>1, RefuseStep DEF MakeRoot
<1>2. CASE MakeRoot(m) /\ root # "unsafe"
  BY <1>2, GoStep DEF MakeRoot, At
<1>3. CASE stageInRoot(m)
  BY <1>3, GoStep DEF stageInRoot, At
<1>4. CASE stageFails(m)
  BY <1>4, RefuseStep DEF stageFails, files
<1>5. QED
  BY <1>1, <1>2, <1>3, <1>4

(* The name a build gives itself is a name; it is the command's from here. *)
LEMMA ExamineStep ==
  ASSUME PInv, NEW m \in Managers, Examine(m)
  PROVE  PInv'
<1>1. job[m].pc = "staged" /\ UNCHANGED <<dir, disk, temp>> /\ JobInv(m) /\ DOMAIN job = Managers
  BY DEF Examine, At, files, PInv
<1>2. CASE Refuse(m)
  BY <1>1, <1>2, RefuseStep
<1>3. CASE /\ job[m].build.name \in Names
           /\ job' = [job EXCEPT ![m].name = job[m].build.name, ![m].pc = "search"]
  <2> DEFINE j == [[job[m] EXCEPT !.name = job[m].build.name] EXCEPT !.pc = "search"]
  <2>1. job' = [job EXCEPT ![m] = j]
    BY <1>1, <1>3
  <2>2. /\ DOMAIN j = Fields /\ j.pc = "search" /\ j.name = job[m].build.name
        /\ j.op = job[m].op /\ j.build = job[m].build
        /\ j.lost = job[m].lost /\ j.killed = job[m].killed
    BY <1>1 DEF JobInv, Good, Fields
  <2> HIDE DEF j
  <2>3. Good(j) /\ Tidy(m, j, temp') /\ Lasts(j, dir[User], disk)
    BY <1>1, <1>3, <2>2 DEF JobInv, Good, Tidy, Lasts, Steps
  <2>4. QED
    BY <1>1, <2>1, <2>3, OwnStep
<1>4. QED
  BY <1>2, <1>3 DEF Examine, Installable

(* The search for an earlier launcher only reads.                          *)
LEMMA SearchEarlierStep ==
  ASSUME PInv, NEW m \in Managers, SearchEarlier(m)
  PROVE  PInv'
<1>1. job[m].pc = "search" /\ UNCHANGED <<dir, disk, temp>> /\ JobInv(m) /\ DOMAIN job = Managers
  BY DEF SearchEarlier, At, files, PInv
<1>2. CASE Refuse(m)
  BY <1>1, <1>2, RefuseStep
<1>3. CASE job' = [job EXCEPT ![m].pc = "look", ![m].says = User, ![m].moved = (root # "safe")]
  <2> DEFINE j(x) == [[[job[m] EXCEPT !.pc = "look"] EXCEPT !.says = User] EXCEPT !.moved = x]
  <2>1. job' = [job EXCEPT ![m] = j(root # "safe")]
    BY <1>1, <1>3
  <2>2. \A x \in BOOLEAN :
          /\ DOMAIN j(x) = Fields /\ j(x).pc = "look" /\ j(x).name = job[m].name
          /\ j(x).op = job[m].op /\ j(x).build = job[m].build
          /\ j(x).lost = job[m].lost /\ j(x).killed = job[m].killed
    BY <1>1 DEF JobInv, Good, Fields
  <2> HIDE DEF j
  <2>3. \A x \in BOOLEAN : Good(j(x)) /\ Tidy(m, j(x), temp') /\ Lasts(j(x), dir[User], disk)
    BY <1>1, <2>2 DEF JobInv, Good, Tidy, Lasts, Steps
  <2>4. (root # "safe") \in BOOLEAN
    OBVIOUS
  <2>5. QED
    BY <1>1, <2>1, <2>3, <2>4, OwnStep
<1>4. QED
  BY <1>2, <1>3 DEF SearchEarlier

(* The look at the destination only reads.                                 *)
LEMMA LookStep ==
  ASSUME PInv, NEW m \in Managers, LookAtName(m)
  PROVE  PInv'
<1>1. job[m].pc = "look" /\ UNCHANGED <<dir, disk, temp>> /\ (Go(m, "change") \/ Refuse(m))
  BY DEF LookAtName, At, files
<1>2. QED
  BY <1>1, GoStep, RefuseStep

(* The two commit points.  Another command at the same name has lost it.   *)
LEMMA PutStep ==
  ASSUME PInv, NEW m \in Managers, Rename(m) \/ Remove(m)
  PROVE  PInv'
<1> DEFINE n    == job[m].name
           step == IF job[m].op = "install" THEN "sync" ELSE "report"
           f    == Want(job[m])
           L(k, x) == [job[k] EXCEPT !.lost = x]
           j    == [L(m, FALSE) EXCEPT !.pc = step]
<1>1. /\ job[m].pc = "change" /\ disk' = disk
      /\ dir' = [dir EXCEPT ![User][n] = f]
      /\ job' = [Changed(m, User, n) EXCEPT ![m].pc = step]
      /\ temp' = temp \ {m}
  <2>1. CASE Rename(m)
    BY <2>1 DEF Rename, At, Put, Want
  <2>2. CASE Remove(m)
    <3>1. m \notin temp
      BY <2>2 DEF Remove, PInv, JobInv, Tidy
    <3>2. QED
      BY <2>2, <3>1 DEF Remove, At, Put, Want
  <2>3. QED
    BY <2>1, <2>2
<1>2. /\ JobInv(m) /\ RootTypes /\ n \in Names /\ User \in RootSet
      /\ job[m].op = "remove" \/ (job[m].op = "install" /\ job[m].build \in Builds)
  BY <1>1, RootAssumption DEF PInv, JobInv, Good
<1>3. f \in Files \cup {Absent}
  BY <1>2 DEF Want, File, Files
<1>4. /\ RootTypes'
      /\ dir'[User][n] = f
      /\ \A q \in Names : q # n => dir'[User][q] = dir[User][q]
  BY <1>1, <1>2, <1>3 DEF RootTypes
<1>5. ASSUME NEW k \in Managers
      PROVE  Changed(m, User, n)[k] = IF job[k].name = n THEN L(k, k # m) ELSE job[k]
  BY DEF Changed
<1>6. DOMAIN job' = Managers
  BY <1>1 DEF Changed
<1>7. JobInv(m)'
  <2>1. job'[m] = j
    <3>1. Changed(m, User, n)[m] = L(m, m # m)
      BY <1>5
    <3>2. L(m, m # m) = L(m, FALSE)
      <4>1. (m # m) = FALSE
        OBVIOUS
      <4>2. QED
        BY <4>1, Zenon
    <3>3. DOMAIN Changed(m, User, n) = Managers
      BY DEF Changed
    <3>4. QED
      BY <1>1, <3>1, <3>2, <3>3
  <2>2. /\ DOMAIN j = Fields /\ j.pc = step /\ j.name = n /\ j.lost = FALSE
        /\ j.op = job[m].op /\ j.build = job[m].build /\ j.killed = job[m].killed
    BY <1>2 DEF JobInv, Good, Fields
  <2> HIDE DEF j
  <2>3. Good(j)
    BY <1>2, <2>2 DEF JobInv, Good, Steps
  <2>4. m \notin temp'
    BY <1>1
  <2>5. Want(j) = f
    BY <2>2 DEF Want
  <2>6. Lasts(j, dir'[User], disk')
    BY <1>4, <2>2, <2>5 DEF Lasts
  <2>7. QED
    BY <2>1, <2>3, <2>4, <2>6 DEF JobInv, Tidy
<1>8. ASSUME NEW k \in Managers, k # m PROVE JobInv(k)'
  <2>0. JobInv(k) /\ (k \in temp' => k \in temp)
    BY <1>1 DEF PInv
  <2>1. CASE job[k].name = n
    <3>1. job'[k] = L(k, TRUE)
      <4>1. (k # m) = TRUE
        BY <1>8
      <4>2. job'[k] = Changed(m, User, n)[k]
        BY <1>1, <1>8 DEF Changed
      <4>3. Changed(m, User, n)[k] = L(k, k # m)
        BY <1>5, <2>1
      <4>4. L(k, k # m) = L(k, TRUE)
        BY <4>1, Zenon
      <4>5. QED
        BY <4>2, <4>3, <4>4, Zenon
    <3>2. /\ DOMAIN L(k, TRUE) = Fields /\ L(k, TRUE).lost = TRUE
          /\ L(k, TRUE).pc = job[k].pc /\ L(k, TRUE).name = job[k].name /\ L(k, TRUE).op = job[k].op
          /\ L(k, TRUE).build = job[k].build /\ L(k, TRUE).killed = job[k].killed
      BY <2>0 DEF JobInv, Good, Fields
    <3> HIDE DEF L
    <3>3. Good(L(k, TRUE)) /\ Tidy(k, L(k, TRUE), temp')
      BY <2>0, <3>2 DEF JobInv, Good, Tidy
    <3>4. Lasts(L(k, TRUE), dir'[User], disk')
      BY <3>2 DEF Lasts
    <3>5. QED
      BY <3>1, <3>3, <3>4 DEF JobInv
  <2>2. CASE job[k].name # n
    <3>1. job'[k] = job[k]
      BY <1>1, <1>5, <1>8, <2>2 DEF Changed
    <3>2. job[k].pc \in {"report", "sync", "ok", "unsynced"} => dir'[User][job[k].name] = dir[User][job[k].name]
      BY <1>4, <2>0, <2>2 DEF JobInv, Good
    <3>3. Lasts(job[k], dir'[User], disk')
      BY <1>1, <2>0, <3>2 DEF JobInv, Lasts
    <3>4. QED
      BY <2>0, <3>1, <3>3 DEF JobInv, Tidy
  <2>3. QED
    BY <2>1, <2>2
<1>9. QED
  BY <1>4, <1>6, <1>7, <1>8 DEF PInv

(* What follows the change: remove's report, the sync, and the ends.       *)
LEMMA ReportStep ==
  ASSUME PInv, NEW m \in Managers, SearchOthers(m)
  PROVE  PInv'
<1> DEFINE j(x) == [[[job[m] EXCEPT !.pc = "sync"] EXCEPT !.moved = FALSE] EXCEPT !.says = x]
<1>1. job[m].pc = "report" /\ UNCHANGED <<dir, disk, temp>> /\ JobInv(m) /\ DOMAIN job = Managers
  BY DEF SearchOthers, At, files, PInv
<1>2. PICK x : job' = [job EXCEPT ![m].pc = "sync", ![m].moved = FALSE, ![m].says = x]
  BY DEF SearchOthers
<1>3. job' = [job EXCEPT ![m] = j(x)]
  BY <1>1, <1>2
<1>4. /\ DOMAIN j(x) = Fields /\ j(x).pc = "sync" /\ j(x).name = job[m].name
      /\ j(x).op = job[m].op /\ j(x).build = job[m].build
      /\ j(x).lost = job[m].lost /\ j(x).killed = job[m].killed
  BY <1>1 DEF JobInv, Good, Fields
<1> HIDE DEF j
<1>5. Good(j(x)) /\ Tidy(m, j(x), temp') /\ Lasts(j(x), dir[User], disk)
  BY <1>1, <1>4 DEF JobInv, Good, Tidy, Lasts, Steps, Want
<1>6. QED
  BY <1>1, <1>3, <1>5, OwnStep

(* A sync makes last whatever is in the directory, its own name and those  *)
(* of others.                                                              *)
LEMMA SyncStep ==
  ASSUME PInv, NEW m \in Managers, syncRootDir(m)
  PROVE  PInv'
<1> DEFINE j == [job[m] EXCEPT !.pc = "ok"]
<1>1. /\ job[m].pc = "sync" /\ disk' = dir[User] /\ UNCHANGED <<dir, temp>>
      /\ job' = [job EXCEPT ![m] = j] /\ DOMAIN job = Managers
  BY DEF syncRootDir, At, Go, PInv
<1>2. RootTypes'
  BY <1>1, RootAssumption DEF PInv, RootTypes
<1>3. ASSUME NEW k \in Managers PROVE JobInv(k)'
  <2>1. JobInv(k)
    BY DEF PInv
  <2>2. CASE k = m
    <3>1. /\ DOMAIN j = Fields /\ j.pc = "ok" /\ j.name = job[m].name
          /\ j.op = job[m].op /\ j.build = job[m].build
          /\ j.lost = job[m].lost /\ j.killed = job[m].killed
      BY <2>1, <2>2 DEF JobInv, Good, Fields
    <3>2. job'[k] = j
      BY <1>1, <2>2
    <3> HIDE DEF j
    <3>3. Good(j) /\ Tidy(m, j, temp') /\ Lasts(j, dir'[User], disk')
      BY <1>1, <2>1, <2>2, <3>1 DEF JobInv, Good, Tidy, Lasts, Steps, Want
    <3>4. QED
      BY <2>2, <3>2, <3>3 DEF JobInv
  <2>3. CASE k # m
    <3>1. job'[k] = job[k]
      BY <1>1, <2>3
    <3>2. Lasts(job[k], dir'[User], disk')
      BY <1>1, <2>1 DEF JobInv, Lasts
    <3>3. QED
      BY <1>1, <2>1, <3>1, <3>2 DEF JobInv
  <2>4. QED
    BY <2>2, <2>3
<1>4. QED
  BY <1>1, <1>2, <1>3 DEF PInv

(* A failure, a clean-up or a kill ends a command and acknowledges         *)
(* nothing.                                                                *)
LEMMA EndStep ==
  ASSUME PInv, NEW m \in Managers, ChangeFails(m) \/ syncFails(m) \/ Cleanup(m) \/ Kill(m)
  PROVE  PInv'
<1>1. CASE ChangeFails(m)
  BY <1>1, RefuseStep DEF ChangeFails, files
<1>2. CASE syncFails(m)
  BY <1>2, GoStep DEF syncFails, At, files
<1>3. CASE Cleanup(m)
  <2>1. Good(Idle) /\ Tidy(m, Idle, temp') /\ Lasts(Idle, dir[User], disk)
    BY <1>3, IdleFields DEF Good, Tidy, Lasts, Steps, Cleanup
  <2>2. job' = [job EXCEPT ![m] = Idle] /\ UNCHANGED <<dir, disk>> /\ temp' \subseteq temp \cup {m}
    BY <1>3 DEF Cleanup
  <2>3. QED
    BY <2>1, <2>2, OwnStep
<1>4. CASE Kill(m)
  <2> DEFINE j == [Idle EXCEPT !.killed = TRUE]
  <2>1. DOMAIN j = Fields /\ j.pc = "idle" /\ j.op = "none" /\ j.lost = FALSE /\ j.killed = TRUE
    BY DEF Idle, Fields
  <2>2. job' = [job EXCEPT ![m] = j] /\ UNCHANGED <<dir, disk, temp>>
    BY <1>4 DEF Kill, files
  <2> HIDE DEF j
  <2>3. Good(j) /\ Tidy(m, j, temp') /\ Lasts(j, dir[User], disk)
    BY <2>1 DEF Good, Tidy, Lasts, Steps
  <2>4. QED
    BY <2>2, <2>3, OwnStep
<1>5. QED
  BY <1>1, <1>2, <1>3, <1>4

(* The world outside.                                                      *)
LEMMA HostPutStep ==
  ASSUME PInv, NEW r \in RootSet, NEW n \in Names, NEW f \in HostFiles \cup {Absent}, HostPut(r, n, f)
  PROVE  PInv'
<1> DEFINE L(k, x) == [job[k] EXCEPT !.lost = x]
           M(k)    == [job[k] EXCEPT !.moved = TRUE]
<1>1. /\ dir' = [dir EXCEPT ![r][n] = f]
      /\ disk' = IF r = User THEN [disk EXCEPT ![n] = f] ELSE disk
      /\ job' = Changed("host", r, n) /\ UNCHANGED temp
  BY DEF HostPut
<1>2. f \in Files \cup {Absent}
  BY HostAssumption
<1>3. /\ RootTypes'
      /\ r # User => dir'[User] = dir[User]
      /\ \A q \in Names : q # n => dir'[User][q] = dir[User][q] /\ disk'[q] = disk[q]
  BY <1>1, <1>2, RootAssumption DEF PInv, RootTypes
<1>4. DOMAIN job' = Managers
  BY <1>1 DEF Changed
<1>5. ASSUME NEW k \in Managers PROVE JobInv(k)'
  <2>0. JobInv(k)
    BY DEF PInv
  <2>1. CASE job[k].name # n
    <3>1. job'[k] = job[k]
      BY <1>1, <2>1 DEF Changed
    <3>2. Lasts(job[k], dir'[User], disk')
      BY <1>3, <2>0, <2>1 DEF JobInv, Lasts, Good
    <3>3. QED
      BY <1>1, <2>0, <3>1, <3>2 DEF JobInv
  <2>2. CASE job[k].name = n /\ r # User
    <3>1. job'[k] = M(k)
      BY <1>1, <2>2 DEF Changed
    <3>2. /\ DOMAIN M(k) = Fields /\ M(k).lost = job[k].lost
          /\ M(k).pc = job[k].pc /\ M(k).name = job[k].name /\ M(k).op = job[k].op
          /\ M(k).build = job[k].build /\ M(k).killed = job[k].killed
      BY <2>0 DEF JobInv, Good, Fields
    <3> HIDE DEF M
    <3>3. Good(M(k)) /\ Tidy(k, M(k), temp') /\ Lasts(M(k), dir'[User], disk')
      BY <1>1, <1>3, <2>0, <2>2, <3>2 DEF JobInv, Good, Tidy, Lasts, Want
    <3>4. QED
      BY <3>1, <3>3 DEF JobInv
  <2>3. CASE job[k].name = n /\ r = User
    <3>1. job'[k] = L(k, TRUE)
      <4>1. (k # "host") = TRUE
        BY ManagerAssumption
      <4>2. job'[k] = L(k, k # "host")
        BY <1>1, <2>3 DEF Changed
      <4>3. QED
        BY <4>1, <4>2, Zenon
    <3>2. /\ DOMAIN L(k, TRUE) = Fields /\ L(k, TRUE).lost = TRUE
          /\ L(k, TRUE).pc = job[k].pc /\ L(k, TRUE).name = job[k].name /\ L(k, TRUE).op = job[k].op
          /\ L(k, TRUE).build = job[k].build /\ L(k, TRUE).killed = job[k].killed
      BY <2>0 DEF JobInv, Good, Fields
    <3> HIDE DEF L
    <3>3. Good(L(k, TRUE)) /\ Tidy(k, L(k, TRUE), temp') /\ Lasts(L(k, TRUE), dir'[User], disk')
      BY <1>1, <2>0, <3>2 DEF JobInv, Good, Tidy, Lasts
    <3>4. QED
      BY <3>1, <3>3 DEF JobInv
  <2>4. QED
    BY <2>1, <2>2, <2>3
<1>6. QED
  BY <1>3, <1>4, <1>5 DEF PInv

(* A loosened root path only marks the commands that looked.               *)
LEMMA LoosenStep ==
  ASSUME PInv, HostLoosens
  PROVE  PInv'
<1> DEFINE M(k) == [job[k] EXCEPT !.moved = TRUE]
<1>1. job' = [k \in Managers |-> M(k)] /\ UNCHANGED <<dir, disk, temp>>
  BY DEF HostLoosens
<1>2. ASSUME NEW k \in Managers PROVE JobInv(k)'
  <2>0. JobInv(k)
    BY DEF PInv
  <2>1. job'[k] = M(k)
    BY <1>1
  <2>2. /\ DOMAIN M(k) = Fields /\ M(k).lost = job[k].lost
        /\ M(k).pc = job[k].pc /\ M(k).name = job[k].name /\ M(k).op = job[k].op
        /\ M(k).build = job[k].build /\ M(k).killed = job[k].killed
    BY <2>0 DEF JobInv, Good, Fields
  <2> HIDE DEF M
  <2>3. Good(M(k)) /\ Tidy(k, M(k), temp') /\ Lasts(M(k), dir'[User], disk')
    BY <1>1, <2>0, <2>2 DEF JobInv, Good, Tidy, Lasts, Want
  <2>4. QED
    BY <2>1, <2>3 DEF JobInv
<1>3. QED
  BY <1>1, <1>2 DEF PInv, RootTypes

(* After a power loss no command runs, and every file left is accounted    *)
(* for by one that was killed.                                             *)
LEMMA PowerLossStep ==
  ASSUME PInv, PowerLoss
  PROVE  PInv'
<1> DEFINE K(x) == [Idle EXCEPT !.killed = x]
<1>1. /\ disk' \in [Names -> Files \cup {Absent}]
      /\ temp' \subseteq temp
      /\ dir' = [dir EXCEPT ![User] = disk']
      /\ job' = [k \in Managers |-> K(job[k].killed \/ Running(k))]
  BY RootAssumption DEF PowerLoss, PInv, RootTypes
<1>2. RootTypes'
  BY <1>1 DEF PInv, RootTypes
<1>3. ASSUME NEW k \in Managers PROVE JobInv(k)'
  <2>0. JobInv(k)
    BY DEF PInv
  <2> DEFINE x == job[k].killed \/ Running(k)
  <2>1. x \in BOOLEAN /\ job'[k] = K(x)
    BY <1>1
  <2>2. \A y \in BOOLEAN : /\ DOMAIN K(y) = Fields /\ K(y).pc = "idle" /\ K(y).op = "none"
                            /\ K(y).lost = FALSE /\ K(y).killed = y
    BY DEF Idle, Fields
  <2>3. k \in temp' => x
    BY <1>1, <2>0 DEF JobInv, Tidy, Good, Running, Ended, Steps
  <2> HIDE DEF K, x
  <2>4. Good(K(x)) /\ Tidy(k, K(x), temp') /\ Lasts(K(x), dir'[User], disk')
    BY <2>1, <2>2, <2>3 DEF Good, Tidy, Lasts, Steps
  <2>5. QED
    BY <2>1, <2>4 DEF JobInv
<1>4. QED
  BY <1>1, <1>2, <1>3 DEF PInv

(* The invariant of the roots is kept by every step of any command or of   *)
(* the host.                                                               *)
LEMMA PInvStep == PInv /\ [Next]_vars => PInv'
<1> SUFFICES ASSUME PInv, [Next]_vars PROVE PInv'
  OBVIOUS
<1>1. CASE UNCHANGED pluginVars
  BY <1>1 DEF pluginVars, PInv, RootTypes, JobInv
<1>2. ASSUME NEW m \in Managers, Manage(m) PROVE PInv'
  BY <1>2, BeginStep, StageStep, ExamineStep, SearchEarlierStep, LookStep, PutStep, ReportStep,
     SyncStep, EndStep DEF Manage
<1>3. CASE Host
  BY <1>3, HostPutStep, LoosenStep DEF Host
<1>4. CASE RootsChange
  BY <1>2, <1>3, <1>4, PowerLossStep DEF RootsChange
<1>5. RootsChange \/ UNCHANGED pluginVars
  BY DEF Next, vars, DeclareOwner, BeginCommand, routeToOwner, delegateLog, discoverPlugins,
         missingPlugin, checkAgain, execPluginAs, PluginEnds
<1>6. QED
  BY <1>1, <1>4, <1>5

(* What is known of the routed command.  A process it was handed to goes   *)
(* by the owner's name, a launcher it is about to be handed to is of that  *)
(* name and is the first, unless a file was swapped; a launcher about to   *)
(* run was trusted, or something changed since.                            *)
CmdFields == {"pc", "early", "self", "hops", "read", "i", "found", "stale", "swapped"}
CmdTypes  ==
  DOMAIN cmd = CmdFields /\ cmd.hops \in Nat /\ cmd.stale \in BOOLEAN /\ cmd.swapped \in BOOLEAN

OwnerRead  == cmd.pc \in {"discover", "check", "exec"} =>
                cmd.read = owner /\ owner # Nobody /\ (cmd.hops = 0 \/ cmd.swapped)
OwnerFound == cmd.pc \in {"check", "exec"} =>
                cmd.swapped \/ dir[cmd.found][cmd.read].build.name = cmd.read
OwnerRuns  == cmd.pc \in {"route", "run"} =>
                cmd.hops = 0 \/ cmd.swapped \/ (owner # Nobody /\ cmd.self.name = owner)
WasTrusted == cmd.pc = "exec" => cmd.stale \/ CheckedTrustedPath(cmd.found, cmd.read)

CmdInv == CmdTypes /\ ForwardedOnce /\ OwnerRead /\ OwnerFound /\ OwnerRuns /\ WasTrusted

(* The fields of a routed command, wherever it is.                         *)
LEMMA CommandFields ==
  ASSUME NEW step, NEW early, NEW self, NEW hops \in Nat, NEW swapped \in BOOLEAN
  PROVE  LET c == Command(step, early, self, hops, swapped)
         IN /\ DOMAIN c = CmdFields /\ c.pc = step /\ c.self = self /\ c.hops = hops
            /\ c.stale \in BOOLEAN /\ c.swapped \in BOOLEAN /\ (c.swapped <=> swapped)
<1>1. LET c == Command(step, early, self, hops, swapped)
      IN DOMAIN c = CmdFields /\ c.pc = step /\ c.self = self /\ c.hops = hops
  BY DEF Command, CmdFields
<1>2. LET c == Command(step, early, self, hops, swapped)
      IN c.stale = FALSE /\ c.swapped = swapped
  BY DEF Command
<1>3. QED
  BY <1>1, <1>2

(* A command that has not begun, or is over however it ended, is handed on *)
(* no further.                                                             *)
LEMMA OverIsFine ==
  /\ cmd \in {NoCommand, Served} => CmdInv
  /\ cmd' \in {NoCommand, Served} => CmdInv'
<1> DEFINE Over(c) == /\ DOMAIN c = CmdFields /\ c.pc \in {"idle", "served"} /\ c.hops = 0
                      /\ c.stale \in BOOLEAN /\ c.swapped \in BOOLEAN
<1>1. Over(NoCommand)
  BY DEF NoCommand, Command, CmdFields
<1>2. Over(Served)
  BY <1>1 DEF Served, CmdFields
<1>3. Over(cmd) => CmdInv
  BY DEF CmdInv, CmdTypes, ForwardedOnce, OwnerRead, OwnerFound, OwnerRuns, WasTrusted
<1>4. Over(cmd') => CmdInv'
  BY DEF CmdInv, CmdTypes, ForwardedOnce, OwnerRead, OwnerFound, OwnerRuns, WasTrusted
<1> HIDE DEF Over
<1>5. QED
  BY <1>1, <1>2, <1>3, <1>4

(* The invariant of the routed command holds of one that has not begun.    *)
LEMMA InitCmdInv == Init => CmdInv
  BY OverIsFine DEF Init

(* One case per action of the routed command; the roots only mark it       *)
(* stale or swapped.                                                       *)
LEMMA CmdInvStep == CmdInv /\ [Next]_vars => CmdInv'
<1> SUFFICES ASSUME CmdInv, [Next]_vars PROVE CmdInv'
  OBVIOUS
<1> USE DEF CmdTypes, ForwardedOnce, OwnerRead, OwnerFound, OwnerRuns, WasTrusted
<1>0. DOMAIN cmd = CmdFields /\ cmd.hops \in Nat /\ cmd.stale \in BOOLEAN /\ cmd.swapped \in BOOLEAN
  BY DEF CmdInv
<1>1. \A step : LET c == [cmd EXCEPT !.pc = step]
                IN DOMAIN c = CmdFields /\ c.pc = step /\ c.self = cmd.self /\ c.hops = cmd.hops
                   /\ c.read = cmd.read /\ c.found = cmd.found /\ c.stale = cmd.stale
                   /\ c.swapped = cmd.swapped
  BY <1>0 DEF CmdFields
<1>3. CASE cmd' \in {NoCommand, Served}
  BY <1>3, OverIsFine
<1>4. ASSUME NEW early \in BOOLEAN, BeginCommand(early) PROVE CmdInv'
  <2>1. PICK step \in {"route", "run"} : cmd' = Command(step, early, TheCore, 0, FALSE)
    BY <1>4 DEF BeginCommand
  <2>2. /\ DOMAIN cmd' = CmdFields /\ cmd'.pc = step /\ cmd'.hops = 0
        /\ cmd'.stale \in BOOLEAN /\ cmd'.swapped \in BOOLEAN
    BY <2>1 DEF Command, CmdFields
  <2>3. QED
    BY <2>2 DEF CmdInv
<1>5. ASSUME cmd' = Discover, ~Serves(cmd.self, owner), owner # cmd.self.name, cmd.pc \in {"route", "run"},
             UNCHANGED owner
      PROVE  CmdInv'
  <2>1. /\ DOMAIN cmd' = CmdFields /\ cmd'.pc = "discover" /\ cmd'.read = owner
        /\ cmd'.hops = cmd.hops /\ cmd'.stale = cmd.stale /\ cmd'.swapped = cmd.swapped
    BY <1>0, <1>5 DEF Discover, CmdFields
  <2>2. owner # Nobody
    BY <1>5 DEF Serves
  <2>3. cmd.hops = 0 \/ cmd.swapped
    BY <1>5 DEF CmdInv
  <2>4. QED
    BY <1>0, <1>5, <2>1, <2>2, <2>3 DEF CmdInv
<1>6. CASE routeToOwner
  <2>1. CASE cmd' = [cmd EXCEPT !.pc = "run"]
    <3>1. /\ DOMAIN cmd' = CmdFields /\ cmd'.pc = "run" /\ cmd'.self = cmd.self
          /\ cmd'.hops = cmd.hops /\ cmd'.stale = cmd.stale /\ cmd'.swapped = cmd.swapped
      BY <1>1, <2>1
    <3>2. QED
      BY <1>0, <1>6, <3>1 DEF CmdInv, routeToOwner
  <2>2. QED
    BY <1>5, <1>6, <2>1 DEF routeToOwner
<1>7. CASE delegateLog
  BY <1>3, <1>5, <1>7 DEF delegateLog
<1>8. CASE discoverPlugins
  <2>0. PICK accepted \in Accepts(Roots[cmd.i], cmd.read) :
          cmd' = IF accepted THEN [cmd EXCEPT !.pc = "check", !.found = Roots[cmd.i]]
                 ELSE [cmd EXCEPT !.i = cmd.i + 1]
    BY <1>8 DEF discoverPlugins
  <2>1. cmd.pc = "discover" /\ UNCHANGED <<pluginVars, owner>>
    BY <1>8 DEF discoverPlugins
  <2>2. CASE accepted
    <3>1. dir[Roots[cmd.i]][cmd.read].build.name = cmd.read
      BY <2>2 DEF Accepts, pluginMetadata
    <3>2. /\ DOMAIN cmd' = CmdFields /\ cmd'.pc = "check" /\ cmd'.found = Roots[cmd.i]
          /\ cmd'.read = cmd.read /\ cmd'.hops = cmd.hops /\ cmd'.stale = cmd.stale
          /\ cmd'.swapped = cmd.swapped
      BY <1>0, <2>0, <2>2 DEF CmdFields
    <3>3. QED
      BY <1>0, <2>1, <3>1, <3>2 DEF CmdInv, pluginVars
  <2>3. CASE ~accepted
    <3>1. /\ DOMAIN cmd' = CmdFields /\ cmd'.pc = "discover" /\ cmd'.read = cmd.read
          /\ cmd'.hops = cmd.hops /\ cmd'.stale = cmd.stale /\ cmd'.swapped = cmd.swapped
      BY <1>0, <2>0, <2>1, <2>3 DEF CmdFields
    <3>2. QED
      BY <1>0, <2>1, <3>1 DEF CmdInv
  <2>4. QED
    BY <2>2, <2>3
<1>9. CASE checkAgain
  <2>1. CASE cmd' = [cmd EXCEPT !.pc = "exec"] /\ CheckedTrustedPath(cmd.found, cmd.read)
    <3>1. /\ DOMAIN cmd' = CmdFields /\ cmd'.pc = "exec" /\ cmd'.found = cmd.found
          /\ cmd'.read = cmd.read /\ cmd'.hops = cmd.hops /\ cmd'.stale = cmd.stale
          /\ cmd'.swapped = cmd.swapped
      BY <1>1, <2>1
    <3>2. cmd.pc = "check" /\ UNCHANGED <<root, dir, owner>>
      BY <1>9 DEF checkAgain, pluginVars
    <3>3. QED
      BY <1>0, <2>1, <3>1, <3>2 DEF CmdInv, CheckedTrustedPath
  <2>2. QED
    BY <1>3, <1>9, <2>1 DEF checkAgain
<1>10. CASE execPluginAs
  <2> DEFINE there == dir[cmd.found][cmd.read]
  <2>1. CASE cmd' = Command(IF cmd.early THEN "route" ELSE "run", cmd.early, Process(there.build),
                            cmd.hops + 1, cmd.swapped)
    <3>1. PICK step \in {"route", "run"} :
            cmd' = Command(step, cmd.early, Process(there.build), cmd.hops + 1, cmd.swapped)
      BY <2>1
    <3>2. /\ DOMAIN cmd' = CmdFields /\ cmd'.pc = step /\ cmd'.self = Process(there.build)
          /\ cmd'.hops = cmd.hops + 1 /\ cmd'.stale \in BOOLEAN /\ cmd'.swapped \in BOOLEAN
          /\ (cmd'.swapped <=> cmd.swapped)
      BY <1>0, <3>1, CommandFields
    <3>3. cmd.pc = "exec" /\ owner' = owner
      BY <1>10 DEF execPluginAs
    <3>4. cmd.swapped \/ (cmd.hops = 0 /\ owner # Nobody /\ there.build.name = owner)
      BY <3>3 DEF CmdInv
    <3>5. Process(there.build).name = there.build.name
      BY DEF Process
    <3>6. QED
      BY <1>0, <3>2, <3>3, <3>4, <3>5 DEF CmdInv
  <2>2. QED
    BY <1>3, <1>10, <2>1 DEF execPluginAs
<1>11. CASE Noted /\ UNCHANGED owner
  <2> DEFINE x == cmd.stale \/ (cmd.pc = "exec" /\ <<root', dir'>> # <<root, dir>>)
             y == cmd.swapped \/ (/\ cmd.pc \in {"check", "exec"}
                                  /\ dir'[cmd.found][cmd.read] # dir[cmd.found][cmd.read])
  <2>1. cmd' = [cmd EXCEPT !.stale = x, !.swapped = y] /\ x \in BOOLEAN /\ y \in BOOLEAN
    BY <1>0, <1>11 DEF Noted
  <2>2. \A u, w : LET c == [cmd EXCEPT !.stale = u, !.swapped = w]
                 IN DOMAIN c = CmdFields /\ c.stale = u /\ c.swapped = w /\ c.pc = cmd.pc
                    /\ c.found = cmd.found /\ c.read = cmd.read /\ c.self = cmd.self /\ c.hops = cmd.hops
    BY <1>0 DEF CmdFields
  <2>3. ~x => ~cmd.stale /\ (cmd.pc = "exec" => UNCHANGED <<root, dir>>)
    OBVIOUS
  <2>4. cmd.swapped => y
    OBVIOUS
  <2>5. ~y /\ cmd.pc \in {"check", "exec"} => dir'[cmd.found][cmd.read] = dir[cmd.found][cmd.read]
    OBVIOUS
  <2> HIDE DEF x, y
  <2>6. /\ DOMAIN cmd' = CmdFields /\ cmd'.stale = x /\ cmd'.swapped = y /\ cmd'.pc = cmd.pc
        /\ cmd'.found = cmd.found /\ cmd'.read = cmd.read /\ cmd'.self = cmd.self /\ cmd'.hops = cmd.hops
    BY <2>1, <2>2
  <2>7. CmdTypes' /\ ForwardedOnce' /\ OwnerRead' /\ OwnerRuns'
    BY <1>0, <1>11, <2>1, <2>4, <2>6 DEF CmdInv
  <2>8. OwnerFound'
    BY <2>4, <2>5, <2>6 DEF CmdInv
  <2>9. WasTrusted'
    BY <2>3, <2>6 DEF CmdInv, CheckedTrustedPath
  <2>10. QED
    BY <2>7, <2>8, <2>9 DEF CmdInv
<1>12. CASE RootsChange
  BY <1>3, <1>11, <1>12 DEF RootsChange
<1>13. CASE missingPlugin \/ PluginEnds
  BY <1>3, <1>13 DEF missingPlugin, PluginEnds
<1>14. CASE UNCHANGED vars
  BY <1>14 DEF vars, pluginVars, CmdInv, CheckedTrustedPath
<1>15. ASSUME NEW n \in Names, DeclareOwner(n) PROVE CmdInv'
  <2>1. owner = Nobody /\ UNCHANGED <<cmd, root, dir>>
    BY <1>15 DEF DeclareOwner, pluginVars
  <2>2. QED
    BY <2>1 DEF CmdInv, CheckedTrustedPath
<1>16. QED
  BY <1>4, <1>6, <1>7, <1>8, <1>9, <1>10, <1>12, <1>13, <1>14, <1>15 DEF Next

(* Both hold of every reachable state, with commands and host interleaved. *)
THEOREM PluginInvariant == Spec => [](PInv /\ CmdInv)
<1>1. Init => PInv /\ CmdInv
  BY InitPInv, InitCmdInv DEF Init
<1>2. QED
  BY <1>1, PInvStep, CmdInvStep, PTL DEF Spec

(* A success that install or remove reported is on disk until somebody     *)
(* else changes that name, whatever other commands sync or fail.           *)
THEOREM SuccessIsDurable == Spec => []AckedIsDurable
<1>1. PInv => AckedIsDurable
  BY DEF PInv, JobInv, Lasts, Want, Wanted, AckedIsDurable
<1>2. QED
  BY <1>1, PluginInvariant, PTL

(* Only a killed command leaves a temporary file behind.                   *)
THEOREM OnlyKillsLitter == Spec => []NoLitter
<1>1. PInv => NoLitter
  BY DEF PInv, RootTypes, JobInv, Good, Tidy, Running, Ended, NoLitter
<1>2. QED
  BY <1>1, PluginInvariant, PTL

(* A command is handed to one other process and no further, whatever is    *)
(* installed, removed or declared meanwhile, unless a launcher was swapped *)
(* after its handshake.                                                    *)
THEOREM HandedOnOnce == Spec => []ForwardedOnce
<1>1. CmdInv => ForwardedOnce
  BY DEF CmdInv
<1>2. QED
  BY <1>1, PluginInvariant, PTL

(* What is run was trusted at the last check, or changed after it.         *)
THEOREM RunsAreTrusted == Spec => RunsTrusted
<1> DEFINE Trusted == cmd.pc = "exec" /\ cmd'.hops > cmd.hops /\ ~cmd.stale
                        => CheckedTrustedPath(cmd.found, cmd.read)
<1>1. CmdInv /\ [Next]_vars => [Trusted]_vars
  BY DEF CmdInv, WasTrusted
<1>2. QED
  BY <1>1, PluginInvariant, PTL DEF Spec, RunsTrusted

(* What a command that reports which launcher runs has seen, unless what   *)
(* it looked at changed: an install its own build answer, a safe root and  *)
(* no launcher in the roots before; a remove the first of the other roots. *)
Told(j) ==
  /\ j.op = "install" /\ j.pc \in {"search", "look", "change", "sync", "ok", "unsynced"} =>
       j.build.name = j.name /\ TRUE \in Answers(j.build)
  /\ j.op = "install" /\ j.pc \in {"look", "change", "sync", "ok", "unsynced"} /\ ~j.moved =>
       root = "safe" /\ j.says = User /\ \A r \in before(User) : FALSE \in Accepts(r, j.name)
  /\ j.op = "remove" /\ j.pc \in {"sync", "ok", "unsynced"} /\ ~j.moved =>
       \/ j.says = "unsure"
       \/ j.says = "none" /\ \A r \in otherRoots : FALSE \in Accepts(r, j.name)
       \/ /\ j.says \in otherRoots /\ TRUE \in Accepts(j.says, j.name)
          /\ \A r \in otherRoots \cap before(j.says) : FALSE \in Accepts(r, j.name)

ToldInv == \A m \in Managers : Told(job[m])

(* A set of naturals with a member has a least one.                        *)
LEMMA Least ==
  ASSUME NEW T \in SUBSET Nat, T # {}
  PROVE  \E n \in T : \A m \in T : n <= m
<1> DEFINE R == OpToRel(<, Nat)
<1>1. IsWellFoundedOn(R, Nat)
  BY NatLessThanWellFounded
<1>2. \A x, y \in Nat : <<y, x>> \in R <=> y < x
  BY DEF OpToRel
<1> HIDE DEF R
<1>3. PICK n \in T : \A m \in T : <<m, n>> \notin R
  BY <1>1, WFMin
<1>4. ASSUME NEW m \in T PROVE n <= m
  <2>1. m \in Nat /\ n \in Nat /\ ~(m < n)
    BY <1>2, <1>3
  <2>2. QED
    BY <2>1
<1>5. QED
  BY <1>4

(* Where a root is: no root before that place is it.                       *)
LEMMA PositionIsFirst ==
  ASSUME NEW r \in RootSet
  PROVE  /\ Position(r) \in 1 .. Len(Roots) /\ Roots[Position(r)] = r
         /\ \A j \in 1 .. Position(r) - 1 : Roots[j] # r
<1> DEFINE T == {i \in 1 .. Len(Roots) : Roots[i] = r}
<1>1. T \in SUBSET Nat /\ T # {}
  BY DEF RootSet
<1>2. PICK i \in T : \A m \in T : i <= m
  BY <1>1, Least
<1>3. ASSUME NEW j \in 1 .. i - 1 PROVE Roots[j] # r
  <2>1. i \in 1 .. Len(Roots)
    OBVIOUS
  <2>2. j \in 1 .. Len(Roots)
    BY <2>1
  <2>3. j \in Nat /\ i \in Nat /\ ~(i <= j)
    BY <2>1, <2>2
  <2>4. QED
    BY <1>2, <2>2, <2>3
<1>4. \E k \in 1 .. Len(Roots) : Roots[k] = r /\ \A j \in 1 .. k - 1 : Roots[j] # r
  BY <1>2, <1>3
<1>5. QED
  BY <1>4 DEF Position

(* The search has one winner: of roots that have a launcher, one is before *)
(* all others.                                                             *)
LEMMA OneWinner ==
  ASSUME NEW H \in SUBSET RootSet
  PROVE  /\ H # {} => \E r \in H : before(r) \cap H = {}
         /\ \A r, s \in H : before(r) \cap H = {} /\ before(s) \cap H = {} => r = s
         /\ \A r \in RootSet : r \notin before(r)
<1>1. \A r \in H : /\ Position(r) \in 1 .. Len(Roots) /\ Roots[Position(r)] = r
                   /\ \A j \in 1 .. Position(r) - 1 : Roots[j] # r
  BY PositionIsFirst
<1>2. ASSUME NEW r \in H, NEW s \in H, Position(s) < Position(r) PROVE s \in before(r)
  <2>1. Position(s) \in 1 .. Position(r) - 1 /\ Roots[Position(s)] = s
    BY <1>1, <1>2
  <2>2. QED
    BY <2>1 DEF before
<1>3. ASSUME H # {} PROVE \E r \in H : before(r) \cap H = {}
  <2> DEFINE T == {Position(r) : r \in H}
  <2>1. T \in SUBSET Nat /\ T # {}
    BY <1>1, <1>3
  <2>2. PICK p \in T : \A q \in T : p <= q
    BY <2>1, Least
  <2>3. PICK r \in H : p = Position(r)
    OBVIOUS
  <2>4. ASSUME NEW s \in H, s \in before(r) PROVE FALSE
    <3>1. PICK i \in 1 .. Position(r) - 1 : Roots[i] = s
      BY <2>4 DEF before
    <3>2. Position(s) \in T
      OBVIOUS
    <3>3. p <= Position(s)
      BY <2>2, <3>2
    <3>4. i \in Nat /\ i < Position(r) /\ i >= 1
      BY <1>1, <3>1
    <3>5. i \notin 1 .. Position(s) - 1
      BY <1>1, <3>1
    <3>6. QED
      BY <1>1, <2>3, <3>3, <3>4, <3>5
  <2>5. QED
    BY <2>4
<1>4. ASSUME NEW r \in H, NEW s \in H, before(r) \cap H = {}, before(s) \cap H = {} PROVE r = s
  <2>1. ~(Position(s) < Position(r)) /\ ~(Position(r) < Position(s))
    BY <1>2, <1>4
  <2>2. Position(r) = Position(s)
    BY <1>1, <2>1
  <2>3. QED
    BY <1>1, <2>2
<1>5. ASSUME NEW r \in RootSet, r \in before(r) PROVE FALSE
  BY <1>5, PositionIsFirst DEF before
<1>6. QED
  BY <1>3, <1>4, <1>5

(* What another root holds for a name decides what discovery makes of it.  *)
LEMMA OthersAccept ==
  ASSUME NEW r \in otherRoots, NEW n, dir'[r][n] = dir[r][n]
  PROVE  Accepts(r, n)' = Accepts(r, n)
<1>1. r # User
  BY DEF otherRoots
<1>2. CheckedTrustedPath(r, n)' <=> CheckedTrustedPath(r, n)
  BY <1>1 DEF CheckedTrustedPath
<1>3. QED
  BY <1>2 DEF Accepts

(* The roots before the per-user one are other roots.                      *)
LEMMA BeforeIsOther ==
  /\ User \in RootSet /\ before(User) \subseteq otherRoots
<1>1. User \in RootSet
  BY RootAssumption
<1>2. User \notin before(User)
  BY <1>1, OneWinner
<1>3. Position(User) \in 1 .. Len(Roots)
  BY <1>1, PositionIsFirst
<1>4. \A i \in 1 .. Position(User) - 1 : i \in 1 .. Len(Roots)
  BY <1>3
<1>5. before(User) \subseteq RootSet
  BY <1>4 DEF before, RootSet
<1>6. QED
  BY <1>1, <1>2, <1>5 DEF otherRoots

(* A command whose record says no more than before has told no more, while *)
(* the other roots hold what they held for its name and its own is safe.   *)
LEMMA StillTold ==
  ASSUME NEW m \in Managers, NEW j, Told(j), root = "safe" => root' = "safe",
         \A r \in otherRoots : dir'[r][j.name] = dir[r][j.name],
         job'[m].op = j.op, job'[m].pc = j.pc, job'[m].name = j.name,
         job'[m].build = j.build, job'[m].says = j.says, job'[m].moved = j.moved
  PROVE  Told(job[m])'
<1>1. \A r \in otherRoots : Accepts(r, j.name)' = Accepts(r, j.name)
  BY OthersAccept
<1>2. \A r \in before(User) : Accepts(r, j.name)' = Accepts(r, j.name)
  BY <1>1, BeforeIsOther
<1>3. QED
  BY <1>1, <1>2 DEF Told

(* A command at no such place, or one whose roots moved, has told nothing. *)
LEMMA NothingTold ==
  ASSUME NEW m \in Managers,
         job'[m].pc \notin {"search", "look", "change", "sync", "ok", "unsynced"}
         \/ job'[m].op \notin {"install", "remove"}
         \/ (job'[m].op = "remove" /\ job'[m].pc \notin {"sync", "ok", "unsynced"})
  PROVE  Told(job[m])'
  BY DEF Told

(* A step of one command that leaves the roots alone.                      *)
LEMMA OneTells ==
  ASSUME PInv, ToldInv, NEW m \in Managers, \A k \in Managers : k # m => job'[k] = job[k],
         root = "safe" => root' = "safe",
         \A r \in otherRoots : dir'[r] = dir[r],
         Told(job[m])'
  PROVE  ToldInv'
<1> SUFFICES ASSUME NEW k \in Managers, k # m PROVE Told(job[k])'
  BY DEF ToldInv
<1>1. job'[k] = job[k] /\ Told(job[k])
  BY DEF ToldInv
<1>2. QED
  BY <1>1, StillTold

(* The same for one whose roots have moved since: it says no more.         *)
LEMMA MovedTold ==
  ASSUME NEW m \in Managers, NEW j, Told(j), job'[m].moved = TRUE,
         job'[m].op = j.op, job'[m].pc = j.pc, job'[m].name = j.name, job'[m].build = j.build
  PROVE  Told(job[m])'
  BY DEF Told

(* The record of a command that is refused.                                *)
LEMMA RefusedTold ==
  ASSUME PInv, ToldInv, NEW m \in Managers, Refuse(m), UNCHANGED <<root, dir>>
  PROVE  ToldInv'
<1> DEFINE c == [Idle EXCEPT !.pc = "cleanup"]
<1>1. c.op = "none" /\ Idle.op = "none"
  BY DEF Idle
<1>2. job'[m].op = "none" /\ \A k \in Managers : k # m => job'[k] = job[k]
  <2>1. job' = [job EXCEPT ![m] = c] \/ job' = [job EXCEPT ![m] = Idle]
    BY DEF Refuse
  <2> HIDE DEF c
  <2>2. QED
    BY <1>1, <2>1 DEF PInv
<1>3. Told(job[m])'
  BY <1>2 DEF Told
<1>4. QED
  BY <1>2, <1>3, OneTells

(* A command that goes on with what it has: told at a place, told at the   *)
(* next.                                                                   *)
LEMMA GoTold ==
  ASSUME PInv, ToldInv, NEW m \in Managers, NEW step, Go(m, step), UNCHANGED dir,
         root = "safe" => root' = "safe",
         \/ step \in {"stage", "staged"}
         \/ job[m].pc = "look" /\ step = "change" /\ root' = root
         \/ job[m].pc = "sync" /\ step \in {"ok", "unsynced"} /\ root' = root
  PROVE  ToldInv'
<1> DEFINE j == job[m]
           n == [j EXCEPT !.pc = step]
<1>1. job'[m] = n /\ \A k \in Managers : k # m => job'[k] = job[k]
  BY DEF Go, PInv
<1>2. n.pc = step /\ n.op = j.op /\ n.name = j.name /\ n.build = j.build /\ n.says = j.says /\ n.moved = j.moved
  BY DEF PInv, JobInv, Good, Fields
<1>3. Told(j)
  BY DEF ToldInv
<1> HIDE DEF n
<1>4. Told(job[m])'
  <2>1. CASE step \in {"stage", "staged"}
    BY <1>1, <1>2, <2>1, NothingTold
  <2>2. CASE step \notin {"stage", "staged"}
    <3>1. root' = root /\ \A r \in otherRoots, x \in {j.name} : Accepts(r, x)' = Accepts(r, x)
      BY <2>2, OthersAccept
    <3>2. before(User) \subseteq otherRoots
      BY BeforeIsOther
    <3>3. QED
      BY <1>1, <1>2, <1>3, <2>2, <3>1, <3>2 DEF Told
  <2>3. QED
    BY <2>1, <2>2
<1>5. QED
  BY <1>1, <1>4, OneTells

(* Steps that end or begin a command tell nothing.                         *)
LEMMA EndsTold ==
  ASSUME PInv, ToldInv, NEW m \in Managers,
         \/ \E b \in Builds : BeginInstall(m, b)
         \/ \E n \in Names : BeginRemove(m, n)
         \/ Cleanup(m) \/ Kill(m)
  PROVE  ToldInv'
<1>1. UNCHANGED <<root, dir>>
  BY DEF BeginInstall, BeginRemove, Cleanup, Kill, files
<1>2. /\ \A k \in Managers : k # m => job'[k] = job[k]
      /\ job'[m].pc \in {"root", "idle"} \/ (job'[m].op = "remove" /\ job'[m].pc = "look")
  <2>1. ASSUME NEW b \in Builds PROVE [Idle EXCEPT !.pc = "root", !.op = "install", !.build = b].pc = "root"
    BY DEF Idle
  <2>2. ASSUME NEW n \in Names
        PROVE  /\ [Idle EXCEPT !.pc = "look", !.op = "remove", !.name = n].op = "remove"
               /\ [Idle EXCEPT !.pc = "look", !.op = "remove", !.name = n].pc = "look"
    BY DEF Idle
  <2>3. Idle.pc = "idle" /\ [Idle EXCEPT !.killed = TRUE].pc = "idle"
    BY DEF Idle
  <2>4. CASE \E b \in Builds : BeginInstall(m, b)
    BY <2>1, <2>4 DEF BeginInstall, PInv
  <2>5. CASE \E n \in Names : BeginRemove(m, n)
    BY <2>2, <2>5 DEF BeginRemove, PInv
  <2>6. CASE Cleanup(m) \/ Kill(m)
    BY <2>3, <2>6 DEF Cleanup, Kill, PInv
  <2>7. QED
    BY <2>4, <2>5, <2>6
<1>3. Told(job[m])'
  BY <1>2, NothingTold
<1>4. QED
  BY <1>1, <1>2, <1>3, OneTells

(* A launcher that is reported as none was not accepted, or did not have   *)
(* to be; one that is reported as accepted may be.                         *)
LEMMA NoneIsNotAccepted ==
  ASSUME NEW r, NEW n
  PROVE  /\ "none" \in candidateLauncher(r, n) => FALSE \in Accepts(r, n)
         /\ "accepted" \in candidateLauncher(r, n) => TRUE \in Accepts(r, n)
<1>1. CASE ~CheckedTrustedPath(r, n)
  BY <1>1 DEF candidateLauncher, Accepts
<1>2. CASE CheckedTrustedPath(r, n)
  <2>1. \A a \in pluginMetadata(dir[r][n].build, n) : a = TRUE \/ a = FALSE
    BY DEF pluginMetadata
  <2>2. QED
    BY <1>2, <2>1 DEF candidateLauncher, Accepts
<1>3. QED
  BY <1>1, <1>2

(* A handshake is answered or it is not.                                   *)
LEMMA AnswersAreYesOrNo == \A b \in Builds : Answers(b) \subseteq BOOLEAN
<1>1. DOMAIN Answer = {"yes", "no", "late"}
  BY DEF Answer
<1>2. Answer["yes"] \subseteq BOOLEAN /\ Answer["no"] \subseteq BOOLEAN /\ Answer["late"] \subseteq BOOLEAN
  BY DEF Answer
<1>3. QED
  BY <1>1, <1>2, BuildAssumption DEF Answers

(* The build answers its own handshake, under the name it is installed as. *)
LEMMA ExamineTold ==
  ASSUME PInv, ToldInv, NEW m \in Managers, Examine(m)
  PROVE  ToldInv'
<1> DEFINE j == job[m]
           n == [[j EXCEPT !.name = j.build.name] EXCEPT !.pc = "search"]
<1>1. UNCHANGED <<root, dir>> /\ DOMAIN j = Fields /\ DOMAIN job = Managers
  BY DEF Examine, files, PInv, JobInv, Good
<1>2. CASE Refuse(m)
  BY <1>1, <1>2, RefusedTold
<1>3. CASE TRUE \in Answers(j.build) /\ job' = [job EXCEPT ![m].name = j.build.name, ![m].pc = "search"]
  <2>1. job'[m] = n /\ \A k \in Managers : k # m => job'[k] = job[k]
    BY <1>1, <1>3
  <2>2. n.pc = "search" /\ n.name = j.build.name /\ n.build = j.build
    BY <1>1 DEF Fields
  <2> HIDE DEF n
  <2>3. Told(job[m])'
    BY <1>3, <2>1, <2>2 DEF Told
  <2>4. QED
    BY <1>1, <2>1, <2>3, OneTells
<1>4. QED
  <2>1. PICK answered \in Answers(j.build), allow \in BOOLEAN :
          IF answered /\ Installable(j.build, allow)
          THEN job' = [job EXCEPT ![m].name = j.build.name, ![m].pc = "search"]
          ELSE Refuse(m)
    BY DEF Examine
  <2>2. answered \in BOOLEAN
    <3>1. j.build \in Builds
      BY DEF PInv, JobInv, Good, Examine, At
    <3>2. QED
      BY <3>1, AnswersAreYesOrNo
  <2>3. QED
    BY <1>2, <1>3, <2>1, <2>2

(* Nothing is found in the roots before: none of them had to answer, and   *)
(* the per-user root is safe, or the command knows that it is not.         *)
LEMMA SearchEarlierTold ==
  ASSUME PInv, ToldInv, NEW m \in Managers, SearchEarlier(m)
  PROVE  ToldInv'
<1> DEFINE j == job[m]
           n(x) == [[[j EXCEPT !.pc = "look"] EXCEPT !.says = User] EXCEPT !.moved = x]
<1>1. /\ UNCHANGED <<root, dir>> /\ j.pc = "search" /\ DOMAIN j = Fields /\ DOMAIN job = Managers
      /\ j.op = "install" /\ Told(j)
  BY DEF SearchEarlier, At, files, PInv, JobInv, Good, ToldInv
<1>2. CASE Refuse(m)
  BY <1>1, <1>2, RefusedTold
<1>3. CASE ~Refuse(m)
  <2>1. PICK found \in [before(User) -> {"none", "unsafe", "accepted"}] :
          /\ \A r \in before(User) : found[r] \in candidateLauncher(r, j.name)
          /\ IF \A r \in before(User) : found[r] = "none"
             THEN job' = [job EXCEPT ![m].pc = "look", ![m].says = User, ![m].moved = (root # "safe")]
             ELSE Refuse(m)
    BY DEF SearchEarlier
  <2>2. /\ \A r \in before(User) : "none" \in candidateLauncher(r, j.name)
        /\ job' = [job EXCEPT ![m].pc = "look", ![m].says = User, ![m].moved = (root # "safe")]
    <3>1. \A r \in before(User) : found[r] = "none"
      BY <1>3, <2>1
    <3>2. QED
      BY <2>1, <3>1
  <2>3. \A r \in before(User) : FALSE \in Accepts(r, j.name)
    BY <2>2, NoneIsNotAccepted
  <2>4. job'[m] = n(root # "safe") /\ \A k \in Managers : k # m => job'[k] = job[k]
    BY <1>1, <2>2
  <2>5. \A x \in BOOLEAN : /\ n(x).pc = "look" /\ n(x).says = User /\ n(x).moved = x
                           /\ n(x).op = j.op /\ n(x).name = j.name /\ n(x).build = j.build
    BY <1>1 DEF Fields
  <2> HIDE DEF n
  <2>6. PICK x \in BOOLEAN : x = (root # "safe")
    OBVIOUS
  <2>7. /\ job'[m].pc = "look" /\ job'[m].says = User /\ job'[m].moved = x
        /\ job'[m].op = j.op /\ job'[m].name = j.name /\ job'[m].build = j.build
    BY <2>4, <2>5, <2>6
  <2>8. \A r \in before(User), y \in {j.name} : Accepts(r, y)' = Accepts(r, y)
    BY <1>1, BeforeIsOther, OthersAccept
  <2>9. Told(job[m])'
    BY <1>1, <2>3, <2>6, <2>7, <2>8 DEF Told
  <2>10. QED
    BY <1>1, <2>4, <2>9, OneTells
<1>4. QED
  BY <1>2, <1>3

(* The commit points touch no other root; they note the names they take.   *)
LEMMA PutTold ==
  ASSUME PInv, ToldInv, NEW m \in Managers, Rename(m) \/ Remove(m)
  PROVE  ToldInv'
<1> DEFINE n    == job[m].name
           step == IF job[m].op = "install" THEN "sync" ELSE "report"
           L(k) == [job[k] EXCEPT !.lost = k # m]
<1>1. PICK f : /\ job[m].pc = "change" /\ root' = root
               /\ dir' = [dir EXCEPT ![User][n] = f]
               /\ job' = [Changed(m, User, n) EXCEPT ![m].pc = step]
  BY DEF Rename, Remove, Put, At
<1>2. \A r \in otherRoots : dir'[r] = dir[r]
  BY <1>1 DEF PInv, RootTypes, otherRoots
<1>3. ASSUME NEW k \in Managers
      PROVE  /\ DOMAIN job[k] = Fields /\ Told(job[k])
             /\ Changed(m, User, n)[k] = IF job[k].name = n THEN L(k) ELSE job[k]
  BY DEF Changed, PInv, JobInv, Good, ToldInv
<1>4. ASSUME NEW k \in Managers
      PROVE  LET c == Changed(m, User, n)[k] IN
             /\ DOMAIN c = Fields /\ c.pc = job[k].pc /\ c.op = job[k].op /\ c.name = job[k].name
             /\ c.build = job[k].build /\ c.says = job[k].says /\ c.moved = job[k].moved
  BY <1>3 DEF Fields
<1>5. ASSUME NEW k \in Managers, k # m PROVE Told(job[k])'
  <2>1. job'[k] = Changed(m, User, n)[k]
    BY <1>1, <1>5 DEF Changed
  <2>2. /\ job'[k].pc = job[k].pc /\ job'[k].op = job[k].op /\ job'[k].name = job[k].name
        /\ job'[k].build = job[k].build /\ job'[k].says = job[k].says /\ job'[k].moved = job[k].moved
    BY <1>4, <2>1
  <2>3. Told(job[k]) /\ root' = root /\ \A r \in otherRoots : dir'[r][job[k].name] = dir[r][job[k].name]
    BY <1>1, <1>2, <1>3
  <2>4. QED
    BY <2>2, <2>3, StillTold
<1>6. Told(job[m])'
  <2> DEFINE c == Changed(m, User, n)[m]
             j == [c EXCEPT !.pc = step]
  <2>1. job'[m] = j
    <3>1. DOMAIN Changed(m, User, n) = Managers
      BY DEF Changed
    <3>2. QED
      BY <1>1, <3>1
  <2>2. /\ j.pc = step /\ j.op = job[m].op /\ j.name = n
        /\ j.build = job[m].build /\ j.says = job[m].says /\ j.moved = job[m].moved
    <3>1. DOMAIN c = Fields
      BY <1>4
    <3> HIDE DEF c
    <3>2. j.pc = step /\ j.op = c.op /\ j.name = c.name /\ j.build = c.build /\ j.says = c.says /\ j.moved = c.moved
      BY <3>1 DEF Fields
    <3> USE DEF c
    <3>3. QED
      BY <1>4, <3>2
  <2> HIDE DEF j
  <2>3. Told(job[m]) /\ (job[m].op = "remove" \/ job[m].op = "install")
    BY <1>1, <1>3 DEF PInv, JobInv, Good
  <2>4. \A r \in otherRoots, x \in {n} : Accepts(r, x)' = Accepts(r, x)
    BY <1>2, OthersAccept
  <2>5. CASE job[m].op = "install"
    BY <1>1, <2>1, <2>2, <2>3, <2>4, <2>5, BeforeIsOther DEF Told
  <2>6. CASE job[m].op = "remove"
    BY <2>1, <2>2, <2>6, NothingTold
  <2>7. QED
    BY <2>3, <2>5, <2>6
<1>7. QED
  BY <1>5, <1>6 DEF ToldInv

(* Remove's report: no other root has a launcher, or the first that has    *)
(* one is named, or is said to be unsure.                                  *)
LEMMA SearchOthersTold ==
  ASSUME PInv, ToldInv, NEW m \in Managers, SearchOthers(m)
  PROVE  ToldInv'
<1> DEFINE j    == job[m]
           n(x) == [[[j EXCEPT !.pc = "sync"] EXCEPT !.moved = FALSE] EXCEPT !.says = x]
<1>1. /\ UNCHANGED <<root, dir>> /\ j.pc = "report" /\ DOMAIN j = Fields /\ DOMAIN job = Managers
      /\ Told(j) /\ j.op \in {"install", "remove"}
  BY DEF SearchOthers, At, files, PInv, JobInv, Good, ToldInv
<1>2. PICK found \in [otherRoots -> {"none", "unsafe", "accepted"}] :
        /\ \A r \in otherRoots : found[r] \in candidateLauncher(r, j.name)
        /\ LET hits  == {r \in otherRoots : found[r] # "none"}
               first == CHOOSE r \in hits : before(r) \cap hits = {}
           IN job' = [job EXCEPT ![m].pc = "sync", ![m].moved = FALSE,
                        ![m].says = IF hits = {} THEN "none"
                                    ELSE IF found[first] = "unsafe" THEN "unsure" ELSE first]
  BY DEF SearchOthers
<1> DEFINE hits  == {r \in otherRoots : found[r] # "none"}
           first == CHOOSE r \in hits : before(r) \cap hits = {}
           x     == IF hits = {} THEN "none" ELSE IF found[first] = "unsafe" THEN "unsure" ELSE first
<1>3. hits \in SUBSET RootSet
  BY DEF otherRoots
<1>4. hits # {} => first \in hits /\ before(first) \cap hits = {}
  <2>1. hits # {} => \E r \in hits : before(r) \cap hits = {}
    BY <1>3, OneWinner
  <2>2. QED
    BY <2>1
<1>5. \A r \in otherRoots : r \notin hits => FALSE \in Accepts(r, j.name)
  BY <1>2, NoneIsNotAccepted
<1>6. \A r \in hits : found[r] # "unsafe" => TRUE \in Accepts(r, j.name)
  <2>1. \A r \in hits : found[r] # "unsafe" => found[r] = "accepted"
    OBVIOUS
  <2>2. QED
    BY <1>2, <2>1, NoneIsNotAccepted
<1>7. \/ x = "unsure"
      \/ x = "none" /\ \A r \in otherRoots : FALSE \in Accepts(r, j.name)
      \/ /\ x \in otherRoots /\ TRUE \in Accepts(x, j.name)
         /\ \A r \in otherRoots \cap before(x) : FALSE \in Accepts(r, j.name)
  <2>1. CASE hits = {}
    BY <1>5, <2>1
  <2>2. CASE hits # {} /\ found[first] = "unsafe"
    BY <2>2
  <2>3. CASE hits # {} /\ found[first] # "unsafe"
    <3>1. first \in hits /\ x = first
      BY <1>4, <2>3
    <3> HIDE DEF first, x
    <3>2. \A r \in otherRoots \cap before(first) : r \notin hits
      BY <1>4, <2>3
    <3> HIDE DEF hits
    <3>3. first \in otherRoots
      BY <3>1 DEF hits
    <3>4. TRUE \in Accepts(first, j.name)
      BY <1>6, <2>3, <3>1
    <3>5. QED
      BY <1>5, <3>1, <3>2, <3>3, <3>4
  <2>4. QED
    BY <2>1, <2>2, <2>3
<1>8. job'[m] = n(x) /\ \A k \in Managers : k # m => job'[k] = job[k]
  BY <1>1, <1>2
<1> HIDE DEF x, hits, first
<1>9. n(x).pc = "sync" /\ n(x).says = x /\ n(x).name = j.name /\ n(x).op = j.op
  BY <1>1 DEF Fields
<1> HIDE DEF n
<1>10. \A r \in otherRoots, y \in {j.name} : Accepts(r, y)' = Accepts(r, y)
  BY <1>1, OthersAccept
<1>11. j.op = "remove"
  BY <1>1 DEF PInv, JobInv, Good
<1>12. PICK y : y = x
  OBVIOUS
<1>13. job'[m].pc = "sync" /\ job'[m].says = y /\ job'[m].name = j.name /\ job'[m].op = "remove"
  BY <1>8, <1>9, <1>11, <1>12
<1>14. Told(job[m])'
  BY <1>7, <1>10, <1>12, <1>13 DEF Told
<1>15. QED
  BY <1>1, <1>8, <1>14, OneTells

(* A file put on another root under a command's name is noted; one put on  *)
(* the per-user root is no other root's.                                   *)
LEMMA HostPutTold ==
  ASSUME PInv, ToldInv, NEW r \in RootSet, NEW n \in Names, NEW f, HostPut(r, n, f)
  PROVE  ToldInv'
<1> SUFFICES ASSUME NEW k \in Managers PROVE Told(job[k])'
  BY DEF ToldInv
<1> DEFINE j == job[k]
           L == [j EXCEPT !.lost = k # "host"]
           M == [j EXCEPT !.moved = TRUE]
<1>1. /\ root' = root /\ dir' = [dir EXCEPT ![r][n] = f] /\ job' = Changed("host", r, n)
      /\ DOMAIN j = Fields /\ Told(j)
  BY DEF HostPut, PInv, JobInv, Good, ToldInv
<1>2. \A q \in RootSet : \A y : q # r \/ y # n => dir'[q][y] = dir[q][y]
  BY <1>1 DEF PInv, RootTypes
<1>3. CASE j.name # n
  <2>1. job'[k] = j
    BY <1>1, <1>3 DEF Changed
  <2>2. \A q \in otherRoots : dir'[q][j.name] = dir[q][j.name]
    BY <1>2, <1>3 DEF otherRoots
  <2>3. QED
    BY <1>1, <2>1, <2>2, StillTold
<1>4. CASE j.name = n /\ r # User
  <2>1. job'[k] = M
    BY <1>1, <1>4 DEF Changed
  <2>2. M.moved = TRUE /\ M.op = j.op /\ M.pc = j.pc /\ M.name = j.name /\ M.build = j.build
    BY <1>1 DEF Fields
  <2> HIDE DEF M
  <2>3. QED
    BY <1>1, <2>1, <2>2, MovedTold
<1>5. CASE j.name = n /\ r = User
  <2>1. job'[k] = L
    BY <1>1, <1>5 DEF Changed
  <2>2. /\ L.op = j.op /\ L.pc = j.pc /\ L.name = j.name /\ L.build = j.build
        /\ L.says = j.says /\ L.moved = j.moved
    BY <1>1 DEF Fields
  <2> HIDE DEF L
  <2>3. \A q \in otherRoots : dir'[q][j.name] = dir[q][j.name]
    BY <1>2, <1>5 DEF otherRoots
  <2>4. QED
    BY <1>1, <2>1, <2>2, <2>3, StillTold
<1>6. QED
  BY <1>3, <1>4, <1>5

(* A loosened path is noted by all; a power loss leaves no command.        *)
LEMMA WorldTold ==
  ASSUME PInv, ToldInv, HostLoosens \/ PowerLoss
  PROVE  ToldInv'
<1> SUFFICES ASSUME NEW k \in Managers PROVE Told(job[k])'
  BY DEF ToldInv
<1> DEFINE j == job[k]
           M == [j EXCEPT !.moved = TRUE]
<1>1. DOMAIN j = Fields /\ Told(j)
  BY DEF PInv, JobInv, Good, ToldInv
<1>2. CASE HostLoosens
  <2>1. job'[k] = M
    BY <1>2 DEF HostLoosens
  <2>2. M.moved = TRUE /\ M.op = j.op /\ M.pc = j.pc /\ M.name = j.name /\ M.build = j.build
    BY <1>1 DEF Fields
  <2> HIDE DEF M
  <2>3. QED
    BY <1>1, <2>1, <2>2, MovedTold
<1>3. CASE PowerLoss
  <2>1. \A y : [Idle EXCEPT !.killed = y].pc = "idle"
    BY DEF Idle
  <2>2. job'[k] = [Idle EXCEPT !.killed = job[k].killed \/ Running(k)]
    BY <1>3 DEF PowerLoss
  <2>3. job'[k].pc = "idle"
    BY <2>1, <2>2, Zenon
  <2>4. QED
    BY <2>3, NothingTold
<1>4. QED
  BY <1>2, <1>3

(* What is told stays so through every step of any command or of the host. *)
LEMMA ToldStep == PInv /\ ToldInv /\ [Next]_vars => ToldInv'
<1> SUFFICES ASSUME PInv, ToldInv, [Next]_vars PROVE ToldInv'
  OBVIOUS
<1>1. CASE UNCHANGED pluginVars
  <2>1. root' = root /\ dir' = dir /\ job' = job
    BY <1>1 DEF pluginVars
  <2>2. \A k \in Managers : Told(job[k])'
    BY <2>1, StillTold DEF ToldInv
  <2>3. QED
    BY <2>2 DEF ToldInv
<1>2. ASSUME NEW m \in Managers, MakeRoot(m) \/ stageInRoot(m) \/ stageFails(m) PROVE ToldInv'
  <2>1. CASE Refuse(m) /\ UNCHANGED <<root, dir>>
    BY <2>1, RefusedTold
  <2>2. CASE (Go(m, "stage") \/ Go(m, "staged")) /\ UNCHANGED dir /\ (root' = root \/ root' = "safe")
    BY <2>2, GoTold
  <2>3. QED
    BY <1>2, <2>1, <2>2 DEF MakeRoot, stageInRoot, stageFails, files
<1>3. ASSUME NEW m \in Managers, LookAtName(m) \/ ChangeFails(m) PROVE ToldInv'
  BY <1>3, RefusedTold, GoTold DEF LookAtName, ChangeFails, At, files
<1>4. ASSUME NEW m \in Managers, syncRootDir(m) \/ syncFails(m) PROVE ToldInv'
  BY <1>4, GoTold DEF syncRootDir, syncFails, At, files
<1>5. ASSUME NEW m \in Managers, Manage(m) PROVE ToldInv'
  BY <1>2, <1>3, <1>4, <1>5, EndsTold, ExamineTold, SearchEarlierTold, PutTold, SearchOthersTold DEF Manage
<1>6. CASE RootsChange
  BY <1>5, <1>6, HostPutTold, WorldTold DEF RootsChange, Host
<1>7. RootsChange \/ UNCHANGED pluginVars
  BY DEF Next, vars, DeclareOwner, BeginCommand, routeToOwner, delegateLog, discoverPlugins,
         missingPlugin, checkAgain, execPluginAs, PluginEnds
<1>8. QED
  BY <1>1, <1>6, <1>7

(* No command has begun.                                                   *)
LEMMA InitTold == Init => ToldInv
  BY IdleFields DEF Init, PluginInit, ToldInv, Told

(* Of launchers whose handshake answers alike each time, one that need not *)
(* be accepted is not, and one that may be is.                             *)
LEMMA SteadyAccepts ==
  ASSUME NEW n, Steady(n), NEW r \in RootSet, FALSE \in Accepts(r, n),
         CheckedTrustedPath(r, n) => dir[r][n].build \in Builds
  PROVE  TRUE \notin Accepts(r, n)
<1>1. CASE ~CheckedTrustedPath(r, n)
  BY <1>1 DEF Accepts
<1>2. CASE CheckedTrustedPath(r, n)
  <2> DEFINE b == dir[r][n].build
  <2>1. b.answers # "late" /\ b \in Builds
    BY <1>2 DEF Steady, CheckedTrustedPath
  <2>2. b.answers = "yes" \/ b.answers = "no"
    BY <2>1, BuildAssumption DEF Answer
  <2>3. Answers(b) = {TRUE} \/ Answers(b) = {FALSE}
    <3>1. Answer["yes"] = {TRUE} /\ Answer["no"] = {FALSE}
      BY DEF Answer
    <3>2. QED
      BY <2>2, <3>1 DEF Answers
  <2> HIDE DEF b
  <2>4. pluginMetadata(b, n) = {(b.name = n)} \/ pluginMetadata(b, n) = {FALSE}
    BY <2>3 DEF pluginMetadata
  <2>5. Accepts(r, n) = pluginMetadata(b, n)
    BY <1>2 DEF Accepts, b
  <2>6. QED
    BY <2>4, <2>5
<1>3. QED
  BY <1>1, <1>2

(* What install and remove said of the launcher that runs is what the      *)
(* search selects, while what they looked at stays as it was.              *)
THEOREM ReportsHold == Spec => []ReportHolds
<1>1. PInv /\ ToldInv => ReportHolds
  <2> SUFFICES ASSUME PInv, ToldInv, NEW m \in Managers, job[m].pc \in {"ok", "unsynced"}, ~job[m].moved,
                      ~job[m].lost, job[m].says # "unsure", Steady(job[m].name)
               PROVE  Selected(job[m].name) = job[m].says
    BY DEF ReportHolds
  <2> DEFINE j == job[m]
             n == j.name
             hits == {r \in RootSet : TRUE \in Accepts(r, n)}
  <2>1. /\ Told(j) /\ n \in Names /\ dir[User][n] = Want(j)
        /\ j.op = "remove" \/ (j.op = "install" /\ j.build \in Builds)
    BY DEF PInv, JobInv, Good, Lasts, ToldInv
  <2>2. \A r \in RootSet : CheckedTrustedPath(r, n) => dir[r][n].build \in Builds
    BY <2>1 DEF PInv, RootTypes, CheckedTrustedPath, Files
  <2>3. \A r \in RootSet : FALSE \in Accepts(r, n) => r \notin hits
    BY <2>2, SteadyAccepts
  <2>4. User \in RootSet /\ before(User) \subseteq otherRoots
    BY BeforeIsOther
  <2>5. ASSUME NEW r \in hits, before(r) \cap hits = {} PROVE Selected(n) = r
    <3>1. hits \in SUBSET RootSet
      OBVIOUS
    <3>2. \A s \in hits : before(s) \cap hits = {} => s = r
      BY <2>5, <3>1, OneWinner
    <3>3. (CHOOSE s \in hits : before(s) \cap hits = {}) = r
      BY <2>5, <3>2
    <3>4. QED
      BY <3>3 DEF Selected
  <2> HIDE DEF hits
  <2>6. CASE j.op = "install"
    <3>1. /\ root = "safe" /\ j.says = User /\ j.build.name = n /\ TRUE \in Answers(j.build)
          /\ \A r \in before(User) : FALSE \in Accepts(r, n)
      BY <2>1, <2>6 DEF Told
    <3>2. dir[User][n] = File(j.build) /\ File(j.build) # Absent
      <4>1. j.build \in Builds
        BY <2>1, <2>6
      <4>2. File(j.build) \in Files
        BY <4>1 DEF File, Files
      <4>3. QED
        BY <2>1, <2>6, <4>2, HostAssumption DEF Want
    <3>3. CheckedTrustedPath(User, n)
      BY <3>1, <3>2 DEF CheckedTrustedPath, File
    <3>4. TRUE \in Accepts(User, n)
      <4>1. dir[User][n].build = j.build
        BY <3>2 DEF File
      <4>2. (TRUE /\ j.build.name = n) \in pluginMetadata(j.build, n)
        BY <3>1 DEF pluginMetadata
      <4>3. (TRUE /\ j.build.name = n) = TRUE
        BY <3>1
      <4>4. QED
        BY <3>3, <4>1, <4>2, <4>3 DEF Accepts
    <3>5. User \in hits /\ before(User) \cap hits = {}
      BY <2>3, <2>4, <3>1, <3>4 DEF hits, otherRoots
    <3>6. QED
      BY <2>5, <3>1, <3>5
  <2>7. CASE j.op = "remove"
    <3>1. Accepts(User, n) = {FALSE}
      BY <2>1, <2>7 DEF Want, Accepts, CheckedTrustedPath
    <3>2. User \notin hits
      BY <3>1 DEF hits
    <3>3. CASE j.says = "none" /\ \A r \in otherRoots : FALSE \in Accepts(r, n)
      <4>1. hits = {}
        BY <2>3, <3>2, <3>3 DEF hits, otherRoots
      <4>2. QED
        BY <3>3, <4>1 DEF hits, Selected
    <3>4. CASE /\ j.says \in otherRoots /\ TRUE \in Accepts(j.says, n)
               /\ \A r \in otherRoots \cap before(j.says) : FALSE \in Accepts(r, n)
      <4>1. j.says \in hits /\ before(j.says) \cap hits = {}
        BY <2>3, <3>2, <3>4 DEF hits, otherRoots
      <4>2. QED
        BY <2>5, <4>1
    <3>5. QED
      BY <2>1, <2>7, <3>3, <3>4 DEF Told
  <2>8. QED
    BY <2>1, <2>6, <2>7
<1>2. QED
  BY <1>1, InitTold, PluginInvariant, ToldStep, PTL DEF Spec
=============================================================================
