---------------------------- MODULE ProfileFiles ----------------------------
(***************************************************************************)
(* Profiles and the jsonl stores they point at (cli/profile.go,            *)
(* cli/profile_retire.go): `profile create`, `profile update`,             *)
(* `profile retire` with and without --move-data, `store init` and a core  *)
(* command that opens the store.  A profile is one file, replaced or       *)
(* linked whole; a store is a directory, renamed whole; the journal's      *)
(* flock is all that keeps two commands apart, and it goes with the        *)
(* directory.  Commands may die or fail at any step.                       *)
(***************************************************************************)
EXTENDS Naturals, Sequences

CONSTANTS
  Retirers, Updaters, Users,  \* running commands, by what they run
  Names,      \* profile names
  RetiredOf,  \* the candidates retiredName tries for each name, in order;
              \* bound: a name with none is not retired
  InUse,      \* bound: the names that updates, store init and other commands
              \* are run on; a retired name is left alone
  Paths,      \* data directories
  NewPaths,   \* those that --move-data is given; bound: no profile that may be
              \* retired has its data there at the start
  Stores,     \* directories with their contents, wherever they are
  Settings,   \* what else a profile says: its log id, keys, witness, policy
  Keepers,    \* log owners other than the core
  Offered,    \* profiles that may be created: [name, file]
  Starts,     \* profile files at the start
  StartDirs,  \* store at each path at the start
  NoFile, NoPath, NoStore, NoProc,
  MaxMishaps  \* bound: deaths and failed file operations in one behaviour

Procs  == Retirers \cup Updaters \cup Users
LogOwners == Keepers \cup {"cll", "undeclared"}
Files  == [owner : LogOwners, data : Paths, settings : Settings]

ASSUME NamesAssumption   == RetiredOf \in [Names -> Seq(Names)] /\ InUse \subseteq Names
ASSUME OfferedAssumption == Offered \subseteq [name : Names, file : Files]
ASSUME StartAssumption   == /\ Starts \subseteq [Names -> Files \cup {NoFile}]
                            /\ StartDirs \subseteq [Paths -> Stores \cup {NoStore}]
                            /\ \A start \in StartDirs, d, e \in Paths :
                                 d # e /\ start[d] = start[e] => start[d] = NoStore
ASSUME NoneAssumption    == /\ NoFile \notin Files /\ NoStore \notin Stores
                            /\ NoPath \notin Paths /\ NoProc \notin Procs
ASSUME FaultAssumption   == MaxMishaps \in Nat

RetiredNames == UNION {{RetiredOf[n][i] : i \in DOMAIN RetiredOf[n]} : n \in Names}
MayRetire(n) == RetiredOf[n] # <<>>

(* Bounds: a retired name is not retired again, used or created under; no  *)
(* profile is created under a name that a retire frees, and none whose     *)
(* data is where another's may be moved is retired.                        *)
ASSUME ApartAssumption ==
  /\ NewPaths \subseteq Paths
  /\ \A n \in RetiredNames : ~MayRetire(n) /\ n \notin InUse
  /\ \A o \in Offered : o.name \notin RetiredNames /\ ~MayRetire(o.name)
  /\ \A start \in Starts, n \in Names :
       MayRetire(n) /\ start[n] # NoFile => start[n].data \notin NewPaths

VARIABLES
  file,     \* the profile file of each name
  dir,      \* the store at each path
  journal,  \* stores that have a cll.jsonl
  holder,   \* who holds the flock of each store's journal
  pc,
  job,      \* the command of each process: its profile as loaded, and names
  mishaps,
  kept,     \* history: the stores that profiles named at the start
  remade    \* history: stores that were being moved when store init made another
            \* where they had been

fileVars == <<file, dir, journal, holder, pc, job, mishaps, kept, remade>>
disk == <<file, dir, journal>>
history == <<kept, remade>>

NoJob == [name |-> NoFile]

(* A profile points at the store.                                          *)
Named(s) == \E n \in Names : file[n] # NoFile /\ dir[file[n].data] = s

FilesInit ==
  /\ file \in Starts
  /\ dir  \in StartDirs
  /\ journal = {s \in Stores : \E d \in Paths : dir[d] = s}
  /\ holder  = [s \in Stores |-> NoProc]
  /\ pc      = [p \in Procs |-> "idle"]
  /\ job     = [p \in Procs |-> NoJob]
  /\ mishaps = 0
  /\ kept    = {s \in Stores : Named(s)}
  /\ remade  = {}

Go(p, here, there)  == pc[p] = here /\ pc' = [pc EXCEPT ![p] = there]
Mishap == mishaps < MaxMishaps /\ mishaps' = mishaps + 1
NoMishap == mishaps' = mishaps

(* LoadProfile: the command works on the file as it was read here.         *)
Load(p, n, there) ==
  /\ Go(p, "idle", there)
  /\ file[n] # NoFile
  /\ job' = [job EXCEPT ![p] = [name |-> n, file |-> file[n], to |-> NoPath, retired |-> n]]

(* The end of a command: its flock goes with it.                           *)
End(p) ==
  /\ pc'     = [pc EXCEPT ![p] = "idle"]
  /\ job'    = [job EXCEPT ![p] = NoJob]
  /\ holder' = [s \in Stores |-> IF holder[s] = p THEN NoProc ELSE holder[s]]

----------------------------------------------------------------------------
(* profile create: the file is linked into place, so never over another.   *)
Create(o) ==
  /\ file[o.name] = NoFile
  /\ file' = [file EXCEPT ![o.name] = o.file]
  /\ UNCHANGED <<dir, journal, holder, pc, job, mishaps, history>>

(* profile update: the new settings are the loaded ones with some changed; *)
(* the log's owner may be declared once and not changed after.             *)
DeclaresOwner(old, new) == new # "undeclared" /\ (old = "undeclared" \/ new = old)

BeginUpdate(p, n, x, k) ==
  /\ pc[p] = "idle" /\ file[n] # NoFile
  /\ DeclaresOwner(file[n].owner, x)
  /\ pc'  = [pc EXCEPT ![p] = "updating"]
  /\ job' = [job EXCEPT ![p] = [name |-> n, file |-> [file[n] EXCEPT !.owner = x, !.settings = k],
                                to |-> NoPath, retired |-> n]]
  /\ UNCHANGED <<disk, holder, mishaps, history>>

(* AtomicFile's Lstat, then its Rename: the file is there or the update is *)
(* refused; a rename needs no file to replace.                             *)
StatUpdate(p) ==
  /\ Go(p, "updating", "replacing")
  /\ file[job[p].name] # NoFile
  /\ UNCHANGED <<disk, holder, job, mishaps, history>>

UpdateRefused(p) ==
  /\ pc[p] = "updating"
  /\ file[job[p].name] = NoFile
  /\ End(p)
  /\ UNCHANGED <<disk, mishaps, history>>

ReplaceFile(p) ==
  /\ pc[p] = "replacing"
  /\ file' = [file EXCEPT ![job[p].name] = job[p].file]
  /\ End(p)
  /\ UNCHANGED <<dir, journal, mishaps, history>>

----------------------------------------------------------------------------
(* profile retire NAME [--move-data DIR]: the core does not move a log     *)
(* that a plugin keeps, or one with no declared owner.                     *)
BeginRetire(p, n, to) ==
  /\ Go(p, "idle", "retiring")
  /\ MayRetire(n)
  /\ file[n] # NoFile
  /\ to # NoPath => file[n].owner = "cll"
  /\ job' = [job EXCEPT ![p] = [name |-> n, file |-> file[n], to |-> to, retired |-> n]]
  /\ UNCHANGED <<disk, holder, mishaps, history>>

Free(n) == {i \in DOMAIN RetiredOf[n] : file[RetiredOf[n][i]] = NoFile}
First(I) == CHOOSE i \in I : \A j \in I : i <= j

(* retiredName: the first candidate with no file.                          *)
PickName(p) ==
  /\ Go(p, "retiring", "named")
  /\ Free(job[p].name) # {}
  /\ job' = [job EXCEPT ![p].retired = RetiredOf[job[p].name][First(Free(job[p].name))]]
  /\ UNCHANGED <<disk, holder, mishaps, history>>

NamesUsedUp(p) ==
  /\ pc[p] = "retiring"
  /\ Free(job[p].name) = {}
  /\ End(p)
  /\ UNCHANGED <<disk, mishaps, history>>

(* holdJSONLStore: the flock of the core's journal, if there is one.       *)
HasJournal(p) == job[p].file.owner \notin Keepers /\ dir[job[p].file.data] \in journal
Source(p)     == dir[job[p].file.data]

HoldStore(p) ==
  /\ Go(p, "named", "holding")
  /\ IF HasJournal(p)
       THEN /\ holder[Source(p)] = NoProc
            /\ holder' = [holder EXCEPT ![Source(p)] = p]
       ELSE UNCHANGED holder
  /\ UNCHANGED <<disk, job, mishaps, history>>

StoreInUse(p) ==
  /\ pc[p] = "named"
  /\ HasJournal(p)
  /\ holder[Source(p)] # NoProc
  /\ End(p)
  /\ UNCHANGED <<disk, mishaps, history>>

(* checkDataMove: the new path does not exist yet.                         *)
TargetFree(p) == job[p].to # NoPath => dir[job[p].to] = NoStore

CheckMove(p) ==
  /\ Go(p, "holding", "checked")
  /\ TargetFree(p)
  /\ UNCHANGED <<disk, holder, job, mishaps, history>>

MoveRefused(p) ==
  /\ pc[p] = "holding"
  /\ ~TargetFree(p)
  /\ End(p)
  /\ UNCHANGED <<disk, mishaps, history>>

(* SaveProfile, create-only: under the retired name, at the new path.      *)
Retired(p) == IF job[p].to = NoPath THEN job[p].file
                                    ELSE [job[p].file EXCEPT !.data = job[p].to]

SaveRetired(p) ==
  /\ Go(p, "checked", IF job[p].to = NoPath THEN "moved" ELSE "saved")
  /\ file[job[p].retired] = NoFile
  /\ file' = [file EXCEPT ![job[p].retired] = Retired(p)]
  /\ UNCHANGED <<dir, journal, holder, job, mishaps, history>>

(* The name was taken meanwhile, or a file operation fails: before the     *)
(* link or, syncing the directory, after it.  Nothing is undone.           *)
SaveRetiredFails(p) ==
  /\ pc[p] = "checked"
  /\ End(p)
  /\ \/ file[job[p].retired] # NoFile /\ NoMishap /\ UNCHANGED file
     \/ file[job[p].retired] = NoFile /\ Mishap /\ file' \in {file, [file EXCEPT ![job[p].retired] = Retired(p)]}
  /\ UNCHANGED <<dir, journal, history>>

(* os.Rename of a directory: unlike rename(2) it never replaces one that   *)
(* is there, empty or not (Go's os package looks for it first).            *)
Renamed(from, to) == [dir EXCEPT ![to] = dir[from], ![from] = NoStore]
CanMove(from, to) == dir[from] # NoStore /\ dir[to] = NoStore

MoveData(p) ==
  /\ Go(p, "saved", "moved")
  /\ CanMove(job[p].file.data, job[p].to)
  /\ dir' = Renamed(job[p].file.data, job[p].to)
  /\ UNCHANGED <<file, journal, holder, job, mishaps, history>>

MoveDataFails(p) ==
  /\ Go(p, "saved", "undoing")
  /\ IF CanMove(job[p].file.data, job[p].to) THEN Mishap ELSE NoMishap
  /\ UNCHANGED <<disk, holder, job, history>>

(* The old file goes last; the retire is done.                             *)
RemoveOld(p) ==
  /\ pc[p] = "moved"
  /\ file[job[p].name] # NoFile
  /\ file' = [file EXCEPT ![job[p].name] = NoFile]
  /\ End(p)
  /\ UNCHANGED <<dir, journal, mishaps, history>>

RemoveOldFails(p) ==
  /\ Go(p, "moved", IF job[p].to = NoPath THEN "undoing" ELSE "returning")
  /\ IF file[job[p].name] # NoFile THEN Mishap ELSE NoMishap
  /\ UNCHANGED <<disk, holder, job, history>>

MoveBack(p) ==
  /\ Go(p, "returning", "undoing")
  /\ CanMove(job[p].to, job[p].file.data)
  /\ dir' = Renamed(job[p].to, job[p].file.data)
  /\ UNCHANGED <<file, journal, holder, job, mishaps, history>>

(* Mutant of MoveBackFails: the retired profile is removed all the same.   *)
MoveBackFailsUndo(p) ==
  /\ Go(p, "returning", "undoing")
  /\ IF CanMove(job[p].to, job[p].file.data) THEN Mishap ELSE NoMishap
  /\ UNCHANGED <<disk, holder, job, history>>

(* Half-way: the retired profile is the only one that points at the data.  *)
MoveBackFails(p) ==
  /\ pc[p] = "returning"
  /\ IF CanMove(job[p].to, job[p].file.data) THEN Mishap ELSE NoMishap
  /\ End(p)
  /\ UNCHANGED <<disk, history>>

Undo(p) ==
  /\ pc[p] = "undoing"
  /\ End(p)
  /\ \/ NoMishap /\ file' = [file EXCEPT ![job[p].retired] = NoFile]
     \/ Mishap   /\ UNCHANGED file
  /\ UNCHANGED <<dir, journal, history>>

----------------------------------------------------------------------------
(* A core command opens its profile's store and closes it again.           *)
BeginUse(p, n) ==
  /\ Load(p, n, "using")
  /\ file[n].owner = "cll"
  /\ UNCHANGED <<disk, holder, mishaps, history>>

OpenStore(p) ==
  /\ Go(p, "using", "open")
  /\ Source(p) \in journal
  /\ holder[Source(p)] = NoProc
  /\ holder' = [holder EXCEPT ![Source(p)] = p]
  /\ UNCHANGED <<disk, job, mishaps, history>>

(* The command is done, or the store is in use, absent or has no journal.  *)
Close(p) ==
  /\ pc[p] \in {"using", "open"}
  /\ End(p)
  /\ UNCHANGED <<disk, mishaps, history>>

(* store init: the directory, then the journal in it.                      *)
BeginInit(p, n) ==
  /\ Load(p, n, "making")
  /\ file[n].owner = "cll"
  /\ UNCHANGED <<disk, holder, mishaps, history>>

(* Retires that have moved the data from a path and are not done.          *)
MovedFrom(path) ==
  {q \in Retirers : pc[q] \in {"moved", "returning"} /\ job[q].to # NoPath /\ job[q].file.data = path}

MakeDir(p) ==
  /\ Go(p, "making", "made")
  /\ IF Source(p) # NoStore
       THEN UNCHANGED <<dir, remade>>
       ELSE /\ \E s \in Stores \ {dir[d] : d \in Paths} : dir' = [dir EXCEPT ![job[p].file.data] = s]
            /\ remade' = remade \cup {dir[job[q].to] : q \in MovedFrom(job[p].file.data)}
  /\ UNCHANGED <<file, journal, holder, job, mishaps, kept>>

MakeJournal(p) ==
  /\ pc[p] = "made"
  /\ journal' = IF Source(p) = NoStore THEN journal ELSE journal \cup {Source(p)}
  /\ End(p)
  /\ UNCHANGED <<file, dir, mishaps, history>>

(* The process is killed: what it wrote stays, its flock goes.             *)
Die(p) ==
  /\ pc[p] # "idle"
  /\ Mishap
  /\ End(p)
  /\ UNCHANGED <<disk, history>>

----------------------------------------------------------------------------
RetireStep(p) ==
  \/ PickName(p) \/ NamesUsedUp(p) \/ HoldStore(p) \/ StoreInUse(p)
  \/ CheckMove(p) \/ MoveRefused(p) \/ SaveRetired(p) \/ SaveRetiredFails(p)
  \/ MoveData(p) \/ MoveDataFails(p) \/ RemoveOld(p) \/ RemoveOldFails(p)
  \/ MoveBack(p) \/ MoveBackFails(p) \/ Undo(p)

FileUpdateStep(p) == StatUpdate(p) \/ UpdateRefused(p) \/ ReplaceFile(p)
UseStep(p)    == OpenStore(p) \/ Close(p) \/ MakeDir(p) \/ MakeJournal(p)

FilesNext ==
  \/ \E o \in Offered : Create(o)
  \/ \E p \in Retirers :
       RetireStep(p) \/ \E n \in Names, to \in NewPaths \cup {NoPath} : BeginRetire(p, n, to)
  \/ \E p \in Updaters :
       FileUpdateStep(p) \/ \E n \in InUse, x \in LogOwners, k \in Settings : BeginUpdate(p, n, x, k)
  \/ \E p \in Users :
       UseStep(p) \/ \E n \in InUse : BeginUse(p, n) \/ BeginInit(p, n)
  \/ \E p \in Procs : Die(p)

FilesSpec == FilesInit /\ [][FilesNext]_fileVars

----------------------------------------------------------------------------
(* Types, with what the flock is: a store's holder is a running command,   *)
(* and no store is in two places.                                          *)
FilesTypeOK ==
  /\ file \in [Names -> Files \cup {NoFile}]
  /\ dir \in [Paths -> Stores \cup {NoStore}]
  /\ journal \subseteq Stores
  /\ mishaps \in 0 .. MaxMishaps
  /\ \A p \in Procs : pc[p] # "idle" <=> job[p] # NoJob
  /\ \A s \in Stores : holder[s] # NoProc => pc[holder[s]] # "idle" /\ s \in journal
  /\ \A d, e \in Paths : d # e /\ dir[d] = dir[e] => dir[d] = NoStore

(* A store that a profile names at the start stays named by one, whatever  *)
(* retires, updates, failures and deaths interleave (retireProfile writes  *)
(* the retired file first and removes NAME last), unless store init made a *)
(* directory where a retire under way had moved it from.                   *)
NamedUnlessRemade == \A s \in kept \ remade : Named(s)

(* cli/profile_retire.go:25 "every record, checkpoint and witness receipt  *)
(* stays in its own log and the retired profile still bundles and verifies *)
(* it".  A second retire may free NAME while a first has its data moved:   *)
(* the first then fails, moves the data back and removes its own file.     *)
NamedStays == \A s \in kept : Named(s)

(* cli/profile_retire.go:69 "A store a running command has open is not     *)
(* retired ... nothing opens the store mid-move".  A retire that found no  *)
(* journal to lock moves what `store init` made there since.               *)
OpenStoreStays ==
  [][\A p \in Retirers : MoveData(p) => holder[Source(p)] \in {p, NoProc}]_fileVars
=============================================================================
