---------------------------- MODULE StoreOwnership ----------------------------
(***************************************************************************)
(* Who may write a sqlite store (cli/storage.go, profile update in         *)
(* cli/profile.go).  A plugin that owns a store leaves a marker in it, in  *)
(* two statements with no transaction around them; a core command reads    *)
(* profile and marker when it opens the store and then writes; an update   *)
(* of a profile reads both and then saves.  None of the three excludes the *)
(* others: the writer lock is the plugins' own.                            *)
(***************************************************************************)
EXTENDS Naturals

CONSTANTS
  Cores,     \* running core commands that write (publish, append, create)
  Sessions,  \* running plugin commands
  Updates,   \* running `profile update --log` commands
  Profiles,  \* profiles that name the store
  Loose,     \* those of them that have no log_id
  Plugins,
  Core       \* the owner of a log the core keeps: log is cll, or not set

ASSUME CoreAssumption == Core \notin Plugins
ASSUME LooseAssumption == Loose \subseteq Profiles

VARIABLES
  legacy,   \* the store has the older marker table, which names no owner
  table,    \* the store has the plugin_owned table
  row,      \* the owner its row names, Core while there is none
  owner,    \* LogOwner of each profile
  lock,     \* the writer lock: no session or the one that holds it
  core,     \* each core command: where it is and, once it has loaded its
            \* profile, whether the store was marked by then
  session,  \* each plugin command: where it is and for which plugin
  update,   \* each update: where it is, its profile, the owner before and after
  writes    \* history: who wrote, and what the store said of its owner then

vars == <<legacy, table, row, owner, lock, core, session, update, writes>>
store == <<legacy, table, row>>

Owners  == Plugins \cup {Core}
NoOne   == "no session"

ASSUME SessionsAssumption == NoOne \notin Sessions

Found   == table /\ row # Core
Marked  == Found \/ legacy

Write(by, late) == [by |-> by, late |-> late, marked |-> Marked, row |-> row]

CoreIdle    == [at |-> "idle", late |-> FALSE]
SessionIdle == [at |-> "idle", plugin |-> Core]
UpdateIdle  == [at |-> "idle", late |-> FALSE]

Init ==
  /\ legacy \in BOOLEAN
  /\ table = FALSE
  /\ row   = Core
  /\ owner \in [Profiles -> Owners]
  /\ lock  = NoOne
  /\ core    = [c \in Cores |-> CoreIdle]
  /\ session = [s \in Sessions |-> SessionIdle]
  /\ update  = [u \in Updates |-> UpdateIdle]
  /\ writes  = {}

----------------------------------------------------------------------------
(* OpenTarget for writing: HasOwnedStore of the profile, then the store's  *)
(* marker, then the handles are opened.                                    *)
LoadCore(c, f) ==
  /\ core[c].at = "idle"
  /\ owner[f] = Core
  /\ core' = [core EXCEPT ![c] = [at |-> "loaded", late |-> Marked]]
  /\ UNCHANGED <<store, owner, lock, session, update, writes>>

GuardCore(c) ==
  /\ core[c].at = "loaded"
  /\ core' = [core EXCEPT ![c] = IF Marked THEN CoreIdle ELSE [@ EXCEPT !.at = "open"]]
  /\ UNCHANGED <<store, owner, lock, session, update, writes>>

WriteCore(c) ==
  /\ core[c].at = "open"
  /\ writes' = writes \cup {Write(Core, core[c].late)}
  /\ UNCHANGED <<store, owner, lock, core, session, update>>

CloseCore(c) ==
  /\ core[c].at # "idle"
  /\ core' = [core EXCEPT ![c] = CoreIdle]
  /\ UNCHANGED <<store, owner, lock, session, update, writes>>

----------------------------------------------------------------------------
(* A plugin's command: it takes the store's writer lock (external), opens  *)
(* the store with OpenOwnedTarget, marks it and writes.                    *)
At(s, here, there) ==
  /\ session[s].at = here
  /\ session' = [session EXCEPT ![s].at = there]

TakeLock(s, x) ==
  /\ session[s].at = "idle"
  /\ lock = NoOne
  /\ lock' = s
  /\ session' = [session EXCEPT ![s] = [at |-> "locked", plugin |-> x]]
  /\ UNCHANGED <<store, owner, core, update, writes>>

OpenOwned(s) ==
  /\ ~(Found /\ row # session[s].plugin)
  /\ At(s, "locked", "open")
  /\ UNCHANGED <<store, owner, lock, core, update, writes>>

(* Mutant of CreateTable: the table is made anew.                          *)
CreateTableAnew(s) ==
  /\ At(s, "open", "table")
  /\ table' = TRUE
  /\ row'   = Core
  /\ UNCHANGED <<legacy, owner, lock, core, update, writes>>

(* MarkStoreOwned, one statement a step: the table if there is none, then  *)
(* its row is read, then inserted if there is none.                        *)
CreateTable(s) ==
  /\ At(s, "open", "table")
  /\ table' = TRUE
  /\ UNCHANGED <<legacy, row, owner, lock, core, update, writes>>

ReadNoRow(s) ==
  /\ row = Core
  /\ At(s, "table", "no row")
  /\ UNCHANGED <<store, owner, lock, core, update, writes>>

(* Mutant of ReadMyRow: a store that has the table is taken for marked.    *)
ReadAnyRow(s) ==
  /\ At(s, "table", "marked")
  /\ UNCHANGED <<store, owner, lock, core, update, writes>>

ReadMyRow(s) ==
  /\ row = session[s].plugin
  /\ At(s, "table", "marked")
  /\ UNCHANGED <<store, owner, lock, core, update, writes>>

InsertRow(s) ==
  /\ At(s, "no row", "marked")
  /\ row' = IF row = Core THEN session[s].plugin ELSE row
  /\ UNCHANGED <<legacy, table, owner, lock, core, update, writes>>

WriteOwned(s) ==
  /\ session[s].at = "marked"
  /\ writes' = writes \cup {Write(session[s].plugin, FALSE)}
  /\ UNCHANGED <<store, owner, lock, core, session, update>>

(* The command is done, is refused, or dies: its lock goes with it, and    *)
(* what it wrote stays.                                                    *)
EndSession(s) ==
  /\ session[s].at # "idle"
  /\ session' = [session EXCEPT ![s] = SessionIdle]
  /\ lock' = NoOne
  /\ UNCHANGED <<store, owner, core, update, writes>>

----------------------------------------------------------------------------
(* profile update --log: the profile is loaded; with a log_id, its owner   *)
(* changes only to the one the store records, or over the older marker     *)
(* from none; and in any case the store must not contradict the new owner  *)
(* (checkOwnerAgainstStore).                                               *)
LoadUpdate(u, f, x) ==
  /\ update[u].at = "idle"
  /\ update' = [update EXCEPT ![u] =
       [at |-> "loaded", late |-> Found, profile |-> f, before |-> owner[f], after |-> x]]
  /\ UNCHANGED <<store, owner, lock, core, session, writes>>

RecordsOwner(x)   == Found /\ row = x
LegacyUnowned(x)  == x = Core /\ legacy /\ ~Found
Contradicts(x)    == (Found /\ row # x) \/ (legacy /\ ~Found /\ x = Core)

(* Mutant of MayChange: a profile with no owner may name any.              *)
MayDeclare(f, before, after) ==
  before = after \/ before = Core \/ f \in Loose \/ RecordsOwner(after)

MayChange(f, before, after) ==
  \/ before = after
  \/ /\ f \in Loose \/ RecordsOwner(after) \/ LegacyUnowned(before)
     /\ ~Contradicts(after)

CheckUpdate(u) ==
  /\ update[u].at = "loaded"
  /\ update' = [update EXCEPT ![u] =
       IF MayChange(@.profile, @.before, @.after) THEN [@ EXCEPT !.at = "checked"] ELSE UpdateIdle]
  /\ UNCHANGED <<store, owner, lock, core, session, writes>>

SaveUpdate(u) ==
  LET w == update[u] IN
  /\ w.at = "checked"
  /\ owner'  = [owner EXCEPT ![w.profile] = w.after]
  /\ update' = [update EXCEPT ![u] = UpdateIdle]
  /\ UNCHANGED <<store, lock, core, session, writes>>

----------------------------------------------------------------------------
Next ==
  \/ \E c \in Cores :
       (\E f \in Profiles : LoadCore(c, f)) \/ GuardCore(c) \/ WriteCore(c) \/ CloseCore(c)
  \/ \E s \in Sessions :
       \/ \E x \in Plugins : TakeLock(s, x)
       \/ OpenOwned(s) \/ CreateTable(s) \/ ReadNoRow(s) \/ ReadMyRow(s) \/ InsertRow(s)
       \/ WriteOwned(s) \/ EndSession(s)
  \/ \E u \in Updates :
       (\E f \in Profiles, x \in Owners : LoadUpdate(u, f, x)) \/ CheckUpdate(u) \/ SaveUpdate(u)

Spec == Init /\ [][Next]_vars

----------------------------------------------------------------------------
TypeOK ==
  /\ legacy \in BOOLEAN /\ table \in BOOLEAN
  /\ row \in Owners
  /\ owner \in [Profiles -> Owners]
  /\ lock \in Sessions \cup {NoOne}
  /\ core \in [Cores -> [at : {"idle", "loaded", "open"}, late : BOOLEAN]]
  /\ session \in [Sessions -> [at : {"idle", "locked", "open", "table", "no row", "marked"},
                               plugin : Owners]]
  /\ \A u \in Updates : update[u].at \in {"idle", "loaded", "checked"}
  /\ writes \subseteq [by : Owners, late : BOOLEAN, marked : BOOLEAN, row : Owners]

(* A store once marked for a plugin is that plugin's for good: no session, *)
(* killed or not between the marker's two statements, re-marks it.         *)
MarkStands == [][Found => (Found' /\ row' = row)]_vars

(* docs/PLUGINS.md:362 "refused by every core write verb whatever the      *)
(* profile says": a core command begun after the store was marked never    *)
(* writes it, however profiles are updated to name the core its owner.     *)
LateCoreRefused == \A w \in writes : ~(w.by = Core /\ w.late)

(* A plugin writes only a store marked as its own, also when a session     *)
(* before it died with the marker's table made and no row in it.           *)
PluginWritesItsOwn ==
  \A w \in writes : w.by # Core => w.marked /\ w.row = w.by

(* cli/storage.go:419 "cannot be used to disguise a store": an update      *)
(* begun after the store was marked changes a profile's owner to the one   *)
(* it found there, or leaves it.                                           *)
NoDisguise ==
  [][\A u \in Updates : SaveUpdate(u) /\ update[u].late =>
       update[u].after \in {update[u].before, row}]_vars

(* docs/design/428-core-names-no-company-plugin.md:99 "a core write on a   *)
(* marked store is refused whatever the profile says".  The guard is read  *)
(* when the store is opened, so a store marked after that is written.      *)
MarkedStoreRefusesCore == \A w \in writes : w.by = Core => ~w.marked
=============================================================================
