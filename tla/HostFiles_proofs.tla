------------------------- MODULE HostFiles_proofs -------------------------
(***************************************************************************)
(* Theorems about the three protocols over files that other processes      *)
(* write too: the marker of a store (StoreOwnership), for every set of     *)
(* commands, profiles and plugins, the heal of the plugin root's path      *)
(* (UserRootHeal), for any path, any objects and any number of heals and   *)
(* of changes by the host, and profile files and the data they point at    *)
(* (ProfileFiles), for any commands, names, paths, stores and mishaps.     *)
(*                                                                         *)
(* Of the marker, MarkStands needs no invariant: no statement of a session *)
(* touches a row that is there.  On it rest the others: what a command     *)
(* learnt of a marked store is still so when it acts on it, and the lock   *)
(* makes a session's own reading of the row last until it inserts.         *)
(*                                                                         *)
(* What a heal knows of a directory is about the object it opened, not     *)
(* about the place it opened it at: so what it learnt there stays so,      *)
(* whatever the host puts in its place.  What lasts under the other heals  *)
(* is trust: a heal only takes write away.                                 *)
(*                                                                         *)
(* A retire writes its retired profile first and removes the old one last, *)
(* and other retires of the same profile do so meanwhile.  What lasts is   *)
(* where data is and who may still bring it back: while no other moves     *)
(* data from where a retire moved it, there is room for it to return, and  *)
(* a profile there that no retire will remove.                             *)
(***************************************************************************)
EXTENDS StoreOwnership, UserRootHeal, ProfileFiles, WellFoundedInduction, TLAPS

----------------------------------------------------------------------------
(* The marker of a store.                                                  *)

(* Types, with those of an update under way, which TypeOK leaves open.     *)
UnderWay ==
  [at : {"loaded", "checked"}, late : BOOLEAN, profile : Profiles, before : Owners, after : Owners]

UpdatesTyped == update \in [Updates -> {UpdateIdle} \cup UnderWay]

(* Only the session that holds the lock is not idle; it works for a        *)
(* plugin.                                                                 *)
LockHeld == \A s \in Sessions : session[s].at # "idle" => lock = s /\ session[s].plugin \in Plugins

(* Where a session is says what the store holds.                           *)
SessionKnows ==
  \A s \in Sessions :
    /\ session[s].at \in {"table", "no row", "marked"} => table
    /\ session[s].at = "no row" => row = Core
    /\ session[s].at = "marked" => row = session[s].plugin

(* A core command that found a mark meets one at the guard; so none that   *)
(* is past the guard had found one.                                        *)
CoreKnows ==
  \A c \in Cores : /\ core[c].late => Marked
                   /\ core[c].at = "open" => ~core[c].late

(* An update that found the store marked meets the same mark when it       *)
(* checks; past the check it names that owner, or changes none.            *)
UpdateKnows ==
  \A u \in Updates :
    update[u].late =>
      /\ Found
      /\ update[u].at = "checked" => update[u].after \in {update[u].before, row}

IInv ==
  /\ TypeOK /\ UpdatesTyped /\ LockHeld /\ SessionKnows /\ CoreKnows /\ UpdateKnows
  /\ PluginWritesItsOwn /\ LateCoreRefused

(* Nobody runs and nobody has learnt anything.                             *)
LEMMA InitIInv == Init => IInv
<1> SUFFICES ASSUME Init PROVE IInv
  OBVIOUS
<1>1. TypeOK /\ UpdatesTyped
  BY DEF Init, TypeOK, UpdatesTyped, Owners, CoreIdle, SessionIdle, UpdateIdle
<1>2. LockHeld /\ SessionKnows /\ CoreKnows /\ UpdateKnows
  BY DEF Init, LockHeld, SessionKnows, CoreKnows, UpdateKnows, CoreIdle, SessionIdle, UpdateIdle
<1>3. PluginWritesItsOwn /\ LateCoreRefused
  BY DEF Init, PluginWritesItsOwn, LateCoreRefused
<1>4. QED
  BY <1>1, <1>2, <1>3 DEF IInv

(* The steps of the three kinds of command, for the case splits below.     *)
CoreStep(c)    == (\E f \in Profiles : LoadCore(c, f)) \/ GuardCore(c) \/ WriteCore(c) \/ CloseCore(c)
QuietStep(s)   == (\E x \in Plugins : TakeLock(s, x)) \/ OpenOwned(s) \/ ReadNoRow(s) \/ ReadMyRow(s) \/ EndSession(s)
UpdateStep(u)  == (\E f \in Profiles, x \in Owners : LoadUpdate(u, f, x)) \/ CheckUpdate(u) \/ SaveUpdate(u)

(* Every step is of one core, one session or one update.                   *)
LEMMA Steps ==
  ASSUME [Next]_vars
  PROVE  \/ \E c \in Cores : CoreStep(c)
         \/ \E s \in Sessions : QuietStep(s) \/ CreateTable(s) \/ InsertRow(s) \/ WriteOwned(s)
         \/ \E u \in Updates : UpdateStep(u)
         \/ UNCHANGED vars
  BY DEF Next, CoreStep, QuietStep, UpdateStep

(* A mark is never removed or changed, and the store is marked for good.   *)
LEMMA MarkStep ==
  ASSUME [Next]_vars
  PROVE  /\ Found => Found' /\ row' = row
         /\ Marked => Marked'
         /\ table => table'
<1>1. CASE UNCHANGED <<legacy, table, row>>
  BY <1>1 DEF Found, Marked
<1>2. ASSUME NEW s \in Sessions, CreateTable(s)
      PROVE  legacy' = legacy /\ table' /\ (row # Core => row' = row)
  BY <1>2 DEF CreateTable
<1>3. ASSUME NEW s \in Sessions, InsertRow(s)
      PROVE  legacy' = legacy /\ table' = table /\ (row # Core => row' = row)
  BY <1>3 DEF InsertRow
<1>4. CASE \E s \in Sessions : CreateTable(s) \/ InsertRow(s)
  BY <1>2, <1>3, <1>4 DEF Found, Marked
<1>5. UNCHANGED <<legacy, table, row>> \/ \E s \in Sessions : CreateTable(s) \/ InsertRow(s)
  BY DEF Next, store, vars, LoadCore, GuardCore, WriteCore, CloseCore, TakeLock, OpenOwned, ReadNoRow,
         ReadMyRow, WriteOwned, EndSession, LoadUpdate, CheckUpdate, SaveUpdate
<1>6. QED
  BY <1>1, <1>4, <1>5

(* An update is idle, or under way with all its parts.                     *)
LEMMA UnderWayNow ==
  ASSUME UpdatesTyped, NEW u \in Updates, update[u].at # "idle"
  PROVE  update[u] \in UnderWay
<1>1. update[u] \in {UpdateIdle} \cup UnderWay
  BY DEF UpdatesTyped
<1>2. UpdateIdle.at = "idle"
  BY DEF UpdateIdle
<1>3. QED
  BY <1>1, <1>2

(* Where an update can be.                                                 *)
LEMMA UpdateAts ==
  ASSUME NEW updates, updates \in [Updates -> {UpdateIdle} \cup UnderWay], NEW u \in Updates
  PROVE  updates[u].at \in {"idle", "loaded", "checked"}
<1>1. updates[u] \in {UpdateIdle} \cup UnderWay
  OBVIOUS
<1>2. UpdateIdle.at = "idle" /\ \A x \in UnderWay : x.at \in {"loaded", "checked"}
  BY DEF UpdateIdle, UnderWay
<1>3. QED
  BY <1>1, <1>2

(* Types are kept, by the three kinds of command.                          *)
LEMMA TypesStep == IInv /\ [Next]_vars => TypeOK' /\ UpdatesTyped'
<1> SUFFICES ASSUME IInv, [Next]_vars PROVE TypeOK' /\ UpdatesTyped'
  OBVIOUS
<1> USE DEF IInv, TypeOK, store
<1>1. ASSUME NEW c \in Cores, CoreStep(c) PROVE TypeOK' /\ UpdatesTyped'
  <2>1. CoreIdle \in [at : {"idle", "loaded", "open"}, late : BOOLEAN] /\ Marked \in BOOLEAN
    BY DEF CoreIdle, Marked, Found
  <2>2. core' \in [Cores -> [at : {"idle", "loaded", "open"}, late : BOOLEAN]]
    <3>1. ASSUME NEW f \in Profiles, LoadCore(c, f) PROVE <2>2
      BY <2>1, <3>1 DEF LoadCore
    <3>2. CASE GuardCore(c)
      <4>0. core[c] \in [at : {"idle", "loaded", "open"}, late : BOOLEAN]
        OBVIOUS
      <4>1. [core[c] EXCEPT !.at = "open"] \in [at : {"idle", "loaded", "open"}, late : BOOLEAN]
        BY <4>0
      <4>2. core' = [core EXCEPT ![c] = IF Marked THEN CoreIdle ELSE [core[c] EXCEPT !.at = "open"]]
        BY <3>2 DEF GuardCore
      <4>3. QED
        BY <2>1, <4>1, <4>2
    <3>3. CASE WriteCore(c) \/ CloseCore(c)
      BY <2>1, <3>3 DEF WriteCore, CloseCore
    <3>4. QED
      BY <1>1, <3>1, <3>2, <3>3 DEF CoreStep
  <2>3. writes' \subseteq [by : Owners, late : BOOLEAN, marked : BOOLEAN, row : Owners]
    <3>1. Write(Core, core[c].late) \in [by : Owners, late : BOOLEAN, marked : BOOLEAN, row : Owners]
      BY <2>1 DEF Write, Owners
    <3>2. QED
      BY <1>1, <3>1 DEF CoreStep, LoadCore, GuardCore, WriteCore, CloseCore
  <2>4. UNCHANGED <<legacy, table, row, owner, lock, session, update>>
    BY <1>1 DEF CoreStep, LoadCore, GuardCore, WriteCore, CloseCore
  <2>5. QED
    BY <2>2, <2>3, <2>4 DEF UpdatesTyped
<1>2. ASSUME NEW s \in Sessions, QuietStep(s) \/ CreateTable(s) \/ InsertRow(s) \/ WriteOwned(s)
      PROVE  TypeOK' /\ UpdatesTyped'
  <2>1. SessionIdle \in [at : {"idle", "locked", "open", "table", "no row", "marked"}, plugin : Owners]
    BY DEF SessionIdle, Owners
  <2>2. session' \in [Sessions -> [at : {"idle", "locked", "open", "table", "no row", "marked"}, plugin : Owners]]
    <3>1. ASSUME NEW here, NEW there \in {"open", "table", "no row", "marked"}, At(s, here, there) PROVE <2>2
      <4>1. session' = [session EXCEPT ![s] = [session[s] EXCEPT !.at = there]]
        BY <3>1 DEF At
      <4>0. session[s] \in [at : {"idle", "locked", "open", "table", "no row", "marked"}, plugin : Owners]
        OBVIOUS
      <4>2. [session[s] EXCEPT !.at = there]
              \in [at : {"idle", "locked", "open", "table", "no row", "marked"}, plugin : Owners]
        BY <4>0
      <4>3. QED
        BY <4>1, <4>2
    <3>2. CASE OpenOwned(s) \/ ReadNoRow(s) \/ ReadMyRow(s) \/ CreateTable(s) \/ InsertRow(s)
      BY <3>1, <3>2 DEF OpenOwned, ReadNoRow, ReadMyRow, CreateTable, InsertRow
    <3>3. CASE EndSession(s) \/ WriteOwned(s)
      BY <2>1, <3>3 DEF EndSession, WriteOwned
    <3>4. ASSUME NEW x \in Plugins, TakeLock(s, x) PROVE <2>2
      BY <3>4 DEF TakeLock, Owners
    <3>5. QED
      BY <1>2, <3>2, <3>3, <3>4 DEF QuietStep
  <2>3. lock' \in Sessions \cup {NoOne}
    BY <1>2 DEF QuietStep, TakeLock, OpenOwned, ReadNoRow, ReadMyRow, EndSession, CreateTable,
       InsertRow, WriteOwned
  <2>4. table' \in BOOLEAN /\ row' \in Owners
    <3>1. CASE CreateTable(s)
      BY <3>1 DEF CreateTable
    <3>2. CASE InsertRow(s)
      BY <3>2 DEF InsertRow
    <3>3. CASE QuietStep(s) \/ WriteOwned(s)
      BY <3>3 DEF QuietStep, TakeLock, OpenOwned, ReadNoRow, ReadMyRow, EndSession, WriteOwned
    <3>4. QED
      BY <1>2, <3>1, <3>2, <3>3
  <2>5. writes' \subseteq [by : Owners, late : BOOLEAN, marked : BOOLEAN, row : Owners]
    <3>1. Write(session[s].plugin, FALSE) \in [by : Owners, late : BOOLEAN, marked : BOOLEAN, row : Owners]
      BY DEF Write, Marked, Found
    <3>2. QED
      BY <1>2, <3>1 DEF QuietStep, TakeLock, OpenOwned, ReadNoRow, ReadMyRow, EndSession, CreateTable,
         InsertRow, WriteOwned
  <2>6. UNCHANGED <<legacy, owner, core, update>>
    BY <1>2 DEF QuietStep, TakeLock, OpenOwned, ReadNoRow, ReadMyRow, EndSession, CreateTable,
       InsertRow, WriteOwned
  <2>7. QED
    BY <2>2, <2>3, <2>4, <2>5, <2>6 DEF UpdatesTyped
<1>3. ASSUME NEW u \in Updates, UpdateStep(u) PROVE TypeOK' /\ UpdatesTyped'
  <2>1. UpdatesTyped' /\ owner' \in [Profiles -> Owners]
    <3>1. CASE \E p \in Profiles, x \in Owners : LoadUpdate(u, p, x)
      <4>1. PICK p \in Profiles, x \in Owners : LoadUpdate(u, p, x)
        BY <3>1
      <4>2. [at |-> "loaded", late |-> Found, profile |-> p, before |-> owner[p], after |-> x] \in UnderWay
        BY DEF Found, UnderWay
      <4>3. QED
        BY <4>1, <4>2 DEF LoadUpdate, UpdatesTyped
    <3>2. CASE CheckUpdate(u)
      <4>1. update[u] \in UnderWay
        BY <3>2, UnderWayNow DEF CheckUpdate
      <4>2. [update[u] EXCEPT !.at = "checked"] \in UnderWay
        BY <4>1 DEF UnderWay
      <4>3. update' = [update EXCEPT ![u] = IF MayChange(update[u].profile, update[u].before, update[u].after)
                                              THEN [update[u] EXCEPT !.at = "checked"] ELSE UpdateIdle]
        BY <3>2 DEF CheckUpdate
      <4>4. UpdatesTyped'
        BY <4>2, <4>3 DEF UpdatesTyped
      <4>5. QED
        BY <3>2, <4>4 DEF CheckUpdate
    <3>3. CASE SaveUpdate(u)
      <4>1. update[u] \in UnderWay
        BY <3>3, UnderWayNow DEF SaveUpdate
      <4>2. update[u].profile \in Profiles /\ update[u].after \in Owners
        BY <4>1 DEF UnderWay
      <4>3. UpdatesTyped'
        BY <3>3 DEF SaveUpdate, UpdatesTyped
      <4>4. QED
        BY <3>3, <4>2, <4>3 DEF SaveUpdate
    <3>4. QED
      BY <1>3, <3>1, <3>2, <3>3 DEF UpdateStep
  <2>2. UNCHANGED <<legacy, table, row, lock, core, session, writes>>
    BY <1>3 DEF UpdateStep, LoadUpdate, CheckUpdate, SaveUpdate
  <2>3. \A v \in Updates : update'[v].at \in {"idle", "loaded", "checked"}
    BY <2>1, UpdateAts DEF UpdatesTyped
  <2>4. QED
    BY <2>1, <2>2, <2>3
<1>4. CASE UNCHANGED vars
  BY <1>4 DEF vars, UpdatesTyped
<1>5. QED
  BY <1>1, <1>2, <1>3, <1>4, Steps

(* A session's step touches the store, the lock and its own place only.    *)
LEMMA SessionsStep == IInv /\ [Next]_vars => LockHeld' /\ SessionKnows'
<1> SUFFICES ASSUME IInv, [Next]_vars, NEW q \in Sessions
             PROVE  /\ session'[q].at # "idle" => lock' = q /\ session'[q].plugin \in Plugins
                    /\ session'[q].at \in {"table", "no row", "marked"} => table'
                    /\ session'[q].at = "no row" => row' = Core
                    /\ session'[q].at = "marked" => row' = session'[q].plugin
  BY DEF LockHeld, SessionKnows
<1> USE DEF IInv, TypeOK, store
<1> DEFINE Kept == /\ session'[q].at # "idle" => lock' = q /\ session'[q].plugin \in Plugins
                   /\ session'[q].at \in {"table", "no row", "marked"} => table'
                   /\ session'[q].at = "no row" => row' = Core
                   /\ session'[q].at = "marked" => row' = session'[q].plugin
<1>0. /\ session[q].at # "idle" => lock = q /\ session[q].plugin \in Plugins
      /\ session[q].at \in {"table", "no row", "marked"} => table
      /\ session[q].at = "no row" => row = Core
      /\ session[q].at = "marked" => row = session[q].plugin
  BY DEF LockHeld, SessionKnows
<1>1. CASE UNCHANGED <<legacy, table, row, lock, session>>
  BY <1>0, <1>1
<1>2. ASSUME NEW s \in Sessions, NEW x \in Plugins, TakeLock(s, x) PROVE Kept
  <2>1. CASE s = q
    BY <1>2, <2>1 DEF TakeLock
  <2>2. CASE s # q
    <3>1. session[q].at = "idle"
      BY <1>0, <1>2, SessionsAssumption DEF TakeLock
    <3>2. QED
      BY <1>2, <2>2, <3>1 DEF TakeLock
  <2>3. QED
    BY <2>1, <2>2
<1>3. ASSUME NEW s \in Sessions, EndSession(s) PROVE Kept
  <2>1. CASE s = q
    BY <1>3, <2>1 DEF EndSession, SessionIdle
  <2>2. CASE s # q
    <3>1. session[q].at = "idle"
      BY <1>0, <1>3, <2>2 DEF EndSession, LockHeld
    <3>2. QED
      BY <1>3, <2>2, <3>1 DEF EndSession
  <2>3. QED
    BY <2>1, <2>2
<1>4. ASSUME NEW s \in Sessions, NEW here \in {"locked", "open", "table", "no row"},
             NEW there \in {"open", "table", "no row", "marked"}, At(s, here, there), lock' = lock
      PROVE  /\ s = q => /\ session'[q].at = there /\ session'[q].plugin = session[q].plugin
                         /\ session[q].at = here
             /\ s # q => session'[q] = session[q] /\ session[q].at = "idle"
  <2>1. session' = [session EXCEPT ![s] = [session[s] EXCEPT !.at = there]] /\ session[s].at = here
    BY <1>4 DEF At
  <2>2. lock = s
    BY <2>1 DEF LockHeld
  <2>3. QED
    BY <1>0, <2>1, <2>2
<1>5. ASSUME NEW s \in Sessions, OpenOwned(s) PROVE Kept
  BY <1>0, <1>4, <1>5 DEF OpenOwned
<1>6. ASSUME NEW s \in Sessions, CreateTable(s) PROVE Kept
  BY <1>0, <1>4, <1>6 DEF CreateTable
<1>7. ASSUME NEW s \in Sessions, ReadNoRow(s) PROVE Kept
  BY <1>0, <1>4, <1>7 DEF ReadNoRow
<1>8. ASSUME NEW s \in Sessions, ReadMyRow(s) PROVE Kept
  BY <1>0, <1>4, <1>8 DEF ReadMyRow
<1>9. ASSUME NEW s \in Sessions, InsertRow(s) PROVE Kept
  <2>1. /\ At(s, "no row", "marked") /\ UNCHANGED <<table, lock>>
        /\ row' = IF row = Core THEN session[s].plugin ELSE row
    BY <1>9 DEF InsertRow
  <2>2. CASE s = q
    BY <1>0, <1>4, <2>1, <2>2
  <2>3. CASE s # q
    BY <1>0, <1>4, <2>1, <2>3
  <2>4. QED
    BY <2>2, <2>3
<1>10. ASSUME NEW s \in Sessions, WriteOwned(s) PROVE Kept
  BY <1>1, <1>10 DEF WriteOwned
<1>11. ASSUME NEW c \in Cores, CoreStep(c) PROVE Kept
  BY <1>1, <1>11 DEF CoreStep, LoadCore, GuardCore, WriteCore, CloseCore
<1>12. ASSUME NEW u \in Updates, UpdateStep(u) PROVE Kept
  BY <1>1, <1>12 DEF UpdateStep, LoadUpdate, CheckUpdate, SaveUpdate
<1>13. CASE UNCHANGED vars
  BY <1>1, <1>13 DEF vars
<1>14. QED
  BY <1>2, <1>3, <1>5, <1>6, <1>7, <1>8, <1>9, <1>10, <1>11, <1>12, <1>13, Steps DEF QuietStep

(* Where a command is, and what it found, right after it has loaded.       *)
CoreLoaded(found) == [at |-> "loaded", late |-> found]
UpdateLoaded(found, f, x, y) == [at |-> "loaded", late |-> found, profile |-> f, before |-> x, after |-> y]

(* A command that has loaded remembers whether it found a mark.            *)
LEMMA Loaded ==
  ASSUME NEW found \in BOOLEAN, NEW f, NEW x, NEW y
  PROVE  /\ CoreLoaded(found).at = "loaded" /\ CoreLoaded(found).late = found
         /\ UpdateLoaded(found, f, x, y).at = "loaded" /\ UpdateLoaded(found, f, x, y).late = found
  BY DEF CoreLoaded, UpdateLoaded

(* What a core command found when it loaded its profile is still so.       *)
LEMMA CoresStep == IInv /\ [Next]_vars => CoreKnows'
<1> SUFFICES ASSUME IInv, [Next]_vars, NEW k \in Cores
             PROVE  (core'[k].late => Marked') /\ (core'[k].at = "open" => ~core'[k].late)
  BY DEF CoreKnows
<1> USE DEF IInv, TypeOK
<1>0. (core[k].late => Marked) /\ (core[k].at = "open" => ~core[k].late)
  BY DEF CoreKnows
<1>1. CASE core'[k] = core[k]
  BY <1>0, <1>1, MarkStep
<1>2. CASE core'[k] = CoreIdle
  <2>1. ~CoreIdle.late /\ CoreIdle.at = "idle"
    BY DEF CoreIdle
  <2>2. QED
    BY <1>2, <2>1
<1>3. ASSUME NEW f \in Profiles, LoadCore(k, f)
      PROVE  (core'[k].late => Marked') /\ (core'[k].at = "open" => ~core'[k].late)
  <2>0. Marked \in BOOLEAN
    BY DEF Marked, Found
  <2>1. core'[k] = CoreLoaded(Marked)
    BY <1>3, Zenon DEF LoadCore, CoreLoaded
  <2>2. core'[k].at = "loaded" /\ core'[k].late = Marked
    BY <2>0, <2>1, Loaded, Zenon
  <2>3. QED
    BY <2>2, MarkStep
<1>4. CASE GuardCore(k) /\ ~Marked
  <2>1. core' = [core EXCEPT ![k] = [core[k] EXCEPT !.at = "open"]]
    BY <1>4 DEF GuardCore
  <2>2. core[k] \in [at : {"idle", "loaded", "open"}, late : BOOLEAN]
    OBVIOUS
  <2>3. core'[k].late = core[k].late
    BY <2>1, <2>2
  <2>4. ~core'[k].late
    BY <1>0, <1>4, <2>3
  <2>5. QED
    BY <2>4
<1>5. \/ core'[k] = core[k] \/ core'[k] = CoreIdle \/ (\E f \in Profiles : LoadCore(k, f))
      \/ GuardCore(k) /\ ~Marked
  <2>1. ASSUME NEW c \in Cores, CoreStep(c), c # k PROVE core'[k] = core[k]
    BY <2>1 DEF CoreStep, LoadCore, GuardCore, WriteCore, CloseCore
  <2>2. CASE GuardCore(k) /\ Marked
    BY <2>2 DEF GuardCore
  <2>3. CASE WriteCore(k) \/ CloseCore(k)
    BY <2>3 DEF WriteCore, CloseCore
  <2>4. CASE CoreStep(k)
    BY <2>2, <2>3, <2>4 DEF CoreStep
  <2>5. ASSUME NEW s \in Sessions, QuietStep(s) \/ CreateTable(s) \/ InsertRow(s) \/ WriteOwned(s)
        PROVE  core' = core
    BY <2>5 DEF QuietStep, TakeLock, OpenOwned, ReadNoRow, ReadMyRow, EndSession, CreateTable,
       InsertRow, WriteOwned
  <2>6. ASSUME NEW u \in Updates, UpdateStep(u) PROVE core' = core
    BY <2>6 DEF UpdateStep, LoadUpdate, CheckUpdate, SaveUpdate
  <2>7. QED
    BY <2>1, <2>4, <2>5, <2>6, Steps DEF vars
<1>6. QED
  BY <1>1, <1>2, <1>3, <1>4, <1>5

(* What an update found when it loaded its profile is still so.            *)
LEMMA UpdatesStep == IInv /\ [Next]_vars => UpdateKnows'
<1> SUFFICES ASSUME IInv, [Next]_vars, NEW k \in Updates
             PROVE  update'[k].late =>
                      /\ Found'
                      /\ update'[k].at = "checked" => update'[k].after \in {update'[k].before, row'}
  BY DEF UpdateKnows
<1> USE DEF IInv
<1>0. update[k].late => /\ Found
                        /\ update[k].at = "checked" => update[k].after \in {update[k].before, row}
  BY DEF UpdateKnows
<1>1. CASE update'[k] = update[k]
  BY <1>0, <1>1, MarkStep
<1>2. CASE update'[k] = UpdateIdle
  <2>1. ~UpdateIdle.late
    BY DEF UpdateIdle
  <2>2. QED
    BY <1>2, <2>1
<1>3. CASE \E f \in Profiles, x \in Owners : LoadUpdate(k, f, x)
  <2>1. PICK f \in Profiles, x \in Owners : LoadUpdate(k, f, x)
    BY <1>3
  <2>0. Found \in BOOLEAN
    BY DEF Found
  <2>2. update'[k] = UpdateLoaded(Found, f, owner[f], x)
    BY <2>1, Zenon DEF LoadUpdate, UpdatesTyped, UpdateLoaded
  <2>3. /\ UpdateLoaded(Found, f, owner[f], x).at = "loaded"
        /\ UpdateLoaded(Found, f, owner[f], x).late = Found
    BY <2>0, Loaded, ZenonT(30)
  <2>4. update'[k].at = "loaded" /\ update'[k].late = Found
    BY <2>2, <2>3, Zenon
  <2>5. QED
    BY <2>4, MarkStep
<1>4. CASE CheckUpdate(k) /\ MayChange(update[k].profile, update[k].before, update[k].after)
  <2>1. update' = [update EXCEPT ![k] = [update[k] EXCEPT !.at = "checked"]]
    BY <1>4 DEF CheckUpdate
  <2>2. update[k] \in UnderWay
    BY <1>4, UnderWayNow DEF CheckUpdate
  <2>3. /\ update'[k].late = update[k].late
        /\ update'[k].before = update[k].before
        /\ update'[k].after = update[k].after
    BY <2>1, <2>2 DEF UpdatesTyped, UnderWay
  <2>4. Found => update[k].after \in {update[k].before, row}
    BY <1>4 DEF MayChange, RecordsOwner, LegacyUnowned, Contradicts
  <2>5. QED
    BY <1>0, <2>3, <2>4, MarkStep
<1>5. \/ update'[k] = update[k] \/ update'[k] = UpdateIdle
      \/ (\E f \in Profiles, x \in Owners : LoadUpdate(k, f, x))
      \/ CheckUpdate(k) /\ MayChange(update[k].profile, update[k].before, update[k].after)
  <2>1. ASSUME NEW u \in Updates, UpdateStep(u), u # k PROVE update'[k] = update[k]
    BY <2>1 DEF UpdateStep, LoadUpdate, CheckUpdate, SaveUpdate, UpdatesTyped
  <2>2. CASE CheckUpdate(k) /\ ~MayChange(update[k].profile, update[k].before, update[k].after)
    BY <2>2 DEF CheckUpdate, UpdatesTyped
  <2>3. CASE SaveUpdate(k)
    BY <2>3 DEF SaveUpdate, UpdatesTyped
  <2>4. CASE UpdateStep(k)
    BY <2>2, <2>3, <2>4 DEF UpdateStep
  <2>5. ASSUME NEW s \in Sessions, QuietStep(s) \/ CreateTable(s) \/ InsertRow(s) \/ WriteOwned(s)
        PROVE  update' = update
    BY <2>5 DEF QuietStep, TakeLock, OpenOwned, ReadNoRow, ReadMyRow, EndSession, CreateTable,
       InsertRow, WriteOwned
  <2>6. ASSUME NEW c \in Cores, CoreStep(c) PROVE update' = update
    BY <2>6 DEF CoreStep, LoadCore, GuardCore, WriteCore, CloseCore
  <2>7. QED
    BY <2>1, <2>4, <2>5, <2>6, Steps DEF vars
<1>6. QED
  BY <1>1, <1>2, <1>3, <1>4, <1>5

(* What each kind of command adds to the writes.                           *)
LEMMA WritesStep == IInv /\ [Next]_vars => PluginWritesItsOwn' /\ LateCoreRefused'
<1> SUFFICES ASSUME IInv, [Next]_vars PROVE PluginWritesItsOwn' /\ LateCoreRefused'
  OBVIOUS
<1> DEFINE Good(w) == (w.by # Core => w.marked /\ w.row = w.by) /\ ~(w.by = Core /\ w.late)
<1>0. \A w \in writes : Good(w)
  BY DEF IInv, PluginWritesItsOwn, LateCoreRefused
<1>1. CASE writes' = writes
  BY <1>0, <1>1 DEF PluginWritesItsOwn, LateCoreRefused
<1>2. ASSUME NEW c \in Cores, WriteCore(c) PROVE PluginWritesItsOwn' /\ LateCoreRefused'
  <2>1. ~core[c].late /\ core[c].late \in BOOLEAN
    BY <1>2 DEF IInv, TypeOK, CoreKnows, WriteCore
  <2>2. core[c].late = FALSE
    BY <2>1
  <2>3. Write(Core, FALSE).by = Core /\ ~Write(Core, FALSE).late
    BY DEF Write
  <2>4. writes' = writes \cup {Write(Core, FALSE)}
    BY <1>2, <2>2 DEF WriteCore
  <2>5. QED
    BY <1>0, <2>3, <2>4 DEF PluginWritesItsOwn, LateCoreRefused
<1>3. ASSUME NEW s \in Sessions, WriteOwned(s) PROVE PluginWritesItsOwn' /\ LateCoreRefused'
  <2>1. session[s].at = "marked"
    BY <1>3 DEF WriteOwned
  <2>2. session[s].plugin \in Plugins /\ row = session[s].plugin /\ table
    BY <2>1 DEF IInv, LockHeld, SessionKnows
  <2>3. session[s].plugin # Core /\ Marked
    BY <2>2, CoreAssumption DEF Marked, Found
  <2>4. DEFINE new == [by |-> session[s].plugin, late |-> FALSE, marked |-> TRUE, row |-> row]
  <2>5. writes' = writes \cup {new}
    BY <1>3, <2>3 DEF WriteOwned, Write
  <2>6. Good(new)
    BY <2>2, <2>3
  <2>7. QED
    BY <1>0, <2>5, <2>6 DEF PluginWritesItsOwn, LateCoreRefused
<1>4. ASSUME NEW c \in Cores, CoreStep(c) PROVE writes' = writes \/ WriteCore(c)
  BY <1>4 DEF CoreStep, LoadCore, GuardCore, CloseCore
<1>5. ASSUME NEW s \in Sessions, QuietStep(s) \/ CreateTable(s) \/ InsertRow(s) PROVE writes' = writes
  BY <1>5 DEF QuietStep, TakeLock, OpenOwned, ReadNoRow, ReadMyRow, EndSession, CreateTable, InsertRow
<1>6. ASSUME NEW u \in Updates, UpdateStep(u) PROVE writes' = writes
  BY <1>6 DEF UpdateStep, LoadUpdate, CheckUpdate, SaveUpdate
<1>7. CASE UNCHANGED vars
  BY <1>1, <1>7 DEF vars
<1>8. QED
  BY <1>1, <1>2, <1>3, <1>4, <1>5, <1>6, <1>7, Steps

(* IInv holds of every reachable state, whoever runs and dies when.        *)
THEOREM OwnershipInvariant == Spec => []IInv
<1>1. Init => IInv
  BY InitIInv
<1>2. IInv /\ [Next]_vars => IInv'
  BY TypesStep, SessionsStep, CoresStep, UpdatesStep, WritesStep DEF IInv
<1>3. QED
  BY <1>1, <1>2, PTL DEF Spec

(* Every variable of StoreOwnership keeps its type.                        *)
THEOREM OwnershipTypes == Spec => []TypeOK
<1>1. IInv => TypeOK
  BY DEF IInv
<1>2. QED
  BY <1>1, OwnershipInvariant, PTL

(* A store once marked stays its plugin's: a session killed between the    *)
(* marker's two statements leaves nothing another could overwrite.         *)
THEOREM MarksStand == Spec => MarkStands
<1>1. [Next]_vars => [Found => (Found' /\ row' = row)]_vars
  BY MarkStep
<1>2. QED
  BY <1>1, PTL DEF Spec, MarkStands

(* A plugin's write meets its own mark, for any number of sessions.        *)
THEOREM PluginsWriteTheirOwn == Spec => []PluginWritesItsOwn
<1>1. IInv => PluginWritesItsOwn
  BY DEF IInv
<1>2. QED
  BY <1>1, OwnershipInvariant, PTL

(* A core command begun after the mark never writes.                       *)
THEOREM LateCoresAreRefused == Spec => []LateCoreRefused
<1>1. IInv => LateCoreRefused
  BY DEF IInv
<1>2. QED
  BY <1>1, OwnershipInvariant, PTL

(* An update begun after the mark cannot disguise the store.               *)
THEOREM OwnersAreNotDisguised == Spec => NoDisguise
<1> DEFINE Honest == \A u \in Updates : SaveUpdate(u) /\ update[u].late =>
                       update[u].after \in {update[u].before, row}
<1>1. IInv /\ [Next]_vars => [Honest]_vars
  BY DEF IInv, UpdateKnows, SaveUpdate
<1>2. QED
  BY <1>1, OwnershipInvariant, PTL DEF Spec, NoDisguise

----------------------------------------------------------------------------
(* The heal of the plugin root's path.                                     *)

HealSteps == {"idle", "walk", "open", "apply", "recheck", "trusted", "refused"}
Problems  == [dir : Dirs, hopeless : BOOLEAN]
Targets   == [dir : Dirs, object : Objects, mode : SUBSET Bits]
States    == [pc : HealSteps, i : Nat \ {0}, found : SUBSET Problems, opened : SUBSET Targets,
              changed : BOOLEAN, failed : BOOLEAN, quiet : BOOLEAN, able : BOOLEAN]

(* One heal: what it found and may not heal is marked so; what it opened   *)
(* is below HOME and may be tightened; once it applies, all it found is    *)
(* opened, and while it opens, all it found at the places it has passed.   *)
Sound(h) ==
  /\ h \in States
  /\ \A x \in h.found : x.hopeless \/ x.dir \in Below
  /\ \A t \in h.opened : t.dir \in Below /\ MayTighten(t.object)
  /\ h.pc = "open" =>
       /\ \A x \in h.found : x.dir \in Below
       /\ \A x \in h.found, j \in Turns : Path[j] = x.dir /\ j < h.i => \E t \in h.opened : t.dir = x.dir
  /\ h.pc = "apply" => \A x \in h.found : \E t \in h.opened : t.dir = x.dir

HostTypes ==
  /\ at \in [Dirs -> Objects \cup {Link}]
  /\ mode \in [Objects -> SUBSET Bits]
  /\ host \in Nat

HInv == HostTypes /\ DOMAIN heal = Heals /\ \A p \in Heals : Sound(heal[p])

(* A heal that begins, and one directory that a walk refuses.              *)
LEMMA FreshIsSound ==
  ASSUME NEW step \in {"idle", "walk"}, NEW able \in BOOLEAN
  PROVE  Sound(Fresh(step, able))
  BY DEF Fresh, Sound, States, HealSteps

(* A directory a walk refuses is below HOME, or marked as beyond the heal. *)
LEMMA ProblemIsMarked ==
  ASSUME NEW d \in Dirs
  PROVE  /\ Problem(d) \in Problems
         /\ Problem(d).dir = d
         /\ Problem(d).hopeless \/ d \in Below
<1> DEFINE P(x) == [dir |-> d, hopeless |-> x]
<1>1. \A x \in BOOLEAN : P(x) \in Problems /\ P(x).dir = d /\ P(x).hopeless = x
  BY DEF Problems
<1>2. (~Writable(d) \/ d \notin Below) \in BOOLEAN
  OBVIOUS
<1>3. Problem(d) = P(~Writable(d) \/ d \notin Below)
  BY Zenon DEF Problem
<1>4. QED
  BY <1>1, <1>2, <1>3, Zenon

(* A heal that is at a turn is at a directory.                             *)
LEMMA HereIsDir ==
  ASSUME HInv, NEW p \in Heals, heal[p].i \in Turns
  PROVE  Here(p) \in Dirs
  BY DEF Here, Dirs

(* What a step does to one heal, field by field.                           *)
Finding(h, i, f) == [h EXCEPT !.i = i, !.found = f]
Opening(h, i, o) == [h EXCEPT !.i = i, !.opened = o]
Going(h, step)   == [h EXCEPT !.pc = step, !.i = 1]

(* A heal that notes what it found.                                        *)
LEMMA WithFound ==
  ASSUME NEW h \in States, NEW i \in Nat \ {0}, NEW f \in SUBSET Problems
  PROVE  /\ Finding(h, i, f) \in States /\ Finding(h, i, f).pc = h.pc /\ Finding(h, i, f).i = i
         /\ Finding(h, i, f).found = f /\ Finding(h, i, f).opened = h.opened
  BY DEF States, Finding

(* A heal that notes what it opened.                                       *)
LEMMA WithOpened ==
  ASSUME NEW h \in States, NEW i \in Nat \ {0}, NEW o \in SUBSET Targets
  PROVE  /\ Opening(h, i, o) \in States /\ Opening(h, i, o).pc = h.pc /\ Opening(h, i, o).i = i
         /\ Opening(h, i, o).found = h.found /\ Opening(h, i, o).opened = o
  BY DEF States, Opening

(* A heal that goes on to its next part.                                   *)
LEMMA WithStep ==
  ASSUME NEW h \in States, NEW step \in HealSteps
  PROVE  /\ Going(h, step) \in States
         /\ Going(h, step).pc = step /\ Going(h, step).i = 1
         /\ Going(h, step).found = h.found /\ Going(h, step).opened = h.opened
<1>1. \A i \in Nat \ {0} : [h EXCEPT !.pc = step, !.i = i] \in States
  BY DEF States
<1>2. 1 \in Nat \ {0}
  OBVIOUS
<1>3. Going(h, step) \in States
  BY <1>1, <1>2, Zenon DEF Going
<1>4. Going(h, step).pc = step /\ Going(h, step).i = 1
  BY DEF States, Going
<1>5. Going(h, step).found = h.found /\ Going(h, step).opened = h.opened
  BY DEF States, Going
<1>6. QED
  BY <1>3, <1>4, <1>5

(* A heal that notes a change or a failure.                                *)
LEMMA WithMarks ==
  ASSUME NEW h \in States, NEW i \in Nat \ {0}
  PROVE  \A n \in {[h EXCEPT !.i = i, !.changed = TRUE], [h EXCEPT !.i = i, !.failed = TRUE]} :
           n \in States /\ n.pc = h.pc /\ n.found = h.found /\ n.opened = h.opened
  BY DEF States

(* No heal has begun.                                                      *)
LEMMA InitHInv == HealInit => HInv
<1> SUFFICES ASSUME HealInit PROVE HInv
  OBVIOUS
<1>1. \A p \in Heals : Sound(heal[p])
  BY FreshIsSound DEF HealInit
<1>2. QED
  BY <1>1, PlacesAssumption, ModesAssumption DEF HealInit, HInv, HostTypes

(* A step of one heal leaves the others alone; it is enough that its own   *)
(* stays sound.                                                            *)
LEMMA OneHeal ==
  ASSUME HInv, NEW p \in Heals, NEW h, Sound(h), heal' = [heal EXCEPT ![p] = h], HostTypes'
  PROVE  HInv'
  BY DEF HInv

(* A turn of the walk adds at most a problem that is marked.               *)
LEMMA WalkStep ==
  ASSUME HInv, NEW p \in Heals, Walk(p)
  PROVE  HInv'
<1> DEFINE h == heal[p]
           f == IF TrustedDir(Here(p)) THEN h.found ELSE h.found \cup {Problem(Here(p))}
           n == Finding(h, h.i + 1, f)
<1>1. h \in States /\ Sound(h)
  BY DEF HInv, Sound
<1>2. heal' = [heal EXCEPT ![p] = n] /\ h.pc \in {"walk", "recheck"} /\ h.i \in Turns /\ UNCHANGED <<at, mode, host>>
  BY DEF Walk, Doing, Finding
<1>3. f \in SUBSET Problems /\ \A x \in f : x.hopeless \/ x.dir \in Below
  BY <1>1, <1>2, HereIsDir, ProblemIsMarked DEF Sound, States
<1>6. h.i + 1 \in Nat \ {0}
  BY <1>1 DEF States
<1>4. n \in States /\ n.pc = h.pc /\ n.found = f /\ n.opened = h.opened
  BY <1>1, <1>3, <1>6, WithFound
<1>5. Sound(n)
  BY <1>1, <1>2, <1>3, <1>4 DEF Sound
<1>7. QED
  BY <1>2, <1>5, OneHeal DEF HInv, HostTypes

(* Steps that move a heal to another part of its work.                     *)
LEMMA GotoStep ==
  ASSUME HInv, NEW p \in Heals, NEW step \in HealSteps, Goto(p, step), UNCHANGED <<at, mode, host>>,
         step = "open" => \A x \in heal[p].found : x.dir \in Below,
         step = "apply" => \A x \in heal[p].found : \E t \in heal[p].opened : t.dir = x.dir
  PROVE  HInv'
<1> DEFINE h == heal[p]
           n == Going(h, step)
<1>1. h \in States /\ Sound(h)
  BY DEF HInv, Sound
<1>2. heal' = [heal EXCEPT ![p] = n]
  BY DEF Goto, Going
<1>3. n \in States /\ n.pc = step /\ n.i = 1 /\ n.found = h.found /\ n.opened = h.opened
  BY <1>1, WithStep
<1>4. \A j \in Turns : ~(j < 1)
  BY DEF Turns
<1>5. Sound(n)
  BY <1>1, <1>3, <1>4 DEF Sound
<1>6. QED
  BY <1>2, <1>5, OneHeal DEF HInv, HostTypes

(* Preflight opens what the walk found, below HOME and no link.            *)
LEMMA PreflightStep ==
  ASSUME HInv, NEW p \in Heals, Preflight(p)
  PROVE  HInv'
<1> DEFINE h == heal[p]
           good == MayTighten(at[Here(p)])
<1>1. h \in States /\ Sound(h)
  BY DEF HInv, Sound
<1>2. h.pc = "open" /\ h.i \in Turns /\ WasFound(p, Here(p)) /\ UNCHANGED <<at, mode, host>>
  BY DEF Preflight, PreflightIf, Doing
<1>3. Here(p) \in Dirs
  BY <1>2, HereIsDir
<1>4. Here(p) \in Below
  BY <1>1, <1>2 DEF Sound, WasFound
<1>5. CASE CanOpen(p) /\ good
  <2> DEFINE n == Opening(h, h.i + 1, h.opened \cup {Opened(p)})
  <2>1. heal' = [heal EXCEPT ![p] = n]
    BY <1>5 DEF Preflight, PreflightIf, Opening
  <2>2. at[Here(p)] # Link
    <3>1. h.i \in 1 .. h.i /\ Here(p) = Path[h.i]
      BY <1>1 DEF States, Here
    <3>2. QED
      BY <1>4, <1>5, <3>1 DEF CanOpen
  <2>3. at[Here(p)] \in Objects
    BY <1>3, <2>2 DEF HInv, HostTypes
  <2>4. Opened(p) \in Targets /\ Opened(p).dir = Here(p) /\ Opened(p).object = at[Here(p)]
    BY <1>3, <2>3 DEF Opened, Targets, HInv, HostTypes
  <2>5. n \in States /\ n.pc = "open" /\ n.i = h.i + 1 /\ n.found = h.found
        /\ n.opened = h.opened \cup {Opened(p)}
    <3>1. h.i + 1 \in Nat \ {0} /\ h.opened \cup {Opened(p)} \in SUBSET Targets
      BY <1>1, <2>4 DEF States
    <3>2. QED
      BY <1>1, <1>2, <3>1, WithOpened
  <2>6. \A x \in n.found, j \in Turns : Path[j] = x.dir /\ j < n.i => \E t \in n.opened : t.dir = x.dir
    <3> SUFFICES ASSUME NEW x \in h.found, NEW j \in Turns, Path[j] = x.dir, j < h.i + 1
                 PROVE  \E t \in n.opened : t.dir = x.dir
      BY <2>5
    <3>1. CASE j < h.i
      BY <1>1, <1>2, <2>5, <3>1 DEF Sound
    <3>2. CASE j = h.i
      <4>1. Opened(p) \in n.opened
        BY <2>5
      <4>2. Opened(p).dir = x.dir
        BY <2>4, <3>2 DEF Here
      <4>3. QED
        BY <4>1, <4>2
    <3>3. h.i \in Nat /\ j \in Nat
      <4>1. Len(Path) \in Nat
        BY PathAssumption
      <4>2. QED
        BY <1>1, <4>1 DEF States, Turns
    <3>4. j < h.i \/ j = h.i
      BY <3>3
    <3>5. QED
      BY <3>1, <3>2, <3>4
  <2>7. Sound(n)
    BY <1>1, <1>2, <1>4, <1>5, <2>4, <2>5, <2>6 DEF Sound
  <2>8. QED
    BY <1>2, <2>1, <2>7, OneHeal DEF HInv, HostTypes
<1>6. CASE ~(CanOpen(p) /\ good)
  <2>1. Goto(p, "refused")
    BY <1>6 DEF Preflight, PreflightIf
  <2>2. QED
    BY <1>2, <2>1, GotoStep DEF HealSteps
<1>7. QED
  BY <1>5, <1>6

(* What was not found, or was tight when it was opened, is passed over.    *)
LEMMA PassStep ==
  ASSUME HInv, NEW p \in Heals, Skip(p) \/ LeaveTight(p)
  PROVE  HInv'
<1> DEFINE h == heal[p]
           n == [h EXCEPT !.i = h.i + 1]
<1>1. h \in States /\ Sound(h)
  BY DEF HInv, Sound
<1>2. heal' = [heal EXCEPT ![p] = n] /\ UNCHANGED <<at, mode, host>> /\ h.i \in Turns
  BY DEF Skip, LeaveTight, Doing
<1>3. n \in States /\ n.pc = h.pc /\ n.i = h.i + 1 /\ n.found = h.found /\ n.opened = h.opened
  BY <1>1 DEF States
<1>4. h.pc = "open" => \A x \in h.found : x.dir # Path[h.i]
  BY DEF Skip, LeaveTight, Doing, WasFound, Here
<1>5. h.pc = "open" =>
        \A x \in h.found, j \in Turns : Path[j] = x.dir /\ j < h.i + 1 => \E t \in h.opened : t.dir = x.dir
  <2> SUFFICES ASSUME h.pc = "open", NEW x \in h.found, NEW j \in Turns, Path[j] = x.dir, j < h.i + 1
               PROVE  \E t \in h.opened : t.dir = x.dir
    OBVIOUS
  <2>1. j < h.i
    BY <1>1, <1>4 DEF States, Turns
  <2>2. QED
    BY <1>1, <2>1 DEF Sound
<1>6. Sound(n)
  BY <1>1, <1>3, <1>5 DEF Sound
<1>7. QED
  BY <1>2, <1>6, OneHeal DEF HInv, HostTypes

(* Past its last place a heal has opened all it found.                     *)
LEMMA PreflownStep ==
  ASSUME HInv, NEW p \in Heals, Preflown(p)
  PROVE  HInv'
<1> DEFINE h == heal[p]
<1>1. h \in States /\ Sound(h)
  BY DEF HInv, Sound
<1>2. h.pc = "open" /\ h.i \notin Turns /\ Goto(p, "apply") /\ UNCHANGED <<at, mode, host>>
  BY DEF Preflown, Done
<1>3. ASSUME NEW x \in h.found PROVE \E t \in h.opened : t.dir = x.dir
  <2>1. x.dir \in Dirs
    BY <1>1 DEF States, Problems
  <2>2. PICK j \in Turns : Path[j] = x.dir
    BY <2>1 DEF Dirs
  <2>3. j < h.i
    BY <1>1, <1>2, PathAssumption DEF States, Turns
  <2>4. QED
    BY <1>1, <1>2, <2>2, <2>3 DEF Sound
<1>4. QED
  BY <1>2, <1>3, GotoStep DEF HealSteps

(* The chmods, and the marks they leave in the heal.                       *)
LEMMA ChmodStep ==
  ASSUME HInv, NEW p \in Heals, NEW t \in heal[p].opened, Chmod(p, t) \/ ChmodFails(p, t)
  PROVE  HInv'
<1> DEFINE h == heal[p]
           Noted == {[h EXCEPT !.i = h.i + 1, !.changed = TRUE], [h EXCEPT !.i = h.i + 1, !.failed = TRUE]}
<1>1. h \in States /\ Sound(h)
  BY DEF HInv, Sound
<1>2. h.pc = "apply" /\ UNCHANGED <<at, host>> /\ t \in Targets
  BY <1>1 DEF Chmod, ChmodFails, Target, Doing, States
<1>3. mode' \in [Objects -> SUBSET Bits]
  <2>1. t.mode \ {"write"} \in SUBSET Bits
    BY <1>2 DEF Targets
  <2>2. CASE Chmod(p, t)
    BY <2>1, <2>2 DEF Chmod, HInv, HostTypes
  <2>3. CASE ChmodFails(p, t)
    BY <2>3 DEF ChmodFails, HInv, HostTypes
  <2>4. QED
    BY <2>2, <2>3
<1>4. \A n \in Noted : n \in States /\ n.pc = h.pc /\ n.found = h.found /\ n.opened = h.opened
  <2>1. h.i + 1 \in Nat \ {0}
    BY <1>1 DEF States
  <2>2. QED
    BY <1>1, <2>1, WithMarks, Zenon
<1>5. \A n \in Noted : Sound(n)
  <2> SUFFICES ASSUME NEW n \in Noted PROVE Sound(n)
    OBVIOUS
  <2> HIDE DEF Noted
  <2>1. QED
    BY <1>1, <1>2, <1>4 DEF Sound
<1>6. \E n \in Noted : heal' = [heal EXCEPT ![p] = n]
  BY DEF Chmod, ChmodFails
<1>8. HostTypes'
  BY <1>2, <1>3 DEF HInv, HostTypes
<1>9. QED
  BY <1>5, <1>6, <1>8, OneHeal

(* Steps that begin or end a part of a heal.                               *)
LEMMA TurnStep ==
  ASSUME HInv, NEW p \in Heals, Begin(p) \/ Walked(p) \/ Applied(p) \/ LastWalk(p)
  PROVE  HInv'
<1> DEFINE h == heal[p]
<1>1. h \in States /\ Sound(h)
  BY DEF HInv, Sound
<1>2. CASE Begin(p)
  <2>1. CanHeal \in BOOLEAN
    BY DEF CanHeal
  <2>2. Sound(Fresh("walk", CanHeal))
    BY <2>1, FreshIsSound
  <2>3. heal' = [heal EXCEPT ![p] = Fresh("walk", CanHeal)] /\ UNCHANGED <<at, mode, host>>
    BY <1>2 DEF Begin
  <2>4. QED
    BY <2>2, <2>3, OneHeal DEF HInv, HostTypes
<1>3. CASE Walked(p)
  <2> DEFINE step == IF h.found = {} THEN "recheck"
                     ELSE IF \E x \in h.found : x.hopeless THEN "refused" ELSE "open"
  <2>1. Goto(p, step) /\ UNCHANGED <<at, mode, host>>
    BY <1>3 DEF Walked
  <2>2. step \in HealSteps /\ step # "apply"
    BY DEF HealSteps
  <2>3. step = "open" => \A x \in h.found : x.dir \in Below
    BY <1>1 DEF Sound
  <2> HIDE DEF step
  <2>4. QED
    BY <2>1, <2>2, <2>3, GotoStep
<1>4. CASE LastWalk(p)
  <2>1. \E step \in {"trusted", "refused"} : Goto(p, step)
    BY <1>4 DEF LastWalk
  <2>2. QED
    BY <1>4, <2>1, GotoStep DEF LastWalk, HealSteps
<1>5. CASE Applied(p)
  <2> DEFINE N(step) == [h EXCEPT !.i = 1, !.found = {}, !.pc = step]
  <2>1. \E step \in {"recheck", "refused"} : heal' = [heal EXCEPT ![p] = N(step)]
    BY <1>5 DEF Applied
  <2>2. PICK step \in {"recheck", "refused"} : heal' = [heal EXCEPT ![p] = N(step)]
    BY <2>1
  <2>3. N(step) = Going(Finding(h, 1, {}), step)
    BY <1>1 DEF Going, Finding, States
  <2>4. Finding(h, 1, {}) \in States /\ Finding(h, 1, {}).opened = h.opened /\ Finding(h, 1, {}).found = {}
    BY <1>1, WithFound
  <2>5. step \in HealSteps /\ step # "open" /\ step # "apply"
    BY DEF HealSteps
  <2>6. /\ N(step) \in States /\ N(step).pc = step
        /\ N(step).found = {} /\ N(step).opened = h.opened
    BY <2>3, <2>4, <2>5, WithStep
  <2>7. Sound(N(step))
    BY <1>1, <2>5, <2>6 DEF Sound
  <2>8. QED
    BY <1>5, <2>2, <2>7, OneHeal DEF Applied, HInv, HostTypes
<1>6. QED
  BY <1>2, <1>3, <1>4, <1>5

(* The host's changes: no heal learns of them.                             *)
LEMMA HostStep ==
  ASSUME HInv, Host, at' \in [Dirs -> Objects \cup {Link}], mode' \in [Objects -> SUBSET Bits]
  PROVE  HInv'
<1>1. heal' = [p \in Heals |-> [heal[p] EXCEPT !.quiet = FALSE]] /\ host' = host + 1
  BY DEF Host
<1>2. ASSUME NEW p \in Heals PROVE Sound([heal[p] EXCEPT !.quiet = FALSE])
  <2> DEFINE h == heal[p]
             n == [h EXCEPT !.quiet = FALSE]
  <2>1. h \in States /\ Sound(h)
    BY DEF HInv, Sound
  <2>2. n \in States /\ n.pc = h.pc /\ n.i = h.i /\ n.found = h.found /\ n.opened = h.opened
    BY <2>1 DEF States
  <2>3. QED
    BY <2>1, <2>2 DEF Sound
<1>3. QED
  BY <1>1, <1>2 DEF HInv, HostTypes

(* One case per action of a heal, and one for the host's.                  *)
LEMMA HInvStep == HInv /\ [HealNext]_healVars => HInv'
<1> SUFFICES ASSUME HInv, [HealNext]_healVars PROVE HInv'
  OBVIOUS
<1>1. ASSUME NEW o \in Objects, NEW m \in SUBSET Bits, Remode(o, m) PROVE HInv'
  BY <1>1, HostStep DEF Remode, HInv, HostTypes
<1>2. ASSUME NEW d \in Dirs, NEW o \in Objects \cup {Link}, Replace(d, o) PROVE HInv'
  BY <1>2, HostStep DEF Replace, HInv, HostTypes
<1>3. CASE UNCHANGED healVars
  BY <1>3 DEF healVars, HInv, HostTypes
<1>4. QED
  BY <1>1, <1>2, <1>3, TurnStep, WalkStep, PassStep, PreflightStep, PreflownStep, ChmodStep
     DEF HealNext, HealStep

(* Every reachable heal is sound, whatever host and other heals do.        *)
THEOREM HealInvariant == HealSpec => []HInv
<1>1. QED
  BY InitHInv, HInvStep, PTL DEF HealSpec

(* A heal only takes write away, only from what it opened below HOME and   *)
(* may tighten, and only once it has opened all it found.                  *)
THEOREM HealOnlyTightens == HealSpec => OnlyTightens
<1> DEFINE Tight == \A o \in Objects : mode'[o] # mode[o] /\ host' = host
                      => \E p \in Heals : heal'[p] # heal[p] /\ Tightened(p, o)
<1>1. HInv /\ [HealNext]_healVars => [Tight]_healVars
  <2> SUFFICES ASSUME HInv, HealNext, NEW o \in Objects, mode'[o] # mode[o], host' = host
               PROVE  \E p \in Heals : heal'[p] # heal[p] /\ Tightened(p, o)
    OBVIOUS
  <2>1. ~Host
    BY DEF Host, HInv, HostTypes
  <2>9. PICK p \in Heals : \E t \in heal[p].opened : Chmod(p, t)
    BY <2>1 DEF HealNext, HealStep, Remode, Replace, Begin, Walk, Walked, Skip, Preflight, PreflightIf,
       Preflown, LeaveTight, ChmodFails, Applied, LastWalk
  <2>2. PICK t \in heal[p].opened : Chmod(p, t)
    BY <2>9
  <2>3. heal[p] \in States /\ Sound(heal[p]) /\ heal[p].pc = "apply" /\ t \in Targets
    BY <2>2 DEF HInv, Sound, States, Chmod, Target, Doing
  <2>4. mode' = [mode EXCEPT ![t.object] = t.mode \ {"write"}]
    BY <2>2 DEF Chmod
  <2>5. t.object = o /\ mode'[o] = t.mode \ {"write"}
    BY <2>4 DEF HInv, HostTypes
  <2>6. Tightened(p, o)
    BY <2>2, <2>3, <2>5 DEF Sound, Tightened
  <2>7. heal'[p] # heal[p]
    <3>1. heal'[p].i = heal[p].i + 1
      BY <2>2, <2>3 DEF Chmod, HInv, States
    <3>2. heal[p].i \in Nat
      BY <2>3 DEF States
    <3>3. QED
      BY <3>1, <3>2
  <2>8. QED
    BY <2>6, <2>7
<1>2. QED
  BY <1>1, HealInvariant, PTL DEF HealSpec, OnlyTightens

(* A heal that could do it all, left alone by the host and by its chmods.  *)
Well(h) == h.able /\ h.quiet /\ ~h.failed

WasSeen(h, d) == \E x \in h.found : x.dir = d

(* What was opened is still there, and did not become writable since.      *)
Fits(t) ==
  /\ t.object = at[t.dir]
  /\ "write" \in mode[at[t.dir]] => "write" \in t.mode

(* What a heal that goes well knows: of the places it has passed, then of  *)
(* all, that they are trusted or will be opened and tightened.             *)
Knows(h) ==
  /\ CanHeal
  /\ h.pc # "refused"
  /\ h.pc \in {"walk", "open", "apply"} => \A x \in h.found : ~x.hopeless /\ MayTighten(at[x.dir])
  /\ h.pc = "walk" => \A j \in Turns : j < h.i => TrustedDir(Path[j]) \/ WasSeen(h, Path[j])
  /\ h.pc \in {"open", "apply"} => \A d \in Dirs : TrustedDir(d) \/ WasSeen(h, d)
  /\ \A t \in h.opened : Fits(t)
  /\ h.pc = "apply" => \A j \in Turns : j < h.i => TrustedDir(Path[j])
  /\ h.pc \in {"recheck", "trusted"} => h.found = {} /\ \A d \in Dirs : TrustedDir(d)

KnowsInv == \A p \in Heals : heal[p].pc # "idle" /\ Well(heal[p]) => Knows(heal[p])

(* No heal, whenever it opened what it changes, adds a write.              *)
Tighter ==
  /\ at' = at
  /\ mode' \in [Objects -> SUBSET Bits]
  /\ \A o \in Objects : "write" \in mode'[o] => "write" \in mode[o]

(* Each step of a heal is such: what it opened had the mode the chmod goes *)
(* by.                                                                     *)
LEMMA HealIsTighter ==
  ASSUME HInv, NEW p \in Heals, Begin(p) \/ HealStep(p)
  PROVE  Tighter
<1>1. mode \in [Objects -> SUBSET Bits]
  BY DEF HInv, HostTypes
<1>2. ASSUME NEW t \in heal[p].opened, Chmod(p, t)
      PROVE  Tighter
  <2>1. t \in Targets
    BY DEF HInv, Sound, States
  <2>2. t.mode \ {"write"} \in SUBSET Bits /\ "write" \notin t.mode \ {"write"}
    BY <2>1 DEF Targets
  <2>3. mode' = [mode EXCEPT ![t.object] = t.mode \ {"write"}] /\ at' = at
    BY <1>2 DEF Chmod
  <2>4. QED
    BY <1>1, <2>2, <2>3 DEF Tighter
<1>3. CASE UNCHANGED <<at, mode>>
  BY <1>1, <1>3 DEF Tighter
<1>4. QED
  BY <1>2, <1>3 DEF HealStep, Begin, Walk, Walked, Skip, Preflight, PreflightIf, Preflown, LeaveTight,
     ChmodFails, Applied, LastWalk

(* So what is trusted stays so, and what could be healed still can be.     *)
LEMMA TrustLasts ==
  ASSUME HInv, Tighter
  PROVE  /\ \A d \in Dirs : TrustedDir(d) => TrustedDir(d)'
         /\ CanHeal => CanHeal'
<1>1. at \in [Dirs -> Objects \cup {Link}] /\ at' = at
  BY DEF HInv, HostTypes, Tighter
<1>2. ASSUME NEW d \in Dirs, TrustedDir(d) PROVE TrustedDir(d)'
  BY <1>1, <1>2 DEF TrustedDir, Tighter
<1>3. ASSUME NEW d \in Dirs, Writable(d) PROVE TrustedDir(d)' \/ Writable(d)'
  BY <1>1, <1>3 DEF TrustedDir, Writable
<1>4. QED
  BY <1>1, <1>2, <1>3 DEF CanHeal

(* A directory that could be healed is trusted once it is tight.           *)
LEMMA TightIsTrusted ==
  ASSUME HInv, CanHeal, NEW d \in Dirs, "write" \notin mode[at[d]]
  PROVE  TrustedDir(d)
  BY DEF CanHeal, TrustedDir, Writable

(* What a heal opened does not become writable under it.                   *)
LEMMA OpenedFits ==
  ASSUME HInv, Tighter, NEW p \in Heals, \A t \in heal[p].opened : Fits(t)
  PROVE  \A t \in heal[p].opened : Fits(t)'
<1> SUFFICES ASSUME NEW t \in heal[p].opened PROVE Fits(t)'
  OBVIOUS
<1>1. t \in Targets /\ Fits(t) /\ at' = at
  BY DEF HInv, Sound, States, Tighter
<1>2. at[t.dir] \in Objects
  BY <1>1 DEF Targets, Fits
<1>3. QED
  BY <1>1, <1>2 DEF Fits, Tighter

(* What a heal knows stays so through a step that leaves its record alone. *)
LEMMA OthersKnow ==
  ASSUME HInv, Tighter, NEW p \in Heals, heal'[p] = heal[p], Knows(heal[p])
  PROVE  Knows(heal[p])'
<1> DEFINE h == heal[p]
<1>1. h \in States /\ at' = at
  BY DEF HInv, Sound, Tighter
<1>2. CanHeal' /\ \A d \in Dirs : TrustedDir(d) => TrustedDir(d)'
  BY TrustLasts DEF Knows
<1>3. \A t \in h.opened : Fits(t)'
  BY OpenedFits DEF Knows
<1>4. \A j \in Turns : Path[j] \in Dirs
  BY DEF Dirs
<1>5. QED
  BY <1>1, <1>2, <1>3, <1>4 DEF Knows, WasSeen

(* A heal's own step that changes no mode is judged as things are.         *)
LEMMA StillKnows ==
  ASSUME UNCHANGED <<at, mode>>, NEW p \in Heals, NEW n, heal'[p] = n, Knows(n)
  PROVE  Knows(heal[p])'
  BY DEF Knows, WasSeen, CanHeal, TrustedDir, Writable, Fits

(* What a walk refuses, of a path that could be healed, it can tighten.    *)
LEMMA RefusedCanBeHealed ==
  ASSUME CanHeal, NEW d \in Dirs, ~TrustedDir(d)
  PROVE  Problem(d).dir = d /\ ~Problem(d).hopeless /\ MayTighten(at[d])
  BY DEF CanHeal, Problem

(* A turn of a walk: a directory is trusted, or found and open to the heal.*)
LEMMA WalkKnows ==
  ASSUME HInv, NEW p \in Heals, Walk(p), Knows(heal[p])
  PROVE  Knows(heal[p])'
<1> DEFINE h == heal[p]
           d == Here(p)
           f == IF TrustedDir(d) THEN h.found ELSE h.found \cup {Problem(d)}
           n == Finding(h, h.i + 1, f)
<1>1. h \in States /\ Knows(h)
  BY DEF HInv, Sound
<1>2. heal'[p] = n /\ h.pc \in {"walk", "recheck"} /\ h.i \in Turns /\ UNCHANGED <<at, mode>>
  BY DEF Walk, Doing, Finding, HInv
<1>3. d \in Dirs /\ d = Path[h.i]
  BY <1>2, HereIsDir DEF Here
<1>4. /\ n.pc = h.pc /\ n.i = h.i + 1 /\ n.found = f /\ n.opened = h.opened
      /\ h.i \in Nat /\ Turns \subseteq Nat
  <2>1. f \in SUBSET Problems
    BY <1>1, <1>3, ProblemIsMarked DEF States
  <2>2. h.i + 1 \in Nat \ {0}
    BY <1>1 DEF States
  <2>3. h.i \in Nat /\ Turns \subseteq Nat
    BY <1>1 DEF States, Turns
  <2>4. QED
    BY <1>1, <2>1, <2>2, <2>3, WithFound
<1>5. TrustedDir(d) \/ (Problem(d).dir = d /\ ~Problem(d).hopeless /\ MayTighten(at[d]))
  BY <1>1, <1>3, RefusedCanBeHealed DEF Knows
<1>6. h.pc = "walk" => \A x \in f : ~x.hopeless /\ MayTighten(at[x.dir])
  BY <1>1, <1>5 DEF Knows
<1>7. TrustedDir(d) \/ \E x \in f : x.dir = d
  BY <1>5
<1>8. h.pc = "walk" => \A j \in Turns : j < h.i + 1 => TrustedDir(Path[j]) \/ \E x \in f : x.dir = Path[j]
  <2> SUFFICES ASSUME h.pc = "walk", NEW j \in Turns, j < h.i + 1
               PROVE  TrustedDir(Path[j]) \/ \E x \in f : x.dir = Path[j]
    OBVIOUS
  <2>1. CASE j = h.i
    BY <1>3, <1>7, <2>1
  <2>2. CASE j # h.i
    <3>1. j < h.i
      BY <1>4, <2>2
    <3>2. h.found \subseteq f
      OBVIOUS
    <3>3. QED
      BY <1>1, <3>1, <3>2 DEF Knows, WasSeen
  <2>3. QED
    BY <2>1, <2>2
<1>9. h.pc = "recheck" => f = {}
  BY <1>1, <1>3 DEF Knows
<1> HIDE DEF f, d, n
<1>10. Knows(n)
  BY <1>1, <1>2, <1>4, <1>6, <1>8, <1>9 DEF Knows, WasSeen
<1>11. QED
  BY <1>2, <1>10, StillKnows

(* Between the parts of its work.                                          *)
LEMMA GoingKnows ==
  ASSUME HInv, NEW p \in Heals, Walked(p) \/ Preflown(p) \/ LastWalk(p), Knows(heal[p])
  PROVE  Knows(heal[p])'
<1> DEFINE h == heal[p]
<1>1. h \in States /\ Knows(h) /\ UNCHANGED <<at, mode>>
  BY DEF HInv, Sound, Walked, Preflown, LastWalk
<1>2. h.i \notin Turns => \A d \in Dirs : \E j \in Turns : Path[j] = d /\ j < h.i
  BY <1>1, PathAssumption DEF Dirs, States, Turns
<1>3. ASSUME NEW step \in HealSteps, Goto(p, step), Knows(Going(h, step)) PROVE Knows(heal[p])'
  <2>1. heal'[p] = Going(h, step)
    BY <1>3 DEF Goto, Going, HInv
  <2>2. QED
    BY <1>1, <1>3, <2>1, StillKnows
<1>4. \A step \in HealSteps : LET n == Going(h, step) IN
        n.pc = step /\ n.i = 1 /\ n.found = h.found /\ n.opened = h.opened
  BY <1>1, WithStep
<1>5. \A j \in Turns : ~(j < 1)
  BY DEF Turns
<1>6. CASE Walked(p)
  <2>1. h.pc = "walk" /\ h.i \notin Turns
    BY <1>6 DEF Walked, Done
  <2>2. \A d \in Dirs : TrustedDir(d) \/ WasSeen(h, d)
    BY <1>1, <1>2, <2>1 DEF Knows
  <2>3. CASE h.found = {}
    <3>1. Goto(p, "recheck")
      BY <1>6, <2>3 DEF Walked
    <3>2. \A d \in Dirs : TrustedDir(d)
      BY <2>2, <2>3 DEF WasSeen
    <3>3. "recheck" \in HealSteps
      BY DEF HealSteps
    <3>4. Knows(Going(h, "recheck"))
      BY <1>1, <1>4, <2>3, <3>2, <3>3 DEF Knows
    <3>5. QED
      BY <1>3, <3>1, <3>3, <3>4
  <2>4. CASE h.found # {}
    <3>1. ~\E x \in h.found : x.hopeless
      BY <1>1, <2>1 DEF Knows
    <3>2. Goto(p, "open")
      BY <1>6, <2>4, <3>1 DEF Walked
    <3>3. "open" \in HealSteps
      BY DEF HealSteps
    <3>4. Knows(Going(h, "open"))
      BY <1>1, <1>4, <2>1, <2>2, <3>3 DEF Knows, WasSeen
    <3>5. QED
      BY <1>3, <3>2, <3>3, <3>4
  <2>5. QED
    BY <2>3, <2>4
<1>7. CASE Preflown(p)
  <2>1. h.pc = "open" /\ Goto(p, "apply") /\ "apply" \in HealSteps
    BY <1>7 DEF Preflown, Done, HealSteps
  <2>2. Knows(Going(h, "apply"))
    BY <1>1, <1>4, <1>5, <2>1 DEF Knows, WasSeen
  <2>3. QED
    BY <1>3, <2>1, <2>2
<1>8. CASE LastWalk(p)
  <2>1. h.pc = "recheck" /\ "trusted" \in HealSteps
    BY <1>8 DEF LastWalk, Done, HealSteps
  <2>2. h.found = {} /\ Goto(p, "trusted")
    BY <1>1, <1>8, <2>1 DEF Knows, LastWalk
  <2>3. Knows(Going(h, "trusted"))
    BY <1>1, <1>4, <2>1, <2>2 DEF Knows
  <2>4. QED
    BY <1>3, <2>1, <2>2, <2>3
<1>9. QED
  BY <1>6, <1>7, <1>8

(* What the walk found can be opened and tightened, so it is.              *)
LEMMA PreflightKnows ==
  ASSUME HInv, NEW p \in Heals, Preflight(p), Knows(heal[p])
  PROVE  Knows(heal[p])'
<1> DEFINE h == heal[p]
           n == Opening(h, h.i + 1, h.opened \cup {Opened(p)})
<1>1. h \in States /\ Knows(h) /\ Sound(h)
  BY DEF HInv, Sound
<1>2. h.pc = "open" /\ h.i \in Turns /\ WasFound(p, Here(p)) /\ UNCHANGED <<at, mode>>
  BY DEF Preflight, PreflightIf, Doing
<1>3. Here(p) \in Dirs
  BY <1>2, HereIsDir
<1>4. \A d \in Dirs : at[d] # Link
  BY <1>1 DEF Knows, CanHeal, TrustedDir, Writable
<1>5. CanOpen(p)
  <2>1. \A j \in 1 .. h.i : Path[j] \in Dirs
    BY <1>1, <1>2 DEF Dirs, Turns, States
  <2>2. QED
    BY <1>4, <2>1 DEF CanOpen
<1>6. MayTighten(at[Here(p)])
  BY <1>1, <1>2 DEF Knows, WasFound
<1>7. heal'[p] = n
  BY <1>5, <1>6 DEF Preflight, PreflightIf, Opening, HInv
<1>8. at[Here(p)] \in Objects
  BY <1>3, <1>4 DEF HInv, HostTypes
<1>9. Opened(p) \in Targets /\ Fits(Opened(p))
  BY <1>3, <1>8 DEF Opened, Targets, HInv, HostTypes, Fits
<1>10. n.pc = "open" /\ n.found = h.found /\ n.opened = h.opened \cup {Opened(p)}
  <2>1. h.i + 1 \in Nat \ {0} /\ h.opened \cup {Opened(p)} \in SUBSET Targets
    BY <1>1, <1>9 DEF States
  <2>2. QED
    BY <1>1, <1>2, <2>1, WithOpened
<1> HIDE DEF n
<1>11. Knows(n)
  BY <1>1, <1>2, <1>9, <1>10 DEF Knows, WasSeen
<1>12. QED
  BY <1>2, <1>7, <1>11, StillKnows

(* What is passed over was not found, or is tight since it was opened.     *)
LEMMA PassKnows ==
  ASSUME HInv, NEW p \in Heals, Skip(p) \/ LeaveTight(p), Knows(heal[p])
  PROVE  Knows(heal[p])'
<1> DEFINE h == heal[p]
           d == Here(p)
           n == [h EXCEPT !.i = h.i + 1]
<1>1. h \in States /\ Knows(h) /\ Sound(h)
  BY DEF HInv, Sound
<1>2. heal'[p] = n /\ UNCHANGED <<at, mode>> /\ h.i \in Turns /\ h.pc \in {"open", "apply"}
  BY DEF Skip, LeaveTight, Doing, HInv
<1>3. n.pc = h.pc /\ n.i = h.i + 1 /\ n.found = h.found /\ n.opened = h.opened
  BY <1>1 DEF States
<1>4. d \in Dirs /\ d = Path[h.i]
  BY <1>2, HereIsDir DEF Here
<1>5. h.pc = "apply" => TrustedDir(d)
  <2> SUFFICES ASSUME h.pc = "apply", WasSeen(h, d) PROVE TrustedDir(d)
    BY <1>1, <1>4 DEF Knows
  <2>1. PICK t \in h.opened : t.dir = d
    BY <1>1 DEF Sound, WasSeen
  <2>2. "write" \notin t.mode
    BY <2>1 DEF Skip, LeaveTight, Doing
  <2>3. "write" \notin mode[at[d]]
    BY <1>1, <2>1, <2>2 DEF Knows, Fits
  <2>4. QED
    BY <1>1, <1>4, <2>3, TightIsTrusted DEF Knows
<1>6. h.pc = "apply" => \A j \in Turns : j < h.i + 1 => TrustedDir(Path[j])
  <2>1. \A j \in Turns : j < h.i + 1 => j < h.i \/ j = h.i
    BY <1>1 DEF Turns, States
  <2>2. QED
    BY <1>1, <1>4, <1>5, <2>1 DEF Knows
<1> HIDE DEF n, d
<1>7. Knows(n)
  BY <1>1, <1>2, <1>3, <1>6 DEF Knows, WasSeen
<1>8. QED
  BY <1>2, <1>7, StillKnows

(* A chmod leaves the place it was at tight, and so trusted.               *)
LEMMA ChmodKnows ==
  ASSUME HInv, NEW p \in Heals, NEW t \in heal[p].opened, Chmod(p, t), Tighter, Knows(heal[p])
  PROVE  Knows(heal[p])'
<1> DEFINE h == heal[p]
           n == [h EXCEPT !.i = h.i + 1, !.changed = TRUE]
<1>1. h \in States /\ Knows(h) /\ t \in Targets
  BY DEF HInv, Sound, States
<1>2. heal'[p] = n /\ h.pc = "apply" /\ h.i \in Turns /\ t.dir = Here(p) /\ at' = at
      /\ mode' = [mode EXCEPT ![t.object] = t.mode \ {"write"}]
  BY DEF Chmod, Target, Doing, HInv
<1>3. n.pc = h.pc /\ n.i = h.i + 1 /\ n.found = h.found /\ n.opened = h.opened
  BY <1>1 DEF States
<1>4. PICK d \in Dirs : d = Here(p) /\ d = Path[h.i]
  BY <1>2, HereIsDir DEF Here
<1>5. CanHeal' /\ \A e \in Dirs : TrustedDir(e) => TrustedDir(e)'
  BY <1>1, TrustLasts DEF Knows
<1>6. TrustedDir(d)'
  <2>1. at[d] = t.object /\ t.object \in Objects
    BY <1>1, <1>2, <1>4 DEF Knows, Fits, Targets
  <2>2. mode'[at[d]] = t.mode \ {"write"}
    BY <1>2, <2>1 DEF HInv, HostTypes
  <2>3. "write" \notin mode'[at'[d]]
    BY <1>2, <2>2
  <2>4. QED
    BY <1>4, <1>5, <2>3 DEF CanHeal, TrustedDir, Writable
<1>7. \A j \in Turns : j < h.i + 1 => TrustedDir(Path[j])'
  <2>1. \A j \in Turns : Path[j] \in Dirs /\ (j < h.i + 1 => j < h.i \/ j = h.i)
    BY <1>1 DEF Turns, States, Dirs
  <2>2. QED
    BY <1>1, <1>2, <1>4, <1>5, <1>6, <2>1 DEF Knows
<1>8. \A u \in h.opened : Fits(u)'
  BY <1>1, OpenedFits DEF Knows
<1>9. \A x \in h.found : ~x.hopeless /\ MayTighten(at[x.dir])
  BY <1>1, <1>2 DEF Knows
<1>10. \A e \in Dirs : TrustedDir(e)' \/ WasSeen(h, e)
  BY <1>1, <1>2, <1>5 DEF Knows
<1> HIDE DEF n
<1>11. QED
  BY <1>2, <1>3, <1>5, <1>7, <1>8, <1>9, <1>10 DEF Knows, WasSeen

(* Of the heals that began able and had no fault, one that has applied its *)
(* work finds nothing when the caller walks again.                         *)
LEMMA AppliedKnows ==
  ASSUME HInv, NEW p \in Heals, Applied(p), Well(heal[p]), Knows(heal[p])
  PROVE  Knows(heal[p])'
<1> DEFINE h == heal[p]
           n == [h EXCEPT !.i = 1, !.found = {}, !.pc = "recheck"]
<1>1. h \in States /\ Knows(h) /\ ~h.failed
  BY DEF HInv, Sound, Well
<1>2. heal'[p] = n /\ UNCHANGED <<at, mode>> /\ h.pc = "apply" /\ h.i \notin Turns
  BY <1>1 DEF Applied, Done, HInv
<1>3. n.pc = "recheck" /\ n.found = {} /\ n.opened = h.opened
  BY <1>1 DEF States
<1>4. \A d \in Dirs : \E j \in Turns : Path[j] = d /\ j < h.i
  BY <1>1, <1>2, PathAssumption DEF Dirs, States, Turns
<1>5. \A d \in Dirs : TrustedDir(d)
  BY <1>1, <1>2, <1>4 DEF Knows
<1> HIDE DEF n
<1>6. Knows(n)
  BY <1>1, <1>3, <1>5 DEF Knows
<1>7. QED
  BY <1>2, <1>6, StillKnows

(* A heal that begins able to do it all.                                   *)
LEMMA BeginKnows ==
  ASSUME HInv, NEW p \in Heals, Begin(p), Well(heal'[p])
  PROVE  Knows(heal[p])'
<1> DEFINE n == Fresh("walk", CanHeal)
<1>1. heal'[p] = n /\ UNCHANGED <<at, mode>>
  BY DEF Begin, HInv
<1>2. n.able = CanHeal
  BY Zenon DEF Fresh
<1>3. n.pc = "walk" /\ n.i = 1 /\ n.found = {} /\ n.opened = {}
  BY DEF Fresh
<1>4. CanHeal
  BY <1>1, <1>2, Zenon DEF Well
<1>5. \A j \in Turns : ~(j < 1)
  BY DEF Turns
<1> HIDE DEF n
<1>6. Knows(n)
  BY <1>3, <1>4, <1>5 DEF Knows
<1>7. QED
  BY <1>1, <1>6, StillKnows

(* A step of a heal that goes well after it went well before.              *)
LEMMA WellBefore ==
  ASSUME HInv, NEW p \in Heals, HealStep(p), Well(heal'[p])
  PROVE  heal[p].pc # "idle" /\ Well(heal[p])
<1> DEFINE h == heal[p]
           Same(n) == n.able = h.able /\ n.quiet = h.quiet /\ n.failed = h.failed
<1>1. h \in States
  BY DEF HInv, Sound
<1>2. h.pc # "idle"
  BY DEF HealStep, Walk, Walked, Skip, Preflight, PreflightIf, Preflown, LeaveTight, Chmod, ChmodFails,
     Applied, LastWalk, Doing, Done, Target
<1>4. \A i : [h EXCEPT !.i = i, !.failed = TRUE].failed
  BY <1>1, Zenon DEF States
<1>6. ASSUME NEW t \in h.opened, ChmodFails(p, t) PROVE FALSE
  <2>1. heal'[p].failed
    BY <1>4, <1>6, Zenon DEF ChmodFails, HInv
  <2>2. QED
    BY <2>1 DEF Well
<1>8. DOMAIN heal = Heals
  BY DEF HInv
<1>9. ASSUME NEW step \in HealSteps, Goto(p, step) PROVE Same(heal'[p])
  <2>1. heal'[p] = Going(h, step)
    BY <1>9, <1>8 DEF Goto, Going
  <2>2. Same(Going(h, step))
    BY <1>1 DEF States, Going
  <2>3. QED
    BY <2>1, <2>2
<1>10. Walked(p) \/ Preflown(p) \/ LastWalk(p) => \E step \in HealSteps : Goto(p, step)
  BY Zenon DEF Walked, Preflown, LastWalk, HealSteps
<1>11. ASSUME Walk(p) PROVE Same(heal'[p])
  BY <1>1, <1>8, <1>11 DEF Walk, States
<1>12. ASSUME Skip(p) \/ LeaveTight(p) PROVE Same(heal'[p])
  BY <1>1, <1>8, <1>12 DEF Skip, LeaveTight, States
<1>13. ASSUME Preflight(p) PROVE Same(heal'[p])
  <2>1. CASE Goto(p, "refused")
    BY <1>9, <2>1 DEF HealSteps
  <2>2. CASE ~Goto(p, "refused")
    BY <1>1, <1>8, <1>13, <2>2 DEF Preflight, PreflightIf, States
  <2>3. QED
    BY <2>1, <2>2
<1>14. ASSUME NEW t \in h.opened, Chmod(p, t) PROVE Same(heal'[p])
  BY <1>1, <1>8, <1>14 DEF Chmod, States
<1>15. ASSUME Applied(p) PROVE Same(heal'[p])
  BY <1>1, <1>8, <1>15 DEF Applied, States
<1> HIDE DEF Same
<1>7. Same(heal'[p])
  BY <1>6, <1>9, <1>10, <1>11, <1>12, <1>13, <1>14, <1>15 DEF HealStep
<1>5. QED
  BY <1>2, <1>7 DEF Same, Well

(* A heal that goes well keeps what it knows through its own step.         *)
LEMMA OwnKnows ==
  ASSUME HInv, NEW p \in Heals, HealStep(p), Tighter, Well(heal'[p]), Knows(heal[p])
  PROVE  Knows(heal[p])'
<1>1. Well(heal[p])
  BY WellBefore
<1>2. ASSUME NEW t \in heal[p].opened, ChmodFails(p, t) PROVE FALSE
  <2>1. heal'[p].failed
    BY <1>2, Zenon DEF ChmodFails, HInv, Sound, States
  <2>2. QED
    BY <2>1 DEF Well
<1>3. QED
  BY <1>1, <1>2, WalkKnows, GoingKnows, PreflightKnows, PassKnows, ChmodKnows, AppliedKnows DEF HealStep

(* A step of a heal leaves the records of the others alone.                *)
LEMMA OthersStay ==
  ASSUME HInv, NEW p \in Heals, Begin(p) \/ HealStep(p), NEW q \in Heals, q # p
  PROVE  heal'[q] = heal[q]
  BY DEF HInv, HealStep, Begin, Walk, Walked, Skip, Preflight, PreflightIf, Preflown, LeaveTight,
     Chmod, ChmodFails, Applied, LastWalk, Goto

(* Its own step, another heal's, and the host's, after which none goes     *)
(* well.                                                                   *)
LEMMA KnowsStep == HInv /\ KnowsInv /\ [HealNext]_healVars => KnowsInv'
<1> SUFFICES ASSUME HInv, KnowsInv, [HealNext]_healVars,
                    NEW q \in Heals, heal'[q].pc # "idle", Well(heal'[q])
             PROVE  Knows(heal[q])'
  BY Zenon DEF KnowsInv
<1>1. ASSUME NEW p \in Heals, Begin(p) \/ HealStep(p) PROVE Knows(heal[q])'
  <2>1. Tighter
    BY <1>1, HealIsTighter
  <2>2. CASE q # p
    <3>1. heal'[q] = heal[q]
      BY <1>1, <2>2, OthersStay
    <3>2. QED
      BY <2>1, <3>1, OthersKnow DEF KnowsInv
  <2>3. CASE q = p /\ Begin(p)
    BY <2>3, BeginKnows
  <2>4. CASE q = p /\ HealStep(p)
    BY <2>1, <2>4, WellBefore, OwnKnows DEF KnowsInv
  <2>5. QED
    BY <1>1, <2>2, <2>3, <2>4
<1>2. CASE Host
  <2>1. ~heal'[q].quiet
    BY <1>2, Zenon DEF Host, HInv, Sound, States
  <2>2. QED
    BY <2>1 DEF Well
<1>3. CASE UNCHANGED healVars
  BY <1>3 DEF healVars, KnowsInv, Knows, WasSeen, CanHeal, TrustedDir, Writable, Fits
<1>4. QED
  BY <1>1, <1>2, <1>3 DEF HealNext, Remode, Replace

(* At the start no heal has begun.                                         *)
LEMMA InitKnows == HealInit => KnowsInv
  BY DEF HealInit, Fresh, KnowsInv

(* A heal that was able to, and met no failure and no host, ends trusted.  *)
THEOREM HealsAllItCan == HealSpec => []HealsWhatItCan
<1>1. HInv /\ KnowsInv => HealsWhatItCan
  BY DEF KnowsInv, Knows, Well, HealsWhatItCan
<1>2. QED
  BY <1>1, HealInvariant, InitKnows, KnowsStep, PTL DEF HealSpec

----------------------------------------------------------------------------
(* Profile files and the stores they name.                                 *)

RetireAts == {"retiring", "named", "holding", "checked", "saved", "moved", "returning", "undoing"}
FileAts   == {"idle", "updating", "replacing", "using", "open", "making", "made"} \cup RetireAts
FileJobs  == [name : Names, file : Files, to : NewPaths \cup {NoPath}, retired : Names]

FilesTyped ==
  /\ file \in [Names -> Files \cup {NoFile}]
  /\ dir \in [Paths -> Stores \cup {NoStore}]
  /\ pc \in [Procs -> FileAts]
  /\ job \in [Procs -> FileJobs \cup {NoJob}]
  /\ \A p \in Procs : pc[p] # "idle" => job[p] \in FileJobs
  /\ kept \subseteq Stores

(* What a command under way was run on.                                    *)
JobsFit ==
  \A p \in Procs :
    /\ pc[p] \in RetireAts => p \in Retirers /\ MayRetire(job[p].name)
    /\ pc[p] \in RetireAts \ {"retiring"} => job[p].retired \in RetiredNames
    /\ pc[p] \in {"saved", "returning"} => job[p].to # NoPath
    /\ pc[p] \in {"updating", "replacing"} => job[p].name \in InUse

(* Whoever has a profile in hand that was not retired has it with the data *)
(* directory that its file has, if it is still there.                      *)
HasInHand(p, n) == pc[p] # "idle" /\ job[p].name = n

DataAgrees ==
  \A n \in Names \ RetiredNames :
    /\ MayRetire(n) /\ file[n] # NoFile => file[n].data \notin NewPaths
    /\ \A p \in Procs : HasInHand(p, n) =>
         /\ IF MayRetire(n) THEN job[p].file.data \notin NewPaths ELSE file[n] # NoFile
         /\ file[n] # NoFile => file[n].data = job[p].file.data
         /\ \A q \in Procs : HasInHand(q, n) => job[q].file.data = job[p].file.data

(* The retired profile of a retire that may still remove it is its own.    *)
Wrote(p) == pc[p] \in {"saved", "moved", "returning", "undoing"}

RetiredThere ==
  \A p \in Procs : Wrote(p) =>
    /\ file[job[p].retired] = Retired(p)
    /\ \A q \in Procs : q # p /\ Wrote(q) => job[q].retired # job[p].retired

(* What a retire may still move back is where it moved it.                 *)
HasMoved(p) == pc[p] \in {"moved", "returning"} /\ job[p].to # NoPath

DataThere ==
  \A p \in Procs : HasMoved(p) =>
    /\ dir[job[p].to] # NoStore
    /\ \A q \in Procs : q # p /\ HasMoved(q) => job[q].to # job[p].to

(* A store that was named at the start is at one path.                     *)
KeptSomewhere ==
  /\ \A s \in kept : \E x \in Paths : dir[x] = s
  /\ \A x, y \in Paths : x # y /\ dir[x] = dir[y] => dir[x] = NoStore

(* A profile that no retire under way may remove again.                    *)
Firm(x) ==
  \E n \in Names : /\ file[n] # NoFile /\ file[n].data = x
                   /\ \A p \in Procs : Wrote(p) => job[p].retired # n

(* Where the store is a profile names it, and no retire under way has      *)
(* moved data from or to there; or one has moved it, none other has moved  *)
(* data from where it was, and there is room and a profile for it there.   *)
Settled(x) ==
  Firm(x) /\ \A p \in Procs : HasMoved(p) => x \notin {job[p].file.data, job[p].to}

Away(p, x) ==
  /\ HasMoved(p) /\ job[p].to = x
  /\ dir[job[p].file.data] = NoStore /\ Firm(job[p].file.data)
  /\ \A q \in Procs : q # p /\ HasMoved(q) => job[q].file.data # job[p].file.data

Placed(s) == \A x \in Paths : dir[x] = s => Settled(x) \/ \E p \in Procs : Away(p, x)

FilesInv ==
  /\ FilesTyped /\ JobsFit /\ DataAgrees /\ RetiredThere /\ DataThere /\ KeptSomewhere
  /\ \A s \in kept \ remade : Placed(s)
(* A retired name is a name.                                               *)
LEMMA RetiredAreNames == RetiredNames \subseteq Names
  BY NamesAssumption DEF RetiredNames

(* At the start nobody runs.                                               *)
LEMMA InitFiles == FilesInit => FilesInv
<1> SUFFICES ASSUME FilesInit PROVE FilesInv
  OBVIOUS
<1>1. FilesTyped
  BY StartAssumption DEF FilesInit, FilesTyped, FileAts
<1>2. \A p \in Procs : pc[p] = "idle"
  BY DEF FilesInit
<1>3. JobsFit /\ RetiredThere /\ DataThere
  BY <1>2 DEF JobsFit, RetireAts, RetiredThere, Wrote, DataThere, HasMoved
<1>4. DataAgrees
  BY <1>2, ApartAssumption DEF FilesInit, DataAgrees, HasInHand
<1>5. KeptSomewhere
  BY <1>1, StartAssumption DEF FilesInit, KeptSomewhere, FilesTyped, Named, Files
<1>6. ASSUME NEW s \in kept, NEW x \in Paths, dir[x] = s PROVE Settled(x)
  <2>1. PICK n \in Names : file[n] # NoFile /\ dir[file[n].data] = s
    BY DEF FilesInit, Named
  <2>2. file[n].data = x
    BY <1>1, <1>5, <1>6, <2>1, NoneAssumption DEF FilesTyped, KeptSomewhere, Files
  <2>3. QED
    BY <1>2, <2>1, <2>2 DEF Settled, Firm, Wrote, HasMoved
<1>7. QED
  BY <1>1, <1>3, <1>4, <1>5, <1>6 DEF FilesInv, Placed

(* A command that takes a step, with its files as they were: what it wrote *)
(* and has moved stays the same, and what it is run on fits.               *)
LEMMA CommandGoes ==
  ASSUME FilesInv, NEW p \in Procs, NEW a \in FileAts \ {"idle"}, NEW j \in FileJobs,
         pc' = [pc EXCEPT ![p] = a], job' = [job EXCEPT ![p] = j],
         UNCHANGED <<file, dir, kept, remade>>,
         a \in RetireAts => p \in Retirers /\ MayRetire(j.name),
         a \in RetireAts \ {"retiring"} => j.retired \in RetiredNames,
         a \in {"saved", "returning"} => j.to # NoPath,
         a \in {"updating", "replacing"} => j.name \in InUse,
         \/ file[j.name] # NoFile /\ j.file.data = file[j.name].data
         \/ HasInHand(p, j.name) /\ j.file = job[p].file,
         Wrote(p)' => Wrote(p) /\ j = job[p],
         HasMoved(p)' <=> HasMoved(p)
  PROVE  FilesInv'
<1>1. \A q \in Procs \ {p} : pc'[q] = pc[q] /\ job'[q] = job[q]
  BY DEF FilesInv, FilesTyped
<1>2. pc'[p] = a /\ job'[p] = j
  BY DEF FilesInv, FilesTyped
<1>3. HasMoved(p) => j = job[p]
  BY <1>2 DEF HasMoved, Wrote
<1>4. FilesTyped'
  BY DEF FilesInv, FilesTyped
<1>5. JobsFit'
  BY <1>1, <1>2 DEF FilesInv, JobsFit
<1>6. DataAgrees'
  <2> SUFFICES ASSUME NEW n \in Names \ RetiredNames
      PROVE  /\ MayRetire(n) /\ file[n] # NoFile => file[n].data \notin NewPaths
             /\ \A q \in Procs : HasInHand(q, n)' =>
                  /\ IF MayRetire(n) THEN job'[q].file.data \notin NewPaths ELSE file[n] # NoFile
                  /\ file[n] # NoFile => file[n].data = job'[q].file.data
                  /\ \A r \in Procs : HasInHand(r, n)' => job'[r].file.data = job'[q].file.data
    BY DEF DataAgrees, MayRetire
  <2>1. \A q \in Procs \ {p} : HasInHand(q, n)' <=> HasInHand(q, n)
    BY <1>1 DEF HasInHand
  <2>2. ASSUME HasInHand(p, n)'
        PROVE  \/ file[n] # NoFile /\ j.file.data = file[n].data
               \/ HasInHand(p, n) /\ j.file = job[p].file
    BY <1>2, <2>2 DEF HasInHand
  <2>3. QED
    BY <1>1, <1>2, <2>1, <2>2 DEF FilesInv, DataAgrees
<1>7. \A q \in Procs : /\ Wrote(q)' => Wrote(q) /\ job'[q] = job[q]
                       /\ HasMoved(q)' <=> HasMoved(q)
                       /\ HasMoved(q) => job'[q] = job[q]
  BY <1>1, <1>2, <1>3 DEF Wrote, HasMoved
<1>8. RetiredThere' /\ DataThere' /\ KeptSomewhere'
  BY <1>7 DEF FilesInv, RetiredThere, Retired, DataThere, KeptSomewhere
<1>9. \A x \in Paths : Firm(x) => Firm(x)'
  BY <1>7 DEF Firm
<1>10. ASSUME NEW q \in Procs, HasMoved(q) PROVE job[q].file.data \in Paths
  BY <1>10 DEF FilesInv, FilesTyped, HasMoved, FileJobs, Files
<1>11. \A x \in Paths : Settled(x) => Settled(x)'
  BY <1>7, <1>9 DEF Settled
<1>12. \A x \in Paths, q \in Procs : Away(q, x) => Away(q, x)'
  BY <1>7, <1>9, <1>10 DEF Away
<1>13. QED
  BY <1>4, <1>5, <1>6, <1>8, <1>11, <1>12 DEF FilesInv, Placed
(* A command that ends: what it wrote or moved stays as it left it.  It    *)
(* may have removed the profile it was run on, if that is named elsewhere  *)
(* or its data was moved, or its own retired profile, or replaced the file *)
(* it was run on by one that points at the same data.                      *)
LEMMA CommandEnds ==
  ASSUME FilesInv, NEW p \in Procs, End(p), UNCHANGED <<dir, kept, remade>>,
         file' \in [Names -> Files \cup {NoFile}],
         \A n \in Names \ RetiredNames :
           /\ file'[n] # NoFile => (file[n] # NoFile /\ file'[n].data = file[n].data)
                                \/ (HasInHand(p, n) /\ file'[n].data = job[p].file.data)
           /\ ~MayRetire(n) /\ file[n] # NoFile => file'[n] # NoFile,
         \A q \in Procs \ {p} : Wrote(q) => file'[job[q].retired] = file[job[q].retired],
         \A x \in Paths : Firm(x) /\ (HasMoved(p) => x # job[p].file.data) => Firm(x)',
         \A x \in Paths : HasMoved(p) /\ job[p].to = x => Firm(x)'
  PROVE  FilesInv'
<1>1. /\ \A q \in Procs \ {p} : pc'[q] = pc[q] /\ job'[q] = job[q]
      /\ pc'[p] = "idle"
  BY DEF FilesInv, FilesTyped, End
<1>2. \A q \in Procs : pc'[q] # "idle" => q # p /\ pc'[q] = pc[q] /\ job'[q] = job[q]
  BY <1>1
<1>3. FilesTyped'
  <2>1. job' \in [Procs -> FileJobs \cup {NoJob}] /\ pc' \in [Procs -> FileAts]
    BY DEF FilesInv, FilesTyped, End, FileAts
  <2>2. QED
    BY <1>2, <2>1 DEF FilesInv, FilesTyped
<1>4. JobsFit'
  BY <1>2 DEF FilesInv, JobsFit, RetireAts
<1>5. DataAgrees'
  BY <1>2 DEF FilesInv, DataAgrees, HasInHand, MayRetire
<1>6. \A q \in Procs : /\ Wrote(q)' <=> q # p /\ Wrote(q)
                       /\ HasMoved(q)' <=> q # p /\ HasMoved(q)
                       /\ q # p => job'[q] = job[q]
  BY <1>1 DEF Wrote, HasMoved
<1>7. RetiredThere' /\ DataThere' /\ KeptSomewhere'
  BY <1>6 DEF FilesInv, RetiredThere, Retired, DataThere, KeptSomewhere
<1>8. ASSUME NEW q \in Procs, HasMoved(q)
      PROVE  /\ job[q].file.data \in Paths \ NewPaths
             /\ job[q].to \in NewPaths
  <2>1. job[q] \in FileJobs /\ HasInHand(q, job[q].name) /\ MayRetire(job[q].name)
    BY <1>8 DEF FilesInv, FilesTyped, JobsFit, HasMoved, HasInHand, RetireAts
  <2>2. job[q].name \in Names \ RetiredNames
    BY <2>1, ApartAssumption DEF FileJobs
  <2>3. QED
    BY <1>8, <2>1, <2>2 DEF FilesInv, DataAgrees, FileJobs, Files, HasMoved
<1>9. ASSUME NEW s \in kept \ remade, NEW x \in Paths, dir[x] = s
      PROVE  Settled(x)' \/ \E q \in Procs : Away(q, x)'
  <2>1. CASE Settled(x)
    BY <1>6, <2>1 DEF Settled
  <2>2. ASSUME NEW q \in Procs \ {p}, Away(q, x) PROVE Away(q, x)'
    <3>1. HasMoved(p) => job[q].file.data # job[p].file.data
      BY <2>2 DEF Away
    <3>2. Firm(job[q].file.data)'
      BY <1>6, <1>8, <2>2, <3>1 DEF Away
    <3>3. QED
      BY <1>6, <2>2, <3>2 DEF Away
  <2>3. ASSUME Away(p, x) PROVE Settled(x)'
    <3>1. HasMoved(p) /\ job[p].to = x
      BY <2>3 DEF Away
    <3>2. \A q \in Procs : HasMoved(q)' => x \notin {job'[q].file.data, job'[q].to}
      BY <1>6, <1>8, <3>1 DEF FilesInv, DataThere
    <3>3. QED
      BY <3>1, <3>2 DEF Settled
  <2>4. QED
    BY <1>9, <2>1, <2>2, <2>3 DEF FilesInv, Placed
<1>10. QED
  BY <1>3, <1>4, <1>5, <1>7, <1>9 DEF FilesInv, Placed
(* What a command under way has in hand.                                   *)
LEMMA InHand ==
  ASSUME FilesInv, NEW p \in Procs, pc[p] # "idle"
  PROVE  /\ job[p] \in FileJobs /\ HasInHand(p, job[p].name)
         /\ pc[p] \in RetireAts => job[p].name \in Names \ RetiredNames /\ MayRetire(job[p].name)
         /\ Wrote(p) => /\ job[p].retired \in RetiredNames
                        /\ file[job[p].retired] = Retired(p) /\ Retired(p) \in Files
<1>1. job[p] \in FileJobs
  BY DEF FilesInv, FilesTyped
<1>2. pc[p] \in RetireAts => job[p].name \in Names \ RetiredNames /\ MayRetire(job[p].name)
  BY <1>1, ApartAssumption DEF FilesInv, JobsFit, FileJobs
<1>3. Retired(p) \in Files
  BY <1>1, ApartAssumption DEF Retired, FileJobs, Files
<1>4. QED
  BY <1>1, <1>2, <1>3 DEF FilesInv, JobsFit, RetiredThere, HasInHand, Wrote, RetireAts

(* Once a retire is over, its retired profile stays.                       *)
LEMMA LeftFirm ==
  ASSUME FilesInv, NEW p \in Procs, End(p), Wrote(p), NEW x \in Paths, Retired(p).data = x,
         file'[job[p].retired] = file[job[p].retired]
  PROVE  Firm(x)'
<1>1. file'[job[p].retired] # NoFile /\ file'[job[p].retired].data = x /\ job[p].retired \in Names
  BY InHand, RetiredAreNames, NoneAssumption DEF Wrote
<1>2. ASSUME NEW q \in Procs, Wrote(q)' PROVE job'[q].retired # job[p].retired
  <2>1. q # p /\ pc'[q] = pc[q] /\ job'[q] = job[q]
    BY <1>2 DEF FilesInv, FilesTyped, End, Wrote
  <2>2. QED
    BY <1>2, <2>1 DEF FilesInv, RetiredThere, Wrote
<1>3. QED
  BY <1>1, <1>2 DEF Firm

(* A profile that stays and points at the same data stays firm.            *)
LEMMA StillFirm ==
  ASSUME FilesInv, NEW p \in Procs, End(p), NEW x \in Paths, Firm(x),
         \A n \in Names : file[n] # NoFile /\ file[n].data = x /\ (Wrote(p) => n # job[p].retired)
            => file'[n] # NoFile /\ file'[n].data = x
  PROVE  Firm(x)'
<1>1. \A q \in Procs : Wrote(q)' => Wrote(q) /\ job'[q] = job[q]
  BY DEF FilesInv, FilesTyped, End, Wrote
<1>2. QED
  BY <1>1 DEF Firm

(* A command that ends and leaves the files alone.                         *)
LEMMA CommandStops ==
  ASSUME FilesInv, NEW p \in Procs, End(p), UNCHANGED <<file, dir, kept, remade>>
  PROVE  FilesInv'
<1>1. \A x \in Paths : Firm(x) => Firm(x)'
  BY StillFirm
<1>2. ASSUME NEW x \in Paths, HasMoved(p), job[p].to = x PROVE Firm(x)'
  <2>1. Wrote(p) /\ Retired(p).data = x
    <3>1. pc[p] # "idle"
      BY <1>2 DEF HasMoved
    <3>2. job[p].file \in Files
      BY <3>1, InHand DEF FileJobs
    <3>3. QED
      BY <1>2, <3>2 DEF HasMoved, Wrote, Retired, Files
  <2>2. QED
    BY <2>1, LeftFirm
<1>3. file' = file /\ file' \in [Names -> Files \cup {NoFile}]
  BY DEF FilesInv, FilesTyped
<1>4. /\ \A n \in Names \ RetiredNames :
           /\ file'[n] # NoFile => (file[n] # NoFile /\ file'[n].data = file[n].data)
                                \/ (HasInHand(p, n) /\ file'[n].data = job[p].file.data)
           /\ ~MayRetire(n) /\ file[n] # NoFile => file'[n] # NoFile
      /\ \A q \in Procs \ {p} : Wrote(q) => file'[job[q].retired] = file[job[q].retired]
  BY <1>3
<1>5. \A x \in Paths : Firm(x) /\ (HasMoved(p) => x # job[p].file.data) => Firm(x)'
  BY <1>1
<1>6. QED
  BY <1>2, <1>3, <1>4, <1>5, CommandEnds
(* An update replaces a file by one that points at the same data.          *)
LEMMA Replaces ==
  ASSUME FilesInv, NEW p \in Procs, ReplaceFile(p)
  PROVE  FilesInv'
<1> DEFINE m == job[p].name
<1>1. /\ End(p) /\ UNCHANGED <<dir, kept, remade>> /\ pc[p] = "replacing"
      /\ file' = [file EXCEPT ![m] = job[p].file]
  BY DEF ReplaceFile, history
<1>2. job[p] \in FileJobs /\ HasInHand(p, m) /\ m \in Names \ RetiredNames /\ job[p].file \in Files
  BY <1>1, InHand, ApartAssumption DEF FilesInv, JobsFit, FileJobs
<1>3. ~Wrote(p) /\ ~HasMoved(p)
  BY <1>1 DEF Wrote, HasMoved
<1>4. file' \in [Names -> Files \cup {NoFile}]
  BY <1>1, <1>2 DEF FilesInv, FilesTyped
<1>5. file[m] # NoFile => file[m].data = job[p].file.data
  BY <1>2 DEF FilesInv, DataAgrees
<1>6. \A n \in Names : file'[n] = IF n = m THEN job[p].file ELSE file[n]
  BY <1>1 DEF FilesInv, FilesTyped
<1>7. \A n \in Names \ RetiredNames :
        /\ file'[n] # NoFile => (file[n] # NoFile /\ file'[n].data = file[n].data)
                                \/ (HasInHand(p, n) /\ file'[n].data = job[p].file.data)
        /\ ~MayRetire(n) /\ file[n] # NoFile => file'[n] # NoFile
  BY <1>2, <1>6, NoneAssumption
<1>8. \A q \in Procs \ {p} : Wrote(q) => file'[job[q].retired] = file[job[q].retired]
  BY <1>2, <1>6, InHand, RetiredAreNames DEF Wrote
<1>9. \A x \in Paths : Firm(x) => Firm(x)'
  BY <1>1, <1>2, <1>5, <1>6, StillFirm, NoneAssumption
<1>10. QED
  BY <1>1, <1>3, <1>4, <1>7, <1>8, <1>9, CommandEnds

(* A retire whose file cannot be written may leave it there.               *)
LEMMA SaveFails ==
  ASSUME FilesInv, NEW p \in Procs, SaveRetiredFails(p)
  PROVE  FilesInv'
<1> DEFINE c == job[p].retired
<1>1. End(p) /\ UNCHANGED <<dir, kept, remade>> /\ pc[p] = "checked"
  BY DEF SaveRetiredFails, history
<1>2. CASE file' = file
  BY <1>1, <1>2, CommandStops
<1>3. CASE file[c] = NoFile /\ file' = [file EXCEPT ![c] = Retired(p)]
  <2>1. c \in RetiredNames /\ c \in Names /\ Retired(p) \in Files
    BY <1>1, InHand, RetiredAreNames, ApartAssumption
    DEF FilesInv, JobsFit, RetireAts, Retired, FileJobs, Files
  <2>2. ~Wrote(p) /\ ~HasMoved(p)
    BY <1>1 DEF Wrote, HasMoved
  <2>3. file' \in [Names -> Files \cup {NoFile}]
    BY <1>3, <2>1 DEF FilesInv, FilesTyped
  <2>4. \A n \in Names : file'[n] = IF n = c THEN Retired(p) ELSE file[n]
    BY <1>3 DEF FilesInv, FilesTyped
  <2>5. \A n \in Names : file[n] # NoFile => file'[n] = file[n]
    BY <1>3, <2>4
  <2>6. \A n \in Names \ RetiredNames : file'[n] = file[n]
    BY <2>1, <2>4
  <2>7. \A q \in Procs \ {p} : Wrote(q) => file'[job[q].retired] = file[job[q].retired]
    BY <2>5, InHand, RetiredAreNames, NoneAssumption DEF Wrote
  <2>8. \A x \in Paths : Firm(x) => Firm(x)'
    BY <1>1, <2>2, <2>5, StillFirm
  <2>9. \A n \in Names \ RetiredNames :
          /\ file'[n] # NoFile => (file[n] # NoFile /\ file'[n].data = file[n].data)
                                  \/ (HasInHand(p, n) /\ file'[n].data = job[p].file.data)
          /\ ~MayRetire(n) /\ file[n] # NoFile => file'[n] # NoFile
    BY <2>6
  <2>10. QED
    BY <1>1, <2>2, <2>3, <2>7, <2>8, <2>9, CommandEnds
<1>4. QED
  BY <1>2, <1>3 DEF SaveRetiredFails

(* A retire that is done has removed the profile it was run on: the        *)
(* retired one names the data, where it is.                                *)
LEMMA Removes ==
  ASSUME FilesInv, NEW p \in Procs, RemoveOld(p)
  PROVE  FilesInv'
<1> DEFINE m == job[p].name
<1>1. /\ End(p) /\ UNCHANGED <<dir, kept, remade>> /\ pc[p] = "moved"
      /\ file[m] # NoFile /\ file' = [file EXCEPT ![m] = NoFile]
  BY DEF RemoveOld, history
<1>2. Wrote(p) /\ (HasMoved(p) <=> job[p].to # NoPath)
  BY <1>1 DEF Wrote, HasMoved
<1>3. /\ job[p] \in FileJobs /\ HasInHand(p, m) /\ m \in Names \ RetiredNames /\ MayRetire(m)
      /\ file[m].data = job[p].file.data
  BY <1>1, <1>2, InHand DEF FilesInv, DataAgrees, RetireAts
<1>4. file' \in [Names -> Files \cup {NoFile}]
  BY <1>1, <1>3 DEF FilesInv, FilesTyped
<1>5. \A n \in Names : file'[n] = IF n = m THEN NoFile ELSE file[n]
  BY <1>1 DEF FilesInv, FilesTyped
<1>6. \A q \in Procs : Wrote(q) => file'[job[q].retired] = file[job[q].retired]
  BY <1>3, <1>5, InHand, RetiredAreNames DEF Wrote
<1>7. \A n \in Names \ RetiredNames :
        /\ file'[n] # NoFile => (file[n] # NoFile /\ file'[n].data = file[n].data)
                                \/ (HasInHand(p, n) /\ file'[n].data = job[p].file.data)
        /\ ~MayRetire(n) /\ file[n] # NoFile => file'[n] # NoFile
  BY <1>3, <1>5
<1>8. Retired(p).data = IF job[p].to = NoPath THEN job[p].file.data ELSE job[p].to
  BY <1>3 DEF Retired, FileJobs, Files
<1>9. ASSUME NEW x \in Paths, Firm(x), HasMoved(p) => x # job[p].file.data PROVE Firm(x)'
  <2>1. CASE x = job[p].file.data
    BY <1>1, <1>2, <1>6, <1>8, <1>9, <2>1, LeftFirm
  <2>2. CASE x # job[p].file.data
    BY <1>1, <1>3, <1>5, <1>9, <2>2, StillFirm
  <2>3. QED
    BY <2>1, <2>2
<1>10. ASSUME NEW x \in Paths, HasMoved(p), job[p].to = x PROVE Firm(x)'
  BY <1>1, <1>2, <1>6, <1>8, <1>10, LeftFirm
<1>11. QED
  BY <1>1, <1>4, <1>6, <1>7, <1>9, <1>10, CommandEnds

(* A retire that gives up removes its own retired profile, if it can.      *)
LEMMA Undoes ==
  ASSUME FilesInv, NEW p \in Procs, Undo(p)
  PROVE  FilesInv'
<1> DEFINE c == job[p].retired
<1>1. End(p) /\ UNCHANGED <<dir, kept, remade>> /\ pc[p] = "undoing"
  BY DEF Undo, history
<1>2. CASE file' = file
  BY <1>1, <1>2, CommandStops
<1>3. CASE file' = [file EXCEPT ![c] = NoFile]
  <2>1. Wrote(p) /\ ~HasMoved(p)
    BY <1>1 DEF Wrote, HasMoved
  <2>2. c \in RetiredNames
    BY <1>1, <2>1, InHand
  <2>3. file' \in [Names -> Files \cup {NoFile}]
    BY <1>3 DEF FilesInv, FilesTyped
  <2>4. \A n \in Names : file'[n] = IF n = c THEN NoFile ELSE file[n]
    BY <1>3 DEF FilesInv, FilesTyped
  <2>5. \A n \in Names \ RetiredNames :
          /\ file'[n] # NoFile => (file[n] # NoFile /\ file'[n].data = file[n].data)
                                  \/ (HasInHand(p, n) /\ file'[n].data = job[p].file.data)
          /\ ~MayRetire(n) /\ file[n] # NoFile => file'[n] # NoFile
    BY <2>2, <2>4
  <2>6. \A q \in Procs \ {p} : Wrote(q) => job[q].retired # c /\ job[q].retired \in Names
    BY <2>1, InHand, RetiredAreNames DEF FilesInv, RetiredThere, Wrote
  <2>7. \A q \in Procs \ {p} : Wrote(q) => file'[job[q].retired] = file[job[q].retired]
    BY <2>4, <2>6
  <2>8. \A x \in Paths : Firm(x) => Firm(x)'
    BY <1>1, <2>1, <2>4, StillFirm
  <2>9. QED
    BY <1>1, <2>1, <2>3, <2>5, <2>7, <2>8, CommandEnds
<1>4. QED
  BY <1>2, <1>3 DEF Undo
(* A profile is created under a name that no retire frees and none has.    *)
LEMMA Creates ==
  ASSUME FilesInv, NEW o \in Offered, Create(o)
  PROVE  FilesInv'
<1>1. /\ file[o.name] = NoFile /\ file' = [file EXCEPT ![o.name] = o.file]
      /\ o.name \in Names \ RetiredNames /\ ~MayRetire(o.name) /\ o.file \in Files
      /\ UNCHANGED <<dir, pc, job, kept, remade>>
  BY OfferedAssumption, ApartAssumption DEF Create, history
<1>2. \A n \in Names : file'[n] = IF n = o.name THEN o.file ELSE file[n]
  BY <1>1 DEF FilesInv, FilesTyped
<1>3. FilesTyped' /\ JobsFit' /\ DataThere' /\ KeptSomewhere'
  BY <1>1 DEF FilesInv, FilesTyped, JobsFit, DataThere, HasMoved, KeptSomewhere
<1>4. DataAgrees'
  <2>1. \A p \in Procs : ~HasInHand(p, o.name)
    BY <1>1 DEF FilesInv, DataAgrees
  <2>2. \A p \in Procs, n \in Names : HasInHand(p, n)' <=> HasInHand(p, n)
    BY <1>1 DEF HasInHand
  <2>3. QED
    BY <1>1, <1>2, <2>1, <2>2 DEF FilesInv, DataAgrees, MayRetire
<1>5. RetiredThere'
  BY <1>1, <1>2, InHand, RetiredAreNames DEF FilesInv, RetiredThere, Retired, Wrote
<1>6. \A x \in Paths : Firm(x) => Firm(x)'
  BY <1>1, <1>2, NoneAssumption DEF Firm, Wrote
<1>7. ASSUME NEW x \in Paths
      PROVE  /\ Settled(x) => Settled(x)'
             /\ \A p \in Procs : Away(p, x) => Away(p, x)'
  <2>1. Settled(x) => Settled(x)'
    BY <1>1, <1>6 DEF Settled, HasMoved
  <2>2. ASSUME NEW p \in Procs, Away(p, x) PROVE Away(p, x)'
    <3>1. job[p].file.data \in Paths
      BY <2>2, InHand DEF Away, HasMoved, FileJobs, Files
    <3>2. QED
      BY <1>1, <1>6, <2>2, <3>1 DEF Away, HasMoved
  <2>3. QED
    BY <2>1, <2>2
<1>8. QED
  BY <1>1, <1>3, <1>4, <1>5, <1>7 DEF FilesInv, Placed

(* A retire writes its retired profile where there is none.                *)
LEMMA Saves ==
  ASSUME FilesInv, NEW p \in Procs, SaveRetired(p)
  PROVE  FilesInv'
<1> DEFINE c == job[p].retired
<1>1. /\ pc[p] = "checked" /\ file[c] = NoFile /\ file' = [file EXCEPT ![c] = Retired(p)]
      /\ pc' = [pc EXCEPT ![p] = IF job[p].to = NoPath THEN "moved" ELSE "saved"]
      /\ UNCHANGED <<dir, job, kept, remade>>
  BY DEF SaveRetired, Go, history
<1>2. /\ c \in RetiredNames /\ c \in Names /\ Retired(p) \in Files
      /\ p \in Retirers /\ MayRetire(job[p].name) /\ job[p] \in FileJobs
  BY <1>1, InHand, RetiredAreNames, ApartAssumption
  DEF FilesInv, JobsFit, RetireAts, Retired, FileJobs, Files
<1>3. \A n \in Names : file'[n] = IF n = c THEN Retired(p) ELSE file[n]
  BY <1>1 DEF FilesInv, FilesTyped
<1>4. /\ \A q \in Procs \ {p} : pc'[q] = pc[q]
      /\ pc'[p] = IF job[p].to = NoPath THEN "moved" ELSE "saved"
  BY <1>1 DEF FilesInv, FilesTyped
<1>5. FilesTyped' /\ JobsFit'
  <2>1. pc' \in [Procs -> FileAts] /\ file' \in [Names -> Files \cup {NoFile}]
    BY <1>1, <1>2 DEF FilesInv, FilesTyped, FileAts, RetireAts
  <2>2. QED
    BY <1>1, <1>2, <1>4, <2>1 DEF FilesInv, FilesTyped, JobsFit, RetireAts
<1>6. \A q \in Procs : /\ HasMoved(q)' <=> HasMoved(q)
                       /\ Wrote(q)' <=> q = p \/ Wrote(q)
                       /\ pc'[q] = "idle" <=> pc[q] = "idle"
  BY <1>1, <1>4 DEF HasMoved, Wrote
<1>7. DataThere' /\ KeptSomewhere'
  BY <1>1, <1>6 DEF FilesInv, DataThere, KeptSomewhere
<1>8. DataAgrees'
  <2>1. \A q \in Procs, n \in Names : HasInHand(q, n)' <=> HasInHand(q, n)
    BY <1>1, <1>6 DEF HasInHand
  <2>2. \A n \in Names \ RetiredNames : file'[n] = file[n]
    BY <1>2, <1>3
  <2>3. QED
    BY <1>1, <2>1, <2>2 DEF FilesInv, DataAgrees, MayRetire
<1>9. \A q \in Procs : Wrote(q) => job[q].retired # c /\ job[q].retired \in Names
  BY <1>1, <1>2, InHand, RetiredAreNames, NoneAssumption DEF Wrote
<1>10. RetiredThere'
  BY <1>1, <1>2, <1>3, <1>6, <1>9 DEF FilesInv, RetiredThere, Retired
<1>11. \A x \in Paths : Firm(x) => Firm(x)'
  BY <1>1, <1>2, <1>3, <1>6 DEF Firm
<1>12. ASSUME NEW x \in Paths
       PROVE  /\ Settled(x) => Settled(x)'
              /\ \A q \in Procs : Away(q, x) => Away(q, x)'
  <2>1. Settled(x) => Settled(x)'
    BY <1>1, <1>6, <1>11 DEF Settled
  <2>2. ASSUME NEW q \in Procs, Away(q, x) PROVE Away(q, x)'
    <3>1. job[q].file.data \in Paths
      BY <2>2, InHand DEF Away, HasMoved, FileJobs, Files
    <3>2. QED
      BY <1>1, <1>6, <1>11, <2>2, <3>1 DEF Away
  <2>3. QED
    BY <2>1, <2>2
<1>13. QED
  BY <1>1, <1>5, <1>7, <1>8, <1>10, <1>12 DEF FilesInv, Placed

(* A retire that has moved data or may still move it: from where, to where.*)
LEMMA MovePlaces ==
  ASSUME FilesInv, NEW p \in Procs, pc[p] = "saved" \/ HasMoved(p)
  PROVE  job[p].file.data \in Paths \ NewPaths /\ job[p].to \in NewPaths /\ job[p].to \in Paths
<1>1. pc[p] \in RetireAts /\ job[p].to # NoPath
  BY DEF FilesInv, JobsFit, HasMoved, RetireAts
<1>2. /\ job[p] \in FileJobs /\ HasInHand(p, job[p].name)
      /\ job[p].name \in Names \ RetiredNames /\ MayRetire(job[p].name)
  BY <1>1, InHand DEF RetireAts
<1>3. QED
  BY <1>1, <1>2, ApartAssumption DEF FilesInv, DataAgrees, FileJobs, Files
(* A directory that is renamed has every store where it was, or moved.     *)
LEMMA StoresMove ==
  ASSUME FilesInv, NEW from \in Paths, NEW to \in Paths, from # to,
         dir[to] = NoStore, dir' = Renamed(from, to), UNCHANGED kept
  PROVE  /\ dir' \in [Paths -> Stores \cup {NoStore}]
         /\ \A x \in Paths : dir'[x] = IF x = from THEN NoStore ELSE IF x = to THEN dir[from] ELSE dir[x]
         /\ KeptSomewhere'
<1>1. dir' \in [Paths -> Stores \cup {NoStore}]
  BY DEF FilesInv, FilesTyped, Renamed
<1>2. \A x \in Paths : dir'[x] = IF x = from THEN NoStore ELSE IF x = to THEN dir[from] ELSE dir[x]
  BY DEF FilesInv, FilesTyped, Renamed
<1>3. ASSUME NEW s \in kept PROVE \E x \in Paths : dir'[x] = s
  <2>1. PICK x \in Paths : dir[x] = s
    BY DEF FilesInv, KeptSomewhere
  <2>2. x # to
    BY <2>1, NoneAssumption DEF FilesInv, FilesTyped
  <2>3. dir'[IF x = from THEN to ELSE x] = s
    BY <1>2, <2>1, <2>2
  <2>4. QED
    BY <2>3
<1>4. ASSUME NEW x \in Paths, NEW y \in Paths, x # y, dir'[x] = dir'[y] PROVE dir'[x] = NoStore
  <2>1. \A v, w \in Paths : v # w /\ dir[v] = dir[w] => dir[v] = NoStore
    BY DEF FilesInv, KeptSomewhere
  <2>2. CASE from \in {x, y}
    BY <1>2, <1>4, <2>2
  <2>3. CASE x \notin {from, to} /\ y \notin {from, to}
    <3>1. dir'[x] = dir[x] /\ dir'[y] = dir[y]
      BY <1>2, <2>3
    <3>2. QED
      BY <1>4, <2>1, <3>1
  <2>4. CASE from \notin {x, y} /\ x = to
    <3>1. dir'[x] = dir[from] /\ dir'[y] = dir[y]
      BY <1>2, <1>4, <2>4
    <3>2. QED
      BY <1>4, <2>1, <2>4, <3>1
  <2>5. CASE from \notin {x, y} /\ y = to
    <3>1. dir'[y] = dir[from] /\ dir'[x] = dir[x]
      BY <1>2, <1>4, <2>5
    <3>2. QED
      BY <1>4, <2>1, <2>5, <3>1
  <2>6. QED
    BY <2>2, <2>3, <2>4, <2>5
<1>5. QED
  BY <1>1, <1>2, <1>3, <1>4 DEF KeptSomewhere

(* Data that a retire moves is settled where it was; from there it is the  *)
(* only one to have moved any.                                             *)
LEMMA Moves ==
  ASSUME FilesInv, NEW p \in Procs, MoveData(p)
  PROVE  FilesInv'
<1> DEFINE from == job[p].file.data
           to   == job[p].to
<1>1. /\ pc[p] = "saved" /\ pc' = [pc EXCEPT ![p] = "moved"]
      /\ dir[from] # NoStore /\ dir[to] = NoStore
      /\ dir' = Renamed(from, to)
      /\ UNCHANGED <<file, job, kept, remade>>
  BY DEF MoveData, Go, CanMove, history
<1>2. from \in Paths \ NewPaths /\ to \in NewPaths /\ to \in Paths
  BY <1>1, MovePlaces
<1>3. /\ dir' \in [Paths -> Stores \cup {NoStore}]
      /\ \A x \in Paths : dir'[x] = IF x = from THEN NoStore ELSE IF x = to THEN dir[from] ELSE dir[x]
      /\ KeptSomewhere'
  BY <1>1, <1>2, StoresMove
<1>4. \A q \in Procs : pc'[q] = IF q = p THEN "moved" ELSE pc[q]
  BY <1>1 DEF FilesInv, FilesTyped
<1>5. /\ \A q \in Procs : /\ Wrote(q)' <=> Wrote(q)
                          /\ pc'[q] = "idle" <=> pc[q] = "idle"
                          /\ HasMoved(q)' <=> q = p \/ HasMoved(q)
      /\ ~HasMoved(p)
  BY <1>1, <1>4 DEF Wrote, HasMoved, FilesInv, JobsFit
<1>6. FilesTyped' /\ JobsFit'
  <2>1. pc' \in [Procs -> FileAts]
    BY <1>1 DEF FilesInv, FilesTyped, FileAts, RetireAts
  <2>2. QED
    BY <1>1, <1>3, <1>4, <2>1 DEF FilesInv, FilesTyped, JobsFit, RetireAts
<1>7. DataAgrees' /\ RetiredThere'
  BY <1>1, <1>5 DEF FilesInv, DataAgrees, HasInHand, MayRetire, RetiredThere, Retired
<1>8. \A q \in Procs : HasMoved(q) => job[q].to # to /\ job[q].to # from /\ job[q].to \in Paths
                                      /\ job[q].file.data # to /\ job[q].file.data \in Paths
  BY <1>1, <1>2, MovePlaces DEF FilesInv, DataThere
<1>9. DataThere'
  <2>1. dir'[to] = dir[from] /\ job' = job
    BY <1>1, <1>2, <1>3
  <2>2. \A q \in Procs : HasMoved(q) => dir'[job[q].to] = dir[job[q].to]
    BY <1>3, <1>8
  <2>3. QED
    <3> SUFFICES ASSUME NEW q \in Procs, HasMoved(q)'
        PROVE  /\ dir'[job[q].to] # NoStore
               /\ \A r \in Procs : r # q /\ HasMoved(r)' => job[r].to # job[q].to
      BY <1>1 DEF DataThere
    <3>1. CASE q = p
      BY <1>1, <1>5, <1>8, <2>1, <3>1
    <3>2. CASE q # p
      BY <1>5, <1>8, <2>2, <3>2 DEF FilesInv, DataThere
    <3>3. QED
      BY <3>1, <3>2
<1>10. \A x \in Paths : Firm(x) => Firm(x)'
  BY <1>1, <1>5 DEF Firm
<1>11. ASSUME NEW s \in kept \ remade, NEW x \in Paths, dir'[x] = s
       PROVE  Settled(x)' \/ \E q \in Procs : Away(q, x)'
  <2>1. CASE x = to
    <3>1. dir[from] = s
      BY <1>2, <1>3, <1>11, <2>1
    <3>2. Settled(from)
      <4>1. \A q \in Procs : ~Away(q, from)
        BY <1>8 DEF Away
      <4>2. QED
        BY <1>2, <3>1, <4>1 DEF FilesInv, Placed
    <3>3. Away(p, x)'
      BY <1>1, <1>2, <1>3, <1>5, <1>10, <2>1, <3>2 DEF Away, Settled
    <3>4. QED
      BY <3>3
  <2>2. CASE x # to
    <3>1. x # from /\ dir[x] = s
      BY <1>3, <1>11, <2>2, NoneAssumption DEF FilesInv, FilesTyped
    <3>2. CASE Settled(x)
      BY <1>1, <1>5, <1>10, <2>2, <3>1, <3>2 DEF Settled
    <3>3. ASSUME NEW q \in Procs, Away(q, x) PROVE Away(q, x)'
      <4>1. HasMoved(q) /\ job[q].file.data # from
        BY <1>1, <3>3 DEF Away
      <4>2. dir'[job[q].file.data] = NoStore
        BY <1>3, <1>8, <3>3, <4>1 DEF Away
      <4>3. QED
        BY <1>1, <1>5, <1>8, <1>10, <3>3, <4>1, <4>2 DEF Away
    <3>4. QED
      BY <1>11, <3>1, <3>2, <3>3 DEF FilesInv, Placed
  <2>3. QED
    BY <2>1, <2>2
<1>12. QED
  BY <1>1, <1>3, <1>6, <1>7, <1>9, <1>11 DEF FilesInv, Placed

(* Data that a retire moves back is settled there.                         *)
LEMMA MovesBack ==
  ASSUME FilesInv, NEW p \in Procs, MoveBack(p)
  PROVE  FilesInv'
<1> DEFINE from == job[p].file.data
           to   == job[p].to
<1>1. /\ pc[p] = "returning" /\ pc' = [pc EXCEPT ![p] = "undoing"]
      /\ dir[to] # NoStore /\ dir[from] = NoStore
      /\ dir' = Renamed(to, from)
      /\ UNCHANGED <<file, job, kept, remade>>
  BY DEF MoveBack, Go, CanMove, history
<1>2. HasMoved(p)
  BY <1>1 DEF FilesInv, JobsFit, HasMoved
<1>3. from \in Paths \ NewPaths /\ to \in NewPaths /\ to \in Paths
  BY <1>2, MovePlaces
<1>4. /\ dir' \in [Paths -> Stores \cup {NoStore}]
      /\ \A x \in Paths : dir'[x] = IF x = to THEN NoStore ELSE IF x = from THEN dir[to] ELSE dir[x]
      /\ KeptSomewhere'
  BY <1>1, <1>3, StoresMove
<1>5. \A q \in Procs : pc'[q] = IF q = p THEN "undoing" ELSE pc[q]
  BY <1>1 DEF FilesInv, FilesTyped
<1>6. \A q \in Procs : /\ Wrote(q)' <=> Wrote(q)
                       /\ pc'[q] = "idle" <=> pc[q] = "idle"
                       /\ HasMoved(q)' <=> q # p /\ HasMoved(q)
  BY <1>1, <1>5 DEF Wrote, HasMoved
<1>7. FilesTyped' /\ JobsFit'
  <2>1. pc' \in [Procs -> FileAts]
    BY <1>1 DEF FilesInv, FilesTyped, FileAts, RetireAts
  <2>2. QED
    BY <1>1, <1>4, <1>5, <2>1 DEF FilesInv, FilesTyped, JobsFit, RetireAts
<1>8. DataAgrees' /\ RetiredThere'
  BY <1>1, <1>6 DEF FilesInv, DataAgrees, HasInHand, MayRetire, RetiredThere, Retired
<1>9. \A q \in Procs : q # p /\ HasMoved(q) => /\ job[q].to # to /\ job[q].to # from /\ job[q].to \in Paths
                                               /\ job[q].file.data # to /\ job[q].file.data \in Paths
  BY <1>2, <1>3, MovePlaces DEF FilesInv, DataThere
<1>10. DataThere'
  <2>1. \A q \in Procs : q # p /\ HasMoved(q) => dir'[job[q].to] = dir[job[q].to]
    BY <1>4, <1>9
  <2>2. QED
    <3> SUFFICES ASSUME NEW q \in Procs, HasMoved(q)'
        PROVE  /\ dir'[job[q].to] # NoStore
               /\ \A r \in Procs : r # q /\ HasMoved(r)' => job[r].to # job[q].to
      BY <1>1 DEF DataThere
    <3>1. QED
      BY <1>6, <2>1 DEF FilesInv, DataThere
<1>11. \A x \in Paths : Firm(x) => Firm(x)'
  BY <1>1, <1>6 DEF Firm
<1>12. ASSUME NEW s \in kept \ remade, NEW x \in Paths, dir'[x] = s
       PROVE  Settled(x)' \/ \E q \in Procs : Away(q, x)'
  <2>1. CASE x = from
    <3>1. dir[to] = s
      BY <1>3, <1>4, <1>12, <2>1
    <3>2. Away(p, to)
      <4>1. ~Settled(to)
        BY <1>2 DEF Settled
      <4>2. PICK q \in Procs : Away(q, to)
        BY <1>3, <3>1, <4>1 DEF FilesInv, Placed
      <4>3. QED
        BY <1>9, <4>2 DEF Away
    <3>3. Settled(x)'
      BY <1>1, <1>3, <1>6, <1>9, <1>11, <2>1, <3>2 DEF Away, Settled
    <3>4. QED
      BY <3>3
  <2>2. CASE x # from
    <3>1. x # to /\ dir[x] = s
      BY <1>4, <1>12, <2>2, NoneAssumption DEF FilesInv, FilesTyped
    <3>2. CASE Settled(x)
      BY <1>1, <1>6, <1>11, <3>2 DEF Settled
    <3>3. ASSUME NEW q \in Procs, Away(q, x) PROVE Away(q, x)'
      <4>1. q # p /\ HasMoved(q) /\ job[q].file.data # from
        BY <1>2, <3>1, <3>3 DEF Away
      <4>2. dir'[job[q].file.data] = NoStore
        BY <1>4, <1>9, <3>3, <4>1 DEF Away
      <4>3. QED
        BY <1>1, <1>6, <1>9, <1>11, <3>3, <4>1, <4>2 DEF Away
    <3>4. QED
      BY <1>12, <3>1, <3>2, <3>3 DEF FilesInv, Placed
  <2>3. QED
    BY <2>1, <2>2
<1>13. QED
  BY <1>1, <1>4, <1>7, <1>8, <1>10, <1>12 DEF FilesInv, Placed

(* store init makes a store that is none of the old ones; those a retire   *)
(* would bring back to its place are remade from then on.                  *)
LEMMA Makes ==
  ASSUME FilesInv, NEW p \in Procs, MakeDir(p), Source(p) = NoStore
  PROVE  FilesInv'
<1> DEFINE x0 == job[p].file.data
<1>1. /\ pc[p] = "making" /\ pc' = [pc EXCEPT ![p] = "made"] /\ dir[x0] = NoStore
      /\ remade' = remade \cup {dir[job[q].to] : q \in MovedFrom(x0)}
      /\ UNCHANGED <<file, job, kept>>
  BY DEF MakeDir, Go, Source
<1>2. PICK s0 \in Stores \ {dir[x] : x \in Paths} : dir' = [dir EXCEPT ![x0] = s0]
  BY DEF MakeDir, Source
<1>3. x0 \in Paths
  BY <1>1, InHand DEF FileJobs, Files
<1>4. \A x \in Paths : dir'[x] = IF x = x0 THEN s0 ELSE dir[x]
  BY <1>2 DEF FilesInv, FilesTyped
<1>5. \A q \in Procs : pc'[q] = IF q = p THEN "made" ELSE pc[q]
  BY <1>1 DEF FilesInv, FilesTyped
<1>6. \A q \in Procs : /\ Wrote(q)' <=> Wrote(q)
                       /\ pc'[q] = "idle" <=> pc[q] = "idle"
                       /\ HasMoved(q)' <=> HasMoved(q)
  BY <1>1, <1>5 DEF Wrote, HasMoved
<1>7. FilesTyped' /\ JobsFit'
  <2>1. pc' \in [Procs -> FileAts] /\ dir' \in [Paths -> Stores \cup {NoStore}]
    BY <1>1, <1>2 DEF FilesInv, FilesTyped, FileAts, RetireAts
  <2>2. QED
    BY <1>1, <1>5, <2>1 DEF FilesInv, FilesTyped, JobsFit, RetireAts
<1>8. DataAgrees' /\ RetiredThere'
  BY <1>1, <1>6 DEF FilesInv, DataAgrees, HasInHand, MayRetire, RetiredThere, Retired
<1>9. s0 \notin kept /\ s0 # NoStore
  BY <1>2, NoneAssumption DEF FilesInv, KeptSomewhere
<1>10. KeptSomewhere'
  <2>1. ASSUME NEW s \in kept PROVE \E x \in Paths : dir'[x] = s
    <3>1. PICK x \in Paths : dir[x] = s
      BY DEF FilesInv, KeptSomewhere
    <3>2. x # x0
      BY <1>1, <3>1, NoneAssumption DEF FilesInv, FilesTyped
    <3>3. QED
      BY <1>4, <3>1, <3>2
  <2>2. \A x, y \in Paths : x # y /\ dir'[x] = dir'[y] => dir'[x] = NoStore
    BY <1>2, <1>4 DEF FilesInv, KeptSomewhere
  <2>3. QED
    BY <1>1, <2>1, <2>2 DEF KeptSomewhere
<1>11. \A q \in Procs : HasMoved(q) => job[q].to \in Paths /\ job[q].file.data \in Paths
  BY MovePlaces
<1>12. DataThere'
  BY <1>1, <1>4, <1>6, <1>9, <1>11 DEF FilesInv, DataThere
<1>13. \A x \in Paths : Firm(x) => Firm(x)'
  BY <1>1, <1>6 DEF Firm
<1>14. ASSUME NEW s \in kept \ remade', NEW x \in Paths, dir'[x] = s
       PROVE  Settled(x)' \/ \E q \in Procs : Away(q, x)'
  <2>1. dir[x] = s /\ s \notin remade
    BY <1>1, <1>4, <1>9, <1>14
  <2>2. CASE Settled(x)
    BY <1>1, <1>6, <1>13, <2>2 DEF Settled
  <2>3. ASSUME NEW q \in Procs, Away(q, x) PROVE Away(q, x)'
    <3>1. job[q].file.data # x0
      <4>1. SUFFICES ASSUME job[q].file.data = x0 PROVE FALSE
        OBVIOUS
      <4>2. q \in MovedFrom(x0) /\ job[q].to = x
        BY <2>3, <4>1 DEF Away, HasMoved, MovedFrom, FilesInv, JobsFit, RetireAts
      <4>3. QED
        BY <1>1, <1>14, <2>1, <4>2
    <3>2. dir'[job[q].file.data] = NoStore
      BY <1>4, <1>11, <2>3, <3>1 DEF Away
    <3>3. QED
      BY <1>1, <1>6, <1>11, <1>13, <2>3, <3>2 DEF Away
  <2>4. QED
    BY <1>14, <2>1, <2>2, <2>3 DEF FilesInv, Placed
<1>15. QED
  BY <1>1, <1>7, <1>8, <1>10, <1>12, <1>14 DEF FilesInv, Placed
(* Candidates for a name are taken in order.                               *)
LEMMA FirstIsIn ==
  ASSUME NEW I \in SUBSET Nat, I # {}
  PROVE  First(I) \in I
<1> DEFINE R == OpToRel(<, Nat)
<1>1. IsWellFoundedOn(R, Nat)
  BY NatLessThanWellFounded
<1>2. \A x, y \in Nat : <<y, x>> \in R <=> y < x
  BY DEF OpToRel
<1> HIDE DEF R
<1>3. PICK i \in I : \A j \in I : <<j, i>> \notin R
  BY <1>1, WFMin
<1>4. ASSUME NEW j \in I PROVE i <= j
  <2>1. i \in Nat /\ j \in Nat /\ ~(j < i)
    BY <1>2, <1>3
  <2>2. QED
    BY <2>1
<1>5. QED
  BY <1>4 DEF First

(* A command begins with a profile it has read.                            *)
LEMMA Begins ==
  ASSUME FilesInv, NEW p \in Procs, NEW n \in Names, NEW a \in FileAts \ {"idle"}, NEW f \in Files,
         NEW to \in NewPaths \cup {NoPath},
         pc[p] = "idle", file[n] # NoFile, f.data = file[n].data,
         pc' = [pc EXCEPT ![p] = a],
         job' = [job EXCEPT ![p] = [name |-> n, file |-> f, to |-> to, retired |-> n]],
         UNCHANGED <<file, dir, kept, remade>>,
         \/ a = "retiring" /\ p \in Retirers /\ MayRetire(n)
         \/ a = "updating" /\ n \in InUse
         \/ a \in {"using", "making"}
  PROVE  FilesInv'
<1> DEFINE j == [name |-> n, file |-> f, to |-> to, retired |-> n]
<1>1. j \in FileJobs /\ j.name = n /\ j.file = f
  BY DEF FileJobs
<1>2. /\ a \in RetireAts => p \in Retirers /\ MayRetire(j.name)
      /\ a \in RetireAts \ {"retiring"} => j.retired \in RetiredNames
      /\ a \in {"saved", "returning"} => j.to # NoPath
      /\ a \in {"updating", "replacing"} => j.name \in InUse
  BY <1>1 DEF RetireAts
<1>3. ~Wrote(p)' /\ ~HasMoved(p)' /\ ~HasMoved(p)
  BY DEF FilesInv, FilesTyped, Wrote, HasMoved
<1>4. QED
  BY <1>1, <1>2, <1>3, CommandGoes

(* A command that has written nothing yet goes on; a retire has picked the *)
(* retired name.                                                           *)
LEMMA GoesOn ==
  ASSUME FilesInv, NEW p \in Procs, NEW a \in FileAts \ {"idle"}, NEW c \in Names,
         pc[p] # "idle", ~Wrote(p), pc' = [pc EXCEPT ![p] = a], job' = [job EXCEPT ![p].retired = c],
         UNCHANGED <<file, dir, kept, remade>>,
         \/ pc[p] \in RetireAts /\ a \in {"named", "holding", "checked"} /\ c \in RetiredNames
         \/ pc[p] = "updating" /\ a = "replacing"
         \/ a \in {"open", "made"}
  PROVE  FilesInv'
<1> DEFINE j == [job[p] EXCEPT !.retired = c]
<1>1. /\ job[p] \in FileJobs /\ j \in FileJobs /\ j.name = job[p].name /\ j.file = job[p].file
      /\ j.to = job[p].to /\ j.retired = c /\ HasInHand(p, j.name)
  BY InHand DEF FileJobs, HasInHand
<1>2. job' = [job EXCEPT ![p] = j]
  BY DEF FilesInv, FilesTyped
<1>3. /\ a \in RetireAts => p \in Retirers /\ MayRetire(j.name)
      /\ a \in RetireAts \ {"retiring"} => j.retired \in RetiredNames
      /\ a \in {"saved", "returning"} => j.to # NoPath
      /\ a \in {"updating", "replacing"} => j.name \in InUse
  BY <1>1 DEF FilesInv, JobsFit, RetireAts
<1>4. ~Wrote(p)' /\ ~HasMoved(p)' /\ ~HasMoved(p)
  BY DEF FilesInv, FilesTyped, Wrote, HasMoved, RetireAts
<1>5. QED
  BY <1>1, <1>2, <1>3, <1>4, CommandGoes

(* A retire that meets a failure it can undo.                              *)
LEMMA GivesUp ==
  ASSUME FilesInv, NEW p \in Procs, MoveDataFails(p) \/ RemoveOldFails(p)
  PROVE  FilesInv'
<1>1. PICK a \in {"undoing", "returning"} : /\ pc' = [pc EXCEPT ![p] = a]
                                            /\ a = "returning" <=> HasMoved(p)
  BY DEF MoveDataFails, RemoveOldFails, Go, HasMoved
<1>2. Wrote(p) /\ pc[p] # "idle" /\ pc[p] \in RetireAts /\ UNCHANGED <<file, dir, job, kept, remade>>
  BY DEF MoveDataFails, RemoveOldFails, Go, Wrote, RetireAts, disk, history
<1>3. /\ job[p] \in FileJobs /\ HasInHand(p, job[p].name) /\ job' = [job EXCEPT ![p] = job[p]]
      /\ a \in FileAts \ {"idle"}
  BY <1>2, InHand DEF FilesInv, FilesTyped, FileAts, RetireAts
<1>4. /\ a \in RetireAts => p \in Retirers /\ MayRetire(job[p].name)
      /\ a \in RetireAts \ {"retiring"} => job[p].retired \in RetiredNames
      /\ a \in {"saved", "returning"} => job[p].to # NoPath
      /\ a \in {"updating", "replacing"} => job[p].name \in InUse
  BY <1>1, <1>2, InHand DEF FilesInv, JobsFit, HasMoved
<1>5. HasMoved(p)' <=> HasMoved(p)
  BY <1>1, <1>2 DEF FilesInv, FilesTyped, HasMoved
<1>6. QED
  BY <1>1, <1>2, <1>3, <1>4, <1>5, CommandGoes

(* Every action is one of the steps above.                                 *)
LEMMA FilesStep == FilesInv /\ [FilesNext]_fileVars => FilesInv'
<1> SUFFICES ASSUME FilesInv, [FilesNext]_fileVars PROVE FilesInv'
  OBVIOUS
<1>1. ASSUME NEW p \in Retirers, NEW n \in Names, NEW to \in NewPaths \cup {NoPath}, BeginRetire(p, n, to)
      PROVE  FilesInv'
  <2>1. p \in Procs /\ file[n] \in Files /\ "retiring" \in FileAts \ {"idle"}
    BY <1>1 DEF BeginRetire, Procs, FilesInv, FilesTyped, FileAts, RetireAts
  <2>2. QED
    BY <1>1, <2>1, Begins DEF BeginRetire, Go, disk, history
<1>2. ASSUME NEW p \in Updaters, NEW n \in InUse, NEW x \in LogOwners, NEW k \in Settings, BeginUpdate(p, n, x, k)
      PROVE  FilesInv'
  <2> DEFINE f == [file[n] EXCEPT !.owner = x, !.settings = k]
  <2>1. p \in Procs /\ n \in Names /\ file[n] \in Files /\ "updating" \in FileAts \ {"idle"}
    BY <1>2, NamesAssumption DEF BeginUpdate, Procs, FilesInv, FilesTyped, FileAts
  <2>2. f \in Files /\ f.data = file[n].data
    BY <2>1 DEF Files
  <2>3. QED
    BY <1>2, <2>1, <2>2, Begins DEF BeginUpdate, disk, history
<1>3. ASSUME NEW p \in Users, NEW n \in InUse, BeginUse(p, n) \/ BeginInit(p, n)
      PROVE  FilesInv'
  <2>1. /\ p \in Procs /\ n \in Names /\ file[n] \in Files
        /\ {"using", "making"} \subseteq FileAts \ {"idle"}
    BY <1>3, NamesAssumption DEF BeginUse, BeginInit, Load, Procs, FilesInv, FilesTyped, FileAts
  <2>2. QED
    BY <1>3, <2>1, Begins DEF BeginUse, BeginInit, Load, Go, disk, history
<1>4. ASSUME NEW p \in Procs,
             PickName(p) \/ HoldStore(p) \/ CheckMove(p) \/ StatUpdate(p) \/ OpenStore(p)
                \/ (MakeDir(p) /\ Source(p) # NoStore)
      PROVE  FilesInv'
  <2>1. /\ pc[p] # "idle" /\ ~Wrote(p)
        /\ UNCHANGED <<file, dir, kept, remade>>
    BY <1>4 DEF PickName, HoldStore, CheckMove, StatUpdate, OpenStore, MakeDir, Go, Wrote, disk, history
  <2>2. job[p] \in FileJobs /\ job[p].retired \in Names
    BY <2>1, InHand DEF FileJobs
  <2>3. {"named", "holding", "checked", "replacing", "open", "made"} \subseteq FileAts \ {"idle"}
    BY DEF FileAts, RetireAts
  <2>4. CASE PickName(p)
    <3> DEFINE R == RetiredOf[job[p].name]
    <3>1. Free(job[p].name) # {} /\ Free(job[p].name) \subseteq DOMAIN R
      BY <2>4 DEF PickName, Free
    <3>2. First(Free(job[p].name)) \in Free(job[p].name)
      <4>1. Free(job[p].name) \subseteq Nat
        BY <2>2, <3>1, NamesAssumption DEF FileJobs
      <4>2. QED
        BY <3>1, <4>1, FirstIsIn
    <3>3. R[First(Free(job[p].name))] \in RetiredNames
      BY <2>2, <3>1, <3>2 DEF RetiredNames, FileJobs
    <3>4. QED
      BY <2>1, <2>3, <2>4, <3>3, RetiredAreNames, GoesOn DEF PickName, Go, RetireAts
  <2>5. CASE ~PickName(p)
    <3>1. job' = job /\ job' = [job EXCEPT ![p].retired = job[p].retired]
      BY <1>4, <2>2, <2>5 DEF HoldStore, CheckMove, StatUpdate, OpenStore, MakeDir, FilesInv, FilesTyped, FileJobs
    <3>2. PICK a \in {"holding", "checked", "replacing", "open", "made"} :
            /\ pc' = [pc EXCEPT ![p] = a]
            /\ \/ pc[p] \in {"named", "holding"} /\ a \in {"holding", "checked"}
               \/ pc[p] = "updating" /\ a = "replacing"
               \/ a \in {"open", "made"}
      BY <1>4, <2>5 DEF HoldStore, CheckMove, StatUpdate, OpenStore, MakeDir, Go
    <3>3. pc[p] \in {"named", "holding"} => pc[p] \in RetireAts /\ job[p].retired \in RetiredNames
      BY DEF FilesInv, JobsFit, RetireAts
    <3>4. QED
      BY <2>1, <2>2, <2>3, <3>1, <3>2, <3>3, GoesOn
  <2>6. QED
    BY <2>4, <2>5
<1>5. ASSUME NEW p \in Procs,
             NamesUsedUp(p) \/ StoreInUse(p) \/ MoveRefused(p) \/ UpdateRefused(p) \/ Close(p)
                \/ MakeJournal(p) \/ Die(p) \/ MoveBackFails(p)
      PROVE  FilesInv'
  <2>1. End(p) /\ UNCHANGED <<file, dir, kept, remade>>
    BY <1>5 DEF NamesUsedUp, StoreInUse, MoveRefused, UpdateRefused, Close, MakeJournal, Die, MoveBackFails,
                disk, history
  <2>2. QED
    BY <2>1, CommandStops
<1>6. CASE UNCHANGED fileVars
  <2>1. UNCHANGED <<file, dir, pc, job, kept, remade>>
    BY <1>6 DEF fileVars
  <2>2. QED
    BY <2>1 DEF FilesInv, FilesTyped, JobsFit, DataAgrees, HasInHand, MayRetire, RetiredThere, Wrote, Retired,
                DataThere, HasMoved, KeptSomewhere, Placed, Settled, Away, Firm
<1>7. QED
  BY <1>1, <1>2, <1>3, <1>4, <1>5, <1>6, Creates, Replaces, SaveFails, Removes, Undoes, Saves, Moves, MovesBack,
     Makes, GivesUp
  DEF FilesNext, RetireStep, FileUpdateStep, UseStep, Procs

(* Data that a profile named at the start is named by one, whatever        *)
(* retires, updates, store inits, failures and deaths interleave, unless   *)
(* its directory was made anew while a retire had it moved: what is placed *)
(* is named (retireProfile's order of writes, and its undo).               *)
THEOREM DataStaysNamed == FilesSpec => []NamedUnlessRemade
<1>1. FilesInv => NamedUnlessRemade
  <2> SUFFICES ASSUME FilesInv, NEW s \in kept \ remade PROVE Named(s)
    BY DEF NamedUnlessRemade
  <2>1. PICK x \in Paths : dir[x] = s
    BY DEF FilesInv, KeptSomewhere
  <2>2. CASE Settled(x)
    BY <2>1, <2>2 DEF Settled, Firm, Named
  <2>3. ASSUME NEW p \in Procs, Away(p, x) PROVE Named(s)
    <3>1. Wrote(p) /\ pc[p] # "idle" /\ HasMoved(p) /\ job[p].to = x
      BY <2>3 DEF Away, HasMoved, Wrote
    <3>2. job[p].file \in Files /\ job[p].retired \in Names
      BY <3>1, InHand DEF FileJobs
    <3>3. file[job[p].retired] # NoFile /\ file[job[p].retired].data = x
      BY <3>1, <3>2, InHand, NoneAssumption DEF HasMoved, Retired, Files
    <3>4. QED
      BY <2>1, <3>2, <3>3 DEF Named
  <2>4. QED
    BY <2>1, <2>2, <2>3 DEF FilesInv, Placed
<1>2. QED
  BY <1>1, InitFiles, FilesStep, PTL DEF FilesSpec
(* A lock is on a journal that is there, and goes with its command.        *)
LocksFit ==
  /\ journal \subseteq Stores
  /\ mishaps \in 0 .. MaxMishaps
  /\ holder \in [Stores -> Procs \cup {NoProc}]
  /\ \A p \in Procs : pc[p] = "idle" => job[p] = NoJob
  /\ \A s \in Stores : holder[s] # NoProc => pc[holder[s]] # "idle" /\ s \in journal

(* A command that ends gives up its lock; one that goes on may take one.   *)
LEMMA EndFits ==
  ASSUME FilesInv, LocksFit, NEW p \in Procs, End(p), journal \subseteq journal', journal' \subseteq Stores,
         Mishap \/ NoMishap
  PROVE  LocksFit'
<1>1. mishaps' \in 0 .. MaxMishaps
  BY FaultAssumption DEF LocksFit, Mishap, NoMishap
<1>2. holder' \in [Stores -> Procs \cup {NoProc}]
  BY DEF LocksFit, End
<1>3. /\ pc'[p] = "idle" /\ job'[p] = NoJob
      /\ \A q \in Procs \ {p} : pc'[q] = pc[q] /\ job'[q] = job[q]
  BY DEF FilesInv, FilesTyped, End
<1>4. \A s \in Stores : holder'[s] # NoProc => holder'[s] = holder[s] /\ holder[s] # p
  BY DEF End
<1>5. QED
  BY <1>1, <1>2, <1>3, <1>4 DEF LocksFit

LEMMA StepFits ==
  ASSUME FilesInv, LocksFit, NEW p \in Procs, NEW a \in FileAts \ {"idle"}, pc' = [pc EXCEPT ![p] = a],
         \A q \in Procs \ {p} : job'[q] = job[q],
         journal' = journal, Mishap \/ NoMishap,
         \/ holder' = holder
         \/ \E s \in journal : holder[s] = NoProc /\ holder' = [holder EXCEPT ![s] = p]
  PROVE  LocksFit'
<1>1. mishaps' \in 0 .. MaxMishaps
  BY FaultAssumption DEF LocksFit, Mishap, NoMishap
<1>2. pc'[p] # "idle" /\ \A q \in Procs \ {p} : pc'[q] = pc[q]
  BY DEF FilesInv, FilesTyped
<1>3. \A s \in Stores : holder'[s] = holder[s] \/ (holder'[s] = p /\ s \in journal)
  BY DEF LocksFit
<1>4. holder' \in [Stores -> Procs \cup {NoProc}]
  BY DEF LocksFit
<1>5. QED
  BY <1>1, <1>2, <1>3, <1>4 DEF LocksFit

LEMMA LocksStep == FilesInv /\ LocksFit /\ [FilesNext]_fileVars => LocksFit'
<1> SUFFICES ASSUME FilesInv, LocksFit, [FilesNext]_fileVars PROVE LocksFit'
  OBVIOUS
<1>1. ASSUME NEW p \in Procs, End(p), journal' = journal, Mishap \/ NoMishap PROVE LocksFit'
  BY <1>1, EndFits DEF LocksFit
<1>2. ASSUME NEW p \in Procs, NEW a \in FileAts \ {"idle"}, pc' = [pc EXCEPT ![p] = a],
             NEW j, job' = job \/ job' = [job EXCEPT ![p] = j],
             journal' = journal, holder' = holder, Mishap \/ NoMishap
      PROVE  LocksFit'
  BY <1>2, StepFits DEF FilesInv, FilesTyped
<1>3. {"retiring", "updating", "using", "making", "named", "holding", "checked", "saved", "moved", "returning",
       "undoing", "replacing", "open", "made"} \subseteq FileAts \ {"idle"}
  BY DEF FileAts, RetireAts
<1>4. ASSUME NEW o \in Offered, Create(o) PROVE LocksFit'
  BY <1>4 DEF Create, LocksFit, history
<1>5. ASSUME NEW p \in Procs,
             \/ \E n \in Names, to \in NewPaths \cup {NoPath} : BeginRetire(p, n, to)
             \/ \E n \in InUse, x \in LogOwners, k \in Settings : BeginUpdate(p, n, x, k)
             \/ \E n \in InUse : BeginUse(p, n) \/ BeginInit(p, n)
      PROVE  LocksFit'
  BY <1>2, <1>3, <1>5 DEF BeginRetire, BeginUpdate, BeginUse, BeginInit, Load, Go, NoMishap, disk, history
<1>6. ASSUME NEW p \in Procs,
             \/ PickName(p) \/ CheckMove(p) \/ SaveRetired(p) \/ MoveData(p) \/ MoveDataFails(p)
             \/ RemoveOldFails(p) \/ MoveBack(p) \/ StatUpdate(p) \/ MakeDir(p)
      PROVE  LocksFit'
  BY <1>2, <1>3, <1>6 DEF PickName, CheckMove, SaveRetired, MoveData, MoveDataFails, RemoveOldFails, MoveBack,
                          StatUpdate, MakeDir, Go, NoMishap, disk, history
<1>7. ASSUME NEW p \in Procs, HoldStore(p) \/ OpenStore(p) PROVE LocksFit'
  <2>1. PICK a \in {"holding", "open"} : pc' = [pc EXCEPT ![p] = a]
    BY <1>7 DEF HoldStore, OpenStore, Go
  <2>2. job' = job /\ journal' = journal /\ NoMishap
    BY <1>7 DEF HoldStore, OpenStore, NoMishap, disk
  <2>3. \/ holder' = holder
        \/ \E s \in journal : holder[s] = NoProc /\ holder' = [holder EXCEPT ![s] = p]
    BY <1>7 DEF HoldStore, OpenStore, HasJournal, Source
  <2>4. QED
    BY <1>3, <2>1, <2>2, <2>3, StepFits
<1>8. ASSUME NEW p \in Procs,
             \/ NamesUsedUp(p) \/ StoreInUse(p) \/ MoveRefused(p) \/ SaveRetiredFails(p) \/ RemoveOld(p)
             \/ MoveBackFails(p) \/ Undo(p) \/ UpdateRefused(p) \/ ReplaceFile(p) \/ Close(p) \/ Die(p)
      PROVE  LocksFit'
  BY <1>1, <1>8 DEF NamesUsedUp, StoreInUse, MoveRefused, SaveRetiredFails, RemoveOld, MoveBackFails, Undo,
                    UpdateRefused, ReplaceFile, Close, Die, NoMishap, disk
<1>9. ASSUME NEW p \in Procs, MakeJournal(p) PROVE LocksFit'
  <2>1. Source(p) \in Stores \cup {NoStore}
    BY <1>9, InHand DEF MakeJournal, Source, FilesInv, FilesTyped, FileJobs, Files
  <2>2. QED
    BY <1>9, <2>1, EndFits DEF MakeJournal, LocksFit, NoMishap
<1>10. CASE UNCHANGED fileVars
  BY <1>10 DEF fileVars, LocksFit
<1>11. QED
  BY <1>4, <1>5, <1>6, <1>7, <1>8, <1>9, <1>10 DEF FilesNext, RetireStep, FileUpdateStep, UseStep, Procs

(* Profile files, directories and jobs stay typed, no store is in two      *)
(* places, and a store's lock is a running command's, on a journal that is *)
(* there (holdJSONLStore and openTarget take it, the end of the command    *)
(* releases it).                                                           *)
THEOREM FilesAreTyped == FilesSpec => []FilesTypeOK
<1>1. FilesInit => LocksFit
  BY FaultAssumption DEF FilesInit, LocksFit
<1>2. FilesInv /\ LocksFit => FilesTypeOK
  <2> SUFFICES ASSUME FilesInv, LocksFit PROVE FilesTypeOK
    OBVIOUS
  <2>1. NoJob \notin FileJobs
    BY DEF NoJob, FileJobs
  <2>2. QED
    BY <2>1 DEF FilesTypeOK, FilesInv, FilesTyped, LocksFit, KeptSomewhere
<1>3. QED
  BY <1>1, <1>2, InitFiles, FilesStep, LocksStep, PTL DEF FilesSpec
=============================================================================
