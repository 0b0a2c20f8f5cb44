# capsulectl in TLA+

This directory is a verification development of `capsulectl` (`cli/`, `settlement/`, `cmd/`): TLA+
modules translated from its Go source, TLC configurations that model-check them, and TLAPS proofs of
the properties that matter most. Sources are named below by their path from the repository's root;
`PROJECT.json` gives the lines of every definition.

## 1. Inventory

`capsulectl` is a command-line program. One command is one process; nothing of it stays running.
Everything that can go wrong between two of them goes wrong through what they share: a profile's
files, its store (sqlite, mysql or jsonl), the plugin directory, the pins of the nodes a user has
checked, and a witness over HTTP.

| Component | State it keeps | Operations | What is hard | Correct when |
|---|---|---|---|---|
| Publication (`storage.go`, `command.go`, `seal.go`) | artifact store per namespace, append-only log | publish, append, purge | two writes with no transaction; lost answers; retries by several processes | the log names only kept, whole records, once each, and a caller was told the truth |
| Bundle and disclosure (`bundle.go`, `bundle_witness.go`, `page_gate.go`) | – (reads the store), appends its own disclosure | bundle, disclose, permalink | the append precedes the output | nothing is disclosed off the record |
| Store audit (`verify_store.go`) | – | verify --store | pages of a log that grows meanwhile; purged and unreadable records | no false finding, no skipped entry, the right exit code |
| Checkpoints (`checkpoint.go`, `checkpoint_fields.go`) | checkpoints of a log | checkpoint create, status | batch loop with a cap, concurrent appends and other signers | the answer covers what was there and is signed by a trusted key |
| Witness delivery (`checkpoint.go`, `witness_scrapi.go`) | one row per checkpoint and witness | deliver, retry, re-arm | two commands on one row, compare-and-set, outage against refusal | a receipt is never lost, an outage never final |
| Store ownership (`storage.go`, `profile.go`) | marker table in a sqlite store, owner in profiles | open for writing, mark, update --log | marker of two statements, guard read at open | a plugin's store is written by that plugin |
| Profiles (`profile.go`, `profile_retire.go`) | one file a profile, the directory it points at | create, update, retire, store init | unlocked files, four-step retire, a flock that moves with its directory | data stays reachable, updates are not lost |
| Commitment pins (`commitment_pin*.go`, `commitment_find.go`) | a file of pins per node key | find with --pin | lock, read, check, add, atomic save by several runs | one accepted history per node |
| Commitment discovery (`commitment_find.go`, `_verify`, `_carriers`, `_nostr`) | – | find, verify | many carriers, ranking by time, partial failure | a stale or refused commitment never displaces a good one |
| Plugins (`plugin.go`, `pluginhost.go`, `owner_dispatch.go`, `plugin_presentations.go`) | plugin roots | discover, handshake, route a command | which launcher runs, child process stopped or killed | a log is written by its owner only |
| Plugin install, remove (`plugin_install.go`) | launchers, staged files | install, remove | check then rename then sync; leftovers; two installs | what was reported is what runs |
| User-root heal (`user_root_heal.go`) | modes of directories below HOME | heal from doctor, install, cadence | judged object against opened object, host that loosens again | only tightens, only the user's own |
| Bundle verification (`verify_bundle.go`, `verify_capsule.go`, `composed.go`) | – | verify, page | order and aggregation of checks, parts bound to others | no check that failed or did not run reads as passed |
| Countersigning (`countersign*.go`) | the entries of a bundle file | request, verify | a file read, sent out and written back with no lock | what a request added stays and is what it says |
| History verification (`verify_history*.go`) | – | verify history | gaps, forks, periods, staples | a complete history, or it says what is missing |
| Deals (`deal*.go`) | – (the state is a plugin's) | cadence chain, sale, sealed report, history | tree positions, path length | chain accepted only from the witnessed checkpoint down |
| Settlement (`settlement/`, `settlement.go`) | – | build, verify | coverage of obligations | totals match what is settled |
| Contracts (`contract*.go`, `map.go`) | – | diff, map | comparison of two versions | each change reported once |
| Judge, rules, materiality (`judge.go`, `rules_checker*.go`, `materiality.go`) | pins in the profile | drift reports, calibration, pin, load at a check | files edited after they were pinned; cases counted by matching | a check runs with what was pinned, and every case is counted |
| Evidence (`evidencedoor.go`, `evidence_request_cmd.go`, `action_records.go`) | – | request, serve | HTTP | – |
| Wording (`narration.go`, `result.go`, `display.go`, `presentation_*.go`, `grade_ladder.go`) | – | – | – | formatting, left out |

`checkpointed-local-log` (log, witness rows, delivery runner, batch runner), `capsule-emit` (artifact
store) and `agent-action-capsule` (records, verification) are libraries outside this repository. They
are modelled from how `cli/` uses them, in definitions marked external, with these promises: an append
is idempotent by record and atomic, a put is idempotent by identity and does not restore a purged
record, a batch run is atomic, a witness row is written by compare-and-set on its attempts.

How they interact: a command loads a *profile*, which names a *store*; the store's *owner* decides
which process may write it; *publication* writes artifacts and log; *checkpoints* sign log prefixes;
*witness delivery* has them countersigned; *bundles* collect all of that; *audit* and *verify* read
it back; *commitments* and their *pins* do the same for somebody else's log.

## 2. How the work was ordered

In order of what a fault would cost: what is kept (publication, its audit), what makes it evidence
(checkpoints, witnesses), who may write it (store ownership, plugins, profiles, the modes of the
directories all of that is in), what a user trusts of others (commitments and their pins), and last the
verbs that judge a file and keep nothing. The first groups are concurrent and persistent: each has a
module of its own state machine, and six of the eight proof modules are about them. The last are nearly
pure: their modules have the judged file as state, the ways it is made and then changed on its way as
actions, and the verdict as operators; the property compares the verdict with a definition that does not
use the code's own route to it. The two proof modules about them came last. No module that is proved about, or that such a module uses, has a
RECURSIVE operator; folds and recursive functions are used throughout.

## 3. The modules

A definition introduced with *Mutant of* is a plausible fault of the definition it names; it is in no
specification. `PROJECT.json` pairs every property of a passing run with one that breaks it.

### Evidence and its keeping

**EvidenceLog** is the abstract specification: a record is kept, then it is on the log, then its
caller is acknowledged; a purge empties a kept record. **Publication** implements it. `store` is the
artifact store of each namespace, `log` the sequence of record identities, `pc` and `result` the
commands. One action is one durable call: `PutArtifact`, `PutRefused`, `PutFails` are the three ends of
`preparePublication`; `AppendRecord` and `AppendPending` those of the append; `Report` is the output;
`Die` kills a process anywhere. The refinement (`Refines`) reads the abstract state off the stores and
the log.

**StoreAudit** extends Publication with one auditing command: `OpenAudit`, `ScanPage`, `ReadEntry` (one
record read at a time) and `FinishAudit`, interleaved with publications and purges. What it reports is
stated against the log as it stood when it began (`start`), not against what it joined.

**WitnessDelivery** is the row of one checkpoint at one witness. `Publish`, `ReadRow`, `Rearm`,
`RearmConflict`, `Submit`, `Commit`, `CommitConflict` and `Leave` follow `DeliverWitness`; `Outcome` is
`classifySubmitError`. Time is only whether the next attempt is due (`Ripen`).

**Checkpoints** is `checkpoint create`: batches until nothing changes, at most `MaxBatches`, then the
read of the checkpoint to answer with. Commands with different signers, and a producer, share the log.

**CommitmentPins** follows one run from the lock to the save of the pins; runs may be killed, read
different logs of a node, and end without saving.

### The user's files

**StoreOwnership** has core commands (load, guard, write), plugin sessions (writer lock, open, the two
statements of the marker, write) and updates of profiles (load, check, save) on one sqlite store. A
profile without a `log_id` (`Loose`) may change its owner as long as the store does not contradict it.

**ProfileFiles** has the files: profile files, directories, journals and flocks. Retire is modelled one
file operation an action, with its undo paths, as are update (`StatUpdate`, `ReplaceFile`) and store
init (`MakeDir`, `MakeJournal`). Two history variables: `kept`, the stores that profiles named at the
start, and `remade`, those of them that a retire had moved when store init made another in their place.

**UserRootHeal** is a heal of the plugin root's path: `Walk` and `Preflight` look at one directory a
step, `Chmod` changes one, and a second `Walk` ends it. `Remode` and `Replace` are the host's. A place
and the object found there are kept apart (`at`, `mode`), so that what was judged need not be what is
changed. Left out: the rule for root (HOME two levels deep), install's check of a path that does not
exist yet, and the setgid bit a chmod drops.

**PluginRoot** has the plugin roots as directories of launchers (`dir`) and what a power loss leaves of
the per-user one (`disk`), with temporary files (`temp`) and install and remove commands (`job`), one
file operation a step: `MakeRoot`, `stageInRoot`, `Examine` (the handshake), `SearchEarlier`,
`LookAtName`, `Rename` or `Remove`, the report, `syncRootDir`, `Cleanup`. `Kill`, `PowerLoss`, `HostPut`
and `HostLoosens` come between any two. A launcher is the build in it, and may answer its handshake
late. Anything at a launcher's place that is not a regular file is taken as a directory; the parents of
a new root are synced by nobody and are not in the model; install's report of the version it replaced
is not either. **PluginDispatch** extends it with one command on a profile: `routeToOwner` finds the
keeper of its log, `delegateLog` looks again, `checkAgain` and `execPluginAs` run the launcher found, and
the process it becomes routes again.

**PolicyPins** is the profile's pinned materiality predicate and rules checker: `PinOrRemove` is
`profile update`, the host edits the files and the profile, and `PinnedMateriality`, `validate` and
`ForRole` are what a check then loads. `judge pin` and the checker's process are not modelled; a digest
may be written once or many times in a pin file, and the model has sets.

### Verdicts on files

Signatures and digests are free terms in all of these: a signature is the key and the term it was made
on, a digest is the content, and a hash chain holds exactly when contents extend one another. The AAC
verifier that checks records is external.

**StapledCards** is the history card stapled to a commitment or served: `checkpointChecks`,
`requestChecks` and `responderTrust` of a card, the rows of a commitment, and the comparison of served
copies. The findings about receipts that `verify history` adds to a card are any further ones: the two
commands are compared whether or not there are such (`CommandsAgree`). **CommitmentFind** extends it with the verb: references are read one at a time
(`ReadDocument`, `SearchRelays`, `ReadFile`), pointers followed within bounds (`FollowPointer`,
`TooMany`), and `Judge` ranks and judges what was gathered. It checks pins as they were read; their
locking is CommitmentPins. A live card's log id is taken as the compared one.

**HistoryVerdict** is `verify history`: `historyEvaluate`, the exit of the basic instance, the other
instances and the flags each takes. Three of the eight properties an envelope must pass are told apart,
a refusal's own status is not, and for the service instances `--receipt` and the anchor policy, which
the code does not read there, do nothing in the model either.

**BundleVerdict** is `verify --bundle` and the page: the claims and their aggregation
(`claimsVerdict`, `composedOutput`), the deal's text against its seal (`DealReportEntry`,
`DealSealedReport`), the members' answers and refusals, and `PageGate`. Of a history selection inside a
bundle only the status of its claim is here (`selection`); how it is reached is HistoryVerdict's matter.

**SaleBundle** has a sale's log as it grows (`RegisterThread`, `OpenThread`, `StepThread`, `CutSale`), a
copy of it (`GiveSaleCopy`) and what a carrier may do to the copy; `saleBundleEntry` is the check.

**CadenceChain** has the ticks of a cadence log, each with a tree of the deals' checkpoints; a bundle is
given away, one field of its chain changed (the named cadence log and the earlier checkpoint's signature
among them), and `cadenceClaim` checks it. `cadenceFold` takes the low
bits of a position, as the code does: `Shifted` is the position halved level by level, and `Slots` are
the positions of which nothing is left at the root.

**Countersign** has requests (`ReadBundle`, `Submit`, `WriteBack`, `Abort`) over one bundle file and
its verification (`entryState`, `summary`, `verifyExit`). There is no lock: of two requests that overlap,
the later one writes over what the earlier one added. `overlap` has just those entries, and `AddedStays`
says that no other is lost; no property denies the loss itself, since nothing in the repository does. A
request that writes to another file (`--out`, a fresh bundle) leaves this one as it is (`Abort`).

**Settlement** has leg files given one at a time, good, broken or signed again by another key, and the report:
`reports`, `settlements`, `byRecord`, `conflated`. An entry has the leg it is about, which orders the entries; `ReportOf` does
not look at it otherwise. An entry about two legs is a conflation of the two sides under one key; findings
are told of a leg as failures are, and the codes about routing fees are left out. **ContractDiff** has two contracts edited apart and
`diffContracts`; a list of grades is read as its floor, a window has a duration, a cure, a grace and
one key without a rule, a requirement that only changed its id is matched one to one, and `isSubsequence` is
the trace of its loop. An
edit gives a requirement no id that another has: the code refuses to diff such a contract. **JudgeReports** has two report files and one
of ratings, with `judgeDriftReports` and `summarizeCalibration`; the lists of an answer are sorted by case,
so they are sets of places in the files.

## 4. The runs

Components that share state are composed in one module (StoreAudit over Publication, PluginDispatch over
PluginRoot, CommitmentFind over StapledCards). Two runs hold several components that share nothing, side
by side: in `MCHostFiles` the variable `protocol`, in `MCVerdicts` the variable `verb`, is chosen at the
start and says which module steps; the variables of the others stay at one value. So such a run is the
union of the runs of its parts.

| Run | Instance | Shows |
|---|---|---|
| `publication` | 2 processes, 2 requests (one lacks an original) and 1 disclosure, 2 namespaces and a profile with none, 1 fault, fair | the log names only what is kept, answers stay true, the refinement, and a repeated request is acknowledged |
| `store_audit` | 1 publisher, 1 audit, pages of 1, 1 fault | nothing that is there is called missing, an orphan's parent is no entry the audit began with, and a clean audit vouches for all of those |
| `witness_delivery` | 2 commands, 1 death, fair | receipts stay, reached means delivered |
| `checkpoints` | 2 commands, 3 profiles with keys and trust of their own, batches of 2, 2 faults, fair | an answer covers what was there; a backlog drains |
| `commitment_pins` | 2 runs, 2 histories of one stream and a second stream, fair | one accepted history, no run waits for ever |
| `host_files` | 2 plugins, 2 sessions, 1 core command, 1 update; or 2 heals, 3 directories, 4 objects, 1 change by the host, 1 failed chmod; or 2 profile commands of any kind, 3 paths, 3 stores, 2 retired names, 1 death or failed operation | the marker stands and decides; a heal only tightens, only the user's own, and does what it can; data stays named by a profile, unless its place was made anew |
| `plugin_root` | 2 roots, 1 name, 3 builds, any two of 2 managing commands and 1 routed command under way, 1 trouble | what install and remove report is durable and is what runs; a log's command runs a checked launcher and is handed on once |
| `verdicts` | each verb over a small set of files, after at most 1 to 3 changes | what an accepting answer says is so, failures and unread parts are named |
| `store_ownership_race` | as `host_files`, the store only | violation: a store marked after a core command opened it is written |
| `profile_files` | 2 commands that retire, use or init, 3 paths, no fault | violation: two retires and a store init between them leave data no profile names |
| `profile_open` | 1 retire, 1 user, no fault | violation: a store made during a retire is moved while open |
| `sale_listing` | 1 sale of 2 threads, 2 changes | violation: a copy that withholds a registration and leaves its thread out passes |

A violation run shows a place where the code does what a sentence of the repository rules out; its
finding in `PROJECT.json` quotes that sentence. What the seventeen properties of `verdicts` say:

| Property | Of | Says |
|---|---|---|
| `VerdictIsEarned` | CommitmentFind | VERIFIED exactly when each node id has a newest commitment of its own in which nothing fails, in whatever order it came |
| `UnreadIsNamed` | CommitmentFind | a bad copy hides no genuine one, and a bound that cut something off is reported |
| `NoForkPasses` | StapledCards | no forked or shortened log passes as the log of a pin |
| `ReadersAgree` | StapledCards | two commands, and the callers a card was served to, do not disagree about it |
| `KeyDecides` | HistoryVerdict | exit 3 means just that a key is left to pin |
| `FailureIsNamed` | HistoryVerdict | a failure has findings, an acceptance a given key |
| `TextIsSealed` | BundleVerdict | deal text shown under a verdict is the sealed text |
| `PageClaimsNoMore` | BundleVerdict | a page claims what the verdict allows |
| `ListedIsWhole` | SaleBundle | a thread listed by a copy that passes is there to its latest cut |
| `ChainIsTheDeals` | CadenceChain | a chain that passes leads to this deal's checkpoint, at its very position |
| `VerifiedIsSigned` | Countersign | exit 0 means that every entry was signed by its own key over this bundle |
| `AddedStays` | Countersign | what a request added is kept, unless it came between another's reading and writing |
| `EachLegAnswers` | Settlement | each code names exactly the legs that have it, and a conflation the legs of both sides |
| `EvidenceIsLive` | Settlement | evidence rests on a sound leg of its side |
| `NonBreakingIsSafe` | ContractDiff | an evidence set that met A meets a B that is called compatible |
| `EveryCaseCounts` | JudgeReports | no case of either file is passed over |
| `ChecksAsPinned` | PolicyPins | a check runs with what was pinned, or is refused |

**Bounds, and why they are enough.** Every hazard in `PROJECT.json` is about at most two commands with a
fault between their steps; two requests, namespaces, signers, plugins, keys, histories, threads or deals
are the least that can be confused with one another.

- `MaxFaults`, `MaxDeaths`, `MaxTrouble` and `MaxHost` bound failures, deaths and the host's changes
  only; commands repeat without bound. `publication`, `witness_delivery` and `plugin_root` have one,
  since their safety is proved for any number; so has `MaxMishaps` in `host_files`. `TwoAtOnce` is the constraint of `plugin_root`: a third command waits.
- `MaxLag` (4) is what `MaxBatches` (2) batches of `Batch` (2) cover, so that a backlog uses up a
  command's budget. `MaxWait` (1) lets a run try for the lock twice. `Parent` of the audit is a cycle-free
  chain of two capsules, pages hold one entry.
- `MaxPointers` (2 for 16) and `MaxRelayEvents` (2 for 64) are exceeded by the directories and relays
  given, so that a cut happens.
- `Depth` (2 for 16) gives four positions, more than there are deals, so that empty leaves, both sides
  of a node and a position outside the tree occur; of each tree and its mirror image, and of
  two deals that change places, one is checked (`OneOfTwoTrees`). Likewise one of two threads is registered
  first (`FirstThread`), the first report names one case (`FirstReport`), and a contract has one of two version
  labels, which are only looked at for being the same (`TwoVersions`). A settlement's report looks at the
  order of the legs only among those with one id, so the ids come in one order (`LegsInOrder`).
- `MaxChanges`, `MaxHarm` (2), `MaxDamage` (3), `MaxEdits` (2), `MaxTampers` (1), `MaxContractEdits`
  (2), `MaxPolicyEdits` (2), `MaxUpdates` (2) and `MaxEditsToFile` (1) bound the changes to one file: two let one change
  hide another, three reach a member's own parts. A chain is a sequence of terms each of which is
  compared, so one change is seen or it is not.
- `MaxExchanges` (3), `MaxEntries` (1, beside those the requests add), `MaxLegs` (3: two copies of a
  record and one more), `MaxRecords` (2), `MaxSteps`, `MaxTicks`, `MaxSize` (2) and `MaxLog` (6) are
  sizes at which a file has an other to be mixed up with. `Shapes`, `Windows` and `Durations` hold one value for
  each case of the comparison, a month, thirty days and a mixed one among them; `StepLists` holds the lists
  of up to two steps, and `Ages` every age a limit of `Durations` or `Windows` may end at, whether a month has 28 days or 31,
  the day before it and the day after.
- Of ProfileFiles, names in use are separate from retired names (`InUse`): its commands are not run on a
  retired profile, which is not retired again (`RetiredOf`), and no profile is made under a name that a
  retire frees (`Offered`). `NewPaths` are where data is moved to: no profile that may be retired points
  there at the start. Section 6 says what these bounds leave out. Three paths are the least at which two retires move to places of their own; with
  two, the second always finds its new path taken. The new paths are interchangeable, as are the processes.

**Deadlock** is checked wherever something can always go on. In `verdicts` and `sale_listing` a file is
changed as often as the bound allows and judged, and in `profile_files` and `profile_open` the only profile may be retired
for good: there the system stops.

**Fairness.** A process that runs goes on (weak fairness of its steps): the operating system's
scheduler. Commands that wait for nothing end, and a lock goes with its process. Retries are the
caller's: `RetryEndsAcked`, `BacklogDrains` and `ReachedMeansDelivered` assume that a user, or the
scheduled cadence, runs the command again; for `RetryEndsAcked` it is strong fairness, since the processes
may be busy with something else each time. `ReachedMeansDelivered` and `BacklogDrains` have the rest as their premise: the witness stays
reachable, appends stop. Deaths, faults, outages and the host are never fair.

## 5. What is proved

Eight modules of proofs. All theorems are of the whole specification, for every value of its constants
that meets its named assumptions, and rest on nothing else. A module is about one component or about
several that do not share names; `PROJECT.json` lists the theorems with what each says.

- **Publication_proofs.** `EntryHasRecord` needs that a process past its put has its record kept
  (`RecordKeptFirst`) and that what it appends is whole (`JobsWhole`); `AckedIsThere` that an answer not
  yet reported is already true (`AnswerIsThere`); `OneSequencePerCapsule` that the log has no duplicates
  (`NoDuplicates`). `IInv` is their conjunction with `OnlyWholeLogged` and `TypeOK`. From it follow that
  a purged record stays purged (`PurgeIsFinal`), that a disclosure is on record before it leaves
  (`DisclosuresOnRecord`), and that `Publication` implements `EvidenceLog`, step by step. A step of an
  audit changes nothing of publication (`AuditLeavesPublication`), so that `IInv` holds beside it. What
  the audit has read stays true because the log only grows (`LogGrows`) and because an entry's record is
  kept or purged, never absent. The entries the audit began with are a start of what it has read when it
  ends, and a parent it has not joined is none of those (`OrphansAreReal`); when all are joined and none
  failed, each is vouched for (`CleanAuditsVouch`); together they are `AuditAnswersForStart`.
- **WitnessDelivery_proofs.** The compare-and-set is all that keeps two commands apart. It buys
  `SnapCurrent`: a command that nobody overtook still has in hand the verdict that is in the row. Hence
  no receipt is overwritten, no outage is final, and what was shown as verified is there.
- **Checkpoints_proofs.** What a command owes is among what no checkpoint covers (`OwedIsUncovered`), and
  a command told "no change" owes nothing from then on (`NothingOwed`), whoever cut the checkpoint.
- **CommitmentPins_proofs.** One run at a time holds the lock (`MutualExclusion`), so what a run read is
  current when it saves (`ReadIsCurrent`), a pin stands, and all VERIFIED reports are one history.
- **HostFiles_proofs.** Of StoreOwnership: `MarkStep` needs no invariant, since no statement touches a
  marker's row that is there. On it rests what sessions, cores and updates know when they act
  (`LockHeld`, `SessionKnows`, `CoreKnows`, `UpdateKnows`). So a core that opens a marked store is
  refused; one that opened it before is the counterexample of `store_ownership_race`. Of UserRootHeal:
  what a heal knows of a directory is about the object it opened, not the place it found it at
  (`Sound`), and therefore stays so whatever the host puts there. `HealsWhatItCan` needs more
  (`KnowsInv`): of the places a heal has passed, each is trusted or will be opened and tightened. That
  outlasts the other heals because no step of a heal adds a write to any mode (`Tighter`), so trust
  once there lasts (`TrustLasts`), and what a heal opened does not become writable before it comes back.
  Of ProfileFiles: `NamedUnlessRemade` says nothing of who may still undo what, and is far from inductive.
  `FilesInv` adds where each store that was named at the start is (`Placed`): at a path that a profile
  names which no retire under way will remove (`Firm`), and to or from which none has data moved
  (`Settled`); or where one retire has moved it, none other having moved data from the same place, which
  is empty and still has such a profile (`Away`), so that the data is named if it stays and if it comes
  back. Every command that has a profile in hand agrees with its file on the data directory
  (`DataAgrees`), a retire's own retired profile is there until it removes it (`RetiredThere`), and so is
  what it moved (`DataThere`). The one step that breaks `Away` is a store init at the place the data came
  from, and then the data is `remade`.
- **PluginDispatch_proofs.** A command that changed its name knows, until another changes it, what is
  there and, once synced, what a power loss leaves (`Lasts`); a temporary file belongs to a command that
  is not done with it (`Tidy`). `CmdInv` is the same for the routed command: what it hands on to goes by the
  owner's name it read, so that the process it becomes does not hand on again (`HandedOnOnce`), and what it
  runs was checked unless it changed since. `ReportHolds` rests on `ToldInv`,
  what a command saw of the roots before its own and has not been told is void, and on the search having
  one winner (`OneWinner`): the place of a root in the search is its first.
- **CommitmentFind_proofs.** `FindInv` says that a run gathers each document once and that its verdict
  is the one these documents give; a run ranks a commitment current exactly when it is the newest of its
  node (`CurrentIsNewest`), however they were ordered when they came. `NoForkPasses` holds because a
  chain whose checkpoints each extend the one before has every content as a start of every later one
  (`ChainGrows`), for chains of any length. `ReadersAgree` is about rows alone: of any card, nothing is
  absent in a row that the two commands count differently (`StapleStatuses`).
  `UnreadIsNamed`: of the events of an id, one that is genuine is kept wherever it came (`GenuineIsKept`),
  so what it holds is listed to be followed (`HandedIsListed`); `ReadInv` says that what was handed over is
  gathered or still listed, and that what a bound cut is in the row being made or in one that is there.
- **Verdicts_proofs**, a section for each verb. `ChecksAsPinned`: a profile nobody edited is the one that
  was asked for (`AsAsked`), and edits to the pinned files do not touch it. `AddedStays`: while the file
  is not edited, requests hold bundles of its digest, and what no other wrote over is in it (`Attached`);
  `VerifiedIsSigned`, `KeyDecides` and `PageClaimsNoMore` need no invariant, they hold of every file.
  `FailureIsNamed`: an instance with one answer keeps it. `TextIsSealed`: some records of a copy
  stay however it is rewritten (`CopyOf`), and what its producer signed for this deal is one of the
  deal's reports (`SealedHere`). `EvidenceIsLive`: each leg is of the known contents, for any keys and
  any number of files (`LegsInv`). `EachLegAnswers`: an entry is that of the first leg of a record
  (`FirstIsRead`), so entries of a code and records of it have the same numbers, and the n-th names the n-th
  (`Numbered`, `EntryNamesRecord`). `EveryCaseCounts`: so many records of a file are of so many cases
  (`CasesCount`), and what is in neither of two lists twice is counted once. `ListedIsWhole`: a copy shows only records of the sale's log
  (`SaleInv`), and a cut that can be read is the latest (`CutReadIsLatest`). `ChainIsTheDeals`: a path as
  long as the tree is deep that folds to its root starts at the very leaf of that position, from the root
  down (`RootHasNoOther`), and a path given out leads there, from the leaf up (`PathLeadsToRoot`), at
  any depth. `NonBreakingIsSafe`: a diff without a breaking change has the same requirements on both sides
  (`PartsAreAllowed`), and rule by rule what is not breaking asks for no more: a limit that is not shorter
  lasts as long whether a month has 28 days or 31 (`LongerLasts`), a floor is not above the old one
  (`GradesHold`), and the steps the loop of `isSubsequence` matched are in order, each at the first place
  where it got so far (`SubsequenceIsIn`), so what holds the longer list holds the shorter
  (`StepsWithin`). The invariant is that the fields the rules read have the form the schema gives
  (`FormedInv`).

**Induction.** A theorem that takes an operator as parameter, as the library's induction rules do, is out
of the provers' reach. What is used in its place is that a set of naturals with a member has a least one
(`Least`, `LeastOf`, from `WFMin` and `NatLessThanWellFounded`): the set of the counterexamples has none.
`LevelsJoin`, `ShiftedHalves` and `FoldTakesPath` show in this way that a recursive function of the model
exists and what its equations are, and `RootHasNoOther` and `ChainGrows` reason along it.

**Assumptions.** They are about names being apart (`CoreAssumption`, `SessionsAssumption`, `NoPin`,
`ManagerAssumption`, `KeepAssumption`, `DamageAssumption`, `JudgeAssumption`, the `Absent` of `HostAssumption`), bounds being
numbers, and the shape of data: `ApartAssumption` states the bounds of ProfileFiles (section 4), `ContainsAssumption` (a checkpoint contains itself), `PathAssumption`
and `PinFileAssumption` (each role of a pin file has a pack and digests) are typical. `MadeOfAssumption`,
`MadeAssumption`, `PickedAssumption` and `SaleAssumption` say that there is a key, a log, a party, a
report to make a file of, and that picks and threads are finite. `RelaysAssumption`: the id of a genuine
event is the digest of what it says, so two of one id are one, and an entry that is well formed and
carries its commitment has one. `ContractAssumption` and `MissingAssumption`: durations and
ages are counted in whole months and days, and an absent member is no value.

Several invariants are proved and listed in no run, because they are parts of an inductive invariant:
the `TypeOK` of the five modules it is proved for, `FilesTypeOK`, `EmittedIsOnRecord`, `PurgedStaysPurged`, `AnswerIsTrusted`, `LateCoreRefused`,
`AuditIsComplete`, `VerifiedStands`, `FailedForGood` and `OutageIsNotFinal`. `PluginRoot`'s
`PluginTypeOK` is neither proved nor in a run; TLC finds it true when it is added to `MCPluginDispatch.cfg`.

Proving brought out where the models had followed the code too loosely: a commitment whose `issued_at` is
no time is refused before it is ranked (`Valid`, `cli/commitment_verify.go:83`), and a thread of a sale's
copy that is neither present, withheld nor never opened fails it (`saleBundleEntry`).

## 6. What is only model-checked, and what is not modelled

Liveness (`RetryEndsAcked`, `ReachedMeansDelivered`, `BacklogDrains`, `RunEnds`) stays with TLC: TLAPS
has no rule here for fairness with ENABLED.

`NamedUnlessRemade` is proved, within bounds that the code does not set (`ApartAssumption`) and with an
exception that `profile_files` shows to be needed (`NamedStays`): while a first retire has its data
moved, store init makes a new store where it was; a second retire of the same profile moves that one to
a third path and frees the name; the first then finds nothing to remove, moves its data back, and takes
its own retired profile away, the only one that named the data. The bounds matter as well. Were a retired
profile retired again, one retire's undo could remove the file that another has put under the same name.
Could a profile that points at a path not yet there be retired while another's data is moved there, a
retire might move back a store that is not the one it moved, and leave that one without a profile; TLC
finds this with five paths, three profiles and two commands at a time when the last conjunct of `ApartAssumption`
is dropped. And a profile made under a name that one retire freed is removed by another retire of that
name still under way (`RemoveOld`, `cli/profile_retire.go:111`); the bound on `Offered` leaves it out.

The library components outside the repository are modelled by the promises section 1 lists.
Beside the abstractions each module names in section 3:

- **Sealing** of a request into a record, canonical bytes, encodings: data. A record is its identity.
- **Five of the eight** must-pass properties of an envelope, `verify_capsule.go`'s reading of one
  capsule and the clock tolerance: conjuncts of the same aggregation, with no order among them.
- **Retirement and migration of logs**, the commands that make and publish a commitment, a profile's
  field validation and prompts, `map`, and the plugin's own presentations: no state another component
  waits for.
- **Contents of a rules checker.** A checker's digest is recorded (`cli/doctor.go:173` prints it) and compared
  by nothing in the code, so `SwapChecker` shows that the pins do not depend on it; the form of its file
  (kind, timeout, command, hex, roots) is one `formed`.
- **Rates** are rounded in exact integers (`rateMicros`) where the code divides floats: the two agree for every
  number of cases up to 128, and the model has at most two.
- **Moving data** is refused where anything is at the new path, an empty directory included (`CanMove`): Go's
  `os.Rename` does not replace a directory.
- **Discovery of effects, the evidence door, presentations and wording, doctor, entry points**: scans,
  HTTP transport, formatting and process start. What they decide is decided in a module above.
