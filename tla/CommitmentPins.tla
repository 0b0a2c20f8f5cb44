---------------------------- MODULE CommitmentPins ----------------------------
(***************************************************************************)
(* Trust on first use in `commitment find` (cli/commitment_pin.go,         *)
(* judgeNode and pinChecks of cli/commitment_find.go): the pin file of one *)
(* node key.  Several runs judge commitments of that node at once.  Each   *)
(* takes the key's flock, reads the whole file, checks the streams of its  *)
(* commitment against it, adds the streams it sees first, and writes the   *)
(* whole file back, but only when its verdict is VERIFIED.                 *)
(***************************************************************************)
EXTENDS Naturals

CONSTANTS
  Procs,        \* running find commands
  Streams,
  Checkpoints,  \* checkpoints a chain may end in
  Contains,     \* <<c, d>>: a chain that ends in c contains d (extendsPin)
  NoPin,        \* the stream is not pinned, or not in the commitment
  Commitments,  \* what carriers hold for this node key
  MaxWait       \* tries for the lock: 5 seconds in steps of 100 ms

ASSUME PinAssumption == NoPin \notin Checkpoints
ASSUME WaitAssumption == MaxWait \in Nat
ASSUME ContainsAssumption ==
  /\ Contains \subseteq Checkpoints \X Checkpoints
  /\ \A c \in Checkpoints : <<c, c>> \in Contains

(* A pin file, and the last checkpoint of each stream a commitment staples *)
Pins == [Streams -> Checkpoints \cup {NoPin}]

(* witnessed: the label derived from the asker's policy.  sound: no other  *)
(* check of judgeNode failed (staples, live answer, refuse-unwitnessed).   *)
ASSUME CommitmentsAssumption ==
  Commitments \subseteq [last : Pins, witnessed : BOOLEAN, sound : BOOLEAN]

VARIABLES
  pins,      \* the pin file
  pc,
  judged,    \* the commitment each run judges
  read,      \* the pins it read
  waited,    \* its failed tries for the lock
  verified   \* history: commitments reported VERIFIED

vars == <<pins, pc, judged, read, waited, verified>>

Empty == [s \in Streams |-> NoPin]

Init ==
  /\ pins   = Empty
  /\ pc     = [p \in Procs |-> "idle"]
  /\ judged \in [Procs -> Commitments]
  /\ read   = [p \in Procs |-> Empty]
  /\ waited = [p \in Procs |-> 0]
  /\ verified = {}

Goto(p, at) == pc' = [pc EXCEPT ![p] = at]

(* The end of a run, which the system's release of the flock goes with.    *)
Leave(p) ==
  /\ Goto(p, "idle")
  /\ read'   = [read EXCEPT ![p] = Empty]
  /\ waited' = [waited EXCEPT ![p] = 0]

HoldsLock(p) == pc[p] \in {"locked", "read", "saved"}

(* judgeNode up to loadPins: the commitment is ranked current, and its     *)
(* staples and the node's live answer are checked, before the lock.        *)
Find(p, c) ==
  /\ pc[p] = "idle"
  /\ judged' = [judged EXCEPT ![p] = c]
  /\ Goto(p, "locking")
  /\ UNCHANGED <<pins, read, waited, verified>>

(* Mutant of Acquire: the file is read without its lock.                   *)
AcquireNothing(p) ==
  /\ pc[p] = "locking"
  /\ Goto(p, "locked")
  /\ UNCHANGED <<pins, judged, read, waited, verified>>

Acquire(p) ==
  /\ pc[p] = "locking"
  /\ \A q \in Procs : ~HoldsLock(q)
  /\ Goto(p, "locked")
  /\ UNCHANGED <<pins, judged, read, waited, verified>>

(* Mutant of Retry: it waits for ever.                                     *)
RetryForever(p) ==
  /\ pc[p] = "locking"
  /\ \E q \in Procs : HoldsLock(q)
  /\ waited[p] < MaxWait
  /\ UNCHANGED vars

Retry(p) ==
  /\ pc[p] = "locking"
  /\ \E q \in Procs : HoldsLock(q)
  /\ waited[p] < MaxWait
  /\ waited' = [waited EXCEPT ![p] = @ + 1]
  /\ UNCHANGED <<pins, pc, judged, read, verified>>

GiveUp(p) ==
  /\ pc[p] = "locking"
  /\ \E q \in Procs : HoldsLock(q)
  /\ waited[p] = MaxWait
  /\ Leave(p)
  /\ UNCHANGED <<pins, judged, verified>>

LoadPins(p) ==
  /\ pc[p] = "locked"
  /\ read' = [read EXCEPT ![p] = pins]
  /\ Goto(p, "read")
  /\ UNCHANGED <<pins, judged, waited, verified>>

(* pinChecks: every stream of the commitment that is pinned must contain   *)
(* its pin, whatever the label; one seen first is pinned only when no      *)
(* witness vouches for the node.                                           *)
Consistent(c, known) ==
  \A s \in Streams :
    c.last[s] # NoPin /\ known[s] # NoPin => <<c.last[s], known[s]>> \in Contains

Added(c, known) ==
  [s \in Streams |-> IF known[s] = NoPin /\ ~c.witnessed THEN c.last[s] ELSE known[s]]

Passes(p) == judged[p].sound /\ Consistent(judged[p], read[p])

NotVerified(p) ==
  /\ pc[p] = "read"
  /\ ~Passes(p)
  /\ Leave(p)
  /\ UNCHANGED <<pins, judged, verified>>

(* save: the whole file, written beside and renamed over.                  *)
Save(p) ==
  /\ pc[p] = "read"
  /\ Passes(p)
  /\ pins' = Added(judged[p], read[p])
  /\ Goto(p, "saved")
  /\ UNCHANGED <<judged, read, waited, verified>>

Report(p) ==
  /\ pc[p] = "saved"
  /\ verified' = verified \cup {judged[p]}
  /\ Leave(p)
  /\ UNCHANGED <<pins, judged>>

(* A run is killed, or a read or write of the pin file fails: the lock goes *)
(* with it and no verdict is given.                                        *)
Die(p) ==
  /\ pc[p] # "idle"
  /\ Leave(p)
  /\ UNCHANGED <<pins, judged, verified>>

----------------------------------------------------------------------------
Step(p) ==
  \/ Acquire(p) \/ Retry(p) \/ GiveUp(p) \/ LoadPins(p)
  \/ NotVerified(p) \/ Save(p) \/ Report(p)

Next == \E p \in Procs : (\E c \in Commitments : Find(p, c)) \/ Step(p) \/ Die(p)

Spec == Init /\ [][Next]_vars

FairSpec == Spec /\ \A p \in Procs : WF_vars(Step(p))

----------------------------------------------------------------------------
TypeOK ==
  /\ pins \in Pins
  /\ pc \in [Procs -> {"idle", "locking", "locked", "read", "saved"}]
  /\ judged \in [Procs -> Commitments]
  /\ read \in [Procs -> Pins]
  /\ waited \in [Procs -> 0..MaxWait]
  /\ verified \subseteq Commitments

(* cli/commitment_pin.go:46 "two runs cannot both read 'no pin', accept    *)
(* different logs and overwrite each other": no run writes back a file it  *)
(* read before another run's write.                                        *)
ReadIsCurrent == \A p \in Procs : pc[p] = "read" => read[p] = pins

(* The first checkpoint pinned for a stream is the pin for ever: no run    *)
(* replaces it, and no run's write loses what another run pinned.          *)
PinStands ==
  [][\A s \in Streams : pins[s] # NoPin => pins'[s] = pins[s]]_vars

(* All that is ever reported VERIFIED of an unwitnessed stream is one      *)
(* history: each chain contains the one checkpoint that is pinned, however *)
(* the runs that judged them overlapped.                                   *)
Follows(c) ==
  \A s \in Streams :
    c.last[s] # NoPin /\ ~c.witnessed =>
      pins[s] # NoPin /\ <<c.last[s], pins[s]>> \in Contains

OneHistory == \A c \in verified : Follows(c)

(* The inductive invariant: one run holds the lock, and what it saved      *)
(* stands when it reports.                                                 *)
MutualExclusion == \A p, q \in Procs : HoldsLock(p) /\ HoldsLock(q) => p = q
SavedFollows    == \A p \in Procs : pc[p] = "saved" => Follows(judged[p])

IInv == TypeOK /\ MutualExclusion /\ ReadIsCurrent /\ SavedFollows /\ OneHistory

(* A run ends although others hold the lock or keep taking it: it waits a  *)
(* bounded time, and a killed run leaves no lock behind.                   *)
RunEnds == \A p \in Procs : pc[p] # "idle" ~> pc[p] = "idle"
=============================================================================
