---------------------------- MODULE PluginDispatch ----------------------------
(***************************************************************************)
(* A command on a profile whose log may be a plugin's: it is run here, or  *)
(* handed to the plugin that keeps the log (cli/owner_dispatch.go,         *)
(* cli/pluginhost.go), which is found anew, checked again and run          *)
(* (cli/plugin.go) while the plugin roots change under it.  A plugin is a  *)
(* capsulectl too, so the command routes again in the process it runs as.  *)
(***************************************************************************)
EXTENDS PluginRoot

VARIABLES
  owner,   \* the plugin that keeps the selected profile's log, or Nobody
  cmd      \* the command: where it is, the process it runs in, what it read

vars == <<pluginVars, owner, cmd>>

Nobody     == "nobody"
TheCore    == [name |-> "core", keeps |-> {}]
Process(b) == [name |-> b.name, keeps |-> b.keeps]

Command(step, early, self, hops, swapped) ==
  [pc |-> step, early |-> early, self |-> self, hops |-> hops, read |-> Nobody,
   i |-> 1, found |-> "none", stale |-> FALSE, swapped |-> swapped]
NoCommand == Command("idle", FALSE, TheCore, 0, FALSE)

Init ==
  /\ PluginInit
  /\ owner \in Names \cup {Nobody}
  /\ cmd = NoCommand

----------------------------------------------------------------------------
(* A log's owner is fixed once it is set (profile update --log).           *)
DeclareOwner(n) ==
  /\ owner = Nobody
  /\ owner' = n
  /\ UNCHANGED <<pluginVars, cmd>>

(* early: the command takes its raw line (ownerRouted), as bundle does.    *)
BeginCommand(early) ==
  /\ cmd.pc \in {"idle", "served"}
  /\ cmd' = Command(IF early THEN "route" ELSE "run", early, TheCore, 0, FALSE)
  /\ UNCHANGED <<pluginVars, owner>>

Serves(self, o) == o = Nobody \/ o \in self.keeps
Discover        == [cmd EXCEPT !.pc = "discover", !.read = owner]

Served          == [NoCommand EXCEPT !.pc = "served"]

(* Before the flags are parsed: the profile is loaded for its owner alone. *)
routeToOwner ==
  /\ cmd.pc = "route"
  /\ cmd' = IF Serves(cmd.self, owner) \/ owner = cmd.self.name
            THEN [cmd EXCEPT !.pc = "run"] ELSE Discover
  /\ UNCHANGED <<pluginVars, owner>>

(* Mutant of delegateLog: the owner's process without the backend is not   *)
(* told from any other.                                                    *)
delegateOn ==
  /\ cmd.pc = "run"
  /\ cmd' = IF Serves(cmd.self, owner) THEN Served ELSE Discover
  /\ UNCHANGED <<pluginVars, owner>>

(* Then the command loads the profile it runs on, and asks again.          *)
delegateLog ==
  /\ cmd.pc = "run"
  /\ cmd' = IF Serves(cmd.self, owner) THEN Served
            ELSE IF owner = cmd.self.name THEN NoCommand
            ELSE Discover
  /\ UNCHANGED <<pluginVars, owner>>

(* The search, root by root: the first launcher of the name accepted.      *)
discoverPlugins ==
  /\ cmd.pc = "discover"
  /\ cmd.i <= Len(Roots)
  /\ \E accepted \in Accepts(Roots[cmd.i], cmd.read) :
       cmd' = IF accepted THEN [cmd EXCEPT !.pc = "check", !.found = Roots[cmd.i]]
              ELSE [cmd EXCEPT !.i = @ + 1]
  /\ UNCHANGED <<pluginVars, owner>>

(* missingPluginError: none was accepted.                                  *)
missingPlugin ==
  /\ cmd.pc = "discover"
  /\ cmd.i > Len(Roots)
  /\ cmd' = NoCommand
  /\ UNCHANGED <<pluginVars, owner>>

(* Mutant of checkAgain: the path discovery judged is taken as it was.     *)
checkNothing ==
  /\ cmd.pc = "check"
  /\ cmd' = [cmd EXCEPT !.pc = "exec"]
  /\ UNCHANGED <<pluginVars, owner>>

(* execPluginAs: the path is checked again, then the file there is run.    *)
checkAgain ==
  /\ cmd.pc = "check"
  /\ cmd' = IF CheckedTrustedPath(cmd.found, cmd.read) THEN [cmd EXCEPT !.pc = "exec"] ELSE NoCommand
  /\ UNCHANGED <<pluginVars, owner>>

(* A file that is gone does not start; one that is no capsulectl ends with *)
(* a code or a signal of its own, as any plugin may.                       *)
Starts(f) == IF f = Absent THEN FALSE ELSE f.regular

execPluginAs ==
  /\ cmd.pc = "exec"
  /\ LET there == dir[cmd.found][cmd.read] IN
       \/ ~Starts(there) /\ cmd' = NoCommand
       \/ /\ Starts(there)
          /\ cmd' = Command(IF cmd.early THEN "route" ELSE "run", cmd.early,
                            Process(there.build), cmd.hops + 1, cmd.swapped)
  /\ UNCHANGED <<pluginVars, owner>>

PluginEnds ==
  /\ cmd.hops > 0
  /\ cmd.pc \in {"route", "run", "discover"}
  /\ cmd' = NoCommand
  /\ UNCHANGED <<pluginVars, owner>>

(* What of the roots changes while a launcher waits to be run is noted, and *)
(* that its file became another since the handshake; a power loss ends the *)
(* command as well.                                                        *)
Noted ==
  cmd' = [cmd EXCEPT
    !.stale   = @ \/ (cmd.pc = "exec" /\ <<root', dir'>> # <<root, dir>>),
    !.swapped = @ \/ (/\ cmd.pc \in {"check", "exec"}
                      /\ dir'[cmd.found][cmd.read] # dir[cmd.found][cmd.read])]

RootsChange ==
  /\ \/ Host /\ Noted
     \/ PowerLoss /\ cmd' = NoCommand
     \/ \E m \in Managers : Manage(m) /\ Noted
  /\ UNCHANGED owner

Next ==
  \/ RootsChange
  \/ \E n \in Names : DeclareOwner(n)
  \/ \E early \in BOOLEAN : BeginCommand(early)
  \/ routeToOwner \/ delegateLog \/ discoverPlugins \/ missingPlugin
  \/ checkAgain \/ execPluginAs \/ PluginEnds

Spec == Init /\ [][Next]_vars

----------------------------------------------------------------------------
(* A command is handed on once: the process it is handed to goes by the    *)
(* owner's name, and serves it or gives up, so that no launchers start one *)
(* another for ever over the same log (cli/pluginhost.go:109).  Only a     *)
(* file put in a launcher's place between its handshake and its start can  *)
(* hand the command on again.                                              *)
ForwardedOnce == cmd.hops > 1 => cmd.swapped

(* A launcher that is run was trusted when it was checked last, right      *)
(* before: what changed between discovery and dispatch is seen.            *)
RunsTrusted ==
  [][cmd.pc = "exec" /\ cmd'.hops > cmd.hops /\ ~cmd.stale
       => CheckedTrustedPath(cmd.found, cmd.read)]_vars

=============================================================================
