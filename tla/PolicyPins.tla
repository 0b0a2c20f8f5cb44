------------------------------ MODULE PolicyPins ------------------------------
(***************************************************************************)
(* The policies a profile pins (cli/materiality.go, cli/rules_checker.go   *)
(* and the profile's part of both in cli/profile.go): the predicate that   *)
(* says which of the agent's picks pause a check, and the rules checker    *)
(* with the rulesets it may report, by role.  The files they name change   *)
(* after they were pinned, built-in predicates with the release, and the   *)
(* profile's own file may be edited by hand.                               *)
(***************************************************************************)
EXTENDS Naturals, Sequences, FiniteSets

CONSTANTS
  PredicateRefs,    \* files and built-ins that hold predicates
  BuiltIns,         \* those that ship with the program
  Predicates,       \* documents: [form, material]; each is its own digest
  Attributes,       \* what an agent picks: [prefix, name, value]
  PinFiles,         \* pin files of a rules checker: [formed, digests, roles]
  RulesRoles,
  Digests,
  MaxPolicyEdits,   \* changes by the host
  MaxUpdates,       \* profile updates by the user
  Keep,             \* an update flag that is not given
  None              \* nothing pinned, no document

ASSUME PolicyAssumption == BuiltIns \subseteq PredicateRefs /\ MaxPolicyEdits \in Nat /\ MaxUpdates \in Nat
ASSUME PinFileAssumption ==
  \A pin \in PinFiles : \A r \in DOMAIN pin.roles : DOMAIN pin.roles[r] = {"pack", "digests"}
ASSUME KeepAssumption ==
  /\ Keep # None
  /\ None \notin PredicateRefs /\ Keep \notin PredicateRefs
  /\ None \notin PinFiles /\ Keep \notin PinFiles

VARIABLES
  held,       \* the document each reference holds
  checker,    \* the checker's executable: its digest, or None
  profile,    \* the profile as saved
  wanted,     \* what the user's updates asked for, and of what files
  spent       \* updates and changes so far

policyVars == <<held, checker, profile, wanted, spent>>

------------------------------------------------------------------------------
(* A predicate document: an attribute that some matcher matches is         *)
(* material, unless the matcher excepts its value.                         *)
matches(m, a) ==
  /\ m.prefix = a.prefix
  /\ m.name # None => m.name = a.name
  /\ m.words # {} => \E w \in m.words : w \in a.words
  /\ a.value \notin m.except

(* Exactly one of a field and a prefix, and words only beside a prefix.    *)
WellFormed(m) == m.name # None => m.words = {}

ParseMaterialityPredicate(doc) ==
  doc # None /\ doc.form /\ \A i \in DOMAIN doc.material : WellFormed(doc.material[i])

IsMaterial(predicate, a) ==
  predicate = None \/ \E i \in DOMAIN predicate.material : matches(predicate.material[i], a)

(* PinMateriality: the reference and the digest of what it holds.          *)
Loaded(ref) == ParseMaterialityPredicate(held[ref])

(* PinnedMateriality: [refused, predicate] of a check.                     *)
refused == [refused |-> TRUE, predicate |-> None]

(* Mutant of PinnedMateriality: what the reference holds now.              *)
PinnedMaterialityNow(p) ==
  CASE p.predicate = None -> [refused |-> FALSE, predicate |-> None]
    [] p.predicate # None /\ Loaded(p.predicate) -> [refused |-> FALSE, predicate |-> held[p.predicate]]
    [] OTHER -> refused

PinnedMateriality(p) ==
  CASE p.predicate = None /\ p.digest = None -> [refused |-> FALSE, predicate |-> None]
    [] p.predicate # None /\ p.digest # None /\ Loaded(p.predicate) /\ held[p.predicate] = p.digest ->
         [refused |-> FALSE, predicate |-> held[p.predicate]]
    [] OTHER -> refused

------------------------------------------------------------------------------
(* The rules checker.                                                      *)
PinnedDigests(rp) == rp.digests

ForRole(rules, role) ==
  LET flat == [pack |-> None, digests |-> rules.digests]
  IN CASE role \notin DOMAIN rules.roles -> flat
       [] role \in DOMAIN rules.roles /\ PinnedDigests(rules.roles[role]) = {} ->
            [rules.roles[role] EXCEPT !.digests = rules.digests]
       [] OTHER -> rules.roles[role]

MissingRoles(rules) ==
  IF DOMAIN rules.roles = {} THEN {} ELSE {r \in RulesRoles : PinnedDigests(ForRole(rules, r)) = {}}

NoRules == [command |-> FALSE, sha |-> None, digests |-> {}, roles |-> <<>>]

(* pinRulesChecker's refusals.  What it asks of the file's form (an        *)
(* absolute command, a known kind, a timeout, digests in hex) is `formed`, *)
(* and whether the executable is a trusted one is that it has a digest.    *)
RulesPinned(pin) ==
  /\ pin.formed /\ checker # None
  /\ DOMAIN pin.roles # {} => pin.digests # {}
  /\ \A r \in DOMAIN pin.roles : r \in RulesRoles /\ (pin.roles[r].pack # None \/ pin.roles[r].digests # {})

(* The executable's digest is stored and printed (cli/doctor.go:173); the  *)
(* program compares it with nothing, a plugin does when it runs a check.   *)
pinRulesChecker(pin) == [command |-> TRUE, sha |-> checker, digests |-> pin.digests, roles |-> pin.roles]

(* Profile.validate, which every load runs.                                *)
validate(p) ==
  LET rules == p.rules IN
  /\ DOMAIN rules.roles # {} => PinnedDigests(rules) # {}
  /\ \A r \in DOMAIN rules.roles :
       r \in RulesRoles /\ (rules.roles[r].pack # None \/ PinnedDigests(rules.roles[r]) # {})

------------------------------------------------------------------------------
NoProfile == [predicate |-> None, digest |-> None, rules |-> NoRules]
NoWish    == [predicate |-> None, rules |-> None, byHand |-> FALSE]

PolicyInit ==
  /\ held \in [PredicateRefs -> Predicates]
  /\ checker \in Digests
  /\ profile = NoProfile /\ wanted = NoWish /\ spent = [updates |-> 0, edits |-> 0]

(* profile update with --materiality and --rules-checker, either or both:  *)
(* None removes what is pinned.                                            *)

PinBoth(ref, pin) ==
  /\ ref \in PredicateRefs => Loaded(ref)
  /\ pin \in PinFiles => RulesPinned(pin)
  /\ profile' = [predicate |-> IF ref = Keep THEN profile.predicate ELSE ref,
                 digest    |-> CASE ref = Keep -> profile.digest
                                 [] ref = None -> None
                                 [] OTHER -> held[ref],
                 rules     |-> CASE pin = Keep -> profile.rules
                                 [] pin = None -> NoRules
                                 [] OTHER -> pinRulesChecker(pin)]
  /\ wanted' = [wanted EXCEPT
       !.predicate = CASE ref = Keep -> @ [] ref = None -> None [] OTHER -> held[ref],
       !.rules     = IF pin = Keep THEN @ ELSE pin]

PinOrRemove ==
  /\ spent.updates < MaxUpdates /\ validate(profile)
  /\ \E ref \in PredicateRefs \cup {None, Keep}, pin \in PinFiles \cup {None, Keep} : PinBoth(ref, pin)
  /\ spent' = [spent EXCEPT !.updates = @ + 1]
  /\ UNCHANGED <<held, checker>>

Edit == spent.edits < MaxPolicyEdits /\ spent' = [spent EXCEPT !.edits = @ + 1]

(* A file is rewritten or removed; a built-in goes with a release.         *)
ChangePredicate ==
  /\ Edit
  /\ \E ref \in PredicateRefs : \E doc \in (IF ref \in BuiltIns THEN {} ELSE Predicates) \cup {None} :
       held' = [held EXCEPT ![ref] = doc]
  /\ UNCHANGED <<checker, profile, wanted>>

SwapChecker ==
  /\ Edit
  /\ checker' \in (Digests \cup {None}) \ {checker}
  /\ UNCHANGED <<held, profile, wanted>>

(* The profile's file edited: the digest or the reference dropped, another *)
(* reference named, the flat rulesets dropped, or a role's.                *)
EditProfile ==
  /\ Edit
  /\ \/ profile' = [profile EXCEPT !.digest = None]
     \/ \E ref \in PredicateRefs \cup {None} : profile' = [profile EXCEPT !.predicate = ref]
     \/ profile' = [profile EXCEPT !.rules.digests = {}]
     \/ \E r \in DOMAIN profile.rules.roles : profile' = [profile EXCEPT !.rules.roles[r].digests = {}]
  /\ wanted' = [wanted EXCEPT !.byHand = TRUE]
  /\ UNCHANGED <<held, checker>>

PolicyNext == PinOrRemove \/ ChangePredicate \/ SwapChecker \/ EditProfile

PolicySpec == PolicyInit /\ [][PolicyNext]_policyVars

------------------------------------------------------------------------------
(* A check goes by what the user pinned (PinnedMateriality, ForRole,       *)
(* validate): it is refused or pauses on just the picks that the document, *)
(* as it was read when it was pinned, calls material, on every pick when   *)
(* there is none; and where any role is pinned, each role has rulesets,    *)
(* its own or the pin's, whatever was edited since.                        *)
ChecksAsPinned ==
  LET check == PinnedMateriality(profile) IN
  /\ (~wanted.byHand /\ ~check.refused) =>
       \A a \in Attributes : IsMaterial(check.predicate, a) = IsMaterial(wanted.predicate, a)
  /\ (~check.refused /\ check.predicate # None) => check.predicate = profile.digest
  /\ (validate(profile) /\ DOMAIN profile.rules.roles # {}) =>
       /\ MissingRoles(profile.rules) = {}
       /\ ~wanted.byHand =>
            \A r \in RulesRoles :
              PinnedDigests(ForRole(profile.rules, r)) =
                IF r \in DOMAIN wanted.rules.roles /\ wanted.rules.roles[r].digests # {}
                THEN wanted.rules.roles[r].digests ELSE wanted.rules.digests
==============================================================================
