-------------------------- MODULE Verdicts_proofs ---------------------------
(***************************************************************************)
(* Theorems about the verbs that judge files they are given: a profile's   *)
(* pins, countersignatures, a History, a bundle and its page, settlement   *)
(* legs, two contracts, judges' reports, the deals of a bundle and the     *)
(* cadence tree of a log.  No two of them share state, so each section has *)
(* an invariant of its own; whoever carries a file between the steps may   *)
(* change all that can be changed in it without a key.                     *)
(***************************************************************************)
EXTENDS HistoryVerdict, BundleVerdict, SaleBundle, CadenceChain, Countersign, Settlement,
        ContractDiff, JudgeReports, PolicyPins,
        FunctionTheorems, FiniteSetTheorems, SequenceTheorems, WellFoundedInduction, TLAPS

(* A set of naturals with a member has a least one.                        *)
LEMMA LeastOf ==
  ASSUME NEW T \in SUBSET Nat, T # {}
  PROVE  \E n \in T : \A m \in T : n <= m
<1> DEFINE R == OpToRel(<, Nat)
<1>1. IsWellFoundedOn(R, Nat)
  BY NatLessThanWellFounded
<1>2. \A x, y \in Nat : <<y, x>> \in R <=> y < x
  BY DEF OpToRel
<1> HIDE DEF R
<1>3. PICK n \in T : \A m \in T : <<m, n>> \notin R
  BY <1>1, WFMin
<1>4. ASSUME NEW m \in T PROVE n <= m
  <2>1. m \in Nat /\ n \in Nat /\ ~(m < n)
    BY <1>2, <1>3
  <2>2. QED
    BY <2>1
<1>5. QED
  BY <1>4

(* Sets whose members answer to one another one by one are of one size.    *)
OneByOne(S, T, b) ==
  /\ \A x \in S : b[x] \in T
  /\ \A x, y \in S : b[x] = b[y] => x = y
  /\ \A y \in T : \E x \in S : b[x] = y

LEMMA SameCount ==
  ASSUME NEW S, NEW T, NEW b, IsFiniteSet(S), OneByOne(S, T, b)
  PROVE  IsFiniteSet(T) /\ Cardinality(T) = Cardinality(S)
<1> DEFINE c == [x \in S |-> b[x]]
<1>1. c \in [S -> T] /\ (\A x, y \in S : c[x] = c[y] => x = y) /\ (\A y \in T : \E x \in S : c[x] = y)
  BY DEF OneByOne
<1> HIDE DEF c
<1>2. c \in Bijection(S, T)
  BY <1>1, Zenon DEF Bijection, Injection, Surjection, IsInjective
<1>3. ExistsBijection(S, T)
  BY <1>2 DEF ExistsBijection
<1> QED
  BY <1>3, FS_Bijection

(* What is in neither of two sets twice is counted once.                   *)
LEMMA DisjointCount ==
  ASSUME NEW S, NEW T, IsFiniteSet(S), IsFiniteSet(T), S \cap T = {}
  PROVE  IsFiniteSet(S \cup T) /\ Cardinality(S \cup T) = Cardinality(S) + Cardinality(T)
<1>1. Cardinality({}) = 0 /\ Cardinality(S) \in Nat /\ Cardinality(T) \in Nat
  BY FS_EmptySet, FS_CardinalityType
<1>2. Cardinality(S \cup T) = Cardinality(S) + Cardinality(T) - Cardinality(S \cap T)
  BY FS_Union
<1> QED
  BY <1>1, <1>2, FS_Union

------------------------------------------------------------------------------
(* The checks of a profile are those that were pinned (cli/materiality.go). *)

(* The profile's file has its fields, however it was edited.               *)
Rulesets(rules) ==
  /\ DOMAIN rules = {"command", "sha", "digests", "roles"}
  /\ \A r \in DOMAIN rules.roles : DOMAIN rules.roles[r] = {"pack", "digests"}

ProfileForm == DOMAIN profile = {"predicate", "digest", "rules"} /\ Rulesets(profile.rules)

(* A profile nobody edited pins what was asked for: the document that its  *)
(* reference held then, and the rulesets of the pin file.                  *)
AsAsked ==
  /\ profile.predicate = None <=> profile.digest = None
  /\ profile.digest = wanted.predicate
  /\ IF wanted.rules = None THEN profile.rules = NoRules
     ELSE profile.rules.digests = wanted.rules.digests /\ profile.rules.roles = wanted.rules.roles

PolicyInv ==
  /\ ProfileForm
  /\ DOMAIN wanted = {"predicate", "rules", "byHand"}
  /\ ~wanted.byHand => AsAsked

(* Nothing is pinned at first, and nothing is asked for.                   *)
LEMMA PolicyInitInv == PolicyInit => PolicyInv
  BY DEF PolicyInit, NoProfile, NoWish, NoRules, PolicyInv, ProfileForm, Rulesets, AsAsked

(* A document that can be pinned is there.                                 *)
LEMMA LoadedIsThere ==
  ASSUME NEW ref, Loaded(ref)
  PROVE  held[ref] # None
  BY DEF Loaded, ParseMaterialityPredicate

(* To pin a predicate or a ruleset is to be asked for it.                  *)
LEMMA PinStep ==
  ASSUME PolicyInv, NEW ref \in PredicateRefs \cup {None, Keep}, NEW pin \in PinFiles \cup {None, Keep},
         PinBoth(ref, pin)
  PROVE  PolicyInv'
<1> DEFINE digest == CASE ref = Keep -> profile.digest [] ref = None -> None [] OTHER -> held[ref]
           rules  == CASE pin = Keep -> profile.rules [] pin = None -> NoRules [] OTHER -> pinRulesChecker(pin)
           asked  == CASE ref = Keep -> wanted.predicate [] ref = None -> None [] OTHER -> held[ref]
           wish   == IF pin = Keep THEN wanted.rules ELSE pin
<1>1. /\ profile' = [predicate |-> IF ref = Keep THEN profile.predicate ELSE ref, digest |-> digest, rules |-> rules]
      /\ wanted' = [wanted EXCEPT !.predicate = asked, !.rules = wish]
      /\ ref \in PredicateRefs => Loaded(ref)
  BY DEF PinBoth
<1>2. DOMAIN wanted = {"predicate", "rules", "byHand"} /\ ProfileForm
  BY DEF PolicyInv
<1>3. /\ DOMAIN wanted' = {"predicate", "rules", "byHand"}
      /\ wanted'.predicate = asked /\ wanted'.rules = wish /\ wanted'.byHand = wanted.byHand
  BY <1>1, <1>2
<1>4. /\ DOMAIN profile' = {"predicate", "digest", "rules"}
      /\ profile'.predicate = IF ref = Keep THEN profile.predicate ELSE ref
      /\ profile'.digest = digest /\ profile'.rules = rules
  BY <1>1
<1>5. Keep # None /\ None \notin PredicateRefs /\ Keep \notin PredicateRefs /\ None \notin PinFiles /\ Keep \notin PinFiles
  BY KeepAssumption
<1>6. /\ pin = Keep => rules = profile.rules /\ wish = wanted.rules
      /\ pin = None => rules = NoRules /\ wish = None
      /\ pin \in PinFiles => rules = pinRulesChecker(pin) /\ wish = pin
  BY <1>5
<1>7. /\ ref = Keep => digest = profile.digest /\ asked = wanted.predicate
      /\ ref = None => digest = None /\ asked = None
      /\ ref \in PredicateRefs => digest = held[ref] /\ asked = held[ref]
  BY <1>5
<1> HIDE DEF digest, rules, asked, wish
<1>8. ProfileForm'
  <2>1. Rulesets(NoRules)
    BY DEF Rulesets, NoRules
  <2>2. pin \in PinFiles => Rulesets(pinRulesChecker(pin))
    BY PinFileAssumption DEF Rulesets, pinRulesChecker
  <2>3. Rulesets(rules)
    BY <1>2, <1>6, <2>1, <2>2 DEF ProfileForm
  <2>4. QED
    BY <1>4, <2>3 DEF ProfileForm
<1>9. ASSUME ~wanted.byHand PROVE AsAsked'
  <2>1. AsAsked
    BY <1>9 DEF PolicyInv
  <2>2. profile'.digest = wanted'.predicate
    BY <1>3, <1>4, <1>7, <2>1 DEF AsAsked
  <2>3. profile'.predicate = None <=> profile'.digest = None
    BY <1>1, <1>4, <1>5, <1>7, <2>1, LoadedIsThere DEF AsAsked
  <2>4. pin \in PinFiles => rules.digests = wish.digests /\ rules.roles = wish.roles
    BY <1>6 DEF pinRulesChecker
  <2>5. IF wish = None THEN rules = NoRules ELSE rules.digests = wish.digests /\ rules.roles = wish.roles
    BY <1>5, <1>6, <2>1, <2>4 DEF AsAsked
  <2>6. QED
    BY <1>3, <1>4, <2>2, <2>3, <2>5 DEF AsAsked
<1>10. QED
  BY <1>3, <1>8, <1>9 DEF PolicyInv

(* A profile edited by hand keeps its form, and is known to be edited.     *)
LEMMA EditStep ==
  ASSUME PolicyInv, EditProfile
  PROVE  PolicyInv'
<1> DEFINE rules == profile.rules
<1>1. DOMAIN wanted' = {"predicate", "rules", "byHand"} /\ wanted'.byHand
  BY DEF EditProfile, PolicyInv
<1>2. DOMAIN profile = {"predicate", "digest", "rules"} /\ Rulesets(rules)
  BY DEF PolicyInv, ProfileForm
<1>3. \A ref : LET p == [profile EXCEPT !.predicate = ref] IN DOMAIN p = DOMAIN profile /\ p.rules = rules
  BY <1>2
<1>4. \A d : LET p == [profile EXCEPT !.digest = d] IN DOMAIN p = DOMAIN profile /\ p.rules = rules
  BY <1>2
<1>5. \A x : LET p == [profile EXCEPT !.rules = x] IN DOMAIN p = DOMAIN profile /\ p.rules = x
  BY <1>2
<1>6. Rulesets([rules EXCEPT !.digests = {}])
  BY <1>2 DEF Rulesets
<1>7. ASSUME NEW r \in DOMAIN rules.roles
      PROVE  Rulesets([rules EXCEPT !.roles = [rules.roles EXCEPT ![r] = [rules.roles[r] EXCEPT !.digests = {}]]])
  <2> DEFINE one == [rules.roles[r] EXCEPT !.digests = {}]
             new == [rules.roles EXCEPT ![r] = one]
  <2>1. DOMAIN one = {"pack", "digests"}
    BY <1>2 DEF Rulesets
  <2> HIDE DEF one
  <2>2. DOMAIN new = DOMAIN rules.roles /\ \A q \in DOMAIN new : DOMAIN new[q] = {"pack", "digests"}
    BY <1>2, <2>1 DEF Rulesets
  <2> HIDE DEF new
  <2>3. QED
    BY <1>2, <2>2 DEF Rulesets
<1>8. \/ \E d : profile' = [profile EXCEPT !.digest = d]
      \/ \E ref : profile' = [profile EXCEPT !.predicate = ref]
      \/ \E x : Rulesets(x) /\ profile' = [profile EXCEPT !.rules = x]
  <2>1. CASE profile' = [profile EXCEPT !.rules.digests = {}]
    <3>1. profile' = [profile EXCEPT !.rules = [rules EXCEPT !.digests = {}]]
      BY <2>1
    <3>2. QED
      BY <1>6, <3>1
  <2>2. ASSUME NEW r \in DOMAIN rules.roles, profile' = [profile EXCEPT !.rules.roles[r].digests = {}]
        PROVE  \E x : Rulesets(x) /\ profile' = [profile EXCEPT !.rules = x]
    <3>1. profile' = [profile EXCEPT !.rules =
            [rules EXCEPT !.roles = [rules.roles EXCEPT ![r] = [rules.roles[r] EXCEPT !.digests = {}]]]]
      BY <2>2
    <3>2. QED
      BY <1>7, <3>1
  <2>3. QED
    BY <2>1, <2>2 DEF EditProfile
<1>9. ProfileForm'
  BY <1>2, <1>3, <1>4, <1>5, <1>8 DEF ProfileForm
<1>10. QED
  BY <1>1, <1>9 DEF PolicyInv

(* Of the files, only what is pinned is of the profile.                    *)
LEMMA PolicyInvStep == PolicyInv /\ [PolicyNext]_policyVars => PolicyInv'
<1> SUFFICES ASSUME PolicyInv, [PolicyNext]_policyVars PROVE PolicyInv'
  OBVIOUS
<1>1. CASE UNCHANGED <<profile, wanted>>
  BY <1>1 DEF PolicyInv, ProfileForm, AsAsked
<1>2. CASE PinOrRemove
  BY <1>2, PinStep DEF PinOrRemove
<1>3. CASE EditProfile
  BY <1>3, EditStep
<1>4. QED
  BY <1>1, <1>2, <1>3 DEF PolicyNext, ChangePredicate, SwapChecker, policyVars

(* Each role of a profile that validates has rulesets.                     *)
LEMMA RolesHaveRulesets ==
  ASSUME NEW p, Rulesets(p.rules), validate(p), DOMAIN p.rules.roles # {}, NEW r
  PROVE  PinnedDigests(ForRole(p.rules, r)) # {}
         /\ PinnedDigests(ForRole(p.rules, r)) =
              IF r \in DOMAIN p.rules.roles /\ p.rules.roles[r].digests # {}
              THEN p.rules.roles[r].digests ELSE p.rules.digests
<1> DEFINE rules == p.rules
<1>1. rules.digests # {}
  BY DEF validate, PinnedDigests
<1>2. CASE r \notin DOMAIN rules.roles
  <2>1. ForRole(rules, r) = [pack |-> None, digests |-> rules.digests]
    BY <1>2 DEF ForRole
  <2>2. QED
    BY <1>1, <1>2, <2>1 DEF PinnedDigests
<1>3. CASE r \in DOMAIN rules.roles /\ rules.roles[r].digests = {}
  <2>1. ForRole(rules, r) = [rules.roles[r] EXCEPT !.digests = rules.digests]
    BY <1>3 DEF ForRole, PinnedDigests
  <2>2. DOMAIN rules.roles[r] = {"pack", "digests"}
    BY <1>3 DEF Rulesets
  <2>3. ForRole(rules, r).digests = rules.digests
    BY <2>1, <2>2
  <2>4. QED
    BY <1>1, <1>3, <2>3 DEF PinnedDigests
<1>4. CASE r \in DOMAIN rules.roles /\ rules.roles[r].digests # {}
  <2>1. ForRole(rules, r) = rules.roles[r]
    BY <1>4 DEF ForRole, PinnedDigests
  <2>2. QED
    BY <1>4, <2>1 DEF PinnedDigests
<1>5. QED
  BY <1>2, <1>3, <1>4

(* Checks go by what was pinned.                                           *)
THEOREM PinsDecideChecks == PolicySpec => []ChecksAsPinned
<1>1. PolicyInv => ChecksAsPinned
  <2> SUFFICES ASSUME PolicyInv PROVE ChecksAsPinned
    OBVIOUS
  <2> DEFINE check == PinnedMateriality(profile)
             rules == profile.rules
  <2>1. \/ check.refused
        \/ profile.predicate = None /\ profile.digest = None /\ check.predicate = None
        \/ check.predicate = profile.digest /\ profile.digest # None
    BY DEF PinnedMateriality, refused
  <2>2. ~wanted.byHand /\ ~check.refused => check.predicate = wanted.predicate
    BY <2>1 DEF PolicyInv, AsAsked
  <2>3. ~check.refused /\ check.predicate # None => check.predicate = profile.digest
    BY <2>1
  <2>4. ASSUME validate(profile), DOMAIN rules.roles # {}
        PROVE  /\ MissingRoles(rules) = {}
               /\ ~wanted.byHand =>
                    \A r \in RulesRoles :
                      PinnedDigests(ForRole(rules, r)) =
                        IF r \in DOMAIN wanted.rules.roles /\ wanted.rules.roles[r].digests # {}
                        THEN wanted.rules.roles[r].digests ELSE wanted.rules.digests
    <3>1. Rulesets(rules)
      BY DEF PolicyInv, ProfileForm
    <3>2. \A r \in RulesRoles :
            /\ PinnedDigests(ForRole(rules, r)) # {}
            /\ PinnedDigests(ForRole(rules, r)) =
                 IF r \in DOMAIN rules.roles /\ rules.roles[r].digests # {}
                 THEN rules.roles[r].digests ELSE rules.digests
      BY <2>4, <3>1, RolesHaveRulesets
    <3>3. ~wanted.byHand => rules.digests = wanted.rules.digests /\ rules.roles = wanted.rules.roles
      BY <2>4 DEF PolicyInv, AsAsked, NoRules
    <3>4. QED
      BY <3>2, <3>3 DEF MissingRoles
  <2> HIDE DEF check
  <2>5. QED
    BY <2>2, <2>3, <2>4 DEF ChecksAsPinned, check
<1>2. QED
  BY <1>1, PolicyInitInv, PolicyInvStep, PTL DEF PolicySpec

------------------------------------------------------------------------------
(* What was added to a bundle stays in it (cli/countersign.go).            *)

IsSeq(s) == s \in Seq(ToSet(s))

(* An entry that a request takes: it is over this bundle, and signed.      *)
Taken(e, digest) == e.over = digest /\ verifyCountersignSignature(e)

(* While nobody edits the file, each request holds a bundle of the file's  *)
(* digest and entries it may attach, and that bundle has what was added    *)
(* before; of what was said to be added, all that no other request wrote   *)
(* over is in the file.                                                    *)
Attached ==
  /\ IsSeq(file.entries)
  /\ DOMAIN file = {"content", "declared", "disclosures", "reproduced", "entries"}
  /\ \A r \in Commands : calls[r] # NoCall =>
       /\ DOMAIN calls[r] = {"bundle", "known", "entries"}
       /\ DOMAIN calls[r].bundle = {"content", "declared", "disclosures", "reproduced", "entries"}
       /\ IsSeq(calls[r].bundle.entries) /\ IsSeq(calls[r].entries)
       /\ BundleDigest(calls[r].bundle) = BundleDigest(file)
       /\ \A e \in ToSet(calls[r].entries) : Taken(e, BundleDigest(file))
       /\ calls[r].known \ overlap \subseteq ToSet(calls[r].bundle.entries)
  /\ \A e \in added : Taken(e, BundleDigest(file))
  /\ added \ overlap \subseteq ToSet(file.entries)

CallsTyped == DOMAIN calls = Commands /\ touched \in Nat

AddedInv == CallsTyped /\ (touched = 0 => Attached)

(* The entries of two sequences are those of one after the other.          *)
LEMMA EntriesOfBoth ==
  ASSUME NEW s, NEW t, IsSeq(s), IsSeq(t)
  PROVE  IsSeq(s \o t) /\ ToSet(s \o t) = ToSet(s) \cup ToSet(t)
<1> DEFINE A == ToSet(s) \cup ToSet(t)
<1>1. s \in Seq(A) /\ t \in Seq(A) /\ s \o t \in Seq(A)
  BY DEF IsSeq
<1>2. /\ DOMAIN s = 1 .. Len(s) /\ DOMAIN t = 1 .. Len(t) /\ Len(s) \in Nat /\ Len(t) \in Nat
      /\ DOMAIN (s \o t) = 1 .. Len(s) + Len(t)
      /\ \A i \in 1 .. Len(s) + Len(t) : (s \o t)[i] = IF i <= Len(s) THEN s[i] ELSE t[i - Len(s)]
  BY <1>1
<1>3. ToSet(s) \subseteq ToSet(s \o t)
  BY <1>2 DEF ToSet
<1>4. ToSet(t) \subseteq ToSet(s \o t)
  <2> SUFFICES ASSUME NEW i \in 1 .. Len(t) PROVE t[i] \in ToSet(s \o t)
    BY <1>2 DEF ToSet
  <2>1. Len(s) + i \in 1 .. Len(s) + Len(t) /\ (s \o t)[Len(s) + i] = t[i]
    BY <1>2
  <2>2. QED
    BY <1>2, <2>1 DEF ToSet
<1>5. ToSet(s \o t) \subseteq A
  <2> SUFFICES ASSUME NEW i \in 1 .. Len(s) + Len(t) PROVE (s \o t)[i] \in A
    BY <1>2 DEF ToSet
  <2>1. CASE i <= Len(s)
    BY <1>2, <2>1 DEF ToSet
  <2>2. CASE ~(i <= Len(s))
    <3>1. i - Len(s) \in 1 .. Len(t)
      BY <1>2, <2>2
    <3>2. QED
      BY <1>2, <2>2, <3>1 DEF ToSet
  <2>3. QED
    BY <2>1, <2>2
<1>6. ToSet(s \o t) = A
  BY <1>3, <1>4, <1>5
<1>7. QED
  BY <1>1, <1>6 DEF IsSeq

(* A file starts without entries, and no request is under way.             *)
LEMMA CountersignInitInv == CountersignInit => AddedInv
<1> SUFFICES ASSUME CountersignInit PROVE AddedInv
  OBVIOUS
<1> DEFINE f(d, r) == [NewFile("c1") EXCEPT !.disclosures = d, !.reproduced = r]
<1>1. \E d, r \in BOOLEAN : file = f(d, r)
  BY DEF CountersignInit
<1>5. \A d, r \in BOOLEAN :
        DOMAIN f(d, r) = {"content", "declared", "disclosures", "reproduced", "entries"} /\ f(d, r).entries = <<>>
  BY DEF NewFile
<1> HIDE DEF f
<1>2. DOMAIN file = {"content", "declared", "disclosures", "reproduced", "entries"} /\ file.entries = <<>>
  BY <1>1, <1>5
<1>3. IsSeq(<<>>)
  BY DEF IsSeq
<1>4. QED
  BY <1>2, <1>3 DEF CountersignInit, AddedInv, CallsTyped, Attached

(* A request begins with the bundle it reads in the file.                  *)
LEMMA ReadStep ==
  ASSUME AddedInv, NEW r \in Commands, ReadBundle(r)
  PROVE  AddedInv'
<1>1. IsSeq(<<>>) /\ ToSet(<<>>) = {}
  BY DEF IsSeq, ToSet
<1>2. calls' = [calls EXCEPT ![r] = [bundle |-> file, known |-> added, entries |-> <<>>]] /\ UNCHANGED <<file, added, overlap, touched>>
  BY DEF ReadBundle
<1>3. QED
  BY <1>1, <1>2 DEF AddedInv, CallsTyped, Attached

(* A service's reply is a sequence of entries.                             *)
LEMMA RepliesAreSequences ==
  ASSUME NEW digest, NEW k \in Services, NEW reply \in ServiceReplies(digest, k)
  PROVE  IsSeq(reply)
<1>1. IsSeq(<<>>) /\ \A a, b : IsSeq(<<a>>) /\ IsSeq(<<a, b>>)
  BY DEF IsSeq, ToSet
<1>2. QED
  BY <1>1, Zenon DEF ServiceReplies

(* Of a service's reply a request takes what is over its bundle and signed.*)
LEMMA SubmitStep ==
  ASSUME AddedInv, NEW r \in Commands, Submit(r)
  PROVE  AddedInv'
<1> DEFINE digest == BundleDigest(calls[r].bundle)
<1> DEFINE after(reply) ==
             calls' = [calls EXCEPT ![r] =
               IF acceptEntries(reply, digest) THEN [calls[r] EXCEPT !.entries = reply] ELSE NoCall]
<1>0. \E k \in Services : \E reply \in ServiceReplies(digest, k) : after(reply)
  <2>1. PICK reply \in UNION {ServiceReplies(digest, k) : k \in Services} : after(reply)
    BY Zenon DEF Submit
  <2>2. QED
    BY <2>1
<1>1. PICK reply : after(reply) /\ \E k \in Services : reply \in ServiceReplies(digest, k)
  BY <1>0
<1>2. calls[r] # NoCall /\ UNCHANGED <<file, added, overlap, touched>>
  BY DEF Submit
<1>3. IsSeq(reply)
  BY <1>1, RepliesAreSequences
<1>4. SUFFICES ASSUME touched = 0 PROVE Attached'
  BY <1>1, <1>2 DEF AddedInv, CallsTyped
<1>5. Attached /\ DOMAIN calls = Commands
  BY <1>4 DEF AddedInv, CallsTyped
<1>6. CASE acceptEntries(reply, digest)
  <2> DEFINE c == [calls[r] EXCEPT !.entries = reply]
  <2>1. /\ DOMAIN c = {"bundle", "known", "entries"} /\ c.bundle = calls[r].bundle
        /\ c.known = calls[r].known /\ c.entries = reply
    BY <1>2, <1>5 DEF Attached
  <2>2. \A e \in ToSet(reply) : Taken(e, BundleDigest(file))
    BY <1>2, <1>5, <1>6 DEF acceptEntries, Taken, ToSet, Attached
  <2>3. calls' = [calls EXCEPT ![r] = c]
    BY <1>1, <1>6
  <2> HIDE DEF c
  <2>4. QED
    BY <1>2, <1>3, <1>5, <2>1, <2>2, <2>3 DEF Attached
<1>7. CASE ~acceptEntries(reply, digest)
  BY <1>1, <1>2, <1>5, <1>7 DEF Attached
<1>8. QED
  BY <1>6, <1>7

(* A request writes what it read and took; who else read the same is       *)
(* written over.                                                           *)
LEMMA WriteStep ==
  ASSUME AddedInv, NEW r \in Commands, WriteBack(r)
  PROVE  AddedInv'
<1> DEFINE b == calls[r].bundle
           new == calls[r].entries
<1>1. /\ calls[r] # NoCall /\ touched' = touched
      /\ file' = [b EXCEPT !.entries = b.entries \o new]
      /\ added' = added \cup ToSet(new)
      /\ overlap' = overlap \cup (added \ (calls[r].known \cup ToSet(new)))
      /\ calls' = [calls EXCEPT ![r] = NoCall]
  BY DEF WriteBack, AttachCountersignatures
<1>2. SUFFICES ASSUME touched = 0 PROVE Attached'
  BY <1>1 DEF AddedInv, CallsTyped
<1>3. Attached /\ DOMAIN calls = Commands
  BY <1>2 DEF AddedInv, CallsTyped
<1>4. /\ DOMAIN b = {"content", "declared", "disclosures", "reproduced", "entries"}
      /\ IsSeq(b.entries) /\ IsSeq(new) /\ BundleDigest(b) = BundleDigest(file)
      /\ \A e \in ToSet(new) : Taken(e, BundleDigest(file))
      /\ calls[r].known \ overlap \subseteq ToSet(b.entries)
  BY <1>1, <1>3 DEF Attached
<1>5. IsSeq(b.entries \o new) /\ ToSet(b.entries \o new) = ToSet(b.entries) \cup ToSet(new)
  BY <1>4, EntriesOfBoth
<1>6. /\ DOMAIN file' = {"content", "declared", "disclosures", "reproduced", "entries"}
      /\ file'.entries = b.entries \o new
      /\ file'.content = b.content /\ file'.declared = b.declared
  BY <1>1, <1>4
<1>7. BundleDigest(file)' = BundleDigest(file)
  BY <1>4, <1>6 DEF BundleDigest
<1>8. added' \ overlap' \subseteq ToSet(file'.entries)
  BY <1>1, <1>4, <1>5, <1>6
<1>9. \A e \in added' : Taken(e, BundleDigest(file))
  BY <1>1, <1>3, <1>4 DEF Attached
<1>10. \A q \in Commands : calls'[q] # NoCall => calls'[q] = calls[q]
  BY <1>1, <1>3
<1>11. overlap \subseteq overlap'
  BY <1>1
<1>12. QED
  BY <1>3, <1>5, <1>6, <1>7, <1>8, <1>9, <1>10, <1>11 DEF Attached

(* Every step of the commands, and an edit of the file, keeps AddedInv.    *)
LEMMA AddedInvStep == AddedInv /\ [CountersignNext]_countersignVars => AddedInv'
<1> SUFFICES ASSUME AddedInv, [CountersignNext]_countersignVars PROVE AddedInv'
  OBVIOUS
<1>1. CASE UNCHANGED countersignVars
  BY <1>1 DEF countersignVars, AddedInv, CallsTyped, Attached
<1>2. ASSUME NEW r \in Commands, Abort(r) PROVE AddedInv'
  <2>1. /\ calls' = [calls EXCEPT ![r] = NoCall]
        /\ file' = file /\ added' = added /\ overlap' = overlap /\ touched' = touched
    BY <1>2 DEF Abort
  <2>2. DOMAIN calls' = Commands /\ \A q \in Commands : calls'[q] # NoCall => calls'[q] = calls[q]
    BY <2>1 DEF AddedInv, CallsTyped
  <2>3. QED
    BY <2>1, <2>2 DEF AddedInv, CallsTyped, Attached
<1>3. CASE EditFile
  <2>1. touched' = touched + 1 /\ calls' = calls
    BY <1>3 DEF EditFile
  <2>2. QED
    BY <2>1 DEF AddedInv, CallsTyped
<1>4. QED
  BY <1>1, <1>2, <1>3, ReadStep, SubmitStep, WriteStep DEF CountersignNext

(* What a request added stays, and verifies.                               *)
THEOREM AddedEntriesStay == CountersignSpec => []AddedStays
<1>1. AddedInv => AddedStays
  <2> SUFFICES ASSUME AddedInv, touched = 0, NEW e \in added \ overlap
               PROVE  e \in ToSet(file.entries) /\ entryState(file, e, {}, Services) # "invalid"
    BY DEF AddedStays
  <2>1. e \in ToSet(file.entries) /\ e.over = BundleDigest(file) /\ verifyCountersignSignature(e)
    BY DEF AddedInv, Attached, Taken
  <2>2. entryState(file, e, {}, Services) # "invalid"
    BY <2>1 DEF entryState
  <2>3. QED
    BY <2>1, <2>2
<1>2. QED
  BY <1>1, CountersignInitInv, AddedInvStep, PTL DEF CountersignSpec

(* Whatever was done to the file, an exit of 0 says it is all signed.      *)
THEOREM OkIsSigned == CountersignSpec => []VerifiedIsSigned
<1>1. VerifiedIsSigned
  <2> SUFFICES ASSUME NEW trusted \in {{}, {ProducerKey}}, NEW directory \in SUBSET (Services \cup {ProducerKey}),
                      NEW e \in ToSet(file.entries)
               PROVE  /\ verifyExit(file, trusted, directory) = "ok" =>
                           /\ e.sig.by = e.key
                           /\ e.sig.on = <<BundleDigest(file), e.key, e.id, e.statement, API>>
                           /\ e.receipt # NoReceipt => e.receipt = [by |-> e.key, on |-> e.statement]
                      /\ entryState(file, e, trusted, directory) \in {"resolved", "unresolved_signer"} /\ file.declared =>
                           e.key # ProducerKey
    BY DEF VerifiedIsSigned
  <2> DEFINE state == entryState(file, e, trusted, directory)
  <2>1. \/ state = "unverified" /\ e.type \notin {"", API}
        \/ state = "invalid"
        \/ /\ e.type \in {"", API} /\ e.over = BundleDigest(file) /\ verifyCountersignSignature(e)
           /\ IF e.key \in producerKeys(file, trusted) THEN state = "not_independent"
              ELSE state \in {"resolved", "unresolved_signer"}
    BY DEF entryState
  <2>2. state \in EntryStates(file, trusted, directory)
    BY DEF EntryStates
  <2>3. file.declared => ProducerKey \in producerKeys(file, trusted)
    BY DEF producerKeys
  <2> HIDE DEF state
  <2>4. ASSUME verifyExit(file, trusted, directory) = "ok"
        PROVE  /\ state \notin {"invalid", "unverified", "unresolved_signer"}
               /\ e \in Reported(file, trusted, directory) => verifyCountersignReceipt(e) # "unverified"
    BY <2>2, <2>4 DEF verifyExit
  <2>5. ASSUME verifyExit(file, trusted, directory) = "ok"
        PROVE  /\ e.sig.by = e.key
               /\ e.sig.on = <<BundleDigest(file), e.key, e.id, e.statement, API>>
               /\ e.receipt # NoReceipt => e.receipt = [by |-> e.key, on |-> e.statement]
    <3>1. /\ e.type \in {"", API} /\ e.over = BundleDigest(file)
          /\ e.sig = [by |-> e.key, on |-> CountersignSigningInput(e)]
      BY <2>1, <2>4, <2>5 DEF verifyCountersignSignature
    <3>2. CountersignSigningInput(e) = <<BundleDigest(file), e.key, e.id, e.statement, API>>
      BY <3>1 DEF CountersignSigningInput
    <3>3. e \in Reported(file, trusted, directory)
      BY <2>4, <2>5 DEF Reported, state
    <3>4. verifyCountersignReceipt(e) # "unverified"
      BY <2>4, <2>5, <3>3
    <3>5. e.receipt # NoReceipt => e.receipt = [by |-> e.key, on |-> e.statement]
      BY <3>4 DEF verifyCountersignReceipt
    <3>6. e.sig.by = e.key /\ e.sig.on = CountersignSigningInput(e)
      <4>1. \A x : [by |-> e.key, on |-> x].by = e.key /\ [by |-> e.key, on |-> x].on = x
        OBVIOUS
      <4>2. QED
        BY <3>1, <4>1, Zenon
    <3>7. QED
      BY <3>2, <3>5, <3>6
  <2>6. state \in {"resolved", "unresolved_signer"} /\ file.declared => e.key # ProducerKey
    BY <2>1, <2>3
  <2>7. QED
    BY <2>5, <2>6 DEF state
<1>2. QED
  BY <1>1, PTL

------------------------------------------------------------------------------
(* A History under the given keys (cli/verify_history.go).                 *)

(* Under the keys a reader gave, a file is accepted just when nothing is   *)
(* found: what keeps an answer or the History from being accepted is always*)
(* one of the findings.                                                    *)
LEMMA FoundOrAccepted ==
  ASSUME NEW f, NEW keys, keys # {}
  PROVE  historyEvaluate(f, keys).findings = {} <=> HistoryAccepted(f, keys)
<1> DEFINE found == historyEvaluate(f, keys).findings
           ofAnswers == UNION {exchangeFindings(x, keys) : x \in ToSet(f.exchanges)}
           ofHistory == {p \in HistoryProperties(f, keys) : p[2] # "PASS"}
<1>1. found = ofAnswers \cup ofHistory
  BY DEF historyEvaluate
<1>2. ASSUME NEW x
      PROVE  exchangeFindings(x, keys) = {} <=> AnswerAccepted(x, keys)
  <2>1. ASSUME AnswerAccepted(x, keys) PROVE FailedStatuses(x, keys) = {}
    BY <2>1 DEF AnswerAccepted, FailedStatuses, StatusesOf
  <2>2. exchangeFindings(x, keys) = {} <=>
          FailedStatuses(x, keys) = {} /\ x.envelope /\ ~(x.envelope /\ ~AnswerAccepted(x, keys))
    BY DEF exchangeFindings
  <2>3. AnswerAccepted(x, keys) => x.envelope
    BY DEF AnswerAccepted
  <2> QED
    BY <2>1, <2>2, <2>3
<1>3. /\ ofAnswers = {} <=> \A x \in ToSet(f.exchanges) : exchangeFindings(x, keys) = {}
      /\ ofHistory = {} <=> \A p \in HistoryProperties(f, keys) : p[2] = "PASS"
  OBVIOUS
<1> HIDE DEF found, ofAnswers, ofHistory
<1>4. found = {} <=> ofAnswers = {} /\ ofHistory = {}
  BY <1>1
<1> QED
  BY <1>2, <1>3, <1>4 DEF HistoryAccepted, found

(* A History that is accepted has an answer signed with a key given: its   *)
(* answers have one holder key, of those.                                  *)
LEMMA AcceptedHasKey ==
  ASSUME NEW f, NEW keys, HistoryAccepted(f, keys)
  PROVE  \E i \in DOMAIN f.exchanges : f.exchanges[i].responder \in keys
<1>1. IF Cardinality({x.responder : x \in AcceptedIn(f, keys)}) = 1 THEN TRUE ELSE FALSE
  BY DEF HistoryAccepted, HistoryProperties
<1>2. AcceptedIn(f, keys) # {}
  BY <1>1, FS_EmptySet
<1>3. PICK x \in ToSet(f.exchanges) : AnswerAccepted(x, keys)
  BY <1>2 DEF AcceptedIn
<1> QED
  BY <1>3 DEF AnswerAccepted, Trusted, ToSet

(* Only a key is left to pin just when pinning the keys that the report    *)
(* names accepts the file, whatever the file holds.                        *)
THEOREM OnlyTheKeyIsLeft == HistorySpec => []KeyDecides
<1>1. ASSUME NEW f
      PROVE  basicExit(f, {}).exit = "partial" <=>
               signing_keys(f) # {} /\ basicExit(f, signing_keys(f)).exit = "ok"
  <2> DEFINE keys == signing_keys(f)
  <2>1. CASE keys = {}
    <3>1. Evaluated(f, {}).findings # {} /\ ~Evaluated(f, {}).accepted
      BY <2>1 DEF Evaluated
    <3> QED
      BY <3>1, <2>1 DEF basicExit
  <2>2. CASE keys # {}
    <3>1. ~Evaluated(f, {}).accepted /\ Evaluated(f, {}).findings = historyEvaluate(f, keys).findings
      BY <2>2 DEF Evaluated, historyEvaluate
    <3>2. Evaluated(f, keys) = historyEvaluate(f, keys)
      BY <2>2 DEF Evaluated
    <3>3. basicExit(f, {}).exit = "partial" <=> historyEvaluate(f, keys).findings = {}
      BY <3>1 DEF basicExit
    <3>4. basicExit(f, keys).exit = "ok" <=> HistoryAccepted(f, keys)
      BY <3>2 DEF basicExit, historyEvaluate
    <3> QED
      BY <2>2, <3>3, <3>4, FoundOrAccepted
  <2> QED
    BY <2>1, <2>2
<1>2. KeyDecides
  BY <1>1 DEF KeyDecides
<1> QED
  BY <1>2, PTL

(* A file of an instance with one answer has it, whatever happened to it.  *)
HistoryInv ==
  history # NoFile =>
    /\ DOMAIN history = {"id", "definition", "exchanges"}
    /\ history.id \notin ManyAnswers => 1 \in DOMAIN history.exchanges

(* A file holds an answer for each of the deals that were picked.          *)
LEMMA HistoryInitInv == HistoryInit => HistoryInv
<1> SUFFICES ASSUME HistoryInit, history # NoFile PROVE HistoryInv
  BY DEF HistoryInv
<1> DEFINE deals == SetToSeq(PickedDeals)
<1>1. PICK key \in HolderKeys, id \in historyInstances \cup {Unnamed, "another"} :
        history = [id |-> id, definition |-> "PASS", exchanges |-> [i \in DOMAIN deals |-> NewExchange(deals[i], key)]]
  BY DEF HistoryInit
<1>2. PICK n \in Nat \ {0} : deals \in [1 .. n -> PickedDeals]
  <2> DEFINE n == Cardinality(PickedDeals)
  <2>1. n \in Nat /\ n # 0 /\ Bijection(1 .. n, PickedDeals) # {}
    BY PickedAssumption, FS_CardinalityType, FS_EmptySet, Fun_ExistsBij DEF ExistsBijection
  <2>2. PICK f : f \in Injection(1 .. n, PickedDeals)
    BY <2>1 DEF Bijection
  <2>3. f \in [1 .. n -> PickedDeals] /\ IsInjective(f)
    BY <2>2 DEF Injection
  <2>4. deals \in [1 .. n -> PickedDeals]
    BY <2>3 DEF SetToSeq
  <2> QED
    BY <2>1, <2>4
<1> HIDE DEF deals
<1>3. 1 \in DOMAIN deals
  BY <1>2
<1> QED
  BY <1>1, <1>3 DEF HistoryInv

(* Only an instance with many answers loses one or has one twice.          *)
LEMMA HistoryStep == HistoryInv /\ [HistoryNext]_historyVars => HistoryInv'
<1> SUFFICES ASSUME HistoryInv, [HistoryNext]_historyVars, history' # NoFile PROVE HistoryInv'
  BY DEF HistoryInv
<1>1. CASE HarmExchange
  <2>1. PICK i, x : i \in DOMAIN history.exchanges /\ HarmTo([history EXCEPT !.exchanges[i] = x]) /\ history # NoFile
    BY <1>1 DEF HarmExchange
  <2>2. history' = [history EXCEPT !.exchanges = [@ EXCEPT ![i] = x]]
    BY <2>1 DEF HarmTo
  <2> QED
    BY <2>1, <2>2 DEF HistoryInv
<1>2. CASE DropExchange
  <2>1. PICK es : history' = [history EXCEPT !.exchanges = es] /\ history.id \in ManyAnswers /\ history # NoFile
    BY <1>2 DEF DropExchange, HarmTo
  <2> QED
    BY <2>1 DEF HistoryInv
<1>3. CASE RepeatExchange
  <2>1. PICK es : history' = [history EXCEPT !.exchanges = es] /\ history.id \in ManyAnswers /\ history # NoFile
    BY <1>3 DEF RepeatExchange, HarmTo
  <2> QED
    BY <2>1 DEF HistoryInv
<1>4. CASE HarmDefinition
  <2>1. history' = [history EXCEPT !.definition = "FAIL"] /\ history # NoFile
    BY <1>4 DEF HarmDefinition, HarmTo
  <2> QED
    BY <2>1 DEF HistoryInv
<1>5. CASE UNCHANGED historyVars
  BY <1>5 DEF historyVars, HistoryInv
<1> QED
  BY <1>1, <1>2, <1>3, <1>4, <1>5 DEF HistoryNext

(* What fails at the Basic level is found.                                 *)
LEMMA BasicNamed ==
  ASSUME NEW f, NEW keys
  PROVE  /\ basicExit(f, keys).exit = "failed" => basicExit(f, keys).findings # {}
         /\ basicExit(f, keys).exit = "ok" => \E i \in DOMAIN f.exchanges : f.exchanges[i].responder \in keys
<1>1. CASE keys # {}
  <2>1. Evaluated(f, keys) = historyEvaluate(f, keys)
    BY <1>1 DEF Evaluated
  <2>2. /\ basicExit(f, keys).exit = IF HistoryAccepted(f, keys) THEN "ok" ELSE "failed"
        /\ basicExit(f, keys).findings = historyEvaluate(f, keys).findings
    BY <1>1, <2>1 DEF basicExit, historyEvaluate
  <2> QED
    BY <1>1, <2>2, FoundOrAccepted, AcceptedHasKey
<1>2. CASE keys = {}
  <2>1. ~Evaluated(f, keys).accepted
    <3>1. CASE signing_keys(f) = {}
      BY <1>2, <3>1 DEF Evaluated
    <3>2. CASE signing_keys(f) # {}
      BY <1>2, <3>2 DEF Evaluated, historyEvaluate
    <3> QED
      BY <3>1, <3>2
  <2> QED
    BY <1>2, <2>1 DEF basicExit
<1> QED
  BY <1>1, <1>2

(* An Outcome History always has findings: an answer that is accepted has a*)
(* status that is no PASS, for an inclusion nobody checks, and with none   *)
(* accepted there is no holder key.                                        *)
LEMMA OutcomeNamed ==
  ASSUME NEW f, NEW keys
  PROVE  LET r == verifyOutcomeHistory(f, keys) IN
         /\ r.findings # {}
         /\ r.accepted => \E i \in DOMAIN f.exchanges : f.exchanges[i].responder \in keys
<1> DEFINE r == verifyOutcomeHistory(f, keys)
<1>1. r.accepted = HistoryAccepted(f, keys)
  BY DEF verifyOutcomeHistory
<1>2. /\ notPassing(UNION {StatusesOf(x, keys) : x \in ToSet(f.exchanges)}) \subseteq r.findings
      /\ notPassing(HistoryProperties(f, keys)) \subseteq r.findings
  BY DEF verifyOutcomeHistory
<1>3. CASE AcceptedIn(f, keys) = {}
  <2>1. <<"one_holder_key", "FAIL">> \in HistoryProperties(f, keys)
    BY <1>3, FS_EmptySet DEF HistoryProperties
  <2>2. <<"one_holder_key", "FAIL">> \in notPassing(HistoryProperties(f, keys))
    BY <2>1 DEF notPassing
  <2> QED
    BY <1>1, <1>2, <2>2, AcceptedHasKey
<1>4. CASE AcceptedIn(f, keys) # {}
  <2>1. PICK x \in ToSet(f.exchanges) : AnswerAccepted(x, keys)
    BY <1>4 DEF AcceptedIn
  <2>2. <<"anchor_inclusion", "NOT_CHECKED">> \in StatusesOf(x, keys)
    BY <2>1 DEF AnswerAccepted, StatusesOf
  <2>3. <<"anchor_inclusion", "NOT_CHECKED">> \in notPassing(UNION {StatusesOf(y, keys) : y \in ToSet(f.exchanges)})
    BY <2>1, <2>2 DEF notPassing
  <2> QED
    BY <1>1, <1>2, <2>3, AcceptedHasKey
<1> QED
  BY <1>3, <1>4

(* The reader of another instance accepts an answer under a key given, or  *)
(* names what is wrong, if only the reason it evaluates nothing.           *)
LEMMA OtherNamed ==
  ASSUME NEW f, NEW keys, f.id \notin {Basic, Staple},
         f.id \notin ManyAnswers => 1 \in DOMAIN f.exchanges
  PROVE  LET r == verifyOtherInstance(f, keys) IN
         /\ r.exit = "failed" => r.findings # {}
         /\ r.exit = "ok" => \E i \in DOMAIN f.exchanges : f.exchanges[i].responder \in keys
<1> DEFINE Named(r) == /\ ~r.accepted => r.findings # {} \/ r.reason
                       /\ r.accepted => \E i \in DOMAIN f.exchanges : f.exchanges[i].responder \in keys
<1>1. ASSUME NEW r, Named(r)
      PROVE  /\ otherExit(r).exit = "failed" => otherExit(r).findings # {}
             /\ otherExit(r).exit = "ok" => \E i \in DOMAIN f.exchanges : f.exchanges[i].responder \in keys
  BY <1>1 DEF otherExit
<1>2. Named(notEvaluable)
  BY DEF notEvaluable
<1>3. Named(verifyOutcomeHistory(f, keys))
  BY OutcomeNamed
<1>4. ASSUME 1 \in DOMAIN f.exchanges PROVE Named(verifyStandardHistory(f, keys))
  <2> DEFINE x == f.exchanges[1]
             r == verifyStandardHistory(f, keys)
  <2>1. CASE ~x.envelope
    BY <2>1 DEF verifyStandardHistory, OneAnswer
  <2>2. CASE x.envelope
    <3>1. /\ r.accepted = (r.findings = {})
          /\ {p \in StatusesOf(x, keys) : p[1] # "anchor_inclusion" /\ p[2] # "PASS"} \subseteq r.findings
      BY <2>2 DEF verifyStandardHistory, OneAnswer
    <3>2. <<"responder_trust", IF Trusted(x, keys) THEN "PASS" ELSE "FAIL">> \in StatusesOf(x, keys)
      BY <2>2 DEF StatusesOf
    <3>3. r.accepted => Trusted(x, keys)
      <4> SUFFICES ASSUME r.accepted, ~Trusted(x, keys) PROVE FALSE
        OBVIOUS
      <4>1. <<"responder_trust", "FAIL">> \in StatusesOf(x, keys)
        BY <3>2
      <4>2. <<"responder_trust", "FAIL">> \in r.findings
        BY <3>1, <4>1
      <4> QED
        BY <3>1, <4>2
    <3> QED
      BY <1>4, <3>1, <3>3 DEF Trusted
  <2> QED
    BY <2>1, <2>2
<1>5. ASSUME 1 \in DOMAIN f.exchanges PROVE Named(verifyInferenceHistory(f, keys))
  BY <1>5 DEF verifyInferenceHistory, OneAnswer, AnswerAccepted, Trusted
<1>6. f.id \in {Standard, Service} => 1 \in DOMAIN f.exchanges
  BY DEF ManyAnswers, Basic, Unnamed, Outcome, Standard, Service
<1>7. CASE f.id \notin historyInstances
  BY <1>1, <1>2, <1>7 DEF verifyOtherInstance, historyInstances
<1>8. CASE f.id = Service
  BY <1>1, <1>5, <1>6, <1>8 DEF verifyOtherInstance, historyInstances, Service, Outcome, Standard
<1>9. CASE f.id = Outcome
  BY <1>1, <1>3, <1>9 DEF verifyOtherInstance, historyInstances, Service, Outcome, Standard
<1>10. CASE f.id = Standard
  BY <1>1, <1>4, <1>6, <1>10 DEF verifyOtherInstance, historyInstances, Service, Outcome, Standard
<1> QED
  BY <1>7, <1>8, <1>9, <1>10 DEF historyInstances

(* A file that fails has findings, and one that is accepted has an answer  *)
(* signed with a key the reader gave, of every instance.                   *)
THEOREM FailuresAreNamed == HistorySpec => []FailureIsNamed
<1>1. HistoryInv => FailureIsNamed
  <2> SUFFICES ASSUME HistoryInv, history # NoFile
               PROVE  LET r == verifyHistoryFile(history, given.keys, given.flags) IN
                      /\ r.exit = "failed" => r.findings # {}
                      /\ r.exit = "ok" => \E i \in DOMAIN history.exchanges : history.exchanges[i].responder \in given.keys
    BY DEF FailureIsNamed
  <2> DEFINE fit == FlagsFit(history, given.keys, given.flags)
  <2>1. CASE ~fit
    BY <2>1 DEF verifyHistoryFile
  <2>2. CASE fit /\ history.id \in {Basic, Unnamed}
    <3>1. verifyHistoryFile(history, given.keys, given.flags) = basicExit(history, given.keys)
      BY <2>2 DEF verifyHistoryFile, Basic, Unnamed, Staple
    <3> QED
      BY <3>1, BasicNamed
  <2>3. CASE fit /\ history.id = Staple
    BY <2>3 DEF verifyHistoryFile, Basic, Unnamed, Staple
  <2>4. CASE fit /\ history.id \notin {Basic, Unnamed, Staple}
    <3>1. verifyHistoryFile(history, given.keys, given.flags) = verifyOtherInstance(history, given.keys)
      BY <2>4 DEF verifyHistoryFile
    <3> QED
      BY <2>4, <3>1, OtherNamed DEF HistoryInv
  <2> QED
    BY <2>1, <2>2, <2>3, <2>4
<1> QED
  BY <1>1, HistoryInitInv, HistoryStep, PTL DEF HistorySpec

------------------------------------------------------------------------------
(* A bundle, its verdict and its page (cli/verify_bundle.go).              *)

(* Nothing fails under a verdict that does not reject, and under VALID     *)
(* everything passes.                                                      *)
LEMMA VerdictOfClaims ==
  ASSUME NEW S
  PROVE  /\ claimsVerdict(S) # "INVALID" <=> "fail" \notin S
         /\ claimsVerdict(S) = "VALID" <=> S \subseteq {"pass"}
  BY DEF claimsVerdict

(* A member that adds nothing but a pass to the page's claims, in a block  *)
(* whose signatures verify: what it holds is its observer's, and its own   *)
(* bundle is VALID.                                                        *)
LEMMA MemberIsWhole ==
  ASSUME NEW m, MemberClaims(m) \subseteq {"pass"},
         m.response # NoPart => SignatureState(m.response) # "invalid"
  PROVE  /\ m.refusal # NoPart => ServedAnswer(m) /\ m.refusal.key = m.observer /\ m.refusal.sig = m.observer
         /\ m.response # NoPart => m.response.key \in {NoPart, m.observer} /\ m.response.sig = m.response.key
         /\ m.bundle # NoPart => m.bundle.identity /\ \A c \in ClaimNames : m.bundle.claims[c] = "pass"
<1>1. ASSUME m.refusal # NoPart
      PROVE  ServedAnswer(m) /\ m.refusal.key = m.observer /\ m.refusal.sig = m.observer
  <2>1. ServedAnswer(m)
    BY <1>1 DEF MemberClaims
  <2> QED
    BY <2>1 DEF ServedAnswer, SignatureState
<1>2. ASSUME m.response # NoPart
      PROVE  m.response.key \in {NoPart, m.observer} /\ m.response.sig = m.response.key
  <2>1. ~responseFailure(m)
    BY DEF MemberClaims
  <2> QED
    BY <1>2, <2>1 DEF responseFailure, SignatureState
<1>3. ASSUME m.bundle # NoPart
      PROVE  m.bundle.identity /\ \A c \in ClaimNames : m.bundle.claims[c] = "pass"
  <2>1. verdictClaim(MemberVerdict(m.bundle)) = "pass"
    BY <1>3 DEF MemberClaims
  <2>2. MemberVerdict(m.bundle) = "VALID"
    BY <2>1 DEF verdictClaim
  <2>3. m.bundle.identity /\ ClaimStatuses(m.bundle) \subseteq {"pass"}
    BY <2>2, VerdictOfClaims DEF MemberVerdict
  <2> QED
    BY <2>3 DEF ClaimStatuses
<1> QED
  BY <1>1, <1>2, <1>3

(* A page is drawn of a bundle without a defect in it or in a member's own *)
(* bundle; the file is INCOMPLETE all the same just when a member refused, *)
(* and its observer signed that.  This holds of every bundle.              *)
THEOREM PagesClaimNoMore == BundleSpec => []PageClaimsNoMore
<1>1. ASSUME NEW b, PageGate(b)
      PROVE  /\ Verdict(b) = IF \E i \in DOMAIN b.members : b.members[i].refusal # NoPart THEN "INCOMPLETE" ELSE "VALID"
             /\ b.selection \in {NoPart, "pass"}
             /\ \A i \in DOMAIN b.members :
                  LET m == b.members[i] IN
                  /\ m.refusal # NoPart => m.refusal.key = m.observer /\ m.refusal.sig = m.observer
                  /\ m.response # NoPart => m.response.key \in {NoPart, m.observer} /\ m.response.sig = m.response.key
                  /\ m.bundle # NoPart => m.bundle.identity /\ \A c \in ClaimNames : m.bundle.claims[c] = "pass"
  <2>1. Sound(b) /\ PageClaims(b) \subseteq {"pass"}
    BY <1>1, VerdictOfClaims DEF PageGate, pageVerdict
  <2>0. b.selection \in {NoPart, "pass"}
    BY <2>1 DEF PageClaims
  <2>2. ASSUME NEW i \in DOMAIN b.members
        PROVE  LET m == b.members[i] IN
               /\ m.refusal # NoPart => ServedAnswer(m) /\ m.refusal.key = m.observer /\ m.refusal.sig = m.observer
               /\ m.response # NoPart => m.response.key \in {NoPart, m.observer} /\ m.response.sig = m.response.key
               /\ m.bundle # NoPart => m.bundle.identity /\ \A c \in ClaimNames : m.bundle.claims[c] = "pass"
    <3>1. b.members # <<>>
      BY <2>2
    <3>2. composedOutput(b.members) \subseteq {"pass"}
      BY <2>1, <3>1 DEF PageClaims
    <3>3. ComposedStatus(b.members) # "fail" /\ MemberClaims(b.members[i]) \subseteq {"pass"}
      BY <2>2, <3>2 DEF composedOutput
    <3>4. b.members[i].response # NoPart => SignatureState(b.members[i].response) # "invalid"
      BY <2>2, <3>3 DEF ComposedStatus
    <3> QED
      BY <3>3, <3>4, MemberIsWhole
  <2>3. servedRefusals(b) = {i \in DOMAIN b.members : b.members[i].refusal # NoPart}
    BY <2>2 DEF servedRefusals, ServedAnswer
  <2>4. Verdict(b) = claimsVerdict(PageClaims(b) \cup {"withheld" : i \in servedRefusals(b)})
    BY <2>1 DEF Verdict
  <2>5. CASE servedRefusals(b) = {}
    <3>1. Verdict(b) = claimsVerdict(PageClaims(b))
      BY <2>1, <2>5 DEF Verdict
    <3> QED
      BY <2>0, <2>1, <2>2, <2>3, <2>5, <3>1, VerdictOfClaims
  <2>6. CASE servedRefusals(b) # {}
    <3> DEFINE S == PageClaims(b) \cup {"withheld" : i \in servedRefusals(b)}
    <3>1. "withheld" \in S /\ "fail" \notin S
      BY <2>1, <2>6
    <3>2. claimsVerdict(S) = "INCOMPLETE"
      BY <3>1 DEF claimsVerdict
    <3> QED
      BY <2>0, <2>2, <2>3, <2>4, <2>6, <3>2
  <2> QED
    BY <2>5, <2>6
<1>2. PageClaimsNoMore
  BY <1>1 DEF PageClaimsNoMore
<1> QED
  BY <1>2, PTL

------------------------------------------------------------------------------
(* What the producer of a deal's copy sealed: a record that the producer   *)
(* signed for this deal and this checkpoint is one of the deal's reports.  *)
SealedHere(x) ==
  /\ DOMAIN x = {"id", "isReport", "extra", "signer", "keyID", "input", "sealed", "deal", "forCopy", "bound",
                 "asOfCheckpoint"}
  /\ x.signer = Producer /\ x.deal = ThisDeal /\ x.bound = ThisCheckpoint => x.sealed \in Reports

(* What stays of a copy however it is rewritten, from the way it was made. *)
CopyOf(deal, made) ==
  /\ DOMAIN deal = {"pointer", "text", "standalone", "held", "shown", "steps", "lastStepKey", "sale", "saleEntry"}
  /\ deal.saleEntry = "fail"
  /\ deal.held = IF made = "in_log" THEN Reports ELSE {}
  /\ made \in {"in_log", "standalone", "history"} => deal.steps = TRUE
  /\ made = "standalone" => deal.lastStepKey = Producer
  /\ deal.standalone # NoPart => made = "standalone" /\ SealedHere(deal.standalone)
  /\ made = "composed" => deal.pointer = NoPart /\ deal.text = NoPart

BundleInv ==
  /\ origin \in {"in_log", "standalone", "history", "inline", "composed"}
  /\ bundle # NoPart =>
       /\ DOMAIN bundle = {"claims", "identity", "witness", "cadence", "coverage", "deal", "selection", "members", "rowsShown"}
       /\ CopyOf(bundle.deal, origin)

(* A copy is made with its report in the log, beside it, or without one.   *)
LEMMA BundleInitInv == BundleInit => BundleInv
<1> SUFFICES ASSUME BundleInit PROVE BundleInv
  OBVIOUS
<1>1. origin \in {"in_log", "standalone", "history", "inline", "composed"}
  BY DEF BundleInit
<1>2. CASE origin = "composed"
  <2>1. PICK ms : bundle = [PlainBundle EXCEPT !.members = ms]
    BY <1>2 DEF BundleInit
  <2>2. DOMAIN bundle = {"claims", "identity", "witness", "cadence", "coverage", "deal", "selection", "members", "rowsShown"}
        /\ bundle.deal = NoDeal
    BY <2>1 DEF PlainBundle
  <2> QED
    BY <1>1, <1>2, <2>2 DEF BundleInv, CopyOf, NoDeal
<1>3. CASE origin # "composed"
  <2>1. bundle = [PlainBundle EXCEPT !.deal = DealCopy(origin), !.cadence = "pass"]
    BY <1>3 DEF BundleInit
  <2>2. DOMAIN bundle = {"claims", "identity", "witness", "cadence", "coverage", "deal", "selection", "members", "rowsShown"}
        /\ bundle.deal = DealCopy(origin)
    BY <2>1 DEF PlainBundle
  <2>3. CopyOf(DealCopy(origin), origin)
    <3> DEFINE r == CHOOSE r \in Reports : TRUE
    <3>1. r \in Reports
      BY MadeAssumption
    <3>2. CASE origin = "in_log"
      BY <3>1, <3>2 DEF DealCopy, NoDeal, CopyOf
    <3>3. CASE origin = "standalone"
      BY <3>1, <3>3 DEF DealCopy, NoDeal, CopyOf, SealedHere
    <3>4. CASE origin = "history"
      BY <3>4 DEF DealCopy, NoDeal, CopyOf
    <3>5. CASE origin = "inline"
      BY <3>5 DEF DealCopy, NoDeal, CopyOf
    <3> QED
      BY <1>1, <1>3, <3>2, <3>3, <3>4, <3>5
  <2> QED
    BY <1>1, <2>2, <2>3 DEF BundleInv
<1> QED
  BY <1>2, <1>3

(* Nobody else signs with the producer's key: whatever stands beside the   *)
(* bundle, its seal is the producer's only if it was from the start.       *)
LEMMA ReplacedIsSealed ==
  ASSUME NEW x, SealedHere(x), NEW y,
         \/ y = [x EXCEPT !.input = "edited"]
         \/ y = [x EXCEPT !.input = "edited", !.sealed = "edited", !.signer = NoPart]
         \/ y = [x EXCEPT !.extra = TRUE] \/ y = [x EXCEPT !.isReport = FALSE]
         \/ y = [x EXCEPT !.forCopy = FALSE] \/ y = [x EXCEPT !.asOfCheckpoint = FALSE]
         \/ y = [x EXCEPT !.input = "earlier", !.sealed = "earlier", !.bound = "earlier checkpoint"]
         \/ y = [x EXCEPT !.input = "another's", !.sealed = "another's", !.deal = "another deal"]
         \/ \E p \in Parties \ {Producer} :
              y = [x EXCEPT !.input = "edited", !.sealed = "edited", !.signer = p, !.keyID = p]
         \/ \E p \in Parties : y = [x EXCEPT !.keyID = p]
         \/ y = [x EXCEPT !.id = "another"]
  PROVE  SealedHere(y)
<1>1. Producer \in Parties /\ Producer # NoPart
  BY DamageAssumption, MadeAssumption DEF Producer
<1>2. DOMAIN y = DOMAIN x
  OBVIOUS
<1>3. /\ y.signer \in {x.signer, NoPart} \cup (Parties \ {Producer})
      /\ y.deal \in {x.deal, "another deal"} /\ y.bound \in {x.bound, "earlier checkpoint"}
      /\ y.sealed # x.sealed =>
           y.signer # Producer \/ y.deal = "another deal" \/ y.bound = "earlier checkpoint"
  BY <1>1 DEF SealedHere
<1> QED
  BY <1>1, <1>2, <1>3 DEF SealedHere, ThisDeal, ThisCheckpoint

(* Whatever happens to a copy, its records stay, and nobody else signs for *)
(* its producer.                                                           *)
LEMMA BundleStep == BundleInv /\ [BundleNext]_bundleVars => BundleInv'
<1> SUFFICES ASSUME BundleInv, [BundleNext]_bundleVars PROVE BundleInv'
  OBVIOUS
<1> DEFINE Parts == {"claims", "identity", "witness", "cadence", "coverage", "deal", "selection", "members", "rowsShown"}
<1>1. ASSUME NEW b, DamageTo(b), DOMAIN b = Parts, CopyOf(b.deal, origin)
      PROVE  BundleInv'
  BY <1>1 DEF DamageTo, BundleInv
<1>2. bundle # NoPart => DOMAIN bundle = Parts /\ CopyOf(bundle.deal, origin)
  BY DEF BundleInv
<1>3. ASSUME bundle # NoPart, NEW b, DamageTo(b), DOMAIN b = DOMAIN bundle, b.deal = bundle.deal
      PROVE  BundleInv'
  BY <1>1, <1>2, <1>3
<1>4. CASE DamageClaim
  <2>1. bundle # NoPart /\ DOMAIN bundle = Parts
    BY <1>2, <1>4 DEF DamageClaim
  <2>2. ASSUME NEW c, NEW s, DamageTo([bundle EXCEPT !.claims[c] = s]) PROVE BundleInv'
    BY <1>3, <2>1, <2>2
  <2>3. ASSUME DamageTo([bundle EXCEPT !.identity = FALSE]) PROVE BundleInv'
    BY <1>3, <2>1, <2>3
  <2>4. ASSUME NEW s, DamageTo([bundle EXCEPT !.witness = s]) PROVE BundleInv'
    BY <1>3, <2>1, <2>4
  <2>5. ASSUME NEW s, DamageTo([bundle EXCEPT !.cadence = s]) PROVE BundleInv'
    BY <1>3, <2>1, <2>5
  <2>6. ASSUME DamageTo([bundle EXCEPT !.coverage = "fail"]) PROVE BundleInv'
    BY <1>3, <2>1, <2>6
  <2>7. ASSUME DamageTo([bundle EXCEPT !.rowsShown = FALSE]) PROVE BundleInv'
    BY <1>3, <2>1, <2>7
  <2>8. ASSUME NEW s, DamageTo([bundle EXCEPT !.selection = s]) PROVE BundleInv'
    BY <1>3, <2>1, <2>8
  <2> QED
    BY <1>4, <2>2, <2>3, <2>4, <2>5, <2>6, <2>7, <2>8 DEF DamageClaim
<1>5. CASE RewriteReport
  <2>1. bundle # NoPart /\ origin # "composed" /\ DOMAIN bundle = Parts /\ CopyOf(bundle.deal, origin)
    BY <1>2, <1>5 DEF RewriteReport
  <2>2. ASSUME NEW deal, DamageTo([bundle EXCEPT !.deal = deal]), DOMAIN deal = DOMAIN bundle.deal,
               deal.saleEntry = bundle.deal.saleEntry, deal.held = bundle.deal.held,
               deal.steps = bundle.deal.steps, deal.lastStepKey = bundle.deal.lastStepKey,
               deal.standalone \in {NoPart, bundle.deal.standalone}
        PROVE  BundleInv'
    <3>1. CopyOf(deal, origin)
      BY <2>1, <2>2 DEF CopyOf
    <3> QED
      BY <1>1, <2>1, <2>2, <3>1
  <2>3. DOMAIN bundle.deal =
          {"pointer", "text", "standalone", "held", "shown", "steps", "lastStepKey", "sale", "saleEntry"}
    BY <2>1 DEF CopyOf
  <2>4. ASSUME NEW t, DamageTo([bundle EXCEPT !.deal.text = t]) PROVE BundleInv'
    BY <2>1, <2>2, <2>3, <2>4
  <2>5. ASSUME NEW p, DamageTo([bundle EXCEPT !.deal.pointer = p]) PROVE BundleInv'
    BY <2>1, <2>2, <2>3, <2>5
  <2>6. ASSUME NEW t, DamageTo([bundle EXCEPT !.deal.text = t, !.deal.pointer = NoPart, !.deal.standalone = NoPart])
        PROVE  BundleInv'
    <3> DEFINE deal == [bundle.deal EXCEPT !.text = t, !.pointer = NoPart, !.standalone = NoPart]
    <3>1. [bundle EXCEPT !.deal.text = t, !.deal.pointer = NoPart, !.deal.standalone = NoPart] =
            [bundle EXCEPT !.deal = deal]
      BY <2>1, <2>3
    <3>2. /\ DOMAIN deal = DOMAIN bundle.deal
          /\ deal.saleEntry = bundle.deal.saleEntry /\ deal.held = bundle.deal.held
          /\ deal.steps = bundle.deal.steps /\ deal.lastStepKey = bundle.deal.lastStepKey
          /\ deal.standalone = NoPart
      BY <2>3
    <3> HIDE DEF deal
    <3> QED
      BY <2>2, <2>6, <3>1, <3>2
  <2>7. ASSUME NEW r, NEW s, DamageTo([bundle EXCEPT !.deal.shown[r] = s]) PROVE BundleInv'
    BY <2>1, <2>2, <2>3, <2>7
  <2>8. ASSUME DamageTo([bundle EXCEPT !.deal.sale = TRUE]) PROVE BundleInv'
    BY <2>1, <2>2, <2>3, <2>8
  <2>9. ASSUME DamageTo([bundle EXCEPT !.deal.standalone = NoPart]) PROVE BundleInv'
    BY <2>1, <2>2, <2>3, <2>9
  <2> QED
    BY <1>5, <2>4, <2>5, <2>6, <2>7, <2>8, <2>9 DEF RewriteReport
<1>6. CASE ReplaceStandalone
  <2>1. DOMAIN bundle = Parts /\ CopyOf(bundle.deal, origin) /\ bundle.deal.standalone # NoPart
    BY <1>2, <1>6 DEF ReplaceStandalone
  <2>2. SealedHere(bundle.deal.standalone) /\ origin = "standalone"
    BY <2>1 DEF CopyOf
  <2>3. PICK y : DamageTo([bundle EXCEPT !.deal.standalone = y]) /\ SealedHere(y)
    BY <1>6, <2>2, ReplacedIsSealed DEF ReplaceStandalone
  <2> DEFINE deal == [bundle.deal EXCEPT !.standalone = y]
  <2>4. DamageTo([bundle EXCEPT !.deal = deal])
    BY <2>3
  <2>5. CopyOf(deal, origin)
    BY <2>1, <2>2, <2>3 DEF CopyOf
  <2> HIDE DEF deal
  <2> QED
    BY <1>1, <2>1, <2>4, <2>5
<1>7. CASE DamageMember
  <2>1. bundle # NoPart /\ DOMAIN bundle = Parts
    BY <1>2, <1>7 DEF DamageMember
  <2>2. PICK i \in DOMAIN bundle.members :
          LET m == bundle.members[i] IN
          \/ \E c \in ClaimNames, s \in Statuses : DamageTo([bundle EXCEPT !.members[i].bundle.claims[c] = s])
          \/ DamageTo([bundle EXCEPT !.members[i].bundle.identity = FALSE])
          \/ \E p \in Parties : DamageTo([bundle EXCEPT !.members[i].observer = p])
          \/ \E k, s \in Parties \cup {NoPart} :
               DamageTo([bundle EXCEPT !.members[i].response.key = k, !.members[i].response.sig = s])
          \/ DamageTo([bundle EXCEPT !.members[i].response.anchored = FALSE])
          \/ \E k, s \in Parties \cup {NoPart} :
               DamageTo([bundle EXCEPT !.members[i].refusal.key = k, !.members[i].refusal.sig = s])
    BY <1>7 DEF DamageMember
  <2>3. ASSUME NEW c, NEW s, DamageTo([bundle EXCEPT !.members[i].bundle.claims[c] = s]) PROVE BundleInv'
    BY <1>3, <2>1, <2>3
  <2>4. ASSUME DamageTo([bundle EXCEPT !.members[i].bundle.identity = FALSE]) PROVE BundleInv'
    BY <1>3, <2>1, <2>4
  <2>5. ASSUME NEW p, DamageTo([bundle EXCEPT !.members[i].observer = p]) PROVE BundleInv'
    BY <1>3, <2>1, <2>5
  <2>6. ASSUME NEW k, NEW s, DamageTo([bundle EXCEPT !.members[i].response.key = k, !.members[i].response.sig = s])
        PROVE  BundleInv'
    BY <1>3, <2>1, <2>6
  <2>7. ASSUME DamageTo([bundle EXCEPT !.members[i].response.anchored = FALSE]) PROVE BundleInv'
    BY <1>3, <2>1, <2>7
  <2>8. ASSUME NEW k, NEW s, DamageTo([bundle EXCEPT !.members[i].refusal.key = k, !.members[i].refusal.sig = s])
        PROVE  BundleInv'
    BY <1>3, <2>1, <2>8
  <2> QED
    BY <2>2, <2>3, <2>4, <2>5, <2>6, <2>7, <2>8
<1>8. CASE UNCHANGED bundleVars
  BY <1>8 DEF bundleVars, BundleInv
<1> QED
  BY <1>4, <1>5, <1>6, <1>7, <1>8 DEF BundleNext

(* The text that a copy shows under a verdict which does not reject it is a*)
(* report the deal's log holds or its producer signed for this checkpoint, *)
(* or it is said to be unbound.                                            *)
THEOREM ShownTextIsSealed == BundleSpec => []TextIsSealed
<1>1. BundleInv => TextIsSealed
  <2> SUFFICES ASSUME BundleInv, bundle # NoPart, Verdict(bundle) # "INVALID",
                      DealSealedReport(bundle.deal) \notin {NoPart, "history"}
               PROVE  \/ DealSealedReport(bundle.deal) \in Reports /\ origin \in {"in_log", "standalone"}
                      \/ origin = "inline" /\ DealReportEntry(bundle.deal) = "uninterpreted"
    BY DEF TextIsSealed
  <2> DEFINE deal == bundle.deal
  <2>1. CopyOf(deal, origin) /\ origin \in {"in_log", "standalone", "history", "inline", "composed"}
    BY DEF BundleInv
  <2>2. "fail" \notin PageClaims(bundle)
    BY VerdictOfClaims DEF Verdict
  <2>3. DealReportEntry(deal) # "fail" /\ (deal.sale => deal.saleEntry # "fail")
    BY <2>2 DEF PageClaims
  <2>4. ~deal.sale
    BY <2>1, <2>3 DEF CopyOf
  <2> HIDE DEF deal
  <2> SUFFICES \/ DealSealedReport(deal) \in Reports /\ origin \in {"in_log", "standalone"}
               \/ origin = "inline" /\ DealReportEntry(deal) = "uninterpreted"
    BY DEF deal
  <2>5. DealSealedReport(deal) \notin {NoPart, "history"}
    BY DEF deal
  <2>6. CASE deal.standalone # NoPart
    <3>1. origin = "standalone" /\ SealedHere(deal.standalone) /\ deal.lastStepKey = Producer
      BY <2>1, <2>6 DEF CopyOf
    <3>2. deal.pointer # NoPart /\ standaloneReportEntry(deal, deal.standalone) # "fail"
      BY <2>3, <2>6 DEF DealReportEntry
    <3>3. DealSealedReport(deal) \in Reports
      BY <2>6, <3>1, <3>2 DEF standaloneReportEntry, DealSealedReport, SealedHere
    <3> QED
      BY <3>1, <3>3
  <2>7. CASE deal.standalone = NoPart /\ deal.pointer # NoPart
    <3>1. disclosed(deal) = {deal.pointer} /\ deal.pointer \in matched(deal)
      BY <2>3, <2>7 DEF DealReportEntry
    <3>2. deal.pointer \in deal.held
      BY <3>1 DEF matched
    <3>3. origin = "in_log" /\ deal.pointer \in Reports
      BY <2>1, <3>2 DEF CopyOf
    <3>4. DealSealedReport(deal) = deal.pointer
      BY <2>7, <3>1 DEF DealSealedReport
    <3> QED
      BY <3>3, <3>4
  <2>8. CASE deal.standalone = NoPart /\ deal.pointer = NoPart
    <3>1. deal.text \notin {NoPart, "history"}
      BY <2>5, <2>8 DEF DealSealedReport
    <3>2. deal.held = {} /\ ~deal.steps
      BY <2>3, <2>4, <2>8, <3>1 DEF DealReportEntry
    <3>3. origin = "inline"
      BY <2>1, <3>1, <3>2, MadeAssumption DEF CopyOf
    <3>4. DealReportEntry(deal) = "uninterpreted"
      BY <2>4, <2>8, <3>1, <3>2 DEF DealReportEntry
    <3> QED
      BY <3>3, <3>4
  <2> QED
    BY <2>6, <2>7, <2>8
<1> QED
  BY <1>1, BundleInitInv, BundleStep, PTL DEF BundleSpec

------------------------------------------------------------------------------
(* What a leg and a settlement answer for (settlement/verify.go).          *)

LegNames == {"terms", "payer", "payee", "sent", "received", "stray", "bad"}

(* What the proofs know of the contents that exist: each has a known name, *)
(* and of the deliveries against the terms one is the payee's statement    *)
(* that it was sent and one the payer's that it arrived.                   *)
PoolKnown ==
  \A c \in pool :
    /\ c.name \in LegNames
    /\ c.leg = "delivered" /\ c.ref = "terms" =>
         \/ c.direction = "sent" /\ c.name = "sent"
         \/ c.direction = "received" /\ c.name = "received"

(* A name is that of one content: a capsule id is its digest.              *)
NamesApart == \A c, d \in pool : c.name = d.name => c = d

LegsInv ==
  /\ PoolKnown /\ NamesApart
  /\ legs \in Seq([content : pool, id : LegNames, key : SealerKeys \cup {NoLeg}])

(* The contents the parties make at the start are the known ones           *)
(* (SettlementInit, PayeeObservedX402).                                    *)
LEMMA LegsInitInv == SettlementInit => LegsInv
<1> SUFFICES ASSUME SettlementInit PROVE LegsInv
  OBVIOUS
<1>1. PICK r \in Receipts :
        pool = {Content("terms", "terms", "payee", NoLeg), Content("payer", "payer_observed", "payer", "terms"),
               DeliveredSent(TRUE),
               [Content("received", "delivered", "payer", "terms") EXCEPT !.direction = "received"],
               [Content("stray", "delivered", "payer", "elsewhere") EXCEPT !.direction = "received"],
               [Content("bad", "payer_observed", "payer", "terms") EXCEPT !.malformed = TRUE]} \cup
              PayeeObservedX402(r)
  BY DEF SettlementInit
<1>2. \A c \in PayeeObservedX402(r) : c.name = "payee" /\ c.leg = "payee_observed"
  BY DEF PayeeObservedX402, Content
<1>3. ASSUME NEW c \in pool
      PROVE  /\ c.name \in LegNames
             /\ c.leg = "delivered" /\ c.ref = "terms" =>
                  \/ c.direction = "sent" /\ c.name = "sent"
                  \/ c.direction = "received" /\ c.name = "received"
  <2>1. CASE c \in PayeeObservedX402(r)
    BY <1>2, <2>1 DEF LegNames
  <2>2. CASE c \in {Content("terms", "terms", "payee", NoLeg), Content("payer", "payer_observed", "payer", "terms")}
    BY <2>2 DEF LegNames, Content
  <2>3. CASE c = DeliveredSent(TRUE)
    BY <2>3 DEF LegNames, Content, DeliveredSent
  <2>4. CASE c = [Content("received", "delivered", "payer", "terms") EXCEPT !.direction = "received"]
    BY <2>4 DEF LegNames, Content
  <2>5. CASE c = [Content("stray", "delivered", "payer", "elsewhere") EXCEPT !.direction = "received"]
    BY <2>5 DEF LegNames, Content
  <2>6. CASE c = [Content("bad", "payer_observed", "payer", "terms") EXCEPT !.malformed = TRUE]
    BY <2>6 DEF LegNames, Content
  <2> QED BY <1>1, <2>1, <2>2, <2>3, <2>4, <2>5, <2>6
<1>4. PoolKnown
  BY <1>3 DEF PoolKnown
<1>5. legs \in Seq([content : pool, id : LegNames, key : SealerKeys \cup {NoLeg}])
  BY DEF SettlementInit
<1>6. \A c, d \in PayeeObservedX402(r) : c = d
  BY DEF PayeeObservedX402
<1>7. ASSUME NEW c \in pool
      PROVE  /\ c.name = "terms" => c = Content("terms", "terms", "payee", NoLeg)
             /\ c.name = "payer" => c = Content("payer", "payer_observed", "payer", "terms")
             /\ c.name = "sent" => c = DeliveredSent(TRUE)
             /\ c.name = "received" => c = [Content("received", "delivered", "payer", "terms") EXCEPT !.direction = "received"]
             /\ c.name = "stray" => c = [Content("stray", "delivered", "payer", "elsewhere") EXCEPT !.direction = "received"]
             /\ c.name = "bad" => c = [Content("bad", "payer_observed", "payer", "terms") EXCEPT !.malformed = TRUE]
             /\ c.name = "payee" => c \in PayeeObservedX402(r)
  <2>1. CASE c \in PayeeObservedX402(r)
    BY <1>2, <2>1
  <2>2. CASE c = Content("terms", "terms", "payee", NoLeg)
    BY <2>2 DEF Content
  <2>3. CASE c = Content("payer", "payer_observed", "payer", "terms")
    BY <2>3 DEF Content
  <2>4. CASE c = DeliveredSent(TRUE)
    <3>1. c.name = "sent"
      BY <2>4 DEF Content, DeliveredSent
    <3> QED BY <2>4, <3>1
  <2>5. CASE c = [Content("received", "delivered", "payer", "terms") EXCEPT !.direction = "received"]
    <3>1. c.name = "received"
      BY <2>5 DEF Content
    <3> QED BY <2>5, <3>1
  <2>6. CASE c = [Content("stray", "delivered", "payer", "elsewhere") EXCEPT !.direction = "received"]
    <3>1. c.name = "stray"
      BY <2>6 DEF Content
    <3> QED BY <2>6, <3>1
  <2>7. CASE c = [Content("bad", "payer_observed", "payer", "terms") EXCEPT !.malformed = TRUE]
    <3>1. c.name = "bad"
      BY <2>7 DEF Content
    <3> QED BY <2>7, <3>1
  <2> QED BY <1>1, <2>1, <2>2, <2>3, <2>4, <2>5, <2>6, <2>7
<1>8. NamesApart
  <2> SUFFICES ASSUME NEW c \in pool, NEW d \in pool, c.name = d.name PROVE c = d
    BY DEF NamesApart
  <2>1. c.name \in LegNames
    BY <1>4 DEF PoolKnown
  <2> QED BY <1>6, <1>7, <2>1 DEF LegNames
<1> QED BY <1>4, <1>5, <1>8 DEF LegsInv

(* A leg file holds one of the contents, under a name that is known.       *)
LEMMA LegGiven == LegsInv /\ [SettlementNext]_settlementVars => LegsInv'
<1> SUFFICES ASSUME LegsInv, [SettlementNext]_settlementVars PROVE LegsInv'
  OBVIOUS
<1>1. CASE UNCHANGED settlementVars
  BY <1>1 DEF LegsInv, NamesApart, PoolKnown, settlementVars
<1>2. CASE SettlementNext
  <2>1. PICK c \in pool, key \in SealerKeys \cup {NoLeg} : \E id \in {c.name} \cup Claimed(c) :
          legs' = Append(legs, [content |-> c, id |-> id, key |-> key])
    BY <1>2 DEF SettlementNext, GiveLeg
  <2>2. PICK id \in {c.name} \cup Claimed(c) : legs' = Append(legs, [content |-> c, id |-> id, key |-> key])
    BY <2>1
  <2>3. pool' = pool
    BY <1>2 DEF SettlementNext, GiveLeg
  <2>4. Claimed(c) \subseteq LegNames
    BY DEF Claimed, LegNames
  <2>5. id \in LegNames
    BY <2>4 DEF LegsInv, NamesApart, PoolKnown
  <2>6. [content |-> c, id |-> id, key |-> key] \in [content : pool, id : LegNames, key : SealerKeys \cup {NoLeg}]
    BY <2>5
  <2>7. legs' \in Seq([content : pool, id : LegNames, key : SealerKeys \cup {NoLeg}])
    BY <2>2, <2>6 DEF LegsInv
  <2> QED BY <2>3, <2>7 DEF LegsInv, NamesApart, PoolKnown
<1> QED BY <1>1, <1>2

(* A leg in which the verifier found nothing wrong is under its own id, was*)
(* signed by a key accepted for its side, and is well formed (live).       *)
LEMMA LiveIsSound ==
  ASSUME NEW l, live(l)
  PROVE  /\ l.key # NoLeg /\ l.id = l.content.name /\ ~l.content.malformed
         /\ Accepts(l.content.role, l.key)
<1>1. l.id = l.content.name
  BY DEF live, OwnCodes
<1>2. l.key # NoLeg
  BY DEF live, OwnCodes
<1>3. ~l.content.malformed
  BY DEF live, OwnCodes
<1>4. Accepts(l.content.role, l.key)
  BY <1>1, <1>2 DEF live, OwnCodes
<1> QED BY <1>1, <1>2, <1>3, <1>4

(* Whatever leg files are given, what a settlement claims rests on a leg   *)
(* that verified (deliveryEvidence, paymentState, settlementKey).          *)
LEMMA LegsAreEvidence == LegsInv => EvidenceIsLive
<1> SUFFICES ASSUME LegsInv PROVE EvidenceIsLive
  OBVIOUS
<1> DEFINE sound(i) == /\ legs[i].key # NoLeg /\ legs[i].id = legs[i].content.name /\ ~legs[i].content.malformed
                       /\ legs[i].content.ref = "terms" /\ Accepts(legs[i].content.role, legs[i].key)
<1>1. \A kind : \A i \in LegsOf(kind) : i \in DOMAIN legs /\ sound(i) /\ legs[i].content.leg = kind
  BY LiveIsSound DEF LegsOf
<1>2. ASSUME NEW i \in DOMAIN legs PROVE legs[i].content \in pool
  <2> DEFINE legForms == [content : pool, id : LegNames, key : SealerKeys \cup {NoLeg}]
  <2>1. \A l \in legForms : l.content \in pool
    OBVIOUS
  <2>2. legs \in Seq(legForms)
    BY DEF LegsInv
  <2> HIDE DEF legForms
  <2>3. legs[i] \in legForms
    BY <2>2
  <2> QED BY <2>1, <2>3
<1> HIDE DEF sound
<1>3. \A i \in LegsOf("delivered") :
        \/ legs[i].content.direction = "sent" /\ legs[i].content.name = "sent"
        \/ legs[i].content.direction = "received" /\ legs[i].content.name = "received"
  BY <1>1, <1>2 DEF LegsInv, NamesApart, PoolKnown, sound
<1>4. "buyer_receipt" \in deliveryEvidence => \E i \in DOMAIN legs : sound(i) /\ legs[i].content.name = "received"
  BY <1>1, <1>3 DEF deliveryEvidence
<1>5. "seller_handoff" \in deliveryEvidence => \E i \in DOMAIN legs : sound(i) /\ legs[i].content.name = "sent"
  BY <1>1, <1>3 DEF deliveryEvidence
<1>6. "carrier_confirmation" \in deliveryEvidence => \E i \in DOMAIN legs : sound(i) /\ legs[i].content.proof
  BY <1>1 DEF deliveryEvidence
<1>7. ASSUME paymentState = "agreed"
      PROVE  \E i, j \in DOMAIN legs :
               /\ sound(i) /\ sound(j) /\ legs[i].key # legs[j].key
               /\ legs[i].content.leg = "payer_observed" /\ legs[j].content.leg = "payee_observed"
               /\ legs[i].content.value = legs[j].content.value
  <2>1. Joined # {} /\ \A p \in Joined : legs[p[1]].content.value = legs[p[2]].content.value
    BY <1>7 DEF paymentState
  <2>2. PICK p \in LegsOf("payer_observed") \X LegsOf("payee_observed") :
          legs[p[1]].key # legs[p[2]].key /\ legs[p[1]].content.value = legs[p[2]].content.value
    BY <2>1 DEF Joined
  <2>3. p[1] \in LegsOf("payer_observed") /\ p[2] \in LegsOf("payee_observed")
    OBVIOUS
  <2> QED BY <1>1, <2>2, <2>3
<1>8. ASSUME NEW s \in settlements
      PROVE  /\ s.evidence = deliveryEvidence
             /\ settlementKey = "agreed" => paymentState = "agreed"
  <2>1. settlements = {[payment |-> paymentState, evidence |-> deliveryEvidence]}
    BY <1>8 DEF settlements
  <2>2. (CHOOSE t \in settlements : TRUE) = s
    BY <2>1
  <2>3. settlementKey = "agreed" => settlementKey = s.payment
    BY <2>1, <2>2 DEF settlementKey
  <2> QED BY <2>1, <2>3
<1> QED BY <1>4, <1>5, <1>6, <1>7, <1>8 DEF EvidenceIsLive, sound

(* `settlement verify` claims delivery or agreement only from legs that    *)
(* verified, from any leg files over any receipts and any keys.            *)
THEOREM SettlementsRestOnLegs == SettlementSpec => []EvidenceIsLive
<1>1. SettlementInit => LegsInv
  BY LegsInitInv
<1>2. LegsInv /\ [SettlementNext]_settlementVars => LegsInv'
  BY LegGiven
<1>3. LegsInv => EvidenceIsLive
  BY LegsAreEvidence
<1> QED BY <1>1, <1>2, <1>3, PTL DEF SettlementSpec


(* Two sets that are numbered with the same numbers, each number once.     *)
SameNumbers(G, H, u, v) ==
  /\ u \in [G -> Nat] /\ v \in [H -> Nat]
  /\ \A x, y \in G : u[x] = u[y] => x = y
  /\ \A x, y \in H : v[x] = v[y] => x = y
  /\ \A x \in G : \E y \in H : v[y] = u[x]
  /\ \A y \in H : \E x \in G : u[x] = v[y]

(* What has the same number has as many before it in both, fewer than there*)
(* are in all, and no two have as many before them.                        *)
RankedAlike(G, H, u, v) ==
  /\ Cardinality(G) \in Nat /\ Cardinality(H) = Cardinality(G)
  /\ \A g \in G : /\ Cardinality({x \in G : u[x] < u[g]}) \in Nat
                  /\ Cardinality({x \in G : u[x] < u[g]}) < Cardinality(G)
  /\ \A g \in G, h \in H : u[g] = v[h] =>
       Cardinality({y \in H : v[y] < v[h]}) = Cardinality({x \in G : u[x] < u[g]})
  /\ \A g, h \in G : Cardinality({x \in G : u[x] < u[g]}) = Cardinality({x \in G : u[x] < u[h]}) => g = h

(* Counting in either of two sets with the same numbers finds the same.    *)
LEMMA Numbered ==
  ASSUME NEW G, NEW H, NEW u, NEW v, IsFiniteSet(G), SameNumbers(G, H, u, v)
  PROVE  RankedAlike(G, H, u, v)
<1> DEFINE Prior(g) == {x \in G : u[x] < u[g]}
<1> USE DEF SameNumbers
<1>1. PICK b : \A x \in G : b[x] \in H /\ v[b[x]] = u[x]
  <2>1. \A x \in G : [y \in G |-> CHOOSE z \in H : v[z] = u[y]][x] \in H
                   /\ v[[y \in G |-> CHOOSE z \in H : v[z] = u[y]][x]] = u[x]
    OBVIOUS
  <2> QED
    BY <2>1
<1>2. Cardinality(H) = Cardinality(G)
  <2>1. OneByOne(G, H, b)
    BY <1>1 DEF OneByOne
  <2> QED
    BY <2>1, SameCount
<1>3. ASSUME NEW g \in G
      PROVE  /\ IsFiniteSet(Prior(g)) /\ Cardinality(Prior(g)) \in Nat
             /\ Cardinality(Prior(g)) < Cardinality(G)
  <2>1. Prior(g) \in SUBSET G /\ g \notin Prior(g)
    OBVIOUS
  <2> HIDE DEF Prior
  <2>2. Prior(g) # G
    BY <2>1
  <2>3. IsFiniteSet(Prior(g)) /\ Cardinality(Prior(g)) <= Cardinality(G) /\ Cardinality(G) # Cardinality(Prior(g))
    BY <2>1, <2>2, FS_Subset
  <2> QED
    BY <2>3, FS_CardinalityType
<1>4. ASSUME NEW g \in G, NEW h \in H, u[g] = v[h]
      PROVE  Cardinality({y \in H : v[y] < v[h]}) = Cardinality(Prior(g))
  <2>1. PICK S : S = Prior(g)
    OBVIOUS
  <2>2. PICK T : T = {y \in H : v[y] < v[h]}
    OBVIOUS
  <2>3. /\ \A x \in S : b[x] \in T
        /\ \A x, y \in S : b[x] = b[y] => x = y
    BY <1>1, <1>4, <2>1, <2>2
  <2>4. \A y \in T : \E x \in S : b[x] = y
    BY <1>1, <1>4, <2>1, <2>2
  <2>5. OneByOne(S, T, b)
    BY <2>3, <2>4 DEF OneByOne
  <2>6. IsFiniteSet(S)
    BY <1>3, <2>1
  <2>7. Cardinality(T) = Cardinality(S)
    BY <2>5, <2>6, SameCount
  <2> QED
    BY <2>1, <2>2, <2>7
<1>5. ASSUME NEW g \in G, NEW h \in G, u[g] < u[h]
      PROVE  Cardinality(Prior(g)) # Cardinality(Prior(h))
  <2>1. Prior(g) \in SUBSET Prior(h) /\ g \in Prior(h) /\ g \notin Prior(g)
    BY <1>5
  <2> HIDE DEF Prior
  <2> QED
    BY <1>3, <2>1, FS_Subset
<1>6. \A g, h \in G : Cardinality(Prior(g)) = Cardinality(Prior(h)) => g = h
  <2> SUFFICES ASSUME NEW g \in G, NEW h \in G, Cardinality(Prior(g)) = Cardinality(Prior(h)) PROVE g = h
    OBVIOUS
  <2>1. ~(u[g] < u[h]) /\ ~(u[h] < u[g])
    BY <1>5
  <2>2. u[g] \in Nat /\ u[h] \in Nat
    OBVIOUS
  <2> HIDE DEF Prior
  <2>3. u[g] = u[h]
    BY <2>1, <2>2
  <2> QED
    BY <2>3
<1>7. Cardinality(G) \in Nat
  BY FS_CardinalityType
<1> QED
  BY <1>2, <1>3, <1>4, <1>6, <1>7 DEF RankedAlike

(* A leg that is authenticated under an id and a key is any other such.    *)
LEMMA CopiesAreEqual ==
  ASSUME LegsInv, NEW i \in DOMAIN legs, NEW j \in DOMAIN legs,
         authenticated(legs[i]), authenticated(legs[j]), legs[i].id = legs[j].id, legs[i].key = legs[j].key
  PROVE  legs[i] = legs[j]
<1> DEFINE legForms == [content : pool, id : LegNames, key : SealerKeys \cup {NoLeg}]
<1>1. legs \in Seq(legForms)
  BY DEF LegsInv
<1>2. \A l, m \in legForms : l.content = m.content /\ l.id = m.id /\ l.key = m.key => l = m
  OBVIOUS
<1>3. \A l \in legForms : l.content \in pool
  OBVIOUS
<1> HIDE DEF legForms
<1>4. legs[i] \in legForms /\ legs[j] \in legForms
  BY <1>1
<1>5. legs[i].content = legs[j].content
  BY <1>3, <1>4 DEF LegsInv, NamesApart, authenticated
<1> QED
  BY <1>2, <1>4, <1>5

(* Legs of one record of an id: each is of its own, and no leg of two.     *)
LEMMA RecordsApart ==
  /\ \A i : SameRecord(i, i)
  /\ \A i, j : SameRecord(i, j) => SameRecord(j, i)
  /\ \A i, j, k : SameRecord(i, j) /\ SameRecord(j, k) => SameRecord(i, k)
  BY DEF SameRecord, authenticated

(* The verifier reads a leg again unless it is the first of its record.    *)
LEMMA FirstIsRead ==
  ASSUME LegsInv, NEW e, NEW i \in OwnLegs(e)
  PROVE  ReadAgain(i, e.code) <=> \E j \in OwnLegs(e) : j < i /\ SameRecord(i, j)
<1>1. DOMAIN legs = 1 .. Len(legs) /\ Len(legs) \in Nat
  BY DEF LegsInv
<1>2. i \in DOMAIN legs /\ legs[i].id = e.id /\ e.code \in CodesOf(legs[i])
  BY DEF OwnLegs
<1>3. ASSUME NEW j \in 1 .. (i - 1), legs[j].id = legs[i].id, authenticated(legs[j]) <=> authenticated(legs[i]),
             authenticated(legs[i]) => legs[j].key = legs[i].key,
             ~authenticated(legs[i]) => e.code \in CodesOf(legs[j])
      PROVE  j \in OwnLegs(e) /\ j < i /\ SameRecord(i, j)
  <2>1. j \in DOMAIN legs /\ j < i
    BY <1>1, <1>2
  <2>2. authenticated(legs[i]) => legs[j] = legs[i]
    BY <1>2, <1>3, <2>1, CopiesAreEqual
  <2>3. e.code \in CodesOf(legs[j])
    BY <1>2, <1>3, <2>2
  <2>4. SameRecord(i, j)
    BY <1>3 DEF SameRecord, authenticated
  <2> QED
    BY <1>2, <1>3, <2>1, <2>3, <2>4 DEF OwnLegs
<1>4. ASSUME NEW j \in OwnLegs(e), j < i, SameRecord(i, j)
      PROVE  ReadAgain(i, e.code)
  <2>1. j \in 1 .. (i - 1) /\ legs[j].id = legs[i].id /\ e.code \in CodesOf(legs[j])
    BY <1>1, <1>2, <1>4 DEF OwnLegs
  <2>2. /\ authenticated(legs[j]) <=> authenticated(legs[i])
        /\ authenticated(legs[i]) => legs[j].key = legs[i].key
    BY <1>4 DEF SameRecord
  <2> QED
    BY <2>1, <2>2 DEF ReadAgain
<1> QED
  BY <1>3, <1>4 DEF ReadAgain

(* An entry names the record whose first leg it is about.                  *)
LEMMA EntryNamesRecord ==
  ASSUME LegsInv, NEW e \in Entries
  PROVE  /\ e.leg \in OwnLegs(e) /\ \A j \in OwnLegs(e) : SameRecord(e.leg, j) => e.leg <= j
         /\ ReportOf(e).records = {j \in OwnLegs(e) : SameRecord(e.leg, j)}
<1> DEFINE own    == OwnLegs(e)
           Rec(i) == {j \in own : SameRecord(i, j)}
           groups == byRecord(own)
           E(i)   == [leg |-> i, id |-> e.id, code |-> e.code]
           place(g) == Cardinality({h \in groups : Min(h) < Min(g)})
<1>1. own \in SUBSET Nat /\ IsFiniteSet(own)
  <2>1. own \in SUBSET (1 .. Len(legs)) /\ Len(legs) \in Nat
    BY DEF OwnLegs, LegsInv
  <2> HIDE DEF own
  <2>2. IsFiniteSet(1 .. Len(legs))
    BY <2>1, FS_Interval
  <2>3. IsFiniteSet(own)
    BY <2>1, <2>2, FS_Subset
  <2>4. own \in SUBSET Nat
    BY <2>1
  <2> QED
    BY <2>3, <2>4
<1>2. \A f \in Alike(e) : f.leg \in own /\ f = E(f.leg) /\ ~ReadAgain(f.leg, e.code)
  BY DEF Alike, Entries, OwnLegs
<1>3. \A i \in own : ~ReadAgain(i, e.code) => E(i) \in Alike(e)
  BY DEF Alike, Entries, OwnLegs
<1>4. e \in Alike(e)
  BY DEF Alike
<1>5. \A i \in own : ReadAgain(i, e.code) <=> \E j \in own : j < i /\ SameRecord(i, j)
  BY FirstIsRead
<1>6. groups = {Rec(i) : i \in own}
  BY DEF byRecord
<1>7. \A i \in own : i \in Rec(i)
  BY RecordsApart
<1>8. \A i \in own : \A j \in Rec(i) : Rec(j) = Rec(i)
  BY RecordsApart
<1> HIDE DEF own, groups
<1>9. ASSUME NEW g \in groups
      PROVE  Min(g) \in g /\ Min(g) \in own /\ g = Rec(Min(g)) /\ \A j \in g : Min(g) <= j
  <2>1. PICK i \in own : g = Rec(i)
    BY <1>6
  <2>2. g # {} /\ g \in SUBSET Nat /\ g \in SUBSET own
    BY <1>1, <1>7, <2>1
  <2>3. \E n \in g : \A m \in g : n <= m
    BY <2>2, LeastOf
  <2>4. Min(g) \in g /\ \A j \in g : Min(g) <= j
    BY <2>3 DEF Min
  <2> QED
    BY <1>8, <2>1, <2>2, <2>4
<1>10. IsFiniteSet(groups)
  <2>1. groups \in SUBSET (SUBSET own)
    BY <1>6
  <2> QED
    BY <1>1, <2>1, FS_SUBSET, FS_Subset
<1>11. \A f \in Alike(e) : \A j \in Rec(f.leg) : f.leg <= j
  <2> SUFFICES ASSUME NEW f \in Alike(e), NEW j \in Rec(f.leg) PROVE f.leg <= j
    OBVIOUS
  <2>1. ~(j < f.leg) /\ f.leg \in Nat /\ j \in Nat
    BY <1>1, <1>2, <1>5
  <2> QED
    BY <2>1
<1>12. \A f \in Alike(e) : Rec(f.leg) \in groups /\ Min(Rec(f.leg)) = f.leg
  <2> SUFFICES ASSUME NEW f \in Alike(e) PROVE Rec(f.leg) \in groups /\ Min(Rec(f.leg)) = f.leg
    OBVIOUS
  <2>1. f.leg \in own /\ Rec(f.leg) \in groups /\ f.leg \in Rec(f.leg)
    BY <1>2, <1>6, <1>7
  <2>2. Min(Rec(f.leg)) \in own /\ Min(Rec(f.leg)) \in Rec(f.leg) /\ Min(Rec(f.leg)) <= f.leg
    BY <1>9, <2>1
  <2>3. f.leg <= Min(Rec(f.leg))
    BY <1>11, <2>2
  <2>4. f.leg \in Nat /\ Min(Rec(f.leg)) \in Nat
    BY <1>1, <2>1, <2>2
  <2> HIDE DEF Rec
  <2> QED
    BY <2>1, <2>2, <2>3, <2>4
<1>13. \A g \in groups : E(Min(g)) \in Alike(e)
  <2> SUFFICES ASSUME NEW g \in groups PROVE E(Min(g)) \in Alike(e)
    OBVIOUS
  <2>1. Min(g) \in own /\ \A j \in Rec(Min(g)) : Min(g) <= j
    BY <1>9
  <2>2. ASSUME NEW j \in own, SameRecord(Min(g), j) PROVE ~(j < Min(g))
    <3>1. j \in Rec(Min(g))
      BY <2>2
    <3>2. Min(g) <= j /\ Min(g) \in Nat /\ j \in Nat
      BY <1>1, <2>1, <3>1
    <3> QED
      BY <3>2
  <2>3. ~ReadAgain(Min(g), e.code)
    BY <1>5, <2>1, <2>2
  <2> QED
    BY <1>3, <2>1, <2>3
<1> DEFINE u == [g \in groups |-> Min(g)]
           v == [f \in Alike(e) |-> f.leg]
           used == Cardinality({f \in Alike(e) : f.leg < e.leg})
           mine == Rec(e.leg)
<1>14. u \in [groups -> Nat] /\ v \in [Alike(e) -> Nat]
  BY <1>1, <1>2, <1>9
<1>15. /\ \A x, y \in groups : u[x] = u[y] => x = y
       /\ \A x, y \in Alike(e) : v[x] = v[y] => x = y
  BY <1>2, <1>9
<1>16. \A x \in groups : \E y \in Alike(e) : v[y] = u[x]
  BY <1>13
<1>17. \A y \in Alike(e) : \E x \in groups : u[x] = v[y]
  BY <1>12
<1>18. mine \in groups /\ u[mine] = v[e]
  BY <1>4, <1>12
<1>19. {f \in Alike(e) : v[f] < v[e]} = {f \in Alike(e) : f.leg < e.leg}
  BY <1>4
<1>20. \A g \in groups : {x \in groups : u[x] < u[g]} = {x \in groups : Min(x) < Min(g)}
  OBVIOUS
<1> HIDE DEF u, v, Rec, mine
<1>21. SameNumbers(groups, Alike(e), u, v)
  BY <1>14, <1>15, <1>16, <1>17 DEF SameNumbers
<1>22. PICK G : G = groups
  OBVIOUS
<1>23. PICK H : H = Alike(e)
  OBVIOUS
<1>24. PICK p : p = u
  OBVIOUS
<1>25. PICK q : q = v
  OBVIOUS
<1>26. IsFiniteSet(G) /\ SameNumbers(G, H, p, q)
  BY <1>10, <1>21, <1>22, <1>23, <1>24, <1>25
<1>27. RankedAlike(G, H, p, q)
  BY <1>26, Numbered
<1>28. \A g \in groups : Cardinality({x \in G : p[x] < p[g]}) = place(g)
  BY <1>20, <1>22, <1>24
<1>29. Cardinality({y \in H : q[y] < q[e]}) = used
  BY <1>19, <1>23, <1>25
<1>30. used = place(mine)
  BY <1>4, <1>18, <1>22, <1>23, <1>24, <1>25, <1>27, <1>28, <1>29 DEF RankedAlike
<1>31. /\ Cardinality(groups) \in Nat /\ Cardinality(Alike(e)) = Cardinality(groups)
       /\ \A g \in groups : place(g) \in Nat /\ place(g) < Cardinality(groups)
       /\ used = place(mine)
       /\ \A g, h \in groups : place(g) = place(h) => g = h
  <2>1. Cardinality(groups) \in Nat /\ Cardinality(Alike(e)) = Cardinality(groups)
    BY <1>22, <1>23, <1>27 DEF RankedAlike
  <2>2. \A g \in groups : place(g) \in Nat /\ place(g) < Cardinality(groups)
    BY <1>22, <1>27, <1>28 DEF RankedAlike
  <2>3. \A g, h \in groups : place(g) = place(h) => g = h
    <3> SUFFICES ASSUME NEW g \in groups, NEW h \in groups, place(g) = place(h) PROVE g = h
      OBVIOUS
    <3>1. Cardinality({x \in G : p[x] < p[g]}) = Cardinality({x \in G : p[x] < p[h]})
      BY <1>28
    <3> QED
      BY <1>22, <1>27, <3>1 DEF RankedAlike
  <2> QED
    BY <1>30, <2>1, <2>2, <2>3
<1>32. \A g : Before(g, groups) = place(g)
  BY DEF Before
<1> HIDE DEF place, used
<1> DEFINE at   == IF used < Cardinality(groups) THEN used ELSE Cardinality(groups) - 1
           last == used + 1 = Cardinality(Alike(e))
<1>33. {g \in groups : place(g) = at \/ (last /\ place(g) > at)} = {mine}
  <2>1. at = place(mine) /\ place(mine) \in Nat
    BY <1>18, <1>31
  <2>2. \A g \in groups : ~(last /\ place(g) > at)
    BY <1>18, <1>31, <2>1
  <2> QED
    BY <1>18, <1>31, <2>1, <2>2
<1>34. ReportOf(e).records = UNION {g \in groups : place(g) = at \/ (last /\ place(g) > at)}
  BY <1>32 DEF ReportOf, used, groups, own
<1>35. ReportOf(e).records = mine
  BY <1>33, <1>34
<1> QED
  BY <1>2, <1>4, <1>11, <1>35 DEF own, mine, Rec

(* Every leg that has a code is of a record of it, and the first leg of a  *)
(* record has an entry.                                                    *)
LEMMA RecordHasEntry ==
  ASSUME LegsInv, NEW i \in DOMAIN legs, NEW c \in CodesOf(legs[i])
  PROVE  \E e \in Entries : e.code = c /\ i \in ReportOf(e).records
<1> DEFINE own == {j \in DOMAIN legs : legs[j].id = legs[i].id /\ c \in CodesOf(legs[j])}
           rec == {j \in own : SameRecord(i, j)}
<1>1. DOMAIN legs \subseteq Nat
  BY DEF LegsInv
<1>2. rec \in SUBSET Nat /\ i \in rec
  BY <1>1, RecordsApart
<1>3. PICK m \in rec : \A j \in rec : m <= j
  <2> HIDE DEF rec
  <2> QED
    BY <1>2, LeastOf
<1>4. PICK e : e = [leg |-> m, id |-> legs[m].id, code |-> c]
  OBVIOUS
<1>5. m \in DOMAIN legs /\ legs[m].id = legs[i].id /\ c \in CodesOf(legs[m]) /\ SameRecord(i, m)
  BY <1>3
<1>6. OwnLegs(e) = own /\ m \in OwnLegs(e)
  BY <1>4, <1>5 DEF OwnLegs
<1>7. ASSUME NEW j \in OwnLegs(e), SameRecord(m, j) PROVE ~(j < m)
  <2>1. j \in rec
    BY <1>5, <1>6, <1>7, RecordsApart
  <2>2. m <= j /\ m \in Nat /\ j \in Nat
    BY <1>2, <1>3, <2>1
  <2> QED
    BY <2>2
<1>8. ~ReadAgain(m, c)
  <2>1. ReadAgain(m, e.code) <=> \E j \in OwnLegs(e) : j < m /\ SameRecord(m, j)
    BY <1>6, FirstIsRead
  <2> QED
    BY <1>4, <1>7, <2>1
<1>9. e \in Entries
  BY <1>4, <1>5, <1>8 DEF Entries
<1>10. i \in OwnLegs(e) /\ SameRecord(m, i)
  BY <1>2, <1>5, <1>6, RecordsApart
<1>11. i \in ReportOf(e).records
  BY <1>4, <1>9, <1>10, EntryNamesRecord
<1> QED
  BY <1>4, <1>9, <1>11

(* Two entries of a code that name a leg are the entry of its record.      *)
LEMMA EntryIsOne ==
  ASSUME LegsInv, NEW d \in Entries, NEW e \in Entries, d.code = e.code,
         NEW i \in ReportOf(d).records, i \in ReportOf(e).records
  PROVE  d = e
<1>1. /\ d.leg \in OwnLegs(d) /\ \A j \in OwnLegs(d) : SameRecord(d.leg, j) => d.leg <= j
      /\ i \in OwnLegs(d) /\ SameRecord(d.leg, i)
  BY EntryNamesRecord
<1>2. /\ e.leg \in OwnLegs(e) /\ \A j \in OwnLegs(e) : SameRecord(e.leg, j) => e.leg <= j
      /\ i \in OwnLegs(e) /\ SameRecord(e.leg, i)
  BY EntryNamesRecord
<1>3. OwnLegs(d) = OwnLegs(e) /\ d.id = e.id
  BY <1>1, <1>2 DEF OwnLegs
<1>4. SameRecord(d.leg, e.leg) /\ SameRecord(e.leg, d.leg)
  BY <1>1, <1>2, RecordsApart
<1>5. d.leg <= e.leg /\ e.leg <= d.leg
  BY <1>1, <1>2, <1>3, <1>4
<1>6. d.leg \in Nat /\ e.leg \in Nat
  BY <1>1, <1>2 DEF OwnLegs, LegsInv
<1>7. d.leg = e.leg
  BY <1>5, <1>6
<1>8. \A f \in Entries : f = [leg |-> f.leg, id |-> f.id, code |-> f.code]
  BY DEF Entries
<1>9. d = [leg |-> d.leg, id |-> d.id, code |-> d.code] /\ e = [leg |-> e.leg, id |-> e.id, code |-> e.code]
  BY <1>8
<1> QED
  BY <1>3, <1>7, <1>9

(* Whatever leg files are given, every leg answers for itself (reports).   *)
LEMMA LegsAnswer == LegsInv => EachLegAnswers
<1> SUFFICES ASSUME LegsInv PROVE EachLegAnswers
  OBVIOUS
<1> DEFINE Shared(c) == [entry |-> [ids |-> c], code |-> "sealer_conflation", records |-> conflated(c[1], c[2])]
<1>1. \A f \in reports : \/ \E e \in Entries : f = ReportOf(e) /\ f.code = e.code
                         \/ \E c \in Conflations : f = Shared(c)
  <2>1. reports = {ReportOf(e) : e \in Entries} \cup {Shared(c) : c \in Conflations}
    BY DEF reports
  <2>2. \A e \in Entries : ReportOf(e).code = e.code
    BY DEF ReportOf
  <2> HIDE DEF Shared
  <2> QED BY <2>1, <2>2
<1>2. \A e \in Entries : ReportOf(e) \in reports /\ ReportOf(e).code = e.code
  BY DEF reports, ReportOf
<1>3. \A c \in Conflations : Shared(c) \in reports
  BY DEF reports
<1>4. \A l : "sealer_conflation" \notin CodesOf(l)
  BY DEF CodesOf, OwnCodes
<1>5. \A e \in Entries : e.code # "sealer_conflation"
  BY <1>4 DEF Entries
<1>6. ASSUME NEW i \in DOMAIN legs, NEW c \in CodesOf(legs[i])
      PROVE  Cardinality({f \in reports : f.code = c /\ i \in f.records}) = 1
  <2>1. PICK e \in Entries : e.code = c /\ i \in ReportOf(e).records
    BY <1>6, RecordHasEntry
  <2>2. ASSUME NEW f \in reports, f.code = c, i \in f.records PROVE f = ReportOf(e)
    <3>1. PICK d \in Entries : f = ReportOf(d) /\ f.code = d.code
      BY <1>1, <1>4, <2>2
    <3>2. d = e
      BY <2>1, <2>2, <3>1, EntryIsOne
    <3> QED
      BY <3>1, <3>2
  <2>3. {f \in reports : f.code = c /\ i \in f.records} = {ReportOf(e)}
    BY <1>2, <2>1, <2>2
  <2> QED
    BY <2>3, FS_Singleton
<1>7. ASSUME NEW f \in reports, f.code # "sealer_conflation", NEW i \in f.records
      PROVE  f.code \in CodesOf(legs[i]) /\ \A j \in f.records : SameRecord(i, j)
  <2>1. PICK e \in Entries : f = ReportOf(e) /\ f.code = e.code
    BY <1>1, <1>7
  <2>2. f.records = {j \in OwnLegs(e) : SameRecord(e.leg, j)}
    BY <2>1, EntryNamesRecord
  <2>3. f.code \in CodesOf(legs[i])
    BY <2>1, <2>2 DEF OwnLegs
  <2> QED
    BY <2>2, <2>3, RecordsApart
<1>8. ASSUME NEW c \in Conflations
      PROVE  /\ \E i, j \in DOMAIN legs : Conflating(i, j) /\ legs[i].id = c[1] /\ legs[j].id = c[2]
             /\ conflated(c[1], c[2]) =
                  {i \in DOMAIN legs : \E j \in DOMAIN legs :
                     \/ Conflating(i, j) /\ legs[i].id = c[1] /\ legs[j].id = c[2]
                     \/ Conflating(j, i) /\ legs[j].id = c[1] /\ legs[i].id = c[2]}
  <2> DEFINE shared == {i \in DOMAIN legs : \E j \in DOMAIN legs :
                          \/ Conflating(i, j) /\ legs[i].id = c[1] /\ legs[j].id = c[2]
                          \/ Conflating(j, i) /\ legs[j].id = c[1] /\ legs[i].id = c[2]}
  <2>1. PICK i \in DOMAIN legs, j \in DOMAIN legs : Conflating(i, j) /\ c = <<legs[i].id, legs[j].id>>
    BY DEF Conflations
  <2>2. legs[i].id = c[1] /\ legs[j].id = c[2]
    BY <2>1
  <2>3. i \in shared
    BY <2>1, <2>2
  <2> HIDE DEF shared
  <2>4. conflated(c[1], c[2]) = shared
    BY <2>3 DEF conflated, shared
  <2> QED
    BY <2>1, <2>2, <2>4 DEF shared
<1>9. ASSUME NEW f \in reports, f.code = "sealer_conflation", NEW i \in f.records
      PROVE  /\ legs[i].id = legs[i].content.name /\ legs[i].key # NoLeg
             /\ \E j \in f.records : Conflating(i, j) \/ Conflating(j, i)
  <2>1. PICK c \in Conflations : f = Shared(c)
    BY <1>1, <1>5, <1>9
  <2>2. PICK j \in DOMAIN legs :
          \/ Conflating(i, j) /\ legs[i].id = c[1] /\ legs[j].id = c[2]
          \/ Conflating(j, i) /\ legs[j].id = c[1] /\ legs[i].id = c[2]
    BY <1>8, <1>9, <2>1
  <2>3. i \in DOMAIN legs /\ j \in f.records
    BY <1>8, <1>9, <2>1, <2>2
  <2> QED
    BY <2>2, <2>3 DEF Conflating, authenticated
<1>10. ASSUME NEW i \in DOMAIN legs, NEW j \in DOMAIN legs, Conflating(i, j),
              ~legs[i].content.malformed, ~legs[j].content.malformed
       PROVE  \E f \in reports : f.code = "sealer_conflation" /\ i \in f.records /\ j \in f.records
  <2> DEFINE c == <<legs[i].id, legs[j].id>>
  <2>1. c \in Conflations
    <3>1. c \in {<<legs[i].id, legs[k].id>> :
                 k \in {k \in DOMAIN legs : Conflating(i, k) /\ ~legs[i].content.malformed /\ ~legs[k].content.malformed}}
      BY <1>10
    <3> HIDE DEF c
    <3> QED BY <3>1 DEF Conflations
  <2>2. c[1] = legs[i].id /\ c[2] = legs[j].id
    OBVIOUS
  <2> HIDE DEF c
  <2>3. i \in conflated(c[1], c[2]) /\ j \in conflated(c[1], c[2])
    BY <1>8, <1>10, <2>1, <2>2
  <2> QED
    BY <1>3, <2>1, <2>3
<1> QED
  BY <1>6, <1>7, <1>9, <1>10 DEF EachLegAnswers

(* `settlement verify` reports a code of exactly the legs that have it,    *)
(* each once, no report of one record names legs of another, and one of    *)
(* both sides under a key names the observations of that key and no copy   *)
(* that only bears their ids, from any leg files over any receipts.        *)
THEOREM LegsAnswerEach == SettlementSpec => []EachLegAnswers
<1>1. SettlementInit => LegsInv
  BY LegsInitInv
<1>2. LegsInv /\ [SettlementNext]_settlementVars => LegsInv'
  BY LegGiven
<1>3. LegsInv => EachLegAnswers
  BY LegsAnswer
<1> QED BY <1>1, <1>2, <1>3, PTL DEF SettlementSpec

------------------------------------------------------------------------------
(* A contract that is compatible (cli/contract_diff.go).                   *)

(* What a field may say, so far as the rules and the evidence tell apart.  *)
Ruled == {"window", "tier", "grade", "freshness", "sequence"}

(* No rule calls the change of this field breaking.                        *)
Allowed(change) == change \cap Breaking = {}

(* A loop that matched all of short's steps took them in their order.      *)
LEMMA SubsequenceIsIn ==
  ASSUME NEW S, NEW short \in Seq(S), NEW long \in Seq(S), isSubsequence(short, long)
  PROVE  StepsIn(short, long)
<1>1. PICK taken \in [0..Len(long) -> 0..Len(short)] :
        /\ taken[0] = 0 /\ taken[Len(long)] = Len(short)
        /\ \A i \in 1..Len(long) :
             taken[i] = IF taken[i - 1] < Len(short) /\ short[taken[i - 1] + 1] = long[i]
                          THEN taken[i - 1] + 1 ELSE taken[i - 1]
  BY DEF isSubsequence
<1>2. \A k \in DOMAIN short : \E i \in 0..Len(long) :
        taken[i] >= k /\ \A j \in 0..Len(long) : taken[j] >= k => i <= j
  <2> SUFFICES ASSUME NEW k \in DOMAIN short
               PROVE  \E i \in 0..Len(long) : taken[i] >= k /\ \A j \in 0..Len(long) : taken[j] >= k => i <= j
    OBVIOUS
  <2> DEFINE T == {i \in 0..Len(long) : taken[i] >= k}
  <2>1. T \in SUBSET Nat /\ Len(long) \in T
    BY <1>1
  <2>2. PICK i \in T : \A j \in T : i <= j
    BY <2>1, LeastOf
  <2> QED BY <2>2
<1> DEFINE at == [k \in DOMAIN short |->
                    CHOOSE i \in 0..Len(long) :
                      taken[i] >= k /\ \A j \in 0..Len(long) : taken[j] >= k => i <= j]
<1>3. \A k \in DOMAIN short : /\ at[k] \in 0..Len(long) /\ taken[at[k]] >= k
                              /\ \A j \in 0..Len(long) : taken[j] >= k => at[k] <= j
  BY <1>2
<1>4. DOMAIN at = DOMAIN short
  OBVIOUS
<1> HIDE DEF at
<1>5. ASSUME NEW k \in DOMAIN short PROVE at[k] \in DOMAIN long /\ taken[at[k]] = k /\ short[k] = long[at[k]]
  <2>1. k \in 1..Len(short) /\ at[k] \in 0..Len(long) /\ taken[at[k]] \in 0..Len(short) /\ taken[at[k]] >= k
    BY <1>3
  <2>2. at[k] # 0
    BY <1>1, <2>1
  <2>3. at[k] \in 1..Len(long) /\ at[k] - 1 \in 0..Len(long)
    BY <2>1, <2>2
  <2>4. taken[at[k] - 1] \in 0..Len(short) /\ ~(taken[at[k] - 1] >= k)
    BY <1>3, <2>3
  <2>5. taken[at[k]] = IF taken[at[k] - 1] < Len(short) /\ short[taken[at[k] - 1] + 1] = long[at[k]]
                         THEN taken[at[k] - 1] + 1 ELSE taken[at[k] - 1]
    BY <1>1, <2>3
  <2>6. taken[at[k] - 1] + 1 = k /\ taken[at[k]] = k /\ short[k] = long[at[k]]
    BY <2>1, <2>4, <2>5
  <2> QED BY <2>3, <2>6
<1>6. ASSUME NEW k \in DOMAIN short, NEW l \in DOMAIN short, k < l PROVE at[k] < at[l]
  <2>1. taken[at[k]] = k /\ taken[at[l]] = l /\ at[k] \in 0..Len(long) /\ at[l] \in 0..Len(long)
    BY <1>3, <1>5
  <2>2. k \in Nat /\ l \in Nat
    OBVIOUS
  <2>3. at[k] <= at[l]
    BY <1>3, <1>6, <2>1, <2>2
  <2> QED BY <1>6, <2>1, <2>2, <2>3
<1>7. at \in [DOMAIN short -> DOMAIN long]
  BY <1>4, <1>5 DEF at
<1> QED BY <1>5, <1>6, <1>7 DEF StepsIn

(* What holds some steps in their order holds those in them.               *)
LEMMA StepsWithin ==
  ASSUME NEW S, NEW few \in Seq(S), NEW more \in Seq(S), NEW taken \in Seq(S), StepsIn(few, more), StepsIn(more, taken)
  PROVE  StepsIn(few, taken)
<1>1. PICK f \in [DOMAIN few -> DOMAIN more] :
        \A k, l \in DOMAIN few : few[k] = more[f[k]] /\ (k < l => f[k] < f[l])
  BY DEF StepsIn
<1>2. PICK g \in [DOMAIN more -> DOMAIN taken] :
        \A k, l \in DOMAIN more : more[k] = taken[g[k]] /\ (k < l => g[k] < g[l])
  BY DEF StepsIn
<1> DEFINE h == [k \in DOMAIN few |-> g[f[k]]]
<1>3. h \in [DOMAIN few -> DOMAIN taken]
  BY <1>1, <1>2
<1>4. \A k, l \in DOMAIN few : few[k] = taken[h[k]] /\ (k < l => h[k] < h[l])
  BY <1>1, <1>2
<1> QED BY <1>3, <1>4 DEF StepsIn

(* The forms of what a field says.                                         *)
LEMMA FormsGiven ==
  /\ ValuesOf("freshness") = {Missing} \cup Durations /\ Missing \notin Durations
  /\ ValuesOf("sequence") = {Missing} \cup StepLists /\ Missing \notin StepLists
  /\ ValuesOf("tier") = {Missing, "informational", "must_have"}
  /\ Missing \notin {"informational", "must_have"}
<1>1. "freshness" \in Fields /\ "sequence" \in Fields /\ "tier" \in Fields
  BY DEF Fields
<1>2. /\ GivenTo("freshness") = Durations /\ GivenTo("sequence") = StepLists
      /\ GivenTo("tier") = {"informational", "must_have"}
  BY DEF GivenTo
<1>3. \A v \in GivenTo("freshness") \cup GivenTo("sequence") \cup GivenTo("tier") : v # Missing
  BY <1>1, MissingAssumption
<1> QED BY <1>2, <1>3 DEF ValuesOf

Span == {Missing} \cup Durations

LEMMA WindowForms ==
  /\ ValuesOf("window") = {Missing} \cup Windows
  /\ \A v \in Windows : v.duration \in Span /\ v.cure \in Span /\ v.grace \in Span
<1>1. GivenTo("window") = Windows
  BY DEF GivenTo
<1>2. \A v \in [duration : Span, cure : Span, grace : Span, other : {Missing, "said"}] :
        v.duration \in Span /\ v.cure \in Span /\ v.grace \in Span
  OBVIOUS
<1>3. Windows \subseteq [duration : Span, cure : Span, grace : Span, other : {Missing, "said"}]
  BY ContractAssumption DEF Span
<1> QED BY <1>1, <1>2, <1>3 DEF ValuesOf

(* A span whose change breaks nothing lasts no less (compareDurations).    *)
LEMMA NotShorter ==
  ASSUME NEW absent, NEW a, NEW b, Allowed(compareDurations(absent, a, b))
  PROVE  a = b \/ order(Lasting(absent, a), Lasting(absent, b)) \notin {"none", "shorter"}
<1> DEFINE o == order(Lasting(absent, a), Lasting(absent, b))
<1>1. compareDurations(absent, a, b) =
        CASE a = b -> {} [] a # b /\ o = "none" -> Change("changed") [] a # b /\ o = "equal" -> Change("editorial")
          [] a # b /\ o = "shorter" -> Change("tightened") [] OTHER -> Change("loosened")
  BY DEF compareDurations
<1> HIDE DEF o
<1>2. "changed" \in Breaking /\ "tightened" \in Breaking
  BY DEF Breaking
<1> SUFFICES a = b \/ o \notin {"none", "shorter"}
  BY DEF o
<1>3. a # b /\ o = "none" => compareDurations(absent, a, b) = {"changed"}
  BY <1>1 DEF Change
<1>4. a # b /\ o = "shorter" => compareDurations(absent, a, b) = {"tightened"}
  BY <1>1 DEF Change
<1> QED BY <1>2, <1>3, <1>4 DEF Allowed

(* Of two durations the longer is no shorter in months of any length.      *)
LEMMA LongerLasts ==
  ASSUME NEW a \in [months : Nat, days : Nat], NEW b \in [months : Nat, days : Nat],
         a = b \/ order(a, b) \notin {"none", "shorter"}, a # Missing, b # Missing, NEW month \in {28, 31}
  PROVE  Days(a, month) \in Nat /\ Days(b, month) \in Nat /\ Days(a, month) <= Days(b, month)
<1>1. a.months \in Nat /\ a.days \in Nat /\ b.months \in Nat /\ b.days \in Nat
  OBVIOUS
<1>2. Days(a, month) \in Nat /\ Days(b, month) \in Nat
  BY <1>1 DEF Days
<1>3. CASE a = b
  BY <1>2, <1>3
<1>4. CASE a # b
  <2>1. a.months <= b.months /\ a.days <= b.days
    <3> DEFINE dm == Sign(b.months - a.months)
               ds == Sign(b.days - a.days)
    <3>1. dm \in {-1, 0, 1} /\ ds \in {-1, 0, 1}
      BY DEF Sign
    <3>2. (dm = -1 <=> b.months < a.months) /\ (ds = -1 <=> b.days < a.days)
      BY <1>1 DEF Sign
    <3> HIDE DEF dm, ds
    <3>3. order(a, b) = IF dm # 0 /\ ds # 0 /\ dm # ds THEN "none"
                        ELSE IF (IF dm = 0 THEN ds ELSE dm) = 0 THEN "equal"
                        ELSE IF (IF dm = 0 THEN ds ELSE dm) > 0 THEN "longer" ELSE "shorter"
      BY DEF order, dm, ds
    <3>4. dm # -1 /\ ds # -1
      BY <1>4, <3>1, <3>3
    <3> QED BY <1>1, <3>2, <3>4
  <2> QED BY <1>1, <1>2, <2>1 DEF Days
<1> QED BY <1>3, <1>4

(* So does a cure or a grace, none of which is no time.                    *)
LEMMA SpanLasts ==
  ASSUME NEW a \in Span, NEW b \in Span, Allowed(compareDurations(NoTime, a, b)), NEW month \in {28, 31}
  PROVE  /\ Days(Lasting(NoTime, a), month) \in Nat /\ Days(Lasting(NoTime, b), month) \in Nat
         /\ Days(Lasting(NoTime, a), month) <= Days(Lasting(NoTime, b), month)
<1>1. PICK ta, tb : ta = Lasting(NoTime, a) /\ tb = Lasting(NoTime, b)
  OBVIOUS
<1>2. /\ ta \in [months : Nat, days : Nat] /\ tb \in [months : Nat, days : Nat]
      /\ ta # Missing /\ tb # Missing
  <2>1. NoTime \in [months : Nat, days : Nat] /\ NoTime # Missing
    BY MissingAssumption DEF NoTime
  <2> QED BY <1>1, <2>1, FormsGiven, ContractAssumption DEF Lasting, Span
<1>3. ta = tb \/ order(ta, tb) \notin {"none", "shorter"}
  BY <1>1, NotShorter
<1> QED BY <1>1, <1>2, <1>3, LongerLasts

(* Evidence fresh enough for a limit is for one that is not tightened.     *)
LEMMA FreshEnough ==
  ASSUME NEW a \in Span, NEW b \in Span,
         Allowed(compareDurations(Missing, a, b)), NEW age \in Nat, NEW month \in {28, 31}, InTime(a, age, month)
  PROVE  InTime(b, age, month)
<1>1. a = b \/ order(a, b) \notin {"none", "shorter"}
  BY NotShorter DEF Lasting
<1>2. CASE b = Missing
  BY <1>2 DEF InTime
<1>3. CASE b # Missing /\ a = Missing
  BY <1>1, <1>3 DEF order
<1>4. CASE b # Missing /\ a # Missing
  <2>1. a \in [months : Nat, days : Nat] /\ b \in [months : Nat, days : Nat]
    BY <1>4, ContractAssumption DEF Span
  <2>2. Days(a, month) \in Nat /\ Days(b, month) \in Nat /\ Days(a, month) <= Days(b, month)
    BY <1>1, <1>4, <2>1, LongerLasts
  <2> QED BY <1>4, <2>2 DEF InTime
<1> QED BY <1>2, <1>3, <1>4

(* The same for a window, its cure and its grace.                          *)
LEMMA WindowHolds ==
  ASSUME NEW a \in ValuesOf("window"), NEW b \in ValuesOf("window"), Allowed(compareWindow(a, b)),
         NEW e \in EvidenceFor("window"), Meets("window", a, e)
  PROVE  Meets("window", b, e)
<1>1. PICK age \in Ages, month \in {28, 31}, other \in {Missing, "said"} :
        e = [age |-> age, month |-> month, other |-> other]
  BY DEF EvidenceFor
<1>2. e.age \in Nat /\ e.month \in {28, 31}
  BY <1>1, ContractAssumption
<1>3. \A v : Meets("window", v, e) <=>
               v = Missing \/ (v.other = e.other /\ (v.duration = Missing \/ e.age <= Allowance(v, e.month)))
  BY DEF Meets
<1>4. CASE a = b \/ b = Missing
  BY <1>3, <1>4
<1>5. CASE a # b /\ b # Missing /\ a = Missing
  <2>1. compareWindow(a, b) = Change("tightened")
    BY <1>5 DEF compareWindow
  <2> QED BY <2>1 DEF Allowed, Change, Breaking
<1>6. CASE a # b /\ b # Missing /\ a # Missing
  <2>1. /\ a.duration \in Span /\ a.cure \in Span /\ a.grace \in Span
        /\ b.duration \in Span /\ b.cure \in Span /\ b.grace \in Span
    BY <1>6, WindowForms
  <2>2. compareWindow(a, b) = compareDurations(Missing, a.duration, b.duration) \cup
                compareDurations(NoTime, a.cure, b.cure) \cup compareDurations(NoTime, a.grace, b.grace) \cup
                (IF a.other = b.other THEN {} ELSE Change("changed"))
    BY <1>6 DEF compareWindow
  <2>3. /\ Allowed(compareDurations(Missing, a.duration, b.duration))
        /\ Allowed(compareDurations(NoTime, a.cure, b.cure)) /\ Allowed(compareDurations(NoTime, a.grace, b.grace))
    BY <2>2 DEF Allowed
  <2>4. a.other = b.other
    BY <2>2 DEF Allowed, Change, Breaking
  <2>5. a.duration = b.duration \/ order(a.duration, b.duration) \notin {"none", "shorter"}
    BY <2>3, NotShorter DEF Lasting
  <2>6. CASE b.duration = Missing
    BY <1>3, <1>6, <2>4, <2>6
  <2>7. CASE b.duration # Missing
    <3>1. a.duration # Missing
      BY <2>5, <2>7 DEF order
    <3>2. a.duration \in [months : Nat, days : Nat] /\ b.duration \in [months : Nat, days : Nat]
      BY <2>1, <2>7, <3>1, ContractAssumption DEF Span
    <3> DEFINE D(v) == Days(v.duration, e.month)
               C(v) == Days(Lasting(NoTime, v.cure), e.month)
               G(v) == Days(Lasting(NoTime, v.grace), e.month)
    <3>3. D(a) \in Nat /\ D(b) \in Nat /\ D(a) <= D(b)
      BY <1>2, <2>5, <2>7, <3>1, <3>2, LongerLasts
    <3>4. C(a) \in Nat /\ C(b) \in Nat /\ C(a) <= C(b)
      BY <1>2, <2>1, <2>3, SpanLasts
    <3>5. G(a) \in Nat /\ G(b) \in Nat /\ G(a) <= G(b)
      BY <1>2, <2>1, <2>3, SpanLasts
    <3>6. Allowance(a, e.month) = D(a) + C(a) + G(a) /\ Allowance(b, e.month) = D(b) + C(b) + G(b)
      BY DEF Allowance
    <3>7. a.other = e.other /\ e.age <= Allowance(a, e.month)
      BY <1>3, <1>6, <3>1
    <3> HIDE DEF D, C, G
    <3>8. e.age <= Allowance(b, e.month)
      BY <1>2, <3>3, <3>4, <3>5, <3>6, <3>7
    <3> QED BY <1>3, <2>4, <3>7, <3>8
  <2> QED BY <2>6, <2>7
<1> QED BY <1>4, <1>5, <1>6

(* The same for the sets a requirement lists: of some any one will do, of  *)
(* others all are needed.                                                  *)
LEMMA SetsHold ==
  ASSUME NEW f \in {"types", "sources", "approvals"}, NEW a, NEW b,
         Allowed(compareSets(f # "types", a, b)), NEW e, Meets(f, a, e)
  PROVE  Meets(f, b, e)
<1>1. "changed" \in Breaking /\ "tightened" \in Breaking
  BY DEF Breaking
<1> DEFINE sa == SetOf(a)
           sb == SetOf(b)
<1>2. CASE f = "types"
  <2>1. Meets(f, a, e) <=> (a = Missing \/ e.type \in a)
    BY <1>2 DEF Meets
  <2>2. Meets(f, b, e) <=> (b = Missing \/ e.type \in b)
    BY <1>2 DEF Meets
  <2>3. CASE a = b
    BY <2>1, <2>2, <2>3
  <2>4. CASE a # b /\ a = Missing
    <3>1. compareSets(FALSE, a, b) = Change("tightened")
      BY <2>4 DEF compareSets
    <3> QED BY <1>1, <1>2, <3>1 DEF Allowed, Change
  <2>5. CASE a # b /\ a # Missing /\ b # Missing
    <3>1. compareSets(FALSE, a, b) =
            IF sb \ sa # {} /\ sa \ sb # {} THEN Change("changed")
            ELSE IF (sb \ sa # {}) = FALSE THEN Change("tightened") ELSE Change("loosened")
      BY <2>5 DEF compareSets
    <3>2. sa = a /\ sb = b
      BY <2>5 DEF SetOf
    <3>3. b \ a # {} /\ a \ b = {}
      BY <1>1, <1>2, <3>1, <3>2 DEF Allowed, Change
    <3> QED BY <2>1, <2>2, <2>5, <3>3
  <2>6. CASE b = Missing
    BY <2>2, <2>6
  <2> QED BY <2>3, <2>4, <2>5, <2>6
<1>3. CASE f # "types"
  <2>1. Meets(f, a, e) <=> sa \subseteq e.members
    BY <1>3 DEF Meets
  <2>2. Meets(f, b, e) <=> sb \subseteq e.members
    BY <1>3 DEF Meets
  <2>3. CASE a = b \/ sa = sb
    BY <2>1, <2>2, <2>3
  <2>4. CASE a # b /\ sa # sb
    <3>1. compareSets(TRUE, a, b) =
            IF sb \ sa # {} /\ sa \ sb # {} THEN Change("changed")
            ELSE IF (sb \ sa # {}) = TRUE THEN Change("tightened") ELSE Change("loosened")
      BY <2>4 DEF compareSets
    <3>2. sb \subseteq sa
      BY <1>1, <1>3, <3>1 DEF Allowed, Change
    <3> QED BY <2>1, <2>2, <3>2
  <2> QED BY <2>3, <2>4
<1> QED BY <1>2, <1>3

(* A floor is a place on the ladder, or none.                              *)
LEMMA FloorIsPlace ==
  ASSUME NEW v, OnLadder(v)
  PROVE  gradeFloor(v) \in Nat
<1>1. CASE SetOf(v) = {}
  BY <1>1 DEF gradeFloor
<1>2. CASE SetOf(v) # {}
  <2> DEFINE ranks == {GradeRank(g) : g \in v}
  <2>1. v # Missing /\ v # {} /\ v \subseteq ToSet(AssuranceLadder)
    BY <1>2 DEF SetOf, OnLadder
  <2>2. \A g \in v : GradeRank(g) \in Nat
    <3> SUFFICES ASSUME NEW g \in v PROVE GradeRank(g) \in Nat
      OBVIOUS
    <3>1. \E i \in DOMAIN AssuranceLadder : AssuranceLadder[i] = g
      BY <2>1 DEF ToSet
    <3>2. GradeRank(g) \in DOMAIN AssuranceLadder
      BY <3>1 DEF GradeRank
    <3>3. DOMAIN AssuranceLadder = 1..3
      BY DEF AssuranceLadder
    <3> QED BY <3>2, <3>3
  <2>3. ranks \in SUBSET Nat /\ ranks # {}
    BY <2>1, <2>2
  <2>4. \E n \in ranks : \A m \in ranks : n <= m
    BY <2>3, LeastOf
  <2>5. Min(ranks) \in ranks
    BY <2>4 DEF Min
  <2>6. gradeFloor(v) = Min(ranks)
    BY <1>2 DEF gradeFloor
  <2> QED BY <2>3, <2>5, <2>6
<1> QED BY <1>1, <1>2

(* Evidence of a grade is not below a floor that was not raised.           *)
LEMMA GradesHold ==
  ASSUME NEW a, NEW b, Allowed(compareGrades(a, b)), NEW e \in EvidenceFor("grade"), Meets("grade", a, e)
  PROVE  Meets("grade", b, e)
<1>1. \A v : Meets("grade", v, e) <=> OnLadder(v) /\ gradeFloor(v) <= e.rank
  BY DEF Meets
<1>2. CASE a = b
  BY <1>2
<1>3. CASE a # b
  <2>1. "changed" \in Breaking /\ "tightened" \in Breaking
    BY DEF Breaking
  <2>2. OnLadder(a) /\ OnLadder(b)
    BY <1>3, <2>1 DEF compareGrades, Allowed, Change
  <2>3. compareGrades(a, b) = IF gradeFloor(a) = gradeFloor(b) THEN Change("changed")
                ELSE IF gradeFloor(b) > gradeFloor(a) THEN Change("tightened") ELSE Change("loosened")
    BY <1>3, <2>2 DEF compareGrades
  <2>4. gradeFloor(a) \in Nat /\ gradeFloor(b) \in Nat
    BY <2>2, FloorIsPlace
  <2>5. gradeFloor(b) < gradeFloor(a)
    BY <2>1, <2>3, <2>4 DEF Allowed, Change
  <2>6. PICK n \in 0..3 : e = [rank |-> n]
    BY DEF EvidenceFor
  <2>7. e.rank \in Nat
    BY <2>6
  <2> QED BY <1>1, <2>2, <2>4, <2>5, <2>7
<1> QED BY <1>2, <1>3

(* Steps that hold the required ones hold those left of them.              *)
LEMMA SequencesHold ==
  ASSUME NEW a \in ValuesOf("sequence"), NEW b \in ValuesOf("sequence"), Allowed(compareSequence(a, b)),
         NEW e \in EvidenceFor("sequence"), Meets("sequence", a, e)
  PROVE  Meets("sequence", b, e)
<1>1. PICK la, lb : la = StepsOf(a) /\ lb = StepsOf(b)
  OBVIOUS
<1>2. la \in Seq(Members) /\ lb \in Seq(Members)
  BY <1>1, FormsGiven, ContractAssumption DEF StepsOf
<1>3. PICK steps \in StepLists : e = [steps |-> steps]
  BY DEF EvidenceFor
<1>4. e.steps \in Seq(Members)
  BY <1>3, ContractAssumption
<1>5. (Meets("sequence", a, e) <=> StepsIn(la, e.steps)) /\ (Meets("sequence", b, e) <=> StepsIn(lb, e.steps))
  BY <1>1 DEF Meets
<1>6. "changed" \in Breaking /\ "tightened" \in Breaking
  BY DEF Breaking
<1>7. la = lb \/ isSubsequence(lb, la)
  <2> SUFFICES ASSUME la # lb, ~isSubsequence(lb, la) PROVE FALSE
    OBVIOUS
  <2>1. compareSequence(a, b) = IF isSubsequence(la, lb) THEN Change("tightened") ELSE Change("changed")
    BY <1>1 DEF compareSequence
  <2> QED BY <1>6, <2>1 DEF Allowed, Change
<1>8. CASE la = lb
  BY <1>5, <1>8
<1>9. CASE isSubsequence(lb, la)
  <2>1. StepsIn(lb, la)
    BY <1>2, <1>9, SubsequenceIsIn
  <2>2. StepsIn(lb, e.steps)
    BY <1>2, <1>4, <1>5, <2>1, StepsWithin
  <2> QED BY <1>5, <2>2
<1> QED BY <1>7, <1>8, <1>9

(* A requirement as the schema has it, so far as the rules read it.        *)
Formed(r) == Fields \subseteq DOMAIN r /\ \A f \in Ruled : r[f] \in ValuesOf(f)

(* No shape has a rule for the fields that say what is evaluated and how.  *)
LEMMA ShapesHaveRules ==
  ASSUME NEW r
  PROVE  shape(r) # "none" => shapeRules[shape(r)] \subseteq Fields \ {"rule", "mode"}
<1>1. DOMAIN shapeRules = {"native", "outcome", "obligation", "process", "human_role"}
  BY DEF shapeRules
<1>2. \A x \in DOMAIN shapeRules : shapeRules[x] \subseteq Fields \ {"rule", "mode"}
  BY <1>1 DEF shapeRules, withEvidenceRequirements, Fields
<1>3. shape(r) # "none" => shape(r) \in DOMAIN shapeRules
  BY <1>1 DEF shape
<1> QED BY <1>2, <1>3

(* A requirement whose changes break nothing asks of an evidence set no    *)
(* more than it did.                                                       *)
LEMMA RequirementHolds ==
  ASSUME NEW a, NEW b, Formed(a), Formed(b), Allowed(compareRequirement(a, b))
  PROVE  StillMeets(a, b)
<1>1. PICK ruled : ruled = IF shape(a) = shape(b) /\ shape(a) # "none" THEN shapeRules[shape(a)] ELSE {}
  OBVIOUS
<1>2. ruled \subseteq Fields \ {"rule", "mode"}
  BY <1>1, ShapesHaveRules
<1>3. "changed" \in Breaking /\ "tightened" \in Breaking
  BY DEF Breaking
<1>4. compareRequirement(a, b) =
        (UNION {compareField(f, ruled, a[f], b[f]) : f \in Fields}) \cup
        (IF a.statement = b.statement THEN {}
         ELSE IF deterministic(a) /\ deterministic(b) THEN Change("editorial") ELSE Change("changed")) \cup
        (IF a.profile = b.profile THEN {} ELSE Change("changed"))
  BY <1>1 DEF compareRequirement
<1>5. \A f \in Fields : Allowed(compareField(f, ruled, a[f], b[f]))
  BY <1>4 DEF Allowed
<1>6. \A f \in Fields \ ruled : a[f] = b[f]
  BY <1>3, <1>5 DEF compareField, Allowed, Change
<1>7. a.rule = b.rule /\ a.mode = b.mode
  BY <1>2, <1>6 DEF Fields
<1>8. a.profile = b.profile
  BY <1>3, <1>4 DEF Allowed, Change
<1>9. b.mode = "judged" => b.statement = a.statement
  <2> SUFFICES ASSUME b.mode = "judged", b.statement # a.statement PROVE FALSE
    OBVIOUS
  <2>1. ~deterministic(b)
    BY DEF deterministic
  <2> QED BY <1>3, <1>4, <2>1 DEF Allowed, Change
<1>10. shape(a) = shape(b)
  BY <1>7, <1>8 DEF shape
<1>11. \A f \in ruled : Allowed(compareFieldByName(f, ruled, a[f], b[f]))
  BY <1>2, <1>5 DEF compareField
<1>12. Tier(a.tier) = "must_have" \/ Tier(b.tier) = "informational"
  <2>1. Tier(a.tier) \in {"informational", "must_have"} /\ Tier(b.tier) \in {"informational", "must_have"}
    BY FormsGiven DEF Formed, Ruled, Tier
  <2>2. "tier" \in Fields
    BY DEF Fields
  <2>3. CASE "tier" \notin ruled
    BY <1>6, <2>1, <2>2, <2>3
  <2>4. CASE "tier" \in ruled
    <3>1. Allowed(compareTier(a.tier, b.tier))
      BY <1>11, <2>4 DEF compareFieldByName
    <3>2. tierRank["informational"] = 0 /\ tierRank["must_have"] = 1
      BY DEF tierRank
    <3> QED BY <1>3, <2>1, <3>1, <3>2 DEF compareTier, Allowed, Change
  <2> QED BY <2>3, <2>4
<1>13. ASSUME shape(b) # "none", NEW f \in Fields \cap shapeRules[shape(b)], NEW e \in EvidenceFor(f), Meets(f, a[f], e)
       PROVE  Meets(f, b[f], e)
  <2>1. f \in ruled /\ Allowed(compareFieldByName(f, ruled, a[f], b[f]))
    BY <1>1, <1>10, <1>11, <1>13
  <2>2. CASE f = "window"
    <3>1. compareFieldByName(f, ruled, a[f], b[f]) = compareWindow(a[f], b[f])
      BY <2>2 DEF compareFieldByName
    <3>2. a[f] \in ValuesOf("window") /\ b[f] \in ValuesOf("window")
      BY <2>2 DEF Formed, Ruled
    <3> QED BY <1>13, <2>1, <2>2, <3>1, <3>2, WindowHolds
  <2>3. CASE f = "grade"
    <3>1. compareFieldByName(f, ruled, a[f], b[f]) = compareGrades(a[f], b[f])
      BY <2>3 DEF compareFieldByName
    <3> QED BY <1>13, <2>1, <2>3, <3>1, GradesHold
  <2>4. CASE f \in {"types", "sources", "approvals"}
    <3>1. compareFieldByName(f, ruled, a[f], b[f]) = compareSets(f # "types", a[f], b[f])
      BY <2>4 DEF compareFieldByName
    <3> QED BY <1>13, <2>1, <2>4, <3>1, SetsHold
  <2>5. CASE f = "freshness"
    <3>1. compareFieldByName(f, ruled, a[f], b[f]) = compareDurations(Missing, a[f], b[f])
      BY <2>5 DEF compareFieldByName
    <3>2. a[f] \in Span /\ b[f] \in Span
      BY <2>5, FormsGiven DEF Formed, Ruled, Span
    <3>3. PICK age \in Ages, month \in {28, 31} : e = [age |-> age, month |-> month]
      BY <2>5 DEF EvidenceFor
    <3>4. e.age \in Nat /\ e.month \in {28, 31}
      BY <3>3, ContractAssumption
    <3>5. \A v : Meets(f, v, e) <=> InTime(v, e.age, e.month)
      BY <2>5 DEF Meets
    <3> QED BY <1>13, <2>1, <3>1, <3>2, <3>4, <3>5, FreshEnough
  <2>6. CASE f = "sequence"
    <3>1. compareFieldByName(f, ruled, a[f], b[f]) = compareSequence(a[f], b[f])
      BY <2>6 DEF compareFieldByName
    <3>2. a[f] \in ValuesOf("sequence") /\ b[f] \in ValuesOf("sequence")
      BY <2>6 DEF Formed, Ruled
    <3> QED BY <1>13, <2>1, <2>6, <3>1, <3>2, SequencesHold
  <2>7. CASE f \in {"tier", "source_url", "rule", "mode"}
    BY <2>7 DEF EvidenceFor
  <2> QED BY <2>2, <2>3, <2>4, <2>5, <2>6, <2>7 DEF Fields
<1> QED BY <1>7, <1>8, <1>9, <1>12, <1>13 DEF StillMeets

(* A contract whose requirements are formed as the schema has them.        *)
Requirements(reqs) == \E S : reqs \in Seq(S) /\ \A r \in S : Formed(r)

Contract(c) == {"id", "version", "title", "requirements"} \subseteq DOMAIN c /\ Requirements(c.requirements)

FormedInv == Contract(contractA) /\ Contract(contractB)

(* Each requirement is one of the contract's.                              *)
LEMMA RequirementIsFormed ==
  ASSUME NEW c, Contract(c), NEW id \in Ids(c)
  PROVE  Formed(requirementsByID(c)[id])
<1>1. \E i \in DOMAIN c.requirements : c.requirements[i].id = id
  BY DEF Ids
<1> DEFINE at == CHOOSE i \in DOMAIN c.requirements : c.requirements[i].id = id
<1>2. at \in DOMAIN c.requirements
  BY <1>1
<1>3. requirementsByID(c)[id] = c.requirements[at]
  BY DEF requirementsByID, At
<1> HIDE DEF at
<1>4. PICK S : c.requirements \in Seq(S) /\ \A r \in S : Formed(r)
  BY DEF Contract, Requirements
<1>5. c.requirements[at] \in S
  BY <1>2, <1>4, LenProperties, ElementOfSeq
<1> QED BY <1>3, <1>4, <1>5

(* A diff that breaks nothing is of one contract, by its id and its label, *)
(* of the same requirements, each with its changes allowed.                *)
LEMMA PartsAreAllowed ==
  ASSUME NEW a, NEW b, ~breaking(a, b)
  PROVE  /\ a.id = b.id /\ (a.version = b.version => computeContractPin(a).digest = computeContractPin(b).digest)
         /\ Ids(a) = Ids(b)
         /\ \A id \in Ids(a) : Allowed(compareRequirement(requirementsByID(a)[id], requirementsByID(b)[id]))
<1>1. Allowed(diffContracts(a, b))
  BY DEF breaking, Allowed
<1> DEFINE ra == requirementsByID(a)
           rb == requirementsByID(b)
           lost == Ids(a) \ Ids(b)
           gained == Ids(b) \ Ids(a)
           same == again(a, b)
           common == Ids(a) \cap Ids(b)
<1>2. diffContracts(a, b) = compareIdentity(a, b) \cup
     (IF a.title = b.title THEN {} ELSE Change("changed")) \cup
     (IF same # {} THEN Change("requirement_reid") ELSE {}) \cup
     (IF lost \ {p[1] : p \in same} # {} THEN Change("requirement_removed") ELSE {}) \cup
     (IF gained \ {p[2] : p \in same} # {} THEN Change("requirement_added") ELSE {}) \cup
     (IF idsAmong(common, a) = idsAmong(common, b) THEN {} ELSE Change("requirements_reordered")) \cup
     UNION {compareRequirement(ra[id], rb[id]) : id \in common}
  BY DEF diffContracts
<1>3. /\ Allowed(compareIdentity(a, b))
      /\ same # {} => Allowed(Change("requirement_reid"))
      /\ lost \ {p[1] : p \in same} # {} => Allowed(Change("requirement_removed"))
      /\ gained \ {p[2] : p \in same} # {} => Allowed(Change("requirement_added"))
      /\ Allowed(UNION {compareRequirement(ra[id], rb[id]) : id \in common})
  <2> HIDE DEF ra, rb, lost, gained, same, common
  <2> QED BY <1>1, <1>2 DEF Allowed
<1>4. a.id = b.id /\ (a.version = b.version => computeContractPin(a).digest = computeContractPin(b).digest)
  <2>1. "contract_id_changed" \in Breaking /\ "version_reused" \in Breaking
    BY DEF Breaking
  <2> QED BY <1>3, <2>1 DEF compareIdentity, Allowed, Change
<1>5. Ids(a) = Ids(b)
  <2>1. {"requirement_reid", "requirement_removed", "requirement_added"} \subseteq Breaking
    BY DEF Breaking
  <2>2. same = {}
    <3> HIDE DEF same
    <3> QED BY <1>3, <2>1 DEF Allowed, Change
  <2>3. lost \ {p[1] : p \in same} = {} /\ gained \ {p[2] : p \in same} = {}
    <3> HIDE DEF same, lost, gained
    <3> QED BY <1>3, <2>1 DEF Allowed, Change
  <2>4. lost = {} /\ gained = {}
    <3> HIDE DEF same, lost, gained
    <3> QED BY <2>2, <2>3
  <2> QED BY <2>4
<1>6. \A id \in common : Allowed(compareRequirement(ra[id], rb[id]))
  <2> HIDE DEF ra, rb, common
  <2> QED BY <1>3 DEF Allowed
<1> QED BY <1>4, <1>5, <1>6

(* A diff of two formed contracts says what the property asks.             *)
LEMMA CompatibleContracts ==
  ASSUME NEW a, NEW b, Contract(a), Contract(b), ~breaking(a, b)
  PROVE  LET pinA == computeContractPin(a)  pinB == computeContractPin(b) IN
         /\ a.id = b.id /\ (pinA.ref = pinB.ref => pinA.digest = pinB.digest)
         /\ Ids(a) = Ids(b)
         /\ \A id \in Ids(a) : StillMeets(requirementsByID(a)[id], requirementsByID(b)[id])
<1>1. computeContractPin(a).ref = computeContractPin(b).ref => a.version = b.version
  BY DEF computeContractPin
<1>2. ASSUME NEW id \in Ids(a)
      PROVE  StillMeets(requirementsByID(a)[id], requirementsByID(b)[id])
  <2>1. id \in Ids(b) /\ Allowed(compareRequirement(requirementsByID(a)[id], requirementsByID(b)[id]))
    BY PartsAreAllowed
  <2>2. Formed(requirementsByID(a)[id]) /\ Formed(requirementsByID(b)[id])
    BY <2>1, RequirementIsFormed
  <2> QED BY <2>1, <2>2, RequirementHolds
<1> QED BY <1>1, <1>2, PartsAreAllowed

(* A requirement one of whose members is given another value of that kind, *)
(* and a contract one of whose requirements is, stay formed.               *)
LEMMA EditKeepsForm ==
  ASSUME NEW c, Contract(c), NEW i \in DOMAIN c.requirements, NEW f, NEW v, f \in Ruled => v \in ValuesOf(f)
  PROVE  Requirements([c EXCEPT !.requirements[i][f] = v].requirements) /\ Contract([c EXCEPT !.requirements[i][f] = v])
<1>1. PICK S : c.requirements \in Seq(S) /\ \A r \in S : Formed(r)
  BY DEF Contract, Requirements
<1> DEFINE r == c.requirements[i]
           new == [r EXCEPT ![f] = v]
           reqs == [c.requirements EXCEPT ![i] = new]
<1>2. i \in 1..Len(c.requirements) /\ r \in S
  BY <1>1, LenProperties, ElementOfSeq
<1>3. Formed(new)
  <2>1. Formed(r)
    BY <1>1, <1>2
  <2> HIDE DEF r
  <2>2. DOMAIN new = DOMAIN r /\ \A g \in DOMAIN r : new[g] = IF g = f THEN v ELSE r[g]
    OBVIOUS
  <2>3. Ruled \subseteq Fields
    BY DEF Ruled, Fields
  <2> HIDE DEF new
  <2> QED BY <2>1, <2>2, <2>3 DEF Formed
<1>4. Requirements(reqs)
  <2>1. c.requirements \in Seq(S \cup {new})
    BY <1>1, SeqMonotonic
  <2>2. reqs \in Seq(S \cup {new})
    <3> HIDE DEF new
    <3> QED BY <1>2, <2>1, ExceptSeq
  <2> HIDE DEF new, reqs
  <2> QED BY <1>1, <1>3, <2>2 DEF Requirements
<1>5. [c EXCEPT !.requirements[i][f] = v] = [c EXCEPT !.requirements = reqs]
  OBVIOUS
<1> HIDE DEF reqs
<1>6. [c EXCEPT !.requirements = reqs].requirements = reqs /\ DOMAIN [c EXCEPT !.requirements = reqs] = DOMAIN c
  BY DEF Contract
<1> QED BY <1>4, <1>5, <1>6 DEF Contract

(* What a contract starts with is formed.                                  *)
LEMMA NewIsFormed ==
  ASSUME NEW id, NEW kind, NEW mode
  PROVE  Formed(NewRequirement(id, kind, mode))
<1>1. PICK r : r = NewRequirement(id, kind, mode)
  OBVIOUS
<1>2. Fields \subseteq DOMAIN r
  BY <1>1 DEF NewRequirement, Fields
<1>3. r.window = Missing /\ r.tier = Missing /\ r.grade = Missing /\ r.freshness = Missing /\ r.sequence = Missing
  BY <1>1 DEF NewRequirement
<1>4. \A f \in Ruled : r[f] = Missing
  BY <1>3 DEF Ruled
<1>5. \A f : Missing \in ValuesOf(f)
  BY DEF ValuesOf
<1>6. Formed(r)
  BY <1>2, <1>4, <1>5 DEF Formed
<1> QED BY <1>1, <1>6

LEMMA FormedInit == ContractInit => FormedInv
<1> SUFFICES ASSUME ContractInit PROVE FormedInv
  OBVIOUS
<1>1. PICK s \in Shapes :
        contractA = [id |-> "contract", version |-> 1, title |-> "title",
                     requirements |-> <<NewRequirement("r1", s[1], s[2]), NewRequirement("r2", "", "judged")>>]
  BY DEF ContractInit
<1>2. PICK r1, r2 : r1 = NewRequirement("r1", s[1], s[2]) /\ r2 = NewRequirement("r2", "", "judged")
  OBVIOUS
<1>3. contractA.requirements = <<r1, r2>> /\ DOMAIN contractA = {"id", "version", "title", "requirements"}
  BY <1>1, <1>2
<1>4. <<r1, r2>> \in Seq({r1, r2})
  OBVIOUS
<1>5. Formed(r1) /\ Formed(r2)
  BY <1>2, NewIsFormed
<1>6. \A r \in {r1, r2} : Formed(r)
  BY <1>5
<1>7. Requirements(contractA.requirements)
  <2>1. PICK S : S = {r1, r2}
    OBVIOUS
  <2>2. contractA.requirements \in Seq(S) /\ \A r \in S : Formed(r)
    BY <1>3, <1>4, <1>6, <2>1
  <2> QED BY <2>2 DEF Requirements
<1>8. Contract(contractA)
  BY <1>3, <1>7 DEF Contract
<1> QED BY <1>8 DEF ContractInit, FormedInv

(* A contract with other requirements that are formed, or another label,   *)
(* stays formed.                                                           *)
LEMMA WithRequirements ==
  ASSUME NEW c, Contract(c), NEW reqs, Requirements(reqs)
  PROVE  Contract([c EXCEPT !.requirements = reqs])
BY DEF Contract

LEMMA WithMember ==
  ASSUME NEW c, Contract(c), NEW member \in {"id", "version", "title"}, NEW v
  PROVE  Contract([c EXCEPT ![member] = v])
<1>1. [c EXCEPT ![member] = v].requirements = c.requirements /\ DOMAIN [c EXCEPT ![member] = v] = DOMAIN c
  BY DEF Contract
<1> QED BY <1>1 DEF Contract

LEMMA EditKeeps ==
  ASSUME FormedInv, NEW c, Contract(c), EditContract(c)
  PROVE  FormedInv'
<1>1. PICK version : contractB' = [c EXCEPT !.version = version]
  BY DEF EditContract
<1>2. [c EXCEPT !.version = version] = [c EXCEPT !["version"] = version]
  OBVIOUS
<1>3. Contract(contractB')
  BY <1>1, <1>2, WithMember
<1> QED BY <1>3 DEF EditContract, FormedInv, Contract, Requirements

LEMMA RemovalKeepsForm ==
  ASSUME NEW reqs, Requirements(reqs), NEW i \in DOMAIN reqs
  PROVE  Requirements(RemoveAt(reqs, i))
<1>1. PICK S : reqs \in Seq(S) /\ \A r \in S : Formed(r)
  BY DEF Requirements
<1>2. Len(reqs) \in Nat /\ DOMAIN reqs = 1..Len(reqs) /\ i \in 1..Len(reqs) /\ \A j \in 1..Len(reqs) : reqs[j] \in S
  BY <1>1, LenProperties, ElementOfSeq
<1>3. SubSeq(reqs, 1, i - 1) \in Seq(S)
  BY <1>2, SubSeqProperties
<1>4. SubSeq(reqs, i + 1, Len(reqs)) \in Seq(S)
  BY <1>2, SubSeqProperties
<1>5. RemoveAt(reqs, i) \in Seq(S)
  BY <1>3, <1>4, ConcatProperties DEF RemoveAt
<1> QED BY <1>1, <1>5 DEF Requirements

LEMMA TurningKeepsForm ==
  ASSUME NEW reqs, Requirements(reqs)
  PROVE  Requirements(Reverse(reqs))
<1>1. PICK S : reqs \in Seq(S) /\ \A r \in S : Formed(r)
  BY DEF Requirements
<1>2. Len(reqs) \in Nat /\ \A j \in 1..Len(reqs) : reqs[j] \in S
  BY <1>1, LenProperties, ElementOfSeq
<1>3. \A j \in 1..Len(reqs) : (Len(reqs) - j) + 1 \in 1..Len(reqs)
  BY <1>2
<1>4. Reverse(reqs) \in [1..Len(reqs) -> S]
  BY <1>2, <1>3 DEF Reverse
<1>5. Reverse(reqs) \in Seq(S)
  BY <1>2, <1>4, SeqDef
<1> QED BY <1>1, <1>5 DEF Requirements

LEMMA FirstIsThere ==
  ASSUME NEW c, Contract(c), c.requirements # <<>>
  PROVE  1 \in DOMAIN c.requirements
<1>1. PICK S : c.requirements \in Seq(S)
  BY DEF Contract, Requirements
<1>2. Len(c.requirements) \in Nat \ {0} /\ DOMAIN c.requirements = 1..Len(c.requirements)
  BY <1>1, EmptySeq, LenProperties
<1> QED BY <1>2

LEMMA FormedStep == FormedInv /\ [ContractNext]_contractVars => FormedInv'
<1> SUFFICES ASSUME FormedInv, [ContractNext]_contractVars PROVE FormedInv'
  OBVIOUS
<1>1. Contract(contractA) /\ Contract(contractB)
  BY DEF FormedInv
<1>2. CASE EditField
  <2>1. PICK f \in Fields : \E v \in ValuesOf(f) : EditContract([contractB EXCEPT !.requirements[1][f] = v])
    BY <1>2 DEF EditField
  <2>2. PICK v \in ValuesOf(f) : EditContract([contractB EXCEPT !.requirements[1][f] = v])
    BY <2>1
  <2>3. 1 \in DOMAIN contractB.requirements
    BY <1>1, <1>2, FirstIsThere DEF EditField
  <2>4. Contract([contractB EXCEPT !.requirements[1][f] = v])
    BY <1>1, <2>3, EditKeepsForm
  <2> QED BY <2>2, <2>4, EditKeeps
<1>3. CASE EditWording
  <2>1. 1 \in DOMAIN contractB.requirements
    BY <1>1, <1>3, FirstIsThere DEF EditWording
  <2>2. "statement" \notin Ruled /\ "profile" \notin Ruled
    BY DEF Ruled
  <2>3. CASE EditContract([contractB EXCEPT !.requirements[1].statement = "reworded"])
    <3>1. Contract([contractB EXCEPT !.requirements[1]["statement"] = "reworded"])
      BY <1>1, <2>1, <2>2, EditKeepsForm
    <3> QED BY <2>3, <3>1, EditKeeps
  <2>4. CASE EditContract([contractB EXCEPT !.requirements[1].profile = "obligation"])
    <3>1. Contract([contractB EXCEPT !.requirements[1]["profile"] = "obligation"])
      BY <1>1, <2>1, <2>2, EditKeepsForm
    <3> QED BY <2>4, <3>1, EditKeeps
  <2> QED BY <1>3, <2>3, <2>4 DEF EditWording
<1>4. CASE EditList
  <2>1. ASSUME NEW i \in DOMAIN contractB.requirements, EditContract([contractB EXCEPT !.requirements[i].id = "r3"])
        PROVE  FormedInv'
    <3>1. "id" \notin Ruled
      BY DEF Ruled
    <3>2. Contract([contractB EXCEPT !.requirements[i]["id"] = "r3"])
      BY <1>1, <3>1, EditKeepsForm
    <3> QED BY <2>1, <3>2, EditKeeps
  <2>2. ASSUME NEW i \in DOMAIN contractB.requirements,
               EditContract([contractB EXCEPT !.requirements = RemoveAt(@, i)])
        PROVE  FormedInv'
    <3>1. Contract([contractB EXCEPT !.requirements = RemoveAt(contractB.requirements, i)])
      BY <1>1, RemovalKeepsForm, WithRequirements DEF Contract
    <3> QED BY <2>2, <3>1, EditKeeps
  <2>3. CASE EditContract([contractB EXCEPT !.requirements = Reverse(@)])
    <3>1. Contract([contractB EXCEPT !.requirements = Reverse(contractB.requirements)])
      BY <1>1, TurningKeepsForm, WithRequirements DEF Contract
    <3> QED BY <2>3, <3>1, EditKeeps
  <2>4. CASE EditContract([contractB EXCEPT !.id = "another"])
    <3>1. Contract([contractB EXCEPT !["id"] = "another"])
      BY <1>1, WithMember
    <3> QED BY <2>4, <3>1, EditKeeps
  <2> QED BY <1>4, <2>1, <2>2, <2>3, <2>4 DEF EditList
<1>5. CASE PublishContract
  BY <1>1, <1>5 DEF PublishContract, FormedInv, Contract, Requirements
<1>6. CASE UNCHANGED contractVars
  BY <1>1, <1>6 DEF contractVars, FormedInv, Contract, Requirements
<1> QED BY <1>2, <1>3, <1>4, <1>5, <1>6 DEF ContractNext

(* A change of a contract that is not breaking leaves every evidence set   *)
(* that met A good for B, every claim a requirement to name, and each      *)
(* label one contract, for any edits of any kind and number                *)
(* (cli/contract_diff.go diffContracts, compareRequirement).               *)
THEOREM CompatibleIsSafe == ContractSpec => []NonBreakingIsSafe
<1>1. FormedInv => NonBreakingIsSafe
  <2> SUFFICES ASSUME FormedInv, ~breaking(contractA, contractB)
               PROVE  LET pinA == computeContractPin(contractA)  pinB == computeContractPin(contractB) IN
                      /\ contractA.id = contractB.id /\ (pinA.ref = pinB.ref => pinA.digest = pinB.digest)
                      /\ Ids(contractA) = Ids(contractB)
                      /\ \A id \in Ids(contractA) :
                           StillMeets(requirementsByID(contractA)[id], requirementsByID(contractB)[id])
    BY DEF NonBreakingIsSafe
  <2> QED BY CompatibleContracts DEF FormedInv
<1> QED BY <1>1, FormedInit, FormedStep, PTL DEF ContractSpec

------------------------------------------------------------------------------
(* Every case counts once (cli/judge.go).                                  *)

(* The files hold reports and ratings, well formed or not.                 *)
JudgeInv == evaluations \in Seq(Records) /\ second \in Seq(Records) /\ ratings \in Seq(Ratings)

LEMMA JudgeInitInv == JudgeInit => JudgeInv
  BY DEF JudgeInit, JudgeInv

(* To write a record to a file keeps its form.                             *)
LEMMA JudgeStep == JudgeInv /\ [JudgeNext]_judgeVars => JudgeInv'
<1> SUFFICES ASSUME JudgeInv, [JudgeNext]_judgeVars PROVE JudgeInv'
  OBVIOUS
<1>1. CASE WriteReport
  <2>1. PICK r \in Records : evaluations' = Append(evaluations, r)
    BY <1>1 DEF WriteReport
  <2> HIDE DEF Records, Ratings
  <2> QED
    BY <1>1, <2>1 DEF WriteReport, JudgeInv
<1>2. CASE WriteSecond
  <2>1. PICK r \in Records : second' = Append(second, r)
    BY <1>2 DEF WriteSecond
  <2> QED
    BY <1>2, <2>1 DEF WriteSecond, JudgeInv
<1>3. CASE WriteRating
  <2>1. PICK r \in Ratings : ratings' = Append(ratings, r)
    BY <1>3 DEF WriteRating
  <2> QED
    BY <1>3, <2>1 DEF WriteRating, JudgeInv
<1>4. CASE UNCHANGED judgeVars
  BY <1>4 DEF judgeVars, JudgeInv
<1> QED
  BY <1>1, <1>2, <1>3, <1>4 DEF JudgeNext

(* Of a file with one record for each case, so many records are of so many *)
(* cases.                                                                  *)
LEMMA CasesCount ==
  ASSUME NEW set, OnePerCase(set), NEW S \in SUBSET DOMAIN set, IsFiniteSet(S)
  PROVE  /\ IsFiniteSet({set[i].case : i \in S})
         /\ Cardinality({set[i].case : i \in S}) = Cardinality(S)
<1>1. PICK T : T = {set[i].case : i \in S}
  OBVIOUS
<1>2. PICK b : b = [i \in S |-> set[i].case]
  OBVIOUS
<1>3. \A i \in S : b[i] = set[i].case
  BY <1>2
<1>4. \A x, y \in S : b[x] = b[y] => x = y
  BY <1>3 DEF OnePerCase
<1>5. OneByOne(S, T, b)
  BY <1>1, <1>3, <1>4 DEF OneByOne
<1>6. IsFiniteSet(T) /\ Cardinality(T) = Cardinality(S)
  BY <1>5, SameCount
<1> QED
  BY <1>1, <1>6

(* And the record found for a case is the one there is.                    *)
LEMMA TheRecordOf ==
  ASSUME NEW set, DOMAIN set \subseteq Nat, OnePerCase(set), NEW j \in DOMAIN set
  PROVE  ByCase(set, set[j].case) = set[j]
<1>1. \A i \in DOMAIN set : set[i].case = set[j].case <=> i = j
  BY DEF OnePerCase
<1>2. \A i \in DOMAIN set : i <= i
  OBVIOUS
<1>3. (CHOOSE i \in DOMAIN set : set[i].case = set[j].case /\ \A k \in DOMAIN set : set[k].case = set[j].case => k <= i) = j
  BY <1>1, <1>2
<1> QED
  BY <1>3 DEF ByCase

(* Rates are numbers: none is mistaken for what was not measured.          *)
LEMMA RatesAreNumbers ==
  ASSUME NEW k \in Nat, NEW n \in Nat, n # 0
  PROVE  rateMicros(k, n) # Blank
<1>1. 2 * n \in Nat /\ 2 * n > 0 /\ 2 * 1000000 * k + n \in Nat
  OBVIOUS
<1>2. \A x, y \in Nat : y > 0 => x \div y \in Nat
  OBVIOUS
<1>3. rateMicros(k, n) \in Nat
  BY <1>1, <1>2 DEF rateMicros
<1> QED
  BY <1>3, JudgeAssumption

(* Records of two sets that agree in what they say are one.                *)
LEMMA RecordForms == \A r, s \in Records : r.case = s.case /\ r.pin = s.pin /\ r.verdict = s.verdict => r = s
  BY DEF Records

(* Two sets of reports are said to agree throughout when they are the same *)
(* (driftCase, unmatchedA, unmatchedB).                                    *)
LEMMA SameReports ==
  ASSUME NEW a \in Seq(Records), NEW b \in Seq(Records), OnePerCase(a), OnePerCase(b)
  PROVE  LET result == judgeDriftReports(a, b) IN
         (result.drifted = {} /\ result.unmatchedA = {} /\ result.unmatchedB = {}) <=> (ToSet(a) = ToSet(b))
<1> DEFINE shared == {i \in DOMAIN a : a[i].case \in CasesIn(b)}
           cases   == [i \in shared |-> driftCase(a[i], ByCase(b, a[i].case))]
           drifted == {i \in shared : cases[i].drifted}
           alone   == DOMAIN a \ shared
           others  == {j \in DOMAIN b : b[j].case \notin {a[i].case : i \in shared}}
<1>1. DOMAIN b \subseteq Nat
  OBVIOUS
<1>2. (\A i \in DOMAIN a : a[i] \in Records) /\ (\A j \in DOMAIN b : b[j] \in Records)
  OBVIOUS
<1>3. \A i \in shared : i \in DOMAIN a /\ \E j \in DOMAIN b : a[i].case = b[j].case /\ ByCase(b, a[i].case) = b[j]
  BY <1>1, TheRecordOf DEF CasesIn
<1>4. \A i \in shared : cases[i].drifted <=> ~(a[i].pin = ByCase(b, a[i].case).pin /\ a[i].verdict = ByCase(b, a[i].case).verdict)
  BY DEF driftCase
<1>5. ASSUME drifted = {}, alone = {}, others = {} PROVE ToSet(a) = ToSet(b)
  <2>1. ASSUME NEW i \in DOMAIN a PROVE \E j \in DOMAIN b : a[i] = b[j]
    <3>1. i \in shared /\ ~cases[i].drifted
      BY <1>5
    <3>2. PICK j \in DOMAIN b : a[i].case = b[j].case /\ ByCase(b, a[i].case) = b[j]
      BY <1>3, <3>1
    <3>3. a[i].pin = b[j].pin /\ a[i].verdict = b[j].verdict
      BY <1>4, <3>1, <3>2
    <3> QED
      BY <1>2, <3>2, <3>3, RecordForms
  <2>2. ASSUME NEW j \in DOMAIN b PROVE \E i \in DOMAIN a : a[i] = b[j]
    <3>1. PICK i \in shared : a[i].case = b[j].case
      BY <1>5
    <3>2. PICK k \in DOMAIN b : a[i] = b[k]
      BY <2>1, <3>1
    <3>3. k = j
      BY <3>1, <3>2 DEF OnePerCase
    <3> QED
      BY <3>1, <3>2, <3>3
  <2> QED
    BY <2>1, <2>2 DEF ToSet
<1>6. ASSUME ToSet(a) = ToSet(b) PROVE drifted = {} /\ alone = {} /\ others = {}
  <2>1. \A i \in DOMAIN a : \E j \in DOMAIN b : a[i] = b[j]
    BY <1>6 DEF ToSet
  <2>2. \A j \in DOMAIN b : \E i \in DOMAIN a : a[i] = b[j]
    BY <1>6 DEF ToSet
  <2>3. shared = DOMAIN a
    BY <2>1 DEF CasesIn
  <2>4. others = {}
    BY <2>2, <2>3
  <2>5. ASSUME NEW i \in shared PROVE ~cases[i].drifted
    <3>1. PICK j \in DOMAIN b : a[i] = b[j]
      BY <2>1
    <3>2. ByCase(b, a[i].case) = b[j]
      BY <1>1, <3>1, TheRecordOf
    <3> QED
      BY <1>4, <3>1, <3>2
  <2> QED
    BY <2>3, <2>4, <2>5
<1>7. LET result == judgeDriftReports(a, b) IN
      result.drifted = drifted /\ result.unmatchedA = alone /\ result.unmatchedB = others
  BY DEF judgeDriftReports
<1> HIDE DEF drifted, alone, others
<1> QED
  BY <1>5, <1>6, <1>7

(* Every case of two sets of reports is compared, or unmatched of one of   *)
(* them, once.                                                             *)
LEMMA CasesAreSaid ==
  ASSUME NEW a \in Seq(Records), NEW b \in Seq(Records), OnePerCase(a), OnePerCase(b)
  PROVE  LET result == judgeDriftReports(a, b)
             said   == {result.cases[i].case : i \in DOMAIN result.cases} \cup
                       {a[i].case : i \in result.unmatchedA} \cup {b[j].case : j \in result.unmatchedB}
         IN /\ said = CasesIn(a) \cup CasesIn(b)
            /\ Cardinality(said) = Cardinality(DOMAIN result.cases) + Cardinality(result.unmatchedA) +
                                   Cardinality(result.unmatchedB)
            /\ result.rate = Blank <=> DOMAIN result.cases = {}
<1> DEFINE shared == {i \in DOMAIN a : a[i].case \in CasesIn(b)}
           cases   == [i \in shared |-> driftCase(a[i], ByCase(b, a[i].case))]
           drifted == {i \in shared : cases[i].drifted}
           alone   == DOMAIN a \ shared
           others  == {j \in DOMAIN b : b[j].case \notin {a[i].case : i \in shared}}
           ofA     == {a[i].case : i \in shared}
           ofAlone == {a[i].case : i \in alone}
           ofB     == {b[j].case : j \in others}
<1>1. IsFiniteSet(DOMAIN a) /\ IsFiniteSet(DOMAIN b)
  <2>1. DOMAIN a = 1 .. Len(a) /\ DOMAIN b = 1 .. Len(b) /\ Len(a) \in Nat /\ Len(b) \in Nat
    OBVIOUS
  <2> QED
    BY <2>1, FS_Interval
<1>2. shared \in SUBSET DOMAIN a /\ alone \in SUBSET DOMAIN a /\ others \in SUBSET DOMAIN b /\ drifted \in SUBSET shared
  OBVIOUS
<1>3. {cases[i].case : i \in shared} = ofA
  BY DEF driftCase
<1>4. ofA \cup ofAlone \cup ofB = CasesIn(a) \cup CasesIn(b)
  BY DEF CasesIn
<1>5. ofA \cap ofAlone = {} /\ ofA \cap ofB = {}
  OBVIOUS
<1>6. ofAlone \cap ofB = {}
  BY DEF CasesIn
<1>7. LET result == judgeDriftReports(a, b) IN
      /\ result.cases = cases /\ DOMAIN result.cases = shared
      /\ result.unmatchedA = alone /\ result.unmatchedB = others
      /\ result.rate = IF shared = {} THEN Blank ELSE rateMicros(Cardinality(drifted), Cardinality(shared))
  BY DEF judgeDriftReports
<1> HIDE DEF shared, cases, drifted, alone, others
<1>8. /\ IsFiniteSet(shared) /\ IsFiniteSet(alone) /\ IsFiniteSet(others) /\ IsFiniteSet(drifted)
  BY <1>1, <1>2, FS_Subset
<1>9. /\ IsFiniteSet(ofA) /\ Cardinality(ofA) = Cardinality(shared)
      /\ IsFiniteSet(ofAlone) /\ Cardinality(ofAlone) = Cardinality(alone)
      /\ IsFiniteSet(ofB) /\ Cardinality(ofB) = Cardinality(others)
  <2>1. PICK S : S = shared
    OBVIOUS
  <2>2. PICK T : T = alone
    OBVIOUS
  <2>3. PICK U : U = others
    OBVIOUS
  <2>4. OnePerCase(a) /\ S \in SUBSET DOMAIN a /\ T \in SUBSET DOMAIN a /\ IsFiniteSet(S) /\ IsFiniteSet(T)
    BY <1>2, <1>8, <2>1, <2>2
  <2>5. OnePerCase(b) /\ U \in SUBSET DOMAIN b /\ IsFiniteSet(U)
    BY <1>2, <1>8, <2>3
  <2>6. IsFiniteSet({a[i].case : i \in S}) /\ Cardinality({a[i].case : i \in S}) = Cardinality(S)
    BY <2>4, CasesCount
  <2>7. IsFiniteSet({a[i].case : i \in T}) /\ Cardinality({a[i].case : i \in T}) = Cardinality(T)
    BY <2>4, CasesCount
  <2>8. IsFiniteSet({b[i].case : i \in U}) /\ Cardinality({b[i].case : i \in U}) = Cardinality(U)
    BY <2>5, CasesCount
  <2>9. ofA = {a[i].case : i \in S} /\ ofAlone = {a[i].case : i \in T} /\ ofB = {b[i].case : i \in U}
    BY <2>1, <2>2, <2>3
  <2> HIDE DEF ofA, ofAlone, ofB
  <2> QED
    BY <2>1, <2>2, <2>3, <2>6, <2>7, <2>8, <2>9
<1> HIDE DEF ofA, ofAlone, ofB
<1>10. PICK X : X = ofA
  OBVIOUS
<1>11. PICK Y : Y = ofAlone
  OBVIOUS
<1>12. Cardinality(ofA \cup ofAlone \cup ofB) = Cardinality(shared) + Cardinality(alone) + Cardinality(others)
  <2>1. IsFiniteSet(X) /\ IsFiniteSet(Y) /\ X \cap Y = {}
    BY <1>5, <1>9, <1>10, <1>11
  <2>2. PICK S : S = X \cup Y
    OBVIOUS
  <2>3. IsFiniteSet(S) /\ Cardinality(S) = Cardinality(X) + Cardinality(Y)
    BY <2>1, <2>2, DisjointCount
  <2>4. PICK Z : Z = ofB
    OBVIOUS
  <2>5. IsFiniteSet(Z) /\ S \cap Z = {}
    BY <1>5, <1>6, <1>9, <1>10, <1>11, <2>2, <2>4
  <2>6. Cardinality(S \cup Z) = Cardinality(S) + Cardinality(Z)
    BY <2>3, <2>5, DisjointCount
  <2>7. S \cup Z = ofA \cup ofAlone \cup ofB
    BY <1>10, <1>11, <2>2, <2>4
  <2> QED
    BY <1>9, <1>10, <1>11, <2>3, <2>4, <2>6, <2>7
<1>13. (IF shared = {} THEN Blank ELSE rateMicros(Cardinality(drifted), Cardinality(shared))) = Blank <=> shared = {}
  <2>1. Cardinality(drifted) \in Nat /\ Cardinality(shared) \in Nat
    BY <1>8, FS_CardinalityType
  <2>2. shared # {} => Cardinality(shared) # 0
    BY <1>8, FS_EmptySet
  <2> QED
    BY <2>1, <2>2, RatesAreNumbers
<1>14. PICK result : result = judgeDriftReports(a, b)
  OBVIOUS
<1>15. /\ result.cases = cases /\ DOMAIN result.cases = shared
       /\ result.unmatchedA = alone /\ result.unmatchedB = others
       /\ result.rate = Blank <=> shared = {}
  BY <1>7, <1>13, <1>14
<1>16. {result.cases[i].case : i \in DOMAIN result.cases} \cup
       {a[i].case : i \in result.unmatchedA} \cup {b[j].case : j \in result.unmatchedB} = ofA \cup ofAlone \cup ofB
  BY <1>3, <1>15 DEF ofA, ofAlone, ofB
<1> QED
  BY <1>4, <1>12, <1>14, <1>15, <1>16

(* A calibration counts as many ratings as there are rated cases, and none *)
(* the human opposed among those that agreed (summarizeCalibration).       *)
LEMMA RatingsCount ==
  ASSUME NEW a \in Seq(Records), NEW h \in Seq(Ratings), OnePerCase(a), OnePerCase(h)
  PROVE  LET pins    == summarizeCalibration(a, h)
             OfPin(p, cs) == {c \in cs : \E i \in DOMAIN a : a[i].case = c /\ a[i].pin = p}
             against == {h[i].case : i \in {j \in DOMAIN h : h[j].agrees = "no"}}
         IN \A p \in DOMAIN pins :
              /\ pins[p].rated = Cardinality(OfPin(p, CasesIn(h) \cap CasesIn(a)))
              /\ pins[p].agreement <= pins[p].rated - Cardinality(OfPin(p, against \cap CasesIn(a)))
              /\ pins[p].rate = Blank <=> pins[p].rated = 0
<1> DEFINE pins    == summarizeCalibration(a, h)
           OfPin(p, cs) == {c \in cs : \E i \in DOMAIN a : a[i].case = c /\ a[i].pin = p}
           against == {h[i].case : i \in {j \in DOMAIN h : h[j].agrees = "no"}}
<1> SUFFICES ASSUME NEW p \in DOMAIN pins
             PROVE  /\ pins[p].rated = Cardinality(OfPin(p, CasesIn(h) \cap CasesIn(a)))
                    /\ pins[p].agreement <= pins[p].rated - Cardinality(OfPin(p, against \cap CasesIn(a)))
                    /\ pins[p].rate = Blank <=> pins[p].rated = 0
  OBVIOUS
<1> DEFINE evaluated == {i \in DOMAIN a : a[i].pin = p}
           counted   == {i \in evaluated : a[i].case \in CasesIn(h)}
           agreed    == {i \in counted : Agrees(a[i], ByCase(h, a[i].case))}
           opposed   == {i \in counted : a[i].case \in against}
<1>1. /\ pins[p].rated = Cardinality(counted) /\ pins[p].agreement = Cardinality(agreed)
      /\ pins[p].rate = IF counted = {} THEN Blank ELSE rateMicros(Cardinality(agreed), Cardinality(counted))
  <2>1. p \in {a[i].pin : i \in DOMAIN a}
    BY DEF summarizeCalibration
  <2> QED
    BY <2>1 DEF summarizeCalibration
<1> HIDE DEF pins
<1>2. IsFiniteSet(DOMAIN a) /\ DOMAIN h \subseteq Nat
  <2>1. DOMAIN a = 1 .. Len(a) /\ Len(a) \in Nat
    OBVIOUS
  <2>2. DOMAIN h = 1 .. Len(h) /\ Len(h) \in Nat
    OBVIOUS
  <2>3. IsFiniteSet(DOMAIN a)
    BY <2>1, FS_Interval
  <2> QED
    BY <2>2, <2>3
<1>3. OfPin(p, CasesIn(h) \cap CasesIn(a)) = {a[i].case : i \in counted}
  BY DEF CasesIn
<1>4. OfPin(p, against \cap CasesIn(a)) = {a[i].case : i \in opposed}
  BY DEF CasesIn
<1>5. ASSUME NEW i \in opposed PROVE i \notin agreed
  <2>1. PICK j \in DOMAIN h : h[j].agrees = "no" /\ a[i].case = h[j].case
    BY <1>5
  <2>2. ByCase(h, a[i].case) = h[j]
    BY <1>2, <2>1, TheRecordOf
  <2>3. ~Agrees(a[i], h[j])
    BY <2>1, JudgeAssumption DEF Agrees
  <2> QED
    BY <2>2, <2>3
<1>6. /\ counted \in SUBSET DOMAIN a /\ opposed \in SUBSET DOMAIN a
      /\ agreed \cap opposed = {} /\ agreed \cup opposed \in SUBSET counted /\ agreed \in SUBSET counted
      /\ opposed \in SUBSET counted
  BY <1>5
<1> HIDE DEF counted, opposed, agreed, against
<1>7. IsFiniteSet(counted) /\ IsFiniteSet(opposed) /\ IsFiniteSet(agreed)
  <2>1. IsFiniteSet(counted)
    BY <1>2, <1>6, FS_Subset
  <2> QED
    BY <1>6, <2>1, FS_Subset
<1>8. /\ Cardinality({a[i].case : i \in counted}) = Cardinality(counted)
      /\ Cardinality({a[i].case : i \in opposed}) = Cardinality(opposed)
  <2>1. PICK S : S = counted
    OBVIOUS
  <2>2. PICK T : T = opposed
    OBVIOUS
  <2>3. Cardinality({a[i].case : i \in S}) = Cardinality(S)
    <3>1. OnePerCase(a) /\ S \in SUBSET DOMAIN a /\ IsFiniteSet(S)
      BY <1>6, <1>7, <2>1
    <3> QED
      BY <3>1, CasesCount
  <2>4. Cardinality({a[i].case : i \in T}) = Cardinality(T)
    <3>1. OnePerCase(a) /\ T \in SUBSET DOMAIN a /\ IsFiniteSet(T)
      BY <1>6, <1>7, <2>2
    <3> QED
      BY <3>1, CasesCount
  <2> QED
    BY <2>1, <2>2, <2>3, <2>4
<1>9. Cardinality(agreed) + Cardinality(opposed) <= Cardinality(counted)
  <2>1. PICK S : S = agreed \cup opposed
    OBVIOUS
  <2>2. S \in SUBSET counted /\ Cardinality(S) = Cardinality(agreed) + Cardinality(opposed)
    BY <1>6, <1>7, <2>1, DisjointCount
  <2>3. Cardinality(S) <= Cardinality(counted)
    BY <1>7, <2>2, FS_Subset
  <2> QED
    BY <2>2, <2>3
<1>10. Cardinality(agreed) \in Nat /\ Cardinality(opposed) \in Nat /\ Cardinality(counted) \in Nat
  BY <1>7, FS_CardinalityType
<1>11. counted = {} <=> Cardinality(counted) = 0
  BY <1>7, FS_EmptySet
<1>12. pins[p].rate = Blank <=> counted = {}
  BY <1>1, <1>10, <1>11, RatesAreNumbers
<1>13. Cardinality(agreed) <= Cardinality(counted) - Cardinality(opposed)
  BY <1>9, <1>10
<1> QED
  BY <1>1, <1>3, <1>4, <1>8, <1>11, <1>12, <1>13

(* `judge drift reports` and `calibration summarize` count every case once,*)
(* over any reports and ratings they are given.                            *)
THEOREM CountsAreWhole == JudgeSpec => []EveryCaseCounts
<1>1. JudgeInit => JudgeInv
  BY JudgeInitInv
<1>2. JudgeInv /\ [JudgeNext]_judgeVars => JudgeInv'
  BY JudgeStep
<1>3. JudgeInv => EveryCaseCounts
  <2> SUFFICES ASSUME JudgeInv PROVE EveryCaseCounts
    OBVIOUS
  <2>1. \A set : readReportSet(set) => OnePerCase(set)
    BY DEF readReportSet
  <2>2. \A set : readHumanRatings(set) => OnePerCase(set)
    BY DEF readHumanRatings
  <2>3. evaluations \in Seq(Records) /\ second \in Seq(Records) /\ ratings \in Seq(Ratings)
    BY DEF JudgeInv
  <2> QED
    BY <2>1, <2>2, <2>3, SameReports, CasesAreSaid, RatingsCount DEF EveryCaseCounts
<1> QED
  BY <1>1, <1>2, <1>3, PTL DEF JudgeSpec

------------------------------------------------------------------------------
(* A deal bundle that passes is whole (cli/deal_sale_bundle.go).           *)

(* A set of places on a log with a member has a latest one.                *)
LEMMA LatestOf ==
  ASSUME NEW n \in Nat, NEW S \in SUBSET (1..n), S # {}
  PROVE  \E i \in S : \A j \in S : j <= i
<1> DEFINE T == {n - i : i \in S}
<1>1. \A i \in S : n - i \in Nat
  OBVIOUS
<1>2. T \subseteq Nat /\ T # {}
  BY <1>1
<1>3. PICK m \in T : \A k \in T : m <= k
  BY <1>2, LeastOf
<1>4. PICK i \in S : m = n - i
  OBVIOUS
<1>5. ASSUME NEW j \in S PROVE j <= i
  BY <1>3, <1>4
<1> QED BY <1>5

SaleRecords ==
  [kind : {"thread", "thread_opened"}, of : Threads] \cup
  [kind : {"sale_cut"}, heads : [Threads -> Nat]] \cup
  [kind : {"task_authority", "sale"}]

(* What the proof of ListedIsWhole knows of the sale's log, and that a copy*)
(* shows only records that are on it.                                      *)
SaleInv ==
  /\ sale \in [log : Seq(SaleRecords), steps : [Threads -> Nat]]
  /\ copy # NoSale => "shown" \in DOMAIN copy /\ copy.shown \subseteq DOMAIN sale.log

(* The log grows by records of its kinds alone (SaleGrows).                *)
LEMMA DealLogStep ==
  ASSUME SaleInv, RegisterThread \/ OpenThread \/ StepThread \/ CutSale
  PROVE  SaleInv'
<1>1. sale.log \in Seq(SaleRecords) /\ sale.steps \in [Threads -> Nat]
  BY DEF SaleInv
<1>2. sale = [log |-> sale.log, steps |-> sale.steps]
  BY DEF SaleInv
<1>3. copy' = NoSale
  BY DEF RegisterThread, OpenThread, StepThread, CutSale, SaleGrows
<1>4. ASSUME NEW record \in SaleRecords, SaleGrows(record) PROVE SaleInv'
  <2>1. Append(sale.log, record) \in Seq(SaleRecords)
    BY <1>1
  <2>2. sale' = [log |-> Append(sale.log, record), steps |-> sale.steps]
    BY <1>2, <1>4 DEF SaleGrows
  <2> QED BY <1>1, <1>3, <2>1, <2>2 DEF SaleInv
<1>5. CASE RegisterThread
  <2>1. PICK t \in Threads : SaleGrows(Registration(t))
    BY <1>5 DEF RegisterThread
  <2> QED BY <1>4, <2>1 DEF Registration, SaleRecords
<1>6. CASE OpenThread
  <2>1. PICK t \in Threads :
          sale' = [log |-> Append(sale.log, Opening(t)), steps |-> [sale.steps EXCEPT ![t] = 1]]
    BY <1>6 DEF OpenThread
  <2>2. Opening(t) \in SaleRecords
    BY DEF Opening, SaleRecords
  <2>3. Append(sale.log, Opening(t)) \in Seq(SaleRecords) /\ [sale.steps EXCEPT ![t] = 1] \in [Threads -> Nat]
    BY <1>1, <2>2
  <2> QED BY <1>3, <2>1, <2>3 DEF SaleInv
<1>7. CASE StepThread
  <2>1. PICK t \in Threads : sale' = [sale EXCEPT !.steps[t] = @ + 1]
    BY <1>7 DEF StepThread
  <2>2. sale' = [log |-> sale.log, steps |-> [sale.steps EXCEPT ![t] = sale.steps[t] + 1]]
    BY <1>2, <2>1
  <2>3. [sale.steps EXCEPT ![t] = sale.steps[t] + 1] \in [Threads -> Nat]
    BY <1>1
  <2> QED BY <1>1, <1>3, <2>2, <2>3 DEF SaleInv
<1>8. CASE CutSale
  <2>1. SaleCut(sale.steps) \in SaleRecords
    BY <1>1 DEF SaleCut, SaleRecords
  <2> QED BY <1>4, <1>8, <2>1 DEF CutSale
<1> QED BY <1>5, <1>6, <1>7, <1>8

(* A copy that is handed on shows no more than the one it was made from.   *)
LEMMA CopyStep ==
  ASSUME SaleInv, copy # NoSale, sale' = sale,
         "shown" \in DOMAIN copy', copy'.shown \subseteq copy.shown
  PROVE  SaleInv'
BY DEF SaleInv

(* Every step keeps SaleInv.                                               *)
LEMMA SaleStep == SaleInv /\ [SaleNext]_saleVars => SaleInv'
<1> SUFFICES ASSUME SaleInv, [SaleNext]_saleVars PROVE SaleInv'
  OBVIOUS
<1>1. CASE UNCHANGED saleVars
  BY <1>1 DEF SaleInv, saleVars
<1>2. CASE RegisterThread \/ OpenThread \/ StepThread \/ CutSale
  BY <1>2, DealLogStep
<1>3. CASE GiveSaleCopy
  BY <1>3 DEF GiveSaleCopy, SaleInv
<1>4. ASSUME copy # NoSale PROVE "shown" \in DOMAIN copy
  BY <1>4 DEF SaleInv
<1>5. CASE WithholdRecord
  BY <1>4, <1>5, CopyStep DEF WithholdRecord, EditCopy
<1>6. CASE OmitThread
  BY <1>4, <1>6, CopyStep DEF OmitThread, EditCopy
<1>7. CASE ChangeEntry
  <2>1. PICK i, e : EditCopy([copy EXCEPT !.listed[i] = e])
    BY <1>7 DEF ChangeEntry
  <2>2. copy # NoSale
    BY <1>7 DEF ChangeEntry
  <2> QED BY <1>4, <2>1, <2>2, CopyStep DEF EditCopy
<1>8. CASE Demote
  BY <1>4, <1>8, CopyStep DEF Demote, EditCopy
<1>9. CASE ChangeCarried
  <2>1. PICK t, b : EditCopy([copy EXCEPT !.carried[t] = b])
    BY <1>9 DEF ChangeCarried
  <2>2. copy # NoSale
    BY <1>9 DEF ChangeCarried
  <2> QED BY <1>4, <2>1, <2>2, CopyStep DEF EditCopy
<1>10. CASE OlderThread
  BY <1>4, <1>10, CopyStep DEF OlderThread, EditCopy
<1>11. CASE ChangeSection
  BY <1>4, <1>11, CopyStep DEF ChangeSection, EditCopy
<1> QED BY <1>1, <1>2, <1>3, <1>5, <1>6, <1>7, <1>8, <1>9, <1>10, <1>11 DEF SaleNext

------------------------------------------------------------------------------
(* A cut that is read is the latest on the sale's log: a record withheld   *)
(* after it would be a later cut for all the reader knows (cutRead).       *)
LEMMA CutReadIsLatest ==
  ASSUME SaleInv, copy # NoSale, cutRead
  PROVE  LatestShownCut = LatestCut /\ LatestCut \in DOMAIN sale.log /\ LatestCut # 0
<1> DEFINE shown == Positions("sale_cut")
           cuts  == {i \in DOMAIN sale.log : sale.log[i].kind = "sale_cut"}
<1>1. PICK n \in Nat : DOMAIN sale.log = 1..n
  BY DEF SaleInv
<1>2. copy.shown \subseteq 1..n
  BY <1>1 DEF SaleInv
<1>3. shown \subseteq cuts /\ cuts \subseteq 1..n
  BY <1>1, <1>2 DEF Positions
<1>4. shown # {} /\ LatestShownCut = CHOOSE i \in shown : \A j \in shown : j <= i
  BY DEF cutRead, LatestShownCut
<1>5. \E i \in shown : \A j \in shown : j <= i
  <2> HIDE DEF shown
  <2> QED BY <1>3, <1>4, LatestOf
<1>6. LatestShownCut \in shown /\ \A j \in shown : j <= LatestShownCut
  <2> HIDE DEF shown
  <2> QED BY <1>4, <1>5
<1>7. \A j \in cuts \ shown : j < LatestShownCut
  BY DEF cutRead, undisclosed, Positions
<1>8. \A j \in cuts : j <= LatestShownCut
  BY <1>3, <1>6, <1>7
<1>9. LatestCut = CHOOSE i \in cuts : \A j \in cuts : j <= i
  BY <1>3, <1>4 DEF LatestCut
<1>10. \A i \in cuts : (\A j \in cuts : j <= i) => i = LatestShownCut
  BY <1>3, <1>6, <1>8
<1>11. LatestShownCut \in cuts
  BY <1>3, <1>6
<1> HIDE DEF cuts, shown
<1>12. LatestCut = LatestShownCut
  BY <1>8, <1>9, <1>10, <1>11
<1> QED BY <1>1, <1>3, <1>11, <1>12

(* The threads a copy that passes carries are those it lists as present.   *)
LEMMA CarriedArePresent ==
  ASSUME saleBundleEntry = "pass"
  PROVE  DOMAIN copy.carried = presentThreads
<1>1. Cardinality(DOMAIN copy.carried) = Cardinality(presentThreads)
  BY DEF saleBundleEntry
<1>2. DOMAIN copy.carried \subseteq presentThreads
  BY DEF saleBundleEntry, threadFailure
<1>3. IsFiniteSet(presentThreads)
  BY SaleAssumption, FS_Subset DEF presentThreads
<1> QED BY <1>1, <1>2, <1>3, FS_Subset

(* A thread that is carried by a copy that passes is whole: the registered *)
(* one, under this sale, up to the head the latest cut names.              *)
LEMMA CarriedIsWhole ==
  ASSUME SaleInv, copy # NoSale, saleBundleEntry = "pass", NEW t \in DOMAIN copy.carried
  PROVE  /\ copy.carried[t].of = t /\ copy.carried[t].sale = "this"
         /\ LatestCut # 0 /\ copy.carried[t].last = sale.log[LatestCut].heads[t]
         /\ t \in openedBy
<1>1. t \in presentThreads
  BY CarriedArePresent
<1>2. ~threadFailure(t) /\ ~threadNotShown(t) /\ cutRead
  BY <1>1 DEF saleBundleEntry
<1>3. copy.carried[t].of = t /\ copy.carried[t].sale = "this"
  BY <1>1, <1>2 DEF threadFailure, threadBinding
<1>4. t \in openedBy /\ t \in DOMAIN cutHeads
  BY <1>2 DEF threadNotShown
<1>5. copy.carried[t].last = cutHeads[t]
  BY <1>1, <1>2, <1>4 DEF threadFailure
<1>6. cutHeads[t] = sale.log[LatestShownCut].heads[t]
  BY <1>2, <1>4 DEF cutHeads
<1> QED BY <1>2, <1>3, <1>4, <1>5, <1>6, CutReadIsLatest

(* A registration that a copy which passes lists is of a thread that is    *)
(* whole in it, or was never opened.                                       *)
LEMMA PassIsWhole == SaleInv => ListedIsWhole
<1> SUFFICES ASSUME SaleInv, copy # NoSale, saleBundleEntry = "pass", NEW i \in DOMAIN copy.listed
             PROVE  LET t == copy.listed[i].registration IN
                    \/ /\ t \in DOMAIN copy.carried
                       /\ copy.carried[t].of = t /\ copy.carried[t].sale = "this"
                       /\ LatestCut # 0 /\ copy.carried[t].last = sale.log[LatestCut].heads[t]
                    \/ ~HasIn(sale.log, Opening(t)) /\ t \notin DOMAIN copy.carried
  BY DEF ListedIsWhole
<1> DEFINE t == copy.listed[i].registration
<1>1. ~entryFailure(i) /\ ~entryNotShown(i)
  BY DEF saleBundleEntry
<1>2. Matches(i) /\ copy.listed[i].member \in {"present", "never_opened"} /\ Opens(copy.listed[i])
  BY <1>1 DEF entryFailure, entryNotShown
<1>3. CASE t \in DOMAIN copy.carried
  BY <1>3, CarriedIsWhole
<1>4. CASE t \notin DOMAIN copy.carried
  <2> SUFFICES ASSUME NEW k \in DOMAIN sale.log, sale.log[k] = Opening(t) PROVE FALSE
    BY <1>4 DEF HasIn
  <2>1. sale.log[k] \in SaleRecords /\ sale.log[k].kind = "thread_opened" /\ sale.log[k].of = t
    BY DEF SaleInv, Opening
  <2>2. t \in Threads
    BY <2>1 DEF SaleRecords
  <2>3. CASE copy.listed[i].member = "present"
    <3>1. i \in presentEntry(t)
      BY <1>2, <2>3 DEF presentEntry, Opens
    <3>2. t \in presentThreads
      BY <2>2, <3>1 DEF presentThreads
    <3> QED BY <1>4, <3>2, CarriedArePresent
  <2>4. CASE copy.listed[i].member = "never_opened"
    <3>1. undisclosed = {} /\ t \notin openedBy
      BY <1>1, <2>4 DEF entryFailure, entryNotShown
    <3>2. k \in Positions("thread_opened")
      BY <2>1, <3>1 DEF undisclosed, Positions
    <3> QED BY <2>1, <3>1, <3>2 DEF openedBy
  <2> QED BY <1>2, <2>3, <2>4
<1> QED BY <1>3, <1>4

(* However long the sale and whatever is withheld and changed of a copy, a *)
(* copy that passes shows each thread it lists whole.                      *)
THEOREM PassedCopiesAreWhole == SaleSpec => []ListedIsWhole
<1>1. SaleInit => SaleInv
  <2> SUFFICES ASSUME SaleInit PROVE SaleInv
    OBVIOUS
  <2>1. <<OtherRecord("task_authority"), OtherRecord("sale")>> \in Seq(SaleRecords)
    BY DEF OtherRecord, SaleRecords
  <2> QED BY <2>1 DEF SaleInit, SaleInv
<1>2. SaleInv /\ [SaleNext]_saleVars => SaleInv'
  BY SaleStep
<1>3. SaleInv => ListedIsWhole
  BY PassIsWhole
<1> QED BY <1>1, <1>2, <1>3, PTL DEF SaleSpec

------------------------------------------------------------------------------
(* A chain that passes is that of the deals (cli/deal_cadence_verify.go).  *)

(* The position of a leaf's node on the next level is half of its own.     *)
LEMMA ShiftedHalves ==
  ASSUME NEW i \in Nat
  PROVE  /\ Shifted(i)[0] = i
         /\ \A n \in 1..Depth : Shifted(i)[n] = Shifted(i)[n - 1] \div 2
         /\ \A n \in 0..Depth : Shifted(i)[n] \in Nat
<1> DEFINE Solves(g, m) == g = [n \in 0..m |-> IF n = 0 THEN i ELSE g[n - 1] \div 2]
           Unsolved     == {m \in Nat : m <= Depth /\ ~\E g : Solves(g, m)}
<1> Depth \in Nat
  BY CadenceAssumption
<1> HIDE DEF Solves
<1>1. Unsolved = {}
  <2> SUFFICES ASSUME Unsolved # {} PROVE FALSE
    OBVIOUS
  <2>1. PICK m \in Unsolved : \A l \in Unsolved : m <= l
    BY LeastOf
  <2>2. m # 0
    <3>1. Solves([n \in 0..0 |-> i], 0)
      BY DEF Solves
    <3> QED BY <2>1, <3>1
  <2>3. PICK g : Solves(g, m - 1)
    BY <2>1, <2>2
  <2> DEFINE h == [n \in 0..m |-> IF n = m THEN g[m - 1] \div 2 ELSE g[n]]
  <2>4. \A n \in 0..(m - 1) : g[n] = IF n = 0 THEN i ELSE g[n - 1] \div 2
    BY <2>3 DEF Solves
  <2>5. \A n \in 0..m : h[n] = IF n = 0 THEN i ELSE h[n - 1] \div 2
    BY <2>2, <2>4
  <2>6. Solves(h, m)
    BY <2>5 DEF Solves
  <2> QED BY <2>1, <2>6
<1>2. \E g : Solves(g, Depth)
  BY <1>1
<1>3. Shifted(i) = CHOOSE g : Solves(g, Depth)
  BY DEF Shifted, Solves
<1>4. Solves(Shifted(i), Depth)
  BY <1>2, <1>3
<1>5. Shifted(i)[0] = i /\ \A n \in 1..Depth : Shifted(i)[n] = Shifted(i)[n - 1] \div 2
  BY <1>4 DEF Solves
<1> DEFINE Odd == {n \in Nat : n <= Depth /\ Shifted(i)[n] \notin Nat}
<1>6. Odd = {}
  <2> SUFFICES ASSUME Odd # {} PROVE FALSE
    OBVIOUS
  <2>1. PICK n \in Odd : \A l \in Odd : n <= l
    BY LeastOf
  <2> QED BY <1>5, <2>1
<1> QED BY <1>5, <1>6

(* Each level of a tick's tree is made of the one below, from the leaves.  *)
LEMMA LevelsJoin ==
  ASSUME NEW k
  PROVE  /\ \A s \in Slots : Levels(k)[0][s] = LeafAt(k, s)
         /\ \A n \in 1..Depth : \A s \in {Shifted(i)[n] : i \in Slots} :
              Levels(k)[n][s] = CadenceNode(Levels(k)[n - 1][2 * s], Levels(k)[n - 1][2 * s + 1])
<1> DEFINE Leaves     == [s \in Slots |-> LeafAt(k, s)]
           Join(n, b) == [s \in {Shifted(i)[n] : i \in Slots} |-> CadenceNode(b[2 * s], b[2 * s + 1])]
           Solves(g, m) == g = [n \in 0..m |-> IF n = 0 THEN Leaves ELSE Join(n, g[n - 1])]
           Unsolved    == {m \in Nat : m <= Depth /\ ~\E g : Solves(g, m)}
<1> Depth \in Nat
  BY CadenceAssumption
<1>1. Levels(k) = CHOOSE g : Solves(g, Depth)
  BY DEF Levels
<1> HIDE DEF Leaves, Join
<1>2. \A g, m : Solves(g, m) <=> g = [n \in 0..m |-> IF n = 0 THEN Leaves ELSE Join(n, g[n - 1])]
  OBVIOUS
<1> HIDE DEF Solves
<1>3. Unsolved = {}
  <2> SUFFICES ASSUME Unsolved # {} PROVE FALSE
    OBVIOUS
  <2>1. PICK m \in Unsolved : \A l \in Unsolved : m <= l
    BY LeastOf
  <2>2. m # 0
    <3>1. Solves([n \in 0..0 |-> Leaves], 0)
      BY DEF Solves
    <3> QED BY <2>1, <3>1
  <2>3. PICK g : Solves(g, m - 1)
    BY <2>1, <2>2
  <2> DEFINE h == [n \in 0..m |-> IF n = m THEN Join(m, g[m - 1]) ELSE g[n]]
  <2>4. \A n \in 0..(m - 1) : g[n] = IF n = 0 THEN Leaves ELSE Join(n, g[n - 1])
    BY <2>3 DEF Solves
  <2>5. \A n \in 0..m : h[n] = IF n = 0 THEN Leaves ELSE Join(n, h[n - 1])
    BY <2>2, <2>4
  <2>6. Solves(h, m)
    BY <2>5 DEF Solves
  <2> QED BY <2>1, <2>6
<1>4. \E g : Solves(g, Depth)
  BY <1>3
<1>5. Solves(Levels(k), Depth)
  BY <1>1, <1>4
<1>6. Levels(k)[0] = Leaves /\ \A n \in 1..Depth : Levels(k)[n] = Join(n, Levels(k)[n - 1])
  BY <1>5 DEF Solves
<1> QED BY <1>6 DEF Leaves, Join

(* cadenceFold takes the path's nodes in one by one, from the leaf.        *)
LEMMA FoldTakesPath ==
  ASSUME NEW leaf, NEW index, NEW path, Len(path) = Depth
  PROVE  \E fold :
           /\ fold[0] = leaf
           /\ \A n \in 1..Depth :
                fold[n] = IF Shifted(index)[n - 1] % 2 = 0 THEN CadenceNode(fold[n - 1], path[n])
                                                          ELSE CadenceNode(path[n], fold[n - 1])
           /\ cadenceFold(leaf, index, path) = fold[Depth]
<1> DEFINE Take(n, h) == IF Shifted(index)[n - 1] % 2 = 0 THEN CadenceNode(h, path[n]) ELSE CadenceNode(path[n], h)
           Solves(g, m) == g = [n \in 0..m |-> IF n = 0 THEN leaf ELSE Take(n, g[n - 1])]
           Unsolved    == {m \in Nat : m <= Depth /\ ~\E g : Solves(g, m)}
           fold       == CHOOSE g : Solves(g, Depth)
<1> Depth \in Nat
  BY CadenceAssumption
<1>1. cadenceFold(leaf, index, path) = fold[Depth]
  BY DEF cadenceFold
<1> HIDE DEF Take, Solves
<1>3. Unsolved = {}
  <2> SUFFICES ASSUME Unsolved # {} PROVE FALSE
    OBVIOUS
  <2>1. PICK m \in Unsolved : \A l \in Unsolved : m <= l
    BY LeastOf
  <2>2. m # 0
    <3>1. Solves([n \in 0..0 |-> leaf], 0)
      BY DEF Solves
    <3> QED BY <2>1, <3>1
  <2>3. PICK g : Solves(g, m - 1)
    BY <2>1, <2>2
  <2> DEFINE h == [n \in 0..m |-> IF n = m THEN Take(m, g[m - 1]) ELSE g[n]]
  <2>4. \A n \in 0..(m - 1) : g[n] = IF n = 0 THEN leaf ELSE Take(n, g[n - 1])
    BY <2>3 DEF Solves
  <2>5. \A n \in 0..m : h[n] = IF n = 0 THEN leaf ELSE Take(n, h[n - 1])
    BY <2>2, <2>4
  <2>6. Solves(h, m)
    BY <2>5 DEF Solves
  <2> QED BY <2>1, <2>6
<1>4. \E g : Solves(g, Depth)
  BY <1>3
<1>5. Solves(fold, Depth)
  BY <1>4
<1> HIDE DEF fold
<1>6. fold[0] = leaf /\ \A n \in 1..Depth : fold[n] = Take(n, fold[n - 1])
  BY <1>5 DEF Solves
<1> QED BY <1>1, <1>6 DEF Take

(* The node above position i on level n of a tick's tree.                  *)
Above(k, i, n) == Levels(k)[n][Shifted(i)[n]]

(* A node above a position joins the one below it and that one's sibling,  *)
(* in the order the position's bit gives (PathOf, cadenceFold).            *)
LEMMA AboveJoins ==
  ASSUME NEW k, NEW i \in Slots, NEW n \in 1..Depth
  PROVE  LET p == Shifted(i)[n - 1] IN
         Above(k, i, n) = IF p % 2 = 0 THEN CadenceNode(Above(k, i, n - 1), Levels(k)[n - 1][Sibling(p)])
                                       ELSE CadenceNode(Levels(k)[n - 1][Sibling(p)], Above(k, i, n - 1))
<1> DEFINE p == Shifted(i)[n - 1]
           s == Shifted(i)[n]
           below == Levels(k)[n - 1]
<1>1. i \in Nat /\ Depth \in Nat
  BY CadenceAssumption DEF Slots
<1>2. p \in Nat /\ s = p \div 2
  BY <1>1, ShiftedHalves
<1>3. Above(k, i, n) = CadenceNode(below[2 * s], below[2 * s + 1])
  <2>1. s \in {Shifted(j)[n] : j \in Slots}
    OBVIOUS
  <2> QED BY <2>1, LevelsJoin DEF Above
<1>4. Above(k, i, n - 1) = below[p]
  BY DEF Above
<1> HIDE DEF p, s, below
<1>5. CASE p % 2 = 0
  <2>1. 2 * s = p /\ 2 * s + 1 = Sibling(p)
    BY <1>2, <1>5 DEF Sibling
  <2> QED BY <1>3, <1>4, <1>5, <2>1 DEF p, below
<1>6. CASE p % 2 # 0
  <2>1. 2 * s = Sibling(p) /\ 2 * s + 1 = p
    BY <1>2, <1>6 DEF Sibling
  <2> QED BY <1>3, <1>4, <1>6, <2>1 DEF p, below
<1> QED BY <1>5, <1>6

(* A node is known by its two sides, as a hash without collisions is.      *)
LEMMA NodeSides ==
  ASSUME NEW a, NEW b, NEW c, NEW d, CadenceNode(a, b) = CadenceNode(c, d)
  PROVE  a = c /\ b = d
BY DEF CadenceNode

(* A path of the tree's depth that leads from a leaf to the root of a tick *)
(* begins at the leaf that was there: the root has no other (cadenceFold). *)
LEMMA RootHasNoOther ==
  ASSUME NEW k, NEW i \in Slots, NEW leaf, NEW path, Len(path) = Depth,
         cadenceFold(leaf, i, path) = RootOf(k)
  PROVE  leaf = LeafAt(k, i)
<1> Depth \in Nat /\ i \in Nat
  BY CadenceAssumption DEF Slots
<1>1. PICK fold :
        /\ fold[0] = leaf
        /\ \A n \in 1..Depth :
             fold[n] = IF Shifted(i)[n - 1] % 2 = 0 THEN CadenceNode(fold[n - 1], path[n])
                                                   ELSE CadenceNode(path[n], fold[n - 1])
        /\ cadenceFold(leaf, i, path) = fold[Depth]
  BY FoldTakesPath
<1>2. fold[Depth] = Above(k, i, Depth)
  BY <1>1 DEF RootOf, Above, Slots
<1> DEFINE Apart == {m \in Nat : m <= Depth /\ fold[Depth - m] # Above(k, i, Depth - m)}
<1>3. Apart = {}
  <2> SUFFICES ASSUME Apart # {} PROVE FALSE
    OBVIOUS
  <2>1. PICK m \in Apart : \A l \in Apart : m <= l
    BY LeastOf
  <2>2. m # 0
    BY <1>2, <2>1
  <2> DEFINE n == Depth - m + 1
             other == Levels(k)[n - 1][Sibling(Shifted(i)[n - 1])]
  <2>3. n \in 1..Depth /\ n - 1 = Depth - m /\ n = Depth - (m - 1)
    BY <2>1, <2>2
  <2>4. fold[n] = Above(k, i, n)
    BY <2>1, <2>2, <2>3
  <2>5. fold[n] = IF Shifted(i)[n - 1] % 2 = 0 THEN CadenceNode(fold[n - 1], path[n])
                                              ELSE CadenceNode(path[n], fold[n - 1])
    BY <1>1, <2>3
  <2>6. Above(k, i, n) = IF Shifted(i)[n - 1] % 2 = 0 THEN CadenceNode(Above(k, i, n - 1), other)
                                                     ELSE CadenceNode(other, Above(k, i, n - 1))
    BY <2>3, AboveJoins
  <2> HIDE DEF n, other
  <2>7. ASSUME Shifted(i)[n - 1] % 2 = 0 PROVE fold[n - 1] = Above(k, i, n - 1)
    <3>1. CadenceNode(fold[n - 1], path[n]) = CadenceNode(Above(k, i, n - 1), other)
      BY <2>4, <2>5, <2>6, <2>7
    <3> QED BY <3>1, NodeSides
  <2>8. ASSUME Shifted(i)[n - 1] % 2 # 0 PROVE fold[n - 1] = Above(k, i, n - 1)
    <3>1. CadenceNode(path[n], fold[n - 1]) = CadenceNode(other, Above(k, i, n - 1))
      BY <2>4, <2>5, <2>6, <2>8
    <3> QED BY <3>1, NodeSides
  <2>9. fold[n - 1] = Above(k, i, n - 1)
    BY <2>7, <2>8
  <2> QED BY <2>1, <2>3, <2>9
<1>4. fold[0] = Above(k, i, 0)
  <2>1. Depth \notin Apart
    BY <1>3
  <2>2. Depth \in Nat /\ Depth <= Depth /\ Depth - Depth = 0
    OBVIOUS
  <2> QED
    BY <2>1, <2>2
<1>5. Above(k, i, 0) = LeafAt(k, i)
  BY LevelsJoin, ShiftedHalves DEF Above
<1> QED BY <1>1, <1>4, <1>5

(* The path that is given out for a leaf leads from it to the root.        *)
LEMMA PathLeadsToRoot ==
  ASSUME NEW k, NEW i \in Slots
  PROVE  /\ Len(PathOf(k, i)) = Depth
         /\ cadenceFold(LeafAt(k, i), i, PathOf(k, i)) = RootOf(k)
<1> Depth \in Nat /\ i \in Nat
  BY CadenceAssumption DEF Slots
<1> DEFINE path == PathOf(k, i)
           leaf == LeafAt(k, i)
<1>1. Len(path) = Depth /\ \A n \in 1..Depth : path[n] = Levels(k)[n - 1][Sibling(Shifted(i)[n - 1])]
  BY DEF PathOf
<1> HIDE DEF path
<1>2. PICK fold :
        /\ fold[0] = leaf
        /\ \A n \in 1..Depth :
             fold[n] = IF Shifted(i)[n - 1] % 2 = 0 THEN CadenceNode(fold[n - 1], path[n])
                                                   ELSE CadenceNode(path[n], fold[n - 1])
        /\ cadenceFold(leaf, i, path) = fold[Depth]
  BY <1>1, FoldTakesPath, SMTT(30)
<1>3. fold[0] = Above(k, i, 0)
  BY <1>2, LevelsJoin, ShiftedHalves DEF Above
<1> DEFINE Apart == {n \in Nat : n <= Depth /\ fold[n] # Above(k, i, n)}
<1>4. Apart = {}
  <2> SUFFICES ASSUME Apart # {} PROVE FALSE
    OBVIOUS
  <2>1. PICK n \in Apart : \A l \in Apart : n <= l
    BY LeastOf
  <2>2. n \in 1..Depth
    BY <1>3, <2>1
  <2>3. fold[n - 1] = Above(k, i, n - 1)
    BY <2>1, <2>2
  <2>4. path[n] = Levels(k)[n - 1][Sibling(Shifted(i)[n - 1])]
    BY <1>1, <2>2
  <2>5. fold[n] = IF Shifted(i)[n - 1] % 2 = 0 THEN CadenceNode(fold[n - 1], path[n])
                                              ELSE CadenceNode(path[n], fold[n - 1])
    BY <1>2, <2>2
  <2>6. Above(k, i, n) = IF Shifted(i)[n - 1] % 2 = 0
                         THEN CadenceNode(Above(k, i, n - 1), Levels(k)[n - 1][Sibling(Shifted(i)[n - 1])])
                         ELSE CadenceNode(Levels(k)[n - 1][Sibling(Shifted(i)[n - 1])], Above(k, i, n - 1))
    BY <2>2, AboveJoins
  <2>7. fold[n] = Above(k, i, n)
    BY <2>3, <2>4, <2>5, <2>6
  <2> QED BY <2>1, <2>7
<1>5. fold[Depth] = RootOf(k)
  BY <1>4 DEF RootOf, Above, Slots
<1> QED BY <1>1, <1>2, <1>5 DEF path

------------------------------------------------------------------------------
(* The chain of tick k for the deal, as it is given away (GiveBundle).     *)
GivenChain(d, k) ==
  [checkpoint |-> DealCheckpoint(d, sizes[d]), verified |-> TRUE,
   part    |-> ticks[k].size[d] < sizes[d],
   earlier |-> DealCheckpoint(d, ticks[k].size[d]), earlierSigned |-> TRUE, proof |-> TRUE,
   log |-> d, size |-> ticks[k].size[d], index |-> ticks[k].slot[d], salt |-> Salt(k, d),
   path |-> PathOf(k, ticks[k].slot[d]),
   cadence |-> CadenceCheckpoint(k), named |-> "cadence", signed |-> TRUE, entry |-> k]

(* The checkpoint of a chain has a size, whatever it was changed to.       *)
ChainHasSize ==
  /\ "checkpoint" \in DOMAIN chain /\ "size" \in DOMAIN chain.checkpoint
  /\ chain.checkpoint.size \in Nat

(* At each tick every deal has a position of its own and is no longer than *)
(* it is now, and a chain nothing was done to is one that was given away.  *)
CadenceInv ==
  /\ sizes \in [Deals -> Nat] /\ tampers \in Nat
  /\ ticks \in Seq([slot : [Deals -> Slots], size : [Deals -> Nat], receipt : BOOLEAN])
  /\ \A k \in DOMAIN ticks : \A d \in Deals :
       /\ ticks[k].size[d] <= sizes[d]
       /\ \A e \in Deals : d # e => ticks[k].slot[d] # ticks[k].slot[e]
  /\ chain # NoChain => ChainHasSize
  /\ chain # NoChain /\ tampers = 0 => \E d \in Deals, k \in DOMAIN ticks : chain = GivenChain(d, k)

(* What CadenceInv says of one tick.                                       *)
LEMMA TickTyped ==
  ASSUME CadenceInv, NEW k \in DOMAIN ticks
  PROVE  ticks[k].slot \in [Deals -> Slots] /\ ticks[k].size \in [Deals -> Nat]
<1> DEFINE tick == [slot : [Deals -> Slots], size : [Deals -> Nat], receipt : BOOLEAN]
<1>1. \A t \in tick : t.slot \in [Deals -> Slots] /\ t.size \in [Deals -> Nat]
  OBVIOUS
<1>2. ticks \in Seq(tick)
  BY DEF CadenceInv
<1> HIDE DEF tick
<1>3. ticks[k] \in tick
  BY <1>2
<1> QED BY <1>1, <1>3

(* The tree over given leaves: a tick's tree is made of its leaves alone.  *)
TreeOf(leaves) ==
  LET level[n \in 0..Depth] ==
        IF n = 0 THEN leaves
        ELSE [s \in {Shifted(i)[n] : i \in Slots} |-> CadenceNode(level[n - 1][2 * s], level[n - 1][2 * s + 1])]
  IN level

(* While the ticks stay, so do their trees.                                *)
LEMMA SameLevels ==
  ASSUME NEW k, ticks' = ticks
  PROVE  Levels(k)' = Levels(k)
<1>1. Levels(k) = TreeOf([s \in Slots |-> LeafAt(k, s)])
  BY DEF Levels, TreeOf
<1>2. Levels(k)' = TreeOf([s \in Slots |-> LeafAt(k, s)'])
  BY DEF Levels, TreeOf
<1>3. [s \in Slots |-> LeafAt(k, s)'] = [s \in Slots |-> LeafAt(k, s)]
  BY DEF LeafAt
<1> QED BY <1>1, <1>2, <1>3

(* So the chain that is given away for a tick stays the same.              *)
LEMMA SameChain ==
  ASSUME NEW d, NEW k, ticks' = ticks, sizes' = sizes
  PROVE  GivenChain(d, k)' = GivenChain(d, k)
<1>1. \A s : PathOf(k, s)' = PathOf(k, s)
  BY SameLevels DEF PathOf
<1>2. CadenceCheckpoint(k)' = CadenceCheckpoint(k)
  <2>1. \A i : RootOf(i)' = RootOf(i)
    BY SameLevels DEF RootOf
  <2> QED BY <2>1 DEF CadenceCheckpoint
<1> QED BY <1>1, <1>2 DEF GivenChain

(* Whatever is changed in a chain, its checkpoint has a size.              *)
LEMMA TamperedHasSize ==
  ASSUME ChainHasSize, chain' \in Tampered
  PROVE  ChainHasSize'
<1>1. CASE chain' \in {[chain EXCEPT !.verified = FALSE], [chain EXCEPT !.part = ~chain.part], [chain EXCEPT !.proof = FALSE]}
  BY <1>1 DEF ChainHasSize
<1>2. CASE chain' \in {[chain EXCEPT !.signed = FALSE], [chain EXCEPT !.cadence.key = "another"],
                       [chain EXCEPT !.earlierSigned = FALSE], [chain EXCEPT !.named = "another"]}
  BY <1>2 DEF ChainHasSize
<1>3. CASE chain' \in {[chain EXCEPT !.checkpoint.key = "another"], [chain EXCEPT !.checkpoint.fork = "fork"]}
  BY <1>3 DEF ChainHasSize
<1>4. CASE chain' \in {[chain EXCEPT !.path = Reverse(chain.path)], [chain EXCEPT !.path = Tail(chain.path)]}
  BY <1>4 DEF ChainHasSize
<1>5. CASE chain' \in {[chain EXCEPT !.index = i] : i \in 0..(2^(Depth + 1) - 1)}
  BY <1>5 DEF ChainHasSize
<1>6. CASE chain' \in {[chain EXCEPT !.size = n, !.checkpoint.size = n] : n \in 1..MaxSize}
  <2>1. PICK n \in 1..MaxSize : chain' = [chain EXCEPT !.size = n, !.checkpoint.size = n]
    BY <1>6
  <2>2. DOMAIN chain' = DOMAIN chain /\ chain'.checkpoint = [chain.checkpoint EXCEPT !.size = n]
    BY <2>1 DEF ChainHasSize
  <2> QED BY <2>2, CadenceAssumption DEF ChainHasSize
<1>7. CASE chain' \in UNION {{[chain EXCEPT !.earlier = DealCheckpoint(d, n), !.log = d, !.size = n] :
                             n \in 1..MaxSize} : d \in Deals}
  <2>1. PICK d \in Deals, n \in 1..MaxSize :
          chain' = [chain EXCEPT !.earlier = DealCheckpoint(d, n), !.log = d, !.size = n]
    BY <1>7
  <2> QED BY <2>1 DEF ChainHasSize
<1>8. CASE chain' \in {[chain EXCEPT !.checkpoint.log = d, !.log = d] : d \in Deals}
  BY <1>8 DEF ChainHasSize
<1>9. CASE chain' \in UNION {{[chain EXCEPT !.salt = Salt(k, d)] : k \in DOMAIN ticks} : d \in Deals}
  <2>1. PICK d \in Deals, k \in DOMAIN ticks : chain' = [chain EXCEPT !.salt = Salt(k, d)]
    BY <1>9
  <2> QED BY <2>1 DEF ChainHasSize
<1>10. CASE chain' \in {[chain EXCEPT !.entry = k, !.cadence = CadenceCheckpoint(k)] : k \in DOMAIN ticks}
  BY <1>10 DEF ChainHasSize
<1>11. CASE chain' \in UNION {{[chain EXCEPT !.index = ticks[k].slot[d], !.path = PathOf(k, ticks[k].slot[d]),
                                           !.salt = Salt(k, d)] : k \in DOMAIN ticks} : d \in Deals}
  <2>1. PICK d \in Deals, k \in DOMAIN ticks :
          chain' = [chain EXCEPT !.index = ticks[k].slot[d], !.path = PathOf(k, ticks[k].slot[d]), !.salt = Salt(k, d)]
    BY <1>11
  <2> QED BY <2>1 DEF ChainHasSize
<1> QED BY <1>1, <1>2, <1>3, <1>4, <1>5, <1>6, <1>7, <1>8, <1>9, <1>10, <1>11 DEF Tampered

(* Every step keeps CadenceInv.                                            *)
LEMMA CadenceStep == CadenceInv /\ [CadenceNext]_cadenceVars => CadenceInv'
<1> SUFFICES ASSUME CadenceInv, [CadenceNext]_cadenceVars PROVE CadenceInv'
  OBVIOUS
<1> DEFINE tick == [slot : [Deals -> Slots], size : [Deals -> Nat], receipt : BOOLEAN]
<1>1. CASE Tick
  <2>1. PICK slot \in [Deals -> Slots], receipt \in BOOLEAN :
          /\ \A d, e \in Deals : d # e => slot[d] # slot[e]
          /\ ticks' = Append(ticks, [slot |-> slot, size |-> sizes, receipt |-> receipt])
    BY <1>1 DEF Tick
  <2> DEFINE new == [slot |-> slot, size |-> sizes, receipt |-> receipt]
  <2>2. new \in tick /\ new.slot = slot /\ new.size = sizes
    BY DEF CadenceInv
  <2> HIDE DEF tick, new
  <2>3. ticks \in Seq(tick)
    BY DEF CadenceInv, tick
  <2>4. /\ ticks' \in Seq(tick) /\ DOMAIN ticks' = 1..(Len(ticks) + 1) /\ DOMAIN ticks = 1..Len(ticks)
        /\ Len(ticks) \in Nat
        /\ \A k \in 1..Len(ticks) : ticks'[k] = ticks[k]
        /\ ticks'[Len(ticks) + 1] = new
    BY <2>1, <2>2, <2>3 DEF new
  <2>5. sizes' = sizes /\ tampers' = tampers /\ chain' = chain /\ chain = NoChain
    BY <1>1 DEF Tick
  <2>6. ASSUME NEW k \in DOMAIN ticks', NEW d \in Deals
        PROVE  /\ ticks'[k].size[d] <= sizes'[d]
               /\ \A e \in Deals : d # e => ticks'[k].slot[d] # ticks'[k].slot[e]
    <3>1. CASE k \in DOMAIN ticks
      BY <2>4, <2>5, <3>1 DEF CadenceInv
    <3>2. CASE k = Len(ticks) + 1
      <4>1. sizes[d] <= sizes[d]
        BY DEF CadenceInv
      <4> QED BY <2>1, <2>2, <2>4, <2>5, <3>2, <4>1
    <3> QED BY <2>4, <3>1, <3>2
  <2> QED BY <2>4, <2>5, <2>6 DEF CadenceInv, tick
<1>2. CASE DealStep
  <2>1. PICK d \in Deals : sizes' = [sizes EXCEPT ![d] = sizes[d] + 1]
    BY <1>2 DEF DealStep
  <2>2. ticks' = ticks /\ tampers' = tampers /\ chain' = chain /\ chain = NoChain
    BY <1>2 DEF DealStep
  <2>3. sizes' \in [Deals -> Nat] /\ \A e \in Deals : sizes[e] <= sizes'[e]
    BY <2>1 DEF CadenceInv
  <2>4. ASSUME NEW k \in DOMAIN ticks, NEW e \in Deals PROVE ticks[k].size[e] <= sizes'[e]
    <3>1. ticks[k].size \in [Deals -> Nat] /\ sizes[e] \in Nat /\ sizes'[e] \in Nat
      BY <2>3, TickTyped DEF CadenceInv
    <3>2. ticks[k].size[e] \in Nat /\ ticks[k].size[e] <= sizes[e]
      BY <3>1 DEF CadenceInv
    <3> QED BY <2>3, <3>1, <3>2
  <2> QED BY <2>2, <2>3, <2>4 DEF CadenceInv
<1>3. CASE GiveBundle
  <2>1. PICK d \in Deals, k \in DOMAIN ticks : chain' = GivenChain(d, k)
    BY <1>3 DEF GiveBundle, GivenChain
  <2>2. ticks' = ticks /\ sizes' = sizes /\ tampers' = tampers
    BY <1>3 DEF GiveBundle
  <2>3. chain' = GivenChain(d, k)'
    BY <2>1, <2>2, SameChain
  <2>4. ChainHasSize'
    BY <2>1 DEF ChainHasSize, GivenChain, DealCheckpoint, CadenceInv
  <2> QED BY <2>2, <2>3, <2>4 DEF CadenceInv
<1>4. CASE ChangeChain
  <2>1. ticks' = ticks /\ sizes' = sizes /\ tampers' = tampers + 1
    BY <1>4 DEF ChangeChain
  <2>2. ChainHasSize'
    BY <1>4, TamperedHasSize DEF ChangeChain, CadenceInv
  <2> QED BY <2>1, <2>2 DEF CadenceInv
<1>5. CASE UNCHANGED cadenceVars
  <2>1. ticks' = ticks /\ sizes' = sizes /\ tampers' = tampers /\ chain' = chain
    BY <1>5 DEF cadenceVars
  <2> QED BY <2>1, SameChain DEF CadenceInv, ChainHasSize
<1> QED BY <1>1, <1>2, <1>3, <1>4, <1>5 DEF CadenceNext

(* A chain nothing was done to passes as soon as its tick was receipted.   *)
LEMMA GivenChainPasses ==
  ASSUME CadenceInv, NEW d \in Deals, NEW k \in DOMAIN ticks, chain = GivenChain(d, k)
  PROVE  cadenceClaim = receiptsClaim(chain.cadence)
<1> DEFINE statement == IF chain.part THEN chain.earlier ELSE chain.checkpoint
           leaf      == CadenceLeaf(chain.log, chain.size, statement, chain.salt)
           slot      == ticks[k].slot[d]
           size      == ticks[k].size[d]
<1>1. slot \in Slots /\ size \in Nat /\ sizes[d] \in Nat /\ size <= sizes[d]
  BY TickTyped DEF CadenceInv
<1>2. k \in 1..k
  <2>1. k \in Nat /\ k >= 1
    BY DEF CadenceInv
  <2> QED BY <2>1
<1>3. /\ chain.verified = TRUE /\ chain.signed = TRUE /\ chain.proof = TRUE /\ chain.part = (size < sizes[d])
      /\ chain.earlierSigned = TRUE /\ chain.named = chain.cadence.log
      /\ chain.checkpoint = DealCheckpoint(d, sizes[d]) /\ chain.earlier = DealCheckpoint(d, size)
      /\ chain.log = d /\ chain.size = size /\ chain.index = slot /\ chain.salt = Salt(k, d)
      /\ chain.path = PathOf(k, slot) /\ chain.cadence = CadenceCheckpoint(k) /\ chain.entry = k
  BY DEF GivenChain, CadenceCheckpoint
<1>4. statement = DealCheckpoint(d, size)
  <2>1. CASE size < sizes[d]
    BY <1>3, <2>1
  <2>2. CASE ~(size < sizes[d])
    <3>1. size = sizes[d]
      BY <1>1, <2>2
    <3> QED BY <1>3, <2>2, <3>1
  <2> QED BY <2>1, <2>2
<1>5. ~(chain.part /\ earlierFailure)
  <2> SUFFICES ASSUME chain.part PROVE ~earlierFailure
    OBVIOUS
  <2>1. size < sizes[d]
    BY <1>3
  <2>2. ~(size >= sizes[d])
    BY <1>1, <2>1
  <2> QED BY <1>3, <2>2 DEF earlierFailure, VerifyConsistency, DealCheckpoint
<1>6. ~leafFailure(statement)
  <2>1. Len(chain.path) = Depth
    BY <1>1, <1>3, PathLeadsToRoot
  <2> QED BY <1>1, <1>3, <1>4, <2>1 DEF leafFailure, DealCheckpoint
<1>7. leaf = LeafAt(k, slot)
  <2>1. {e \in Deals : ticks[k].slot[e] = slot} = {d}
    BY DEF CadenceInv
  <2> QED BY <1>3, <1>4, <2>1 DEF LeafAt
<1>8. cadenceFold(leaf, chain.index, chain.path) = RootOf(k)
  BY <1>1, <1>3, <1>7, PathLeadsToRoot
<1>9. VerifyHexInclusion(chain.cadence, chain.entry, RootOf(k))
  BY <1>2, <1>3 DEF VerifyHexInclusion, CadenceCheckpoint
<1>10. chain.cadence.key = statement.key
  BY <1>3, <1>4 DEF CadenceCheckpoint, DealCheckpoint
<1> HIDE DEF statement, leaf
<1> QED BY <1>3, <1>5, <1>6, <1>8, <1>9, <1>10 DEF cadenceClaim, statement, leaf

(* A chain that passes, whatever was changed in it, is the deal's own.     *)
LEMMA PassedChainIsTheDeals ==
  ASSUME CadenceInv, chain # NoChain, cadenceClaim = "pass"
  PROVE  LET k == chain.entry d == chain.checkpoint.log IN
         /\ k \in DOMAIN ticks /\ d \in Deals
         /\ ticks[k].slot[d] = chain.index
         /\ ticks[k].size[d] <= chain.checkpoint.size
         /\ chain.part \/ ticks[k].size[d] = chain.checkpoint.size
         /\ chain.checkpoint.key = Holder /\ chain.checkpoint.fork = "main"
         /\ \E j \in k..Len(ticks) : ticks[j].receipt
<1> DEFINE statement == IF chain.part THEN chain.earlier ELSE chain.checkpoint
           leaf      == CadenceLeaf(chain.log, chain.size, statement, chain.salt)
           k         == chain.entry
           root      == cadenceFold(leaf, chain.index, chain.path)
<1>1. /\ chain.verified /\ ~(chain.part /\ earlierFailure) /\ ~leafFailure(statement)
      /\ VerifyHexInclusion(chain.cadence, k, root) /\ receiptsClaim(chain.cadence) = "pass"
  BY DEF cadenceClaim
<1>2. PICK j \in DOMAIN ticks : ticks[j].receipt /\ chain.cadence = CadenceCheckpoint(j)
  BY <1>1 DEF receiptsClaim
<1>3. DOMAIN ticks = 1..Len(ticks) /\ Len(ticks) \in Nat
  BY DEF CadenceInv
<1>4. k \in 1..j /\ root = RootOf(k)
  BY <1>1, <1>2 DEF VerifyHexInclusion, CadenceCheckpoint
<1>5. k \in DOMAIN ticks /\ j \in k..Len(ticks)
  BY <1>2, <1>3, <1>4
<1>6. chain.index \in Slots /\ Len(chain.path) = Depth /\ chain.log = statement.log /\ chain.size = statement.size
  BY <1>1 DEF leafFailure
<1>7. leaf = LeafAt(k, chain.index)
  BY <1>4, <1>6, RootHasNoOther
<1> DEFINE here == {e \in Deals : ticks[k].slot[e] = chain.index}
           d    == CHOOSE e \in here : TRUE
<1>8. here # {}
  BY <1>7 DEF LeafAt, EmptyLeaf, CadenceLeaf
<1>9. d \in Deals /\ ticks[k].slot[d] = chain.index
  BY <1>8
<1>10. leaf = CadenceLeaf(d, ticks[k].size[d], DealCheckpoint(d, ticks[k].size[d]), Salt(k, d))
  BY <1>7, <1>8 DEF LeafAt
<1> HIDE DEF d, here
<1>11. statement = DealCheckpoint(d, ticks[k].size[d])
  BY <1>10 DEF CadenceLeaf
<1>12. /\ statement.log = d /\ statement.size = ticks[k].size[d]
       /\ statement.key = Holder /\ statement.fork = "main"
  BY <1>11 DEF DealCheckpoint
<1>13. ticks[k].size[d] \in Nat
  BY <1>5, <1>9, TickTyped
<1>14. CASE chain.part
  <2>1. /\ chain.earlier.key = chain.checkpoint.key /\ chain.earlier.log = chain.checkpoint.log
        /\ ~(chain.earlier.size >= chain.checkpoint.size) /\ chain.earlier.fork = chain.checkpoint.fork
    BY <1>1, <1>14 DEF earlierFailure, VerifyConsistency
  <2>2. d = chain.checkpoint.log /\ chain.checkpoint.key = Holder /\ chain.checkpoint.fork = "main"
    BY <1>12, <1>14, <2>1
  <2>3. ticks[k].size[d] <= chain.checkpoint.size
    BY <1>12, <1>13, <1>14, <2>1 DEF CadenceInv, ChainHasSize
  <2> QED BY <1>2, <1>5, <1>9, <1>14, <2>2, <2>3
<1>15. CASE ~chain.part
  BY <1>2, <1>5, <1>9, <1>12, <1>13, <1>15
<1> QED BY <1>14, <1>15

(* For every depth of the tree, any deals and ticks and any changes to a   *)
(* chain: one that passes shows the deal's own checkpoint at its own place,*)
(* and one nothing was done to passes.                                     *)
THEOREM ChainsAreTheDeals == CadenceSpec => []ChainIsTheDeals
<1>1. CadenceInit => CadenceInv
  BY DEF CadenceInit, CadenceInv
<1>2. CadenceInv /\ [CadenceNext]_cadenceVars => CadenceInv'
  BY CadenceStep
<1>3. CadenceInv => ChainIsTheDeals
  <2> SUFFICES ASSUME CadenceInv, chain # NoChain PROVE ChainIsTheDeals
    BY DEF ChainIsTheDeals
  <2>1. tampers = 0 => cadenceClaim = receiptsClaim(chain.cadence)
    BY GivenChainPasses DEF CadenceInv
  <2> QED BY <2>1, PassedChainIsTheDeals DEF ChainIsTheDeals
<1> QED BY <1>1, <1>2, <1>3, PTL DEF CadenceSpec
=============================================================================
