----------------------------- MODULE ContractDiff -----------------------------
(***************************************************************************)
(* contract diff (cli/contract_diff.go): every change from Evidence        *)
(* Contract A to B, and whether it breaks what was claimed against A.  The *)
(* reference is what the two contracts ask for: an evidence set that met A *)
(* must meet B, and a claim must still find its requirement.               *)
(***************************************************************************)
EXTENDS Integers, Sequences, FiniteSets, SequencesExt

CONSTANTS
  Members,          \* members of the sets a requirement lists
  StepLists,        \* lists of steps
  Durations,        \* [months, days]
  Windows,          \* what a window may say: of its duration, cure, grace and of another key
  Ages,             \* ages an evidence set may have, in days
  Shapes,           \* profiles and modes a requirement starts with
  MaxContractEdits,
  Missing           \* an absent member

ASSUME ContractAssumption ==
  /\ MaxContractEdits \in Nat
  /\ Durations \subseteq [months : Nat, days : Nat] /\ Ages \subseteq Nat
  /\ StepLists \subseteq Seq(Members)
  /\ LET Spans == {Missing} \cup Durations IN
     Windows \subseteq [duration : Spans, cure : Spans, grace : Spans, other : {Missing, "said"}]

VARIABLES
  contractA, contractB,
  contractEdits

contractVars == <<contractA, contractB, contractEdits>>

AssuranceLadder == <<"recorded", "signed", "witnessed">>
tierRank == [t \in {"informational", "must_have"} |-> IF t = "informational" THEN 0 ELSE 1]

Change(kind) == {kind}
Breaking == {"contract_id_changed", "version_reused", "requirement_added", "requirement_removed",
             "requirement_reid", "tightened", "changed"}

------------------------------------------------------------------------------
(* Field rules.                                                            *)

SetOf(v) == IF v = Missing THEN {} ELSE v

compareSets(moreIsTighter, a, b) ==
  LET sa == SetOf(a)  sb == SetOf(b) IN
  CASE a = b \/ (moreIsTighter /\ sa = sb) -> {}
    [] a # b /\ ~moreIsTighter /\ a = Missing -> Change("tightened")
    [] a # b /\ ~moreIsTighter /\ b = Missing -> Change("loosened")
    [] OTHER -> IF sb \ sa # {} /\ sa \ sb # {} THEN Change("changed")
                ELSE IF (sb \ sa # {}) = moreIsTighter THEN Change("tightened") ELSE Change("loosened")

(* The lowest grade named is the floor; none is no floor.                  *)
GradeRank(g) == CHOOSE i \in DOMAIN AssuranceLadder : AssuranceLadder[i] = g
OnLadder(v) == v = Missing \/ v \subseteq ToSet(AssuranceLadder)
gradeFloor(v) == IF SetOf(v) = {} THEN 0 ELSE Min({GradeRank(g) : g \in v})

compareGrades(a, b) ==
  CASE a = b -> {}
    [] a # b /\ (~OnLadder(a) \/ ~OnLadder(b)) -> Change("changed")
    [] OTHER -> IF gradeFloor(a) = gradeFloor(b) THEN Change("changed")
                ELSE IF gradeFloor(b) > gradeFloor(a) THEN Change("tightened") ELSE Change("loosened")

Sign(n) == IF n > 0 THEN 1 ELSE IF n < 0 THEN -1 ELSE 0

(* Mutant of order: a month is thirty days.                                *)
orderThirty(a, b) ==
  CASE a = Missing \/ b = Missing -> IF a = b THEN "equal" ELSE IF b = Missing THEN "longer" ELSE "shorter"
    [] OTHER -> LET d == Sign((b.months - a.months) * 30 + b.days - a.days) IN
                IF d = 0 THEN "equal" ELSE IF d > 0 THEN "longer" ELSE "shorter"

(* Months vary in length: one longer in months and the other in days are   *)
(* not ordered.  A limit that is missing is unbounded.                     *)
order(a, b) ==
  CASE a = Missing \/ b = Missing -> IF a = b THEN "equal" ELSE IF b = Missing THEN "longer" ELSE "shorter"
    [] OTHER -> LET dm == Sign(b.months - a.months)  ds == Sign(b.days - a.days)
                    d  == IF dm = 0 THEN ds ELSE dm
                IN IF dm # 0 /\ ds # 0 /\ dm # ds THEN "none"
                   ELSE IF d = 0 THEN "equal" ELSE IF d > 0 THEN "longer" ELSE "shorter"

(* What a span that is not given stands for: no limit, or no time.         *)
NoTime == [months |-> 0, days |-> 0]
Lasting(absent, v) == IF v = Missing THEN absent ELSE v

compareDurations(absent, a, b) ==
  LET o == order(Lasting(absent, a), Lasting(absent, b)) IN
  CASE a = b -> {}
    [] a # b /\ o = "none" -> Change("changed")
    [] a # b /\ o = "equal" -> Change("editorial")
    [] a # b /\ o = "shorter" -> Change("tightened")
    [] OTHER -> Change("loosened")

(* A key that the schema's window does not have has no rule.               *)
compareWindow(a, b) ==
  CASE a = b -> {}
    [] a # b /\ a = Missing -> Change("tightened")
    [] a # b /\ b = Missing -> Change("loosened")
    [] OTHER -> compareDurations(Missing, a.duration, b.duration) \cup
                compareDurations(NoTime, a.cure, b.cure) \cup compareDurations(NoTime, a.grace, b.grace) \cup
                (IF a.other = b.other THEN {} ELSE Change("changed"))

Tier(v) == IF v = Missing THEN "informational" ELSE v

compareTier(a, b) ==
  IF Tier(a) = Tier(b) THEN {}
  ELSE IF tierRank[Tier(b)] > tierRank[Tier(a)] THEN Change("tightened") ELSE Change("loosened")

StepsOf(v) == IF v = Missing THEN <<>> ELSE v

(* The loop: how many of short's steps each step of long has brought it to.*)
isSubsequence(short, long) ==
  \E matched \in [0..Len(long) -> 0..Len(short)] :
    /\ matched[0] = 0 /\ matched[Len(long)] = Len(short)
    /\ \A i \in 1..Len(long) :
         matched[i] = IF matched[i - 1] < Len(short) /\ short[matched[i - 1] + 1] = long[i]
                      THEN matched[i - 1] + 1 ELSE matched[i - 1]

compareSequence(a, b) ==
  LET la == StepsOf(a)  lb == StepsOf(b) IN
  CASE la = lb -> {}
    [] la # lb /\ isSubsequence(lb, la) -> Change("loosened")
    [] la # lb /\ ~isSubsequence(lb, la) /\ isSubsequence(la, lb) -> Change("tightened")
    [] OTHER -> Change("changed")

editorial(a, b) == IF a = b THEN {} ELSE Change("editorial")

(* A field has a rule only where the schema gives the shape that field.    *)
withEvidenceRequirements(extra) == {"types", "sources", "grade", "freshness"} \cup extra

shapeRules ==
  [native     |-> {"window", "tier", "grade", "source_url"},
   outcome    |-> withEvidenceRequirements({"source_url"}),
   obligation |-> withEvidenceRequirements({}),
   process    |-> withEvidenceRequirements({"sequence", "approvals", "source_url"}),
   human_role |-> withEvidenceRequirements({})]

(* The pack's own shape is an outcome or obligation with an evidence rule. *)
shape(r) ==
  CASE r.rule # Missing /\ r.profile \in {"", "outcome", "obligation"} -> "native"
    [] OTHER -> IF r.profile \in DOMAIN shapeRules THEN r.profile ELSE "none"

Fields == {"window", "tier", "grade", "source_url", "types", "sources", "freshness", "sequence", "approvals",
           "rule", "mode"}

(* Mutant of compareField: a field no rule is given for is read by name.   *)
compareFieldByName(field, ruled, a, b) ==
  CASE field = "window" -> compareWindow(a, b)
    [] field = "tier" -> compareTier(a, b)
    [] field = "grade" -> compareGrades(a, b)
    [] field = "types" -> compareSets(FALSE, a, b)
    [] field \in {"sources", "approvals"} -> compareSets(TRUE, a, b)
    [] field = "freshness" -> compareDurations(Missing, a, b)
    [] field = "sequence" -> compareSequence(a, b)
    [] OTHER -> editorial(a, b)

(* A field with no rule is breaking when it changes.                       *)
compareField(field, ruled, a, b) ==
  IF field \in ruled THEN compareFieldByName(field, ruled, a, b)
  ELSE IF a = b THEN {} ELSE Change("changed")

(* Evaluated without a judge: only then the wording decides nothing.       *)
deterministic(r) == shape(r) \in {"outcome", "native"} /\ r.mode = "deterministic"

compareRequirement(a, b) ==
  LET ruled == IF shape(a) = shape(b) /\ shape(a) # "none" THEN shapeRules[shape(a)] ELSE {} IN
  (UNION {compareField(f, ruled, a[f], b[f]) : f \in Fields}) \cup
  (IF a.statement = b.statement THEN {}
   ELSE IF deterministic(a) /\ deterministic(b) THEN Change("editorial") ELSE Change("changed")) \cup
  (IF a.profile = b.profile THEN {} ELSE Change("changed"))
------------------------------------------------------------------------------
Ids(c) == {c.requirements[i].id : i \in DOMAIN c.requirements}
At(c, id) == CHOOSE i \in DOMAIN c.requirements : c.requirements[i].id = id
requirementsByID(c) == [id \in Ids(c) |-> c.requirements[At(c, id)]]
withoutID(r) == [f \in DOMAIN r \ {"id"} |-> r[f]]

(* A requirement that is gone and a new one that differ only in the id: of *)
(* several alike each takes the first that is left, the k-th the k-th.     *)
SameContent(r, q) == withoutID(r) = withoutID(q)
Place(c, id, among) ==
  Cardinality({o \in among : At(c, o) < At(c, id) /\ SameContent(requirementsByID(c)[o], requirementsByID(c)[id])})

again(a, b) ==
  LET removed == Ids(a) \ Ids(b)  added == Ids(b) \ Ids(a) IN
  {p \in removed \X added :
     /\ SameContent(requirementsByID(a)[p[1]], requirementsByID(b)[p[2]])
     /\ Place(a, p[1], removed) = Place(b, p[2], added)}

(* The digest is of the whole document.                                    *)
computeContractPin(c) == [ref |-> <<c.id, c.version>>, digest |-> c]

compareIdentity(a, b) ==
  (IF a.id # b.id THEN Change("contract_id_changed")
   ELSE IF a.version = b.version /\ computeContractPin(a).digest # computeContractPin(b).digest
        THEN Change("version_reused") ELSE {}) \cup
  (IF a.version # b.version THEN Change("version_changed") ELSE {})

idsAmong(common, c) ==
  LET kept == SelectSeq(c.requirements, LAMBDA r : r.id \in common) IN [i \in DOMAIN kept |-> kept[i].id]

diffContracts(a, b) ==
  LET removed == Ids(a) \ Ids(b)  added == Ids(b) \ Ids(a)
      common  == Ids(a) \cap Ids(b)
  IN compareIdentity(a, b) \cup
     (IF a.title = b.title THEN {} ELSE Change("changed")) \cup
     (IF again(a, b) # {} THEN Change("requirement_reid") ELSE {}) \cup
     (IF removed \ {p[1] : p \in again(a, b)} # {} THEN Change("requirement_removed") ELSE {}) \cup
     (IF added \ {p[2] : p \in again(a, b)} # {} THEN Change("requirement_added") ELSE {}) \cup
     (IF idsAmong(common, a) = idsAmong(common, b) THEN {} ELSE Change("requirements_reordered")) \cup
     UNION {compareRequirement(requirementsByID(a)[id], requirementsByID(b)[id]) : id \in common}

breaking(a, b) == diffContracts(a, b) \cap Breaking # {}
------------------------------------------------------------------------------
(* Contracts, edited and published again.                                  *)

NewRequirement(id, profile, mode) ==
  [id |-> id, profile |-> profile, statement |-> "wording", window |-> Missing, tier |-> Missing, grade |-> Missing,
   source_url |-> "url", types |-> Missing, sources |-> Missing, freshness |-> Missing, sequence |-> Missing,
   approvals |-> Missing, rule |-> IF profile = "" THEN "rule" ELSE Missing, mode |-> mode]

ContractInit ==
  /\ contractEdits = 0
  /\ \E s \in Shapes :
       contractA = [id |-> "contract", version |-> 1, title |-> "title",
                    requirements |-> <<NewRequirement("r1", s[1], s[2]), NewRequirement("r2", "", "judged")>>]
  /\ contractB = contractA

GivenTo(field) ==
  CASE field = "window" -> Windows
    [] field = "tier" -> {"informational", "must_have"}
    [] field = "grade" -> {{g} : g \in ToSet(AssuranceLadder)} \cup {{"signed", "witnessed"}, {"unknown"}}
    [] field = "freshness" -> Durations
    [] field = "sequence" -> StepLists
    [] field \in {"types", "sources", "approvals"} -> SUBSET Members
    [] field = "mode" -> {"deterministic", "judged"}
    [] OTHER -> {"rule", "another"}

ValuesOf(field) == {Missing} \cup GivenTo(field)

ASSUME MissingAssumption == NoTime # Missing /\ \A f \in Fields : \A v \in GivenTo(f) : v # Missing

(* A change may come with a new version label.                             *)
EditContract(c) ==
  /\ contractB # Missing /\ contractEdits < MaxContractEdits
  /\ \E version \in {c.version, c.version + 1} : contractB' = [c EXCEPT !.version = version]
  /\ contractEdits' = contractEdits + 1 /\ UNCHANGED contractA

(* The requirement that is first is edited; the order may be turned.       *)
EditField ==
  contractB # Missing /\ contractB.requirements # <<>> /\ \E f \in Fields :
    \E v \in ValuesOf(f) : EditContract([contractB EXCEPT !.requirements[1][f] = v])

EditWording ==
  contractB # Missing /\ contractB.requirements # <<>> /\
  \/ EditContract([contractB EXCEPT !.requirements[1].statement = "reworded"])
  \/ EditContract([contractB EXCEPT !.requirements[1].profile = "obligation"])

(* A contract that repeats an id is refused: the new one is not in use.    *)
EditList ==
  contractB # Missing /\
  \/ \E i \in DOMAIN contractB.requirements :
       "r3" \notin Ids(contractB) /\ EditContract([contractB EXCEPT !.requirements[i].id = "r3"])
  \/ \E i \in DOMAIN contractB.requirements : EditContract([contractB EXCEPT !.requirements = RemoveAt(@, i)])
  \/ EditContract([contractB EXCEPT !.requirements = Reverse(@)])
  \/ EditContract([contractB EXCEPT !.id = "another"])

(* What was diffed is published, and edited again.                         *)
PublishContract ==
  /\ contractB # Missing /\ contractA # contractB /\ contractA' = contractB
  /\ UNCHANGED <<contractB, contractEdits>>

ContractNext == EditField \/ EditWording \/ EditList \/ PublishContract

ContractSpec == ContractInit /\ [][ContractNext]_contractVars
------------------------------------------------------------------------------
(* What a requirement asks of an evidence set, field by field: the parts of*)
(* a set that a field reads, and whether they meet it.  A month has 28 to  *)
(* 31 days; what a key with no rule asks is not known, so that evidence is *)
(* good for what the key said and nothing else.                            *)
Days(d, month) == d.months * month + d.days

InTime(limit, age, month) == limit = Missing \/ age <= Days(limit, month)

Allowance(v, month) ==
  Days(v.duration, month) + Days(Lasting(NoTime, v.cure), month) + Days(Lasting(NoTime, v.grace), month)

(* The steps taken hold those asked for, in their order.                   *)
StepsIn(asked, taken) ==
  \E at \in [DOMAIN asked -> DOMAIN taken] :
    \A k, l \in DOMAIN asked : asked[k] = taken[at[k]] /\ (k < l => at[k] < at[l])

Meets(field, v, e) ==
  CASE field = "types" -> v = Missing \/ e.type \in v
    [] field \in {"sources", "approvals"} -> SetOf(v) \subseteq e.members
    [] field = "grade" -> OnLadder(v) /\ gradeFloor(v) <= e.rank
    [] field = "freshness" -> InTime(v, e.age, e.month)
    [] field = "window" ->
         v = Missing \/ (v.other = e.other /\ (v.duration = Missing \/ e.age <= Allowance(v, e.month)))
    [] field = "sequence" -> StepsIn(StepsOf(v), e.steps)
    [] OTHER -> TRUE

EvidenceFor(field) ==
  CASE field = "types" -> {[type |-> t] : t \in Members}
    [] field \in {"sources", "approvals"} -> {[members |-> ms] : ms \in SUBSET Members}
    [] field = "grade" -> {[rank |-> n] : n \in 0..3}
    [] field = "freshness" -> {[age |-> a, month |-> m] : a \in Ages, m \in {28, 31}}
    [] field = "window" -> {[age |-> a, month |-> m, other |-> o] : a \in Ages, m \in {28, 31}, o \in {Missing, "said"}}
    [] field = "sequence" -> {[steps |-> s] : s \in StepLists}
    [] OTHER -> {}

(* Evidence that met A meets B, where B requires it; a judge's verdict is  *)
(* about the wording it read.                                              *)
StillMeets(a, b) ==
  /\ b.rule = a.rule /\ b.mode = a.mode /\ b.profile = a.profile
  /\ b.mode = "judged" => b.statement = a.statement
  /\ Tier(a.tier) = "must_have" \/ Tier(b.tier) = "informational"
  /\ shape(b) # "none" => \A f \in Fields \cap shapeRules[shape(b)] :
                            \A e \in EvidenceFor(f) : Meets(f, a[f], e) => Meets(f, b[f], e)

(* A change that is not breaking leaves every evidence set that met A good *)
(* for B, every claim a requirement to name, and each label <id>@<version> *)
(* one contract (cli/contract_diff.go:27 "every evidence set that satisfied*)
(* A still satisfies B and every claim made against A still names a        *)
(* requirement of B").                                                     *)
NonBreakingIsSafe ==
  contractB # Missing =>
    (~breaking(contractA, contractB) =>
       LET pinA == computeContractPin(contractA)  pinB == computeContractPin(contractB) IN
       /\ contractA.id = contractB.id /\ (pinA.ref = pinB.ref => pinA.digest = pinB.digest)
       /\ Ids(contractA) = Ids(contractB)
       /\ \A id \in Ids(contractA) :
            StillMeets(requirementsByID(contractA)[id], requirementsByID(contractB)[id]))
================================================================================
