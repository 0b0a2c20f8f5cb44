----------------------------- MODULE JudgeReports -----------------------------
(***************************************************************************)
(* judge drift reports and calibration summarize (cli/judge.go): two sets  *)
(* of evaluation reports are compared case by case, or one is set against  *)
(* human ratings.  Nothing is stored; the verbs say what they count of the *)
(* files they are given, which may be written by anyone.                   *)
(***************************************************************************)
EXTENDS Naturals, Sequences, SequencesExt, FiniteSets

CONSTANTS
  Cases, Pins, Verdicts,
  Blank,        \* a member that is absent or empty
  MaxRecords    \* records in a file

ASSUME JudgeAssumption ==
  MaxRecords \in Nat /\ Blank \notin Cases \cup Pins \cup Verdicts \cup {"yes", "no"} /\ Blank \notin Nat

VARIABLES
  evaluations,    \* the report set given first
  second,     \* the report set it is compared with
  ratings     \* the human ratings it is set against

judgeVars == <<evaluations, second, ratings>>

Records == [case : Cases, pin : Pins, verdict : Verdicts] \cup
           {[case |-> Blank, pin |-> p, verdict |-> v] : p \in Pins, v \in Verdicts} \cup
           {[case |-> c, pin |-> Blank, verdict |-> v] : c \in Cases, v \in Verdicts}

(* A rating says whether the human agrees with the judge, or gives a label.*)
Ratings == [case : Cases, rating : Verdicts \cup {Blank}, agrees : {"yes", "no", Blank}]

JudgeInit == evaluations = <<>> /\ second = <<>> /\ ratings = <<>>

WriteReport ==
  /\ Len(evaluations) < MaxRecords /\ second = <<>> /\ ratings = <<>>
  /\ \E r \in Records : evaluations' = Append(evaluations, r)
  /\ UNCHANGED <<second, ratings>>

WriteSecond ==
  /\ Len(second) < MaxRecords /\ ratings = <<>>
  /\ \E r \in Records : second' = Append(second, r)
  /\ UNCHANGED <<evaluations, ratings>>

WriteRating ==
  /\ Len(ratings) < MaxRecords /\ second = <<>>
  /\ \E r \in Ratings : ratings' = Append(ratings, r)
  /\ UNCHANGED <<evaluations, second>>

JudgeNext == WriteReport \/ WriteSecond \/ WriteRating

JudgeSpec == JudgeInit /\ [][JudgeNext]_judgeVars

------------------------------------------------------------------------------
(* Reading: a file is refused whole.                                       *)
CasesIn(file) == {file[i].case : i \in DOMAIN file}

OnePerCase(file) == \A i, j \in DOMAIN file : file[i].case = file[j].case => i = j

(* Mutant of readReportSet: a case may be reported twice.                  *)
readReportSetAny(file) ==
  \A i \in DOMAIN file : Blank \notin {file[i].case, file[i].pin, file[i].verdict}

readReportSet(file) ==
  /\ \A i \in DOMAIN file : Blank \notin {file[i].case, file[i].pin, file[i].verdict}
  /\ OnePerCase(file)

readHumanRatings(file) ==
  /\ \A i \in DOMAIN file : file[i].case # Blank /\ (file[i].agrees # Blank \/ file[i].rating # Blank)
  /\ OnePerCase(file)

------------------------------------------------------------------------------
(* rateMicros: k of n in millionths, rounded half up.  The code's float64  *)
(* quotient rounds to the same: below 128 cases no exact half occurs.      *)
rateMicros(k, n) == (2 * 1000000 * k + n) \div (2 * n)

(* judge drift reports.                                                    *)
driftCase(a, b) ==
  LET same == a.pin = b.pin /\ a.verdict = b.verdict
  IN [case |-> a.case, pinMatches |-> a.pin = b.pin, labelMatches |-> a.verdict = b.verdict, drifted |-> ~same]

(* Of two records of a case in b, the later is the one compared with.      *)
ByCase(b, c) == b[CHOOSE i \in DOMAIN b : b[i].case = c /\ \A j \in DOMAIN b : b[j].case = c => j <= i]

(* The lists of the answer are sorted by case, so which records they name  *)
(* says all: a case of a is compared or unmatched, by its place in a.      *)
judgeDriftReports(a, b) ==
  LET matched == {i \in DOMAIN a : a[i].case \in CasesIn(b)}
      cases   == [i \in matched |-> driftCase(a[i], ByCase(b, a[i].case))]
      drifted == {i \in matched : cases[i].drifted}
  IN [cases      |-> cases,
      drifted    |-> drifted,
      rate       |-> IF matched = {} THEN Blank ELSE rateMicros(Cardinality(drifted), Cardinality(matched)),
      unmatchedA |-> DOMAIN a \ matched,
      unmatchedB |-> {j \in DOMAIN b : b[j].case \notin {a[i].case : i \in matched}}]

------------------------------------------------------------------------------
(* calibration summarize: k of n for each judge pin.                       *)
Agrees(report, rating) ==
  IF rating.agrees # Blank THEN rating.agrees = "yes" ELSE rating.rating = report.verdict

summarizeCalibration(file, rated) ==
  [pin \in {file[i].pin : i \in DOMAIN file} |->
     LET evaluated == {i \in DOMAIN file : file[i].pin = pin}
         counted   == {i \in evaluated : file[i].case \in CasesIn(rated)}
         agreed    == {i \in counted : Agrees(file[i], ByCase(rated, file[i].case))}
     IN [evaluated |-> Cardinality(evaluated), rated |-> Cardinality(counted), agreement |-> Cardinality(agreed),
         rate |-> IF counted = {} THEN Blank
                  ELSE rateMicros(Cardinality(agreed), Cardinality(counted))]]

------------------------------------------------------------------------------
(* Every case counts once (judgeDriftReportsCommand, summarizeCalibration, *)
(* "never a silent disagreement"): two sets are said to agree throughout   *)
(* exactly when they hold the same reports, every case of either stands in *)
(* one list of the answer, in one place; and a calibration counts as many  *)
(* ratings as there are rated cases, and as many as agreed as humans did.  *)
EveryCaseCounts ==
  /\ (readReportSet(evaluations) /\ readReportSet(second)) =>
       LET result == judgeDriftReports(evaluations, second)
           said   == {result.cases[i].case : i \in DOMAIN result.cases} \cup
                     {evaluations[i].case : i \in result.unmatchedA} \cup {second[j].case : j \in result.unmatchedB}
       IN /\ (result.drifted = {} /\ result.unmatchedA = {} /\ result.unmatchedB = {}) <=>
               (ToSet(evaluations) = ToSet(second))
          /\ said = CasesIn(evaluations) \cup CasesIn(second)
          /\ Cardinality(said) = Cardinality(DOMAIN result.cases) + Cardinality(result.unmatchedA) +
                                 Cardinality(result.unmatchedB)
          /\ result.rate = Blank <=> DOMAIN result.cases = {}
  /\ (readReportSet(evaluations) /\ readHumanRatings(ratings)) =>
       LET pins    == summarizeCalibration(evaluations, ratings)
           OfPin(p, cs) == {c \in cs : \E i \in DOMAIN evaluations : evaluations[i].case = c /\ evaluations[i].pin = p}
           against == {ratings[i].case : i \in {j \in DOMAIN ratings : ratings[j].agrees = "no"}}
       IN \A p \in DOMAIN pins :
            /\ pins[p].rated = Cardinality(OfPin(p, CasesIn(ratings) \cap CasesIn(evaluations)))
            /\ pins[p].agreement <= pins[p].rated - Cardinality(OfPin(p, against \cap CasesIn(evaluations)))
            /\ pins[p].rate = Blank <=> pins[p].rated = 0
==============================================================================
