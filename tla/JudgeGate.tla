------------------------------ MODULE JudgeGate ------------------------------
(***************************************************************************)
(* The quality gate of the evaluation: a model under test answers the      *)
(* cases of a suite, a judge scores every answer on every metric, and the  *)
(* scores are held against floors and an accepted baseline                 *)
(* (src/application/evaluate_rag.py, src/composition/evaluate.py).         *)
(*                                                                         *)
(* Scores are twentieths.  A judge that fails, by an error or by an answer *)
(* that cannot be read, leaves a lost verdict, which is no score.          *)
(***************************************************************************)
EXTENDS Integers, FiniteSets

CONSTANTS Asks, ClassOf, SliceOf,        \* the suite's ask cases
          RequiredClasses, RequiredSlice,
          Metrics, Scores, Best,
          Floor, HalfPasses, Drop,        \* Floor and Drop in twentieths
          Means,                          \* means a baseline may record
          Lost

VARIABLES stage,        \* what the run does next, or how it ended
          mode, baseline,
          observed,     \* the cases with an observation
          torn,         \* whether one did not fit its retrieval
          verdicts,     \* what the judge said, per case and metric
          report

judgeVars == <<stage, mode, baseline, observed, torn, verdicts, report>>

\* What the baseline file may hold; means are the same on every metric.
Baseline(accepted, same, mean) ==
  [file |-> "read", accepted |-> accepted, same |-> same, mean |-> mean]
Missing == [file |-> "missing", accepted |-> FALSE, same |-> FALSE, mean |-> 0]
Baselines ==
  {Baseline(a, s, m) : a, s \in BOOLEAN, m \in Means}
    \union {Missing, [Missing EXCEPT !.file = "malformed"]}

AllLost == [m \in Metrics |-> Lost]
NoVerdicts == [c \in Asks |-> AllLost]
ReportOf(eligible, passed, status) ==
  [eligible |-> eligible, passed |-> passed, status |-> status]
NoReport == ReportOf(FALSE, FALSE, "none")

JudgeInit ==
  /\ stage = "start" /\ mode \in {"live", "fake"} /\ baseline \in Baselines
  /\ observed = {} /\ torn = FALSE /\ verdicts = NoVerdicts /\ report = NoReport

-----------------------------------------------------------------------------
(* The run.                                                                *)

\* A run that is asked for "auto" is live if everything is configured, and
\* skipped if not; a live one without configuration raises.
StartJudge ==
  /\ stage = "start"
  /\ stage' \in IF baseline.file = "malformed" THEN {"raised"}
                ELSE IF mode = "fake" THEN {"gate"}
                ELSE {"session", "skipped", "raised"}
  /\ UNCHANGED <<mode, baseline, observed, torn, verdicts, report>>

\* The answering model is built over a store of its own with the suite's
\* corpus, or the run raises.
StartSession ==
  /\ stage = "session"
  /\ stage' \in {"observe", "raised"}
  /\ UNCHANGED <<mode, baseline, observed, torn, verdicts, report>>

\* Every case is asked once, an error costs its observation only; one is that
\* the answer does not fit what was retrieved.
Observe ==
  /\ stage = "observe"
  /\ observed' \in SUBSET Asks
  /\ torn' \in {FALSE, observed' # Asks}
  /\ stage' = "judge"
  /\ UNCHANGED <<mode, baseline, verdicts, report>>

\* An answer in the bounds with an explanation is a score.
Verdicts == Scores \union {Lost}

\* A case without an observation is not judged.
JudgeCase(c, said) == c \notin observed => said = AllLost

ScoreCases ==
  /\ stage = "judge"
  /\ \E said \in [Asks -> [Metrics -> Verdicts]] :
       /\ \A c \in Asks : JudgeCase(c, said[c])
       /\ verdicts' = said
  /\ stage' = "gate"
  /\ UNCHANGED <<mode, baseline, observed, torn, report>>

-----------------------------------------------------------------------------
(* The gate.                                                               *)

Scored(v, m) == {c \in Asks : v[c][m] # Lost}
\* Mutant of Eligible: what the judge lost does not count
Eligible_Scored(v, m) == Scored(v, m)
Eligible(v, m) == Asks

\* The sum of the scores, counted twentieth by twentieth
Twentieths(v, m) == {p \in Scored(v, m) \X (1..Best) : p[2] <= v[p[1]][m]}
Sum(v, m) == Cardinality(Twentieths(v, m))
Passes(v, m) == {c \in Scored(v, m) : v[c][m] >= Floor}

\* The mean is over what was scored, the pass rate over all that is eligible.
MeanAtLeast(v, m, bound) == Sum(v, m) >= bound * Cardinality(Scored(v, m))
PassRateOk(v, m) == 2 * Cardinality(Passes(v, m)) >= HalfPasses * Cardinality(Eligible(v, m))
Majority(v, m) == Cardinality(Scored(v, m)) > Cardinality(Eligible(v, m)) \div 2

Covered(v) ==
  LET cases == UNION {Scored(v, m) : m \in Metrics} IN
  /\ RequiredClasses \subseteq {ClassOf[c] : c \in cases}
  /\ RequiredSlice \in {SliceOf[c] : c \in cases}

\* The fingerprints of this run are those of the baseline.
Compatible == baseline.same

BaselineStatus ==
  IF mode = "fake" \/ baseline.file = "missing" THEN "not_compared"
  ELSE IF ~baseline.accepted THEN "unaccepted"
  ELSE IF ~Compatible THEN "incompatible" ELSE "compared"

Holds(v) ==
  /\ Covered(v) /\ ~torn
  /\ \A m \in Metrics :
       /\ Scored(v, m) # {} /\ Majority(v, m)
       /\ MeanAtLeast(v, m, Floor) /\ PassRateOk(v, m)
       /\ MeanAtLeast(v, m, baseline.mean - Drop)

Gate(v) ==
  IF mode = "fake" THEN ReportOf(FALSE, FALSE, "ineligible")
  ELSE IF BaselineStatus # "compared"
    THEN ReportOf(FALSE, FALSE, "refused_baseline")
  ELSE ReportOf(TRUE, Holds(v), IF Holds(v) THEN "passed" ELSE "failed")

Report ==
  /\ stage = "gate"
  /\ report' = Gate(verdicts) /\ stage' = "reported"
  /\ UNCHANGED <<mode, baseline, observed, torn, verdicts>>

JudgeNext == StartJudge \/ StartSession \/ Observe \/ ScoreCases \/ Report
JudgeSpec == JudgeInit /\ [][JudgeNext]_judgeVars

-----------------------------------------------------------------------------
(* A gate that passes rests on evidence: of a live run against an accepted *)
(* baseline of the same set-up, with at least half of ALL cases at the     *)
(* floor on every metric however many verdicts the judge lost, and a case  *)
(* judged for every class the policy requires; and no answer fell out of   *)
(* step with its retrieval.  A verdict that had been the best one instead  *)
(* would not have made it fail.                                            *)
JudgedOnEvidence ==
  report.passed =>
    /\ mode = "live" /\ baseline.accepted /\ baseline.same /\ ~torn
    /\ \A m \in Metrics :
         2 * Cardinality({c \in Asks : verdicts[c][m] # Lost /\ verdicts[c][m] >= Floor})
           >= Cardinality(Asks)
    /\ \A class \in RequiredClasses : \E c \in observed : ClassOf[c] = class
    /\ \A c \in Asks, m \in Metrics :
         Gate([verdicts EXCEPT ![c][m] = Best]).passed
=============================================================================
