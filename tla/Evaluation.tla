----------------------------- MODULE Evaluation -----------------------------
(***************************************************************************)
(* The two runs of an evaluation: the offline suite, and the judge with    *)
(* its gate.  The command runs one after the other and takes from the      *)
(* judge's only how it ended, so that here they move on their own.         *)
(***************************************************************************)
EXTENDS Integers, Sequences, FiniteSets, Functions

CONSTANTS
    Asks, ClassOf, SliceOf, RequiredClasses, RequiredSlice,    \* the judge's
    Metrics, Scores, Best, Floor, HalfPasses, Drop, Means, Lost,
    Chunks, Suites, Required, ToolsWired, MaxHits               \* the suite's

VARIABLES stage, mode, baseline, observed, torn, verdicts, report,
          step, suite, asked, results, recorder, flawed, judged, code

\* Scores, floors and means are between 0 and 1, half of the cases at least have
\* to pass, and a case asks for a number of hits.
ASSUME EvaluationAssumption ==
    /\ IsFiniteSet(Asks) /\ Best \in Nat \ {0} /\ Scores \subseteq 0..Best
    /\ Floor \in 0..Best /\ Drop \in Nat /\ Means \subseteq 0..Best
    /\ HalfPasses \in Nat \ {0} /\ Lost \notin 0..Best
    /\ \A s \in Suites : s \in Seq(Range(s)) /\ \A i \in DOMAIN s : s[i].k \in Nat
    /\ MaxHits \in Nat

Judge == INSTANCE JudgeGate
Eval == INSTANCE KnowledgeEval WITH stage <- step, mode <- asked

judgeVars == <<stage, mode, baseline, observed, torn, verdicts, report>>
evalVars == <<step, suite, asked, results, recorder, flawed, judged, code>>

EvaluationInit == Judge!JudgeInit /\ Eval!InitEval
EvaluationNext ==
    \/ Judge!JudgeNext /\ UNCHANGED evalVars
    \/ Eval!EvalNext /\ UNCHANGED judgeVars
EvaluationSpec == EvaluationInit /\ [][EvaluationNext]_<<judgeVars, evalVars>>

\* Both pass on evidence only, as their modules state it.
JudgedOnEvidence == Judge!JudgedOnEvidence /\ Eval!PassedOnEvidence
=============================================================================
