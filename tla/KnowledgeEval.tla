---------------------------- MODULE KnowledgeEval ----------------------------
(***************************************************************************)
(* The offline evaluation: a suite of cases is put to retrieval, to the    *)
(* grounded ask, to the ask without a pack and to the tools, every answer  *)
(* is checked against what the case expects and what was retrieved in the  *)
(* same run, and the command's exit code says whether all is well          *)
(* (src/application/evaluate_knowledge.py, observed_rag.py,                *)
(* src/presentation/cli/evaluate.py).                                      *)
(*                                                                         *)
(* What is evaluated may do anything: that is what the evaluation is for.  *)
(* The kind of a source is a function of its id.                           *)
(***************************************************************************)
EXTENDS Integers, Sequences, FiniteSets, Functions

CONSTANTS Chunks,       \* <<source, index>>
          Suites,       \* sequences of cases
          Required,     \* classes that have to be there
          ToolsWired,   \* whether tools can be called at all
          MaxHits

VARIABLES stage,
          suite, mode,
          results,      \* one for every case that is over
          recorder,     \* what every retrieval behind the ask returned
          flawed,       \* history: the cases that were answered badly
          judged,       \* how the judge's run ended
          code          \* the exit code, -1 while there is none

evalVars == <<stage, suite, mode, results, recorder, flawed, judged, code>>

NoIndex == -1           \* of a citation that names the source only
NoCount == -1           \* of a run without hit_count
Sources == {c[1] : c \in Chunks}
Citable == Chunks \union (Sources \X {NoIndex})
Rankings == {s \in UNION {[1..n -> Chunks] : n \in 0..MaxHits} : IsInjective(s)}

InitEval ==
  /\ stage = "start" /\ suite \in Suites /\ mode \in {"off", "fake", "live"}
  /\ results = <<>> /\ recorder = <<>> /\ flawed = {}
  /\ judged = "none" /\ code = -1

-----------------------------------------------------------------------------
(* Cases.                                                                  *)

\* What a case has to look like; an absent list is an empty one.
ValidCase(c) ==
  /\ (c.kind = "pack_off") <=> (c.class = "pack_off")
  /\ (c.kind = "invoke_tool") <=> (c.class = "tool")
  /\ c.kind # "invoke_tool" => c.k > 0
  /\ c.kind # "ask" => c.mode = "none" /\ c.gold = {}
  /\ c.kind \in {"pack_off", "invoke_tool"} => c.sources = {}
  /\ c.kind = "retrieve" => c.sources # {}
  /\ c.kind = "ask" =>
       /\ c.mode \in {"grounded", "insufficient"}
       /\ c.mode = "insufficient" => c.gold = {}
       /\ IF c.class = "irrelevant" THEN c.sources = {} /\ c.mode = "insufficient"
          ELSE c.sources # {}

ValidSuite == \A i \in DOMAIN suite : ValidCase(suite[i])

Load ==
  /\ stage = "start"
  /\ \/ stage' = "run" /\ code' = code /\ ValidSuite
     \/ stage' = "over" /\ code' = 2        \* no corpus, no settings, an invalid case
  /\ UNCHANGED <<suite, mode, results, recorder, flawed, judged>>

Case == suite[Len(results) + 1]
Due(kind) == stage = "run" /\ Len(results) < Len(suite) /\ Case.kind = kind

\* A result has retrieval scores or not.
Result(status, scored) == [status |-> status, scored |-> scored]
Passed(ok) == Result(IF ok THEN "pass" ELSE "fail",
                     Case.kind = "retrieve" \/ Case.sources # {})
Raised == Result("fail", FALSE)
Skipped == Result("skip", FALSE)

\* A case is over with its result; sound: whether it was served as it should
Over(result, sound) ==
  /\ results' = Append(results, result)
  /\ flawed' = flawed \union (IF sound THEN {} ELSE {Len(results) + 1})
  /\ UNCHANGED <<suite, mode, judged, code>>

\* An error is the end of the case only.
CaseRaises ==
  /\ stage \in {"run", "answer"} /\ Len(results) < Len(suite)
  /\ Case.kind = "invoke_tool" => ToolsWired
  /\ Over(Raised, FALSE) /\ stage' = "run"
  /\ UNCHANGED recorder

SourcesOf(hits) == {h[1] : h \in Range(hits)}
Top(hits, k) == SubSeq(hits, 1, IF k < Len(hits) THEN k ELSE Len(hits))

RetrievedWell(c, top) ==
  IF c.class = "cross_source" THEN c.sources \subseteq SourcesOf(top)
  ELSE c.sources \intersect SourcesOf(top) # {}

RunRetrieve ==
  /\ Due("retrieve")
  /\ \E hits \in Rankings :
       LET found == {c \in Case.sources : \E i \in DOMAIN hits : i <= Case.k /\ hits[i][1] = c}
       IN  Over(Passed(RetrievedWell(Case, Top(hits, Case.k))),
                IF Case.class = "cross_source" THEN found = Case.sources ELSE found # {})
  /\ UNCHANGED <<stage, recorder>>

\* The ask without a pack retrieves through the same recorder.
RunPackOff ==
  /\ Due("pack_off")
  /\ \E hits \in Rankings, path \in {"rag", "tools", "none"}, pack, output \in BOOLEAN :
       /\ Over(Passed(~output /\ path = "rag" /\ ~pack), path = "rag" /\ ~pack /\ ~output)
       /\ recorder' = Append(recorder, hits)
  /\ UNCHANGED stage

\* The answer is no object, another tool's, or has what was expected or not.
RunInvoke ==
  /\ Due("invoke_tool")
  /\ IF ToolsWired
     THEN \E answer \in {"text", "other tool", "subset", "differs"} :
            Over(Passed(answer = "subset"), answer = "subset")
     ELSE Over(Skipped, TRUE)
  /\ UNCHANGED <<stage, recorder>>

-----------------------------------------------------------------------------
(* One grounded ask, observed.                                             *)

Cleared(calls) == <<>>

\* The recorder is emptied, the ask retrieves...
StartAsk ==
  /\ Due("ask")
  /\ \E hits \in Rankings : recorder' = Append(Cleared(recorder), hits)
  /\ stage' = "answer"
  /\ UNCHANGED <<suite, mode, results, flawed, judged, code>>

\* Without a run the outcome counts as answered.
Responses ==
  [insufficient : BOOLEAN, outcome : {"insufficient", "answered"},
   count : {NoCount} \union 0..MaxHits, generation : Rankings, cites : SUBSET Citable]

\* One retrieval, and the hits of the generation are among its hits.
Intact(calls, r) ==
  /\ Len(calls) = 1
  /\ IF r.outcome = "insufficient"
     THEN r.insufficient /\ r.generation = <<>> /\ r.count \in {NoCount, 0}
     ELSE /\ r.generation = <<>> => calls[1] = <<>>
          /\ Range(r.generation) \subseteq Range(calls[1])

Shared(r) == r.outcome = "insufficient" \/ r.count \in {NoCount, Len(r.generation)}

\* Names a hit, as a chunk or by its source alone
Names(cite, hits) == cite \in Range(hits) \union (SourcesOf(hits) \X {NoIndex})
\* A label without an index is met by every chunk of its source.
Matches(label, cite) == label[1] = cite[1] /\ label[2] \in {NoIndex, cite[2]}

CitationChecks(c, r) ==
  /\ \A cite \in r.cites : Names(cite, r.generation)
  /\ \A label \in c.gold : \E cite \in r.cites : Matches(label, cite)
  /\ \A cite \in r.cites : \E label \in c.gold : Matches(label, cite)

AskChecks(c, r) ==
  /\ Shared(r)
  /\ IF c.mode = "insufficient"
     THEN r.insufficient /\ r.cites = {} /\ r.outcome = "insufficient"
     ELSE /\ ~r.insufficient
          /\ CitationChecks(c, r)
          /\ c.class = "conflicting" =>
               /\ c.sources \subseteq SourcesOf(r.generation)
               /\ c.sources \subseteq {cite[1] : cite \in r.cites}
          /\ c.class = "unknown_source_kind" =>
               {label[1] : label \in c.gold} \subseteq SourcesOf(r.generation)

\* As it should be: either nothing is said, or what is cited was retrieved by
\* this very ask and is what the case's author knows to be the answer's source.
Sound(c, hits, r) ==
  IF c.mode = "insufficient" THEN r.insufficient /\ r.cites = {}
  ELSE /\ ~r.insufficient
       /\ \A cite \in r.cites : \E i \in DOMAIN hits :
            hits[i][1] = cite[1] /\ cite[2] \in {hits[i][2], NoIndex}
       /\ \A source \in {label[1] : label \in c.gold} : \E cite \in r.cites : cite[1] = source
       /\ c.class = "conflicting" =>
            \A source \in c.sources : \E cite \in r.cites : cite[1] = source

\* ... and answers; a response that does not fit its retrieval is an error.
Observed(r) ==
  [result |-> IF Intact(recorder, r) THEN Passed(AskChecks(Case, r)) ELSE Raised,
   sound  |-> Sound(Case, recorder[Len(recorder)], r)]
Answer ==
  /\ stage = "answer"
  /\ \E end \in {Observed(r) : r \in Responses} : Over(end.result, end.sound)
  /\ stage' = "run"
  /\ UNCHANGED recorder

-----------------------------------------------------------------------------
(* The report and the exit code.                                           *)

Count(status) == Cardinality({i \in DOMAIN results : results[i].status = status})
\* What the means are over
Denominator == Cardinality({i \in DOMAIN results : results[i].scored})
Exercised == {suite[i].class : i \in {j \in DOMAIN results : results[j].status # "skip"}}
Unmet == Required \ Exercised

OfflineCode == IF Count("fail") >= 1 \/ Unmet # {} THEN 1 ELSE 0

\* The reports are written, or the disk refuses.
Finish ==
  /\ stage = "run" /\ Len(results) = Len(suite)
  /\ \E written \in BOOLEAN :
       /\ stage' = IF written /\ mode # "off" THEN "judge" ELSE "over"
       /\ code' = IF ~written THEN 1 ELSE IF mode = "off" THEN OfflineCode ELSE code
  /\ UNCHANGED <<suite, mode, results, recorder, flawed, judged>>

Unusable == {"skipped", "raised", "unwritten", "ineligible", "refused_baseline"}
CombinedCode(offline, outcome) ==
  IF mode = "fake" \/ outcome \in Unusable THEN 2
  ELSE IF offline = 1 \/ outcome # "passed" THEN 1 ELSE 0

\* The judge's run ends as JudgeGate has it.
Judge ==
  /\ stage = "judge"
  /\ judged' \in IF mode = "fake" THEN {"ineligible", "raised", "unwritten"}
                 ELSE Unusable \union {"passed", "failed"}
  /\ code' = CombinedCode(OfflineCode, judged')
  /\ stage' = "over"
  /\ UNCHANGED <<suite, mode, results, recorder, flawed>>

EvalNext ==
  \/ Load \/ RunRetrieve \/ RunPackOff \/ RunInvoke \/ StartAsk \/ Answer
  \/ CaseRaises \/ Finish \/ Judge

EvalSpec == InitEval /\ [][EvalNext]_evalVars

-----------------------------------------------------------------------------
(* An evaluation that exits with zero rests on evidence: no case was       *)
(* answered badly, whatever the system under evaluation did and reported   *)
(* about itself; nothing was cited that the same ask had not retrieved;    *)
(* every required class was really asked, no case fell out of the means,   *)
(* and where the judge was asked too its gate passed in a live run.        *)
PassedOnEvidence ==
  code = 0 =>
    /\ flawed = {} /\ Len(results) = Len(suite)
    /\ \A class \in Required : \E i \in DOMAIN suite :
         suite[i].class = class /\ results[i].status = "pass"
    /\ Denominator = Cardinality({i \in DOMAIN suite : suite[i].sources # {}})
    /\ mode # "off" => mode = "live" /\ judged = "passed"
=============================================================================
