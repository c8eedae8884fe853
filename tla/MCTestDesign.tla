---------------------------- MODULE MCTestDesign ----------------------------
(***************************************************************************)
(* Test Design for TLC: a draft under the requests of several workers, and *)
(* what becomes of the model's replies in it.  Which one moves is chosen   *)
(* at the start, the other stays as it is.                                 *)
(***************************************************************************)
EXTENDS DraftReplies, TLC

CONSTANTS go, check, user, jira, Jira, github, k1, k2

VARIABLE which

MCScenario(steps, table) == [steps |-> steps, table |-> table]

\* Two good scenarios, one with a column that no step reads, one without a
\* column for what its step reads
MCScenarios == {MCScenario(<<go, check>>, {}), MCScenario(<<go, user>>, {"name"}),
                MCScenario(<<check>>, {"name"}), MCScenario(<<user, check>>, {"other"})}
MCBackgrounds == {<<>>, <<go, check>>}
MCUses == [s \in {go, check, user} |-> IF s = user THEN {"name"} ELSE {}]
MCPairs == {<<jira, k1>>, <<Jira, k1>>, <<jira, k2>>, <<github, k1>>}
MCFold == [t \in {jira, Jira, github} |-> IF t = Jira THEN jira ELSE t]

MCInit == which \in {"draft", "replies"} /\ DesignInit

MCNext ==
    \/ which = "draft" /\ Next /\ UNCHANGED <<which, repliesVars>>
    \/ which = "replies" /\ RepliesNext /\ UNCHANGED <<which, vars>>

MCSpec == MCInit /\ [][MCNext]_<<which, vars, repliesVars>>

Symmetry == Permutations(Workers) \union Permutations(Evidence)
=============================================================================
