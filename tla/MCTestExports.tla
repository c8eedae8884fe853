--------------------------- MODULE MCTestExports ---------------------------
(***************************************************************************)
(* Exports, the two ways a tool call comes about, a turn of the chat and a *)
(* call through MCP, and the evaluation: its offline suite and the judge's *)
(* gate.  Which one moves is chosen at the start, the others stay as they  *)
(* are.                                                                    *)
(***************************************************************************)
EXTENDS TestExports, ChatTurns, McpCalls, Evaluation, TLC

VARIABLE which

\* Four cases, the middle two of one class; the last needs no class
MCClassOf == <<"cross", "conflict", "conflict", "other">>
MCSliceOf == <<"hub", "hub", "delivery", "delivery">>

\* Two sources, one with two chunks.  The second suite leaves out the pack, the
\* third has a case that may not be there.
MCChunks == {<<1, 0>>, <<1, 1>>, <<2, 0>>}
Retrieve(class, sources) ==
    [class |-> class, kind |-> "retrieve", k |-> 2, sources |-> sources,
     mode |-> "none", gold |-> {}]
Question(class, sources, answer, gold) ==
    [class |-> class, kind |-> "ask", k |-> 2, sources |-> sources,
     mode |-> answer, gold |-> gold]
PackOff == [Retrieve("pack_off", {}) EXCEPT !.kind = "pack_off"]
Tool == [Retrieve("tool", {}) EXCEPT !.kind = "invoke_tool"]

MCSuites ==
    {<<PackOff, Retrieve("single_source", {1}),
       Question("conflicting", {1, 2}, "grounded", {<<1, 0>>, <<2, -1>>}),
       Retrieve("cross_source", {1, 2})>>,
     <<Question("unknown_source_kind", {2}, "grounded", {<<2, 0>>}),
       Question("irrelevant", {}, "insufficient", {}), Tool>>,
     <<PackOff, Question("irrelevant", {2}, "insufficient", {})>>}

MCInit ==
    /\ which \in {"exports", "chat", "mcp", "judge", "eval"}
    /\ Init /\ ChatInit /\ McpInit /\ EvaluationInit
    /\ which # "judge" => mode = "fake" /\ baseline = Judge!Missing
    /\ which # "chat" => settings = [pack |-> FALSE, loop |-> FALSE, xray |-> FALSE]
    /\ which # "eval" => asked = "off" /\ Len(suite) = 2
    /\ which # "mcp" => server = [effective |-> {"create"}, asks |-> "never"]

MCNext ==
    \/ /\ which = "exports" /\ Next
       /\ UNCHANGED <<which, chatVars, mcpVars, judgeVars, evalVars>>
    \/ /\ which = "chat" /\ ChatNext
       /\ UNCHANGED <<which, vars, mcpVars, judgeVars, evalVars>>
    \/ /\ which = "mcp" /\ McpNext
       /\ UNCHANGED <<which, vars, chatVars, judgeVars, evalVars>>
    \/ /\ which = "judge" /\ Judge!JudgeNext
       /\ UNCHANGED <<which, vars, chatVars, mcpVars, evalVars>>
    \/ /\ which = "eval" /\ Eval!EvalNext
       /\ UNCHANGED <<which, vars, chatVars, mcpVars, judgeVars>>

MCSpec == MCInit /\ [][MCNext]_<<which, vars, chatVars, mcpVars, judgeVars, evalVars>>

\* Runs and turns may have the same names: only one of them moves.
Symmetry == Permutations(Runs \union Turns)
=============================================================================
