------------------------------ MODULE McpCalls ------------------------------
(***************************************************************************)
(* Tool calls that come through the MCP server                             *)
(* (src/presentation/mcp/app.py, src/composition/mcp/tool_registry.py,     *)
(* access.py): which are let in, which need the user's word first and how  *)
(* a client brings it, and what the two Test Design tools that change a    *)
(* draft do with it (src/composition/mcp/test_design.py).  Each facade     *)
(* call on the draft is one step here, as TestDesign shows it to be.       *)
(***************************************************************************)
EXTENDS DraftRules, FiniteSets

CONSTANTS Requests,      \* tool calls being answered, each used again
          Arguments,     \* of the tool that needs approval
          Allowlists,    \* the tools that are effective, in one deployment
          MaxSaves

VARIABLES server,        \* allowed tools and what the client can do, constant
          shared,         \* a draft all its users know
          typed,         \* the titles as they were last typed
          requests,
          questions,     \* approvals the client was asked for, with the answer
          approved,      \* calls the user has said yes to
          ran            \* calls that needed it and ran

mcpVars == <<server, shared, typed, requests, questions, approved, ran>>

\* An allowlist over the tools of the enabled packs; elicitation inside the
\* call, over two rounds, or not at all.
CreateTool == "create"
Servers == [effective : Allowlists, asks : {"inside", "rounds", "never"}]

Idle == [pc |-> "idle"]
Create_Call(a) == [tool |-> CreateTool, args |-> a]
\* Candidates to select, or the type for all that are selected, from someone
\* who has seen the draft like that.
Confirm_Call(seen, ids) == [tool |-> "confirm", seen |-> seen, ids |-> ids]
Generate_Call(seen, type) == [tool |-> "generate", seen |-> seen, type |-> type]

Calls == {Create_Call(a) : a \in Arguments}
         \union {Confirm_Call(shared, ids) :
                   ids \in SUBSET DOMAIN shared.candidates \ {{}}}
         \union {Generate_Call(shared, t) : t \in Types}

McpInit ==
  /\ server \in Servers
  /\ shared = Start /\ typed = [c \in CandidateIds |-> Suggested.title]
  /\ requests = [r \in Requests |-> Idle]
  /\ questions = {} /\ approved = {} /\ ran = {}

Become(r, s) == requests' = [requests EXCEPT ![r] = s]
End(r) == Become(r, Idle)
DraftSame == UNCHANGED <<server, shared, typed>>
UserSame  == UNCHANGED <<server, questions, approved, ran>>

-----------------------------------------------------------------------------
(* invoke_authorized and the elicitation gate.                             *)

\* Contributed by an enabled pack and on the allowlist.
Effective(tool) == tool \in server.effective

RequiresApproval(call) == call.tool = CreateTool

\* What the state of an answered question is compared with.
Binding(call) == call

NoAnswer == [given |-> FALSE]
Answers == {NoAnswer} \union
  {[given |-> TRUE, state |-> Binding(q.call), yes |-> q.yes] :
     q \in {p \in questions : p.answered}}

InputRequired(call) == [call |-> call, answered |-> FALSE, yes |-> FALSE]

\* A retry's answer counts for the call it was asked for.  A tool that is not
\* effective, bad arguments, and a summary that fails change nothing.
Invoke(r, call, answer) ==
  /\ requests[r] = Idle /\ Effective(call.tool)
  /\ call.tool # CreateTool => shared.version < MaxSaves
  /\ IF ~RequiresApproval(call)
     THEN Become(r, [pc |-> "run", call |-> call]) /\ UNCHANGED questions
     ELSE IF server.asks = "never" THEN UNCHANGED <<requests, questions>>
     ELSE IF server.asks = "inside"
     THEN Become(r, [pc |-> "ask", call |-> call]) /\ UNCHANGED questions
     ELSE IF answer.given /\ answer.state = Binding(call)
     THEN /\ UNCHANGED questions
          /\ IF answer.yes THEN Become(r, [pc |-> "run", call |-> call])
                           ELSE UNCHANGED requests
     ELSE /\ questions' = questions \union {InputRequired(call)}
          /\ UNCHANGED requests
  /\ DraftSame /\ UNCHANGED <<approved, ran>>

\* The client puts a question of an earlier round to the user.
Decide(q, yes) ==
  /\ ~q.answered
  /\ questions' = (questions \ {q}) \union {[q EXCEPT !.answered = TRUE, !.yes = yes]}
  /\ approved' = IF yes THEN approved \union {q.call} ELSE approved
  /\ DraftSame /\ UNCHANGED <<requests, ran>>

\* elicit_form: yes, no, or the client goes away.
Elicited(r, said) ==
  LET s == requests[r] IN
  /\ s.pc = "ask"
  /\ IF said = "yes"
     THEN approved' = approved \union {s.call} /\ Become(r, [s EXCEPT !.pc = "run"])
     ELSE End(r) /\ UNCHANGED approved
  /\ DraftSame /\ UNCHANGED <<questions, ran>>

RunCreate(r) ==
  LET s == requests[r] IN
  /\ s.pc = "run" /\ s.call.tool = CreateTool
  /\ ran' = ran \union {s.call}
  /\ End(r)
  /\ DraftSame /\ UNCHANGED <<questions, approved>>

-----------------------------------------------------------------------------
(* The tools on drafts: get, then calls that compare versions.             *)

\* Both read the draft first; a confirm needs its candidates to be there.
Get(r) ==
  LET s == requests[r] IN
  /\ s.pc = "run" /\ s.call.tool # CreateTool
  /\ IF s.call.tool = "confirm" /\ ~(s.call.ids \subseteq DOMAIN shared.candidates)
     THEN End(r)
     ELSE Become(r, [pc |-> s.call.tool, call |-> s.call, current |-> shared])
  /\ UserSame /\ UNCHANGED <<shared, typed>>

Reselected(list, ids) ==
  [c \in DOMAIN list |-> [list[c] EXCEPT !.selected = c \in ids]]

\* Mutant of Expected: the version that was just read, not the caller's.
Expected_Current(s) == s.current.version
Expected(s) == s.call.seen.version

Patch(r) ==
  LET s == requests[r]
      list == Reselected(s.current.candidates, s.call.ids)
  IN /\ s.pc = "confirm"
     /\ IF shared.version = Expected(s)
        THEN /\ shared' = Stored(WithCandidates(shared, list))
             /\ Become(r, [s EXCEPT !.pc = "patched"])
        ELSE End(r) /\ UNCHANGED shared
     /\ UserSame /\ UNCHANGED typed

\* With the version the patch has made.
Confirm(r, evidence) ==
  LET s == requests[r] IN
  /\ s.pc = "patched"
  /\ shared' = IF shared.version = Expected(s) + 1 /\ Confirmable(shared)
              THEN Stored(ConfirmedBy(shared, evidence)) ELSE shared
  /\ End(r)
  /\ UserSame /\ UNCHANGED typed

\* The one type goes to the candidates that were selected when it was read.
Generate(r) ==
  LET s == requests[r]
      list == Overridden(shared.candidates, Selected(s.current.candidates), s.call.type)
      targets == Selected(shared.candidates)
  IN /\ s.pc = "generate"
     /\ shared' = IF /\ shared.version = Expected(s) /\ shared.status \in Confirmed
                     /\ list # shared.candidates
                        \/ Skipped(shared, targets, FALSE) # targets
                  THEN Stored(Generated(shared, list, targets, FALSE, shared.fingerprint))
                  ELSE shared
     /\ End(r)
     /\ UserSame /\ UNCHANGED typed

\* The web client types a title, over the version it sees.
TypeTitle(c, title) ==
  /\ shared.version < MaxSaves
  /\ c \in DOMAIN shared.candidates /\ shared.candidates[c].title # title
  /\ typed' = [typed EXCEPT ![c] = title]
  /\ shared' = Stored(WithCandidates(shared, [shared.candidates EXCEPT ![c].title = title]))
  /\ UNCHANGED <<server, requests, questions, approved, ran>>

\* A tool fails, or the process ends.
CallFails(r) ==
  /\ requests[r] # Idle
  /\ End(r)
  /\ DraftSame /\ UNCHANGED <<questions, approved, ran>>

McpNext ==
  \/ \E r \in Requests :
       \/ \E call \in Calls, answer \in Answers : Invoke(r, call, answer)
       \/ \E said \in {"yes", "no"} : Elicited(r, said)
       \/ RunCreate(r)
       \/ Get(r) \/ Patch(r) \/ Generate(r) \/ CallFails(r)
       \/ \E e \in Evidence : Confirm(r, e)
  \/ \E q \in questions, yes \in BOOLEAN : Decide(q, yes)
  \/ \E c \in CandidateIds, title \in Texts : TypeTitle(c, title)

McpSpec == McpInit /\ [][McpNext]_mcpVars

-----------------------------------------------------------------------------
(* What calls do is what was agreed to: a tool that needs the user's word  *)
(* runs with arguments the user said yes to, in this round or in an        *)
(* earlier one; a draft that a confirm made ready has the candidates the   *)
(* caller named, with the titles the caller saw; a generate for one type   *)
(* leaves no selected candidate of another; and no title that anyone typed *)
(* is undone in between (app.py; test_design.py, confirm_selection and     *)
(* generate).                                                              *)
DoneAsAgreed ==
  /\ [](ran \subseteq approved)
  /\ [](\A c \in DOMAIN shared.candidates : shared.candidates[c].title = typed[c])
  /\ [][\A r \in Requests : shared' # shared /\ requests'[r] = Idle =>
          LET s == requests[r]  chosen == Selected(shared'.candidates) IN
          /\ s.pc = "patched" =>
               /\ chosen = s.call.ids
               /\ \A c \in chosen :
                    shared'.candidates[c].title = s.call.seen.candidates[c].title
          /\ s.pc = "generate" =>
               \A c \in chosen : shared'.candidates[c].type = s.call.type]_mcpVars
=============================================================================
