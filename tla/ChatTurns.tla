------------------------------ MODULE ChatTurns ------------------------------
(***************************************************************************)
(* One conversation of the chat: every question is routed by probes for    *)
(* the workflows and by cues (src/application/turn_routing.py,             *)
(* src/composition/chat/workflow_signals.py), and either answered, or met  *)
(* with a question back that the server remembers per conversation         *)
(* (clarification_context.py), or it starts a workflow                     *)
(* (tool_augmented_ask.py).  A question is the record of what the probes'  *)
(* patterns find in it.  A turn reads the context, asks the probes, sets   *)
(* the context and then answers; the client sends one turn at a time, but  *)
(* its user may stop waiting, and the server does not stop.                *)
(***************************************************************************)
EXTENDS Naturals, FiniteSets

CONSTANTS Turns          \* requests, each used again after its end

VARIABLES settings,      \* which tools are on, constant
          drafted,       \* what the conversation's Test Design draft has
          context,       \* the question back that the server remembers
          question,      \* the one that was last put to the user
          unheard,       \* history: the answer that puts the context's
                         \* question has not reached the user
          turns,
          wanted         \* history: the latest export was asked for

chatVars == <<settings, drafted, context, question, unheard, turns, wanted>>

\* The export tools need the agent loop, which needs the pack.
Settings == {s \in [pack : BOOLEAN, loop : BOOLEAN, xray : BOOLEAN] :
               (s.xray => s.loop) /\ (s.loop => s.pack)}

\* A context names its workflow and the field that is missing.
Missing(hint, field) == [hint |-> hint, missing |-> field]
Nothing       == Missing("none", "nothing")
Ready(hint)   == Missing(hint, "nothing")
NoLocator     == Missing("test_design", "issue_locator")
Unconfirmed   == Missing("drive_export", "export_confirmation")
NoTitles      == Missing("drive_export", "selected_titles")
NoCases       == Missing("xray_export", "generated_cases")
Off(hint)     == Missing(hint, "tool")

\* What a query says: the Test Design command, at its start or inside; how
\* many issues it names; a wish to export to Drive, clear, partial or only the
\* topic of prose, and one for Xray; cues; or it is nothing but a short answer.
Queries ==
  [td : {"no", "leading", "inside"}, issues : 0..2,
   drive : {"no", "topic", "partial", "clear"}, xray : {"no", "topic", "clear"},
   says : {"more"}, cues : {{}}]
  \union [td : {"no"}, issues : 0..1, drive : {"no"}, xray : {"no"},
          says : {"more"}, cues : SUBSET {"project", "general"}]
  \union [td : {"no"}, issues : {0}, drive : {"no"}, xray : {"no"},
          says : {"yes", "go ahead", "thanks", "owner/repo"}, cues : {{}}]

Drafts == {"none", "titles", "cases"}

ChatInit ==
  /\ settings \in Settings
  /\ drafted = "none"
  /\ context = Nothing /\ question = Nothing /\ unheard = FALSE
  /\ turns = [t \in Turns |-> [pc |-> "idle"]]
  /\ wanted = TRUE

-----------------------------------------------------------------------------
(* The probes: each gives at most one signal, for a workflow that is ready *)
(* or what it misses; prior is the context that was read, d the draft.     *)

Raises(q) == settings.pack /\ q.td # "no" /\ q.issues = 2

\* What an earlier turn of the conversation left to be asked.
Awaits(prior, missing) == prior = missing

TestDesignSignal(q, prior) ==
  LET awaited == Awaits(prior, NoLocator) IN
  IF q.issues = 1 /\ (q.td # "no" \/ awaited) THEN {Ready("test_design")}
  ELSE IF \/ q.td = "leading" /\ q.issues = 0
          \/ q.td = "no" /\ awaited /\ q.says \in {"yes", "thanks", "owner/repo"}
  THEN {NoLocator} ELSE {}

\* Gratitude is not consent.
Affirmed(q) == q.says \in {"yes", "go ahead"}

HasTitles(d) == d # "none"

DriveSignal(q, prior, d) ==
  LET confirmed == Awaits(prior, Unconfirmed) /\ Affirmed(q)
      wished    == q.drive \in {"partial", "clear"}
      awaited   == q.drive = "no" /\ Awaits(prior, NoTitles) /\ Affirmed(q) IN
  IF ~(confirmed \/ wished \/ awaited) THEN {}
  ELSE IF ~settings.loop THEN {Off("drive_export")}
  ELSE IF q.drive = "partial" THEN {Unconfirmed}
  ELSE IF awaited \/ ~HasTitles(d) THEN {NoTitles}
  ELSE {Ready("drive_export")}

XraySignal(q, d) ==
  IF q.xray # "clear" THEN {}
  ELSE IF ~settings.xray THEN {Off("xray_export")}
  ELSE IF d # "cases" THEN {NoCases}
  ELSE {Ready("xray_export")}

Signals(q, prior, d) ==
  IF settings.pack
  THEN TestDesignSignal(q, prior) \union DriveSignal(q, prior, d) \union XraySignal(q, d)
  ELSE {}

\* Several workflows at once are asked about, and so are mixed cues; neither
\* leaves a context.
Clarify(c) == [kind |-> "clarification", context |-> c]
Answer(kind) == [kind |-> kind, context |-> Nothing]

ByCues(q) ==
  IF q.cues = {"project", "general"} THEN Clarify(Nothing)
  ELSE IF q.cues = {"general"} THEN Answer("general_answer")
  ELSE Answer("grounded_answer")

Classify(q, prior, d) ==
  LET found == Signals(q, prior, d)  signal == CHOOSE s \in found : TRUE IN
  IF found = {} THEN ByCues(q)
  ELSE IF Cardinality(found) > 1 THEN Clarify(Nothing)
  ELSE IF signal = Ready(signal.hint) THEN Answer(signal.hint)
  ELSE Clarify(signal)

-----------------------------------------------------------------------------
Waiting == \E t \in Turns : turns[t].pc # "idle" /\ turns[t].waited
TurnTo(t, s) == turns' = [turns EXCEPT ![t] = s]

\* Whether an export is what the user asks for, in so many words or with a
\* yes to the question last put, or to one whose answer never came; for the
\* property only.
Wishes(q) ==
  (IF q.drive = "clear" THEN {"drive_export"} ELSE {})
  \union (IF q.xray = "clear" THEN {"xray_export"} ELSE {})
  \union (IF q.td = "leading" THEN {"test_design"} ELSE {})
AskedFor(hint, q) ==
  \/ Wishes(q) = {hint}
  \/ /\ hint = "drive_export" /\ Wishes(q) = {}
     /\ q.says \in {"yes", "go ahead"}
     /\ question = Unconfirmed \/ (context = Unconfirmed /\ unheard)

\* A turn begins: it reads the context.  The probes look at the draft later;
\* what they will find is a function of it.
Finds(q) ==
  [d \in Drafts |-> IF Raises(q) THEN Answer("error") ELSE Classify(q, context, d)]
Heard(q) ==
  [pc |-> "probing", waited |-> TRUE, finds |-> Finds(q),
   wants |-> {hint \in {"drive_export", "xray_export"} : AskedFor(hint, q)}]
Ask(t) ==
  /\ turns[t].pc = "idle" /\ ~Waiting
  /\ \E s \in {Heard(q) : q \in Queries} : TurnTo(t, s)
  /\ UNCHANGED <<settings, drafted, context, question, unheard, wanted>>

\* The probes are asked; one that raises ends the turn with an error.
Routed(s, decision) ==
  [pc |-> "routed", waited |-> s.waited, kind |-> decision.kind,
   put |-> decision.context, asked |-> decision.kind \in s.wants]
Probe(t) ==
  LET s == turns[t]  decision == s.finds[drafted] IN
  /\ s.pc = "probing"
  /\ TurnTo(t, IF decision.kind = "error" THEN [pc |-> "idle"] ELSE Routed(s, decision))
  /\ UNCHANGED <<settings, drafted, context, question, unheard, wanted>>

\* The context is replaced or dropped before the answer is worked out.
ContextAfter_Kept(s) == IF s.kind = "general_answer" THEN context ELSE s.put
ContextAfter(s) == s.put

Answering(s) ==
  [pc |-> s.kind, waited |-> s.waited, put |-> s.put, asked |-> s.asked]
Remember(t) ==
  LET s == turns[t] IN
  /\ s.pc = "routed"
  /\ context' = ContextAfter(s)
  /\ unheard' = (s.put # Nothing)
  /\ TurnTo(t, Answering(s))
  /\ UNCHANGED <<settings, drafted, question, wanted>>

\* The runner prepares the call from the draft of now.
StartExport(t) ==
  LET s == turns[t] IN
  /\ \/ s.pc = "drive_export" /\ HasTitles(drafted)
     \/ s.pc = "xray_export" /\ drafted = "cases"
  /\ wanted' = s.asked
  /\ TurnTo(t, [s EXCEPT !.pc = "agent"])
  /\ UNCHANGED <<settings, drafted, context, question, unheard>>

\* An answer ends the turn.  Who still waits for it has the question it puts,
\* if any: its text is chosen by what the decision misses.
PutQuestion(s) == IF s.waited THEN s.put ELSE question
EndAnswered(t) ==
  LET s == turns[t] IN
  /\ question' = PutQuestion(s)
  /\ unheard' = (unheard /\ ~(s.waited /\ s.put = context))
  /\ TurnTo(t, [pc |-> "idle"])
  /\ UNCHANGED <<settings, drafted, context, wanted>>

Clarified(t) == turns[t].pc = "clarification" /\ EndAnswered(t)

\* The work item that is named is handed to Test Design by a button; nothing
\* is started here, and a query that names none by now is told so.
HandOff(t) == turns[t].pc = "test_design" /\ EndAnswered(t)

\* An answer, or what an export lacks by now.
Finish(t) ==
  LET s == turns[t] IN
  /\ \/ s.pc \in {"general_answer", "grounded_answer", "agent"}
     \/ s.pc = "drive_export" /\ ~HasTitles(drafted)
     \/ s.pc = "xray_export" /\ drafted # "cases"
  /\ EndAnswered(t)

TurnFails(t) ==
  /\ turns[t].pc # "idle"
  /\ TurnTo(t, [pc |-> "idle"])
  /\ UNCHANGED <<settings, drafted, context, question, unheard, wanted>>

\* The user stops waiting; the turn goes on.
Stop(t) ==
  /\ turns[t].pc # "idle" /\ turns[t].waited
  /\ TurnTo(t, [turns[t] EXCEPT !.waited = FALSE])
  /\ UNCHANGED <<settings, drafted, context, question, unheard, wanted>>

DraftMoves ==
  /\ drafted' \in Drafts \ {drafted}
  /\ UNCHANGED <<settings, context, question, unheard, turns, wanted>>

\* The contexts are in memory.
ChatRestart ==
  /\ context' = Nothing /\ unheard' = FALSE
  /\ turns' = [t \in Turns |-> [pc |-> "idle"]]
  /\ UNCHANGED <<settings, drafted, question, wanted>>

ChatNext ==
  \/ \E t \in Turns :
       \/ Ask(t) \/ Probe(t) \/ Remember(t) \/ StartExport(t)
       \/ Clarified(t) \/ HandOff(t) \/ Finish(t) \/ TurnFails(t) \/ Stop(t)
  \/ DraftMoves
  \/ ChatRestart

ChatSpec == ChatInit /\ [][ChatNext]_chatVars

-----------------------------------------------------------------------------
(* An export starts only on a clear wish for it and for nothing else, or   *)
(* on a yes to the question that was last put to the user; and a yes now   *)
(* would confirm nothing but that question, whatever turns went on since   *)
(* (tool_augmented_ask.py clears the context before it works out an answer;*)
(* workflow_signals.py).  One question is excepted, which the server sets  *)
(* before it answers: that of the latest turn to set one, when its answer  *)
(* was stopped, failed or is still to come.                                *)
ExportsWereAskedFor ==
  /\ wanted
  /\ unheard \/ context \in {Nothing, question}
=============================================================================
