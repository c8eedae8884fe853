-------------------------- MODULE ToolCalls_proofs --------------------------
(***************************************************************************)
(* How a tool call comes about, and what it exports.  Calls through MCP do *)
(* what was agreed to, for every number of requests, arguments, candidates,*)
(* texts, types and versions and every allowlist; a turn of the chat       *)
(* starts the export that was asked for, for every number of turns; and    *)
(* of exports of a draft's tests: what a receipt accounts for, that a run  *)
(* creates no test twice, and that a button exports what its user saw, for *)
(* every number of requests, tests and edits and every size of a receipt.  *)
(***************************************************************************)
EXTENDS TestExports, McpCalls, ChatTurns, Evaluation, FiniteSetTheorems, SequenceTheorems,
        TLAPS

(* What a request can hold: a call, and for the tools on drafts what the   *)
(* call's author and the call itself have seen of the draft.               *)
Creates   == {Create_Call(a) : a \in Arguments}
Confirms  == [tool : {"confirm"}, seen : Draft, ids : SUBSET CandidateIds]
Generates == [tool : {"generate"}, seen : Draft, type : Types]
AnyCall == Creates \cup Confirms \cup Generates

States == {Idle}
          \cup [pc : {"ask", "run"}, call : AnyCall]
          \cup [pc : {"confirm", "patched"}, call : Confirms, current : Draft]
          \cup [pc : {"generate"}, call : Generates, current : Draft]

Questions == [call : AnyCall, answered : BOOLEAN, yes : BOOLEAN]

Shapes ==
    /\ shared \in Draft
    /\ typed \in [CandidateIds -> Texts]
    /\ requests \in [Requests -> States]
    /\ questions \in SUBSET Questions

(* An older reading of the draft, or the draft itself.                     *)
Reading(e, d) == e.version <= d.version /\ (e.version = d.version => e = d)

(* What a request knows.  One that asks, or runs the tool that needs it,   *)
(* has to do with the user's word; what one has seen of a draft is that    *)
(* draft until its version moves on, and what it has made of it is there   *)
(* for as long as the version is the one that made it.                     *)
RequestOK(s, d, agreed) ==
    /\ s.pc = "ask" => s.call.tool = CreateTool
    /\ s.pc = "run" /\ s.call.tool = CreateTool => s.call \in agreed
    /\ s.pc # "idle" /\ s.call.tool # CreateTool => Reading(s.call.seen, d)
    /\ s.pc \in {"confirm", "generate"} =>
         Reading(s.current, d) /\ s.call.seen.version <= s.current.version
    /\ s.pc = "confirm" => s.call.ids \subseteq DOMAIN s.current.candidates
    /\ s.pc = "patched" =>
         /\ s.call.seen.version < d.version
         /\ d.version = s.call.seen.version + 1 =>
              /\ Selected(d.candidates) = s.call.ids
              /\ \A c \in s.call.ids :
                   d.candidates[c].title = s.call.seen.candidates[c].title

WordsKept ==
    /\ \A q \in questions : q.yes = TRUE => q.call \in approved
    /\ ran \subseteq approved

Typed(d, t) == \A c \in DOMAIN d.candidates : d.candidates[c].title = t[c]

IInv ==
    /\ Shapes /\ WordsKept /\ Typed(shared, typed)
    /\ \A r \in Requests : RequestOK(requests[r], shared, approved)

-----------------------------------------------------------------------------
(* Drafts.  What the rules leave of a draft besides its candidates is of   *)
(* no concern here.                                                        *)

LEMMA DraftFields ==
  ASSUME NEW d \in Draft
  PROVE  /\ d.candidates \in CandidateLists /\ d.version \in Nat \ {0}
         /\ d.cases \in SUBSET CandidateIds /\ d.edited \in SUBSET CandidateIds
         /\ d.fingerprint \in Evidence \cup {"none"}
BY DEF Draft

LEMMA StoredIs ==
  ASSUME NEW d \in Draft
  PROVE  /\ Stored(d) \in Draft /\ Stored(d).candidates = d.candidates
         /\ Stored(d).version = d.version + 1
BY DEF Draft, Stored

LEMMA KeepsIs ==
  ASSUME NEW d \in Draft, NEW kept
  PROVE  /\ Keeps(d, kept) \in Draft /\ Keeps(d, kept).candidates = d.candidates
         /\ Keeps(d, kept).version = d.version
BY DEF Draft, Keeps

\* Whatever a patch makes of the cases, it puts the list it is given.
LEMMA WithCandidatesIs ==
  ASSUME NEW d \in Draft, NEW list \in CandidateLists
  PROVE  /\ WithCandidates(d, list) \in Draft
         /\ WithCandidates(d, list).candidates = list
         /\ WithCandidates(d, list).version = d.version
<1>. DEFINE new == [d EXCEPT !.candidates = list]
<1>1. new \in Draft /\ new.candidates = list /\ new.version = d.version
  BY DEF Draft
<1>2. ASSUME NEW kept
      PROVE  /\ Keeps(new, kept) \in Draft /\ Keeps(new, kept).candidates = list
             /\ Keeps(new, kept).version = d.version
  <2>. HIDE DEF new
  <2>. QED  BY <1>1, KeepsIs
<1>3. ASSUME NEW k \in Draft
      PROVE  LET n == [k EXCEPT !.status = "coverage_review", !.fingerprint = "none"]
             IN  n \in Draft /\ n.candidates = k.candidates /\ n.version = k.version
  BY DEF Draft, Statuses
<1>. DEFINE old == d.candidates
            review == [Keeps(new, Unchanged(old, list)) EXCEPT
                         !.status = "coverage_review", !.fingerprint = "none"]
<1>4. \/ WithCandidates(d, list) = new
      \/ WithCandidates(d, list)
           = Keeps(new, SameType(old, list) \intersect Selected(list))
      \/ WithCandidates(d, list) = review
      \/ WithCandidates(d, list) = Keeps(new, SameType(old, list))
  BY Zenon DEF WithCandidates
<1>5. review \in Draft /\ review.candidates = list /\ review.version = d.version
  <2>. DEFINE k == Keeps(new, Unchanged(old, list))
  <2>1. k \in Draft /\ k.candidates = list /\ k.version = d.version
    BY <1>2
  <2>. HIDE DEF new, k
  <2>. QED  BY <2>1, <1>3 DEF k
<1>. HIDE DEF new, review
<1>. QED  BY <1>1, <1>2, <1>4, <1>5

LEMMA ConfirmedByIs ==
  ASSUME NEW d \in Draft, NEW e \in Evidence
  PROVE  /\ ConfirmedBy(d, e) \in Draft
         /\ ConfirmedBy(d, e).candidates = d.candidates
         /\ ConfirmedBy(d, e).version = d.version
<1>. DEFINE k == Keeps(d, Selected(d.candidates))
            now == IF k.cases = {} THEN "ready" ELSE "case_editing"
<1>1. k \in Draft /\ k.candidates = d.candidates /\ k.version = d.version
  BY KeepsIs
<1>2. ConfirmedBy(d, e) = [k EXCEPT !.status = now, !.fingerprint = e]
  BY DEF ConfirmedBy
<1>3. now \in Statuses
  BY DEF Statuses
<1>. HIDE DEF k, now
<1>. QED  BY <1>1, <1>2, <1>3 DEF Draft

LEMMA GeneratedIs ==
  ASSUME NEW d \in Draft, NEW list \in CandidateLists, NEW targets \in SUBSET CandidateIds,
         NEW e \in Evidence \cup {"none"}
  PROVE  LET n == Generated(d, list, targets, FALSE, e)
         IN  n \in Draft /\ n.candidates = list /\ n.version = d.version
<1>. DEFINE todo == targets \ Skipped(d, targets, FALSE)
            n == Generated(d, list, targets, FALSE, e)
<1>1. CASE todo = {}
  <2>1. n = [d EXCEPT !.candidates = list, !.fingerprint = e]
    BY <1>1 DEF Generated
  <2>2. [d EXCEPT !.candidates = list, !.fingerprint = e] \in Draft
    BY DEF Draft
  <2>. QED  BY <2>1, <2>2 DEF Draft
<1>2. CASE todo # {}
  <2>. DEFINE m == [d EXCEPT !.candidates = list, !.cases = @ \union todo,
                             !.edited = @ \ todo, !.status = "case_editing",
                             !.fingerprint = e]
  <2>1. n = m
    BY <1>2 DEF Generated
  <2>2. todo \subseteq CandidateIds
    OBVIOUS
  <2>. HIDE DEF todo
  <2>3. m \in Draft
    BY <2>2 DEF Draft, Statuses
  <2>. QED  BY <2>1, <2>3 DEF Draft
<1>. QED  BY <1>1, <1>2

LEMMA ListFields ==
  ASSUME NEW list \in CandidateLists
  PROVE  /\ DOMAIN list \in SUBSET CandidateIds
         /\ \A c \in DOMAIN list : list[c] \in Candidate
BY DEF CandidateLists

\* A new selection, and nothing but the selection.
LEMMA ReselectedIs ==
  ASSUME NEW list \in CandidateLists, NEW ids \in SUBSET DOMAIN list
  PROVE  LET new == Reselected(list, ids)
         IN  /\ new \in CandidateLists /\ DOMAIN new = DOMAIN list
             /\ Selected(new) = ids
             /\ \A c \in DOMAIN list : new[c].title = list[c].title
<1>. DEFINE new == Reselected(list, ids)
<1>1. PICK S \in SUBSET CandidateIds : list \in [S -> Candidate]
  BY DEF CandidateLists
<1>2. ASSUME NEW c \in S, NEW chosen \in BOOLEAN
      PROVE  LET k == [list[c] EXCEPT !.selected = chosen]
             IN  k \in Candidate /\ k.title = list[c].title /\ k.selected = chosen
  BY <1>1 DEF Candidate
<1>7. new = [c \in S |-> [list[c] EXCEPT !.selected = c \in ids]]
  BY <1>1 DEF Reselected
<1>. HIDE DEF new
<1>4. ASSUME NEW c \in S
      PROVE  /\ new[c] \in Candidate /\ new[c].title = list[c].title
             /\ new[c].selected <=> c \in ids
  <2>. DEFINE chosen == c \in ids
  <2>1. new[c] = [list[c] EXCEPT !.selected = chosen]
    BY <1>7
  <2>2. chosen \in BOOLEAN
    OBVIOUS
  <2>. HIDE DEF chosen
  <2>3. new[c] \in Candidate /\ new[c].title = list[c].title /\ new[c].selected = chosen
    BY <1>2, <2>1, <2>2
  <2>. QED  BY <2>2, <2>3 DEF chosen
<1>3. DOMAIN new = S /\ new = [c \in S |-> new[c]]
  BY <1>7
<1>8. new \in [S -> Candidate]
  BY <1>3, <1>4
<1>5. Selected(new) = ids
  BY <1>1, <1>3, <1>4 DEF Selected
<1>6. new \in CandidateLists
  BY <1>8 DEF CandidateLists
<1>. QED  BY <1>1, <1>3, <1>4, <1>5, <1>6 DEF new

\* New types for some candidates, and nothing but types.
LEMMA OverriddenIs ==
  ASSUME NEW list \in CandidateLists, NEW ids, NEW type \in Types
  PROVE  LET new == Overridden(list, ids, type)
         IN  /\ new \in CandidateLists /\ DOMAIN new = DOMAIN list
             /\ Selected(new) = Selected(list)
             /\ \A c \in DOMAIN list : new[c].title = list[c].title
             /\ \A c \in DOMAIN list : c \in ids => new[c].type = type
<1>. DEFINE new == Overridden(list, ids, type)
<1>1. PICK S \in SUBSET CandidateIds : list \in [S -> Candidate]
  BY DEF CandidateLists
<1>2. ASSUME NEW c \in S
      PROVE  LET k == [list[c] EXCEPT !.type = type]
             IN  /\ k \in Candidate /\ k.title = list[c].title
                 /\ k.selected = list[c].selected /\ k.type = type
  BY <1>1 DEF Candidate
<1>3. /\ DOMAIN new = S /\ new \in [S -> Candidate]
      /\ \A c \in S : new[c] = IF c \in ids THEN [list[c] EXCEPT !.type = type] ELSE list[c]
  BY <1>1, <1>2 DEF Overridden
<1>. HIDE DEF new
<1>4. \A c \in S : /\ new[c].title = list[c].title /\ new[c].selected = list[c].selected
                   /\ c \in ids => new[c].type = type
  BY <1>2, <1>3
<1>5. Selected(new) = Selected(list)
  BY <1>1, <1>3, <1>4 DEF Selected
<1>6. new \in CandidateLists
  BY <1>3 DEF CandidateLists
<1>. QED  BY <1>1, <1>3, <1>4, <1>5, <1>6 DEF new

\* One title is typed.
LEMMA RetitledIs ==
  ASSUME NEW list \in CandidateLists, NEW b \in DOMAIN list, NEW title \in Texts
  PROVE  LET new == [list EXCEPT ![b].title = title]
         IN  /\ new \in CandidateLists /\ DOMAIN new = DOMAIN list
             /\ new[b].title = title
             /\ \A c \in DOMAIN list \ {b} : new[c].title = list[c].title
<1>. DEFINE k == [list[b] EXCEPT !.title = title]
            new == [list EXCEPT ![b].title = title]
<1>1. PICK S \in SUBSET CandidateIds : list \in [S -> Candidate]
  BY DEF CandidateLists
<1>2. k \in Candidate /\ k.title = title
  BY <1>1 DEF Candidate
<1>3. new = [list EXCEPT ![b] = k]
  OBVIOUS
<1>. HIDE DEF k, new
<1>4. new \in [S -> Candidate] /\ new[b] = k /\ \A c \in S \ {b} : new[c] = list[c]
  BY <1>1, <1>2, <1>3
<1>5. new \in CandidateLists
  BY <1>4 DEF CandidateLists
<1>. QED  BY <1>1, <1>2, <1>4, <1>5 DEF new

-----------------------------------------------------------------------------
(* Calls and requests.                                                     *)

LEMMA CallIs ==
  ASSUME NEW call \in AnyCall
  PROVE  /\ call.tool \in {"create", "confirm", "generate"}
         /\ call.tool = "confirm" <=> call \in Confirms
         /\ call.tool = "generate" <=> call \in Generates
         /\ call.tool # CreateTool => call.seen \in Draft
<1>1. CASE call \in Creates
  <2>1. call.tool = "create"
    BY <1>1 DEF Creates, Create_Call, CreateTool
  <2>. QED  BY <2>1 DEF Confirms, Generates, CreateTool
<1>2. CASE call \in Confirms
  <2>1. call.tool = "confirm" /\ call.seen \in Draft
    BY <1>2 DEF Confirms
  <2>. QED  BY <1>2, <2>1 DEF Generates
<1>3. CASE call \in Generates
  <2>1. call.tool = "generate" /\ call.seen \in Draft
    BY <1>3 DEF Generates
  <2>. QED  BY <1>3, <2>1 DEF Confirms
<1>. QED  BY <1>1, <1>2, <1>3 DEF AnyCall

Working == {"confirm", "generate", "patched"}

LEMMA StateIs ==
  ASSUME NEW s \in States
  PROVE  /\ s.pc \in {"idle", "ask", "run"} \cup Working
         /\ s.pc = "idle" => s = Idle
         /\ s.pc # "idle" => s.call \in AnyCall
         /\ s.pc \in Working => s.current \in Draft /\ s.call.tool # CreateTool
         /\ s.pc \in {"confirm", "patched"} =>
              s \in [pc : {"confirm", "patched"}, call : Confirms, current : Draft]
         /\ s.pc = "generate" => s.call \in Generates
<1>1. CASE s = Idle
  <2>1. s.pc = "idle"
    BY <1>1 DEF Idle
  <2>. QED  BY <1>1, <2>1 DEF Working
<1>2. CASE s \in [pc : {"ask", "run"}, call : AnyCall]
  <2>1. s.pc \in {"ask", "run"} /\ s.call \in AnyCall
    BY <1>2
  <2>. QED  BY <2>1 DEF Working
<1>3. CASE s \in [pc : {"confirm", "patched"}, call : Confirms, current : Draft]
  <2>1. /\ s.pc \in {"confirm", "patched"} /\ s.call \in AnyCall /\ s.current \in Draft
        /\ s.call.tool = "confirm"
    BY <1>3 DEF AnyCall, Confirms
  <2>. QED  BY <1>3, <2>1 DEF Working, CreateTool
<1>4. CASE s \in [pc : {"generate"}, call : Generates, current : Draft]
  <2>1. /\ s.pc = "generate" /\ s.call \in AnyCall /\ s.current \in Draft
        /\ s.call.tool = "generate" /\ s.call \in Generates
    BY <1>4 DEF AnyCall, Generates
  <2>. QED  BY <2>1 DEF Working, CreateTool
<1>. QED  BY <1>1, <1>2, <1>3, <1>4 DEF States

LEMMA IdleIs ==
  /\ Idle \in States /\ Idle.pc = "idle"
  /\ \A d, A : RequestOK(Idle, d, A)
<1>1. Idle \in States /\ Idle.pc = "idle"
  BY DEF Idle, States
<1>. QED  BY <1>1 DEF RequestOK

\* Calls are made by someone who sees the draft as it is.
LEMMA CallsAre ==
  ASSUME Shapes, NEW call \in Calls
  PROVE  call \in AnyCall /\ (call.tool # CreateTool => call.seen = shared)
<1>0. shared \in Draft /\ DOMAIN shared.candidates \subseteq CandidateIds
  BY DraftFields, ListFields DEF Shapes
<1>1. ASSUME NEW a \in Arguments, call = Create_Call(a)
      PROVE  call \in AnyCall /\ call.tool = CreateTool
  BY <1>1 DEF AnyCall, Creates, Create_Call
<1>2. ASSUME NEW ids \in SUBSET DOMAIN shared.candidates, call = Confirm_Call(shared, ids)
      PROVE  call \in AnyCall /\ call.seen = shared
  <2>1. call = [tool |-> "confirm", seen |-> shared, ids |-> ids]
    BY <1>2 DEF Confirm_Call
  <2>2. call \in Confirms /\ call.seen = shared
    BY <1>0, <2>1 DEF Confirms
  <2>. QED  BY <2>2 DEF AnyCall
<1>3. ASSUME NEW t \in Types, call = Generate_Call(shared, t)
      PROVE  call \in AnyCall /\ call.seen = shared
  <2>1. call = [tool |-> "generate", seen |-> shared, type |-> t]
    BY <1>3 DEF Generate_Call
  <2>2. call \in Generates /\ call.seen = shared
    BY <1>0, <2>1 DEF Generates
  <2>. QED  BY <2>2 DEF AnyCall
<1>. QED  BY <1>1, <1>2, <1>3 DEF Calls

Moved(d, e) == e = d \/ e.version = d.version + 1

\* What a request knows it still knows when the draft has moved on, and when
\* more has been agreed to.
LEMMA StillOK ==
  ASSUME NEW s \in States, NEW d \in Draft, NEW e \in Draft, Moved(d, e),
         NEW A, NEW B, A \subseteq B, RequestOK(s, d, A)
  PROVE  RequestOK(s, e, B)
<1>1. d.version \in Nat /\ e.version \in Nat /\ (e = d \/ e.version = d.version + 1)
  BY DraftFields DEF Moved
<1>2. ASSUME NEW x \in Draft, Reading(x, d)
      PROVE  Reading(x, e)
  <2>1. x.version \in Nat
    BY DraftFields
  <2>. QED  BY <1>1, <1>2, <2>1 DEF Reading
<1>3. s.pc # "idle" /\ s.call.tool # CreateTool => s.call.seen \in Draft
  BY StateIs, CallIs
<1>4. s.pc = "ask" => s.call.tool = CreateTool
  BY DEF RequestOK
<1>5. s.pc = "run" /\ s.call.tool = CreateTool => s.call \in B
  BY DEF RequestOK
<1>6. s.pc # "idle" /\ s.call.tool # CreateTool => Reading(s.call.seen, e)
  BY <1>2, <1>3 DEF RequestOK
<1>7. s.pc \in {"confirm", "generate"} =>
        Reading(s.current, e) /\ s.call.seen.version <= s.current.version
  BY <1>2, StateIs DEF RequestOK, Working
<1>8. s.pc = "confirm" => s.call.ids \subseteq DOMAIN s.current.candidates
  BY DEF RequestOK
<1>9. s.pc = "patched" =>
        /\ s.call.seen.version < e.version
        /\ e.version = s.call.seen.version + 1 =>
             /\ Selected(e.candidates) = s.call.ids
             /\ \A c \in s.call.ids :
                  e.candidates[c].title = s.call.seen.candidates[c].title
  <2>. SUFFICES ASSUME s.pc = "patched"
                PROVE  /\ s.call.seen.version < e.version
                       /\ e.version = s.call.seen.version + 1 =>
                            /\ Selected(e.candidates) = s.call.ids
                            /\ \A c \in s.call.ids :
                                 e.candidates[c].title = s.call.seen.candidates[c].title
    OBVIOUS
  <2>1. s.call.seen.version \in Nat /\ s.call.seen.version < d.version
    BY <1>3, StateIs, DraftFields DEF RequestOK, Working
  <2>2. CASE e = d
    BY <2>2 DEF RequestOK
  <2>3. CASE e.version = d.version + 1
    BY <1>1, <2>1, <2>3
  <2>. QED  BY <1>1, <2>2, <2>3
<1>. QED  BY <1>4, <1>5, <1>6, <1>7, <1>8, <1>9 DEF RequestOK

\* A step of one request.
LEMMA RequestStep ==
  ASSUME IInv, NEW r \in Requests, NEW s \in States, Become(r, s),
         shared' \in Draft, Moved(shared, shared'), Typed(shared', typed), typed' = typed,
         questions' \in SUBSET Questions, WordsKept', approved \subseteq approved',
         RequestOK(s, shared', approved')
  PROVE  IInv'
<1>1. /\ requests \in [Requests -> States] /\ requests' \in [Requests -> States]
      /\ requests'[r] = s /\ \A q \in Requests \ {r} : requests'[q] = requests[q]
  BY DEF IInv, Shapes, Become
<1>2. ASSUME NEW q \in Requests
      PROVE  RequestOK(requests'[q], shared', approved')
  <2>1. CASE q = r
    BY <1>1, <2>1
  <2>2. CASE q # r
    <3>1. requests[q] \in States /\ RequestOK(requests[q], shared, approved) /\ shared \in Draft
      BY <1>1 DEF IInv, Shapes
    <3>2. RequestOK(requests[q], shared', approved')
      BY <3>1, StillOK
    <3>. QED  BY <1>1, <2>2, <3>2
  <2>. QED  BY <2>1, <2>2
<1>. QED  BY <1>1, <1>2 DEF IInv, Shapes

\* A step of a request that leaves the draft and the user alone.
LEMMA QuietStep ==
  ASSUME IInv, NEW r \in Requests, NEW s \in States, Become(r, s), DraftSame, UserSame,
         RequestOK(s, shared, approved)
  PROVE  IInv'
<1>1. UNCHANGED <<shared, typed, questions, approved, ran>>
  BY DEF DraftSame, UserSame
<1>2. Moved(shared, shared') /\ shared' \in Draft /\ Typed(shared', typed) /\ WordsKept'
  BY <1>1 DEF IInv, Shapes, Moved, WordsKept
<1>3. questions' \in SUBSET Questions /\ approved \subseteq approved'
  BY <1>1 DEF IInv, Shapes
<1>. QED  BY <1>1, <1>2, <1>3, RequestStep

LEMMA Knows ==
  ASSUME IInv, NEW r \in Requests
  PROVE  /\ requests[r] \in States /\ RequestOK(requests[r], shared, approved)
         /\ shared \in Draft /\ Typed(shared, typed) /\ WordsKept
         /\ shared.candidates \in CandidateLists /\ shared.version \in Nat
BY DraftFields DEF IInv, Shapes

-----------------------------------------------------------------------------
(* The user's word.                                                        *)

LEMMA AnswerIs ==
  ASSUME IInv, NEW answer \in Answers, NEW call, answer.given, answer.state = Binding(call),
         answer.yes
  PROVE  call \in approved
<1>1. answer # NoAnswer
  BY DEF NoAnswer
<1>2. PICK q \in questions : answer = [given |-> TRUE, state |-> Binding(q.call), yes |-> q.yes]
  BY <1>1 DEF Answers
<1>3. answer.state = q.call /\ answer.yes = q.yes
  BY <1>2 DEF Binding
<1>4. q.yes \in BOOLEAN
  BY DEF IInv, Shapes, Questions
<1>5. q.yes = TRUE
  BY <1>3, <1>4
<1>. QED  BY <1>3, <1>5 DEF IInv, WordsKept, Binding

LEMMA InvokeOK ==
  ASSUME IInv, NEW r \in Requests, NEW call \in Calls, NEW answer \in Answers,
         Invoke(r, call, answer)
  PROVE  IInv'
<1>1. call \in AnyCall /\ (call.tool # CreateTool => call.seen = shared)
  BY CallsAre DEF IInv
<1>2. DraftSame /\ UNCHANGED <<approved, ran>>
  BY DEF Invoke
<1>3. ASSUME NEW pc \in {"ask", "run"}, Become(r, [pc |-> pc, call |-> call]),
             UNCHANGED questions,
             pc = "ask" => call.tool = CreateTool,
             pc = "run" /\ call.tool = CreateTool => call \in approved
      PROVE  IInv'
  <2>. DEFINE s == [pc |-> pc, call |-> call]
  <2>1. s \in States /\ s.pc = pc /\ s.call = call /\ s.pc \notin {"idle"} \cup Working
    BY <1>1, <1>3 DEF States, Working
  <2>2. Become(r, s)
    BY <1>3
  <2>. HIDE DEF s
  <2>3. call.tool # CreateTool => Reading(call.seen, shared)
    BY <1>1, DraftFields DEF Reading, IInv, Shapes
  <2>4. RequestOK(s, shared, approved)
    BY <1>3, <2>1, <2>3 DEF RequestOK, Working
  <2>. QED  BY <1>2, <1>3, <2>1, <2>2, <2>4, QuietStep DEF DraftSame, UserSame
<1>4. ASSUME UNCHANGED requests,
             questions' = questions \/ questions' = questions \cup {InputRequired(call)}
      PROVE  IInv'
  <2>1. InputRequired(call) \in Questions /\ InputRequired(call).yes # TRUE
    BY <1>1 DEF InputRequired, Questions
  <2>2. questions' \in SUBSET Questions /\ WordsKept'
    BY <1>2, <1>4, <2>1 DEF IInv, Shapes, WordsKept
  <2>. QED  BY <1>2, <1>4, <2>2 DEF IInv, Shapes, DraftSame
<1>5. CASE ~RequiresApproval(call)
  <2>1. Become(r, [pc |-> "run", call |-> call]) /\ UNCHANGED questions
    BY <1>5 DEF Invoke
  <2>. QED  BY <1>3, <1>5, <2>1 DEF RequiresApproval
<1>6. CASE RequiresApproval(call) /\ server.asks = "never"
  BY <1>4, <1>6 DEF Invoke
<1>7. CASE RequiresApproval(call) /\ server.asks = "inside"
  <2>1. Become(r, [pc |-> "ask", call |-> call]) /\ UNCHANGED questions
    BY <1>7 DEF Invoke
  <2>. QED  BY <1>3, <1>7, <2>1 DEF RequiresApproval
<1>8. CASE RequiresApproval(call) /\ server.asks \notin {"never", "inside"}
  <2>1. CASE answer.given /\ answer.state = Binding(call) /\ answer.yes
    <3>1. Become(r, [pc |-> "run", call |-> call]) /\ UNCHANGED questions
      BY <1>8, <2>1 DEF Invoke
    <3>2. call \in approved
      BY <2>1, AnswerIs
    <3>. QED  BY <1>3, <3>1, <3>2
  <2>2. CASE ~(answer.given /\ answer.state = Binding(call) /\ answer.yes)
    <3>1. UNCHANGED requests
          /\ (questions' = questions \/ questions' = questions \cup {InputRequired(call)})
      BY <1>8, <2>2 DEF Invoke
    <3>. QED  BY <1>4, <3>1
  <2>. QED  BY <2>1, <2>2
<1>. QED  BY <1>5, <1>6, <1>7, <1>8

LEMMA DecideOK ==
  ASSUME IInv, NEW q \in questions, NEW yes \in BOOLEAN, Decide(q, yes)
  PROVE  IInv'
<1>. DEFINE n == [q EXCEPT !.answered = TRUE, !.yes = yes]
<1>1. q \in Questions
  BY DEF IInv, Shapes
<1>2. n \in Questions /\ n.yes = yes /\ n.call = q.call
  BY <1>1 DEF Questions
<1>3. questions' = (questions \ {q}) \cup {n}
  BY DEF Decide
<1>. HIDE DEF n
<1>4. approved \subseteq approved' /\ (yes = TRUE => q.call \in approved')
  BY DEF Decide
<1>5. DraftSame /\ UNCHANGED <<requests, ran>>
  BY DEF Decide
<1>6. questions' \in SUBSET Questions /\ WordsKept'
  BY <1>2, <1>3, <1>4, <1>5 DEF IInv, Shapes, WordsKept
<1>7. ASSUME NEW r \in Requests
      PROVE  RequestOK(requests'[r], shared', approved')
  <2>1. requests[r] \in States /\ RequestOK(requests[r], shared, approved) /\ shared \in Draft
    BY Knows
  <2>2. Moved(shared, shared)
    BY DEF Moved
  <2>3. RequestOK(requests[r], shared, approved')
    BY <1>4, <2>1, <2>2, StillOK
  <2>. QED  BY <1>5, <2>3 DEF DraftSame
<1>. QED  BY <1>5, <1>6, <1>7 DEF IInv, Shapes, DraftSame

LEMMA ElicitedOK ==
  ASSUME IInv, NEW r \in Requests, NEW said, Elicited(r, said)
  PROVE  IInv'
<1>. DEFINE s == requests[r]
            n == [s EXCEPT !.pc = "run"]
<1>1. s \in States /\ s.pc = "ask" /\ RequestOK(s, shared, approved)
  BY Knows DEF Elicited
<1>2. DraftSame /\ UNCHANGED <<questions, ran>>
  BY DEF Elicited
<1>3. s \in [pc : {"ask", "run"}, call : AnyCall] /\ s.call.tool = CreateTool
  BY <1>1 DEF States, Idle, RequestOK
<1>4. CASE said = "yes"
  <2>1. Become(r, n) /\ approved' = approved \cup {s.call}
    BY <1>4 DEF Elicited
  <2>2. n \in States /\ n.pc = "run" /\ n.call = s.call
    BY <1>3 DEF States
  <2>. HIDE DEF n, s
  <2>3. RequestOK(n, shared', approved')
    BY <1>3, <2>1, <2>2 DEF RequestOK
  <2>4. Moved(shared, shared') /\ shared' \in Draft /\ Typed(shared', typed) /\ typed' = typed
    BY <1>2 DEF DraftSame, IInv, Shapes, Moved
  <2>5. WordsKept' /\ questions' \in SUBSET Questions /\ approved \subseteq approved'
    BY <1>2, <2>1 DEF IInv, Shapes, WordsKept
  <2>. QED  BY <2>1, <2>2, <2>3, <2>4, <2>5, RequestStep
<1>5. CASE said # "yes"
  <2>1. Become(r, Idle) /\ UNCHANGED approved
    BY <1>5 DEF Elicited, End
  <2>. QED  BY <1>2, <2>1, IdleIs, QuietStep DEF DraftSame, UserSame
<1>. QED  BY <1>4, <1>5

LEMMA RunCreateOK ==
  ASSUME IInv, NEW r \in Requests, RunCreate(r)
  PROVE  IInv'
<1>1. /\ requests[r].call \in approved /\ ran' = ran \cup {requests[r].call}
      /\ Become(r, Idle) /\ DraftSame /\ UNCHANGED <<questions, approved>>
  BY Knows DEF RunCreate, RequestOK, End
<1>2. Moved(shared, shared') /\ shared' \in Draft /\ Typed(shared', typed) /\ typed' = typed
  BY <1>1 DEF DraftSame, IInv, Shapes, Moved
<1>3. WordsKept' /\ questions' \in SUBSET Questions /\ approved \subseteq approved'
  BY <1>1 DEF IInv, Shapes, WordsKept
<1>. QED  BY <1>1, <1>2, <1>3, IdleIs, RequestStep

LEMMA CallFailsOK ==
  ASSUME IInv, NEW r \in Requests, CallFails(r)
  PROVE  IInv'
<1>1. Become(r, Idle) /\ DraftSame /\ UserSame
  BY DEF CallFails, End, DraftSame, UserSame
<1>. QED  BY <1>1, IdleIs, QuietStep

-----------------------------------------------------------------------------
(* The tools on drafts.                                                    *)

LEMMA GetOK ==
  ASSUME IInv, NEW r \in Requests, Get(r)
  PROVE  IInv'
<1>. DEFINE s == requests[r]
            n == [pc |-> s.call.tool, call |-> s.call, current |-> shared]
<1>1. /\ s \in States /\ s.pc = "run" /\ s.call.tool # CreateTool /\ RequestOK(s, shared, approved)
      /\ shared \in Draft
  BY Knows DEF Get
<1>2. s.call \in AnyCall
  BY <1>1, StateIs
<1>3. /\ s.call.tool \in {"confirm", "generate"} /\ s.call.seen \in Draft
      /\ s.call.tool = "confirm" => s.call \in Confirms
      /\ s.call.tool = "generate" => s.call \in Generates
  BY <1>1, <1>2, CallIs DEF CreateTool
<1>4. UserSame /\ UNCHANGED <<shared, typed>>
  BY DEF Get
<1>5. DraftSame
  BY <1>4 DEF UserSame, DraftSame
<1>6. CASE s.call.tool = "confirm" /\ ~(s.call.ids \subseteq DOMAIN shared.candidates)
  <2>1. Become(r, Idle)
    BY <1>6 DEF Get, End
  <2>. QED  BY <1>4, <1>5, <2>1, IdleIs, QuietStep
<1>7. CASE ~(s.call.tool = "confirm" /\ ~(s.call.ids \subseteq DOMAIN shared.candidates))
  <2>1. Become(r, n)
    BY <1>7 DEF Get
  <2>2. n \in States /\ n.pc = s.call.tool /\ n.call = s.call /\ n.current = shared
    BY <1>1, <1>3 DEF States
  <2>3. Reading(s.call.seen, shared) /\ s.call.seen.version <= shared.version
    BY <1>1 DEF RequestOK, Reading
  <2>4. Reading(shared, shared)
    BY <1>1, DraftFields DEF Reading
  <2>. HIDE DEF n, s
  <2>5. RequestOK(n, shared, approved)
    BY <1>3, <1>7, <2>2, <2>3, <2>4 DEF RequestOK
  <2>. QED  BY <1>4, <1>5, <2>1, <2>2, <2>5, QuietStep
<1>. QED  BY <1>6, <1>7

\* A draft that still has the version its caller saw is what the caller saw,
\* and what the call has read.
LEMMA Fresh ==
  ASSUME IInv, NEW r \in Requests, requests[r].pc \in {"confirm", "generate"},
         shared.version = Expected(requests[r])
  PROVE  requests[r].current = shared /\ requests[r].call.seen = shared
<1>. DEFINE s == requests[r]
<1>1. s \in States /\ RequestOK(s, shared, approved) /\ shared.version \in Nat
  BY Knows
<1>2. s.current \in Draft /\ s.call.tool # CreateTool /\ s.call \in AnyCall
  BY <1>1, StateIs DEF Working
<1>3. s.call.seen \in Draft /\ s.call.seen.version \in Nat /\ s.current.version \in Nat
  BY <1>2, CallIs, DraftFields
<1>4. /\ Reading(s.call.seen, shared) /\ Reading(s.current, shared)
      /\ s.call.seen.version <= s.current.version
  BY <1>1, <1>2 DEF RequestOK
<1>5. shared.version = s.call.seen.version
  BY DEF Expected
<1>. HIDE DEF s
<1>6. s.current.version = shared.version
  BY <1>1, <1>3, <1>4, <1>5 DEF Reading
<1>7. s.current = shared /\ s.call.seen = shared
  BY <1>4, <1>5, <1>6 DEF Reading
<1>. QED  BY <1>7 DEF s

SameTitles(list, new) ==
    DOMAIN new = DOMAIN list /\ \A c \in DOMAIN list : new[c].title = list[c].title

LEMMA StillTyped ==
  ASSUME NEW d, NEW e, NEW t, Typed(d, t), SameTitles(d.candidates, e.candidates)
  PROVE  Typed(e, t)
BY DEF Typed, SameTitles

\* A step of a tool that touches the draft, or ends without.
LEMMA ToolStep ==
  ASSUME IInv, NEW r \in Requests, NEW s \in States, Become(r, s), UserSame, UNCHANGED typed,
         \/ shared' = shared
         \/ /\ shared' \in Draft /\ shared'.version = shared.version + 1
            /\ SameTitles(shared.candidates, shared'.candidates),
         RequestOK(s, shared', approved)
  PROVE  IInv'
<1>1. Moved(shared, shared') /\ shared' \in Draft
  BY Knows DEF Moved
<1>2. Typed(shared', typed)
  <2>1. CASE shared' = shared
    BY <2>1, Knows
  <2>2. CASE SameTitles(shared.candidates, shared'.candidates)
    BY <2>2, Knows, StillTyped
  <2>. QED  BY <2>1, <2>2
<1>3. questions' \in SUBSET Questions /\ WordsKept' /\ approved' = approved
  BY DEF IInv, Shapes, WordsKept, UserSame
<1>. QED  BY <1>1, <1>2, <1>3, RequestStep

LEMMA PatchOK ==
  ASSUME IInv, NEW r \in Requests, Patch(r)
  PROVE  IInv' /\ (shared' # shared => requests'[r].pc = "patched")
<1>. DEFINE s == requests[r]
            ids == s.call.ids
            list == Reselected(s.current.candidates, ids)
            n == [s EXCEPT !.pc = "patched"]
<1>1. /\ s \in States /\ s.pc = "confirm" /\ RequestOK(s, shared, approved)
      /\ shared \in Draft /\ shared.candidates \in CandidateLists
  BY Knows DEF Patch
<1>2. UserSame /\ typed' = typed
  BY DEF Patch
<1>3. CASE shared.version # Expected(s)
  <2>1. Become(r, Idle) /\ shared' = shared
    BY <1>3 DEF Patch, End
  <2>2. RequestOK(Idle, shared', approved) /\ Idle \in States
    BY IdleIs
  <2>. QED  BY <1>2, <2>1, <2>2, ToolStep
<1>4. CASE shared.version = Expected(s)
  <2>1. s.current = shared /\ s.call.seen = shared
    BY <1>1, <1>4, Fresh
  <2>2. /\ s \in [pc : {"confirm", "patched"}, call : Confirms, current : Draft]
    BY <1>1, StateIs
  <2>3. ids \in SUBSET DOMAIN shared.candidates
    BY <1>1, <2>1 DEF RequestOK
  <2>4. /\ list \in CandidateLists /\ Selected(list) = ids
        /\ SameTitles(shared.candidates, list)
    <3>. DEFINE old == shared.candidates
    <3>1. /\ Reselected(old, ids) \in CandidateLists
          /\ DOMAIN Reselected(old, ids) = DOMAIN old
          /\ Selected(Reselected(old, ids)) = ids
          /\ \A c \in DOMAIN old : Reselected(old, ids)[c].title = old[c].title
      BY <1>1, <2>3, ReselectedIs
    <3>2. list = Reselected(old, ids)
      BY <2>1
    <3>. HIDE DEF list, old
    <3>. QED  BY <3>1, <3>2 DEF SameTitles, old
  <2>5. /\ shared' = Stored(WithCandidates(shared, list)) /\ Become(r, n)
    BY <1>4 DEF Patch
  <2>6. /\ n \in States /\ n.pc = "patched" /\ n.call = s.call
    BY <2>2 DEF States
  <2>7. s.call.tool # CreateTool
    BY <1>1, StateIs DEF Working
  <2>. HIDE DEF list, n, ids, s
  <2>8. /\ shared' \in Draft /\ shared'.candidates = list /\ shared'.version = shared.version + 1
    <3>. DEFINE d == WithCandidates(shared, list)
    <3>1. d \in Draft /\ d.candidates = list /\ d.version = shared.version
      BY <1>1, <2>4, WithCandidatesIs
    <3>2. shared' = Stored(d)
      BY <2>5
    <3>. HIDE DEF d
    <3>. QED  BY <3>1, <3>2, StoredIs
  <2>9. shared.version \in Nat
    BY Knows
  <2>10. Reading(n.call.seen, shared')
    BY <2>1, <2>6, <2>8, <2>9 DEF Reading
  <2>11. /\ n.call.seen.version < shared'.version
         /\ Selected(shared'.candidates) = n.call.ids
         /\ \A c \in n.call.ids :
              shared'.candidates[c].title = n.call.seen.candidates[c].title
    BY <2>1, <2>3, <2>4, <2>6, <2>8, <2>9 DEF SameTitles, ids
  <2>12. RequestOK(n, shared', approved)
    BY <2>6, <2>10, <2>11 DEF RequestOK
  <2>13. IInv'
    BY <1>2, <2>4, <2>5, <2>6, <2>8, <2>12, ToolStep
  <2>14. requests'[r] = n
    BY <2>5 DEF Become, IInv, Shapes
  <2>. QED  BY <2>6, <2>13, <2>14
<1>. QED  BY <1>3, <1>4

\* What a confirm makes ready is what its patch has made.
LEMMA ConfirmOK ==
  ASSUME IInv, NEW r \in Requests, NEW e \in Evidence, Confirm(r, e)
  PROVE  /\ IInv'
         /\ requests[r].pc = "patched"
         /\ shared' # shared =>
              /\ Selected(shared'.candidates) = requests[r].call.ids
              /\ \A c \in requests[r].call.ids :
                   shared'.candidates[c].title = requests[r].call.seen.candidates[c].title
<1>. DEFINE s == requests[r]
<1>1. /\ s.pc = "patched" /\ RequestOK(s, shared, approved) /\ shared \in Draft
      /\ UserSame /\ typed' = typed /\ Become(r, Idle)
  BY Knows DEF Confirm, End
<1>2. Idle \in States /\ RequestOK(Idle, shared', approved)
  BY IdleIs
<1>3. CASE shared' = shared
  BY <1>1, <1>2, <1>3, ToolStep
<1>4. CASE shared' # shared
  <2>1. shared' = Stored(ConfirmedBy(shared, e)) /\ shared.version = Expected(s) + 1
    BY <1>4 DEF Confirm
  <2>2. /\ shared' \in Draft /\ shared'.candidates = shared.candidates
        /\ shared'.version = shared.version + 1
    BY <1>1, <2>1, ConfirmedByIs, StoredIs
  <2>3. SameTitles(shared.candidates, shared'.candidates)
    BY <2>2 DEF SameTitles
  <2>4. /\ Selected(shared.candidates) = s.call.ids
        /\ \A c \in s.call.ids : shared.candidates[c].title = s.call.seen.candidates[c].title
    BY <1>1, <2>1 DEF RequestOK, Expected
  <2>. QED  BY <1>1, <1>2, <2>2, <2>3, <2>4, ToolStep
<1>. QED  BY <1>3, <1>4

\* The one type is what every selected candidate then has.
LEMMA GenerateOK ==
  ASSUME IInv, NEW r \in Requests, Generate(r)
  PROVE  /\ IInv'
         /\ requests[r].pc = "generate"
         /\ shared' # shared =>
              \A c \in Selected(shared'.candidates) :
                shared'.candidates[c].type = requests[r].call.type
<1>. DEFINE s == requests[r]
            old == shared.candidates
            list == Overridden(old, Selected(s.current.candidates), s.call.type)
            targets == Selected(old)
<1>1. /\ s \in States /\ s.pc = "generate" /\ RequestOK(s, shared, approved)
      /\ shared \in Draft /\ old \in CandidateLists
      /\ UserSame /\ typed' = typed /\ Become(r, Idle)
  BY Knows DEF Generate, End
<1>2. Idle \in States /\ RequestOK(Idle, shared', approved)
  BY IdleIs
<1>3. CASE shared' = shared
  BY <1>1, <1>2, <1>3, ToolStep
<1>4. CASE shared' # shared
  <2>1. /\ shared' = Stored(Generated(shared, list, targets, FALSE, shared.fingerprint))
        /\ shared.version = Expected(s)
    BY <1>4 DEF Generate
  <2>2. s.current = shared
    BY <1>1, <2>1, Fresh
  <2>3. s.call.type \in Types
    BY <1>1, StateIs DEF Generates
  <2>4. /\ list \in CandidateLists /\ SameTitles(old, list) /\ Selected(list) = Selected(old)
        /\ \A c \in Selected(list) : list[c].type = s.call.type
    <3>. DEFINE ids == Selected(old)
                new == Overridden(old, ids, s.call.type)
    <3>1. /\ new \in CandidateLists /\ DOMAIN new = DOMAIN old
          /\ Selected(new) = Selected(old)
          /\ \A c \in DOMAIN old : new[c].title = old[c].title
          /\ \A c \in DOMAIN old : c \in ids => new[c].type = s.call.type
      BY <1>1, <2>3, OverriddenIs
    <3>2. list = new
      BY <2>2
    <3>3. ids \subseteq DOMAIN old
      BY DEF Selected
    <3>. HIDE DEF list, new, old
    <3>. QED  BY <3>1, <3>2, <3>3 DEF SameTitles
  <2>5. targets \in SUBSET CandidateIds /\ shared.fingerprint \in Evidence \cup {"none"}
    BY <1>1, ListFields, DraftFields DEF Selected
  <2>. HIDE DEF list, targets
  <2>6. /\ shared' \in Draft /\ shared'.candidates = list /\ shared'.version = shared.version + 1
    <3>. DEFINE g == Generated(shared, list, targets, FALSE, shared.fingerprint)
    <3>1. g \in Draft /\ g.candidates = list /\ g.version = shared.version
      BY <1>1, <2>4, <2>5, GeneratedIs
    <3>. HIDE DEF g
    <3>2. shared' = Stored(g)
      BY <2>1 DEF g
    <3>. QED  BY <3>1, <3>2, StoredIs
  <2>. QED  BY <1>1, <1>2, <2>4, <2>6, ToolStep
<1>. QED  BY <1>3, <1>4

LEMMA TypeTitleOK ==
  ASSUME IInv, NEW b \in CandidateIds, NEW title \in Texts, TypeTitle(b, title)
  PROVE  IInv' /\ requests' = requests
<1>. DEFINE old == shared.candidates
            list == [old EXCEPT ![b].title = title]
<1>1. /\ shared \in Draft /\ old \in CandidateLists /\ Typed(shared, typed)
      /\ b \in DOMAIN old /\ DOMAIN old \subseteq CandidateIds
      /\ typed \in [CandidateIds -> Texts]
      /\ typed' = [typed EXCEPT ![b] = title]
      /\ shared' = Stored(WithCandidates(shared, list))
      /\ UNCHANGED <<server, requests, questions, approved, ran>>
  BY DraftFields, ListFields DEF IInv, Shapes, TypeTitle
<1>2. /\ list \in CandidateLists /\ DOMAIN list = DOMAIN old
      /\ list[b].title = title
      /\ \A c \in DOMAIN old \ {b} : list[c].title = old[c].title
  BY <1>1, RetitledIs
<1>. HIDE DEF list
<1>3. /\ shared' \in Draft /\ shared'.candidates = list /\ shared'.version = shared.version + 1
  BY <1>1, <1>2, WithCandidatesIs, StoredIs
<1>4. typed' \in [CandidateIds -> Texts] /\ Typed(shared', typed')
  BY <1>1, <1>2, <1>3 DEF Typed
<1>5. ASSUME NEW r \in Requests
      PROVE  RequestOK(requests'[r], shared', approved')
  <2>1. requests[r] \in States /\ RequestOK(requests[r], shared, approved)
    BY Knows
  <2>2. Moved(shared, shared')
    BY <1>3 DEF Moved
  <2>3. RequestOK(requests[r], shared', approved)
    BY <1>1, <1>3, <2>1, <2>2, StillOK
  <2>. QED  BY <1>1, <2>3
<1>. QED  BY <1>1, <1>3, <1>4, <1>5 DEF IInv, Shapes, WordsKept

-----------------------------------------------------------------------------

LEMMA InitOK ==
  ASSUME Texts # {}, Types # {}, McpInit
  PROVE  IInv
<1>1. Suggested \in Candidate
  BY DEF Suggested, Candidate
<1>2. /\ Start \in Draft
      /\ Start.candidates = [c \in CandidateIds |-> Suggested]
  <2>1. [c \in CandidateIds |-> Suggested] \in CandidateLists
    <3>1. [c \in CandidateIds |-> Suggested] \in [CandidateIds -> Candidate]
      BY <1>1
    <3>. QED  BY <3>1 DEF CandidateLists
  <2>. QED  BY <2>1 DEF Start, Draft, Statuses
<1>3. Suggested.title \in Texts
  BY <1>1 DEF Candidate
<1>4. /\ shared \in Draft /\ Typed(shared, typed) /\ typed \in [CandidateIds -> Texts]
  BY <1>2, <1>3 DEF McpInit, Typed
<1>5. /\ requests \in [Requests -> States]
      /\ \A r \in Requests : RequestOK(requests[r], shared, approved)
  BY IdleIs DEF McpInit
<1>6. WordsKept /\ questions \in SUBSET Questions
  BY DEF McpInit, WordsKept
<1>. QED  BY <1>4, <1>5, <1>6 DEF IInv, Shapes

LEMMA StepOK == IInv /\ [McpNext]_mcpVars => IInv'
<1>. SUFFICES ASSUME IInv, [McpNext]_mcpVars PROVE IInv'
  OBVIOUS
<1>1. CASE UNCHANGED mcpVars
  BY <1>1 DEF mcpVars, IInv, Shapes, WordsKept
<1>2. CASE McpNext
  BY <1>2, InvokeOK, ElicitedOK, RunCreateOK, GetOK, PatchOK, GenerateOK, CallFailsOK,
     ConfirmOK, DecideOK, TypeTitleOK DEF McpNext
<1>. QED  BY <1>1, <1>2

\* Whose step it is that makes a request idle and the draft another one.
LEMMA EndsWith ==
  ASSUME IInv, McpNext, shared' # shared, NEW r \in Requests, requests[r].pc \in Working,
         requests'[r] = Idle
  PROVE  Generate(r) \/ \E e \in Evidence : Confirm(r, e)
<1>1. requests \in [Requests -> States] /\ requests'[r] # requests[r]
  BY DEF IInv, Shapes, Working, Idle
<1>2. ASSUME NEW q \in Requests, NEW s, Become(q, s)
      PROVE  q = r
  BY <1>1, <1>2 DEF Become
<1>3. CASE \E q \in Requests : Generate(q)
  <2>1. PICK q \in Requests : Generate(q)
    BY <1>3
  <2>2. Become(q, Idle)
    BY <2>1 DEF Generate, End
  <2>. QED  BY <1>2, <2>1, <2>2
<1>4. CASE \E q \in Requests, e \in Evidence : Confirm(q, e)
  <2>1. PICK q \in Requests, e \in Evidence : Confirm(q, e)
    BY <1>4
  <2>2. Become(q, Idle)
    BY <2>1 DEF Confirm, End
  <2>. QED  BY <1>2, <2>1, <2>2
<1>5. CASE \E q \in Requests : Patch(q)
  <2>1. PICK q \in Requests : Patch(q)
    BY <1>5
  <2>2. \E s : Become(q, s)
    BY <2>1 DEF Patch, End
  <2>3. q = r
    BY <1>2, <2>2
  <2>4. requests'[r].pc = "patched"
    BY <2>1, <2>3, PatchOK
  <2>. QED  BY <2>4, IdleIs
<1>6. CASE \E c \in CandidateIds, title \in Texts : TypeTitle(c, title)
  BY <1>1, <1>6, TypeTitleOK
<1>7. \/ \E q \in Requests : Generate(q) \/ Patch(q) \/ \E e \in Evidence : Confirm(q, e)
      \/ \E c \in CandidateIds, title \in Texts : TypeTitle(c, title)
  BY DEF McpNext, Invoke, Elicited, RunCreate, Get, CallFails, Decide, DraftSame
<1>. QED  BY <1>3, <1>4, <1>5, <1>6, <1>7

\* A tool that needs the user's word runs with arguments the user said yes to;
\* no title anyone typed is undone; a draft that a confirm made ready has the
\* candidates its caller named with the titles its caller saw; a generate for
\* one type leaves no selected candidate of another (app.py invoke_authorized;
\* test_design.py confirm_selection and generate).
THEOREM DoesAsAgreed ==
  ASSUME Texts # {}, Types # {}
  PROVE  McpSpec => DoneAsAgreed
<1>1. McpInit => IInv
  BY InitOK
<1>2. IInv => ran \subseteq approved
  BY DEF IInv, WordsKept
<1>3. IInv => \A c \in DOMAIN shared.candidates : shared.candidates[c].title = typed[c]
  BY DEF IInv, Typed
<1>4. ASSUME IInv, McpNext, NEW r \in Requests, shared' # shared, requests'[r] = Idle
      PROVE  LET s == requests[r]  chosen == Selected(shared'.candidates) IN
             /\ s.pc = "patched" =>
                  /\ chosen = s.call.ids
                  /\ \A c \in chosen :
                       shared'.candidates[c].title = s.call.seen.candidates[c].title
             /\ s.pc = "generate" =>
                  \A c \in chosen : shared'.candidates[c].type = s.call.type
  <2>1. CASE requests[r].pc \in Working
    <3>1. Generate(r) \/ \E e \in Evidence : Confirm(r, e)
      BY <1>4, <2>1, EndsWith
    <3>2. CASE Generate(r)
      BY <1>4, <3>2, GenerateOK
    <3>3. CASE \E e \in Evidence : Confirm(r, e)
      BY <1>4, <3>3, ConfirmOK
    <3>. QED  BY <3>1, <3>2, <3>3
  <2>2. CASE requests[r].pc \notin Working
    BY <2>2 DEF Working
  <2>. QED  BY <2>1, <2>2
<1>5. IInv /\ [McpNext]_mcpVars =>
        [\A r \in Requests : shared' # shared /\ requests'[r] = Idle =>
          LET s == requests[r]  chosen == Selected(shared'.candidates) IN
          /\ s.pc = "patched" =>
               /\ chosen = s.call.ids
               /\ \A c \in chosen :
                    shared'.candidates[c].title = s.call.seen.candidates[c].title
          /\ s.pc = "generate" =>
               \A c \in chosen : shared'.candidates[c].type = s.call.type]_mcpVars
  BY <1>4
<1>. QED  BY <1>1, <1>2, <1>3, <1>5, StepOK, PTL DEF McpSpec, DoneAsAgreed

-----------------------------------------------------------------------------
(* Turns of the chat.  Who waits for an answer waits for one that is worked*)
(* out after the context was set or dropped, so what it confirms when it   *)
(* arrives is its own question, or one that is still on its way; what an   *)
(* export turn was routed by is a wish or a yes.                           *)

Exports == {"drive_export", "xray_export"}
Kinds == Exports \cup {"test_design", "general_answer", "grounded_answer", "agent"}
Answerings == Kinds \cup {"clarification"}
Contexts == {Nothing, NoLocator, Unconfirmed, NoTitles, NoCases,
             Off("drive_export"), Off("xray_export")}
Decisions == [kind : Answerings \cup {"error"}, context : Contexts]

Probing == [pc : {"probing"}, waited : BOOLEAN, finds : [Drafts -> Decisions],
            wants : SUBSET Exports]
Routings == [pc : {"routed"}, waited : BOOLEAN, kind : Answerings, put : Contexts,
             asked : BOOLEAN]
Giving == [pc : Answerings, waited : BOOLEAN, put : Contexts, asked : BOOLEAN]
Turn == {[pc |-> "idle"]} \cup Probing \cup Routings \cup Giving

\* What a turn may do it was asked for.
Sound(s) ==
    /\ s.pc = "probing" => \A d \in Drafts :
                             s.finds[d].kind \in Exports => s.finds[d].kind \in s.wants
    /\ s.pc = "routed" /\ s.kind \in Exports => s.asked = TRUE
    /\ s.pc \in Exports => s.asked = TRUE

Waits(s) == s.pc # "idle" /\ s.waited = TRUE

(* Only one turn is waited for; while it works its answer out, a question  *)
(* that is remembered has not reached the user.                            *)
ChatInv ==
    /\ turns \in [Turns -> Turn] /\ drafted \in Drafts
    /\ wanted = TRUE
    /\ context = Nothing \/ unheard = TRUE \/ context = question
    /\ \A t \in Turns : Sound(turns[t])
    /\ \A t \in Turns :
         Waits(turns[t]) /\ turns[t].pc \in Answerings =>
           context = Nothing \/ unheard = TRUE
    /\ \A t, u \in Turns : Waits(turns[t]) /\ Waits(turns[u]) => t = u

LEMMA TurnIs ==
  ASSUME NEW s \in Turn
  PROVE  /\ s.pc \in {"idle", "probing", "routed"} \cup Answerings
         /\ s.pc = "idle" => s = [pc |-> "idle"]
         /\ s.pc = "probing" => s \in Probing
         /\ s.pc = "routed" => s \in Routings
         /\ s.pc \in Answerings => s \in Giving
<1>1. {"idle", "probing", "routed"} \cap Answerings = {}
  BY DEF Answerings, Kinds, Exports
<1>2. CASE s \in Probing
  BY <1>1, <1>2 DEF Probing
<1>3. CASE s \in Routings
  BY <1>1, <1>3 DEF Routings
<1>4. CASE s \in Giving
  BY <1>1, <1>4 DEF Giving
<1>. QED  BY <1>1, <1>2, <1>3, <1>4 DEF Turn

LEMMA QueryIs ==
  ASSUME NEW q \in Queries
  PROVE  /\ q.td \in {"no", "leading", "inside"} /\ q.issues \in 0..2
         /\ q.drive \in {"no", "topic", "partial", "clear"}
<1>. DEFINE
       Wish == [td : {"no", "leading", "inside"}, issues : 0..2,
                drive : {"no", "topic", "partial", "clear"},
                xray : {"no", "topic", "clear"}, says : {"more"}, cues : {{}}]
       Cued == [td : {"no"}, issues : 0..1, drive : {"no"}, xray : {"no"},
                says : {"more"}, cues : SUBSET {"project", "general"}]
       Short == [td : {"no"}, issues : {0}, drive : {"no"}, xray : {"no"},
                 says : {"yes", "go ahead", "thanks", "owner/repo"}, cues : {{}}]
<1>1. q \in Wish \/ q \in Cued \/ q \in Short
  BY Zenon DEF Queries
<1>2. CASE q \in Wish
  BY <1>2
<1>3. CASE q \in Cued
  BY <1>3
<1>4. CASE q \in Short
  <2>1. q.td \in {"no"} /\ q.issues \in {0} /\ q.drive \in {"no"}
    BY <1>4, Zenon
  <2>. QED  BY <2>1
<1>. HIDE DEF Wish, Cued, Short
<1>. QED  BY <1>1, <1>2, <1>3, <1>4

\* Each probe signals for its own workflow, and at most one thing.
LEMMA SignalsAre ==
  ASSUME NEW q, NEW prior, NEW d
  PROVE  /\ TestDesignSignal(q, prior) \in
              {{}, {Ready("test_design")}, {NoLocator}}
         /\ DriveSignal(q, prior, d) \in
              {{}, {Off("drive_export")}, {Unconfirmed}, {NoTitles},
               {Ready("drive_export")}}
         /\ XraySignal(q, d) \in
              {{}, {Off("xray_export")}, {NoCases}, {Ready("xray_export")}}
BY Zenon DEF TestDesignSignal, DriveSignal, XraySignal

LEMMA HintsAre ==
  ASSUME NEW q, NEW prior, NEW d
  PROVE  /\ \A s \in TestDesignSignal(q, prior) : s.hint = "test_design"
         /\ \A s \in DriveSignal(q, prior, d) : s.hint = "drive_export"
         /\ \A s \in XraySignal(q, d) : s.hint = "xray_export"
<1>1. /\ \A s \in {Ready("test_design"), NoLocator} : s.hint = "test_design"
      /\ \A s \in {Off("drive_export"), Unconfirmed, NoTitles,
                   Ready("drive_export")} : s.hint = "drive_export"
      /\ \A s \in {Off("xray_export"), NoCases, Ready("xray_export")} :
           s.hint = "xray_export"
  BY DEF Ready, NoLocator, Off, Unconfirmed, NoTitles,
         NoCases, Missing
<1>. QED  BY <1>1, SignalsAre

LEMMA OneSignal ==
  ASSUME NEW q, NEW prior, NEW d, Signals(q, prior, d) # {},
         ~(Cardinality(Signals(q, prior, d)) > 1)
  PROVE  \E s : Signals(q, prior, d) = {s}
<1>. DEFINE found == Signals(q, prior, d)
<1>1. /\ IsFiniteSet(TestDesignSignal(q, prior)) /\ IsFiniteSet(DriveSignal(q, prior, d))
      /\ IsFiniteSet(XraySignal(q, d))
  <2>1. IsFiniteSet({}) /\ \A x : IsFiniteSet({x})
    BY FS_Singleton, FS_EmptySet
  <2>2. /\ TestDesignSignal(q, prior) \in {{}, {Ready("test_design")}, {NoLocator}}
        /\ DriveSignal(q, prior, d) \in
             {{}, {Off("drive_export")}, {Unconfirmed}, {NoTitles}, {Ready("drive_export")}}
        /\ XraySignal(q, d) \in
             {{}, {Off("xray_export")}, {NoCases}, {Ready("xray_export")}}
    BY SignalsAre
  <2>. QED  BY <2>1, <2>2, Zenon
<1>2. IsFiniteSet(TestDesignSignal(q, prior) \cup DriveSignal(q, prior, d))
  BY <1>1, FS_Union
<1>3. IsFiniteSet(TestDesignSignal(q, prior) \cup DriveSignal(q, prior, d)
                    \cup XraySignal(q, d))
  BY <1>1, <1>2, FS_Union
<1>4. IsFiniteSet(found)
  BY <1>1, <1>3 DEF Signals
<1>. HIDE DEF found
<1>5. Cardinality(found) \in Nat /\ Cardinality(found) # 0
  BY <1>4, FS_CardinalityType, FS_EmptySet DEF found
<1>6. Cardinality(found) = 1
  BY <1>5 DEF found
<1>. QED  BY <1>4, <1>6, FS_Singleton DEF found

\* A turn that is routed to an export has its signal and no other.
LEMMA ExportSignal ==
  ASSUME NEW q, NEW prior, NEW d, NEW hint \in Exports,
         Classify(q, prior, d).kind = hint
  PROVE  settings.pack /\ Signals(q, prior, d) = {Ready(hint)}
<1>. DEFINE found == Signals(q, prior, d)
            signal == CHOOSE s \in found : TRUE
<1>1. \A c : Clarify(c).kind = "clarification" /\ \A k : Answer(k).kind = k
  BY DEF Clarify, Answer
<1>2. "clarification" \notin Exports /\ "general_answer" \notin Exports
      /\ "grounded_answer" \notin Exports
  BY DEF Exports
<1>3. ByCues(q).kind \notin Exports
  BY <1>1, <1>2 DEF ByCues
<1>4. /\ found # {} /\ ~(Cardinality(found) > 1) /\ signal = Ready(signal.hint)
      /\ Classify(q, prior, d) = Answer(signal.hint)
  <2>1. Classify(q, prior, d) =
          IF found = {} THEN ByCues(q)
          ELSE IF Cardinality(found) > 1 THEN Clarify(Nothing)
          ELSE IF signal = Ready(signal.hint) THEN Answer(signal.hint)
          ELSE Clarify(signal)
    BY Zenon DEF Classify
  <2>. HIDE DEF found, signal
  <2>2. CASE found = {}
    BY <1>3, <2>1, <2>2
  <2>3. CASE found # {} /\ Cardinality(found) > 1
    BY <1>1, <1>2, <2>1, <2>3
  <2>4. CASE found # {} /\ ~(Cardinality(found) > 1) /\ signal # Ready(signal.hint)
    BY <1>1, <1>2, <2>1, <2>4
  <2>5. CASE found # {} /\ ~(Cardinality(found) > 1) /\ signal = Ready(signal.hint)
    BY <2>1, <2>5
  <2>. QED  BY <2>2, <2>3, <2>4, <2>5
<1>5. signal.hint = hint
  BY <1>1, <1>4
<1>6. PICK s : found = {s}
  BY <1>4, OneSignal
<1>7. signal = s
  BY <1>6
<1>8. found = {Ready(hint)}
  BY <1>4, <1>5, <1>6, <1>7
<1>9. settings.pack
  BY <1>4 DEF Signals
<1>. QED  BY <1>8, <1>9

\* It was asked for, in so many words and alone, or with a yes.
LEMMA WasAsked ==
  ASSUME ChatInv, NEW q \in Queries, ~Raises(q), NEW d,
         NEW hint \in Exports, Classify(q, context, d).kind = hint
  PROVE  AskedFor(hint, q)
<1>. DEFINE td == TestDesignSignal(q, context)
            drive == DriveSignal(q, context, d)
            xray == XraySignal(q, d)
<1>1. settings.pack /\ td \cup drive \cup xray = {Ready(hint)}
  BY ExportSignal DEF Signals
<1>2. Ready(hint).hint = hint /\ \A s : s # {} => \E x \in s : TRUE
  BY DEF Ready, Missing
<1>3. td = {}
  <2>1. \A s \in td : s = Ready(hint) /\ s.hint = "test_design"
    BY <1>1, HintsAre
  <2>. QED  BY <1>2, <2>1 DEF Exports
<1>4. q.td # "leading"
  <2>. SUFFICES ASSUME q.td = "leading" PROVE FALSE
    OBVIOUS
  <2>1. q.issues \in {0, 1}
    BY <1>1, QueryIs DEF Raises
  <2>. QED  BY <1>3, <2>1 DEF TestDesignSignal
<1>5. CASE hint = "drive_export"
  <2>1. xray = {}
    <3>1. \A s \in xray : s = Ready(hint) /\ s.hint = "xray_export"
      BY <1>1, HintsAre
    <3>. QED  BY <1>2, <1>5, <3>1
  <2>2. q.xray # "clear"
    BY <2>1 DEF XraySignal
  <2>3. drive = {Ready("drive_export")}
    BY <1>1, <1>3, <1>5, <2>1
  <2>4. Ready("drive_export") \notin
          {Off("drive_export"), Unconfirmed, NoTitles}
    BY DEF Ready, Off, Unconfirmed, NoTitles, Missing
  <2>5. /\ q.drive # "partial"
        /\ ~(q.drive = "no" /\ Awaits(context, NoTitles) /\ Affirmed(q))
        /\ \/ Awaits(context, Unconfirmed) /\ Affirmed(q)
           \/ q.drive \in {"partial", "clear"}
    BY <2>3, <2>4 DEF DriveSignal
  <2>6. CASE q.drive = "clear"
    <3>1. Wishes(q) = {"drive_export"}
      BY <1>4, <2>2, <2>6 DEF Wishes
    <3>. QED  BY <1>5, <3>1 DEF AskedFor
  <2>7. CASE q.drive # "clear"
    <3>1. Wishes(q) = {}
      BY <1>4, <2>2, <2>7 DEF Wishes
    <3>2. context = Unconfirmed /\ q.says \in {"yes", "go ahead"}
      BY <2>5, <2>7, Zenon DEF Awaits, Affirmed
    <3>3. Unconfirmed # Nothing
      BY DEF Unconfirmed, Nothing, Missing
    <3>4. question = Unconfirmed \/ unheard = TRUE
      BY <3>2, <3>3, Zenon DEF ChatInv
    <3>. QED  BY <1>5, <3>1, <3>2, <3>4, Zenon DEF AskedFor
  <2>. QED  BY <2>6, <2>7
<1>6. CASE hint = "xray_export"
  <2>1. drive = {}
    <3>1. \A s \in drive : s = Ready(hint) /\ s.hint = "drive_export"
      BY <1>1, HintsAre
    <3>. QED  BY <1>2, <1>6, <3>1
  <2>2. q.drive # "clear"
    BY <2>1 DEF DriveSignal
  <2>3. xray # {}
    BY <1>1, <1>3, <2>1
  <2>4. q.xray = "clear"
    BY <2>3 DEF XraySignal
  <2>5. Wishes(q) = {"xray_export"}
    BY <1>4, <2>2, <2>4 DEF Wishes
  <2>. QED  BY <1>6, <2>5 DEF AskedFor
<1>. QED  BY <1>5, <1>6 DEF Exports

\* What the router decides: a clarification, or one of the kinds of turn.
LEMMA DecisionIs ==
  ASSUME NEW q \in Queries, NEW prior, NEW d
  PROVE  Classify(q, prior, d) \in Decisions
<1>. DEFINE found == Signals(q, prior, d)
            signal == CHOOSE s \in found : TRUE
<1>1. /\ \A c \in Contexts : Clarify(c) \in Decisions
      /\ \A k \in Kinds : Answer(k) \in Decisions
  BY DEF Clarify, Answer, Decisions, Answerings, Contexts
<1>2. ByCues(q) \in Decisions
  BY <1>1 DEF ByCues, Kinds, Contexts
<1>3. \A s \in found : (s = Ready(s.hint) /\ s.hint \in Kinds) \/ s \in Contexts
  <2>1. \A h : Ready(h).hint = h
    BY DEF Ready, Missing
  <2>2. /\ TestDesignSignal(q, prior) \in {{}, {Ready("test_design")}, {NoLocator}}
        /\ DriveSignal(q, prior, d) \in
             {{}, {Off("drive_export")}, {Unconfirmed}, {NoTitles}, {Ready("drive_export")}}
        /\ XraySignal(q, d) \in
             {{}, {Off("xray_export")}, {NoCases}, {Ready("xray_export")}}
    BY SignalsAre
  <2>3. /\ \A s \in TestDesignSignal(q, prior) : s \in {Ready("test_design"), NoLocator}
        /\ \A s \in DriveSignal(q, prior, d) :
             s \in {Off("drive_export"), Unconfirmed, NoTitles, Ready("drive_export")}
        /\ \A s \in XraySignal(q, d) :
             s \in {Off("xray_export"), NoCases, Ready("xray_export")}
    BY <2>2, Zenon
  <2>. QED  BY <2>1, <2>3 DEF Signals, Contexts, Kinds, Exports
<1>4. found # {} => \/ signal = Ready(signal.hint) /\ signal.hint \in Kinds
                    \/ signal \in Contexts
  BY <1>3
<1>5. \A h : Ready(h) \notin Contexts \ {Nothing}
  BY DEF Ready, Contexts, Nothing, NoLocator, Unconfirmed, NoTitles, NoCases, Off, Missing
<1>6. found # {} => (signal = Ready(signal.hint) => signal.hint \in Kinds)
                    /\ (signal # Ready(signal.hint) => signal \in Contexts)
  <2>1. Nothing \notin found
    <3>1. Nothing.hint = "none"
      BY DEF Nothing, Missing
    <3>. QED  BY <3>1, HintsAre DEF Signals
  <2>2. found # {} => signal \in found
    OBVIOUS
  <2>. QED  BY <1>4, <1>5, <2>1, <2>2
<1>7. Classify(q, prior, d) =
        IF found = {} THEN ByCues(q)
        ELSE IF Cardinality(found) > 1 THEN Clarify(Nothing)
        ELSE IF signal = Ready(signal.hint) THEN Answer(signal.hint)
        ELSE Clarify(signal)
  BY Zenon DEF Classify
<1>. HIDE DEF found, signal
<1>. QED  BY <1>1, <1>2, <1>6, <1>7 DEF Contexts

LEMMA ChatInitOK == ChatInit => ChatInv
<1>. SUFFICES ASSUME ChatInit PROVE ChatInv
  OBVIOUS
<1>1. /\ turns \in [Turns -> Turn] /\ \A t \in Turns : turns[t].pc = "idle"
      /\ "idle" \notin Exports
  BY DEF ChatInit, Turn, Exports
<1>. QED  BY <1>1 DEF ChatInit, ChatInv, Sound, Waits, Drafts

\* One turn becomes another, whatever else becomes of the conversation.
LEMMA TurnStep ==
  ASSUME ChatInv, NEW t \in Turns, NEW s \in Turn, TurnTo(t, s), Sound(s),
         drafted' \in Drafts, wanted' = TRUE,
         context' = Nothing \/ unheard' = TRUE \/ context' = question',
         Waits(s) => \A u \in Turns \ {t} : ~Waits(turns[u]),
         Waits(s) /\ s.pc \in Answerings => context' = Nothing \/ unheard' = TRUE,
         \A u \in Turns \ {t} : Waits(turns[u]) /\ turns[u].pc \in Answerings =>
           context' = Nothing \/ unheard' = TRUE
  PROVE  ChatInv'
<1>1. /\ turns' \in [Turns -> Turn] /\ turns'[t] = s
      /\ \A u \in Turns \ {t} : turns'[u] = turns[u]
  BY DEF ChatInv, TurnTo
<1>2. \A u \in Turns : Sound(turns'[u])
  BY <1>1 DEF ChatInv
<1>3. \A u \in Turns : Waits(turns'[u]) /\ turns'[u].pc \in Answerings =>
        context' = Nothing \/ unheard' = TRUE
  BY <1>1
<1>4. \A u, w \in Turns : Waits(turns'[u]) /\ Waits(turns'[w]) => u = w
  BY <1>1 DEF ChatInv
<1>. QED  BY <1>1, <1>2, <1>3, <1>4 DEF ChatInv, Sound, Waits

LEMMA AskOK ==
  ASSUME ChatInv, NEW t \in Turns, Ask(t)
  PROVE  ChatInv'
<1>0. PICK q \in Queries : TurnTo(t, Heard(q))
  BY DEF Ask
<1>. DEFINE wants == {hint \in {"drive_export", "xray_export"} : AskedFor(hint, q)}
            finds == Finds(q)
            s == [pc |-> "probing", waited |-> TRUE, finds |-> finds, wants |-> wants]
<1>1. \A d \in Drafts : /\ finds[d] \in Decisions
                        /\ finds[d].kind \in Exports => finds[d].kind \in wants
  <2>1. SUFFICES ASSUME NEW d \in Drafts
                 PROVE  /\ finds[d] \in Decisions
                        /\ finds[d].kind \in Exports => finds[d].kind \in wants
    OBVIOUS
  <2>2. finds[d] = IF Raises(q) THEN Answer("error") ELSE Classify(q, context, d)
    BY <2>1 DEF Finds
  <2>3. Answer("error") \in Decisions /\ Answer("error").kind \notin Exports
    BY DEF Answer, Decisions, Exports, Contexts
  <2>4. CASE Raises(q)
    BY <2>2, <2>3, <2>4
  <2>5. CASE ~Raises(q)
    <3>1. finds[d] = Classify(q, context, d)
      BY <2>2, <2>5
    <3>. HIDE DEF finds
    <3>2. Classify(q, context, d).kind \in Exports
            => AskedFor(Classify(q, context, d).kind, q)
      BY <2>5, WasAsked
    <3>. QED  BY <3>1, <3>2, DecisionIs DEF Exports
  <2>. QED  BY <2>4, <2>5
<1>2. finds \in [Drafts -> Decisions]
  <2>1. \A d \in Drafts : finds[d] \in Decisions
    BY <1>1
  <2>. QED  BY <2>1 DEF Finds
<1>3. TurnTo(t, s) /\ \A u \in Turns : ~Waits(turns[u])
  BY <1>0 DEF Ask, Waiting, Waits, Heard
<1>4. UNCHANGED <<drafted, context, question, unheard, wanted>>
  BY DEF Ask
<1>5. wants \in SUBSET Exports
  BY DEF Exports
<1>. HIDE DEF wants, finds
<1>6. s \in Turn /\ Sound(s)
  BY <1>1, <1>2, <1>5 DEF Turn, Probing, Sound, Exports
<1>7. s.pc = "probing" /\ "probing" \notin Answerings
  BY DEF Answerings, Kinds, Exports
<1>. HIDE DEF s
<1>. QED  BY <1>3, <1>4, <1>6, <1>7, TurnStep DEF ChatInv

LEMMA IdleTurn == /\ [pc |-> "idle"] \in Turn /\ ~Waits([pc |-> "idle"])
                  /\ Sound([pc |-> "idle"])
BY DEF Turn, Exports, Waits, Sound

LEMMA ProbeOK ==
  ASSUME ChatInv, NEW t \in Turns, Probe(t)
  PROVE  ChatInv'
<1>. DEFINE s == turns[t]
            decision == s.finds[drafted]
            r == Routed(s, decision)
<1>1. s \in Probing /\ Sound(s) /\ s.pc = "probing" /\ drafted \in Drafts
  BY TurnIs DEF Probe, ChatInv
<1>2. UNCHANGED <<drafted, context, question, unheard, wanted>>
  BY DEF Probe
<1>3. CASE decision.kind = "error"
  <2>1. TurnTo(t, [pc |-> "idle"])
    BY <1>3 DEF Probe
  <2>. QED  BY <1>1, <1>2, <2>1, IdleTurn, TurnStep DEF ChatInv
<1>4. CASE decision.kind # "error"
  <2>1. TurnTo(t, r)
    BY <1>4 DEF Probe
  <2>2. decision \in Decisions /\ s.waited \in BOOLEAN
    BY <1>1 DEF Probing
  <2>3. decision.kind \in Exports => decision.kind \in s.wants
    BY <1>1 DEF Sound
  <2>4. decision.kind \in Answerings /\ decision.context \in Contexts
    BY <1>4, <2>2 DEF Decisions
  <2>. DEFINE wished == decision.kind \in s.wants
  <2>5. wished \in BOOLEAN /\ (decision.kind \in Exports => wished = TRUE)
    BY <2>3
  <2>6. r = [pc |-> "routed", waited |-> s.waited, kind |-> decision.kind,
             put |-> decision.context, asked |-> wished]
    BY Zenon DEF Routed
  <2>. HIDE DEF wished, decision
  <2>7. "routed" \notin Answerings /\ "routed" \notin Exports
    BY DEF Answerings, Kinds, Exports
  <2>8. r \in Routings /\ r.pc = "routed" /\ r.waited = s.waited
        /\ r.kind = decision.kind /\ r.asked = wished
    BY <2>2, <2>4, <2>5, <2>6 DEF Routings
  <2>. HIDE DEF r
  <2>9. r \in Turn /\ Sound(r) /\ (Waits(r) => Waits(s)) /\ r.pc \notin Answerings
    BY <1>1, <2>5, <2>7, <2>8 DEF Turn, Sound, Waits
  <2>. QED  BY <1>1, <1>2, <2>1, <2>9, TurnStep DEF ChatInv
<1>. QED  BY <1>3, <1>4

LEMMA RememberOK ==
  ASSUME ChatInv, NEW t \in Turns, Remember(t)
  PROVE  ChatInv'
<1>. DEFINE s == turns[t]
            r == Answering(s)
<1>1. s \in Routings /\ Sound(s) /\ s.pc = "routed"
  BY TurnIs DEF Remember, ChatInv
<1>2. /\ UNCHANGED <<drafted, question, wanted>> /\ TurnTo(t, r)
      /\ context' = s.put /\ unheard' = (s.put # Nothing)
  BY DEF Remember, ContextAfter
<1>3. context' = Nothing \/ unheard' = TRUE
  BY <1>2
<1>4. r \in Giving /\ r.pc = s.kind /\ r.waited = s.waited /\ r.asked = s.asked
  BY <1>1 DEF Answering, Routings, Giving
<1>5. "probing" \notin Answerings /\ "routed" \notin Answerings /\ s.kind \in Answerings
  BY <1>1 DEF Answerings, Kinds, Exports, Routings
<1>. HIDE DEF r
<1>6. r \in Turn /\ Sound(r) /\ (Waits(r) => Waits(s))
  BY <1>1, <1>4, <1>5 DEF Turn, Sound, Waits
<1>. QED  BY <1>2, <1>3, <1>6, TurnStep DEF ChatInv

LEMMA StartExportOK ==
  ASSUME ChatInv, NEW t \in Turns, StartExport(t)
  PROVE  ChatInv'
<1>. DEFINE s == [turns[t] EXCEPT !.pc = "agent"]
<1>1. turns[t] \in Turn /\ turns[t].pc \in Exports /\ Sound(turns[t])
  BY DEF StartExport, ChatInv, Exports
<1>2. turns[t] \in Giving /\ turns[t].pc \in Answerings /\ turns[t].pc # "idle"
  BY <1>1, TurnIs DEF Answerings, Kinds, Exports
<1>3. s \in Giving /\ s.pc = "agent" /\ s.waited = turns[t].waited
  BY <1>2 DEF Giving, Answerings, Kinds
<1>4. TurnTo(t, s) /\ wanted' = TRUE
      /\ UNCHANGED <<drafted, context, question, unheard>>
  BY <1>1 DEF StartExport, Sound
<1>5. "agent" \notin Exports /\ "agent" # "probing" /\ "agent" # "routed"
  BY DEF Exports
<1>. HIDE DEF s
<1>6. s \in Turn /\ Sound(s) /\ (Waits(s) => Waits(turns[t]))
  BY <1>2, <1>3, <1>5 DEF Turn, Sound, Waits
<1>. QED  BY <1>2, <1>4, <1>6, TurnStep DEF ChatInv

LEMMA AnsweredOK ==
  ASSUME ChatInv, NEW t \in Turns, turns[t].pc \in Answerings, EndAnswered(t)
  PROVE  ChatInv'
<1>. DEFINE s == turns[t]
<1>1. s \in Giving /\ s.pc # "idle"
  BY TurnIs DEF ChatInv, Answerings, Kinds, Exports
<1>2. TurnTo(t, [pc |-> "idle"]) /\ UNCHANGED <<drafted, context, wanted>>
  BY DEF EndAnswered
<1>3. CASE s.waited = TRUE
  <2>1. Waits(s)
    BY <1>1, <1>3 DEF Waits
  <2>2. \A u \in Turns \ {t} : ~Waits(turns[u])
    BY <2>1 DEF ChatInv
  <2>3. question' = s.put /\ unheard' = (unheard /\ ~(s.put = context))
    BY <1>3 DEF EndAnswered, PutQuestion
  <2>4. context = Nothing \/ unheard = TRUE
    BY <2>1 DEF ChatInv
  <2>5. context' = Nothing \/ unheard' = TRUE \/ context' = question'
    BY <1>2, <2>3, <2>4
  <2>. QED  BY <1>2, <2>2, <2>5, IdleTurn, TurnStep DEF ChatInv
<1>4. CASE s.waited = FALSE
  <2>1. question' = question /\ (unheard = TRUE => unheard' = TRUE)
    BY <1>4 DEF EndAnswered, PutQuestion
  <2>. QED  BY <1>2, <2>1, IdleTurn, TurnStep DEF ChatInv
<1>. QED  BY <1>1, <1>3, <1>4 DEF Giving

LEMMA FailOK ==
  ASSUME ChatInv, NEW t \in Turns, TurnFails(t)
  PROVE  ChatInv'
<1>1. /\ TurnTo(t, [pc |-> "idle"])
      /\ UNCHANGED <<drafted, context, question, unheard, wanted>>
  BY DEF TurnFails
<1>. QED  BY <1>1, IdleTurn, TurnStep DEF ChatInv

LEMMA StopOK ==
  ASSUME ChatInv, NEW t \in Turns, Stop(t)
  PROVE  ChatInv'
<1>. DEFINE s == [turns[t] EXCEPT !.waited = FALSE]
<1>1. turns[t] \in Turn /\ turns[t].pc # "idle" /\ Sound(turns[t])
  BY DEF Stop, ChatInv
<1>2. s \in Turn /\ s.waited = FALSE /\ Sound(s)
  <2>1. CASE turns[t] \in Probing
    <3>1. s.pc = "probing" /\ s.waited = FALSE /\ s.finds = turns[t].finds
          /\ s.wants = turns[t].wants /\ s \in Probing
      BY <2>1 DEF Probing
    <3>2. turns[t].pc = "probing" /\ "probing" \notin Exports
      BY <2>1 DEF Probing, Exports
    <3>. HIDE DEF s
    <3>. QED  BY <1>1, <3>1, <3>2 DEF Turn, Sound
  <2>2. CASE turns[t] \in Routings
    BY <1>1, <2>2 DEF Turn, Routings, Sound
  <2>3. CASE turns[t] \in Giving
    <3>1. "probing" \notin Answerings /\ "routed" \notin Answerings
      BY DEF Answerings, Kinds, Exports
    <3>. QED  BY <1>1, <2>3, <3>1 DEF Turn, Giving, Sound
  <2>. QED  BY <1>1, <2>1, <2>2, <2>3 DEF Turn
<1>3. /\ TurnTo(t, s)
      /\ UNCHANGED <<drafted, context, question, unheard, wanted>>
  BY DEF Stop
<1>. HIDE DEF s
<1>4. ~Waits(s)
  BY <1>2 DEF Waits
<1>. QED  BY <1>2, <1>3, <1>4, TurnStep DEF ChatInv

LEMMA ChatStepOK == ChatInv /\ [ChatNext]_chatVars => ChatInv'
<1>. SUFFICES ASSUME ChatInv, [ChatNext]_chatVars PROVE ChatInv'
  OBVIOUS
<1>1. CASE UNCHANGED chatVars
  BY <1>1 DEF chatVars, ChatInv, Sound, Waits
<1>2. CASE \E t \in Turns : Ask(t)
  BY <1>2, AskOK
<1>3. CASE \E t \in Turns : Probe(t)
  BY <1>3, ProbeOK
<1>4. CASE \E t \in Turns : Remember(t)
  BY <1>4, RememberOK
<1>5. CASE \E t \in Turns : StartExport(t)
  BY <1>5, StartExportOK
<1>6. CASE \E t \in Turns : Clarified(t) \/ HandOff(t) \/ Finish(t)
  <2>1. PICK t \in Turns : Clarified(t) \/ HandOff(t) \/ Finish(t)
    BY <1>6
  <2>2. turns[t].pc \in Answerings /\ EndAnswered(t)
    BY <2>1 DEF Clarified, HandOff, Finish, Answerings, Kinds, Exports
  <2>. QED  BY <2>2, AnsweredOK
<1>7. CASE \E t \in Turns : TurnFails(t)
  BY <1>7, FailOK
<1>8. CASE \E t \in Turns : Stop(t)
  BY <1>8, StopOK
<1>9. CASE DraftMoves
  BY <1>9 DEF DraftMoves, ChatInv, Sound, Waits
<1>10. CASE ChatRestart
  <2>1. /\ context' = Nothing /\ UNCHANGED <<drafted, wanted>>
        /\ turns' = [t \in Turns |-> [pc |-> "idle"]]
    BY <1>10 DEF ChatRestart
  <2>2. /\ turns' \in [Turns -> Turn] /\ \A t \in Turns : turns'[t] = [pc |-> "idle"]
    BY <2>1, IdleTurn
  <2>3. \A t \in Turns : ~Waits(turns'[t]) /\ Sound(turns'[t])
    BY <2>2, IdleTurn
  <2>. QED  BY <2>1, <2>2, <2>3 DEF ChatInv, Sound, Waits
<1>. QED  BY <1>1, <1>2, <1>3, <1>4, <1>5, <1>6, <1>7, <1>8, <1>9, <1>10 DEF ChatNext

\* An export starts only on a clear wish for it and for nothing else, or on a
\* yes to the question last put or to one whose answer has not arrived; and the
\* context the server remembers is the question last put or nothing, unless the
\* answer of the turn that set it was stopped, failed or is still to come; for
\* any number of turns (tool_augmented_ask.py sets or clears the context before
\* it works out an answer; workflow_signals.py).
THEOREM AskedExports == ChatSpec => []ExportsWereAskedFor
<1>1. ChatInv => ExportsWereAskedFor
  BY DEF ChatInv, ExportsWereAskedFor
<1>. QED  BY <1>1, ChatInitOK, ChatStepOK, PTL DEF ChatSpec

-----------------------------------------------------------------------------
Via == {"button", "chat"}
Issue == [run : Runs, test : Tests, via : Via, denied : BOOLEAN, asked : Nat, of : Nat]

\* The first test that its run made.
First(iss, i) == \A h \in 1..(i - 1) : iss[h].run # iss[i].run

(* The keys a run holds are of different tests, and of its own.            *)
KeysOf(r, s, iss) ==
  /\ s.keys \in Seq(1..Len(iss))
  /\ IsInjective(s.keys)
  /\ \A i \in 1..Len(s.keys) : iss[s.keys[i]].run = r

(* While a run creates, what it has created is no longer to do, except its *)
(* first test, when that was denied; and as long as it may try once more,  *)
(* it has created nothing.                                                 *)
ToDo(r, s, iss) ==
  /\ \A i \in 1..Len(iss) : iss[i].run = r /\ iss[i].test \in s.todo =>
       /\ iss[i].denied = TRUE /\ First(iss, i)
       /\ \A u \in s.todo : iss[i].test <= u
  /\ s.cached = TRUE /\ s.keys = <<>> /\ s.rejected = FALSE =>
       \A i \in 1..Len(iss) : iss[i].run # r

(* What run r, where it is in s, knows: until it creates it has created    *)
(* nothing; what it exports is what was confirmed, if a button did; what   *)
(* it has read of the receipt is older or the same; what it has recorded   *)
(* is there.                                                               *)
Local(r, s, iss, rec) ==
  /\ s.pc \in {"idle", "xray card", "load", "schema"} =>
       \A i \in 1..Len(iss) : iss[i].run # r
  /\ s.pc = "xray card" => s.asked \in Nat
  /\ s.pc \in {"load", "schema", "create"} => s.via \in Via /\ s.asked \in Nat
  /\ s.pc = "load" =>
       s.held.version \in Nat /\ (s.via = "button" => s.held.version = s.asked)
  /\ s.pc \in {"schema", "create"} =>
       /\ s.of \in Nat /\ (s.via = "button" => s.of = s.asked)
       /\ s.todo \subseteq Tests
  /\ s.pc = "create" =>
       s.cached \in BOOLEAN /\ s.rejected \in BOOLEAN /\ ToDo(r, s, iss)
  /\ s.pc \in {"create", "read", "swap"} => KeysOf(r, s, iss)
  /\ s.pc = "swap" =>
       /\ s.seen.version \in Nat /\ s.seen.version <= rec.version
       /\ s.seen.version = rec.version => s.seen.keys = rec.keys
  /\ s.pc = "answered" /\ s.recorded =>
       ToSet(s.keys) \subseteq ToSet(rec.keys) \/ Len(rec.keys) = MaxKeys
  /\ s.pc # "refused"

(* The receipt names tests there are, each once, of runs that have         *)
(* answered: the keys of a run that has not are new to it.                 *)
Receipts(iss, rec, all) ==
  /\ rec.version \in Nat
  /\ rec.keys \in Seq(1..Len(iss)) /\ Len(rec.keys) <= MaxKeys
  /\ IsInjective(rec.keys)
  /\ \A i \in 1..Len(rec.keys) : all[iss[rec.keys[i]].run].pc = "answered"

(* The tests in Xray: none twice of one run, unless the first of the two   *)
(* was its first and denied; and a button's as confirmed.                  *)
Issues(iss) ==
  /\ iss \in Seq(Issue)
  /\ \A i, j \in 1..Len(iss) :
       iss[i].run = iss[j].run /\ iss[i].test = iss[j].test /\ i < j =>
         iss[i].denied = TRUE /\ First(iss, i)
  /\ \A i \in 1..Len(iss) : iss[i].via = "button" => iss[i].of = iss[i].asked

ExportsInv ==
  /\ runs = [r \in Runs |-> runs[r]]
  /\ draft.version \in Nat
  /\ Issues(issues)
  /\ Receipts(issues, receipt, runs)
  /\ \A r \in Runs : Local(r, runs[r], issues, receipt)

-----------------------------------------------------------------------------
(* Sequences of keys.                                                      *)

(* Of keys that differ dict.fromkeys leaves out none.                      *)
LEMMA DistinctOfInjective ==
  ASSUME NEW n \in Nat, NEW s \in Seq(1..n), IsInjective(s)
  PROVE  Distinct(s) = s
<1> DEFINE m == Len(s)
<1>1. m \in Nat /\ DOMAIN s = 1..m /\ \A i \in 1..m : s[i] \in 1..n
  BY LenProperties
<1>2. Firsts(s) = 1..m
  BY <1>1 DEF Firsts, IsInjective
<1>3. \A i \in 1..m : {j \in 1..m : j <= i} = 1..i
  BY <1>1
<1>4. \A k \in Nat : Cardinality(1..k) = k
  <2> TAKE k \in Nat
  <2>1. Cardinality(1..k) = IF 1 > k THEN 0 ELSE k - 1 + 1
    BY FS_Interval
  <2> QED BY <2>1
<1>5. Cardinality(1..m) = m
  BY <1>1, <1>4
<1>6. \A k \in 1..m :
        (CHOOSE i \in 1..m : Cardinality({j \in 1..m : j <= i}) = k) = k
  <2>1. \A i \in 1..m : Cardinality({j \in 1..m : j <= i}) = i
    <3> TAKE i \in 1..m
    <3>1. i \in Nat
      BY <1>1
    <3>2. {j \in 1..m : j <= i} = 1..i
      BY <1>3
    <3> QED BY <3>1, <3>2, <1>4
  <2> QED BY <2>1
<1>7. Distinct(s) = [k \in 1..m |-> s[k]]
  <2>1. \A k \in 1..m :
          (CHOOSE i \in Firsts(s) : Cardinality({j \in Firsts(s) : j <= i}) = k) = k
    BY <1>2, <1>6
  <2>2. Distinct(s) =
          [k \in 1..m |->
             s[CHOOSE i \in Firsts(s) : Cardinality({j \in Firsts(s) : j <= i}) = k]]
    BY <1>2, <1>5 DEF Distinct
  <2> QED BY <2>1, <2>2
<1> QED
  BY <1>7, <1>1, SeqDef

(* The newest keys: as many as the receipt holds, and all when they fit.   *)
LEMMA NewestIs ==
  ASSUME NEW n \in Nat, NEW s \in Seq(1..n)
  PROVE  /\ Newest(s) \in Seq(1..n)
         /\ Len(Newest(s)) <= MaxKeys
         /\ Len(s) <= MaxKeys => Newest(s) = s
         /\ Len(s) >= MaxKeys => Len(Newest(s)) = MaxKeys
         /\ IsInjective(s) => IsInjective(Newest(s))
         /\ \A i \in 1..Len(Newest(s)) : \E j \in 1..Len(s) : Newest(s)[i] = s[j]
<1>0. MaxKeys \in Nat /\ MaxKeys >= 1
  BY ExportsAssumption
<1>1. Len(s) \in Nat /\ DOMAIN s = 1..Len(s) /\ \A i \in 1..Len(s) : s[i] \in 1..n
  BY LenProperties
<1>2. CASE Len(s) <= MaxKeys
  <2>1. Newest(s) = s
    BY <1>2 DEF Newest
  <2>2. Len(s) >= MaxKeys => Len(s) = MaxKeys
    <3>1. Len(s) \in Nat
      BY <1>1
    <3> QED BY <3>1, <1>0, <1>2
  <2>3. \A i \in 1..Len(s) : \E j \in 1..Len(s) : s[i] = s[j]
    <3> TAKE i \in 1..Len(s)
    <3> WITNESS i \in 1..Len(s)
    <3> QED OBVIOUS
  <2>4. /\ s \in Seq(1..n) /\ Len(s) <= MaxKeys
        /\ Len(s) <= MaxKeys => s = s
        /\ Len(s) >= MaxKeys => Len(s) = MaxKeys
        /\ IsInjective(s) => IsInjective(s)
        /\ \A i \in 1..Len(s) : \E j \in 1..Len(s) : s[i] = s[j]
    BY <2>2, <2>3, <1>2
  <2> QED BY <2>1, <2>4, Zenon
<1>3. CASE Len(s) > MaxKeys
  <2> DEFINE a == Len(s) - MaxKeys + 1
             t == SubSeq(s, a, Len(s))
  <2>1. Newest(s) = t
    BY <1>0, <1>1, <1>3 DEF Newest
  <2>2. a \in Int /\ a >= 1 /\ a <= Len(s) /\ Len(s) - a + 1 = MaxKeys
    BY <1>0, <1>1, <1>3
  <2>3. \A i \in a..Len(s) : s[i] \in 1..n
    BY <2>2, <1>1
  <2>4. /\ t \in Seq(1..n) /\ Len(t) = MaxKeys
        /\ \A i \in 1..MaxKeys : t[i] = s[a + i - 1]
    <3>1. Len(s) \in Int
      BY <1>1
    <3>2. /\ t \in Seq(1..n) /\ Len(t) = IF a <= Len(s) THEN Len(s) - a + 1 ELSE 0
          /\ \A i \in 1..(Len(s) - a + 1) : t[i] = s[a + i - 1]
      <4>. HIDE DEF a
      <4>. QED  BY <2>2, <2>3, <3>1, SubSeqProperties
    <3>. QED  BY <2>2, <3>2
  <2>5. DOMAIN t = 1..MaxKeys
    BY <2>4, LenProperties
  <2>6. \A i \in 1..MaxKeys : a + i - 1 \in 1..Len(s)
    BY <2>2, <1>0, <1>1
  <2>7. IsInjective(s) => IsInjective(t)
    <3> SUFFICES ASSUME IsInjective(s), NEW i \in 1..MaxKeys, NEW j \in 1..MaxKeys,
                        t[i] = t[j]
                 PROVE  i = j
      BY <2>5 DEF IsInjective
    <3>1. s[a + i - 1] = s[a + j - 1]
      BY <2>4
    <3>2. a + i - 1 = a + j - 1
      BY <3>1, <2>6, <1>1 DEF IsInjective
    <3> QED BY <3>2, <2>2, <1>0
  <2>8. \A i \in 1..Len(t) : \E j \in 1..Len(s) : t[i] = s[j]
    BY <2>4, <2>6
  <2> HIDE DEF t
  <2> QED BY <2>1, <2>4, <2>7, <2>8, <1>0, <1>1, <1>3
<1> QED BY <1>0, <1>1, <1>2, <1>3

(* The keys of a record and those of a run, when none is in both.          *)
LEMMA Joined ==
  ASSUME NEW n \in Nat, NEW p \in Seq(1..n), NEW s \in Seq(1..n),
         IsInjective(p), IsInjective(s),
         \A i \in 1..Len(p), j \in 1..Len(s) : p[i] # s[j]
  PROVE  IsInjective(p \o s)
<1>1. Len(p) \in Nat /\ DOMAIN p = 1..Len(p) /\ Len(s) \in Nat /\ DOMAIN s = 1..Len(s)
  BY LenProperties
<1>2. /\ p \o s \in Seq(1..n) /\ Len(p \o s) = Len(p) + Len(s)
      /\ \A i \in 1..(Len(p) + Len(s)) :
           (p \o s)[i] = IF i <= Len(p) THEN p[i] ELSE s[i - Len(p)]
  BY ConcatProperties
<1>3. DOMAIN (p \o s) = 1..(Len(p) + Len(s))
  BY <1>2, LenProperties
<1> SUFFICES ASSUME NEW i \in 1..(Len(p) + Len(s)), NEW j \in 1..(Len(p) + Len(s)),
                    (p \o s)[i] = (p \o s)[j]
             PROVE  i = j
  BY <1>3 DEF IsInjective
<1>4. CASE i <= Len(p) /\ j <= Len(p)
  <2>1. i \in 1..Len(p) /\ j \in 1..Len(p)
    BY <1>1, <1>4
  <2>2. p[i] = p[j]
    BY <1>1, <1>2, <1>4
  <2> QED BY <2>1, <2>2, <1>1 DEF IsInjective
<1>5. CASE i > Len(p) /\ j > Len(p)
  <2>1. i - Len(p) \in 1..Len(s) /\ j - Len(p) \in 1..Len(s)
    BY <1>1, <1>5
  <2>2. s[i - Len(p)] = s[j - Len(p)]
    BY <1>1, <1>2, <1>5
  <2>3. i - Len(p) = j - Len(p)
    BY <2>1, <2>2, <1>1 DEF IsInjective
  <2> QED BY <2>3, <1>1
<1>6. CASE i <= Len(p) /\ j > Len(p)
  <2>1. i \in 1..Len(p) /\ j - Len(p) \in 1..Len(s)
    BY <1>1, <1>6
  <2> QED BY <2>1, <1>1, <1>2, <1>6
<1>7. CASE i > Len(p) /\ j <= Len(p)
  <2>1. j \in 1..Len(p) /\ i - Len(p) \in 1..Len(s)
    BY <1>1, <1>7
  <2> QED BY <2>1, <1>1, <1>2, <1>7
<1> QED BY <1>1, <1>4, <1>5, <1>6, <1>7

(* What a record holds after a run of new keys is merged in.               *)
LEMMA MergedIs ==
  ASSUME NEW n \in Nat, NEW p \in Seq(1..n), NEW s \in Seq(1..n),
         IsInjective(p), IsInjective(s),
         \A i \in 1..Len(p), j \in 1..Len(s) : p[i] # s[j]
  PROVE  /\ Merged(p, s) \in Seq(1..n)
         /\ Len(Merged(p, s)) <= MaxKeys
         /\ IsInjective(Merged(p, s))
         /\ \A i \in 1..Len(Merged(p, s)) :
              \/ \E j \in 1..Len(p) : Merged(p, s)[i] = p[j]
              \/ \E j \in 1..Len(s) : Merged(p, s)[i] = s[j]
         /\ \/ ToSet(p) \cup ToSet(s) \subseteq ToSet(Merged(p, s))
            \/ Len(Merged(p, s)) = MaxKeys
         /\ Len(p) = MaxKeys => Len(Merged(p, s)) = MaxKeys
<1> DEFINE q == p \o s
<1>0. MaxKeys \in Nat /\ MaxKeys >= 1
  BY ExportsAssumption
<1>1. Len(p) \in Nat /\ DOMAIN p = 1..Len(p) /\ Len(s) \in Nat /\ DOMAIN s = 1..Len(s)
  BY LenProperties
<1>2. /\ q \in Seq(1..n) /\ Len(q) = Len(p) + Len(s)
      /\ \A i \in 1..(Len(p) + Len(s)) :
           q[i] = IF i <= Len(p) THEN p[i] ELSE s[i - Len(p)]
  BY ConcatProperties
<1>3. IsInjective(q)
  BY Joined
<1>4. Merged(p, s) = Newest(q)
  BY <1>2, <1>3, DistinctOfInjective DEF Merged
<1>5. DOMAIN q = 1..Len(q)
  BY <1>2, LenProperties
<1>6. \A j \in 1..Len(q) : \/ \E k \in 1..Len(p) : q[j] = p[k]
                           \/ \E k \in 1..Len(s) : q[j] = s[k]
  <2> TAKE j \in 1..Len(q)
  <2>1. CASE j <= Len(p)
    BY <2>1, <1>1, <1>2
  <2>2. CASE j > Len(p)
    <3>1. j - Len(p) \in 1..Len(s)
      BY <2>2, <1>1, <1>2
    <3>2. q[j] = s[j - Len(p)]
      BY <2>2, <1>1, <1>2
    <3> QED BY <3>1, <3>2
  <2> QED BY <2>1, <2>2, <1>1
<1>7. ToSet(p) \cup ToSet(s) \subseteq ToSet(q)
  <2>1. \A k \in 1..Len(p) : k \in 1..Len(q) /\ q[k] = p[k]
    BY <1>1, <1>2
  <2>2. \A k \in 1..Len(s) : Len(p) + k \in 1..Len(q) /\ q[Len(p) + k] = s[k]
    BY <1>1, <1>2
  <2> HIDE DEF q
  <2>3. ToSet(p) \subseteq ToSet(q)
    BY <2>1, <1>1, <1>5 DEF ToSet
  <2>4. ToSet(s) \subseteq ToSet(q)
    BY <2>2, <1>1, <1>5 DEF ToSet
  <2> QED BY <2>3, <2>4
<1> HIDE DEF q
<1>8. /\ Newest(q) \in Seq(1..n)
      /\ Len(Newest(q)) <= MaxKeys
      /\ Len(q) <= MaxKeys => Newest(q) = q
      /\ Len(q) >= MaxKeys => Len(Newest(q)) = MaxKeys
      /\ IsInjective(Newest(q))
      /\ \A i \in 1..Len(Newest(q)) : \E j \in 1..Len(q) : Newest(q)[i] = q[j]
  BY <1>2, <1>3, NewestIs
<1>9. Len(q) \in Nat
  BY <1>1, <1>2
<1>10. ToSet(p) \cup ToSet(s) \subseteq ToSet(Newest(q)) \/ Len(Newest(q)) = MaxKeys
  BY <1>0, <1>7, <1>8, <1>9
<1>11. Len(p) = MaxKeys => Len(Newest(q)) = MaxKeys
  BY <1>0, <1>1, <1>2, <1>8
<1>12. \A i \in 1..Len(Newest(q)) :
          \/ \E j \in 1..Len(p) : Newest(q)[i] = p[j]
          \/ \E j \in 1..Len(s) : Newest(q)[i] = s[j]
  <2> TAKE i \in 1..Len(Newest(q))
  <2>1. PICK j \in 1..Len(q) : Newest(q)[i] = q[j]
    BY <1>8
  <2> QED BY <2>1, <1>6
<1> QED
  BY <1>4, <1>8, <1>10, <1>11, <1>12

-----------------------------------------------------------------------------
(* What holds of a run when others move.                                   *)

LEMMA AppendIs ==
  ASSUME NEW S, NEW iss \in Seq(S), NEW e \in S
  PROVE  /\ Append(iss, e) \in Seq(S)
         /\ Len(iss) \in Nat
         /\ Len(Append(iss, e)) = Len(iss) + 1
         /\ \A i \in 1..Len(iss) : Append(iss, e)[i] = iss[i]
         /\ Append(iss, e)[Len(iss) + 1] = e
         /\ 1..Len(Append(iss, e)) = 1..Len(iss) \cup {Len(iss) + 1}
<1>1. Len(iss) \in Nat
  BY LenProperties
<1>2. /\ Append(iss, e) \in Seq(S)
      /\ Len(Append(iss, e)) = Len(iss) + 1
      /\ \A i \in 1..Len(iss) : Append(iss, e)[i] = iss[i]
      /\ Append(iss, e)[Len(iss) + 1] = e
  BY <1>1, AppendProperties
<1> QED BY <1>1, <1>2

LEMMA KeysOfAppend ==
  ASSUME NEW r, NEW s, NEW iss \in Seq(Issue), NEW e \in Issue, KeysOf(r, s, iss)
  PROVE  KeysOf(r, s, Append(iss, e))
<1>1. /\ Len(iss) \in Nat
      /\ Len(Append(iss, e)) = Len(iss) + 1
      /\ \A i \in 1..Len(iss) : Append(iss, e)[i] = iss[i]
  BY AppendIs
<1>2. s.keys \in Seq(1..Len(iss)) /\ 1..Len(iss) \subseteq 1..(Len(iss) + 1)
  BY <1>1 DEF KeysOf
<1>3. s.keys \in Seq(1..Len(Append(iss, e)))
  BY <1>1, <1>2, SeqMonotonic
<1>4. \A i \in 1..Len(s.keys) : s.keys[i] \in 1..Len(iss)
  BY <1>2, LenProperties
<1>5. \A i \in 1..Len(s.keys) : Append(iss, e)[s.keys[i]].run = r
  BY <1>1, <1>4 DEF KeysOf
<1> QED BY <1>3, <1>5 DEF KeysOf

LEMMA LocalAppend ==
  ASSUME NEW r, NEW s, NEW rec, NEW iss \in Seq(Issue), NEW e \in Issue, e.run # r,
         Local(r, s, iss, rec)
  PROVE  Local(r, s, Append(iss, e), rec)
<1>1. /\ Len(iss) \in Nat
      /\ \A i \in 1..Len(iss) : Append(iss, e)[i] = iss[i]
      /\ Append(iss, e)[Len(iss) + 1] = e
      /\ 1..Len(Append(iss, e)) = 1..Len(iss) \cup {Len(iss) + 1}
  BY AppendIs
<1>2. s.pc \in {"create", "read", "swap"} => KeysOf(r, s, Append(iss, e))
  BY KeysOfAppend DEF Local
<1>3. s.pc \in {"idle", "xray card", "load", "schema"} =>
        \A i \in 1..Len(Append(iss, e)) : Append(iss, e)[i].run # r
  BY <1>1 DEF Local
<1>4. s.pc = "create" => ToDo(r, s, Append(iss, e))
  <2>1. s.pc = "create" => ToDo(r, s, iss)
    BY DEF Local
  <2>2. \A i \in 1..Len(iss) : First(iss, i) => First(Append(iss, e), i)
    BY <1>1 DEF First
  <2> QED BY <1>1, <2>1, <2>2 DEF ToDo
<1> QED BY <1>2, <1>3, <1>4, Zenon DEF Local

(* A run that is over, or that exports to Drive, owes nothing here.        *)
Aside(s) == s.pc \in {"failed", "cancelled", "done", "lost", "drive card", "find",
                      "save", "upload"}

LEMMA LocalElsewhere ==
  ASSUME NEW r, NEW s, NEW iss, NEW rec,
         Aside(s)
  PROVE  Local(r, s, iss, rec)
BY DEF Local, Aside

(* Only run r moves, and it had not answered.                              *)
LEMMA OthersStay ==
  ASSUME NEW all, all = [q \in Runs |-> all[q]], NEW r \in Runs, NEW s
  PROVE  LET new == [all EXCEPT ![r] = s]
         IN  /\ new = [q \in Runs |-> new[q]]
             /\ new[r] = s
             /\ \A q \in Runs \ {r} : new[q] = all[q]
OBVIOUS

LEMMA Moves ==
  ASSUME ExportsInv, NEW r \in Runs, NEW s, Goto(r, s), UNCHANGED <<draft, issues, receipt>>,
         runs[r].pc # "answered", Local(r, s, issues, receipt)
  PROVE  ExportsInv'
<1>1. /\ runs' = [q \in Runs |-> runs'[q]]
      /\ runs'[r] = s
      /\ \A q \in Runs \ {r} : runs'[q] = runs[q]
  BY OthersStay DEF ExportsInv, Goto
<1>2. \A q \in Runs : Local(q, runs'[q], issues, receipt)
  BY <1>1 DEF ExportsInv
<1>3. Receipts(issues, receipt, runs')
  <2>1. receipt.keys \in Seq(1..Len(issues))
    BY DEF ExportsInv, Receipts
  <2>2. \A i \in 1..Len(receipt.keys) : issues[receipt.keys[i]].run \in Runs
    <3> TAKE i \in 1..Len(receipt.keys)
    <3>1. receipt.keys[i] \in 1..Len(issues)
      BY <2>1, LenProperties
    <3>2. issues[receipt.keys[i]] \in Issue
      BY <3>1, ElementOfSeq DEF ExportsInv, Issues
    <3> QED BY <3>2 DEF Issue
  <2>3. \A i \in 1..Len(receipt.keys) :
          runs'[issues[receipt.keys[i]].run].pc = "answered"
    BY <1>1, <2>2 DEF ExportsInv, Receipts
  <2> QED BY <2>3 DEF ExportsInv, Receipts
<1> QED BY <1>1, <1>2, <1>3, Zenon DEF ExportsInv

(* Of what is due to run r, only the test due next may be in Xray.         *)
LEMMA OnlyNext ==
  ASSUME ExportsInv, NEW r \in Runs, NEW t \in Tests, Due(runs[r], t)
  PROVE  \A i \in 1..Len(issues) :
           issues[i].run = r => issues[i].test \notin runs[r].todo \ {t}
<1>1. ToDo(r, runs[r], issues) /\ runs[r].todo \subseteq Tests /\ t \in runs[r].todo
      /\ \A u \in runs[r].todo : t <= u
  BY DEF Due, ExportsInv, Local
<1>2. Tests \subseteq Nat
  BY ExportsAssumption
<1> SUFFICES ASSUME NEW i \in 1..Len(issues), issues[i].run = r,
                    issues[i].test \in runs[r].todo
             PROVE  issues[i].test = t
  OBVIOUS
<1>3. issues[i].test <= t /\ t <= issues[i].test
  BY <1>1 DEF ToDo
<1>4. issues[i].test \in Nat /\ t \in Nat
  BY <1>1, <1>2
<1> QED BY <1>3, <1>4

(* Run r creates a test that was to do.                                    *)
LEMMA CreatesOne ==
  ASSUME ExportsInv, NEW r \in Runs, NEW t \in Tests, NEW s, Goto(r, s), Due(runs[r], t),
         NEW denied \in BOOLEAN, issues' = NewIssue(r, t, denied),
         UNCHANGED <<draft, receipt>>, Local(r, s, issues', receipt)
  PROVE  ExportsInv'
<1> DEFINE e == [run |-> r, test |-> t, via |-> runs[r].via, denied |-> denied,
                 asked |-> runs[r].asked, of |-> runs[r].of]
<1>1. /\ runs' = [q \in Runs |-> runs'[q]]
      /\ runs'[r] = s
      /\ \A q \in Runs \ {r} : runs'[q] = runs[q]
  BY OthersStay DEF ExportsInv, Goto
<1>2. runs[r].pc = "create" /\ t \in runs[r].todo
  BY DEF Due
<1>3. Local(r, runs[r], issues, receipt)
  BY DEF ExportsInv
<1>4. /\ e \in Issue /\ e.run = r /\ e.test = t
      /\ e.via = "button" => e.of = e.asked
  BY <1>2, <1>3 DEF Local, Issue
<1>5. \A i \in 1..Len(issues) : issues[i].run = r /\ issues[i].test = t =>
        issues[i].denied = TRUE /\ First(issues, i)
  BY <1>2, <1>3 DEF Local, ToDo
<1>6. issues' = Append(issues, e)
  BY DEF NewIssue
<1> HIDE DEF e
<1>7. issues \in Seq(Issue)
  BY DEF ExportsInv, Issues
<1>8. /\ issues' \in Seq(Issue)
      /\ Len(issues) \in Nat
      /\ Len(issues') = Len(issues) + 1
      /\ \A i \in 1..Len(issues) : issues'[i] = issues[i]
      /\ issues'[Len(issues) + 1] = e
      /\ 1..Len(issues') = 1..Len(issues) \cup {Len(issues) + 1}
  BY <1>4, <1>6, <1>7, AppendIs
<1>9. Issues(issues')
  <2>1. \A i \in 1..Len(issues) : First(issues, i) => First(issues', i)
    BY <1>8 DEF First
  <2>3. ASSUME NEW i \in 1..Len(issues'), NEW j \in 1..Len(issues'), i < j,
               issues'[i].run = issues'[j].run, issues'[i].test = issues'[j].test
        PROVE  issues'[i].denied = TRUE /\ First(issues', i)
    <3>1. i \in 1..Len(issues) /\ issues'[i] = issues[i]
      BY <1>8, <2>3
    <3>2. CASE j \in 1..Len(issues)
      BY <1>8, <2>1, <2>3, <3>1, <3>2 DEF ExportsInv, Issues
    <3>3. CASE j = Len(issues) + 1
      BY <1>4, <1>5, <1>8, <2>1, <2>3, <3>1, <3>3
    <3> QED BY <1>8, <3>2, <3>3
  <2>2. \A i \in 1..Len(issues') :
          issues'[i].via = "button" => issues'[i].of = issues'[i].asked
    BY <1>4, <1>8 DEF ExportsInv, Issues
  <2> QED BY <1>8, <2>2, <2>3 DEF Issues
<1>10. Receipts(issues', receipt, runs')
  <2>1. receipt.keys \in Seq(1..Len(issues)) /\ 1..Len(issues) \subseteq 1..Len(issues')
    BY <1>8 DEF ExportsInv, Receipts
  <2>2. receipt.keys \in Seq(1..Len(issues'))
    BY <2>1, SeqMonotonic
  <2>3. \A i \in 1..Len(receipt.keys) : runs'[issues'[receipt.keys[i]].run].pc = "answered"
    <3> TAKE i \in 1..Len(receipt.keys)
    <3>1. receipt.keys[i] \in 1..Len(issues)
      BY <2>1, LenProperties
    <3>2. issues'[receipt.keys[i]] = issues[receipt.keys[i]]
      BY <3>1, <1>8
    <3>3. issues[receipt.keys[i]].run \in Runs
      <4>1. issues[receipt.keys[i]] \in Issue
        BY <3>1, <1>7, ElementOfSeq
      <4> QED BY <4>1 DEF Issue
    <3>4. runs[issues[receipt.keys[i]].run].pc = "answered"
      BY DEF ExportsInv, Receipts
    <3> QED BY <3>2, <3>3, <3>4, <1>1, <1>2
  <2> QED BY <2>2, <2>3 DEF ExportsInv, Receipts
<1>11. \A q \in Runs : Local(q, runs'[q], issues', receipt)
  <2> TAKE q \in Runs
  <2>1. CASE q = r
    BY <2>1, <1>1
  <2>2. CASE q # r
    <3>1. Local(q, runs[q], issues, receipt)
      BY DEF ExportsInv
    <3>2. Local(q, runs[q], Append(issues, e), receipt)
      BY <3>1, <2>2, <1>4, <1>7, LocalAppend
    <3> QED BY <3>2, <2>2, <1>1, <1>6
  <2> QED BY <2>1, <2>2
<1> QED BY <1>1, <1>9, <1>10, <1>11, Zenon DEF ExportsInv

-----------------------------------------------------------------------------
(* One lemma for each kind of step.                                        *)

LEMMA InitIInv == ASSUME Init PROVE ExportsInv
<1>1. runs = [r \in Runs |-> runs[r]] /\ \A r \in Runs : runs[r].pc = "idle"
  BY DEF Init
<1>2. issues = <<>> /\ receipt = [version |-> 0, keys |-> <<>>] /\ draft.version = 1
  BY DEF Init
<1>3. \A r \in Runs : Local(r, runs[r], issues, receipt)
  <2>1. Len(issues) = 0 /\ 1..0 = {}
    BY <1>2
  <2> QED BY <1>1, <2>1 DEF Local
<1>4. Issues(issues)
  BY <1>2 DEF Issues
<1>5. Receipts(issues, receipt, runs)
  BY <1>2, ExportsAssumption DEF Receipts, IsInjective
<1> QED BY <1>1, <1>2, <1>3, <1>4, <1>5 DEF ExportsInv

\* Steps that end a run, or are about Drive.
LEMMA Elsewhere ==
  ASSUME ExportsInv, NEW r \in Runs, NEW s, Goto(r, s), UNCHANGED <<draft, issues, receipt>>,
         runs[r].pc # "answered",
         Aside(s)
  PROVE  ExportsInv'
<1>1. Local(r, s, issues, receipt)
  BY LocalElsewhere
<1> QED BY <1>1, Moves

LEMMA StartsIInv ==
  ASSUME ExportsInv, NEW r \in Runs, NEW seen,
         PressXray(r, seen) \/ AskXray(r) \/ ApproveXray(r)
  PROVE  ExportsInv'
<1>1. Local(r, runs[r], issues, receipt) /\ draft.version \in Nat
  BY DEF ExportsInv
<1>2. CASE PressXray(r, seen)
  <2>1. CASE seen = draft.version
    <3>1. Local(r, Loading("button", seen, draft), issues, receipt)
      BY <1>1, <1>2, <2>1 DEF PressXray, Local, Loading, Via
    <3> QED BY <3>1, <1>2, <2>1, Moves DEF PressXray
  <2>2. CASE seen # draft.version
    BY <1>2, <2>2, Elsewhere DEF Aside, PressXray, Fail
  <2> QED BY <2>1, <2>2
<1>3. CASE AskXray(r)
  <2>1. CASE Exportable(draft) # {}
    <3>1. Local(r, [pc |-> "xray card", asked |-> draft.version], issues, receipt)
      BY <1>1, <1>3 DEF AskXray, Local
    <3> QED BY <3>1, <1>3, <2>1, Moves DEF AskXray
  <2>2. CASE Exportable(draft) = {}
    BY <1>3, <2>2, Elsewhere DEF Aside, AskXray, Fail
  <2> QED BY <2>1, <2>2
<1>4. CASE ApproveXray(r)
  <2>1. Local(r, Loading("chat", runs[r].asked, draft), issues, receipt)
    BY <1>1, <1>4 DEF ApproveXray, Local, Loading, Via
  <2> QED BY <2>1, <1>4, Moves DEF ApproveXray
<1> QED BY <1>2, <1>3, <1>4

LEMMA PlansIInv ==
  ASSUME ExportsInv, NEW r \in Runs, NEW kinds, NEW cached \in BOOLEAN,
         Load(r) \/ ReadSchema(r, kinds, cached)
  PROVE  ExportsInv'
<1>1. Local(r, runs[r], issues, receipt) /\ draft.version \in Nat
  BY DEF ExportsInv
<1>2. CASE Load(r)
  <2> DEFINE d == LoadDraft(runs[r])
  <2>1. CASE Exportable(d) # {}
    <3>1. Exportable(d) \subseteq Tests
      BY DEF Exportable, Chosen
    <3>2. d.version \in Nat /\ (runs[r].via = "button" => d.version = runs[r].asked)
      BY <1>1, <1>2 DEF Load, LoadDraft, Local, Via
    <3> HIDE DEF d
    <3>3. Local(r, Planned(runs[r], d), issues, receipt)
      BY <1>1, <1>2, <3>1, <3>2 DEF Load, Local, Planned
    <3> USE DEF d
    <3> QED BY <3>3, <1>2, <2>1, Moves DEF Load
  <2>2. CASE Exportable(d) = {}
    BY <1>2, <2>2, Elsewhere DEF Aside, Load, Fail
  <2> QED BY <2>1, <2>2
<1>3. CASE ReadSchema(r, kinds, cached)
  <2> DEFINE s == Creating(runs[r], runs[r].todo, <<>>, cached, FALSE)
  <2>1. CASE runs[r].todo \subseteq kinds
    <3>1. KeysOf(r, s, issues)
      BY DEF KeysOf, Creating, IsInjective
    <3>2. Local(r, s, issues, receipt)
      BY <1>1, <1>3, <3>1 DEF ReadSchema, Local, Creating, ToDo
    <3> QED BY <3>2, <1>3, <2>1, Moves DEF ReadSchema
  <2>2. CASE ~(runs[r].todo \subseteq kinds)
    BY <1>3, <2>2, Elsewhere DEF Aside, ReadSchema, Fail
  <2> QED BY <2>1, <2>2
<1> QED BY <1>2, <1>3

\* The next test is created, rejected, or its answer is lost.
LEMMA CreateIInv ==
  ASSUME ExportsInv, NEW r \in Runs, NEW t \in Tests, Create(r, t)
  PROVE  ExportsInv'
<1> DEFINE o == runs[r]
           k == Append(o.keys, Len(issues'))
           s == Creating(o, o.todo \ {t}, k, o.cached, o.rejected)
           e == [run |-> r, test |-> t, via |-> o.via, denied |-> FALSE,
                 asked |-> o.asked, of |-> o.of]
<1>1. Local(r, o, issues, receipt) /\ o.pc = "create" /\ t \in o.todo
  BY DEF ExportsInv, Create, Due
<1>2. issues \in Seq(Issue) /\ e \in Issue
  BY <1>1 DEF ExportsInv, Issues, Issue, Local
<1>3. issues' = Append(issues, e)
  BY DEF Create, NewIssue
<1>4. /\ issues' \in Seq(Issue)
      /\ Len(issues) \in Nat
      /\ Len(issues') = Len(issues) + 1
      /\ \A i \in 1..Len(issues) : issues'[i] = issues[i]
      /\ issues'[Len(issues) + 1] = e
      /\ 1..Len(issues') = 1..Len(issues) \cup {Len(issues) + 1}
  BY <1>2, <1>3, AppendIs
<1>5. /\ o.keys \in Seq(1..Len(issues)) /\ IsInjective(o.keys)
      /\ \A i \in 1..Len(o.keys) : o.keys[i] \in 1..Len(issues)
      /\ \A i \in 1..Len(o.keys) : issues[o.keys[i]].run = r
      /\ Len(o.keys) \in Nat /\ DOMAIN o.keys = 1..Len(o.keys)
  <2>1. KeysOf(r, o, issues)
    BY <1>1 DEF Local
  <2>2. o.keys \in Seq(1..Len(issues))
    BY <2>1 DEF KeysOf
  <2> QED BY <2>1, <2>2, LenProperties DEF KeysOf
<1>6. o.keys \in Seq(1..Len(issues')) /\ Len(issues') \in 1..Len(issues')
  <2>1. 1..Len(issues) \subseteq 1..Len(issues')
    BY <1>4
  <2> QED BY <2>1, <1>4, <1>5, SeqMonotonic
<1>7. /\ k \in Seq(1..Len(issues'))
      /\ Len(k) = Len(o.keys) + 1
      /\ \A i \in 1..Len(o.keys) : k[i] = o.keys[i]
      /\ k[Len(o.keys) + 1] = Len(issues')
      /\ 1..Len(k) = 1..Len(o.keys) \cup {Len(o.keys) + 1}
  BY <1>6, AppendIs
<1>8. DOMAIN k = 1..Len(k)
  BY <1>7, LenProperties
<1> HIDE DEF k, e
<1>9. IsInjective(k)
  <2> SUFFICES ASSUME NEW i \in 1..Len(k), NEW j \in 1..Len(k), k[i] = k[j]
               PROVE  i = j
    BY <1>8 DEF IsInjective
  <2>1. \A m \in 1..Len(o.keys) : k[m] \in 1..Len(issues) /\ k[m] # Len(issues')
    <3> TAKE m \in 1..Len(o.keys)
    <3>1. k[m] = o.keys[m] /\ o.keys[m] \in 1..Len(issues)
      BY <1>5, <1>7
    <3> QED BY <3>1, <1>4
  <2>2. CASE i \in 1..Len(o.keys) /\ j \in 1..Len(o.keys)
    <3>1. o.keys[i] = o.keys[j]
      BY <2>2, <1>7
    <3> QED BY <3>1, <2>2, <1>5 DEF IsInjective
  <2>3. CASE i = Len(o.keys) + 1 /\ j = Len(o.keys) + 1
    BY <2>3
  <2>4. CASE i \in 1..Len(o.keys) /\ j = Len(o.keys) + 1
    BY <2>4, <2>1, <1>7
  <2>5. CASE i = Len(o.keys) + 1 /\ j \in 1..Len(o.keys)
    BY <2>5, <2>1, <1>7
  <2> QED BY <2>2, <2>3, <2>4, <2>5, <1>7
<1>10. \A i \in 1..Len(k) : issues'[k[i]].run = r
  <2> TAKE i \in 1..Len(k)
  <2>1. CASE i \in 1..Len(o.keys)
    BY <2>1, <1>4, <1>5, <1>7
  <2>2. CASE i = Len(o.keys) + 1
    BY <2>2, <1>4, <1>7 DEF e
  <2> QED BY <2>1, <2>2, <1>7
<1>11. /\ s.pc = "create" /\ s.via = o.via /\ s.asked = o.asked /\ s.of = o.of
       /\ s.todo = o.todo \ {t} /\ s.keys = k
       /\ s.cached = o.cached /\ s.rejected = o.rejected
  BY DEF Creating
<1>12. Goto(r, s)
  BY DEF Create, k
<1> HIDE DEF s
<1>13. KeysOf(r, s, issues')
  BY <1>7, <1>9, <1>10, <1>11 DEF KeysOf
<1>14. ToDo(r, s, issues')
  <2>1. \A i \in 1..Len(issues) : issues[i].run = r => issues[i].test \notin o.todo \ {t}
    BY OnlyNext DEF Create
  <2>2. e.test = t
    BY DEF e
  <2>3. \A i \in 1..Len(issues') : issues'[i].run = r => issues'[i].test \notin s.todo
    BY <2>1, <2>2, <1>4, <1>11
  <2>4. s.keys # <<>>
    BY <1>5, <1>7, <1>11
  <2> QED BY <2>3, <2>4 DEF ToDo
<1>15. Local(r, s, issues', receipt)
  BY <1>1, <1>11, <1>13, <1>14 DEF Local
<1> QED BY <1>12, <1>15, CreatesOne DEF Create

LEMMA RejectIInv ==
  ASSUME ExportsInv, NEW r \in Runs, NEW t \in Tests, Reject(r, t)
  PROVE  ExportsInv'
<1> DEFINE o == runs[r]
           s == AfterRejection(o, t)
           again == o.cached = TRUE /\ o.keys = <<>> /\ o.rejected = FALSE
           e == [run |-> r, test |-> t, via |-> o.via, denied |-> TRUE,
                 asked |-> o.asked, of |-> o.of]
<1>1. /\ Local(r, o, issues, receipt) /\ o.pc = "create" /\ t \in o.todo
      /\ \A u \in o.todo : t <= u
  BY DEF ExportsInv, Reject, Due
<1>2. o.cached \in BOOLEAN /\ o.rejected \in BOOLEAN /\ ToDo(r, o, issues)
      /\ KeysOf(r, o, issues) /\ issues \in Seq(Issue) /\ e \in Issue
  BY <1>1 DEF Local, ExportsInv, Issues, Issue
<1>3. /\ s.pc = "create" /\ s.via = o.via /\ s.asked = o.asked /\ s.of = o.of
      /\ s.keys = o.keys /\ s.cached \in BOOLEAN /\ s.rejected \in BOOLEAN
  BY <1>2 DEF AfterRejection, Creating
<1>4. again => s.todo = o.todo /\ s.cached = FALSE
  BY DEF AfterRejection, Creating
<1>5. ~again => s.todo = o.todo \ {t} /\ s.rejected = TRUE
  BY <1>2 DEF AfterRejection, Creating
<1>6. Goto(r, s) /\ UNCHANGED <<draft, receipt>> /\ Due(o, t)
  BY DEF Reject
<1>7. \A i \in 1..Len(issues) : issues[i].run = r => issues[i].test \notin o.todo \ {t}
  BY <1>6, OnlyNext
<1> HIDE DEF s
<1>8. ASSUME NEW iss, KeysOf(r, o, iss), ToDo(r, s, iss)
      PROVE  Local(r, s, iss, receipt)
  <2>1. KeysOf(r, s, iss)
    BY <1>3, <1>8 DEF KeysOf
  <2>2. s.todo \subseteq Tests
    BY <1>1, <1>4, <1>5 DEF Local
  <2> QED BY <1>1, <1>3, <1>8, <2>1, <2>2 DEF Local
<1>9. CASE issues' = issues
  <2>1. ToDo(r, s, issues)
    <3>1. CASE again
      BY <1>2, <1>4, <3>1 DEF ToDo
    <3>2. CASE ~again
      BY <1>5, <1>7, <3>2 DEF ToDo
    <3> QED BY <3>1, <3>2
  <2> QED BY <1>1, <1>2, <1>6, <1>8, <1>9, <2>1, Moves
<1>10. CASE issues' = NewIssue(r, t, TRUE)
  <2>1. issues' = Append(issues, e)
    BY <1>10 DEF NewIssue
  <2>2. e.run = r /\ e.test = t /\ e.denied = TRUE
    OBVIOUS
  <2> HIDE DEF e
  <2>3. /\ Len(issues) \in Nat
        /\ \A i \in 1..Len(issues) : issues'[i] = issues[i]
        /\ issues'[Len(issues) + 1] = e
        /\ 1..Len(issues') = 1..Len(issues) \cup {Len(issues) + 1}
    BY <1>2, <2>1, AppendIs
  <2>4. ToDo(r, s, issues')
    <3>1. CASE again
      <4>1. \A i \in 1..Len(issues) : issues'[i].run # r
        BY <1>2, <2>3, <3>1 DEF ToDo
      <4>2. First(issues', Len(issues) + 1)
        BY <2>2, <2>3, <4>1 DEF First
      <4> QED BY <1>1, <1>4, <2>2, <2>3, <3>1, <4>1, <4>2 DEF ToDo
    <3>2. CASE ~again
      <4>1. \A i \in 1..Len(issues') : issues'[i].run = r => issues'[i].test \notin s.todo
        BY <1>5, <1>7, <2>2, <2>3, <3>2
      <4> QED BY <1>5, <3>2, <4>1 DEF ToDo
    <3> QED BY <3>1, <3>2
  <2>5. KeysOf(r, o, issues')
    BY <1>2, <2>1, KeysOfAppend
  <2>6. Local(r, s, issues', receipt)
    BY <1>8, <2>4, <2>5
  <2> QED BY <1>6, <1>10, <2>6, CreatesOne
<1> QED BY <1>9, <1>10 DEF Reject

\* After the last create, or an answer that was lost.
LEMMA RecordingIs ==
  ASSUME NEW r, NEW s, NEW iss, NEW rec, NEW via, NEW keys, NEW tries,
         s.pc \in {"create", "swap"}, s.keys = keys, Local(r, s, iss, rec)
  PROVE  Local(r, Recording(via, keys, tries), iss, rec)
<1>1. KeysOf(r, s, iss)
  BY DEF Local
<1>2. KeysOf(r, Recording(via, keys, tries), iss)
  BY <1>1 DEF KeysOf, Recording
<1> QED BY <1>2 DEF Local, Recording

LEMMA LoseAnswerIInv ==
  ASSUME ExportsInv, NEW r \in Runs, NEW t \in Tests, LoseAnswer(r, t)
  PROVE  ExportsInv'
<1> DEFINE s == Unclear(runs[r], t)
           e == [run |-> r, test |-> t, via |-> runs[r].via, denied |-> FALSE,
                 asked |-> runs[r].asked, of |-> runs[r].of]
<1>1. /\ Local(r, runs[r], issues, receipt) /\ runs[r].pc = "create"
      /\ Due(runs[r], t) /\ Goto(r, s) /\ UNCHANGED <<draft, receipt>>
  BY DEF ExportsInv, LoseAnswer, Due
<1>2. issues \in Seq(Issue) /\ e \in Issue
  BY <1>1 DEF ExportsInv, Issues, Issue, Local
<1>3. CASE issues' = issues
  <2>1. Local(r, s, issues, receipt)
    <3>1. CASE runs[r].keys = <<>>
      <4>1. s.pc = "failed"
        BY <3>1 DEF Unclear
      <4>2. Aside(s)
        BY <4>1 DEF Aside
      <4> QED BY <4>2, LocalElsewhere
    <3>2. CASE runs[r].keys # <<>>
      <4>1. s = Recording(runs[r].via, runs[r].keys, 0)
        BY <3>2 DEF Unclear
      <4> QED BY <4>1, <1>1, RecordingIs
    <3> QED BY <3>1, <3>2
  <2> QED BY <2>1, <1>1, <1>3, Moves
<1>4. CASE issues' = NewIssue(r, t, FALSE)
  <2>1. issues' = Append(issues, e)
    BY <1>4 DEF NewIssue
  <2>2. KeysOf(r, runs[r], issues')
    <3>1. KeysOf(r, runs[r], issues)
      BY <1>1 DEF Local
    <3> HIDE DEF e
    <3> QED BY <3>1, <2>1, <1>2, KeysOfAppend
  <2>3. Local(r, s, issues', receipt)
    <3>1. CASE runs[r].keys = <<>>
      <4>1. s.pc = "failed"
        BY <3>1 DEF Unclear
      <4>2. Aside(s)
        BY <4>1 DEF Aside
      <4> QED BY <4>2, LocalElsewhere
    <3>2. CASE runs[r].keys # <<>>
      <4> DEFINE u == Recording(runs[r].via, runs[r].keys, 0)
      <4>1. s = u /\ u.pc = "read" /\ u.keys = runs[r].keys
        BY <3>2 DEF Unclear, Recording
      <4> HIDE DEF u, s
      <4>2. KeysOf(r, u, issues')
        BY <4>1, <2>2 DEF KeysOf
      <4> QED BY <4>1, <4>2 DEF Local
    <3> QED BY <3>1, <3>2
  <2> QED BY <2>3, <1>1, <1>4, CreatesOne
<1> QED BY <1>3, <1>4 DEF LoseAnswer

LEMMA FinishCreatingIInv ==
  ASSUME ExportsInv, NEW r \in Runs, FinishCreating(r)
  PROVE  ExportsInv'
<1>1. Local(r, runs[r], issues, receipt) /\ runs[r].pc = "create"
  BY DEF ExportsInv, FinishCreating
<1>2. CASE runs[r].keys = <<>>
  BY <1>1, <1>2, Elsewhere DEF Aside, FinishCreating, Fail
<1>3. CASE runs[r].keys # <<>>
  <2>1. Local(r, Recording(runs[r].via, runs[r].keys, 0), issues, receipt)
    BY <1>1, RecordingIs
  <2> QED BY <2>1, <1>1, <1>3, Moves DEF FinishCreating
<1> QED BY <1>2, <1>3

\* The receipt is read, written when no other has been in between, read again.
LEMMA ReadReceiptIInv ==
  ASSUME ExportsInv, NEW r \in Runs, ReadReceipt(r)
  PROVE  ExportsInv'
<1> DEFINE s == [pc |-> "swap", via |-> runs[r].via, keys |-> runs[r].keys,
                 tries |-> runs[r].tries, seen |-> receipt]
<1>1. Local(r, runs[r], issues, receipt) /\ runs[r].pc = "read" /\ receipt.version \in Nat
  BY DEF ExportsInv, ReadReceipt, Receipts
<1>2. KeysOf(r, s, issues)
  BY <1>1 DEF Local, KeysOf
<1>3. s.pc = "swap" /\ s.seen = receipt /\ Goto(r, s)
  BY DEF ReadReceipt
<1> HIDE DEF s
<1>4. Local(r, s, issues, receipt)
  BY <1>1, <1>2, <1>3 DEF Local
<1> QED BY <1>1, <1>3, <1>4, Moves DEF ReadReceipt

LEMMA NotRecordedIs ==
  ASSUME NEW r, NEW s, NEW iss, NEW rec
  PROVE  Local(r, NotRecorded(s), iss, rec)
<1>1. CASE s.via = "chat"
  <2> DEFINE a == Answered(s.keys, FALSE)
  <2>1. NotRecorded(s) = a /\ a.pc = "answered" /\ a.recorded = FALSE
    BY <1>1 DEF NotRecorded, Answered
  <2> HIDE DEF a
  <2> QED BY <2>1 DEF Local
<1>2. CASE s.via # "chat"
  <2>1. NotRecorded(s).pc = "failed"
    BY <1>2 DEF NotRecorded
  <2>2. Aside(NotRecorded(s))
    BY <2>1 DEF Aside
  <2> QED BY <2>2, LocalElsewhere
<1> QED BY <1>1, <1>2

LEMMA StoreFailsIInv ==
  ASSUME ExportsInv, NEW r \in Runs, StoreFails(r)
  PROVE  ExportsInv'
<1>1. Local(r, NotRecorded(runs[r]), issues, receipt)
  BY NotRecordedIs
<1> QED BY <1>1, Moves DEF StoreFails

\* Merging leaves what others recorded, or fills the receipt.
LEMMA WriteReceiptIInv ==
  ASSUME ExportsInv, NEW r \in Runs, WriteReceipt(r)
  PROVE  ExportsInv'
<1> DEFINE o == runs[r]
           n == Len(issues)
<1>1. Local(r, o, issues, receipt) /\ o.pc = "swap"
  BY DEF ExportsInv, WriteReceipt
<1>2. CASE receipt.version # o.seen.version
  <2>1. UNCHANGED <<draft, issues, receipt>>
    BY <1>2 DEF WriteReceipt
  <2>2. CASE o.tries + 1 < Tries
    <3>1. Local(r, Recording(o.via, o.keys, o.tries + 1), issues, receipt)
      BY <1>1, RecordingIs
    <3> QED BY <3>1, <2>1, <2>2, <1>1, <1>2, Moves DEF WriteReceipt
  <2>3. CASE ~(o.tries + 1 < Tries)
    <3>1. Local(r, NotRecorded(o), issues, receipt)
      BY NotRecordedIs
    <3> QED BY <3>1, <2>1, <2>3, <1>1, <1>2, Moves DEF WriteReceipt
  <2> QED BY <2>2, <2>3
<1>3. CASE receipt.version = o.seen.version
  <2> DEFINE s == Answered(o.keys, TRUE)
             p == receipt.keys
             new == Merged(p, o.keys)
  <2>1. o.seen.keys = p
    BY <1>1, <1>3 DEF Local
  <2>2. /\ receipt' = [version |-> receipt.version + 1, keys |-> new]
        /\ Goto(r, s) /\ UNCHANGED <<draft, issues>>
    BY <1>3, <2>1 DEF WriteReceipt
  <2>3. /\ p \in Seq(1..n) /\ IsInjective(p) /\ Len(p) <= MaxKeys
        /\ \A i \in 1..Len(p) : runs[issues[p[i]].run].pc = "answered"
        /\ receipt.version \in Nat
    BY DEF ExportsInv, Receipts
  <2>4. /\ o.keys \in Seq(1..n) /\ IsInjective(o.keys)
        /\ \A i \in 1..Len(o.keys) : issues[o.keys[i]].run = r
    BY <1>1 DEF Local, KeysOf
  <2>5. n \in Nat /\ issues \in Seq(Issue)
    BY LenProperties DEF ExportsInv, Issues
  <2>6. \A i \in 1..Len(p), j \in 1..Len(o.keys) : p[i] # o.keys[j]
    BY <1>1, <2>3, <2>4
  <2>7. /\ new \in Seq(1..n)
        /\ Len(new) <= MaxKeys
        /\ IsInjective(new)
        /\ \A i \in 1..Len(new) : \/ \E j \in 1..Len(p) : new[i] = p[j]
                                  \/ \E j \in 1..Len(o.keys) : new[i] = o.keys[j]
        /\ ToSet(p) \cup ToSet(o.keys) \subseteq ToSet(new) \/ Len(new) = MaxKeys
        /\ Len(p) = MaxKeys => Len(new) = MaxKeys
    BY <2>3, <2>4, <2>5, <2>6, MergedIs
  <2>8. /\ runs' = [q \in Runs |-> runs'[q]]
        /\ runs'[r] = s
        /\ \A q \in Runs \ {r} : runs'[q] = runs[q]
    BY <2>2, OthersStay DEF ExportsInv, Goto
  <2>9. receipt'.version = receipt.version + 1 /\ receipt'.keys = new
    BY <2>2
  <2>10. s.pc = "answered" /\ s.keys = o.keys
    BY DEF Answered
  <2> HIDE DEF new, s
  <2>11. Receipts(issues', receipt', runs')
    <3>1. \A i \in 1..Len(p) : issues[p[i]].run \in Runs
      <4> TAKE i \in 1..Len(p)
      <4>1. p[i] \in 1..n
        BY <2>3, LenProperties
      <4>2. issues[p[i]] \in Issue
        BY <4>1, <2>5, ElementOfSeq
      <4> QED BY <4>2 DEF Issue
    <3>2. \A i \in 1..Len(p) : runs'[issues[p[i]].run].pc = "answered"
      BY <3>1, <2>3, <2>8, <2>10
    <3>3. \A i \in 1..Len(o.keys) : runs'[issues[o.keys[i]].run].pc = "answered"
      BY <2>4, <2>8, <2>10
    <3>4. \A i \in 1..Len(new) : runs'[issues[new[i]].run].pc = "answered"
      BY <3>2, <3>3, <2>7
    <3> QED BY <3>4, <2>2, <2>3, <2>7, <2>9 DEF Receipts
  <2>12. \A q \in Runs : Local(q, runs'[q], issues', receipt')
    <3> TAKE q \in Runs
    <3>1. CASE q = r
      <4>1. s.recorded => ToSet(s.keys) \subseteq ToSet(new) \/ Len(new) = MaxKeys
        BY <2>7, <2>10
      <4>2. Local(r, s, issues', receipt')
        BY <4>1, <2>9, <2>10 DEF Local
      <4> QED BY <4>2, <3>1, <2>8
    <3>2. CASE q # r
      <4> DEFINE u == runs[q]
      <4>1. Local(q, u, issues, receipt) /\ runs'[q] = u /\ issues' = issues
        BY <3>2, <2>2, <2>8 DEF ExportsInv
      <4>2. u.pc = "swap" =>
              /\ u.seen.version \in Nat /\ u.seen.version <= receipt'.version
              /\ u.seen.version = receipt'.version => u.seen.keys = receipt'.keys
        BY <4>1, <2>3, <2>9 DEF Local
      <4>3. u.pc = "answered" /\ u.recorded =>
              ToSet(u.keys) \subseteq ToSet(receipt'.keys) \/ Len(receipt'.keys) = MaxKeys
        BY <4>1, <2>7, <2>9 DEF Local
      <4> HIDE DEF u
      <4>4. Local(q, u, issues', receipt')
        BY <4>1, <4>2, <4>3, Zenon DEF Local
      <4> QED BY <4>1, <4>4
    <3> QED BY <3>1, <3>2
  <2> QED BY <2>2, <2>8, <2>11, <2>12, Zenon DEF ExportsInv
<1> QED BY <1>2, <1>3

-----------------------------------------------------------------------------
(* Drive, edits and restarts.                                              *)

LEMMA AlwaysAccepted ==
  ASSUME NEW size
  PROVE  Accepted(size)
BY DEF Accepted, DraftLimit, ExportLimit

LEMMA DriveIInv ==
  ASSUME ExportsInv, NEW r \in Runs, Drive(r) \/ RejectCard(r)
  PROVE  ExportsInv'
<1>1. ASSUME NEW folder, NEW size, PressDrive(r, folder, size)
      PROVE  ExportsInv'
  BY <1>1, Elsewhere DEF Aside, PressDrive, Fail, Saving
<1>2. ASSUME NEW folder, ChooseFolder(r, folder)
      PROVE  ExportsInv'
  BY <1>2, Elsewhere DEF Aside, ChooseFolder, Saving
<1>3. CASE FindFolder(r)
  BY <1>3, Elsewhere DEF Aside, FindFolder
<1>4. CASE SaveFolder(r)
  BY <1>4, Elsewhere DEF Aside, SaveFolder, Saving, Uploading
<1>5. ASSUME NEW size, AskDrive(r, size)
      PROVE  ExportsInv'
  BY <1>5, Elsewhere DEF Aside, AskDrive, Fail
<1>6. CASE ApproveDrive(r)
  BY <1>6, Elsewhere DEF Aside, ApproveDrive, Uploading
<1>7. ASSUME NEW outcome, Upload(r, outcome)
      PROVE  ExportsInv'
  BY <1>7, AlwaysAccepted, Elsewhere DEF Aside, Upload
<1>8. CASE RejectCard(r)
  BY <1>8, Elsewhere DEF Aside, RejectCard
<1> QED BY <1>1, <1>2, <1>3, <1>4, <1>5, <1>6, <1>7, <1>8 DEF Drive

LEMMA EditIInv ==
  ASSUME ExportsInv, EditDraft
  PROVE  ExportsInv'
<1>1. draft'.version \in Nat /\ UNCHANGED <<issues, receipt, runs>>
  BY DEF EditDraft, ExportsInv
<1> QED BY <1>1, Zenon DEF ExportsInv

\* What a request had answered stays; the others are gone.
LEMMA RestartIInv ==
  ASSUME ExportsInv, Restart
  PROVE  ExportsInv'
<1>1. /\ runs' = [r \in Runs |-> runs'[r]] /\ UNCHANGED <<draft, issues, receipt>>
      /\ \A r \in Runs : runs'[r] = IF runs[r].pc \in AtWork THEN [pc |-> "lost"]
                                                             ELSE runs[r]
  BY DEF Restart
<1>2. \A r \in Runs : Local(r, runs'[r], issues, receipt)
  <2> TAKE r \in Runs
  <2>1. CASE runs[r].pc \in AtWork
    <3>1. runs'[r].pc = "lost"
      BY <2>1, <1>1
    <3>2. Aside(runs'[r])
      BY <3>1 DEF Aside
    <3> QED BY <3>2, LocalElsewhere
  <2>2. CASE runs[r].pc \notin AtWork
    BY <2>2, <1>1 DEF ExportsInv
  <2> QED BY <2>1, <2>2
<1>3. Receipts(issues, receipt, runs')
  <2>1. \A i \in 1..Len(receipt.keys) :
          runs'[issues[receipt.keys[i]].run].pc = "answered"
    <3> TAKE i \in 1..Len(receipt.keys)
    <3>1. receipt.keys \in Seq(1..Len(issues)) /\ issues \in Seq(Issue)
      BY DEF ExportsInv, Receipts, Issues
    <3>2. receipt.keys[i] \in 1..Len(issues)
      BY <3>1, LenProperties
    <3>3. issues[receipt.keys[i]] \in Issue
      BY <3>1, <3>2, ElementOfSeq
    <3>4. issues[receipt.keys[i]].run \in Runs
      BY <3>3 DEF Issue
    <3>5. runs[issues[receipt.keys[i]].run].pc = "answered"
      BY DEF ExportsInv, Receipts
    <3> QED BY <3>4, <3>5, <1>1 DEF AtWork
  <2> QED BY <2>1 DEF ExportsInv, Receipts
<1> QED BY <1>1, <1>2, <1>3, Zenon DEF ExportsInv

-----------------------------------------------------------------------------
(* The theorems.                                                           *)

LEMMA NextIInv == ASSUME ExportsInv, [Next]_vars PROVE ExportsInv'
<1>1. ASSUME NEW r \in Runs, Xray(r)
      PROVE  ExportsInv'
  <2>1. ASSUME NEW seen, PressXray(r, seen)
        PROVE  ExportsInv'
    BY <2>1, <1>1, StartsIInv
  <2>2. CASE AskXray(r)
    BY <2>2, <1>1, StartsIInv
  <2>3. CASE ApproveXray(r)
    BY <2>3, <1>1, StartsIInv
  <2>4. CASE Load(r)
    BY <2>4, <1>1, PlansIInv
  <2>5. ASSUME NEW kinds, NEW cached \in BOOLEAN, ReadSchema(r, kinds, cached)
        PROVE  ExportsInv'
    BY <2>5, <1>1, PlansIInv
  <2>6. CASE XrayDown(r)
    BY <2>6, <1>1, Elsewhere DEF Aside, XrayDown, Fail
  <2>7. ASSUME NEW t \in Tests, Create(r, t) \/ Reject(r, t) \/ LoseAnswer(r, t)
        PROVE  ExportsInv'
    BY <2>7, <1>1, CreateIInv, RejectIInv, LoseAnswerIInv
  <2>8. CASE FinishCreating(r)
    BY <2>8, <1>1, FinishCreatingIInv
  <2>9. CASE ReadReceipt(r)
    BY <2>9, <1>1, ReadReceiptIInv
  <2>10. CASE WriteReceipt(r)
    BY <2>10, <1>1, WriteReceiptIInv
  <2>11. CASE StoreFails(r)
    BY <2>11, <1>1, StoreFailsIInv
  <2> QED
    BY <1>1, <2>1, <2>2, <2>3, <2>4, <2>5, <2>6, <2>7, <2>8, <2>9, <2>10, <2>11 DEF Xray
<1>2. CASE UNCHANGED vars
  BY <1>2, Zenon DEF ExportsInv, vars
<1> QED
  BY <1>1, <1>2, DriveIInv, EditIInv, RestartIInv DEF Next

LEMMA Invariance == Spec => []ExportsInv
<1>1. Init => ExportsInv
  BY InitIInv
<1>2. ExportsInv /\ [Next]_vars => ExportsInv'
  BY NextIInv
<1> QED BY <1>1, <1>2, PTL DEF Spec

(* Every key a caller was told of is in the draft's receipt, unless newer  *)
(* keys have filled it, and the receipt names tests there are, each once:  *)
(* whatever exports run beside each other, fail or are lost (append of     *)
(* receipt_store.py, beside batch.py).                                     *)
THEOREM KeysAccounted == Spec => []EveryKeyAccounted
<1>1. ExportsInv => EveryKeyAccounted
  <2> SUFFICES ASSUME ExportsInv PROVE EveryKeyAccounted
    OBVIOUS
  <2>1. \A r \in Runs : runs[r].pc = "answered" /\ runs[r].recorded =>
          ToSet(runs[r].keys) \subseteq ToSet(receipt.keys) \/ Len(receipt.keys) = MaxKeys
    BY DEF ExportsInv, Local
  <2>2. receipt.keys \in Seq(1..Len(issues)) /\ IsInjective(receipt.keys)
    BY DEF ExportsInv, Receipts
  <2>3. ToSet(receipt.keys) \subseteq 1..Len(issues)
    BY <2>2, LenProperties DEF ToSet
  <2> QED BY <2>1, <2>2, <2>3 DEF EveryKeyAccounted
<1> QED BY <1>1, Invariance, PTL

(* A run creates no test twice, also when an answer is lost or when the    *)
(* server restarts, except its first: when Cloud made that one and still   *)
(* answered with errors, the try with fresh metadata may make it again, and*)
(* once only (create_each of batch.py; _create of cloud.py).               *)
THEOREM CreatedOnce == Spec => []NothingCreatedTwice
<1>1. ExportsInv => NothingCreatedTwice
  BY Zenon DEF ExportsInv, Issues, NothingCreatedTwice, First, FirstOf
<1> QED BY <1>1, Invariance, PTL

(* A button exports the version its user saw, however the draft changes    *)
(* meanwhile, and no Drive export is refused for its arguments: what the   *)
(* limits of a draft allow, those of an export accept (export_to_xray of   *)
(* facade.py; limits.py, twice).                                           *)
THEOREM ConfirmedVersion == Spec => []ExportsAsConfirmed
<1>1. ExportsInv => ExportsAsConfirmed
  BY DEF ExportsInv, Issues, Local, ExportsAsConfirmed
<1> QED BY <1>1, Invariance, PTL

-----------------------------------------------------------------------------
(* The judge: who was not observed is not judged, and the report is what   *)
(* the gate makes of the verdicts.                                         *)
VerdictTable == [Asks -> [Metrics -> Scores \cup {Lost}]]
JudgeInv ==
    /\ mode \in {"live", "fake"} /\ baseline \in Judge!Baselines /\ torn \in BOOLEAN
    /\ verdicts \in VerdictTable /\ observed \subseteq Asks
    /\ stage \in {"session", "observe", "judge"} => verdicts = Judge!NoVerdicts
    /\ stage = "start" => verdicts = Judge!NoVerdicts
    /\ \A c \in Asks \ observed, m \in Metrics : verdicts[c][m] = Lost
    /\ report = IF stage = "reported" THEN Judge!Gate(verdicts) ELSE Judge!NoReport

(* What an instance counts is what there is.                               *)
LEMMA JudgeCardinality == \A S : Judge!Cardinality(S) = Cardinality(S)
BY Zenon DEF Judge!Cardinality, Cardinality, Judge!IsFiniteSet, IsFiniteSet

LEMMA EvalCardinality == \A S : Eval!Cardinality(S) = Cardinality(S)
BY Zenon DEF Eval!Cardinality, Cardinality, Eval!IsFiniteSet, IsFiniteSet

LEMMA MeanIs ==
    ASSUME NEW v, NEW m, NEW bound
    PROVE  Judge!MeanAtLeast(v, m, bound) <=>
             Cardinality(Judge!Twentieths(v, m)) >= bound * Cardinality(Judge!Scored(v, m))
BY JudgeCardinality DEF Judge!MeanAtLeast, Judge!Sum

LEMMA RatesAre ==
    ASSUME NEW v, NEW m
    PROVE  /\ Judge!PassRateOk(v, m) <=>
                2 * Cardinality(Judge!Passes(v, m)) >= HalfPasses * Cardinality(Asks)
           /\ Judge!Majority(v, m) <=>
                Cardinality(Judge!Scored(v, m)) > Cardinality(Asks) \div 2
BY JudgeCardinality DEF Judge!PassRateOk, Judge!Majority, Judge!Eligible

LEMMA NoVerdictsIs ==
    /\ Judge!NoVerdicts \in VerdictTable
    /\ \A c \in Asks, m \in Metrics : Judge!NoVerdicts[c][m] = Lost
BY DEF VerdictTable, Judge!NoVerdicts, Judge!AllLost

LEMMA JudgeInductive ==
    /\ Judge!JudgeInit => JudgeInv
    /\ JudgeInv /\ [Judge!JudgeNext]_judgeVars => JudgeInv'
<1>1. ASSUME Judge!JudgeInit
      PROVE  JudgeInv
  BY <1>1, NoVerdictsIs DEF Judge!JudgeInit, JudgeInv
<1>2. ASSUME JudgeInv, Judge!StartJudge
      PROVE  JudgeInv'
  <2>1. /\ stage = "start" /\ stage' \in {"raised", "gate", "session", "skipped"}
        /\ UNCHANGED <<mode, baseline, observed, torn, verdicts, report>>
    BY <1>2 DEF Judge!StartJudge
  <2>. QED  BY <1>2, <2>1 DEF JudgeInv
<1>3. ASSUME JudgeInv, Judge!StartSession
      PROVE  JudgeInv'
  BY <1>3 DEF JudgeInv, Judge!StartSession
<1>4. ASSUME JudgeInv, Judge!Observe
      PROVE  JudgeInv'
  BY <1>4, NoVerdictsIs DEF JudgeInv, Judge!Observe
<1>5. ASSUME JudgeInv, Judge!ScoreCases
      PROVE  JudgeInv'
  <2>1. /\ stage = "judge" /\ stage' = "gate"
        /\ UNCHANGED <<mode, baseline, observed, torn, report>>
        /\ verdicts' \in VerdictTable
        /\ \A c \in Asks : c \notin observed => verdicts'[c] = Judge!AllLost
    BY <1>5 DEF Judge!ScoreCases, Judge!Verdicts, VerdictTable, Judge!JudgeCase
  <2>2. \A c \in Asks \ observed, m \in Metrics : verdicts'[c][m] = Lost
    BY <2>1 DEF Judge!AllLost
  <2>. QED  BY <1>5, <2>1, <2>2 DEF JudgeInv
<1>6. ASSUME JudgeInv, Judge!Report
      PROVE  JudgeInv'
  <2>1. Judge!Gate(verdicts)' = Judge!Gate(verdicts)
    BY <1>6 DEF Judge!Report, Judge!Gate, Judge!BaselineStatus, Judge!Compatible,
       Judge!Holds, Judge!MeanAtLeast
  <2>. QED  BY <1>6, <2>1 DEF JudgeInv, Judge!Report
<1>7. ASSUME JudgeInv, UNCHANGED judgeVars
      PROVE  JudgeInv'
  <2>1. Judge!Gate(verdicts)' = Judge!Gate(verdicts)
    BY <1>7 DEF judgeVars, Judge!Gate, Judge!BaselineStatus, Judge!Compatible,
       Judge!Holds, Judge!MeanAtLeast
  <2>. QED  BY <1>7, <2>1 DEF JudgeInv, judgeVars
<1>. QED  BY <1>1, <1>2, <1>3, <1>4, <1>5, <1>6, <1>7 DEF Judge!JudgeNext

(* A verdict that is the best one instead.                                 *)
Bettered(v, w, c, m) ==
    \A e \in Asks, n \in Metrics : w[e][n] = IF e = c /\ n = m THEN Best ELSE v[e][n]

LEMMA BestVerdict ==
    ASSUME NEW v \in VerdictTable, NEW c \in Asks, NEW m \in Metrics
    PROVE  /\ Bettered(v, [v EXCEPT ![c][m] = Best], c, m)
           /\ \A e \in Asks, n \in Metrics : v[e][n] \in Scores \cup {Lost}
BY DEF VerdictTable, Bettered

LEMMA ScoredWithBest ==
    ASSUME NEW v \in VerdictTable, NEW c \in Asks, NEW m \in Metrics, NEW n \in Metrics,
           NEW w, Bettered(v, w, c, m)
    PROVE  /\ Judge!Scored(w, n) = IF n = m THEN Judge!Scored(v, n) \cup {c}
                                  ELSE Judge!Scored(v, n)
           /\ Judge!Passes(v, n) \subseteq Judge!Passes(w, n)
           /\ n # m => Judge!Twentieths(w, n) = Judge!Twentieths(v, n)
           /\ IsFiniteSet(Judge!Scored(v, n)) /\ IsFiniteSet(Judge!Passes(w, n))
           /\ IsFiniteSet(Judge!Scored(w, n))
<1>1. /\ \A e \in Asks, k \in Metrics : w[e][k] = IF e = c /\ k = m THEN Best ELSE v[e][k]
      /\ \A e \in Asks, k \in Metrics : v[e][k] \in Scores \cup {Lost}
  BY BestVerdict DEF Bettered
<1>2. Best # Lost /\ Best >= Floor /\ Best \in Nat /\ Floor \in Nat
  BY EvaluationAssumption
<1>3. Judge!Scored(w, n) = IF n = m THEN Judge!Scored(v, n) \cup {c} ELSE Judge!Scored(v, n)
  BY <1>1, <1>2 DEF Judge!Scored
<1>4. Judge!Passes(v, n) \subseteq Judge!Passes(w, n)
  BY <1>1, <1>2 DEF Judge!Scored, Judge!Passes
<1>5. n # m => Judge!Twentieths(w, n) = Judge!Twentieths(v, n)
  BY <1>1, <1>3 DEF Judge!Scored, Judge!Twentieths
<1>6. /\ Judge!Scored(v, n) \subseteq Asks /\ Judge!Scored(w, n) \subseteq Asks
      /\ Judge!Passes(w, n) \subseteq Asks
  BY DEF Judge!Scored, Judge!Passes
<1>7. IsFiniteSet(Asks)
  BY EvaluationAssumption
<1>. QED  BY <1>3, <1>4, <1>5, <1>6, <1>7, FS_Subset

LEMMA MeanWithBest ==
    ASSUME NEW v \in VerdictTable, NEW c \in Asks, NEW m \in Metrics,
           NEW w, Bettered(v, w, c, m),
           NEW bound \in Int, bound <= Best, Judge!MeanAtLeast(v, m, bound)
    PROVE  Judge!MeanAtLeast(w, m, bound)
<1> DEFINE S == Judge!Scored(v, m)
           T == Judge!Twentieths(v, m)
           U == Judge!Twentieths(w, m)
<1>1. /\ \A e \in Asks, k \in Metrics : w[e][k] = IF e = c /\ k = m THEN Best ELSE v[e][k]
      /\ \A e \in Asks, k \in Metrics : v[e][k] \in Scores \cup {Lost}
  BY BestVerdict DEF Bettered
<1>2. /\ Judge!Scored(w, m) = S \cup {c} /\ IsFiniteSet(S) /\ S \subseteq Asks
  <2>1. Judge!Scored(w, m) = S \cup {c} /\ IsFiniteSet(S)
    <3>1. ASSUME NEW n \in Metrics, n = m
          PROVE  /\ Judge!Scored(w, n) = Judge!Scored(v, n) \cup {c}
                 /\ IsFiniteSet(Judge!Scored(v, n))
      BY <3>1, ScoredWithBest
    <3>. QED  BY <3>1
  <2>2. S \subseteq Asks
    BY DEF Judge!Scored
  <2>. QED  BY <2>1, <2>2
<1>3. Best \in Nat \ {0} /\ IsFiniteSet(1..Best) /\ Cardinality(1..Best) = Best
  <2>1. Best \in Int /\ 1 \in Int /\ Best >= 1
    BY EvaluationAssumption
  <2>2. IsFiniteSet(1..Best) /\ Cardinality(1..Best) = IF 1 > Best THEN 0 ELSE Best - 1 + 1
    BY <2>1, FS_Interval
  <2>. QED  BY <2>1, <2>2
<1>4. /\ T \subseteq S \X (1..Best) /\ U \subseteq (S \cup {c}) \X (1..Best)
  BY <1>2 DEF Judge!Twentieths
<1>5. IsFiniteSet(S \cup {c})
  BY <1>2, FS_AddElement
<1>6. IsFiniteSet(T) /\ IsFiniteSet(U)
  <2>1. IsFiniteSet(S \X (1..Best)) /\ IsFiniteSet((S \cup {c}) \X (1..Best))
    BY <1>2, <1>3, <1>5, FS_Product
  <2>. QED  BY <1>4, <2>1, FS_Subset
<1>7. /\ Cardinality(S) \in Nat /\ Cardinality(T) \in Nat /\ Cardinality(U) \in Nat
  BY <1>2, <1>6, FS_CardinalityType
<1>8. Cardinality(T) >= bound * Cardinality(S)
  BY MeanIs
<1>9. \A p \in T : p \in U
  <2>1. ASSUME NEW p \in T
        PROVE  p \in U
    <3>1. /\ p[1] \in S /\ p[2] \in 1..Best /\ p[2] <= v[p[1]][m]
          /\ p \in S \X (1..Best)
      BY DEF Judge!Twentieths
    <3>2. p[2] <= w[p[1]][m]
      BY <1>1, <1>2, <1>3, <3>1
    <3>. QED  BY <1>2, <3>1, <3>2 DEF Judge!Twentieths
  <2>. QED  BY <2>1
<1>10. CASE c \in S
  <2>1. Judge!Scored(w, m) = S
    BY <1>2, <1>10
  <2>2. Cardinality(U) >= Cardinality(T)
    <3> HIDE DEF T, U
    <3>1. T \in SUBSET U
      BY <1>9
    <3>. QED  BY <1>6, <1>7, <3>1, FS_Subset
  <2>3. Cardinality(U) >= bound * Cardinality(S)
    <3> DEFINE x == bound * Cardinality(S)
    <3>1. x \in Int /\ Cardinality(T) >= x
      BY <1>7, <1>8
    <3> HIDE DEF x
    <3>2. Cardinality(U) >= x
      BY <1>7, <2>2, <3>1
    <3>. QED  BY <3>2 DEF x
  <2>. QED  BY <2>1, <2>3, MeanIs
<1>11. CASE c \notin S
  <2> DEFINE N == {c} \X (1..Best)
  <2>1. IsFiniteSet(N) /\ Cardinality(N) = Best
    <3>1. IsFiniteSet({c}) /\ Cardinality({c}) = 1
      BY FS_Singleton
    <3>2. IsFiniteSet(N) /\ Cardinality(N) = Cardinality({c}) * Cardinality(1..Best)
      BY <1>3, <3>1, FS_Product
    <3>. QED  BY <1>3, <3>1, <3>2
  <2>2. N \cap T = {}
    BY <1>11 DEF Judge!Twentieths
  <2>3. N \subseteq U
    <3>1. ASSUME NEW p \in N
          PROVE  p \in U
      <4>1. p[1] = c /\ p[2] \in 1..Best /\ p \in (S \cup {c}) \X (1..Best)
        OBVIOUS
      <4>2. w[p[1]][m] = Best
        BY <1>1, <4>1
      <4>3. p \in Judge!Scored(w, m) \X (1..Best) /\ p[2] <= w[p[1]][m]
        <5>1. p[2] <= Best
          BY <1>3, <4>1
        <5>. QED  BY <1>2, <4>1, <4>2, <5>1
      <4>. QED  BY <4>3 DEF Judge!Twentieths
    <3>. QED  BY <3>1
  <2>4. Cardinality(T \cup N) = Cardinality(T) + Best
    <3> HIDE DEF T, N
    <3>1. Cardinality(T \cap N) = 0
      BY <2>2, FS_EmptySet
    <3>2. Cardinality(T \cup N) = Cardinality(T) + Cardinality(N) - Cardinality(T \cap N)
      BY <1>6, <2>1, FS_Union
    <3>. QED  BY <1>3, <1>7, <2>1, <3>1, <3>2
  <2>5. Cardinality(U) >= Cardinality(T) + Best
    <3> HIDE DEF T, U, N
    <3>1. T \cup N \in SUBSET U
      BY <1>9, <2>3
    <3>. QED  BY <1>6, <1>7, <2>4, <3>1, FS_Subset
  <2>6. Cardinality(S \cup {c}) = Cardinality(S) + 1
    BY <1>2, <1>11, FS_AddElement
  <2>7. Cardinality(U) >= bound * (Cardinality(S) + 1)
    <3> DEFINE x == bound * Cardinality(S)
    <3>1. x \in Int /\ Cardinality(T) >= x /\ bound * (Cardinality(S) + 1) = x + bound
      BY <1>7, <1>8
    <3> HIDE DEF x
    <3>2. Cardinality(U) >= x + bound
      BY <1>3, <1>7, <2>5, <3>1
    <3>. QED  BY <3>1, <3>2
  <2>. QED  BY <1>2, <2>6, <2>7, MeanIs
<1>. QED  BY <1>10, <1>11

LEMMA HoldsWithBest ==
    ASSUME NEW v \in VerdictTable, NEW c \in Asks, NEW m \in Metrics,
           NEW w, Bettered(v, w, c, m), baseline \in Judge!Baselines, Judge!Holds(v)
    PROVE  Judge!Holds(w)
<1>1. Judge!Covered(v) /\ ~torn
  BY DEF Judge!Holds
<1>2. \A n \in Metrics :
        /\ Judge!Scored(v, n) # {} /\ Judge!Majority(v, n)
        /\ Judge!MeanAtLeast(v, n, Floor) /\ Judge!PassRateOk(v, n)
        /\ Judge!MeanAtLeast(v, n, baseline.mean - Drop)
  BY DEF Judge!Holds
<1>3. \A n \in Metrics : Judge!Scored(v, n) \subseteq Judge!Scored(w, n)
  <2>1. ASSUME NEW n \in Metrics
        PROVE  Judge!Scored(v, n) \subseteq Judge!Scored(w, n)
    <3>1. Judge!Scored(w, n) = IF n = m THEN Judge!Scored(v, n) \cup {c}
                              ELSE Judge!Scored(v, n)
      BY ScoredWithBest
    <3>. QED  BY <3>1
  <2>. QED  BY <2>1
<1>4. Judge!Covered(w)
  <2> DEFINE old == UNION {Judge!Scored(v, n) : n \in Metrics}
             new == UNION {Judge!Scored(w, n) : n \in Metrics}
  <2>1. old \subseteq new
    BY <1>3
  <2>2. RequiredClasses \subseteq {ClassOf[e] : e \in old} /\ RequiredSlice \in {SliceOf[e] : e \in old}
    BY <1>1 DEF Judge!Covered
  <2>3. RequiredClasses \subseteq {ClassOf[e] : e \in new} /\ RequiredSlice \in {SliceOf[e] : e \in new}
    <3> HIDE DEF old, new
    <3>. QED  BY <2>1, <2>2
  <2>. QED  BY <2>3 DEF Judge!Covered
<1>5. Floor \in Int /\ Floor <= Best
  BY EvaluationAssumption
<1>6. baseline.mean - Drop \in Int /\ baseline.mean - Drop <= Best
  <2>1. baseline.mean \in Means \cup {0}
    BY DEF Judge!Baselines, Judge!Baseline, Judge!Missing
  <2>2. Best \in Nat /\ Drop \in Nat /\ \A x \in Means \cup {0} : x \in Nat /\ x <= Best
    BY EvaluationAssumption
  <2>3. baseline.mean \in Nat /\ baseline.mean <= Best
    BY <2>1, <2>2
  <2> HIDE <2>1
  <2>. QED  BY <2>2, <2>3
<1>7. ASSUME NEW n \in Metrics
      PROVE  /\ Judge!Scored(w, n) # {} /\ Judge!Majority(w, n)
             /\ Judge!MeanAtLeast(w, n, Floor) /\ Judge!PassRateOk(w, n)
             /\ Judge!MeanAtLeast(w, n, baseline.mean - Drop)
  <2>1. /\ Judge!Passes(v, n) \subseteq Judge!Passes(w, n)
        /\ n # m => Judge!Twentieths(w, n) = Judge!Twentieths(v, n)
        /\ n # m => Judge!Scored(w, n) = Judge!Scored(v, n)
        /\ IsFiniteSet(Judge!Scored(v, n)) /\ IsFiniteSet(Judge!Passes(w, n))
        /\ IsFiniteSet(Judge!Scored(w, n))
    BY ScoredWithBest
  <2>2. /\ Judge!Scored(v, n) \in SUBSET Judge!Scored(w, n)
        /\ Judge!Passes(v, n) \in SUBSET Judge!Passes(w, n)
    BY <1>3, <2>1
  <2>3. /\ Cardinality(Judge!Scored(v, n)) \in Nat /\ Cardinality(Judge!Scored(w, n)) \in Nat
        /\ Cardinality(Judge!Scored(v, n)) <= Cardinality(Judge!Scored(w, n))
    BY <2>1, <2>2, FS_Subset, FS_CardinalityType
  <2>4. /\ Cardinality(Judge!Passes(v, n)) \in Nat /\ Cardinality(Judge!Passes(w, n)) \in Nat
        /\ Cardinality(Judge!Passes(v, n)) <= Cardinality(Judge!Passes(w, n))
    BY <2>1, <2>2, FS_Subset, FS_CardinalityType
  <2>5. Cardinality(Asks) \in Nat /\ HalfPasses \in Nat
    BY EvaluationAssumption, FS_CardinalityType
  <2>6. Judge!Scored(w, n) # {} /\ Judge!Majority(w, n)
    <3>1. Cardinality(Judge!Scored(v, n)) > Cardinality(Asks) \div 2
      BY <1>2, RatesAre
    <3> DEFINE half == Cardinality(Asks) \div 2
    <3>2. half \in Int
      BY <2>5
    <3> HIDE DEF half
    <3>3. Cardinality(Judge!Scored(w, n)) > half
      BY <2>3, <3>1, <3>2 DEF half
    <3>. QED  BY <1>2, <2>2, <3>3, RatesAre DEF half
  <2>7. Judge!PassRateOk(w, n)
    <3> DEFINE need == HalfPasses * Cardinality(Asks)
    <3>1. need \in Int
      BY <2>5
    <3>2. 2 * Cardinality(Judge!Passes(v, n)) >= need
      BY <1>2, RatesAre
    <3> HIDE DEF need
    <3>3. 2 * Cardinality(Judge!Passes(w, n)) >= need
      BY <2>4, <3>1, <3>2
    <3>. QED  BY <3>3, RatesAre DEF need
  <2>8. ASSUME NEW bound \in Int, bound <= Best, Judge!MeanAtLeast(v, n, bound)
        PROVE  Judge!MeanAtLeast(w, n, bound)
    <3>1. CASE n = m
      <4>1. Judge!MeanAtLeast(v, m, bound)
        BY <2>8, <3>1
      <4>2. Judge!MeanAtLeast(w, m, bound)
        BY <2>8, <4>1, MeanWithBest
      <4>. QED  BY <3>1, <4>2
    <3>2. CASE n # m
      BY <2>1, <2>8, <3>2, MeanIs
    <3>. QED  BY <3>1, <3>2
  <2>. QED  BY <1>2, <1>5, <1>6, <2>6, <2>7, <2>8
<1>. QED  BY <1>1, <1>4, <1>7 DEF Judge!Holds

LEMMA JudgePasses == JudgeInv => Judge!JudgedOnEvidence
<1> SUFFICES ASSUME JudgeInv, report.passed
             PROVE  Judge!JudgedOnEvidence
  BY DEF Judge!JudgedOnEvidence
<1>1. /\ mode = "live" /\ Judge!BaselineStatus = "compared" /\ Judge!Holds(verdicts)
      /\ verdicts \in VerdictTable /\ baseline \in Judge!Baselines
  BY DEF JudgeInv, Judge!Gate, Judge!NoReport, Judge!ReportOf
<1>2. baseline.accepted /\ baseline.same /\ ~torn
  BY <1>1 DEF Judge!BaselineStatus, Judge!Compatible, Judge!Holds
<1>3. ASSUME NEW m \in Metrics
      PROVE  2 * Judge!Cardinality({c \in Asks : verdicts[c][m] # Lost /\ verdicts[c][m] >= Floor})
               >= Judge!Cardinality(Asks)
  <2> DEFINE P == Judge!Passes(verdicts, m)
  <2>1. P = {c \in Asks : verdicts[c][m] # Lost /\ verdicts[c][m] >= Floor}
    BY DEF Judge!Passes, Judge!Scored
  <2>2. 2 * Cardinality(P) >= HalfPasses * Cardinality(Asks)
    BY <1>1, RatesAre DEF Judge!Holds
  <2>3. HalfPasses \in Nat \ {0} /\ Cardinality(Asks) \in Nat /\ Cardinality(P) \in Nat
    <3>1. IsFiniteSet(Asks) /\ P \subseteq Asks
      BY <2>1, EvaluationAssumption
    <3>2. IsFiniteSet(P)
      BY <3>1, FS_Subset
    <3>. QED  BY <3>1, <3>2, EvaluationAssumption, FS_CardinalityType
  <2>4. 2 * Cardinality(P) >= Cardinality(Asks)
    <3> HIDE DEF P
    <3>1. \A h \in Nat \ {0}, n \in Nat : h * n >= n
      OBVIOUS
    <3> DEFINE need == HalfPasses * Cardinality(Asks)
    <3>2. need \in Int /\ need >= Cardinality(Asks)
      BY <2>3, <3>1
    <3>3. 2 * Cardinality(P) >= need
      BY <2>2
    <3> HIDE DEF need
    <3>. QED  BY <2>3, <3>2, <3>3
  <2>. QED  BY <2>1, <2>4, JudgeCardinality
<1>4. ASSUME NEW class \in RequiredClasses
      PROVE  \E c \in observed : ClassOf[c] = class
  <2>1. \E c \in UNION {Judge!Scored(verdicts, m) : m \in Metrics} : ClassOf[c] = class
    BY <1>1 DEF Judge!Holds, Judge!Covered
  <2>2. PICK m \in Metrics, c \in UNION {Judge!Scored(verdicts, n) : n \in Metrics} :
          c \in Judge!Scored(verdicts, m) /\ ClassOf[c] = class
    BY <2>1
  <2>3. c \in observed
    BY <2>2 DEF JudgeInv, Judge!Scored
  <2>. QED  BY <2>2, <2>3
<1>5. ASSUME NEW c \in Asks, NEW m \in Metrics
      PROVE  (Judge!Gate([verdicts EXCEPT ![c][m] = Best])).passed
  <2> DEFINE w == [verdicts EXCEPT ![c][m] = Best]
  <2>1. Bettered(verdicts, w, c, m)
    BY <1>1, BestVerdict
  <2> HIDE DEF w
  <2>2. Judge!Holds(w)
    BY <1>1, <2>1, HoldsWithBest
  <2>3. (Judge!Gate(w)).passed
    BY <1>1, <2>2 DEF Judge!Gate, Judge!ReportOf
  <2>. QED  BY <2>3 DEF w
<1>. QED  BY <1>1, <1>2, <1>3, <1>4, <1>5 DEF Judge!JudgedOnEvidence

-----------------------------------------------------------------------------
(* The suite: every case that is over has a result of its own, one that    *)
(* was answered badly a failing one, and only a run that put every case    *)
(* ends with zero.                                                         *)
Results == [status : {"pass", "fail", "skip"}, scored : BOOLEAN]
Fits(i) == results[i].status # "fail" => (results[i].scored <=> suite[i].sources # {})
EvalInv ==
    /\ suite \in Suites /\ asked \in {"off", "fake", "live"}
    /\ results \in Seq(Results) /\ Len(results) <= Len(suite)
    /\ step \in {"start", "run", "answer", "judge", "over"}
    /\ step \in {"run", "answer", "judge"} => Eval!ValidSuite
    /\ step # "over" => code = -1
    /\ step = "answer" => Len(results) < Len(suite)
    /\ step = "judge" => Len(results) = Len(suite)
    /\ flawed \subseteq {i \in 1..Len(results) : results[i].status = "fail"}
    /\ \A i \in 1..Len(results) : Fits(i)
    /\ code = 0 => /\ step = "over" /\ Len(results) = Len(suite) /\ Eval!OfflineCode = 0
                   /\ asked # "off" => asked = "live" /\ judged = "passed"

LEMMA SuiteIs ==
    ASSUME suite \in Suites
    PROVE  /\ suite \in Seq(Range(suite)) /\ Len(suite) \in Nat /\ DOMAIN suite = 1..Len(suite)
           /\ \A i \in 1..Len(suite) : suite[i].k \in Nat
BY EvaluationAssumption

LEMMA CaseOver ==
    ASSUME EvalInv, step \in {"run", "answer"}, Len(results) < Len(suite),
           NEW result \in Results, NEW sound \in BOOLEAN,
           sound \/ result.status = "fail",
           result.status # "fail" => (result.scored <=> Eval!Case.sources # {}),
           Eval!Over(result, sound), step' = "run"
    PROVE  EvalInv'
<1> DEFINE n == Len(results) + 1
<1>1. /\ results' = Append(results, result) /\ suite' = suite /\ asked' = asked
      /\ judged' = judged /\ code' = code
      /\ flawed' = flawed \cup (IF sound THEN {} ELSE {n})
  BY DEF Eval!Over
<1>2. /\ results \in Seq(Results) /\ suite \in Suites /\ Len(results) \in Nat
      /\ asked \in {"off", "fake", "live"} /\ code = -1 /\ Eval!ValidSuite
  BY DEF EvalInv
<1>3. Len(suite) \in Nat
  BY <1>2, SuiteIs
<1>4. /\ results' \in Seq(Results) /\ Len(results') = n
      /\ \A i \in 1..n : results'[i] = IF i = n THEN result ELSE results[i]
  BY <1>1, <1>2
<1>5. \A i \in 1..n : Fits(i)'
  <2>1. ASSUME NEW i \in 1..n
        PROVE  Fits(i)'
    <3>1. CASE i = n
      <4>1. Eval!Case = suite[n]
        BY DEF Eval!Case
      <4>2. results'[i] = result /\ suite'[i] = Eval!Case
        BY <1>1, <1>4, <3>1, <4>1
      <4>. QED  BY <4>2 DEF Fits
    <3>2. CASE i # n
      <4>1. i \in 1..Len(results) /\ results'[i] = results[i]
        BY <1>2, <1>4, <3>2
      <4>2. Fits(i)
        BY <4>1 DEF EvalInv
      <4>. QED  BY <1>1, <4>1, <4>2 DEF Fits
    <3>. QED  BY <3>1, <3>2
  <2>. QED  BY <2>1
<1>6. flawed' \subseteq {i \in 1..n : results'[i].status = "fail"}
  <2>1. flawed \subseteq {i \in 1..n : results'[i].status = "fail"}
    BY <1>2, <1>4 DEF EvalInv
  <2>2. ~sound => n \in 1..n /\ results'[n].status = "fail"
    BY <1>2, <1>4
  <2>. QED  BY <1>1, <2>1, <2>2
<1>7. Eval!ValidSuite'
  BY <1>1, <1>2 DEF Eval!ValidSuite
<1>8. n <= Len(suite)
  BY <1>2, <1>3
<1>. QED  BY <1>1, <1>2, <1>4, <1>5, <1>6, <1>7, <1>8 DEF EvalInv

LEMMA DueCase ==
    ASSUME EvalInv, step \in {"run", "answer"}, Len(results) < Len(suite)
    PROVE  Eval!ValidCase(Eval!Case) /\ Eval!Case.k \in Nat
<1>1. Len(results) + 1 \in 1..Len(suite)
  <2>1. Len(suite) \in Nat /\ Len(results) \in Nat
    BY SuiteIs DEF EvalInv
  <2>. QED  BY <2>1
<1>. QED  BY <1>1, SuiteIs DEF EvalInv, Eval!ValidSuite, Eval!Case

LEMMA PassedIs ==
    ASSUME EvalInv, step \in {"run", "answer"}, Len(results) < Len(suite), NEW ok \in BOOLEAN
    PROVE  /\ Eval!Passed(ok) \in Results
           /\ Eval!Passed(ok).status = "fail" <=> ~ok
           /\ Eval!Passed(ok).scored <=> Eval!Case.sources # {}
BY DueCase DEF Eval!Passed, Eval!Result, Results, Eval!ValidCase

LEMMA RaisedIs == Eval!Raised \in Results /\ Eval!Raised.status = "fail"
BY DEF Eval!Raised, Eval!Result, Results

(* What is among the first k hits stands at one of their places.           *)
LEMMA TopIs ==
    ASSUME NEW hits \in Eval!Rankings, NEW k \in Nat, NEW x \in Eval!SourcesOf(Eval!Top(hits, k))
    PROVE  \E i \in DOMAIN hits : i <= k /\ hits[i][1] = x
<1> DEFINE n == IF k < Len(hits) THEN k ELSE Len(hits)
<1>1. hits \in Seq(Chunks) /\ Len(hits) \in Nat /\ DOMAIN hits = 1..Len(hits)
  BY EvaluationAssumption DEF Eval!Rankings
<1>2. n \in 0..Len(hits) /\ n <= k
  BY <1>1
<1>3. /\ DOMAIN SubSeq(hits, 1, n) = 1..n
      /\ \A i \in 1..n : SubSeq(hits, 1, n)[i] = hits[i]
  <2> HIDE DEF n
  <2>. QED  BY <1>1, <1>2
<1>4. Eval!Top(hits, k) = SubSeq(hits, 1, n)
  BY DEF Eval!Top
<1>5. PICK h \in Eval!Range(SubSeq(hits, 1, n)) : h[1] = x
  <2> HIDE DEF n
  <2>. QED  BY <1>4 DEF Eval!SourcesOf
<1>6. PICK i \in 1..n : h = hits[i]
  <2> HIDE DEF n
  <2>. QED  BY <1>3, <1>5 DEF Eval!Range
<1>7. i \in DOMAIN hits /\ i <= k
  BY <1>1, <1>2, <1>6
<1>. QED  BY <1>5, <1>6, <1>7

LEMMA RetrieveKeeps ==
    ASSUME EvalInv, Eval!RunRetrieve
    PROVE  EvalInv'
<1>1. PICK hits \in Eval!Rankings :
        LET found == {c \in Eval!Case.sources :
                        \E i \in DOMAIN hits : i <= Eval!Case.k /\ hits[i][1] = c}
        IN  Eval!Over(Eval!Passed(Eval!RetrievedWell(Eval!Case, Eval!Top(hits, Eval!Case.k))),
                      IF Eval!Case.class = "cross_source" THEN found = Eval!Case.sources
                      ELSE found # {})
  BY DEF Eval!RunRetrieve
<1> DEFINE top == Eval!SourcesOf(Eval!Top(hits, Eval!Case.k))
           found == {c \in Eval!Case.sources :
                       \E i \in DOMAIN hits : i <= Eval!Case.k /\ hits[i][1] = c}
           ok == Eval!RetrievedWell(Eval!Case, Eval!Top(hits, Eval!Case.k))
           sound == IF Eval!Case.class = "cross_source" THEN found = Eval!Case.sources
                    ELSE found # {}
<1>2. step = "run" /\ step' = "run" /\ Len(results) < Len(suite)
  BY DEF Eval!RunRetrieve, Eval!Due
<1>3. Eval!Case.k \in Nat
  BY <1>2, DueCase
<1>4. \A x \in top : \E i \in DOMAIN hits : i <= Eval!Case.k /\ hits[i][1] = x
  <2>1. ASSUME NEW x \in top
        PROVE  \E i \in DOMAIN hits : i <= Eval!Case.k /\ hits[i][1] = x
    BY <1>3, TopIs
  <2>. QED  BY <2>1
<1>5. Eval!Case.sources \cap top \subseteq found
  <2> HIDE DEF top
  <2>. QED  BY <1>4
<1>6. ok => sound
  <2>1. ok <=> IF Eval!Case.class = "cross_source" THEN Eval!Case.sources \subseteq top
               ELSE Eval!Case.sources \cap top # {}
    BY DEF Eval!RetrievedWell
  <2>2. found \subseteq Eval!Case.sources
    OBVIOUS
  <2> HIDE DEF ok, top, found
  <2>. QED  BY <1>5, <2>1, <2>2
<1>7. ok \in BOOLEAN /\ sound \in BOOLEAN
  BY DEF Eval!RetrievedWell
<1>8. Eval!Over(Eval!Passed(ok), sound)
  BY <1>1
<1> HIDE DEF ok, sound
<1>9. /\ Eval!Passed(ok) \in Results
      /\ Eval!Passed(ok).status = "fail" <=> ~ok
      /\ Eval!Passed(ok).scored <=> Eval!Case.sources # {}
  BY <1>2, <1>7, PassedIs
<1> DEFINE result == Eval!Passed(ok)
<1>10. /\ result \in Results /\ (sound \/ result.status = "fail")
       /\ result.status # "fail" => (result.scored <=> Eval!Case.sources # {})
       /\ Eval!Over(result, sound)
  BY <1>6, <1>8, <1>9
<1> HIDE DEF result
<1>. QED  BY <1>2, <1>7, <1>10, CaseOver

LEMMA PackOffKeeps ==
    ASSUME EvalInv, Eval!RunPackOff
    PROVE  EvalInv'
<1>1. PICK path \in {"rag", "tools", "none"}, pack \in BOOLEAN, output \in BOOLEAN :
        Eval!Over(Eval!Passed(~output /\ path = "rag" /\ ~pack), path = "rag" /\ ~pack /\ ~output)
  BY DEF Eval!RunPackOff
<1> DEFINE ok == ~output /\ path = "rag" /\ ~pack
           sound == path = "rag" /\ ~pack /\ ~output
<1>2. step = "run" /\ step' = "run" /\ Len(results) < Len(suite)
  BY DEF Eval!RunPackOff, Eval!Due
<1>3. ok \in BOOLEAN /\ sound \in BOOLEAN /\ (ok => sound) /\ Eval!Over(Eval!Passed(ok), sound)
  BY <1>1
<1> HIDE DEF ok, sound
<1>4. /\ Eval!Passed(ok) \in Results
      /\ Eval!Passed(ok).status = "fail" <=> ~ok
      /\ Eval!Passed(ok).scored <=> Eval!Case.sources # {}
  BY <1>2, <1>3, PassedIs
<1>. QED  BY <1>2, <1>3, <1>4, CaseOver

LEMMA InvokeKeeps ==
    ASSUME EvalInv, Eval!RunInvoke
    PROVE  EvalInv'
<1>1. step = "run" /\ step' = "run" /\ Len(results) < Len(suite)
  BY DEF Eval!RunInvoke, Eval!Due
<1>2. CASE ToolsWired
  <2>1. PICK answer \in {"text", "other tool", "subset", "differs"} :
          Eval!Over(Eval!Passed(answer = "subset"), answer = "subset")
    BY <1>2 DEF Eval!RunInvoke
  <2> DEFINE ok == answer = "subset"
  <2>2. ok \in BOOLEAN /\ Eval!Over(Eval!Passed(ok), ok)
    BY <2>1
  <2> HIDE DEF ok
  <2>3. /\ Eval!Passed(ok) \in Results
        /\ Eval!Passed(ok).status = "fail" <=> ~ok
        /\ Eval!Passed(ok).scored <=> Eval!Case.sources # {}
    BY <1>1, <2>2, PassedIs
  <2>. QED  BY <1>1, <2>2, <2>3, CaseOver
<1>3. CASE ~ToolsWired
  <2>1. Eval!Over(Eval!Skipped, TRUE) /\ Eval!Case.kind = "invoke_tool"
    BY <1>3 DEF Eval!RunInvoke, Eval!Due
  <2>2. Eval!Skipped \in Results /\ Eval!Skipped.status = "skip" /\ Eval!Skipped.scored = FALSE
    BY DEF Eval!Skipped, Eval!Result, Results
  <2>3. Eval!Case.sources = {}
    BY <1>1, <2>1, DueCase DEF Eval!ValidCase
  <2>. QED  BY <1>1, <2>1, <2>2, <2>3, CaseOver
<1>. QED  BY <1>2, <1>3

(* An answer that passes its checks is one of its own retrieval.           *)
LEMMA ChecksAreSound ==
    ASSUME NEW r \in Eval!Responses, Eval!Intact(recorder, r),
           Eval!AskChecks(Eval!Case, r)
    PROVE  Eval!Sound(Eval!Case, recorder[Len(recorder)], r)
<1> DEFINE c == Eval!Case
           hits == recorder[1]
<1>1. Len(recorder) = 1
  BY DEF Eval!Intact
<1>2. CASE c.mode = "insufficient"
  BY <1>2 DEF Eval!AskChecks, Eval!Sound
<1>3. CASE c.mode # "insufficient"
  <2>1. /\ ~r.insufficient /\ Eval!CitationChecks(c, r)
        /\ c.class = "conflicting" => c.sources \subseteq {cite[1] : cite \in r.cites}
    BY <1>3 DEF Eval!AskChecks
  <2>2. Eval!Range(r.generation) \subseteq Eval!Range(hits)
    BY <2>1 DEF Eval!Intact
  <2>3. ASSUME NEW cite \in r.cites
        PROVE  \E i \in DOMAIN hits : hits[i][1] = cite[1] /\ cite[2] \in {hits[i][2], -1}
    <3>1. cite \in Eval!Range(r.generation) \cup (Eval!SourcesOf(r.generation) \X {-1})
      BY <2>1, <2>3 DEF Eval!CitationChecks, Eval!Names, Eval!NoIndex
    <3>2. CASE cite \in Eval!Range(r.generation)
      <4>1. cite \in Eval!Range(hits)
        BY <2>2, <3>2
      <4>2. PICK i \in DOMAIN hits : cite = hits[i]
        BY <4>1 DEF Eval!Range
      <4>. QED  BY <4>2
    <3>3. CASE cite \in Eval!SourcesOf(r.generation) \X {-1}
      <4>1. cite[1] \in Eval!SourcesOf(r.generation) /\ cite[2] = -1
        BY <3>3
      <4>2. PICK h \in Eval!Range(r.generation) : h[1] = cite[1]
        BY <4>1 DEF Eval!SourcesOf
      <4>3. PICK i \in DOMAIN hits : h = hits[i]
        BY <2>2, <4>2 DEF Eval!Range
      <4>. QED  BY <4>1, <4>2, <4>3
    <3>. QED  BY <3>1, <3>2, <3>3
  <2>4. ASSUME NEW source \in {label[1] : label \in c.gold}
        PROVE  \E cite \in r.cites : cite[1] = source
    <3>1. PICK label \in c.gold : source = label[1]
      BY <2>4
    <3>2. PICK cite \in r.cites : Eval!Matches(label, cite)
      BY <2>1, <3>1 DEF Eval!CitationChecks
    <3>. QED  BY <3>1, <3>2 DEF Eval!Matches
  <2>5. c.class = "conflicting" =>
          \A source \in c.sources : \E cite \in r.cites : cite[1] = source
    BY <2>1
  <2> HIDE DEF c
  <2>. QED  BY <1>1, <1>3, <2>1, <2>3, <2>4, <2>5 DEF Eval!Sound, Eval!NoIndex, c
<1>. QED  BY <1>2, <1>3

LEMMA AnswerKeeps ==
    ASSUME EvalInv, Eval!Answer
    PROVE  EvalInv'
<1>1. PICK r \in Eval!Responses :
        IF Eval!Intact(recorder, r)
        THEN Eval!Over(Eval!Passed(Eval!AskChecks(Eval!Case, r)),
                       Eval!Sound(Eval!Case, recorder[Len(recorder)], r))
        ELSE Eval!Over(Eval!Raised, Eval!Sound(Eval!Case, recorder[Len(recorder)], r))
  <2>1. PICK end \in {Eval!Observed(r) : r \in Eval!Responses} :
          Eval!Over(end.result, end.sound)
    BY DEF Eval!Answer
  <2>2. PICK r \in Eval!Responses : end = Eval!Observed(r)
    BY <2>1
  <2>. QED  BY <2>1, <2>2 DEF Eval!Observed
<1> DEFINE ok == Eval!AskChecks(Eval!Case, r)
           sound == Eval!Sound(Eval!Case, recorder[Len(recorder)], r)
<1>2. step = "answer" /\ step' = "run" /\ Len(results) < Len(suite)
  BY DEF Eval!Answer, EvalInv
<1>3. ok \in BOOLEAN /\ sound \in BOOLEAN
  <2>1. r.insufficient \in BOOLEAN
    BY DEF Eval!Responses
  <2>. QED  BY <2>1 DEF Eval!AskChecks, Eval!Sound
<1>4. CASE Eval!Intact(recorder, r)
  <2>1. ok => sound
    BY <1>4, ChecksAreSound
  <2>2. Eval!Over(Eval!Passed(ok), sound)
    BY <1>1, <1>4
  <2> HIDE DEF ok, sound
  <2>3. /\ Eval!Passed(ok) \in Results
        /\ Eval!Passed(ok).status = "fail" <=> ~ok
        /\ Eval!Passed(ok).scored <=> Eval!Case.sources # {}
    BY <1>2, <1>3, PassedIs
  <2> DEFINE result == Eval!Passed(ok)
  <2>4. /\ result \in Results /\ (sound \/ result.status = "fail")
        /\ result.status # "fail" => (result.scored <=> Eval!Case.sources # {})
        /\ Eval!Over(result, sound)
    BY <2>1, <2>2, <2>3
  <2> HIDE DEF result
  <2>. QED  BY <1>2, <1>3, <2>4, CaseOver
<1>5. CASE ~Eval!Intact(recorder, r)
  <2>1. Eval!Over(Eval!Raised, sound)
    BY <1>1, <1>5
  <2> HIDE DEF sound
  <2>. QED  BY <1>2, <1>3, <2>1, RaisedIs, CaseOver
<1>. QED  BY <1>4, <1>5

LEMMA RaisesKeeps ==
    ASSUME EvalInv, Eval!CaseRaises
    PROVE  EvalInv'
BY RaisedIs, CaseOver DEF Eval!CaseRaises

LEMMA OfflineKept ==
    ASSUME results' = results, suite' = suite
    PROVE  Eval!OfflineCode' = Eval!OfflineCode
BY DEF Eval!OfflineCode, Eval!Count, Eval!Unmet, Eval!Exercised, Eval!Cardinality, Eval!IsFiniteSet

LEMMA EvalInductive ==
    /\ Eval!InitEval => EvalInv
    /\ EvalInv /\ [Eval!EvalNext]_evalVars => EvalInv'
<1>1. ASSUME Eval!InitEval
      PROVE  EvalInv
  <2>1. Len(suite) \in Nat
    BY <1>1, SuiteIs DEF Eval!InitEval
  <2>. QED  BY <1>1, <2>1 DEF Eval!InitEval, EvalInv
<1>2. ASSUME EvalInv, Eval!Load
      PROVE  EvalInv'
  <2>1. /\ UNCHANGED <<suite, asked, results, flawed, judged>>
        /\ \/ step' = "run" /\ code' = code /\ Eval!ValidSuite
           \/ step' = "over" /\ code' = 2
        /\ step = "start"
    BY <1>2 DEF Eval!Load
  <2>2. Eval!ValidSuite' <=> Eval!ValidSuite
    BY <2>1 DEF Eval!ValidSuite
  <2>. QED  BY <1>2, <2>1, <2>2 DEF EvalInv, Fits
<1>3. ASSUME EvalInv, Eval!StartAsk
      PROVE  EvalInv'
  <2>1. /\ UNCHANGED <<suite, asked, results, flawed, judged, code>>
        /\ step = "run" /\ step' = "answer" /\ Len(results) < Len(suite)
    BY <1>3 DEF Eval!StartAsk, Eval!Due
  <2>2. Eval!ValidSuite' <=> Eval!ValidSuite
    BY <2>1 DEF Eval!ValidSuite
  <2>. QED  BY <1>3, <2>1, <2>2 DEF EvalInv, Fits
<1>4. ASSUME EvalInv, Eval!Finish
      PROVE  EvalInv'
  <2>1. PICK written \in BOOLEAN :
          /\ step' = IF written /\ asked # "off" THEN "judge" ELSE "over"
          /\ code' = IF ~written THEN 1 ELSE IF asked = "off" THEN Eval!OfflineCode ELSE code
    BY <1>4 DEF Eval!Finish
  <2>2. /\ UNCHANGED <<suite, asked, results, flawed, judged>>
        /\ step = "run" /\ Len(results) = Len(suite)
    BY <1>4 DEF Eval!Finish
  <2>3. (Eval!ValidSuite' <=> Eval!ValidSuite) /\ Eval!OfflineCode' = Eval!OfflineCode
    BY <2>2, OfflineKept DEF Eval!ValidSuite
  <2>. QED  BY <1>4, <2>1, <2>2, <2>3 DEF EvalInv, Fits
<1>5. ASSUME EvalInv, Eval!Judge
      PROVE  EvalInv'
  <2>1. /\ UNCHANGED <<suite, asked, results, flawed>>
        /\ step = "judge" /\ step' = "over" /\ code' = Eval!CombinedCode(Eval!OfflineCode, judged')
    BY <1>5 DEF Eval!Judge
  <2>2. (Eval!ValidSuite' <=> Eval!ValidSuite) /\ Eval!OfflineCode' = Eval!OfflineCode
    BY <2>1, OfflineKept DEF Eval!ValidSuite
  <2>3. Eval!OfflineCode \in {0, 1}
    BY DEF Eval!OfflineCode
  <2>4. code' = 0 => asked # "fake" /\ judged' = "passed" /\ Eval!OfflineCode = 0
    BY <2>1, <2>3 DEF Eval!CombinedCode
  <2>. QED  BY <1>5, <2>1, <2>2, <2>4 DEF EvalInv, Fits
<1>6. ASSUME EvalInv, UNCHANGED evalVars
      PROVE  EvalInv'
  <2>1. UNCHANGED <<step, suite, asked, results, flawed, judged, code>>
    BY <1>6 DEF evalVars
  <2>2. (Eval!ValidSuite' <=> Eval!ValidSuite) /\ Eval!OfflineCode' = Eval!OfflineCode
    BY <2>1, OfflineKept DEF Eval!ValidSuite
  <2>. QED  BY <1>6, <2>1, <2>2 DEF EvalInv, Fits
<1>. QED  BY <1>1, <1>2, <1>3, <1>4, <1>5, <1>6, RetrieveKeeps, PackOffKeeps, InvokeKeeps,
     AnswerKeeps, RaisesKeeps DEF Eval!EvalNext

LEMMA EvalPasses == EvalInv => Eval!PassedOnEvidence
<1> SUFFICES ASSUME EvalInv, code = 0
             PROVE  Eval!PassedOnEvidence
  BY DEF Eval!PassedOnEvidence
<1>1. /\ Len(results) = Len(suite) /\ Eval!OfflineCode = 0
      /\ asked # "off" => asked = "live" /\ judged = "passed"
      /\ results \in Seq(Results) /\ suite \in Suites
  BY DEF EvalInv
<1>2. DOMAIN results = 1..Len(suite) /\ DOMAIN suite = 1..Len(suite) /\ Len(suite) \in Nat
  BY <1>1, SuiteIs
<1> DEFINE failed == {i \in DOMAIN results : results[i].status = "fail"}
<1>3. failed = {}
  <2>1. IsFiniteSet(failed)
    <3>1. IsFiniteSet(1..Len(suite))
      BY <1>2, FS_Interval
    <3>. QED  BY <1>2, <3>1, FS_Subset
  <2>2. ~(Cardinality(failed) >= 1)
    <3>1. ~(Eval!Count("fail") >= 1)
      BY <1>1 DEF Eval!OfflineCode
    <3>. QED  BY <3>1, EvalCardinality DEF Eval!Count
  <2> HIDE DEF failed
  <2>3. Cardinality(failed) \in Nat /\ (Cardinality(failed) = 0 <=> failed = {})
    BY <2>1, FS_CardinalityType, FS_EmptySet
  <2>. QED  BY <2>2, <2>3
<1>4. flawed = {}
  <2>1. flawed \subseteq failed
    BY <1>1, <1>2 DEF EvalInv
  <2>. QED  BY <1>3, <2>1
<1>5. ASSUME NEW class \in Required
      PROVE  \E i \in DOMAIN suite : suite[i].class = class /\ results[i].status = "pass"
  <2>1. class \in Eval!Exercised
    BY <1>1 DEF Eval!OfflineCode, Eval!Unmet
  <2>2. PICK i \in DOMAIN results : results[i].status # "skip" /\ suite[i].class = class
    BY <2>1 DEF Eval!Exercised
  <2>3. results[i].status # "fail" /\ results[i] \in Results
    BY <1>1, <1>2, <1>3
  <2>4. results[i].status = "pass"
    BY <2>2, <2>3 DEF Results
  <2>. QED  BY <1>2, <2>2, <2>4
<1>6. Eval!Denominator = Eval!Cardinality({i \in DOMAIN suite : suite[i].sources # {}})
  <2>1. ASSUME NEW i \in DOMAIN suite
        PROVE  results[i].scored <=> suite[i].sources # {}
    <3>1. Fits(i) /\ results[i].status # "fail"
      BY <1>1, <1>2, <1>3 DEF EvalInv
    <3>. QED  BY <3>1 DEF Fits
  <2>2. {i \in DOMAIN results : results[i].scored} = {i \in DOMAIN suite : suite[i].sources # {}}
    BY <1>2, <2>1
  <2>. QED  BY <2>2 DEF Eval!Denominator
<1>. QED  BY <1>1, <1>4, <1>5, <1>6 DEF Eval!PassedOnEvidence

(* Whatever the system under evaluation answers and the judge says or      *)
(* loses: an exit code of zero and a gate that passes rest on evidence.    *)
THEOREM EvaluationOnEvidence == EvaluationSpec => []JudgedOnEvidence
<1>1. EvaluationInit => JudgeInv /\ EvalInv
  BY JudgeInductive, EvalInductive DEF EvaluationInit
<1>2. JudgeInv /\ EvalInv /\ [EvaluationNext]_<<judgeVars, evalVars>> => JudgeInv' /\ EvalInv'
  <2> SUFFICES ASSUME JudgeInv, EvalInv, [EvaluationNext]_<<judgeVars, evalVars>>
               PROVE  JudgeInv' /\ EvalInv'
    OBVIOUS
  <2>1. [Judge!JudgeNext]_judgeVars /\ [Eval!EvalNext]_evalVars
    <3>1. UNCHANGED <<judgeVars, evalVars>> => UNCHANGED judgeVars /\ UNCHANGED evalVars
      OBVIOUS
    <3>. QED  BY <3>1 DEF EvaluationNext
  <2>. QED  BY <2>1, JudgeInductive, EvalInductive
<1>3. JudgeInv /\ EvalInv => JudgedOnEvidence
  BY JudgePasses, EvalPasses DEF JudgedOnEvidence
<1>. QED  BY <1>1, <1>2, <1>3, PTL DEF EvaluationSpec
=============================================================================
