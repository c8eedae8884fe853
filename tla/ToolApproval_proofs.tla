------------------------- MODULE ToolApproval_proofs -------------------------
(***************************************************************************)
(* Type correctness of ToolApproval, and that a tool only runs for a call  *)
(* its own conversation approved, for every number of conversations,       *)
(* calls, server threads and restarts, whether or not requests overlap;    *)
(* and, when they do not, that an approval runs its call once and that an  *)
(* outstanding one can be resumed.                                         *)
(***************************************************************************)
EXTENDS ToolApproval, TLAPS

Bound    == Bindings \union {"none"}
NodePc   == {"tools", "run"}
DecidePc == {"record", "resume", "invoke"}
Threads  == [exists : BOOLEAN, calls : IdSeqs, answers : Seq(Answer)]

(* The inductive invariant.  Every id a thread, a card or a request knows  *)
(* was handed out, the calls of a conversation were asked for in it, and   *)
(* an "approve" for one of its calls that is stored or under way was sent. *)
(* The state they are read in is a parameter: ids not handed out (unused), *)
(* the conversation that asked (asked), the approvals sent (sent).         *)

OkCalls(calls, c, unused, asked) ==
  \A n \in 1..Len(calls) : calls[n] \notin unused /\ asked[calls[n]] = c

OkDecision(id, decision, c, unused, asked, sent) ==
  /\ id \notin unused
  /\ decision = "approve" /\ asked[id] = c => id \in sent

OkAnswers(answers, c, unused, asked, sent) ==
  \A n \in 1..Len(answers) :
    OkDecision(answers[n].id, answers[n].decision, c, unused, asked, sent)

OkRequest(r, unused, asked, sent) ==
  /\ r.pc \in NodePc => /\ OkCalls(r.calls, r.conv, unused, asked)
                        /\ OkAnswers(r.answers, r.conv, unused, asked, sent)
  /\ r.pc = "run" => r.i <= Len(r.calls) /\ r.calls[r.i] \in sent
  /\ r.pc \in DecidePc =>
       OkDecision(r.id, r.decision, r.conv, unused, asked, sent)

RequestsOK == \A w \in Workers : OkRequest(req[w], fresh, home, approved)

ThreadsOK ==
  \A c \in Conversations :
    /\ OkCalls(thread[c].calls, c, fresh, home)
    /\ OkAnswers(thread[c].answers, c, fresh, home, approved)

CardsOK == shown \cap fresh = {}

IInv == TypeOK /\ RequestsOK /\ ThreadsOK /\ CardsOK /\ RunsWereApproved

-----------------------------------------------------------------------------
(* Requests and threads as records.                                        *)

LEMMA FreeType == Free \in Request /\ Free.pc = "free"
BY DEF Free, Request

LEMMA ModelType ==
  ASSUME NEW c \in Conversations, NEW memory \in BOOLEAN, NEW bound \in Bound
  PROVE  /\ Model(c, memory, bound) \in Request
         /\ Model(c, memory, bound).pc = "model"
BY DEF Model, Request, Bound

LEMMA NodeType ==
  ASSUME NEW pc \in NodePc, NEW c \in Conversations, NEW memory \in BOOLEAN,
         NEW bound \in Bound, NEW calls \in IdSeqs,
         NEW answers \in Seq(Answer), NEW i \in 1..(MaxCalls + 1)
  PROVE  Node(pc, c, memory, bound, calls, answers, i) \in Request
BY DEF Node, Request, NodePc, Bound

LEMMA DecideType ==
  ASSUME NEW pc \in DecidePc, NEW c \in Conversations, NEW id \in Ids,
         NEW decision \in Decisions, NEW prior \in Decisions \union {"none"}
  PROVE  Decide(pc, c, id, decision, prior) \in Request
BY DEF Decide, Request, DecidePc

LEMMA IsModel ==
  ASSUME NEW r \in Request, r.pc = "model"
  PROVE  r.conv \in Conversations /\ r.memory \in BOOLEAN /\ r.bound \in Bound
BY DEF Request, Free, Bound

LEMMA IsNode ==
  ASSUME NEW r \in Request, r.pc \in NodePc
  PROVE  /\ r.conv \in Conversations /\ r.memory \in BOOLEAN
         /\ r.bound \in Bound /\ r.calls \in IdSeqs
         /\ r.answers \in Seq(Answer) /\ r.i \in 1..(MaxCalls + 1)
BY DEF Request, Free, Bound, NodePc

LEMMA IsDecide ==
  ASSUME NEW r \in Request, r.pc \in DecidePc
  PROVE  /\ r.conv \in Conversations /\ r.id \in Ids
         /\ r.decision \in Decisions /\ r.prior \in Decisions \union {"none"}
BY DEF Request, Free, DecidePc

LEMMA PcOf ==
  ASSUME NEW r \in Request
  PROVE  r.pc \in {"free", "model"} \union NodePc \union DecidePc
BY DEF Request, Free, NodePc, DecidePc

\* The calls of a message are a sequence of at most MaxCalls ids.
LEMMA CallsType ==
  ASSUME NEW calls \in IdSeqs
  PROVE  /\ calls \in Seq(Ids) /\ Len(calls) \in 0..MaxCalls
         /\ \A i \in 1..Len(calls) : calls[i] \in Ids
         /\ calls # <<>> => Len(calls) > 0
<1>1. PICK n \in 0..MaxCalls : calls \in [1..n -> Ids]
  BY DEF IdSeqs
<1>2. n \in Nat /\ calls \in Seq(Ids) /\ Len(calls) = n
  BY <1>1, BoundsAssumption
<1> QED
  BY <1>1, <1>2, BoundsAssumption

LEMMA NoCalls == <<>> \in IdSeqs /\ <<>> \in Seq(Answer)
<1>1. 0 \in 0..MaxCalls
  BY BoundsAssumption
<1>2. <<>> \in [1..0 -> Ids]
  OBVIOUS
<1> QED
  BY <1>1, <1>2 DEF IdSeqs

LEMMA SavedType ==
  ASSUME NEW calls \in IdSeqs, NEW answers \in Seq(Answer)
  PROVE  Saved(calls, answers) \in
           Threads
BY DEF Threads, Saved

LEMMA AnswerAppended ==
  ASSUME NEW answers \in Seq(Answer), NEW id \in Ids, NEW d \in Decisions
  PROVE  /\ Append(answers, [id |-> id, decision |-> d]) \in Seq(Answer)
         /\ [id |-> id, decision |-> d] \in Answer
BY DEF Answer

LEMMA AppendedAt ==
  ASSUME NEW S, NEW s \in Seq(S), NEW e \in S
  PROVE  /\ Len(Append(s, e)) = Len(s) + 1
         /\ \A n \in 1..Len(s) : Append(s, e)[n] = s[n]
         /\ Append(s, e)[Len(s) + 1] = e
OBVIOUS

LEMMA GotoType ==
  ASSUME req \in [Workers -> Request], NEW w \in Workers,
         NEW r \in Request, Goto(w, r)
  PROVE  req' \in [Workers -> Request]
BY DEF Goto

LEMMA ThreadType ==
  ASSUME TypeOK, NEW c \in Conversations
  PROVE  /\ thread[c] \in Threads
         /\ thread[c].calls \in IdSeqs /\ thread[c].answers \in Seq(Answer)
BY DEF Threads, TypeOK

-----------------------------------------------------------------------------
(* Type correctness.                                                       *)

LEMMA TypeInit == Init => TypeOK
<1>1. NoThread \in Threads
  BY NoCalls DEF Threads, NoThread
<1> QED
  BY <1>1, FreeType, BoundsAssumption DEF Threads, Init, TypeOK, Decisions, Bindings, RunCap

LEMMA AskType ==
  ASSUME TypeOK, NEW w \in Workers, NEW c \in Conversations,
         NEW bound \in Bindings, Ask(w, c, bound)
  PROVE  TypeOK'
<1>1. Outstanding(c) \in BOOLEAN /\ bound \in Bound
  BY DEF Outstanding, Bound
<1>2. req' \in [Workers -> Request]
  BY <1>1, ModelType, GotoType DEF Ask, TypeOK
<1>3. Saved(<<>>, <<>>) \in Threads
  BY NoCalls, SavedType
<1> QED
  BY <1>1, <1>2, <1>3 DEF Threads, Ask, TypeOK, seen, done, Bound

LEMMA ModelAnswersType ==
  ASSUME TypeOK, NEW w \in Workers, ModelAnswers(w)
  PROVE  TypeOK'
<1>1. req' \in [Workers -> Request]
  BY FreeType, GotoType DEF ModelAnswers, TypeOK
<1> QED
  BY <1>1 DEF ModelAnswers, TypeOK, maps, seen, done

LEMMA ModelCallsType ==
  ASSUME TypeOK, NEW w \in Workers, NEW calls \in IdSeqs, ModelCalls(w, calls)
  PROVE  TypeOK'
<1>1. req[w] \in Request /\ req[w].pc = "model"
  BY DEF TypeOK, ModelCalls
<1>2. req[w].conv \in Conversations /\ req[w].memory \in BOOLEAN /\ req[w].bound \in Bound
  BY <1>1, IsModel
<1>3. 1 \in 1..(MaxCalls + 1) /\ "tools" \in NodePc
  BY BoundsAssumption DEF NodePc
<1>4. Node("tools", req[w].conv, req[w].memory, req[w].bound, calls, <<>>, 1) \in Request
  BY <1>2, <1>3, NodeType, NoCalls
<1>5. req' \in [Workers -> Request]
  BY <1>4, GotoType DEF ModelCalls, TypeOK
<1>6. Saved(calls, <<>>) \in Threads
  BY NoCalls, SavedType
<1>7. thread' \in [Conversations -> Threads]
  BY <1>2, <1>6 DEF Threads, ModelCalls, TypeOK
<1>8. home' \in [Ids -> Conversations \union {"none"}] /\ fresh' \subseteq Ids
  BY <1>2 DEF ModelCalls, TypeOK
<1> QED
  BY <1>5, <1>7, <1>8 DEF Threads, ModelCalls, TypeOK, maps, done

\* What a request at a node knows.
LEMMA NodeFacts ==
  ASSUME TypeOK, NEW w \in Workers, req[w].pc \in NodePc
  PROVE  /\ req[w] \in Request
         /\ req[w].conv \in Conversations /\ req[w].memory \in BOOLEAN
         /\ req[w].bound \in Bound /\ req[w].calls \in IdSeqs
         /\ req[w].answers \in Seq(Answer) /\ req[w].i \in 1..(MaxCalls + 1)
BY IsNode DEF TypeOK

\* A request standing at a call can move on to the next, or run its tool.
LEMMA Next1Type ==
  ASSUME TypeOK, NEW w \in Workers, req[w].pc \in NodePc, Left(w)
  PROVE  /\ Next1(w, "tools") \in Request /\ Next1(w, "run") \in Request
         /\ At(w) \in Ids
<1>1. Len(req[w].calls) \in 0..MaxCalls /\ \A i \in 1..Len(req[w].calls) : req[w].calls[i] \in Ids
  BY NodeFacts, CallsType
<1>2. req[w].i \in 1..Len(req[w].calls) /\ req[w].i + 1 \in 1..(MaxCalls + 1)
  BY <1>1, NodeFacts, BoundsAssumption DEF Left
<1>3. Next1(w, "tools") \in Request
  BY <1>2, NodeFacts, NodeType DEF Next1, NodePc
<1>4. Next1(w, "run") \in Request
  BY <1>2, NodeFacts, NodeType DEF Next1, NodePc
<1> QED
  BY <1>1, <1>2, <1>3, <1>4 DEF At

LEMMA ForgetType ==
  ASSUME TypeOK, NEW w \in Workers, req[w].pc \in NodePc
  PROVE  /\ Forget(w) \in [Conversations -> SUBSET Ids]
         /\ At(w) \in Ids => Enter(w).owned \in [Conversations -> SUBSET Ids]
         /\ At(w) \in Ids => Enter(w).pending \subseteq Ids
BY NodeFacts DEF Forget, Enter, TypeOK

LEMMA CallUnknownType ==
  ASSUME TypeOK, NEW w \in Workers, CallUnknown(w)
  PROVE  TypeOK'
<1>1. req' \in [Workers -> Request]
  BY Next1Type, GotoType DEF CallUnknown, TypeOK, NodePc
<1> QED
  BY <1>1 DEF CallUnknown, TypeOK, maps, seen, done

LEMMA CallInterruptsType ==
  ASSUME TypeOK, NEW w \in Workers, CallInterrupts(w)
  PROVE  TypeOK'
<1>1. req[w].pc \in NodePc /\ Left(w)
  BY DEF CallInterrupts, NodePc
<1>2. At(w) \in Ids
  BY <1>1, Next1Type
<1>3. req' \in [Workers -> Request]
  BY FreeType, GotoType DEF CallInterrupts, TypeOK
<1>4. thread' \in [Conversations -> Threads]
  BY <1>1, NodeFacts, SavedType DEF Threads, CallInterrupts, TypeOK
<1>5. owned' \in [Conversations -> SUBSET Ids] /\ pending_args' \subseteq Ids
  BY <1>1, <1>2, ForgetType DEF CallInterrupts
<1> QED
  BY <1>2, <1>3, <1>4, <1>5 DEF Threads, CallInterrupts, TypeOK, done

LEMMA CallRejectedType ==
  ASSUME TypeOK, NEW w \in Workers, CallRejected(w)
  PROVE  TypeOK'
<1>1. req[w].pc \in NodePc /\ Left(w)
  BY DEF CallRejected, NodePc
<1>2. req' \in [Workers -> Request]
  BY <1>1, Next1Type, GotoType DEF CallRejected, TypeOK
<1>3. owned' \in [Conversations -> SUBSET Ids]
  BY <1>1, ForgetType DEF CallRejected
<1> QED
  BY <1>2, <1>3 DEF CallRejected, TypeOK, seen, done

LEMMA CallApprovedType ==
  ASSUME TypeOK, NEW w \in Workers, CallApproved(w)
  PROVE  TypeOK'
<1>1. req[w].pc \in NodePc /\ Left(w)
  BY DEF CallApproved, NodePc
<1>2. req' \in [Workers -> Request]
  BY <1>1, Next1Type, GotoType DEF CallApproved, TypeOK
<1>3. owned' \in [Conversations -> SUBSET Ids]
  BY <1>1, ForgetType DEF CallApproved
<1> QED
  BY <1>2, <1>3 DEF CallApproved, TypeOK, seen, done

LEMMA ToolEndsType ==
  ASSUME TypeOK, NEW w \in Workers, ToolRuns(w) \/ ToolFails(w), Left(w)
  PROVE  TypeOK'
<1>1. req[w].pc \in NodePc
  BY DEF ToolRuns, ToolFails, NodePc
<1>2. At(w) \in Ids /\ Next1(w, "tools") \in Request
  BY <1>1, Next1Type
<1>3. req' \in [Workers -> Request]
  BY <1>2, FreeType, GotoType DEF ToolRuns, ToolFails, TypeOK
<1>4. UNCHANGED <<maps, thread, seen, restarts>>
  BY DEF ToolRuns, ToolFails
<1>5. /\ runs' = [runs EXCEPT ![At(w)] = IF @ < RunCap THEN @ + 1 ELSE @]
      /\ ranHere' = ranHere \union {At(w)}
  BY DEF ToolRuns, ToolFails
<1>6. runs' \in [Ids -> 0..RunCap] /\ ranHere' \subseteq Ids
  BY <1>2, <1>5 DEF TypeOK, RunCap
<1> QED
  BY <1>3, <1>4, <1>6 DEF TypeOK, maps, seen

LEMMA NodeEndsType ==
  ASSUME TypeOK, NEW w \in Workers, NodeEnds(w)
  PROVE  TypeOK'
<1>1. req[w].pc \in NodePc
  BY DEF NodeEnds, NodePc
<1>2. req' \in [Workers -> Request]
  BY <1>1, NodeFacts, ModelType, GotoType DEF NodeEnds, TypeOK
<1>3. Saved(<<>>, <<>>) \in Threads
  BY NoCalls, SavedType
<1>4. thread' \in [Conversations -> Threads]
  BY <1>1, <1>3, NodeFacts DEF NodeEnds, TypeOK, Threads
<1> QED
  BY <1>2, <1>4 DEF Threads, NodeEnds, TypeOK, maps, seen, done

LEMMA ReadLedgerType ==
  ASSUME TypeOK, NEW w \in Workers, NEW c \in Conversations, NEW id \in Ids,
         NEW d \in Decisions, ReadLedger(w, c, id, d)
  PROVE  TypeOK'
<1>1. ledger[id] \in Decisions \union {"none"}
  BY DEF TypeOK
<1>2. \A pc \in {"record", "resume"} : Decide(pc, c, id, d, ledger[id]) \in Request
  BY <1>1, DecideType DEF DecidePc
<1>3. req' \in [Workers -> Request]
  BY <1>2, GotoType DEF ReadLedger, TypeOK
<1> QED
  BY <1>3 DEF ReadLedger, TypeOK, maps, done

\* What a request that decides knows.
LEMMA DecideFacts ==
  ASSUME TypeOK, NEW w \in Workers, req[w].pc \in DecidePc
  PROVE  /\ req[w] \in Request
         /\ req[w].conv \in Conversations /\ req[w].id \in Ids
         /\ req[w].decision \in Decisions
         /\ req[w].prior \in Decisions \union {"none"}
         /\ \A pc \in DecidePc :
              Decide(pc, req[w].conv, req[w].id, req[w].decision, req[w].prior) \in Request
BY IsDecide, DecideType DEF TypeOK

LEMMA RecordType ==
  ASSUME TypeOK, NEW w \in Workers, Record(w)
  PROVE  TypeOK'
<1>1. req[w].pc \in DecidePc /\ "resume" \in DecidePc
  BY DEF Record, DecidePc
<1>2. req' \in [Workers -> Request]
  BY <1>1, DecideFacts, GotoType DEF Record, TypeOK
<1> QED
  BY <1>1, <1>2, DecideFacts DEF Record, TypeOK, seen, done

LEMMA NotFoundType ==
  ASSUME TypeOK, NEW w \in Workers, NotFound(w)
  PROVE  TypeOK'
<1>1. req' \in [Workers -> Request]
  BY FreeType, GotoType DEF NotFound, TypeOK
<1> QED
  BY <1>1 DEF NotFound, TypeOK, seen, done

LEMMA ReplaysType ==
  ASSUME TypeOK, NEW w \in Workers, Replays(w)
  PROVE  TypeOK'
<1>1. req[w].pc \in DecidePc
  BY DEF Replays, DecidePc
<1>2. req' \in [Workers -> Request]
  BY FreeType, GotoType DEF Replays, TypeOK
<1>3. owned' \in [Conversations -> SUBSET Ids] /\ cancelled' \subseteq Ids
  BY <1>1, DecideFacts DEF Replays, Cancels, TypeOK
<1> QED
  BY <1>2, <1>3 DEF Replays, TypeOK, done

LEMMA AcceptsType ==
  ASSUME TypeOK, NEW w \in Workers, Accepts(w)
  PROVE  TypeOK'
<1>1. req[w].pc \in DecidePc /\ "invoke" \in DecidePc
  BY DEF Accepts, DecidePc
<1>2. req' \in [Workers -> Request]
  BY <1>1, DecideFacts, GotoType DEF Accepts, TypeOK
<1> QED
  BY <1>2 DEF Accepts, TypeOK, maps, seen, done

LEMMA InvokeType ==
  ASSUME TypeOK, NEW w \in Workers, Invoke(w)
  PROVE  TypeOK'
<1> DEFINE c == req[w].conv
           calls == thread[c].calls
           answers == Append(thread[c].answers,
                             [id |-> req[w].id, decision |-> req[w].decision])
<1>1. /\ c \in Conversations /\ req[w].id \in Ids /\ req[w].decision \in Decisions
  BY DecideFacts DEF Invoke, DecidePc
<1>2. calls \in IdSeqs /\ answers \in Seq(Answer)
  BY <1>1, ThreadType, AnswerAppended
<1>3. tools[c] \in Bound /\ TRUE \in BOOLEAN /\ "tools" \in NodePc /\ 1 \in 1..(MaxCalls + 1)
  BY <1>1, BoundsAssumption DEF TypeOK, Bound, NodePc
<1>4. Node("tools", c, TRUE, tools[c], calls, answers, 1) \in Request
  BY <1>1, <1>2, <1>3, NodeType
<1>5. Saved(calls, answers) \in Threads
  BY <1>2, SavedType
<1>6. /\ cancelled' \subseteq Ids
      /\ \/ Goto(w, Free) /\ UNCHANGED thread
         \/ /\ Goto(w, Node("tools", c, TRUE, tools[c], calls, answers, 1))
            /\ thread' = [thread EXCEPT ![c] = Saved(calls, answers)]
  BY <1>1 DEF Invoke, Cancels, TypeOK
<1>7. req' \in [Workers -> Request]
  BY <1>4, <1>6, FreeType, GotoType DEF TypeOK
<1>8. thread' \in [Conversations -> Threads]
  BY <1>1, <1>5, <1>6 DEF TypeOK, Threads
<1> QED
  BY <1>6, <1>7, <1>8 DEF Invoke, TypeOK, Threads, maps, done

LEMMA ClearThreadType ==
  ASSUME TypeOK, NEW c \in Conversations, ClearThread(c)
  PROVE  TypeOK'
<1>1. NoThread \in Threads
  BY NoCalls DEF NoThread, Threads
<1> QED
  BY <1>1 DEF ClearThread, TypeOK, Threads, seen, done

LEMMA RestartType ==
  ASSUME TypeOK, Restart
  PROVE  TypeOK'
<1>1. NoThread \in Threads
  BY NoCalls DEF NoThread, Threads
<1>2. restarts' \in 0..MaxRestarts
  BY BoundsAssumption DEF Restart, TypeOK
<1> QED
  BY <1>1, <1>2, FreeType DEF Restart, TypeOK, Threads

-----------------------------------------------------------------------------
(* The calls, answers and decisions that are known.                        *)

\* The ids handed out, the askers of handed out ids and the approvals only
\* grow, and what was fine stays fine.
Later(unused, asked, sent, unused2, asked2, sent2) ==
  /\ unused2 \subseteq unused
  /\ \A id \in Ids \ unused : id \notin unused2 /\ asked2[id] = asked[id]
  /\ sent \subseteq sent2

LEMMA SequenceLater ==
  ASSUME NEW unused, NEW asked, NEW sent, NEW unused2, NEW asked2, NEW sent2,
         Later(unused, asked, sent, unused2, asked2, sent2),
         NEW c, NEW calls \in IdSeqs, NEW answers \in Seq(Answer),
         OkCalls(calls, c, unused, asked),
         OkAnswers(answers, c, unused, asked, sent)
  PROVE  /\ OkCalls(calls, c, unused2, asked2)
         /\ OkAnswers(answers, c, unused2, asked2, sent2)
<1>1. OkCalls(calls, c, unused2, asked2)
  <2>1. \A n \in 1..Len(calls) : calls[n] \in Ids
    BY CallsType
  <2> QED
    BY <2>1 DEF Later, OkCalls
<1>2. OkAnswers(answers, c, unused2, asked2, sent2)
  <2> SUFFICES ASSUME NEW n \in 1..Len(answers)
               PROVE  OkDecision(answers[n].id, answers[n].decision, c,
                                 unused2, asked2, sent2)
    BY DEF OkAnswers
  <2>1. answers[n] \in Answer
    OBVIOUS
  <2>2. answers[n].id \in Ids
    BY <2>1 DEF Answer
  <2>3. OkDecision(answers[n].id, answers[n].decision, c, unused, asked, sent)
    BY DEF OkAnswers
  <2> QED
    BY <2>2, <2>3 DEF OkDecision, Later
<1> QED
  BY <1>1, <1>2

LEMMA RequestLater ==
  ASSUME NEW unused, NEW asked, NEW sent, NEW unused2, NEW asked2, NEW sent2,
         Later(unused, asked, sent, unused2, asked2, sent2),
         NEW r \in Request, OkRequest(r, unused, asked, sent)
  PROVE  OkRequest(r, unused2, asked2, sent2)
<1>1. CASE r.pc \in NodePc
  <2>1. r.calls \in IdSeqs /\ r.answers \in Seq(Answer) /\ r.pc \notin DecidePc
    BY <1>1, IsNode DEF NodePc, DecidePc
  <2> QED
    BY <1>1, <2>1, SequenceLater DEF OkRequest, Later
<1>2. CASE r.pc \in DecidePc
  <2>1. r.id \in Ids /\ r.pc \notin NodePc
    BY <1>2, IsDecide DEF NodePc, DecidePc
  <2> QED
    BY <1>2, <2>1 DEF OkRequest, OkDecision, Later, NodePc
<1> QED
  BY <1>1, <1>2 DEF OkRequest, NodePc

\* A step that moves one request to r, everything else only growing.
LEMMA RequestsStep ==
  ASSUME TypeOK, RequestsOK, NEW w \in Workers, NEW r,
         req' = [req EXCEPT ![w] = r], OkRequest(r, fresh', home', approved'),
         Later(fresh, home, approved, fresh', home', approved')
  PROVE  RequestsOK'
<1> SUFFICES ASSUME NEW v \in Workers
             PROVE  OkRequest(req'[v], fresh', home', approved')
  BY DEF RequestsOK
<1>1. CASE v = w
  BY <1>1 DEF TypeOK
<1>2. CASE v # w
  <2>1. req'[v] = req[v] /\ req[v] \in Request
    BY <1>2 DEF TypeOK
  <2>2. OkRequest(req[v], fresh, home, approved)
    BY DEF RequestsOK
  <2> QED
    BY <2>1, <2>2, RequestLater
<1> QED
  BY <1>1, <1>2

\* A step that writes at most the thread of c.
LEMMA ThreadsStep ==
  ASSUME TypeOK, ThreadsOK, NEW c \in Conversations, NEW calls, NEW answers,
         UNCHANGED thread \/ thread' = [thread EXCEPT ![c] = Saved(calls, answers)],
         OkCalls(calls, c, fresh', home'),
         OkAnswers(answers, c, fresh', home', approved'),
         Later(fresh, home, approved, fresh', home', approved')
  PROVE  ThreadsOK'
<1> SUFFICES ASSUME NEW d \in Conversations
             PROVE  /\ OkCalls(thread'[d].calls, d, fresh', home')
                    /\ OkAnswers(thread'[d].answers, d, fresh', home', approved')
  BY DEF ThreadsOK
<1>1. CASE thread'[d] = thread[d]
  <2>1. /\ OkCalls(thread[d].calls, d, fresh, home)
        /\ OkAnswers(thread[d].answers, d, fresh, home, approved)
    BY DEF ThreadsOK
  <2>2. thread[d].calls \in IdSeqs /\ thread[d].answers \in Seq(Answer)
    BY ThreadType
  <2> QED
    BY <1>1, <2>1, <2>2, SequenceLater
<1>2. CASE d = c /\ thread'[d] = Saved(calls, answers)
  BY <1>2 DEF Saved
<1> QED
  BY <1>1, <1>2 DEF TypeOK

LEMMA NothingAsked ==
  ASSUME NEW c, NEW unused, NEW asked, NEW sent
  PROVE  /\ OkCalls(<<>>, c, unused, asked)
         /\ OkAnswers(<<>>, c, unused, asked, sent)
BY DEF OkCalls, OkAnswers

LEMMA FreeOK ==
  ASSUME NEW unused, NEW asked, NEW sent
  PROVE  OkRequest(Free, unused, asked, sent)
BY DEF OkRequest, Free, NodePc, DecidePc

LEMMA ModelOK ==
  ASSUME NEW c, NEW memory, NEW bound, NEW unused, NEW asked, NEW sent
  PROVE  OkRequest(Model(c, memory, bound), unused, asked, sent)
BY DEF OkRequest, Model, NodePc, DecidePc

LEMMA ToolsOK ==
  ASSUME NEW c, NEW memory, NEW bound, NEW calls, NEW answers, NEW i,
         NEW unused, NEW asked, NEW sent,
         OkCalls(calls, c, unused, asked),
         OkAnswers(answers, c, unused, asked, sent)
  PROVE  OkRequest(Node("tools", c, memory, bound, calls, answers, i),
                   unused, asked, sent)
BY DEF OkRequest, Node, DecidePc

LEMMA RunOK ==
  ASSUME NEW c, NEW memory, NEW bound, NEW calls, NEW answers, NEW i,
         NEW unused, NEW asked, NEW sent,
         OkCalls(calls, c, unused, asked),
         OkAnswers(answers, c, unused, asked, sent),
         i <= Len(calls), calls[i] \in sent
  PROVE  OkRequest(Node("run", c, memory, bound, calls, answers, i),
                   unused, asked, sent)
BY DEF OkRequest, Node, DecidePc

LEMMA DecideOK ==
  ASSUME NEW pc \in DecidePc, NEW c, NEW id, NEW d, NEW prior,
         NEW unused, NEW asked, NEW sent,
         OkDecision(id, d, c, unused, asked, sent)
  PROVE  OkRequest(Decide(pc, c, id, d, prior), unused, asked, sent)
BY DEF OkRequest, Decide, NodePc, DecidePc

LEMMA SameLater ==
  ASSUME UNCHANGED <<fresh, home, approved>>
  PROVE  Later(fresh, home, approved, fresh', home', approved')
BY DEF Later

-----------------------------------------------------------------------------
(* One lemma for each action, or for actions that disturb the same parts.  *)

LEMMA InvInit == Init => IInv
<1> SUFFICES ASSUME Init PROVE IInv
  OBVIOUS
<1>1. RequestsOK
  BY FreeOK DEF Init, RequestsOK
<1>2. ThreadsOK
  BY NothingAsked DEF Init, ThreadsOK, NoThread
<1> QED
  BY <1>1, <1>2, TypeInit DEF Init, IInv, CardsOK, RunsWereApproved

LEMMA AskInv ==
  ASSUME IInv, NEW w \in Workers, NEW c \in Conversations,
         NEW bound \in Bindings, Ask(w, c, bound)
  PROVE  IInv'
<1> USE DEF IInv
<1>1. Later(fresh, home, approved, fresh', home', approved')
  BY SameLater DEF Ask, seen
<1>2. RequestsOK'
  BY <1>1, ModelOK, RequestsStep DEF Ask, Goto
<1>3. UNCHANGED thread \/ thread' = [thread EXCEPT ![c] = Saved(<<>>, <<>>)]
  BY DEF Ask
<1>4. ThreadsOK'
  BY <1>1, <1>3, NothingAsked, ThreadsStep
<1> QED
  BY <1>2, <1>4, AskType DEF Ask, seen, done, CardsOK, RunsWereApproved

LEMMA ModelCallsInv ==
  ASSUME IInv, NEW w \in Workers, NEW calls \in IdSeqs, ModelCalls(w, calls)
  PROVE  IInv'
<1> USE DEF IInv
<1> DEFINE c == req[w].conv
<1>1. c \in Conversations
  BY IsModel DEF ModelCalls, TypeOK
<1>2. /\ Range(calls) \subseteq fresh /\ fresh' = fresh \ Range(calls)
      /\ home' = [id \in Ids |-> IF id \in Range(calls) THEN c ELSE home[id]]
      /\ UNCHANGED <<approved, shown, runs>>
  BY DEF ModelCalls, done
<1>3. Later(fresh, home, approved, fresh', home', approved')
  BY <1>2 DEF Later
<1>4. OkCalls(calls, c, fresh', home')
  <2>1. \A n \in 1..Len(calls) : calls[n] \in Ids /\ calls[n] \in Range(calls)
    BY CallsType DEF Range
  <2> QED
    BY <1>2, <2>1 DEF OkCalls
<1>5. RequestsOK'
  <2>1. req' = [req EXCEPT ![w] = Node("tools", c, req[w].memory, req[w].bound,
                                       calls, <<>>, 1)]
    BY DEF ModelCalls, Goto
  <2>2. OkRequest(Node("tools", c, req[w].memory, req[w].bound, calls, <<>>, 1),
                  fresh', home', approved')
    BY <1>4, NothingAsked, ToolsOK
  <2> QED
    BY <1>3, <2>1, <2>2, RequestsStep
<1>6. UNCHANGED thread \/ thread' = [thread EXCEPT ![c] = Saved(calls, <<>>)]
  BY DEF ModelCalls
<1>7. ThreadsOK'
  BY <1>1, <1>3, <1>4, <1>6, NothingAsked, ThreadsStep
<1> QED
  BY <1>2, <1>5, <1>7, ModelCallsType DEF CardsOK, RunsWereApproved

\* What the invariant says of a request at a node.
LEMMA NodeInv ==
  ASSUME IInv, NEW w \in Workers, req[w].pc \in NodePc
  PROVE  /\ req[w].conv \in Conversations
         /\ OkCalls(req[w].calls, req[w].conv, fresh, home)
         /\ OkAnswers(req[w].answers, req[w].conv, fresh, home, approved)
         /\ req[w].pc = "run" => Left(w) /\ At(w) \in approved
BY NodeFacts DEF IInv, RequestsOK, OkRequest, Left, At

\* An answer the node takes for an approval of the call it stands at is one.
LEMMA ApprovalWasSent ==
  ASSUME IInv, NEW w \in Workers, req[w].pc = "tools", Left(w), Answered(w),
         DecisionOf(w) = "approve"
  PROVE  At(w) \in approved
<1> DEFINE i == req[w].i
           a == req[w].answers[i]
<1>1. /\ TypeOK /\ req[w].pc \in NodePc
      /\ OkCalls(req[w].calls, req[w].conv, fresh, home)
      /\ OkAnswers(req[w].answers, req[w].conv, fresh, home, approved)
  BY NodeInv DEF IInv, NodePc
<1>2. i \in 1..Len(req[w].calls) /\ i \in 1..Len(req[w].answers)
  <2>1. /\ i \in 1..(MaxCalls + 1) /\ i <= Len(req[w].calls) /\ i <= Len(req[w].answers)
        /\ req[w].calls \in IdSeqs /\ req[w].answers \in Seq(Answer)
    BY <1>1, NodeFacts DEF Left, Answered
  <2>2. Len(req[w].calls) \in Nat /\ Len(req[w].answers) \in Nat
    BY <2>1, CallsType, BoundsAssumption
  <2> QED
    BY <2>1, <2>2, BoundsAssumption
<1>3. a.id = At(w) /\ a.decision = "approve"
  BY DEF DecisionOf
<1>4. home[At(w)] = req[w].conv
  BY <1>1, <1>2 DEF OkCalls, At
<1>5. OkDecision(a.id, a.decision, req[w].conv, fresh, home, approved)
  BY <1>1, <1>2 DEF OkAnswers
<1> QED
  BY <1>3, <1>4, <1>5 DEF OkDecision

\* The steps of a node that leave what was seen and the threads alone.
LEMMA CallInv ==
  ASSUME IInv, NEW w \in Workers,
         CallUnknown(w) \/ CallRejected(w) \/ CallApproved(w)
  PROVE  IInv'
<1>1. TypeOK /\ RequestsOK /\ ThreadsOK /\ CardsOK /\ RunsWereApproved
  BY DEF IInv
<1>2. req[w].pc = "tools" /\ req[w].pc \in NodePc /\ Left(w)
      /\ UNCHANGED <<thread, fresh, home, shown, approved, runs>>
  BY DEF CallUnknown, CallRejected, CallApproved, seen, done, NodePc
<1>3. Later(fresh, home, approved, fresh', home', approved')
  BY <1>2, SameLater
<1>4. /\ OkCalls(req[w].calls, req[w].conv, fresh', home')
      /\ OkAnswers(req[w].answers, req[w].conv, fresh', home', approved')
  BY <1>2, NodeInv
<1>5. ASSUME Goto(w, Next1(w, "tools")) PROVE RequestsOK'
  BY <1>1, <1>3, <1>4, <1>5, ToolsOK, RequestsStep DEF Next1, Goto
<1>6. ASSUME CallApproved(w) PROVE RequestsOK'
  <2>1. Goto(w, Next1(w, "run"))
    BY <1>6 DEF CallApproved
  <2>2. req[w].calls[req[w].i] \in approved' /\ req[w].i <= Len(req[w].calls)
    BY <1>2, <1>6, ApprovalWasSent DEF CallApproved, At, Left
  <2> QED
    BY <1>1, <1>3, <1>4, <2>1, <2>2, RunOK, RequestsStep DEF Next1, Goto
<1>7. RequestsOK'
  BY <1>5, <1>6 DEF CallUnknown, CallRejected
<1>8. ThreadsOK' /\ CardsOK' /\ RunsWereApproved'
  BY <1>1, <1>2 DEF ThreadsOK, CardsOK, RunsWereApproved
<1>9. TypeOK'
  BY <1>1, CallUnknownType, CallRejectedType, CallApprovedType
<1> QED
  BY <1>7, <1>8, <1>9 DEF IInv

\* A request that ends, or goes on with the model, and touches nothing seen.
LEMMA EndInv ==
  ASSUME IInv, TypeOK', NEW w \in Workers, NEW r, r = Free \/ r.pc = "model",
         req' = [req EXCEPT ![w] = r],
         UNCHANGED <<thread, fresh, home, shown, approved, runs>>
  PROVE  IInv'
<1>1. Later(fresh, home, approved, fresh', home', approved')
  BY SameLater
<1>2. OkRequest(r, fresh', home', approved')
  BY FreeOK DEF OkRequest, NodePc, DecidePc
<1>3. RequestsOK'
  BY <1>1, <1>2, RequestsStep DEF IInv
<1> QED
  BY <1>3 DEF IInv, ThreadsOK, CardsOK, RunsWereApproved

LEMMA CallInterruptsInv ==
  ASSUME IInv, NEW w \in Workers, CallInterrupts(w)
  PROVE  IInv'
<1> DEFINE c == req[w].conv
<1>1. TypeOK /\ RequestsOK /\ ThreadsOK /\ CardsOK /\ RunsWereApproved
  BY DEF IInv
<1>2. /\ req[w].pc \in NodePc /\ Left(w)
      /\ UNCHANGED <<fresh, home, approved, runs>>
      /\ shown' = shown \union {At(w)}
      /\ req' = [req EXCEPT ![w] = Free]
      /\ \/ UNCHANGED thread
         \/ thread' = [thread EXCEPT ![c] = Saved(req[w].calls, req[w].answers)]
  BY DEF CallInterrupts, Goto, done, NodePc
<1>3. Later(fresh, home, approved, fresh', home', approved')
  BY <1>2, SameLater
<1>4. /\ c \in Conversations
      /\ OkCalls(req[w].calls, c, fresh', home')
      /\ OkAnswers(req[w].answers, c, fresh', home', approved')
  BY <1>2, NodeInv
<1>5. RequestsOK'
  BY <1>1, <1>2, <1>3, FreeOK, RequestsStep
<1>6. ThreadsOK'
  BY <1>1, <1>2, <1>3, <1>4, ThreadsStep
<1>7. At(w) \notin fresh
  <2>1. req[w].i \in 1..Len(req[w].calls)
    BY <1>1, <1>2, NodeFacts, CallsType, BoundsAssumption DEF Left
  <2> QED
    BY <1>2, <1>4, <2>1 DEF OkCalls, At
<1>8. CardsOK' /\ RunsWereApproved'
  BY <1>1, <1>2, <1>7 DEF CardsOK, RunsWereApproved
<1> QED
  BY <1>1, <1>5, <1>6, <1>8, CallInterruptsType DEF IInv

LEMMA ToolEndsInv ==
  ASSUME IInv, NEW w \in Workers, ToolRuns(w) \/ ToolFails(w)
  PROVE  IInv'
<1>1. TypeOK /\ RequestsOK /\ ThreadsOK /\ CardsOK /\ RunsWereApproved
  BY DEF IInv
<1>2. /\ req[w].pc = "run" /\ req[w].pc \in NodePc
      /\ UNCHANGED <<thread, fresh, home, shown, approved>>
      /\ runs' = [runs EXCEPT ![At(w)] = IF @ < RunCap THEN @ + 1 ELSE @]
      /\ Goto(w, Next1(w, "tools")) \/ Goto(w, Free)
  BY DEF ToolRuns, ToolFails, NodePc, seen
<1>3. Later(fresh, home, approved, fresh', home', approved')
  BY <1>2, SameLater
<1>4. /\ Left(w) /\ At(w) \in approved
      /\ OkCalls(req[w].calls, req[w].conv, fresh', home')
      /\ OkAnswers(req[w].answers, req[w].conv, fresh', home', approved')
  BY <1>2, NodeInv
<1>5. ASSUME Goto(w, Next1(w, "tools")) PROVE RequestsOK'
  BY <1>1, <1>3, <1>4, <1>5, ToolsOK, RequestsStep DEF Next1, Goto
<1>6. ASSUME Goto(w, Free) PROVE RequestsOK'
  BY <1>1, <1>3, <1>6, FreeOK, RequestsStep DEF Goto
<1>7. ThreadsOK' /\ CardsOK'
  BY <1>1, <1>2 DEF ThreadsOK, CardsOK
<1>8. RunsWereApproved'
  BY <1>1, <1>2, <1>4 DEF RunsWereApproved, TypeOK
<1> QED
  BY <1>1, <1>2, <1>4, <1>5, <1>6, <1>7, <1>8, ToolEndsType DEF IInv

LEMMA NodeEndsInv ==
  ASSUME IInv, NEW w \in Workers, NodeEnds(w)
  PROVE  IInv'
<1> DEFINE c == req[w].conv
           r == Model(c, req[w].memory, req[w].bound)
<1>1. TypeOK /\ RequestsOK /\ ThreadsOK /\ CardsOK /\ RunsWereApproved
  BY DEF IInv
<1>2. /\ req[w].pc \in NodePc /\ req' = [req EXCEPT ![w] = r]
      /\ UNCHANGED <<fresh, home, shown, approved, runs>>
      /\ \/ UNCHANGED thread
         \/ thread' = [thread EXCEPT ![c] = Saved(<<>>, <<>>)]
  BY DEF NodeEnds, Goto, NodePc, seen, done
<1>3. Later(fresh, home, approved, fresh', home', approved')
  BY <1>2, SameLater
<1>4. RequestsOK'
  BY <1>1, <1>2, <1>3, ModelOK, RequestsStep
<1>5. c \in Conversations
  BY <1>2, NodeInv
<1>6. ThreadsOK'
  BY <1>1, <1>2, <1>3, <1>5, NothingAsked, ThreadsStep
<1>7. CardsOK' /\ RunsWereApproved'
  BY <1>1, <1>2 DEF CardsOK, RunsWereApproved
<1> QED
  BY <1>1, <1>4, <1>6, <1>7, NodeEndsType DEF IInv

LEMMA ReadLedgerInv ==
  ASSUME IInv, NEW w \in Workers, NEW c \in Conversations, NEW id \in Ids,
         NEW d \in Decisions, ReadLedger(w, c, id, d)
  PROVE  IInv'
<1>1. TypeOK /\ RequestsOK /\ ThreadsOK /\ CardsOK /\ RunsWereApproved
  BY DEF IInv
<1>2. /\ id \in shown /\ UNCHANGED <<thread, fresh, home, shown, runs>>
      /\ approved' = IF d = "approve" /\ home[id] = c
                       THEN approved \union {id} ELSE approved
      /\ \/ UNCHANGED req
         \/ \E pc \in {"record", "resume"} : Goto(w, Decide(pc, c, id, d, ledger[id]))
  BY DEF ReadLedger, done
<1>3. Later(fresh, home, approved, fresh', home', approved')
  BY <1>2 DEF Later
<1>4. OkDecision(id, d, c, fresh', home', approved')
  BY <1>1, <1>2 DEF OkDecision, CardsOK
<1>5. ASSUME NEW pc \in {"record", "resume"}, Goto(w, Decide(pc, c, id, d, ledger[id]))
      PROVE  RequestsOK'
  <2>1. OkRequest(Decide(pc, c, id, d, ledger[id]), fresh', home', approved')
    BY <1>4, DecideOK DEF DecidePc
  <2> QED
    BY <1>1, <1>3, <1>5, <2>1, RequestsStep DEF Goto
<1>6. ASSUME UNCHANGED req PROVE RequestsOK'
  BY <1>1, <1>3, <1>6, RequestLater DEF RequestsOK, TypeOK
<1>7. ThreadsOK'
  BY <1>1, <1>2, <1>3, SequenceLater, ThreadType DEF ThreadsOK
<1>8. CardsOK' /\ RunsWereApproved'
  BY <1>1, <1>2 DEF CardsOK, RunsWereApproved
<1> QED
  BY <1>1, <1>2, <1>5, <1>6, <1>7, <1>8, ReadLedgerType DEF IInv

\* The steps that end a request without a trace in what was seen.
LEMMA EndsInv ==
  ASSUME IInv, NEW w \in Workers, ModelAnswers(w) \/ NotFound(w) \/ Replays(w)
  PROVE  IInv'
<1>1. TypeOK'
  BY ModelAnswersType, NotFoundType, ReplaysType DEF IInv
<1>2. /\ req' = [req EXCEPT ![w] = Free]
      /\ UNCHANGED <<thread, fresh, home, shown, approved, runs>>
  BY DEF ModelAnswers, NotFound, Replays, Goto, seen, done
<1> QED
  BY <1>1, <1>2, EndInv

\* The steps of a decision that only move it on.
LEMMA DecidesInv ==
  ASSUME IInv, NEW w \in Workers, Record(w) \/ Accepts(w)
  PROVE  IInv'
<1> DEFINE r == req[w]
<1>1. TypeOK /\ RequestsOK /\ ThreadsOK /\ CardsOK /\ RunsWereApproved
  BY DEF IInv
<1>2. /\ r.pc \in DecidePc
      /\ UNCHANGED <<thread, fresh, home, shown, approved, runs>>
      /\ \E pc \in DecidePc :
           req' = [req EXCEPT ![w] = Decide(pc, r.conv, r.id, r.decision, r.prior)]
  BY DEF Record, Accepts, Goto, seen, done, DecidePc
<1>3. Later(fresh, home, approved, fresh', home', approved')
  BY <1>2, SameLater
<1>4. OkDecision(r.id, r.decision, r.conv, fresh', home', approved')
  BY <1>1, <1>2 DEF RequestsOK, OkRequest
<1>5. RequestsOK'
  <2>1. PICK pc \in DecidePc :
          req' = [req EXCEPT ![w] = Decide(pc, r.conv, r.id, r.decision, r.prior)]
    BY <1>2
  <2>2. OkRequest(Decide(pc, r.conv, r.id, r.decision, r.prior),
                  fresh', home', approved')
    BY <1>4, DecideOK
  <2> QED
    BY <1>1, <1>3, <2>1, <2>2, RequestsStep
<1>6. ThreadsOK' /\ CardsOK' /\ RunsWereApproved'
  BY <1>1, <1>2 DEF ThreadsOK, CardsOK, RunsWereApproved
<1> QED
  BY <1>1, <1>5, <1>6, RecordType, AcceptsType DEF IInv

LEMMA InvokeInv ==
  ASSUME IInv, NEW w \in Workers, Invoke(w)
  PROVE  IInv'
<1> DEFINE r == req[w]
           c == r.conv
           calls == thread[c].calls
           new == [id |-> r.id, decision |-> r.decision]
           answers == Append(thread[c].answers, new)
           node == Node("tools", c, TRUE, tools[c], calls, answers, 1)
<1>1. TypeOK /\ RequestsOK /\ ThreadsOK /\ CardsOK /\ RunsWereApproved
  BY DEF IInv
<1>2. /\ r.pc \in DecidePc /\ UNCHANGED <<fresh, home, shown, approved, runs>>
      /\ \/ req' = [req EXCEPT ![w] = Free] /\ UNCHANGED thread
         \/ /\ req' = [req EXCEPT ![w] = node]
            /\ thread' = [thread EXCEPT ![c] = Saved(calls, answers)]
  <2>1. r.pc \in DecidePc /\ UNCHANGED <<fresh, home, shown, approved, runs>>
    BY DEF Invoke, DecidePc, done
  <2>2. CASE calls = <<>>
    BY <2>1, <2>2 DEF Invoke, Goto
  <2>3. CASE calls # <<>>
    BY <2>1, <2>3 DEF Invoke, Goto
  <2> QED
    BY <2>2, <2>3
<1>3. Later(fresh, home, approved, fresh', home', approved')
  BY <1>2, SameLater
<1>4. /\ c \in Conversations /\ r.id \in Ids /\ r.decision \in Decisions
      /\ OkDecision(r.id, r.decision, c, fresh', home', approved')
  BY <1>1, <1>2, DecideFacts DEF RequestsOK, OkRequest
<1>5. /\ thread[c].calls \in IdSeqs /\ thread[c].answers \in Seq(Answer)
      /\ OkCalls(calls, c, fresh', home')
      /\ OkAnswers(thread[c].answers, c, fresh', home', approved')
  BY <1>1, <1>2, <1>4, ThreadType DEF ThreadsOK
<1>6. OkAnswers(answers, c, fresh', home', approved')
  <2>1. new \in Answer /\ new.id = r.id /\ new.decision = r.decision
    BY <1>4 DEF Answer
  <2>2. /\ Len(answers) = Len(thread[c].answers) + 1
        /\ \A n \in 1..Len(thread[c].answers) : answers[n] = thread[c].answers[n]
        /\ answers[Len(thread[c].answers) + 1] = new
    <3> HIDE DEF new
    <3> QED BY <1>5, <2>1, AppendedAt
  <2>3. Len(thread[c].answers) \in Nat
    BY <1>5
  <2>4. \A n \in 1..Len(answers) :
          n \in 1..Len(thread[c].answers) \/ n = Len(thread[c].answers) + 1
    BY <2>2, <2>3
  <2> HIDE DEF answers, new
  <2> QED
    BY <1>4, <1>5, <2>1, <2>2, <2>4 DEF OkAnswers
<1> HIDE DEF answers, calls
<1>7. RequestsOK'
  <2>1. OkRequest(node, fresh', home', approved')
    BY <1>5, <1>6, ToolsOK
  <2> QED
    BY <1>1, <1>2, <1>3, <2>1, FreeOK, RequestsStep
<1>8. ThreadsOK'
  BY <1>1, <1>2, <1>3, <1>4, <1>5, <1>6, ThreadsStep
<1>9. CardsOK' /\ RunsWereApproved'
  BY <1>1, <1>2 DEF CardsOK, RunsWereApproved
<1> QED
  BY <1>1, <1>7, <1>8, <1>9, InvokeType DEF IInv

LEMMA ClearThreadInv ==
  ASSUME IInv, NEW c \in Conversations, ClearThread(c)
  PROVE  IInv'
<1>1. TypeOK /\ RequestsOK /\ ThreadsOK /\ CardsOK /\ RunsWereApproved
  BY DEF IInv
<1>2. /\ UNCHANGED <<req, fresh, home, shown, approved, runs>>
      /\ thread' = [thread EXCEPT ![c] = NoThread]
  BY DEF ClearThread, seen, done
<1>3. ThreadsOK'
  <2> SUFFICES ASSUME NEW d \in Conversations
               PROVE  /\ OkCalls(thread'[d].calls, d, fresh', home')
                      /\ OkAnswers(thread'[d].answers, d, fresh', home', approved')
    BY DEF ThreadsOK
  <2>1. CASE d = c
    BY <1>1, <1>2, <2>1, NothingAsked DEF TypeOK, NoThread
  <2>2. CASE d # c
    <3>1. thread'[d] = thread[d]
      BY <1>1, <1>2, <2>2 DEF TypeOK
    <3> QED
      BY <1>1, <1>2, <3>1 DEF ThreadsOK
  <2> QED
    BY <2>1, <2>2
<1>4. RequestsOK' /\ CardsOK' /\ RunsWereApproved'
  BY <1>1, <1>2 DEF RequestsOK, CardsOK, RunsWereApproved
<1> QED
  BY <1>1, <1>3, <1>4, ClearThreadType DEF IInv

LEMMA RestartInv ==
  ASSUME IInv, Restart
  PROVE  IInv'
<1>1. RequestsOK' /\ ThreadsOK'
  BY FreeOK, NothingAsked DEF Restart, RequestsOK, ThreadsOK, NoThread
<1> QED
  BY <1>1, RestartType DEF IInv, Restart, CardsOK, RunsWereApproved

LEMMA NextInv == IInv /\ [Next]_vars => IInv'
<1> SUFFICES ASSUME IInv, [Next]_vars PROVE IInv'
  OBVIOUS
<1>1. ASSUME NEW w \in Workers, Step(w) PROVE IInv'
  BY <1>1, EndsInv, ModelCallsInv, CallInv, CallInterruptsInv, ToolEndsInv,
     NodeEndsInv, DecidesInv, InvokeInv DEF Step
<1>2. CASE UNCHANGED vars
  <2>1. UNCHANGED <<ledger, pending_args, owned, tools, thread, req, fresh, home,
                    shown, approved, cancelled, runs, ranHere, restarts>>
    BY <1>2 DEF vars, maps, seen, done
  <2>2. TypeOK'
    BY <2>1 DEF IInv, TypeOK
  <2>3. RequestsOK' /\ ThreadsOK' /\ CardsOK' /\ RunsWereApproved'
    BY <2>1 DEF IInv, RequestsOK, ThreadsOK, CardsOK, RunsWereApproved
  <2> QED
    BY <2>2, <2>3 DEF IInv
<1>3. ASSUME NEW w \in Workers, NEW c \in Conversations, NEW bound \in Bindings,
             Ask(w, c, bound)
      PROVE  IInv'
  BY <1>3, AskInv
<1>4. ASSUME NEW w \in Workers, NEW c \in Conversations, NEW id \in Ids,
             NEW d \in Decisions, ReadLedger(w, c, id, d)
      PROVE  IInv'
  BY <1>4, ReadLedgerInv
<1>5. ASSUME NEW c \in Conversations, ClearThread(c) PROVE IInv'
  BY <1>5, ClearThreadInv
<1>6. ASSUME Restart PROVE IInv'
  BY <1>6, RestartInv
<1> QED
  <2>1. CASE Next
    BY <1>1, <1>3, <1>4, <1>5, <1>6, <2>1 DEF Next
  <2> QED
    BY <1>2, <2>1

LEMMA Invariance == Spec => []IInv
<1> QED
  BY InvInit, NextInv, PTL DEF Spec

-----------------------------------------------------------------------------
(* The theorems.                                                           *)

\* Every variable has its type; for a running tool this needs the rest of
\* the invariant: the request stands at one of the calls of its message.
THEOREM TypeCorrect == Spec => []TypeOK
<1>1. IInv => TypeOK
  BY DEF IInv
<1> QED
  BY <1>1, Invariance, PTL

\* A tool never runs for a call that was not approved in the conversation
\* that asked for it, however requests of any number of server threads
\* interleave, and across deletions of the conversation and restarts.
THEOREM OnlyApprovedToolsRun == Spec => []RunsWereApproved
<1>1. IInv => RunsWereApproved
  BY DEF IInv
<1> QED
  BY <1>1, Invariance, PTL

-----------------------------------------------------------------------------
(* One approval at a time.  When a client sends one request at a time and  *)
(* a message of the model asks for one approval, more is true, and each    *)
(* part of it needs the others: a conversation that waits for a decision   *)
(* waits for the call its thread stands at (Waits), what was decided about *)
(* a call that is being answered or has run is what the ledger holds and   *)
(* every request about it says (AnswersFixed, RanFixed), and a call that   *)
(* has run is in no map and no request stands at it (SpentOK).             *)

Stands(r)     == r.pc \in NodePc /\ r.i = 1
Answering(r)  == Stands(r) /\ r.answers # <<>>
Decides(r, y) == r.pc \in DecidePc /\ r.id = y

Alone ==
  \A v, w \in Workers : v # w =>
    /\ req[v].pc # "free" /\ req[w].pc # "free" => req[v].conv # req[w].conv
    /\ req[v].pc \in DecidePc /\ req[w].pc \in DecidePc => req[v].id # req[w].id

Shape(r, cards) ==
  /\ r.pc \in NodePc =>
       /\ Len(r.calls) = 1 /\ r.i \in {1, 2}
       /\ \/ r.answers = <<>>
          \/ /\ r.memory /\ r.bound = "export" /\ Len(r.answers) = 1
             /\ r.answers[1].id = r.calls[1]
  /\ r.pc = "run" => Answering(r) /\ r.answers[1].decision = "approve"
  /\ r.pc \in DecidePc => r.prior \in {"none", r.decision} /\ r.id \in cards
  /\ r.pc = "record" => r.prior = "none"

Turn(r, own, bindings, args, led, asked, cards) ==
  /\ r.pc = "model" /\ r.memory => own[r.conv] = {} /\ bindings[r.conv] = r.bound
  /\ r.pc \in NodePc /\ r.memory =>
       /\ bindings[r.conv] = r.bound
       /\ own[r.conv] = IF r.pc = "tools" /\ Answering(r) THEN {r.calls[1]} ELSE {}
  /\ r.pc = "run" => r.calls[1] \notin args
  /\ r.pc = "invoke" => r.id \in own[r.conv]
  /\ r.pc \in {"resume", "invoke"} => led[r.id] = r.decision \/ asked[r.id] # r.conv
  /\ Stands(r) /\ r.answers = <<>> => r.calls[1] \notin cards

Shapes == \A w \in Workers : Shape(req[w], shown)
Turns  == \A w \in Workers : Turn(req[w], owned, tools, pending_args, ledger, home, shown)

Waiting(c, y, t, own, bindings, args, told) ==
  /\ t[c] = Saved(<<y>>, <<>>) /\ bindings[c] = "export"
  /\ own[c] = {y} /\ y \in args /\ y \notin told

Waits ==
  \A c \in Conversations :
    \/ owned[c] = {}
    \/ \E w \in Workers : Answering(req[w]) /\ req[w].conv = c
    \/ \E y \in Ids : Waiting(c, y, thread, owned, tools, pending_args, cancelled)

OwnedHome == \A c \in Conversations : \A y \in owned[c] : home[y] = c /\ y \notin fresh

Fixed(y, d, led, told, rq) ==
  /\ led[y] = d
  /\ d = "approve" => y \notin told
  /\ \A v \in Workers : Decides(rq[v], y) => rq[v].decision = d /\ rq[v].prior = d

AnswersFixed ==
  \A w \in Workers : Answering(req[w]) =>
    Fixed(req[w].calls[1], req[w].answers[1].decision, ledger, cancelled, req)

RanFixed ==
  \A y \in ranHere : runs[y] > 0 /\ Fixed(y, "approve", ledger, cancelled, req)

Spent(y, times, args, unused, own, rq) ==
  /\ times[y] = 1 /\ y \notin args /\ y \notin unused
  /\ \A c \in Conversations : y \notin own[c]
  /\ \A w \in Workers : Stands(rq[w]) => rq[w].calls[1] # y

SpentOK == \A y \in Ids : runs[y] > 0 => Spent(y, runs, pending_args, fresh, owned, req)

SInv ==
  /\ Alone /\ Shapes /\ Turns /\ Waits /\ OwnedHome /\ AnswersFixed /\ RanFixed
  /\ SpentOK /\ cancelled \subseteq shown

(* What it says of one request.                                            *)
LEMMA StandFacts ==
  ASSUME IInv, SInv, NEW w \in Workers, req[w].pc \in NodePc
  PROVE  /\ req[w].conv \in Conversations /\ req[w].memory \in BOOLEAN
         /\ req[w].bound \in Bound /\ req[w].calls \in IdSeqs
         /\ req[w].calls = <<req[w].calls[1]>> /\ Len(req[w].calls) = 1
         /\ req[w].i \in {1, 2}
         /\ req[w].calls[1] \in Ids /\ req[w].calls[1] \notin fresh
         /\ home[req[w].calls[1]] = req[w].conv
         /\ Left(w) <=> req[w].i = 1
         /\ Left(w) => At(w) = req[w].calls[1] /\ Stands(req[w])
<1>1. /\ req[w].conv \in Conversations /\ req[w].memory \in BOOLEAN
      /\ req[w].bound \in Bound /\ req[w].calls \in IdSeqs
  BY NodeFacts DEF IInv
<1>2. Len(req[w].calls) = 1 /\ req[w].i \in {1, 2}
  BY DEF SInv, Shapes, Shape
<1>3. req[w].calls \in Seq(Ids) /\ req[w].calls[1] \in Ids
  BY <1>1, <1>2, CallsType
<1>4. req[w].calls = <<req[w].calls[1]>>
  BY <1>2, <1>3
<1>5. req[w].calls[1] \notin fresh /\ home[req[w].calls[1]] = req[w].conv
  BY <1>2, NodeInv DEF OkCalls
<1>6. Left(w) <=> req[w].i = 1
  BY <1>2 DEF Left
<1>7. req[w].i = 1 => At(w) = req[w].calls[1] /\ Stands(req[w])
  BY DEF At, Stands
<1> QED BY <1>1, <1>2, <1>3, <1>4, <1>5, <1>6, <1>7

\* No two requests stand at one call.
LEMMA StandApart ==
  ASSUME IInv, SInv, NEW v \in Workers, NEW w \in Workers, v # w,
         req[v].pc \in NodePc, req[w].pc \in NodePc
  PROVE  req[v].calls[1] # req[w].calls[1]
<1>1. req[v].conv # req[w].conv
  BY DEF SInv, Alone, NodePc
<1> QED BY <1>1, StandFacts

(* Request w moves on, or ends.                                            *)
LEMMA MovesReq ==
  ASSUME TypeOK, NEW w \in Workers, NEW r, Goto(w, r)
  PROVE  /\ req'[w] = r
         /\ \A v \in Workers : v # w => req'[v] = req[v]
         /\ \A v \in Workers : v = w \/ req'[v] = req[v]
BY DEF TypeOK, Goto

LEMMA MovesAlone ==
  ASSUME TypeOK, Alone, NEW w \in Workers, NEW r, Goto(w, r),
         r.pc = "free" \/ (req[w].pc # "free" /\ r.conv = req[w].conv),
         r.pc \in DecidePc => req[w].pc \in DecidePc /\ r.id = req[w].id
  PROVE  Alone'
BY MovesReq DEF Alone

LEMMA RecordFields ==
  ASSUME NEW pc, NEW c, NEW memory, NEW bound, NEW calls, NEW answers, NEW i,
         NEW id, NEW decision, NEW prior
  PROVE  /\ LET m == Model(c, memory, bound)
            IN  m.pc = "model" /\ m.conv = c /\ m.memory = memory /\ m.bound = bound
         /\ LET n == Node(pc, c, memory, bound, calls, answers, i)
            IN  /\ n.pc = pc /\ n.conv = c /\ n.memory = memory /\ n.bound = bound
                /\ n.calls = calls /\ n.answers = answers /\ n.i = i
         /\ LET d == Decide(pc, c, id, decision, prior)
            IN  /\ d.pc = pc /\ d.conv = c /\ d.id = id /\ d.decision = decision
                /\ d.prior = prior
BY DEF Model, Node, Decide

(* What a step of request w leaves, for each part of the invariant.        *)
LEMMA FixedStays ==
  ASSUME TypeOK, AnswersFixed, RanFixed, NEW w \in Workers, NEW r, Goto(w, r),
         UNCHANGED <<runs, ranHere>>,
         \A y \in Ids : (Answering(req[w]) /\ req[w].calls[1] = y) \/ y \in ranHere
                        \/ (\E v \in Workers : v # w /\ Answering(req[v]) /\ req[v].calls[1] = y)
                          => ledger'[y] = ledger[y] /\ (ledger[y] = "approve" /\ y \in cancelled' => y \in cancelled),
         \A v \in Workers : Answering(req[v]) => req[v].calls[1] \in Ids,
         Answering(r) => /\ Answering(req[w]) /\ r.calls = req[w].calls
                         /\ r.answers = req[w].answers,
         \A y : Decides(r, y) => /\ Decides(req[w], y) /\ r.decision = req[w].decision
                                 /\ r.prior = req[w].prior
  PROVE  AnswersFixed' /\ RanFixed'
<1>1. /\ req'[w] = r
      /\ \A v \in Workers : v = w \/ req'[v] = req[v]
  BY MovesReq
<1>2. ranHere \subseteq Ids
  BY DEF TypeOK
<1>3. ASSUME NEW y, \A v \in Workers : Decides(req[v], y) =>
                       req[v].decision = ledger[y] /\ req[v].prior = ledger[y]
      PROVE  \A v \in Workers : Decides(req'[v], y) =>
                       req'[v].decision = ledger[y] /\ req'[v].prior = ledger[y]
  BY <1>1, <1>3
<1>4. ASSUME NEW v \in Workers, Answering(req'[v])
      PROVE  Fixed(req'[v].calls[1], req'[v].answers[1].decision, ledger', cancelled', req')
  <2>1. /\ Answering(req[v]) /\ req'[v].calls = req[v].calls
        /\ req'[v].answers = req[v].answers
    BY <1>1, <1>4
  <2> DEFINE y == req[v].calls[1]
             d == req[v].answers[1].decision
  <2>2. Fixed(y, d, ledger, cancelled, req) /\ y \in Ids
    BY <2>1 DEF AnswersFixed
  <2>3. ledger'[y] = ledger[y] /\ (ledger[y] = "approve" /\ y \in cancelled' => y \in cancelled)
    BY <2>1, <2>2
  <2> HIDE DEF y, d
  <2>4. Fixed(y, d, ledger', cancelled', req')
    BY <1>3, <2>2, <2>3 DEF Fixed
  <2> QED BY <2>1, <2>4 DEF y, d
<1>5. ASSUME NEW y \in ranHere
      PROVE  Fixed(y, "approve", ledger', cancelled', req')
  <2>1. Fixed(y, "approve", ledger, cancelled, req) /\ y \in Ids
    BY <1>2, <1>5 DEF RanFixed
  <2>2. ledger'[y] = ledger[y] /\ (ledger[y] = "approve" /\ y \in cancelled' => y \in cancelled)
    BY <2>1, <1>5
  <2> QED
    BY <1>3, <2>1, <2>2 DEF Fixed
<1> QED BY <1>4, <1>5 DEF AnswersFixed, RanFixed

LEMMA SpentStays ==
  ASSUME TypeOK, SpentOK, NEW w \in Workers, NEW r, Goto(w, r),
         UNCHANGED runs, fresh' \subseteq fresh,
         \A y \in Ids : runs[y] > 0 =>
           /\ y \in pending_args' => y \in pending_args
           /\ \A c \in Conversations : y \in owned'[c] => y \in owned[c],
         Stands(r) => r.calls[1] \in Ids /\ ~(runs[r.calls[1]] > 0)
  PROVE  SpentOK'
<1>1. /\ req'[w] = r
      /\ \A v \in Workers : v = w \/ req'[v] = req[v]
  BY MovesReq
<1> SUFFICES ASSUME NEW y \in Ids, runs[y] > 0
             PROVE  Spent(y, runs', pending_args', fresh', owned', req')
  BY DEF SpentOK
<1>2. Spent(y, runs, pending_args, fresh, owned, req)
  BY DEF SpentOK
<1> QED BY <1>1, <1>2 DEF Spent

LEMMA WaitsStep ==
  ASSUME TypeOK, Waits, NEW w \in Workers, NEW c \in Conversations, NEW r, Goto(w, r),
         Answering(req[w]) => req[w].conv = c,
         \A d \in Conversations \ {c} :
           /\ owned'[d] = owned[d] /\ tools'[d] = tools[d] /\ thread'[d] = thread[d]
           /\ \A y \in owned[d] : y \in pending_args =>
                /\ y \in pending_args'
                /\ y \in cancelled' => y \in cancelled,
         \/ owned'[c] = {}
         \/ Answering(r) /\ r.conv = c
         \/ \E y \in Ids : Waiting(c, y, thread', owned', tools', pending_args', cancelled')
  PROVE  Waits'
<1>1. /\ req'[w] = r
      /\ \A v \in Workers : v # w => req'[v] = req[v]
  BY MovesReq
<1> SUFFICES ASSUME NEW d \in Conversations
             PROVE  \/ owned'[d] = {}
                    \/ \E v \in Workers : Answering(req'[v]) /\ req'[v].conv = d
                    \/ \E y \in Ids : Waiting(d, y, thread', owned', tools', pending_args', cancelled')
  BY DEF Waits
<1>2. CASE d = c
  BY <1>1, <1>2
<1>3. CASE d # c
  <2>1. \/ owned[d] = {}
        \/ \E v \in Workers : Answering(req[v]) /\ req[v].conv = d
        \/ \E y \in Ids : Waiting(d, y, thread, owned, tools, pending_args, cancelled)
    BY DEF Waits
  <2>2. ASSUME NEW v \in Workers, Answering(req[v]) /\ req[v].conv = d
        PROVE  Answering(req'[v]) /\ req'[v].conv = d
    BY <1>1, <1>3, <2>2
  <2>3. ASSUME NEW y \in Ids, Waiting(d, y, thread, owned, tools, pending_args, cancelled)
        PROVE  Waiting(d, y, thread', owned', tools', pending_args', cancelled')
    BY <1>3, <2>3 DEF Waiting
  <2> QED BY <1>3, <2>1, <2>2, <2>3
<1> QED BY <1>2, <1>3

\* A conversation whose request does not answer its call waits as Waits says.
LEMMA OwnWaits ==
  ASSUME SInv, NEW w \in Workers, req[w].pc # "free", ~Answering(req[w]),
         req[w].conv \in Conversations
  PROVE  \/ owned[req[w].conv] = {}
         \/ \E y \in Ids : Waiting(req[w].conv, y, thread, owned, tools, pending_args, cancelled)
<1>1. \A v \in Workers : Answering(req[v]) /\ req[v].conv = req[w].conv => v = w
  BY DEF SInv, Alone, Answering, Stands, NodePc
<1> QED BY <1>1 DEF SInv, Waits

LEMMA ShapesStep ==
  ASSUME TypeOK, Shapes, NEW w \in Workers, NEW r, Goto(w, r),
         shown \subseteq shown', Shape(r, shown')
  PROVE  Shapes'
<1> SUFFICES ASSUME NEW v \in Workers PROVE Shape(req'[v], shown')
  BY DEF Shapes
<1>1. req'[w] = r /\ (v # w => req'[v] = req[v])
  BY MovesReq
<1>2. Shape(req[v], shown')
  BY DEF Shapes, Shape
<1> QED BY <1>1, <1>2

\* c is the conversation whose maps the step may change.
LEMMA TurnsStep ==
  ASSUME TypeOK, Turns, NEW w \in Workers, NEW c \in Conversations, NEW r, Goto(w, r),
         \A v \in Workers : v # w /\ req[v].pc # "free" =>
           /\ req[v].conv # c
           /\ req[v].pc = "run" => (req[v].calls[1] \in pending_args' => req[v].calls[1] \in pending_args)
           /\ req[v].pc \in DecidePc => /\ ledger'[req[v].id] = ledger[req[v].id]
                                        /\ home'[req[v].id] = home[req[v].id]
           /\ Stands(req[v]) /\ req[v].answers = <<>> =>
                (req[v].calls[1] \in shown' => req[v].calls[1] \in shown),
         \A d \in Conversations \ {c} : owned'[d] = owned[d] /\ tools'[d] = tools[d],
         Turn(r, owned', tools', pending_args', ledger', home', shown')
  PROVE  Turns'
<1> SUFFICES ASSUME NEW v \in Workers, v # w
             PROVE  Turn(req[v], owned', tools', pending_args', ledger', home', shown')
  BY MovesReq DEF Turns
<1>1. CASE req[v].pc = "free"
  BY <1>1 DEF Turn, Stands, NodePc
<1>2. CASE req[v].pc # "free"
  <2>1. req[v].conv \in Conversations \ {c}
    BY <1>2, PcOf, IsModel, IsNode, IsDecide DEF TypeOK
  <2>2. owned'[req[v].conv] = owned[req[v].conv] /\ tools'[req[v].conv] = tools[req[v].conv]
    BY <2>1
  <2>3. Turn(req[v], owned, tools, pending_args, ledger, home, shown)
    BY DEF Turns
  <2> QED BY <1>2, <2>2, <2>3 DEF Turn, DecidePc
<1> QED BY <1>1, <1>2

LEMMA OwnedStep ==
  ASSUME TypeOK, OwnedHome, fresh' \subseteq fresh,
         \A y \in Ids : y \notin fresh => home'[y] = home[y] /\ y \notin fresh',
         \A d \in Conversations : \A y \in owned'[d] :
           y \in owned[d] \/ (home[y] = d /\ y \in Ids /\ y \notin fresh)
  PROVE  OwnedHome'
BY DEF OwnedHome, TypeOK

\* A request that is not free keeps others out of its conversation.
LEMMA Apart ==
  ASSUME SInv, NEW w \in Workers, req[w].pc # "free"
  PROVE  /\ \A v \in Workers : v # w /\ req[v].pc # "free" => req[v].conv # req[w].conv
         /\ req[w].pc \in DecidePc =>
              \A v \in Workers : v # w /\ req[v].pc \in DecidePc => req[v].id # req[w].id
BY DEF SInv, Alone

LEMMA SParts ==
  ASSUME IInv, SInv
  PROVE  /\ TypeOK /\ Alone /\ Shapes /\ Turns /\ Waits /\ OwnedHome /\ AnswersFixed /\ RanFixed
         /\ SpentOK /\ cancelled \subseteq shown
         /\ \A v \in Workers : Answering(req[v]) => req[v].calls[1] \in Ids
<1>1. \A v \in Workers : Answering(req[v]) => req[v].calls[1] \in Ids
  BY StandFacts DEF Answering, Stands
<1> QED BY <1>1 DEF IInv, SInv

\* The steps that only move the request on.
LEMMA QuietStep ==
  ASSUME IInv, SInv, NEW w \in Workers, req[w].pc # "free", NEW r, Goto(w, r),
         r.pc = "free" \/ r.conv = req[w].conv,
         r.pc \in DecidePc => req[w].pc \in DecidePc /\ r.id = req[w].id
                              /\ r.decision = req[w].decision /\ r.prior = req[w].prior,
         ~Answering(req[w]), ~Stands(r),
         UNCHANGED <<maps, thread, seen, done>>,
         Shape(r, shown), Turn(r, owned, tools, pending_args, ledger, home, shown)
  PROVE  SInv'
<1> DEFINE c == req[w].conv
<1>1. /\ UNCHANGED <<ledger, pending_args, owned, tools, thread, fresh, home, shown,
                     approved, cancelled, runs, ranHere>>
  BY DEF maps, seen, done
<1>2. c \in Conversations
  BY PcOf, IsModel, IsNode, IsDecide DEF IInv, TypeOK
<1>3. Alone'
  BY SParts, MovesAlone
<1>4. Shapes'
  BY SParts, ShapesStep, <1>1
<1>5. Turns'
  <2>1. \A v \in Workers : v # w /\ req[v].pc # "free" => req[v].conv # c
    BY Apart
  <2>2. \A v \in Workers : v # w /\ req[v].pc # "free" =>
           /\ req[v].conv # c
           /\ req[v].pc = "run" => (req[v].calls[1] \in pending_args' => req[v].calls[1] \in pending_args)
           /\ req[v].pc \in DecidePc => /\ ledger'[req[v].id] = ledger[req[v].id]
                                        /\ home'[req[v].id] = home[req[v].id]
           /\ Stands(req[v]) /\ req[v].answers = <<>> =>
                (req[v].calls[1] \in shown' => req[v].calls[1] \in shown)
    BY <1>1, <2>1
  <2>3. Turn(r, owned', tools', pending_args', ledger', home', shown')
    BY <1>1
  <2>4. \A d \in Conversations \ {c} : owned'[d] = owned[d] /\ tools'[d] = tools[d]
    BY <1>1
  <2> QED BY <1>2, <2>2, <2>3, <2>4, SParts, TurnsStep
<1>6. Waits'
  <2>1. owned[c] = {} \/ \E y \in Ids : Waiting(c, y, thread, owned, tools, pending_args, cancelled)
    BY OwnWaits, <1>2
  <2> QED BY <1>1, <1>2, <2>1, SParts, WaitsStep
<1>7. OwnedHome'
  BY <1>1, SParts, OwnedStep
<1>8. AnswersFixed' /\ RanFixed'
  <2>1. \A y : Decides(r, y) => /\ Decides(req[w], y) /\ r.decision = req[w].decision
                                 /\ r.prior = req[w].prior
    BY DEF Decides
  <2> QED BY <1>1, <2>1, SParts, FixedStays DEF Answering
<1>9. SpentOK'
  BY <1>1, SParts, SpentStays
<1> QED BY <1>1, <1>3, <1>4, <1>5, <1>6, <1>7, <1>8, <1>9, SParts DEF SInv

LEMMA FreeIdle ==
  /\ Free.pc = "free" /\ ~Stands(Free) /\ ~Answering(Free) /\ \A y : ~Decides(Free, y)
  /\ Shape(Free, shown) /\ Shape(Free, shown')
  /\ Turn(Free, owned, tools, pending_args, ledger, home, shown)
  /\ Turn(Free, owned', tools', pending_args', ledger', home', shown')
BY DEF Free, Stands, Answering, Decides, Shape, Turn, NodePc, DecidePc

LEMMA SModelAnswers ==
  ASSUME IInv, SInv, NEW w \in Workers, ModelAnswers(w)
  PROVE  SInv'
<1>1. /\ req[w].pc = "model" /\ Goto(w, Free) /\ UNCHANGED <<maps, thread, seen, done>>
  BY DEF ModelAnswers
<1>2. ~Answering(req[w]) /\ Free.pc \notin DecidePc
  BY <1>1 DEF Answering, Stands, NodePc, DecidePc, Free
<1> QED BY <1>1, <1>2, FreeIdle, QuietStep

\* A request that has passed its call.
LEMMA PassedFacts ==
  ASSUME IInv, SInv, NEW w \in Workers, req[w].pc \in NodePc, Left(w)
  PROVE  LET r == Next1(w, "tools") IN
         /\ r.pc = "tools" /\ r.conv = req[w].conv /\ r.memory = req[w].memory
         /\ r.bound = req[w].bound /\ r.calls = req[w].calls /\ r.answers = req[w].answers
         /\ r.i = 2 /\ ~Stands(r) /\ ~Answering(r) /\ \A y : ~Decides(r, y)
<1>1. req[w].i = 1
  BY StandFacts
<1> DEFINE r == Next1(w, "tools")
<1>2. /\ r.pc = "tools" /\ r.conv = req[w].conv /\ r.memory = req[w].memory
      /\ r.bound = req[w].bound /\ r.calls = req[w].calls /\ r.answers = req[w].answers
      /\ r.i = 2
  BY <1>1 DEF Next1, Node
<1> HIDE DEF r
<1>3. ~Stands(r) /\ ~Answering(r) /\ \A y : ~Decides(r, y)
  BY <1>2 DEF Stands, Answering, Decides, DecidePc
<1> QED BY <1>2, <1>3 DEF r

LEMMA SCallUnknown ==
  ASSUME IInv, SInv, NEW w \in Workers, CallUnknown(w)
  PROVE  SInv'
<1> DEFINE r == Next1(w, "tools")
<1>1. /\ req[w].pc = "tools" /\ Left(w) /\ req[w].bound # "export" /\ Goto(w, r)
      /\ UNCHANGED <<maps, thread, seen, done>>
  BY DEF CallUnknown, Known
<1>2. /\ r.pc = "tools" /\ r.conv = req[w].conv /\ r.memory = req[w].memory
      /\ r.bound = req[w].bound /\ r.calls = req[w].calls /\ r.answers = req[w].answers
      /\ r.i = 2 /\ ~Stands(r) /\ ~Answering(r)
  BY <1>1, PassedFacts DEF NodePc
<1> HIDE DEF r
<1>3. /\ Shape(req[w], shown)
      /\ Turn(req[w], owned, tools, pending_args, ledger, home, shown)
  BY DEF SInv, Shapes, Turns
<1>4. ~Answering(req[w])
  BY <1>1, <1>3 DEF Shape, Answering, NodePc
<1>5. Shape(r, shown)
  BY <1>1, <1>2, <1>3 DEF Shape, NodePc, DecidePc
<1>6. Turn(r, owned, tools, pending_args, ledger, home, shown)
  BY <1>1, <1>2, <1>3, <1>4 DEF Turn, NodePc
<1>7. r.pc \notin DecidePc
  BY <1>2 DEF DecidePc
<1> QED BY <1>1, <1>2, <1>4, <1>5, <1>6, <1>7, QuietStep

LEMMA SAccepts ==
  ASSUME IInv, SInv, NEW w \in Workers, Accepts(w)
  PROVE  SInv'
<1> DEFINE q == req[w]
           r == Decide("invoke", q.conv, q.id, q.decision, q.prior)
<1>1. /\ q.pc = "resume" /\ Goto(w, r) /\ q.id \in pending_args /\ q.id \in owned[q.conv]
      /\ UNCHANGED <<maps, thread, seen, done>>
  BY DEF Accepts, Foreign, Settled, Interrupts
<1>2. /\ r.pc = "invoke" /\ r.conv = q.conv /\ r.id = q.id /\ r.decision = q.decision
      /\ r.prior = q.prior
  BY DEF Decide
<1> HIDE DEF r
<1>3. Shape(q, shown) /\ Turn(q, owned, tools, pending_args, ledger, home, shown)
  BY DEF SInv, Shapes, Turns
<1>4. ~Answering(q) /\ ~Stands(r)
  BY <1>1, <1>2 DEF Answering, Stands, NodePc
<1>5. Shape(r, shown)
  BY <1>1, <1>2, <1>3 DEF Shape, NodePc, DecidePc
<1>6. Turn(r, owned, tools, pending_args, ledger, home, shown)
  BY <1>1, <1>2, <1>3, <1>4 DEF Turn, NodePc
<1>7. q.pc \in DecidePc
  BY <1>1 DEF DecidePc
<1> QED BY <1>1, <1>2, <1>4, <1>5, <1>6, <1>7, QuietStep

\* A request that stands at its call: the call is its conversation's, has not
\* run, and no other request knows it.
LEMMA StandOwn ==
  ASSUME IInv, SInv, NEW w \in Workers, req[w].pc \in NodePc, Left(w)
  PROVE  /\ Stands(req[w]) /\ At(w) = req[w].calls[1] /\ At(w) \in Ids /\ At(w) \notin fresh
         /\ runs[At(w)] = 0
         /\ \A v \in Workers : v # w /\ req[v].pc \in NodePc => req[v].calls[1] # At(w)
         /\ \A d \in Conversations \ {req[w].conv} : At(w) \notin owned[d]
<1>1. /\ Stands(req[w]) /\ At(w) = req[w].calls[1] /\ At(w) \in Ids /\ At(w) \notin fresh
      /\ home[At(w)] = req[w].conv
  BY StandFacts
<1>2. ~(runs[At(w)] > 0)
  BY <1>1 DEF SInv, SpentOK, Spent
<1>3. runs[At(w)] = 0
  <2>1. runs[At(w)] \in 0..2
    BY <1>1 DEF IInv, TypeOK, RunCap
  <2> QED BY <1>2, <2>1
<1>4. \A v \in Workers : v # w /\ req[v].pc \in NodePc => req[v].calls[1] # At(w)
  BY <1>1, StandApart
<1>5. \A d \in Conversations \ {req[w].conv} : At(w) \notin owned[d]
  BY <1>1 DEF SInv, OwnedHome
<1> QED BY <1>1, <1>3, <1>4, <1>5

\* The steps that resolve a call: its arguments and its card are dropped.
LEMMA ResolveStep ==
  ASSUME IInv, SInv, NEW w \in Workers, req[w].pc = "tools", Left(w), Known(w), Answered(w),
         NEW r, Goto(w, r), r.pc \in NodePc, r.conv = req[w].conv, r.memory = req[w].memory,
         r.bound = req[w].bound, r.calls = req[w].calls, r.answers = req[w].answers,
         r.i \in {1, 2}, r.pc = "tools" => r.i = 2,
         r.pc = "run" => r.i = 1 /\ req[w].answers[1].decision = "approve",
         pending_args' = pending_args \ {At(w)}, owned' = Forget(w),
         UNCHANGED <<ledger, tools, thread, seen, done>>
  PROVE  SInv'
<1> DEFINE c == req[w].conv
           y == At(w)
<1>1. UNCHANGED <<ledger, tools, thread, fresh, home, shown, approved, cancelled, runs, ranHere>>
  BY DEF seen, done
<1>2. /\ Stands(req[w]) /\ y = req[w].calls[1] /\ y \in Ids /\ y \notin fresh /\ runs[y] = 0
      /\ \A v \in Workers : v # w /\ req[v].pc \in NodePc => req[v].calls[1] # y
      /\ \A d \in Conversations \ {c} : y \notin owned[d]
  BY StandOwn DEF NodePc
<1>3. /\ c \in Conversations /\ Len(req[w].calls) = 1 /\ req[w].i = 1
  BY StandFacts DEF NodePc
<1>4. /\ Shape(req[w], shown)
      /\ Turn(req[w], owned, tools, pending_args, ledger, home, shown)
  BY DEF SInv, Shapes, Turns
<1>5. req[w].answers # <<>>
  BY <1>3 DEF Answered
<1>6. Answering(req[w]) /\ req[w].memory /\ owned[c] = {y}
  BY <1>2, <1>4, <1>5 DEF Answering, Shape, Turn, NodePc
<1>7. /\ owned'[c] = {}
      /\ \A d \in Conversations \ {c} : owned'[d] = owned[d]
      /\ \A d \in Conversations : owned'[d] \subseteq owned[d]
  BY <1>3, <1>6 DEF Forget, IInv, TypeOK
<1> HIDE DEF y, c
<1>8. Alone'
  BY SParts, MovesAlone DEF NodePc, DecidePc
<1>9. Shapes'
  <2>1. Shape(r, shown)
    BY <1>2, <1>4, <1>5 DEF Shape, Answering, Stands, NodePc, DecidePc
  <2> QED BY <1>1, <2>1, SParts, ShapesStep
<1>10. Turns'
  <2>1. \A v \in Workers : v # w /\ req[v].pc # "free" => req[v].conv # c
    BY Apart, <1>3 DEF c
  <2>2. Turn(r, owned', tools', pending_args', ledger', home', shown')
    <3>1. r.memory => tools'[r.conv] = r.bound /\ owned'[r.conv] = {}
      BY <1>1, <1>4, <1>7 DEF Turn, NodePc, c
    <3>2. r.pc = "tools" => ~Answering(r)
      BY DEF Answering, Stands
    <3>3. r.pc = "run" => r.calls[1] \notin pending_args'
      BY <1>2 DEF y
    <3>4. /\ r.pc \in NodePc /\ r.pc \notin {"model", "resume", "invoke"} /\ r.answers # <<>>
      BY <1>5 DEF NodePc
    <3>5. (IF r.pc = "tools" /\ Answering(r) THEN {r.calls[1]} ELSE {}) = {}
      BY <3>2
    <3> QED BY <3>1, <3>3, <3>4, <3>5 DEF Turn
  <2>3. \A d \in Conversations \ {c} : owned'[d] = owned[d] /\ tools'[d] = tools[d]
    BY <1>1, <1>7
  <2>4. \A v \in Workers : v # w /\ req[v].pc # "free" =>
           /\ req[v].conv # c
           /\ req[v].pc = "run" => (req[v].calls[1] \in pending_args' => req[v].calls[1] \in pending_args)
           /\ req[v].pc \in DecidePc => /\ ledger'[req[v].id] = ledger[req[v].id]
                                        /\ home'[req[v].id] = home[req[v].id]
           /\ Stands(req[v]) /\ req[v].answers = <<>> =>
                (req[v].calls[1] \in shown' => req[v].calls[1] \in shown)
    BY <1>1, <2>1
  <2> QED BY <1>3, <2>2, <2>3, <2>4, SParts, TurnsStep
<1>11. Waits'
  <2>1. \A d \in Conversations \ {c} :
           /\ owned'[d] = owned[d] /\ tools'[d] = tools[d] /\ thread'[d] = thread[d]
           /\ \A x \in owned[d] : x \in pending_args =>
                /\ x \in pending_args'
                /\ x \in cancelled' => x \in cancelled
    BY <1>1, <1>2, <1>7 DEF y
  <2>2. Answering(req[w]) => req[w].conv = c
    BY DEF c
  <2>3. TypeOK /\ Waits
    BY SParts
  <2> QED BY <1>3, <1>7, <2>1, <2>2, <2>3, WaitsStep
<1>12. OwnedHome'
  BY <1>1, <1>7, SParts, OwnedStep
<1>13. AnswersFixed' /\ RanFixed'
  <2>1. \A x : ~Decides(r, x)
    BY DEF Decides, NodePc, DecidePc
  <2> QED BY <1>1, <1>6, <2>1, SParts, FixedStays
<1>14. SpentOK'
  BY <1>1, <1>2, <1>7, SParts, SpentStays
<1> QED BY <1>1, <1>8, <1>9, <1>10, <1>11, <1>12, <1>13, <1>14, SParts DEF SInv

LEMMA SCallRejected ==
  ASSUME IInv, SInv, NEW w \in Workers, CallRejected(w)
  PROVE  SInv'
<1> DEFINE r == Next1(w, "tools")
<1>1. /\ req[w].pc = "tools" /\ Left(w) /\ Known(w) /\ Answered(w) /\ Goto(w, r)
      /\ pending_args' = pending_args \ {At(w)} /\ owned' = Forget(w)
      /\ UNCHANGED <<ledger, tools, thread, seen, done>>
  BY DEF CallRejected
<1>2. /\ r.pc = "tools" /\ r.conv = req[w].conv /\ r.memory = req[w].memory
      /\ r.bound = req[w].bound /\ r.calls = req[w].calls /\ r.answers = req[w].answers
      /\ r.i = 2
  BY <1>1, PassedFacts DEF NodePc
<1> HIDE DEF r
<1>3. r.pc \in NodePc /\ r.pc # "run" /\ r.i \in {1, 2}
  BY <1>2 DEF NodePc
<1> QED BY <1>1, <1>2, <1>3, ResolveStep

LEMMA SCallApproved ==
  ASSUME IInv, SInv, NEW w \in Workers, CallApproved(w)
  PROVE  SInv'
<1> DEFINE r == Next1(w, "run")
<1>1. /\ req[w].pc = "tools" /\ Left(w) /\ Known(w) /\ Answered(w) /\ Goto(w, r)
      /\ DecisionOf(w) = "approve"
      /\ pending_args' = pending_args \ {At(w)} /\ owned' = Forget(w)
      /\ UNCHANGED <<ledger, tools, thread, seen, done>>
  BY DEF CallApproved
<1>2. req[w].i = 1
  BY <1>1, StandFacts DEF NodePc
<1>3. /\ r.pc = "run" /\ r.conv = req[w].conv /\ r.memory = req[w].memory
      /\ r.bound = req[w].bound /\ r.calls = req[w].calls /\ r.answers = req[w].answers
      /\ r.i = 1
  BY <1>2 DEF Next1, Node
<1>4. req[w].answers[1].decision = "approve"
  BY <1>1, <1>2 DEF DecisionOf
<1> HIDE DEF r
<1>5. r.pc \in NodePc /\ r.pc # "tools" /\ r.i \in {1, 2}
  BY <1>3 DEF NodePc
<1> QED BY <1>1, <1>3, <1>4, <1>5, ResolveStep

LEMMA SToolEnds ==
  ASSUME IInv, SInv, NEW w \in Workers, ToolRuns(w) \/ ToolFails(w)
  PROVE  SInv'
<1> DEFINE c == req[w].conv
           y == At(w)
<1>1. /\ req[w].pc = "run" /\ req[w].pc \in NodePc
      /\ runs' = [runs EXCEPT ![y] = IF @ < RunCap THEN @ + 1 ELSE @]
      /\ ranHere' = ranHere \union {y}
      /\ UNCHANGED <<ledger, pending_args, owned, tools, thread, fresh, home, shown, cancelled>>
      /\ \E r \in {Next1(w, "tools"), Free} : Goto(w, r)
  BY DEF ToolRuns, ToolFails, maps, seen, NodePc
<1>2. Left(w)
  BY <1>1, NodeInv
<1>3. /\ Stands(req[w]) /\ y = req[w].calls[1] /\ y \in Ids /\ y \notin fresh /\ runs[y] = 0
      /\ \A v \in Workers : v # w /\ req[v].pc \in NodePc => req[v].calls[1] # y
      /\ \A d \in Conversations \ {c} : y \notin owned[d]
  BY <1>1, <1>2, StandOwn
<1>4. c \in Conversations /\ Len(req[w].calls) = 1 /\ req[w].i = 1
  BY <1>1, <1>2, StandFacts
<1>5. /\ Shape(req[w], shown)
      /\ Turn(req[w], owned, tools, pending_args, ledger, home, shown)
  BY DEF SInv, Shapes, Turns
<1>6. Answering(req[w]) /\ req[w].answers[1].decision = "approve"
  BY <1>1, <1>5 DEF Shape
<1>7. /\ req[w].memory /\ y \notin pending_args /\ owned[c] = {} /\ tools[c] = req[w].bound
  <2>1. req[w].memory
    BY <1>1, <1>5, <1>6 DEF Shape, Answering
  <2>2. y \notin pending_args
    BY <1>1, <1>3, <1>5 DEF Turn
  <2>3. owned[c] = {} /\ tools[c] = req[w].bound
    BY <1>1, <1>5, <2>1 DEF Turn
  <2> QED BY <2>1, <2>2, <2>3
<1>8. PICK r : /\ Goto(w, r) /\ r.pc \in {"tools", "free"} /\ ~Answering(r) /\ ~Stands(r)
               /\ \A x : ~Decides(r, x)
               /\ r.pc = "tools" => /\ r.conv = c /\ r.memory = req[w].memory /\ r.i = 2
                                    /\ r.bound = req[w].bound /\ r.calls = req[w].calls
                                    /\ r.answers = req[w].answers
  <2>1. CASE Goto(w, Free)
    BY <2>1, FreeIdle
  <2>2. CASE Goto(w, Next1(w, "tools"))
    BY <1>1, <1>2, <2>2, PassedFacts
  <2> QED BY <1>1, <2>1, <2>2
<1>9. runs'[y] = 1 /\ \A x \in Ids : x # y => runs'[x] = runs[x]
  BY <1>1, <1>3 DEF IInv, TypeOK, RunCap
<1> HIDE DEF y, c
<1>10. Alone'
  BY <1>1, <1>8, SParts, MovesAlone DEF DecidePc, c
<1>11. Shapes'
  <2>1. Shape(r, shown)
    <3>1. CASE r.pc = "free"
      BY <3>1 DEF Shape, NodePc, DecidePc
    <3>2. CASE r.pc = "tools"
      BY <1>1, <1>5, <1>8, <3>2 DEF Shape, NodePc, DecidePc
    <3> QED BY <1>8, <3>1, <3>2
  <2> QED BY <1>1, <1>8, <2>1, SParts, ShapesStep
<1>12. Turns'
  <2>1. \A v \in Workers : v # w /\ req[v].pc # "free" => req[v].conv # c
    BY Apart, <1>1 DEF c
  <2>2. Turn(r, owned', tools', pending_args', ledger', home', shown')
    <3>1. CASE r.pc = "free"
      BY <3>1 DEF Turn, NodePc, Stands
    <3>2. CASE r.pc = "tools"
      BY <1>1, <1>7, <1>8, <3>2 DEF Turn, NodePc
    <3> QED BY <1>8, <3>1, <3>2
  <2>3. \A d \in Conversations \ {c} : owned'[d] = owned[d] /\ tools'[d] = tools[d]
    BY <1>1
  <2>4. \A v \in Workers : v # w /\ req[v].pc # "free" =>
           /\ req[v].conv # c
           /\ req[v].pc = "run" => (req[v].calls[1] \in pending_args' => req[v].calls[1] \in pending_args)
           /\ req[v].pc \in DecidePc => /\ ledger'[req[v].id] = ledger[req[v].id]
                                        /\ home'[req[v].id] = home[req[v].id]
           /\ Stands(req[v]) /\ req[v].answers = <<>> =>
                (req[v].calls[1] \in shown' => req[v].calls[1] \in shown)
    BY <1>1, <2>1
  <2> QED BY <1>4, <1>8, <2>2, <2>3, <2>4, SParts, TurnsStep
<1>13. Waits'
  <2>1. \A d \in Conversations \ {c} :
           /\ owned'[d] = owned[d] /\ tools'[d] = tools[d] /\ thread'[d] = thread[d]
           /\ \A x \in owned[d] : x \in pending_args =>
                /\ x \in pending_args'
                /\ x \in cancelled' => x \in cancelled
    BY <1>1
  <2>2. Answering(req[w]) => req[w].conv = c
    BY DEF c
  <2>3. owned'[c] = {}
    BY <1>1, <1>7
  <2> QED BY <1>4, <1>8, <2>1, <2>2, <2>3, SParts, WaitsStep
<1>14. OwnedHome'
  BY <1>1, SParts, OwnedStep
<1>15. /\ \A v \in Workers : v = w \/ req'[v] = req[v]
       /\ req'[w] = r
  BY <1>8, SParts, MovesReq
<1>16. ASSUME NEW x, NEW d, Fixed(x, d, ledger, cancelled, req)
       PROVE  Fixed(x, d, ledger', cancelled', req')
  BY <1>1, <1>8, <1>15, <1>16 DEF Fixed
<1>17. AnswersFixed'
  BY <1>8, <1>15, <1>16, SParts DEF AnswersFixed
<1>18. RanFixed'
  <2> SUFFICES ASSUME NEW x \in ranHere'
               PROVE  runs'[x] > 0 /\ Fixed(x, "approve", ledger', cancelled', req')
    BY DEF RanFixed
  <2>1. CASE x = y
    BY <1>3, <1>6, <1>9, <1>16, <2>1, SParts DEF AnswersFixed
  <2>2. CASE x # y
    BY <1>1, <1>9, <1>16, <2>2, SParts DEF RanFixed, TypeOK
  <2> QED BY <2>1, <2>2
<1>19. SpentOK'
  <2> SUFFICES ASSUME NEW x \in Ids, runs'[x] > 0
               PROVE  Spent(x, runs', pending_args', fresh', owned', req')
    BY DEF SpentOK
  <2>1. CASE x = y
    BY <1>1, <1>3, <1>4, <1>7, <1>8, <1>9, <1>15, <2>1 DEF Spent, Stands
  <2>2. CASE x # y
    <3>1. Spent(x, runs, pending_args, fresh, owned, req)
      BY <1>9, <2>2, SParts DEF SpentOK
    <3> QED BY <1>1, <1>8, <1>9, <1>15, <2>2, <3>1 DEF Spent
  <2> QED BY <2>1, <2>2
<1> QED BY <1>1, <1>10, <1>11, <1>12, <1>13, <1>14, <1>17, <1>18, <1>19, SParts DEF SInv

LEMMA SNodeEnds ==
  ASSUME IInv, SInv, NEW w \in Workers, NodeEnds(w)
  PROVE  SInv'
<1> DEFINE c == req[w].conv
           r == Model(c, req[w].memory, req[w].bound)
<1>1. /\ req[w].pc = "tools" /\ req[w].pc \in NodePc /\ ~Left(w) /\ Goto(w, r)
      /\ UNCHANGED <<ledger, pending_args, owned, tools, fresh, home, shown, cancelled, runs, ranHere>>
      /\ thread' = IF req[w].memory THEN [thread EXCEPT ![c] = Saved(<<>>, <<>>)] ELSE thread
  BY DEF NodeEnds, maps, seen, done, NodePc
<1>2. c \in Conversations /\ req[w].i = 2 /\ ~Answering(req[w])
  BY <1>1, StandFacts DEF Answering, Stands
<1>3. /\ r.pc = "model" /\ r.conv = c /\ r.memory = req[w].memory /\ r.bound = req[w].bound
  BY DEF Model
<1>4. Turn(req[w], owned, tools, pending_args, ledger, home, shown)
  BY DEF SInv, Turns
<1>5. req[w].memory => owned[c] = {} /\ tools[c] = req[w].bound
  BY <1>1, <1>2, <1>4 DEF Turn
<1> HIDE DEF c, r
<1>6. ~Stands(r) /\ ~Answering(r) /\ \A x : ~Decides(r, x)
  BY <1>3 DEF Answering, Stands, Decides, NodePc, DecidePc
<1>7. Alone'
  BY <1>1, <1>3, SParts, MovesAlone DEF DecidePc, c
<1>8. Shapes'
  <2>1. Shape(r, shown)
    BY <1>3 DEF Shape, NodePc, DecidePc
  <2> QED BY <1>1, <2>1, SParts, ShapesStep
<1>9. Turns'
  <2>1. \A v \in Workers : v # w /\ req[v].pc # "free" => req[v].conv # c
    BY Apart, <1>1 DEF c
  <2>2. Turn(r, owned', tools', pending_args', ledger', home', shown')
    BY <1>1, <1>3, <1>5, <1>6 DEF Turn, NodePc
  <2>3. \A d \in Conversations \ {c} : owned'[d] = owned[d] /\ tools'[d] = tools[d]
    BY <1>1
  <2>4. \A v \in Workers : v # w /\ req[v].pc # "free" =>
           /\ req[v].conv # c
           /\ req[v].pc = "run" => (req[v].calls[1] \in pending_args' => req[v].calls[1] \in pending_args)
           /\ req[v].pc \in DecidePc => /\ ledger'[req[v].id] = ledger[req[v].id]
                                        /\ home'[req[v].id] = home[req[v].id]
           /\ Stands(req[v]) /\ req[v].answers = <<>> =>
                (req[v].calls[1] \in shown' => req[v].calls[1] \in shown)
    BY <1>1, <2>1
  <2> QED BY <1>1, <1>2, <2>2, <2>3, <2>4, SParts, TurnsStep
<1>10. Waits'
  <2>1. \A d \in Conversations \ {c} :
           /\ owned'[d] = owned[d] /\ tools'[d] = tools[d] /\ thread'[d] = thread[d]
           /\ \A x \in owned[d] : x \in pending_args =>
                /\ x \in pending_args'
                /\ x \in cancelled' => x \in cancelled
    BY <1>1, SParts DEF TypeOK
  <2>2. \/ owned'[c] = {}
        \/ \E x \in Ids : Waiting(c, x, thread', owned', tools', pending_args', cancelled')
    <3>1. CASE req[w].memory
      BY <1>1, <1>5, <3>1
    <3>2. CASE ~req[w].memory
      BY <1>1, <1>2, <3>2, OwnWaits DEF c
    <3> QED BY <3>1, <3>2
  <2> QED BY <1>1, <1>2, <2>1, <2>2, SParts, WaitsStep
<1>11. OwnedHome'
  BY <1>1, SParts, OwnedStep
<1>12. AnswersFixed' /\ RanFixed'
  BY <1>1, <1>6, SParts, FixedStays
<1>13. SpentOK'
  BY <1>1, <1>6, SParts, SpentStays
<1> QED BY <1>1, <1>7, <1>8, <1>9, <1>10, <1>11, <1>12, <1>13, SParts DEF SInv

LEMMA SCallInterrupts ==
  ASSUME IInv, SInv, NEW w \in Workers, CallInterrupts(w)
  PROVE  SInv'
<1> DEFINE c == req[w].conv
           y == At(w)
<1>1. /\ req[w].pc = "tools" /\ req[w].pc \in NodePc /\ Left(w) /\ Known(w) /\ ~Answered(w)
      /\ Goto(w, Free)
      /\ pending_args' = pending_args \union {y} /\ shown' = shown \union {y}
      /\ UNCHANGED <<ledger, tools, fresh, home, cancelled, runs, ranHere>>
      /\ owned' = IF req[w].memory THEN [owned EXCEPT ![c] = @ \union {y}] ELSE owned
      /\ thread' = IF req[w].memory
                     THEN [thread EXCEPT ![c] = Saved(req[w].calls, req[w].answers)] ELSE thread
  BY DEF CallInterrupts, Enter, done, NodePc
<1>2. /\ Stands(req[w]) /\ y = req[w].calls[1] /\ y \in Ids /\ y \notin fresh /\ runs[y] = 0
      /\ \A v \in Workers : v # w /\ req[v].pc \in NodePc => req[v].calls[1] # y
      /\ \A d \in Conversations \ {c} : y \notin owned[d]
  BY <1>1, StandOwn
<1>3. /\ c \in Conversations /\ req[w].i = 1 /\ req[w].calls = <<y>> /\ home[y] = c
  BY <1>1, StandFacts
<1>4. /\ Shape(req[w], shown)
      /\ Turn(req[w], owned, tools, pending_args, ledger, home, shown)
  BY DEF SInv, Shapes, Turns
<1>5. req[w].answers = <<>>
  BY <1>1, <1>3, <1>4 DEF Shape, Answered
<1>6. ~Answering(req[w]) /\ y \notin shown /\ y \notin cancelled
  BY <1>2, <1>4, <1>5, SParts DEF Answering, Turn
<1>7. req[w].memory => owned[c] = {} /\ tools[c] = "export"
  BY <1>1, <1>4, <1>6 DEF Turn, Known
<1>8. \A d \in Conversations \ {c} :
           owned'[d] = owned[d] /\ tools'[d] = tools[d] /\ thread'[d] = thread[d]
  BY <1>1, SParts DEF TypeOK
<1>9. req[w].memory => owned'[c] = {y} /\ thread'[c] = Saved(<<y>>, <<>>)
  BY <1>1, <1>3, <1>5, <1>7, SParts DEF TypeOK
<1> HIDE DEF y, c
<1>10. Alone'
  BY <1>1, FreeIdle, SParts, MovesAlone DEF DecidePc
<1>11. Shapes'
  <2>1. Shape(Free, shown') /\ shown \subseteq shown'
    BY <1>1, FreeIdle
  <2> QED BY <1>1, <2>1, SParts, ShapesStep
<1>12. Turns'
  <2>1. \A v \in Workers : v # w /\ req[v].pc # "free" => req[v].conv # c
    BY Apart, <1>1 DEF c
  <2>2. \A v \in Workers : v # w /\ req[v].pc # "free" =>
           /\ req[v].conv # c
           /\ req[v].pc = "run" => (req[v].calls[1] \in pending_args' => req[v].calls[1] \in pending_args)
           /\ req[v].pc \in DecidePc => /\ ledger'[req[v].id] = ledger[req[v].id]
                                        /\ home'[req[v].id] = home[req[v].id]
           /\ Stands(req[v]) /\ req[v].answers = <<>> =>
                (req[v].calls[1] \in shown' => req[v].calls[1] \in shown)
    BY <1>1, <1>2, <2>1 DEF Stands, NodePc
  <2>3. \A d \in Conversations \ {c} : owned'[d] = owned[d] /\ tools'[d] = tools[d]
    BY <1>8
  <2> QED BY <1>1, <1>3, <2>2, <2>3, FreeIdle, SParts, TurnsStep
<1>13. Waits'
  <2>1. \A d \in Conversations \ {c} :
           /\ owned'[d] = owned[d] /\ tools'[d] = tools[d] /\ thread'[d] = thread[d]
           /\ \A x \in owned[d] : x \in pending_args =>
                /\ x \in pending_args'
                /\ x \in cancelled' => x \in cancelled
    BY <1>1, <1>8
  <2>2. \/ owned'[c] = {}
        \/ \E x \in Ids : Waiting(c, x, thread', owned', tools', pending_args', cancelled')
    <3>1. CASE req[w].memory
      <4>1. Waiting(c, y, thread', owned', tools', pending_args', cancelled')
        BY <1>1, <1>6, <1>7, <1>9, <3>1 DEF Waiting
      <4> QED BY <1>2, <4>1
    <3>2. CASE ~req[w].memory
      <4>1. UNCHANGED <<owned, thread, tools, cancelled>> /\ pending_args \subseteq pending_args'
        BY <1>1, <3>2
      <4>2. owned[c] = {} \/ \E x \in Ids : Waiting(c, x, thread, owned, tools, pending_args, cancelled)
        BY <1>1, <1>3, <1>6, OwnWaits DEF c
      <4> QED BY <4>1, <4>2 DEF Waiting
    <3> QED BY <3>1, <3>2
  <2> QED BY <1>1, <1>3, <1>6, <2>1, <2>2, SParts, WaitsStep
<1>14. OwnedHome'
  <2>1. \A d \in Conversations : \A x \in owned'[d] : x \in owned[d] \/ (d = c /\ x = y)
    BY <1>1, <1>8, <1>9
  <2> QED BY <1>1, <1>2, <1>3, <2>1, SParts, OwnedStep
<1>15. AnswersFixed' /\ RanFixed'
  BY <1>1, FreeIdle, SParts, FixedStays
<1>16. SpentOK'
  <2>1. \A x \in Ids : runs[x] > 0 => x # y
    BY <1>2
  <2>2. \A d \in Conversations : \A x \in owned'[d] : x \in owned[d] \/ x = y
    BY <1>1, <1>8, <1>9
  <2> QED BY <1>1, <2>1, <2>2, FreeIdle, SParts, SpentStays
<1>17. cancelled' \subseteq shown'
  BY <1>1, SParts
<1> QED BY <1>10, <1>11, <1>12, <1>13, <1>14, <1>15, <1>16, <1>17 DEF SInv

LEMMA IdleWaits ==
  ASSUME SInv, NEW c \in Conversations, ~Busy(c)
  PROVE  \/ owned[c] = {}
         \/ \E y \in Ids : Waiting(c, y, thread, owned, tools, pending_args, cancelled)
<1>1. ASSUME NEW v \in Workers, Answering(req[v]) PROVE req[v].pc # "free"
  BY <1>1 DEF Answering, Stands, NodePc
<1> QED BY <1>1 DEF SInv, Waits, Busy

LEMMA StartsAlone ==
  ASSUME TypeOK, Alone, NEW w \in Workers, NEW r, Goto(w, r), ~Busy(r.conv),
         r.pc \in DecidePc => ~Deciding(r.id)
  PROVE  Alone'
<1>1. req'[w] = r /\ \A v \in Workers : v # w => req'[v] = req[v]
  BY MovesReq
<1>2. \A v \in Workers : v # w /\ req[v].pc # "free" => req[v].conv # r.conv
  BY DEF Busy
<1>3. r.pc \in DecidePc => \A v \in Workers : v # w /\ req[v].pc \in DecidePc => req[v].id # r.id
  BY DEF Deciding, DecidePc
<1> QED BY <1>1, <1>2, <1>3 DEF Alone

LEMMA SAsk ==
  ASSUME Serial, IInv, SInv, NEW w \in Workers, NEW c \in Conversations, NEW bound \in Bindings,
         Ask(w, c, bound)
  PROVE  SInv'
<1> DEFINE r == Model(c, ~Outstanding(c), bound)
<1>1. /\ req[w] = Free /\ ~Busy(c) /\ Goto(w, r)
      /\ UNCHANGED <<ledger, pending_args, owned, fresh, home, shown, cancelled, runs, ranHere>>
      /\ IF owned[c] # {}
           THEN UNCHANGED <<tools, thread>>
           ELSE /\ tools'  = [tools EXCEPT ![c] = bound]
                /\ thread' = [thread EXCEPT ![c] = Saved(<<>>, <<>>)]
  BY DEF Ask, Admits, Outstanding, seen, done
<1>2. /\ r.pc = "model" /\ r.conv = c /\ r.memory = (owned[c] = {}) /\ r.bound = bound
  BY DEF Model, Outstanding
<1> HIDE DEF r
<1>3. /\ ~Stands(r) /\ ~Answering(r) /\ (\A x : ~Decides(r, x)) /\ r.pc \notin DecidePc
      /\ ~Answering(req[w])
  BY <1>1, <1>2, FreeIdle DEF Answering, Stands, Decides, NodePc, DecidePc
<1>4. \A d \in Conversations \ {c} : tools'[d] = tools[d] /\ thread'[d] = thread[d]
  BY <1>1, SParts DEF TypeOK
<1>5. owned[c] = {} => tools'[c] = bound
  BY <1>1, SParts DEF TypeOK
<1>6. Alone'
  BY <1>1, <1>2, <1>3, SParts, StartsAlone
<1>7. Shapes'
  <2>1. Shape(r, shown)
    BY <1>2 DEF Shape, NodePc, DecidePc
  <2> QED BY <1>1, <2>1, SParts, ShapesStep
<1>8. Turns'
  <2>1. \A v \in Workers : v # w /\ req[v].pc # "free" =>
           /\ req[v].conv # c
           /\ req[v].pc = "run" => (req[v].calls[1] \in pending_args' => req[v].calls[1] \in pending_args)
           /\ req[v].pc \in DecidePc => /\ ledger'[req[v].id] = ledger[req[v].id]
                                        /\ home'[req[v].id] = home[req[v].id]
           /\ Stands(req[v]) /\ req[v].answers = <<>> =>
                (req[v].calls[1] \in shown' => req[v].calls[1] \in shown)
    BY <1>1 DEF Busy
  <2>2. Turn(r, owned', tools', pending_args', ledger', home', shown')
    BY <1>1, <1>2, <1>3, <1>5 DEF Turn, NodePc
  <2> QED BY <1>1, <1>4, <2>1, <2>2, SParts, TurnsStep
<1>9. Waits'
  <2>1. \A d \in Conversations \ {c} :
           /\ owned'[d] = owned[d] /\ tools'[d] = tools[d] /\ thread'[d] = thread[d]
           /\ \A x \in owned[d] : x \in pending_args =>
                /\ x \in pending_args'
                /\ x \in cancelled' => x \in cancelled
    BY <1>1, <1>4
  <2>2. \/ owned'[c] = {}
        \/ \E x \in Ids : Waiting(c, x, thread', owned', tools', pending_args', cancelled')
    BY <1>1, IdleWaits
  <2> QED BY <1>1, <1>3, <2>1, <2>2, SParts, WaitsStep
<1>10. OwnedHome'
  BY <1>1, SParts, OwnedStep
<1>11. AnswersFixed' /\ RanFixed'
  BY <1>1, <1>3, SParts, FixedStays
<1>12. SpentOK'
  BY <1>1, <1>3, SParts, SpentStays
<1> QED BY <1>1, <1>6, <1>7, <1>8, <1>9, <1>10, <1>11, <1>12, SParts DEF SInv

LEMMA SModelCalls ==
  ASSUME MaxCalls <= 1, IInv, SInv, NEW w \in Workers, NEW calls \in IdSeqs,
         ModelCalls(w, calls)
  PROVE  SInv'
<1> DEFINE c == req[w].conv
           y == calls[1]
           r == Node("tools", c, req[w].memory, req[w].bound, calls, <<>>, 1)
<1>1. /\ req[w].pc = "model" /\ calls # <<>> /\ Range(calls) \subseteq fresh
      /\ fresh' = fresh \ Range(calls)
      /\ home' = [id \in Ids |-> IF id \in Range(calls) THEN c ELSE home[id]]
      /\ UNCHANGED <<ledger, pending_args, owned, tools, shown, cancelled, runs, ranHere>>
      /\ thread' = IF req[w].memory
                     THEN [thread EXCEPT ![c] = Saved(calls, <<>>)] ELSE thread
      /\ Goto(w, r)
  BY DEF ModelCalls, maps, done
<1>2. /\ calls \in Seq(Ids) /\ Len(calls) = 1 /\ y \in Ids
  <2>1. Len(calls) \in 0..MaxCalls /\ Len(calls) > 0 /\ calls \in Seq(Ids)
    BY <1>1, CallsType
  <2> QED BY <2>1, BoundsAssumption
<1>3. Range(calls) = {y}
  BY <1>2 DEF Range
<1>4. c \in Conversations /\ y \in fresh /\ y \notin shown
  <2>1. c \in Conversations
    BY <1>1, IsModel DEF IInv, TypeOK
  <2> QED BY <1>1, <1>3, <2>1 DEF IInv, CardsOK
<1>5. /\ r.pc = "tools" /\ r.conv = c /\ r.memory = req[w].memory /\ r.bound = req[w].bound
      /\ r.calls = calls /\ r.answers = <<>> /\ r.i = 1
  BY DEF Node
<1>6. Turn(req[w], owned, tools, pending_args, ledger, home, shown)
  BY DEF SInv, Turns
<1>7. req[w].memory => owned[c] = {} /\ tools[c] = req[w].bound
  BY <1>1, <1>6 DEF Turn
<1>8. /\ \A x \in Ids : x \notin fresh => home'[x] = home[x] /\ x \notin fresh'
      /\ fresh' \subseteq fresh
  BY <1>1, <1>3, <1>4
<1>9. ~(runs[y] > 0)
  BY <1>2, <1>4, SParts DEF SpentOK, Spent
<1> HIDE DEF y, c, r
<1>10. ~Answering(r) /\ (\A x : ~Decides(r, x)) /\ r.pc \notin DecidePc /\ ~Answering(req[w])
  BY <1>1, <1>5 DEF Answering, Stands, Decides, NodePc, DecidePc
<1>11. Alone'
  BY <1>1, <1>5, <1>10, SParts, MovesAlone DEF c
<1>12. Shapes'
  <2>1. Shape(r, shown)
    BY <1>2, <1>5 DEF Shape, NodePc, DecidePc
  <2> QED BY <1>1, <2>1, SParts, ShapesStep
<1>13. Turns'
  <2>1. \A v \in Workers : v # w /\ req[v].pc # "free" => req[v].conv # c
    BY Apart, <1>1 DEF c
  <2>2. \A v \in Workers : req[v].pc \in DecidePc => req[v].id \in Ids /\ req[v].id \notin fresh
    BY DecideFacts DEF IInv, RequestsOK, OkRequest, OkDecision
  <2>3. \A v \in Workers : v # w /\ req[v].pc # "free" =>
           /\ req[v].conv # c
           /\ req[v].pc = "run" => (req[v].calls[1] \in pending_args' => req[v].calls[1] \in pending_args)
           /\ req[v].pc \in DecidePc => /\ ledger'[req[v].id] = ledger[req[v].id]
                                        /\ home'[req[v].id] = home[req[v].id]
           /\ Stands(req[v]) /\ req[v].answers = <<>> =>
                (req[v].calls[1] \in shown' => req[v].calls[1] \in shown)
    BY <1>1, <1>8, <2>1, <2>2
  <2>4. Turn(r, owned', tools', pending_args', ledger', home', shown')
    <3>1. r.calls[1] \notin shown'
      BY <1>1, <1>4, <1>5 DEF y
    <3>2. r.memory => tools'[r.conv] = r.bound /\ owned'[r.conv] = {}
      BY <1>1, <1>5, <1>7
    <3>3. (IF r.pc = "tools" /\ Answering(r) THEN {r.calls[1]} ELSE {}) = {}
      BY <1>10
    <3> QED BY <1>5, <3>1, <3>2, <3>3 DEF Turn
  <2>5. \A d \in Conversations \ {c} : owned'[d] = owned[d] /\ tools'[d] = tools[d]
    BY <1>1
  <2> QED BY <1>1, <1>4, <2>3, <2>4, <2>5, SParts, TurnsStep
<1>14. Waits'
  <2>1. \A d \in Conversations \ {c} :
           /\ owned'[d] = owned[d] /\ tools'[d] = tools[d] /\ thread'[d] = thread[d]
           /\ \A x \in owned[d] : x \in pending_args =>
                /\ x \in pending_args'
                /\ x \in cancelled' => x \in cancelled
    BY <1>1, SParts DEF TypeOK
  <2>2. \/ owned'[c] = {}
        \/ \E x \in Ids : Waiting(c, x, thread', owned', tools', pending_args', cancelled')
    <3>1. CASE req[w].memory
      BY <1>1, <1>7, <3>1
    <3>2. CASE ~req[w].memory
      BY <1>1, <1>4, <1>10, <3>2, OwnWaits DEF c
    <3> QED BY <3>1, <3>2
  <2> QED BY <1>1, <1>4, <1>10, <2>1, <2>2, SParts, WaitsStep
<1>15. OwnedHome'
  BY <1>1, <1>8, SParts, OwnedStep
<1>16. AnswersFixed' /\ RanFixed'
  BY <1>1, <1>10, SParts, FixedStays
<1>17. SpentOK'
  <2>1. r.calls[1] \in Ids /\ ~(runs[r.calls[1]] > 0)
    BY <1>2, <1>5, <1>9 DEF y
  <2> QED BY <1>1, <1>8, <2>1, SParts, SpentStays
<1> QED BY <1>1, <1>11, <1>12, <1>13, <1>14, <1>15, <1>16, <1>17, SParts DEF SInv

\* What was decided about a call and is kept as fixed is a decision.
LEMMA FixedDecision ==
  ASSUME IInv, SInv, NEW w \in Workers, Answering(req[w])
  PROVE  req[w].answers[1].decision \in Decisions
<1>1. req[w].pc \in NodePc /\ req[w].answers # <<>> /\ Len(req[w].answers) = 1
  BY DEF Answering, Stands, SInv, Shapes, Shape
<1>2. req[w].answers \in Seq(Answer)
  BY <1>1, NodeFacts DEF IInv
<1>3. req[w].answers[1] \in Answer
  BY <1>1, <1>2
<1> QED BY <1>3 DEF Answer

\* Fixed calls have a decision in the ledger, which a request about them
\* found there.
LEMMA FixedCalls ==
  ASSUME IInv, SInv, NEW y \in Ids, NEW v \in Workers, Decides(req[v], y),
         y \in ranHere \/ \E u \in Workers : Answering(req[u]) /\ req[u].calls[1] = y
  PROVE  /\ ledger[y] \in Decisions /\ req[v].decision = ledger[y] /\ req[v].prior = ledger[y]
         /\ ledger[y] # "none"
<1>1. CASE y \in ranHere
  BY <1>1, SParts DEF RanFixed, Fixed, Decisions
<1>2. ASSUME NEW u \in Workers, Answering(req[u]), req[u].calls[1] = y
      PROVE  ledger[y] \in Decisions /\ req[v].decision = ledger[y] /\ req[v].prior = ledger[y]
  BY <1>2, SParts, FixedDecision DEF AnswersFixed, Fixed
<1>3. "none" \notin Decisions
  BY DEF Decisions
<1> QED BY <1>1, <1>2, <1>3

\* Request w moves on and leaves the maps of every conversation as they are.
LEMMA DecideStep ==
  ASSUME IInv, SInv, NEW w \in Workers, req[w].pc \in {"record", "resume"}, NEW r, Goto(w, r),
         r.pc = "free" \/ (r.pc \in DecidePc /\ r.conv = req[w].conv),
         r.pc \in DecidePc => /\ r.id = req[w].id /\ r.decision = req[w].decision
                              /\ r.prior = req[w].prior,
         UNCHANGED <<pending_args, owned, tools, thread, fresh, home, shown, runs, ranHere>>,
         \A y \in Ids : y # req[w].id => /\ ledger'[y] = ledger[y]
                                         /\ y \in cancelled' => y \in cancelled,
         req[w].prior # "none" => ledger'[req[w].id] = ledger[req[w].id],
         req[w].decision = "approve" => cancelled' = cancelled,
         cancelled' \subseteq shown,
         req[w].id \notin pending_args \/ cancelled' = cancelled,
         Shape(r, shown), Turn(r, owned', tools', pending_args', ledger', home', shown')
  PROVE  SInv'
<1> DEFINE c == req[w].conv
<1>1. req[w].pc \in DecidePc /\ req[w].pc # "free" /\ ~Answering(req[w])
  BY DEF DecidePc, NodePc, Answering, Stands
<1>2. c \in Conversations /\ req[w].id \in Ids
  BY <1>1, DecideFacts DEF IInv
<1>3. ~Answering(r) /\ ~Stands(r)
  BY DEF Answering, Stands, NodePc, DecidePc
<1>4. Alone'
  BY <1>1, SParts, MovesAlone
<1>5. Shapes'
  BY SParts, ShapesStep
<1>6. Turns'
  <2>1. \A v \in Workers : v # w /\ req[v].pc # "free" => req[v].conv # c
    BY Apart, <1>1
  <2>2. \A v \in Workers : v # w /\ req[v].pc \in DecidePc => ledger'[req[v].id] = ledger[req[v].id]
    <3>1. \A v \in Workers : v # w /\ req[v].pc \in DecidePc => req[v].id \in Ids /\ req[v].id # req[w].id
      BY Apart, <1>1, DecideFacts DEF IInv
    <3> QED BY <3>1
  <2>3. \A v \in Workers : v # w /\ req[v].pc # "free" =>
           /\ req[v].conv # c
           /\ req[v].pc = "run" => (req[v].calls[1] \in pending_args' => req[v].calls[1] \in pending_args)
           /\ req[v].pc \in DecidePc => /\ ledger'[req[v].id] = ledger[req[v].id]
                                        /\ home'[req[v].id] = home[req[v].id]
           /\ Stands(req[v]) /\ req[v].answers = <<>> =>
                (req[v].calls[1] \in shown' => req[v].calls[1] \in shown)
    BY <2>1, <2>2
  <2>4. \A d \in Conversations \ {c} : owned'[d] = owned[d] /\ tools'[d] = tools[d]
    OBVIOUS
  <2> QED BY <1>2, <2>3, <2>4, SParts, TurnsStep
<1>7. \A x \in Ids : x \in pending_args /\ x \in cancelled' => x \in cancelled
  BY <1>2
<1>8. Waits'
  <2>1. \A d \in Conversations \ {c} :
           /\ owned'[d] = owned[d] /\ tools'[d] = tools[d] /\ thread'[d] = thread[d]
           /\ \A x \in owned[d] : x \in pending_args =>
                /\ x \in pending_args'
                /\ x \in cancelled' => x \in cancelled
    BY <1>7, SParts DEF TypeOK
  <2>2. \/ owned'[c] = {}
        \/ \E x \in Ids : Waiting(c, x, thread', owned', tools', pending_args', cancelled')
    <3>1. \/ owned[c] = {}
          \/ \E x \in Ids : Waiting(c, x, thread, owned, tools, pending_args, cancelled)
      BY <1>1, <1>2, OwnWaits
    <3> QED BY <1>7, <3>1 DEF Waiting
  <2> QED BY <1>1, <1>2, <2>1, <2>2, SParts, WaitsStep
<1>9. OwnedHome'
  BY SParts, OwnedStep
<1>10. AnswersFixed' /\ RanFixed'
  <2>1. Decides(req[w], req[w].id)
    BY <1>1 DEF Decides
  <2>2. ASSUME NEW y \in Ids,
               y \in ranHere \/ \E u \in Workers : Answering(req[u]) /\ req[u].calls[1] = y
        PROVE  ledger'[y] = ledger[y] /\ (ledger[y] = "approve" /\ y \in cancelled' => y \in cancelled)
    <3>1. CASE y = req[w].id
      <4>1. req[w].decision = ledger[y] /\ req[w].prior # "none"
        BY <2>1, <2>2, <3>1, FixedCalls
      <4> QED BY <3>1, <4>1
    <3>2. CASE y # req[w].id
      BY <3>2
    <3> QED BY <3>1, <3>2
  <2>3. \A y : Decides(r, y) => /\ Decides(req[w], y) /\ r.decision = req[w].decision
                                 /\ r.prior = req[w].prior
    BY <1>1 DEF Decides
  <2> QED BY <1>1, <1>3, <2>2, <2>3, SParts, FixedStays
<1>11. SpentOK'
  BY <1>3, SParts, SpentStays
<1> QED BY <1>4, <1>5, <1>6, <1>8, <1>9, <1>10, <1>11 DEF SInv

LEMMA SRecord ==
  ASSUME IInv, SInv, NEW w \in Workers, Record(w)
  PROVE  SInv'
<1> DEFINE q == req[w]
           r == Decide("resume", q.conv, q.id, q.decision, q.prior)
<1>1. /\ q.pc = "record" /\ Goto(w, r) /\ ledger' = [ledger EXCEPT ![q.id] = q.decision]
      /\ UNCHANGED <<pending_args, owned, tools, thread, fresh, home, shown, cancelled, runs, ranHere>>
  BY DEF Record, seen, done
<1>2. /\ r.pc = "resume" /\ r.conv = q.conv /\ r.id = q.id /\ r.decision = q.decision
      /\ r.prior = q.prior
  BY DEF Decide
<1> HIDE DEF r
<1>3. Shape(q, shown)
  BY DEF SInv, Shapes
<1>4. q.prior = "none" /\ q.id \in Ids
  BY <1>1, <1>3, DecideFacts DEF Shape, IInv, DecidePc
<1>5. ledger'[q.id] = q.decision /\ \A y \in Ids : y # q.id => ledger'[y] = ledger[y]
  BY <1>1, <1>4, SParts DEF TypeOK
<1>6. Shape(r, shown)
  BY <1>1, <1>2, <1>3 DEF Shape, NodePc, DecidePc
<1>7. Turn(r, owned', tools', pending_args', ledger', home', shown')
  BY <1>2, <1>5 DEF Turn, NodePc, Stands
<1>8. r.pc \in DecidePc /\ q.pc \in {"record", "resume"} /\ cancelled \subseteq shown
  BY <1>1, <1>2, SParts DEF DecidePc
<1> QED BY <1>1, <1>2, <1>4, <1>5, <1>6, <1>7, <1>8, DecideStep

LEMMA SNotFound ==
  ASSUME IInv, SInv, NEW w \in Workers, NotFound(w)
  PROVE  SInv'
<1> DEFINE q == req[w]
<1>1. /\ q.pc = "resume" /\ Goto(w, Free)
      /\ ledger' = IF q.prior = "none" THEN [ledger EXCEPT ![q.id] = "none"] ELSE ledger
      /\ UNCHANGED <<pending_args, owned, tools, thread, fresh, home, shown, cancelled, runs, ranHere>>
  BY DEF NotFound, seen, done
<1>2. q.prior # "none" => ledger'[q.id] = ledger[q.id]
  BY <1>1
<1>3. \A y \in Ids : y # q.id => ledger'[y] = ledger[y]
  BY <1>1, SParts DEF TypeOK
<1>4. Free.pc \notin DecidePc /\ q.pc \in {"record", "resume"} /\ cancelled \subseteq shown
  BY <1>1, SParts, FreeIdle DEF DecidePc
<1> QED BY <1>1, <1>2, <1>3, <1>4, FreeIdle, DecideStep

LEMMA SReplays ==
  ASSUME IInv, SInv, NEW w \in Workers, Replays(w)
  PROVE  SInv'
<1> DEFINE q == req[w]
<1>1. /\ q.pc = "resume" /\ Goto(w, Free) /\ q.id \notin pending_args
      /\ owned' = [owned EXCEPT ![q.conv] = @ \ {q.id}]
      /\ cancelled' = IF q.decision = "reject" THEN cancelled \union {q.id} ELSE cancelled
      /\ UNCHANGED <<ledger, pending_args, tools, thread, fresh, home, shown, runs, ranHere>>
  BY DEF Replays, Settled, Interrupts, Cancels, done
<1>2. q.conv \in Conversations /\ q.id \in Ids
  BY <1>1, DecideFacts DEF IInv, DecidePc
<1>3. q.id \in shown
  BY <1>1 DEF SInv, Shapes, Shape, DecidePc
<1>4. q.id \notin owned[q.conv]
  <2>1. ~Answering(q) /\ q.pc # "free"
    BY <1>1 DEF Answering, Stands, NodePc
  <2>2. \/ owned[q.conv] = {}
        \/ \E y \in Ids : Waiting(q.conv, y, thread, owned, tools, pending_args, cancelled)
    BY <1>2, <2>1, OwnWaits
  <2> QED BY <1>1, <2>2 DEF Waiting
<1>5. owned' = owned
  BY <1>1, <1>2, <1>4, SParts DEF TypeOK
<1>6. /\ Free.pc \notin DecidePc /\ q.pc \in {"record", "resume"} /\ cancelled' \subseteq shown
      /\ q.decision = "approve" => cancelled' = cancelled
      /\ \A y \in Ids : y # q.id => (y \in cancelled' => y \in cancelled)
  BY <1>1, <1>3, SParts, FreeIdle DEF DecidePc
<1> QED BY <1>1, <1>5, <1>6, FreeIdle, DecideStep

LEMMA SSame ==
  ASSUME SInv, UNCHANGED <<ledger, pending_args, owned, tools, thread, req, fresh, home, shown,
                           cancelled, runs, ranHere>>
  PROVE  SInv'
<1>1. Alone' /\ Shapes' /\ Turns' /\ Waits' /\ OwnedHome'
  BY DEF SInv, Alone, Shapes, Turns, Waits, OwnedHome
<1>2. AnswersFixed' /\ RanFixed' /\ SpentOK'
  BY DEF SInv, AnswersFixed, RanFixed, SpentOK
<1> QED BY <1>1, <1>2 DEF SInv

LEMMA SReadLedger ==
  ASSUME Serial, IInv, SInv, NEW w \in Workers, NEW c \in Conversations, NEW id \in Ids,
         NEW d \in Decisions, ReadLedger(w, c, id, d)
  PROVE  SInv'
<1>1. /\ req[w] = Free /\ ~Busy(c) /\ ~Deciding(id) /\ id \in shown
      /\ UNCHANGED <<ledger, pending_args, owned, tools, thread, fresh, home, shown,
                     cancelled, runs, ranHere>>
      /\ \/ UNCHANGED req
         \/ /\ ledger[id] \in {"none", d}
            /\ Goto(w, Decide(IF ledger[id] = "none" THEN "record" ELSE "resume",
                              c, id, d, ledger[id]))
  BY DEF ReadLedger, Admits, Conflicts, maps, done
<1>2. CASE UNCHANGED req
  BY <1>1, <1>2, SSame
<1>3. CASE UNCHANGED req => FALSE
  <2> DEFINE pc == IF ledger[id] = "none" THEN "record" ELSE "resume"
             r == Decide(pc, c, id, d, ledger[id])
  <2>1. Goto(w, r) /\ ledger[id] \in {"none", d}
    BY <1>1, <1>3
  <2>2. r.pc = pc /\ r.conv = c /\ r.id = id /\ r.decision = d /\ r.prior = ledger[id]
    BY DEF Decide
  <2> HIDE DEF r
  <2>3. /\ r.pc \in DecidePc /\ r.pc \in {"record", "resume"}
        /\ r.pc = "record" => ledger[id] = "none"
        /\ r.pc = "resume" => ledger[id] = d
    BY <2>1, <2>2 DEF DecidePc
  <2> HIDE DEF pc
  <2>4. ~Answering(r) /\ ~Stands(r) /\ ~Answering(req[w])
    BY <1>1, <2>3, FreeIdle DEF Answering, Stands, NodePc, DecidePc
  <2>5. Alone'
    BY <1>1, <2>1, <2>2, SParts, StartsAlone
  <2>6. Shapes'
    <3>1. Shape(r, shown)
      BY <1>1, <2>1, <2>2, <2>3 DEF Shape, NodePc
    <3> QED BY <1>1, <2>1, <3>1, SParts, ShapesStep
  <2>7. Turns'
    <3>1. \A v \in Workers : v # w /\ req[v].pc # "free" =>
             /\ req[v].conv # c
             /\ req[v].pc = "run" => (req[v].calls[1] \in pending_args' => req[v].calls[1] \in pending_args)
             /\ req[v].pc \in DecidePc => /\ ledger'[req[v].id] = ledger[req[v].id]
                                          /\ home'[req[v].id] = home[req[v].id]
             /\ Stands(req[v]) /\ req[v].answers = <<>> =>
                  (req[v].calls[1] \in shown' => req[v].calls[1] \in shown)
      BY <1>1 DEF Busy
    <3>2. Turn(r, owned', tools', pending_args', ledger', home', shown')
      BY <1>1, <2>2, <2>3, <2>4 DEF Turn, NodePc
    <3>3. \A e \in Conversations \ {c} : owned'[e] = owned[e] /\ tools'[e] = tools[e]
      BY <1>1
    <3> QED BY <2>1, <3>1, <3>2, <3>3, SParts, TurnsStep
  <2>8. Waits'
    <3>1. \A e \in Conversations \ {c} :
             /\ owned'[e] = owned[e] /\ tools'[e] = tools[e] /\ thread'[e] = thread[e]
             /\ \A x \in owned[e] : x \in pending_args =>
                  /\ x \in pending_args'
                  /\ x \in cancelled' => x \in cancelled
      BY <1>1
    <3>2. \/ owned'[c] = {}
          \/ \E x \in Ids : Waiting(c, x, thread', owned', tools', pending_args', cancelled')
      BY <1>1, IdleWaits
    <3> QED BY <2>1, <2>4, <3>1, <3>2, SParts, WaitsStep
  <2>9. OwnedHome'
    BY <1>1, SParts, OwnedStep
  <2>10. /\ req'[w] = r /\ \A v \in Workers : v = w \/ req'[v] = req[v]
    BY <2>1, SParts, MovesReq
  <2>11. ASSUME NEW y, NEW e, Fixed(y, e, ledger, cancelled, req), e \in Decisions
         PROVE  Fixed(y, e, ledger', cancelled', req')
    <3>1. Decides(r, y) => r.decision = e /\ r.prior = e
      <4>1. CASE y = id
        <5>1. ledger[id] = e /\ e # "none"
          BY <2>11, <4>1 DEF Fixed, Decisions
        <5> QED BY <2>1, <2>2, <5>1
      <4>2. CASE y # id
        BY <2>2, <4>2 DEF Decides
      <4> QED BY <4>1, <4>2
    <3> QED BY <1>1, <2>10, <2>11, <3>1 DEF Fixed
  <2>12. AnswersFixed'
    <3> SUFFICES ASSUME NEW v \in Workers, Answering(req'[v])
                 PROVE  Fixed(req'[v].calls[1], req'[v].answers[1].decision, ledger', cancelled', req')
      BY DEF AnswersFixed
    <3>1. Answering(req[v]) /\ req'[v] = req[v]
      BY <2>4, <2>10
    <3> QED BY <2>11, <3>1, SParts, FixedDecision DEF AnswersFixed
  <2>13. RanFixed'
    <3>1. "approve" \in Decisions
      BY DEF Decisions
    <3> QED BY <1>1, <2>11, <3>1, SParts DEF RanFixed
  <2>14. SpentOK'
    BY <1>1, <2>1, <2>4, SParts, SpentStays
  <2> QED BY <1>1, <2>5, <2>6, <2>7, <2>8, <2>9, <2>12, <2>13, <2>14, SParts DEF SInv
<1> QED BY <1>2, <1>3

LEMMA SInvoke ==
  ASSUME IInv, SInv, NEW w \in Workers, Invoke(w)
  PROVE  SInv'
<1> DEFINE q == req[w]
           c == q.conv
           y == q.id
           calls == thread[c].calls
           ans == [id |-> y, decision |-> q.decision]
           answers == Append(thread[c].answers, ans)
           r == Node("tools", c, TRUE, tools[c], calls, answers, 1)
<1>1. /\ q.pc = "invoke" /\ q.pc \in DecidePc /\ q.pc # "free" /\ ~Answering(q)
      /\ cancelled' = IF q.decision = "reject" THEN cancelled \union {y} ELSE cancelled
      /\ UNCHANGED <<ledger, pending_args, owned, tools, fresh, home, shown, runs, ranHere>>
  BY DEF Invoke, Cancels, maps, done, DecidePc, Answering, Stands, NodePc
<1>2. calls # <<>> => Goto(w, r) /\ thread' = [thread EXCEPT ![c] = Saved(calls, answers)]
  BY DEF Invoke
<1>3. c \in Conversations /\ y \in Ids /\ q.decision \in Decisions
  BY <1>1, DecideFacts DEF IInv
<1>4. /\ Shape(q, shown)
      /\ Turn(q, owned, tools, pending_args, ledger, home, shown)
  BY DEF SInv, Shapes, Turns
<1>5. y \in owned[c] /\ y \in shown /\ (ledger[y] = q.decision \/ home[y] # c)
  BY <1>1, <1>4 DEF Turn, Shape
<1>6. home[y] = c /\ ledger[y] = q.decision
  BY <1>3, <1>5, SParts DEF OwnedHome
<1>7. PICK x \in Ids : Waiting(c, x, thread, owned, tools, pending_args, cancelled)
  BY <1>1, <1>3, <1>5, OwnWaits
<1>8. /\ thread[c].calls = <<y>> /\ thread[c].answers = <<>> /\ tools[c] = "export"
      /\ owned[c] = {y} /\ y \in pending_args /\ y \notin cancelled
  BY <1>5, <1>7 DEF Waiting, Saved
<1>9. calls = <<y>> /\ answers = <<ans>>
  BY <1>8
<1>10. Goto(w, r) /\ thread' = [thread EXCEPT ![c] = Saved(calls, answers)]
  <2>1. calls # <<>>
    BY <1>9
  <2> HIDE DEF calls, answers, r
  <2> QED BY <1>2, <2>1
<1>11. /\ r.pc = "tools" /\ r.conv = c /\ r.memory /\ r.bound = "export"
       /\ r.calls = <<y>> /\ r.answers = <<ans>> /\ r.i = 1
  BY <1>8, <1>9 DEF Node
<1>12. ans.id = y /\ ans.decision = q.decision
  OBVIOUS
<1> HIDE DEF r, ans, y, answers, calls
<1>13. /\ Len(r.calls) = 1 /\ r.calls[1] = y /\ Len(r.answers) = 1 /\ r.answers[1] = ans
       /\ r.answers # <<>>
  BY <1>11
<1>14. Answering(r) /\ Stands(r) /\ r.pc \notin DecidePc /\ \A z : ~Decides(r, z)
  BY <1>11, <1>13 DEF Answering, Stands, Decides, NodePc, DecidePc
<1> HIDE DEF c
<1>15. \A v \in Workers : v # w /\ req[v].pc # "free" => req[v].conv # c
  BY Apart, <1>1 DEF c
<1>16. Alone'
  BY <1>1, <1>10, <1>11, <1>14, SParts, MovesAlone DEF c
<1>17. Shapes'
  <2>1. Shape(r, shown)
    BY <1>11, <1>12, <1>13, <1>14 DEF Shape
  <2> QED BY <1>1, <1>10, <2>1, SParts, ShapesStep
<1>18. Turns'
  <2>1. \A v \in Workers : v # w /\ req[v].pc # "free" =>
           /\ req[v].conv # c
           /\ req[v].pc = "run" => (req[v].calls[1] \in pending_args' => req[v].calls[1] \in pending_args)
           /\ req[v].pc \in DecidePc => /\ ledger'[req[v].id] = ledger[req[v].id]
                                        /\ home'[req[v].id] = home[req[v].id]
           /\ Stands(req[v]) /\ req[v].answers = <<>> =>
                (req[v].calls[1] \in shown' => req[v].calls[1] \in shown)
    BY <1>1, <1>15
  <2>2. Turn(r, owned', tools', pending_args', ledger', home', shown')
    <3>1. owned'[r.conv] = {r.calls[1]} /\ tools'[r.conv] = r.bound
      BY <1>1, <1>8, <1>11, <1>13
    <3> QED BY <1>11, <1>13, <1>14, <3>1 DEF Turn
  <2>3. \A d \in Conversations \ {c} : owned'[d] = owned[d] /\ tools'[d] = tools[d]
    BY <1>1
  <2> QED BY <1>3, <1>10, <2>1, <2>2, <2>3, SParts, TurnsStep
<1>19. Waits'
  <2>1. \A d \in Conversations \ {c} : y \notin owned[d]
    BY <1>6, SParts DEF OwnedHome
  <2>2. \A d \in Conversations \ {c} :
           /\ owned'[d] = owned[d] /\ tools'[d] = tools[d] /\ thread'[d] = thread[d]
           /\ \A z \in owned[d] : z \in pending_args =>
                /\ z \in pending_args'
                /\ z \in cancelled' => z \in cancelled
    BY <1>1, <1>10, <2>1, SParts DEF TypeOK
  <2> QED BY <1>1, <1>3, <1>10, <1>11, <1>14, <2>2, SParts, WaitsStep
<1>20. OwnedHome'
  BY <1>1, SParts, OwnedStep
<1>21. /\ req'[w] = r /\ \A v \in Workers : v = w \/ req'[v] = req[v]
  BY <1>10, SParts, MovesReq
<1>22. ASSUME NEW z, NEW e, z # y, Fixed(z, e, ledger, cancelled, req)
       PROVE  Fixed(z, e, ledger', cancelled', req')
  BY <1>1, <1>14, <1>21, <1>22 DEF Fixed
<1>23. AnswersFixed'
  <2> SUFFICES ASSUME NEW v \in Workers, Answering(req'[v])
               PROVE  Fixed(req'[v].calls[1], req'[v].answers[1].decision, ledger', cancelled', req')
    BY DEF AnswersFixed
  <2>1. CASE v = w
    <3>1. \A u \in Workers : ~Decides(req'[u], y)
      BY <1>1, <1>14, <1>21, Apart DEF Decides, y
    <3>2. q.decision = "approve" => y \notin cancelled'
      BY <1>1, <1>8
    <3>3. Fixed(y, q.decision, ledger', cancelled', req')
      BY <1>1, <1>6, <3>1, <3>2 DEF Fixed
    <3> QED BY <1>12, <1>13, <1>21, <2>1, <3>3
  <2>2. CASE v # w
    <3>1. req'[v] = req[v] /\ Answering(req[v]) /\ req[v].pc \in NodePc
      BY <1>21, <2>2 DEF Answering, Stands
    <3>2. req[v].conv # c
      BY <1>15, <2>2, <3>1 DEF NodePc
    <3>3. req[v].calls[1] # y
      BY <1>6, <3>1, <3>2, StandFacts
    <3> QED BY <1>22, <3>1, <3>3, SParts DEF AnswersFixed
  <2> QED BY <2>1, <2>2
<1>24. ~(runs[y] > 0)
  BY <1>3, <1>5, SParts DEF SpentOK, Spent, y
<1>25. RanFixed'
  BY <1>1, <1>22, <1>24, SParts DEF RanFixed
<1>26. SpentOK'
  BY <1>1, <1>3, <1>10, <1>13, <1>24, SParts, SpentStays DEF y
<1>27. cancelled' \subseteq shown'
  BY <1>1, <1>5, SParts
<1> QED BY <1>16, <1>17, <1>18, <1>19, <1>20, <1>23, <1>25, <1>26, <1>27 DEF SInv

LEMMA SClearThread ==
  ASSUME Serial, IInv, SInv, NEW c \in Conversations, ClearThread(c)
  PROVE  SInv'
<1>1. /\ ~Busy(c)
      /\ tools'  = [tools EXCEPT ![c] = "none"]
      /\ ledger' = [id \in Ids |-> IF id \in owned[c] THEN "none" ELSE ledger[id]]
      /\ pending_args' = pending_args \ owned[c]
      /\ owned'  = [owned EXCEPT ![c] = {}]
      /\ thread' = [thread EXCEPT ![c] = NoThread]
      /\ UNCHANGED <<req, fresh, home, shown, cancelled, runs, ranHere>>
  BY DEF ClearThread, Admits, seen, done
<1>2. \A d \in Conversations \ {c} :
        /\ owned'[d] = owned[d] /\ tools'[d] = tools[d] /\ thread'[d] = thread[d]
        /\ \A y \in owned[d] : y \notin owned[c]
  BY <1>1, SParts DEF TypeOK, OwnedHome
<1>3. owned'[c] = {}
  BY <1>1, SParts DEF TypeOK
<1>4. \A v \in Workers : req[v].pc # "free" => req[v].conv # c
  BY <1>1 DEF Busy
<1>5. \A y \in Ids : home[y] # c => ledger'[y] = ledger[y]
  BY <1>1, SParts DEF OwnedHome
<1>6. Alone' /\ Shapes'
  BY <1>1, SParts DEF Alone, Shapes
<1>7. Turns'
  <2> SUFFICES ASSUME NEW v \in Workers
               PROVE  Turn(req[v], owned', tools', pending_args', ledger', home', shown')
    BY <1>1 DEF Turns
  <2>1. CASE req[v].pc = "free"
    BY <2>1 DEF Turn, Stands, NodePc
  <2>2. CASE req[v].pc # "free"
    <3>1. req[v].conv \in Conversations \ {c}
      BY <1>4, <2>2, PcOf, IsModel, IsNode, IsDecide, SParts DEF TypeOK
    <3>2. owned'[req[v].conv] = owned[req[v].conv] /\ tools'[req[v].conv] = tools[req[v].conv]
      BY <1>2, <3>1
    <3>3. Turn(req[v], owned, tools, pending_args, ledger, home, shown)
      BY SParts DEF Turns
    <3>4. req[v].pc \in {"resume", "invoke"} => req[v].id \in Ids
      BY DecideFacts, SParts DEF DecidePc
    <3>5. req[v].pc \in {"resume", "invoke"} =>
            ledger'[req[v].id] = req[v].decision \/ home[req[v].id] # req[v].conv
      BY <1>5, <3>1, <3>3, <3>4 DEF Turn
    <3>6. req[v].pc = "run" => req[v].calls[1] \notin pending_args'
      BY <1>1, <3>3 DEF Turn
    <3> QED BY <1>1, <3>2, <3>3, <3>5, <3>6 DEF Turn
  <2> QED BY <2>1, <2>2
<1>8. Waits'
  <2> SUFFICES ASSUME NEW d \in Conversations, d # c
               PROVE  \/ owned'[d] = {}
                      \/ \E v \in Workers : Answering(req[v]) /\ req[v].conv = d
                      \/ \E y \in Ids : Waiting(d, y, thread', owned', tools', pending_args', cancelled')
    BY <1>1, <1>3 DEF Waits
  <2>1. ASSUME NEW y \in Ids, Waiting(d, y, thread, owned, tools, pending_args, cancelled)
        PROVE  Waiting(d, y, thread', owned', tools', pending_args', cancelled')
    BY <1>1, <1>2, <2>1 DEF Waiting
  <2> QED BY <1>2, <2>1, SParts DEF Waits
<1>9. OwnedHome'
  BY <1>1, <1>2, <1>3, SParts DEF OwnedHome
<1>10. ASSUME NEW y \in Ids, NEW e, y \notin owned[c], Fixed(y, e, ledger, cancelled, req)
       PROVE  Fixed(y, e, ledger', cancelled', req')
  BY <1>1, <1>10 DEF Fixed
<1>11. AnswersFixed'
  <2> SUFFICES ASSUME NEW v \in Workers, Answering(req[v])
               PROVE  Fixed(req[v].calls[1], req[v].answers[1].decision, ledger', cancelled', req')
    BY <1>1 DEF AnswersFixed
  <2>1. req[v].pc \in NodePc /\ req[v].pc # "free"
    BY DEF Answering, Stands, NodePc
  <2>2. req[v].calls[1] \in Ids /\ req[v].calls[1] \notin owned[c]
    BY <1>4, <2>1, StandFacts, SParts DEF OwnedHome
  <2> QED BY <1>10, <2>2, SParts DEF AnswersFixed
<1>12. RanFixed'
  <2> SUFFICES ASSUME NEW y \in ranHere
               PROVE  runs[y] > 0 /\ Fixed(y, "approve", ledger', cancelled', req')
    BY <1>1 DEF RanFixed
  <2>1. y \in Ids /\ runs[y] > 0 /\ Fixed(y, "approve", ledger, cancelled, req)
    BY SParts DEF RanFixed, TypeOK
  <2>2. y \notin owned[c]
    BY <2>1, SParts DEF SpentOK, Spent
  <2> QED BY <1>10, <2>1, <2>2
<1>13. SpentOK'
  <2> SUFFICES ASSUME NEW y \in Ids, runs[y] > 0
               PROVE  Spent(y, runs, pending_args', fresh, owned', req)
    BY <1>1 DEF SpentOK
  <2>1. Spent(y, runs, pending_args, fresh, owned, req)
    BY SParts DEF SpentOK
  <2> QED BY <1>1, <1>2, <1>3, <2>1 DEF Spent
<1> QED BY <1>1, <1>6, <1>7, <1>8, <1>9, <1>11, <1>12, <1>13, SParts DEF SInv

LEMMA Empty ==
  ASSUME cancelled = {}, ranHere = {}, \A c \in Conversations : owned[c] = {},
         \A w \in Workers : req[w] = Free
  PROVE  Alone /\ Shapes /\ Turns /\ Waits /\ OwnedHome /\ AnswersFixed /\ RanFixed
<1>1. \A w \in Workers : /\ req[w].pc = "free" /\ ~Answering(req[w]) /\ Shape(req[w], shown)
                         /\ Turn(req[w], owned, tools, pending_args, ledger, home, shown)
  BY FreeIdle
<1>2. Alone
  BY <1>1 DEF Alone, DecidePc
<1>3. Shapes /\ Turns
  BY <1>1 DEF Shapes, Turns
<1>4. Waits /\ OwnedHome
  BY DEF Waits, OwnedHome
<1>5. AnswersFixed /\ RanFixed
  BY <1>1 DEF AnswersFixed, RanFixed
<1> QED BY <1>2, <1>3, <1>4, <1>5

LEMMA SRestart ==
  ASSUME IInv, SInv, Restart
  PROVE  SInv'
<1>1. /\ pending_args' = {} /\ cancelled' = {} /\ ranHere' = {}
      /\ \A c \in Conversations : owned'[c] = {}
      /\ \A w \in Workers : req'[w] = Free
      /\ UNCHANGED <<fresh, runs>>
  BY DEF Restart
<1>2. \A w \in Workers : /\ req'[w].pc = "free" /\ ~Answering(req'[w]) /\ ~Stands(req'[w])
                         /\ Shape(req'[w], shown')
                         /\ Turn(req'[w], owned', tools', pending_args', ledger', home', shown')
  BY <1>1, FreeIdle
<1>3. Alone' /\ Shapes' /\ Turns'
  BY <1>2 DEF Alone, Shapes, Turns, DecidePc
<1>4. Waits' /\ OwnedHome' /\ AnswersFixed' /\ RanFixed'
  BY <1>1, <1>2 DEF Waits, OwnedHome, AnswersFixed, RanFixed
<1>5. SpentOK'
  BY <1>1, <1>2, SParts DEF SpentOK, Spent
<1> QED BY <1>1, <1>3, <1>4, <1>5 DEF SInv

LEMMA SInit ==
  ASSUME Init
  PROVE  SInv
<1>1. /\ cancelled = {} /\ ranHere = {} /\ runs = [y \in Ids |-> 0]
      /\ \A c \in Conversations : owned[c] = {}
      /\ \A w \in Workers : req[w] = Free
  BY DEF Init
<1>2. Alone /\ Shapes /\ Turns /\ Waits /\ OwnedHome /\ AnswersFixed /\ RanFixed
  BY <1>1, Empty
<1>3. SpentOK
  BY <1>1 DEF SpentOK
<1> QED BY <1>1, <1>2, <1>3 DEF SInv

LEMMA SNext ==
  ASSUME Serial, MaxCalls <= 1, IInv, SInv, [Next]_vars
  PROVE  SInv'
<1>1. ASSUME NEW w \in Workers, Step(w) PROVE SInv'
  BY <1>1, SModelAnswers, SModelCalls, SCallUnknown, SCallInterrupts, SCallRejected,
     SCallApproved, SToolEnds, SNodeEnds, SRecord, SNotFound, SReplays, SAccepts,
     SInvoke DEF Step
<1>2. CASE UNCHANGED vars
  BY <1>2, SSame DEF vars, maps, seen, done
<1>3. ASSUME NEW w \in Workers, NEW c \in Conversations, NEW bound \in Bindings,
             Ask(w, c, bound)
      PROVE  SInv'
  BY <1>3, SAsk
<1>4. ASSUME NEW w \in Workers, NEW c \in Conversations, NEW id \in Ids,
             NEW d \in Decisions, ReadLedger(w, c, id, d)
      PROVE  SInv'
  BY <1>4, SReadLedger
<1>5. ASSUME NEW c \in Conversations, ClearThread(c) PROVE SInv'
  BY <1>5, SClearThread
<1>6. ASSUME Restart PROVE SInv'
  BY <1>6, SRestart
<1> QED
  <2>1. CASE Next
    BY <1>1, <1>3, <1>4, <1>5, <1>6, <2>1 DEF Next
  <2> QED
    BY <1>2, <2>1

LEMMA SerialInvariance ==
  ASSUME Serial, MaxCalls <= 1
  PROVE  Spec => [](IInv /\ SInv)
<1>1. Init => IInv /\ SInv
  BY InvInit, SInit
<1>2. IInv /\ SInv /\ [Next]_vars => (IInv /\ SInv)'
  BY NextInv, SNext
<1> QED BY <1>1, <1>2, PTL DEF Spec

\* One approval, one run: when a client sends one request at a time and a
\* message asks for one approval, no sequence of decisions, further turns,
\* failing tools, deleted conversations and restarts runs a call twice, and
\* nobody is told "cancelled" about a call whose tool ran.
THEOREM ApprovalRunsOnce ==
  ASSUME Serial, MaxCalls <= 1
  PROVE  Spec => []OneRunPerApproval
<1>1. ASSUME IInv, SInv PROVE OneRunPerApproval
  <2>1. ASSUME NEW y \in Ids PROVE runs[y] <= 1
    <3>1. runs[y] \in 0..2
      BY SParts, <1>1 DEF TypeOK, RunCap
    <3>2. runs[y] > 0 => runs[y] = 1
      BY SParts, <1>1 DEF SpentOK, Spent
    <3> QED BY <3>1, <3>2
  <2>2. cancelled \cap ranHere = {}
    BY SParts, <1>1 DEF RanFixed, Fixed
  <2> QED BY <2>1, <2>2 DEF OneRunPerApproval
<1> QED BY <1>1, SerialInvariance, PTL

\* Under the same conditions an approval that is outstanding between requests
\* can be resumed: the conversation waits for the one call its thread stands
\* at, with its arguments stored and the tool bound.
THEOREM OutstandingResumes ==
  ASSUME Serial, MaxCalls <= 1
  PROVE  Spec => []Resumable
<1>1. ASSUME IInv, SInv PROVE Resumable
  <2> SUFFICES ASSUME NEW c \in Conversations, owned[c] # {}, ~Busy(c)
               PROVE  LET t == thread[c]
                          n == Len(t.answers) + 1
                      IN /\ t.exists /\ n <= Len(t.calls)
                         /\ owned[c] = {t.calls[n]} /\ t.calls[n] \in pending_args
                         /\ tools[c] = "export"
    BY DEF Resumable
  <2>1. PICK y \in Ids : Waiting(c, y, thread, owned, tools, pending_args, cancelled)
    BY <1>1, IdleWaits
  <2>2. /\ thread[c].exists /\ thread[c].calls = <<y>> /\ thread[c].answers = <<>>
        /\ owned[c] = {y} /\ y \in pending_args /\ tools[c] = "export"
    BY <2>1 DEF Waiting, Saved
  <2>3. Len(<<y>>) = 1 /\ <<y>>[1] = y
    OBVIOUS
  <2> QED BY <2>2, <2>3
<1> QED BY <1>1, SerialInvariance, PTL
=============================================================================
