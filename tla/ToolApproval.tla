---------------------------- MODULE ToolApproval ----------------------------
(***************************************************************************)
(* The human approval of high-impact tools in chat: the LangGraph agent    *)
(* (src/infrastructure/agents/langgraph_tool_agent.py), the decision use   *)
(* case with its ledger (src/application/decide_tool_approval.py) and the  *)
(* process-local maps they share                                           *)
(* (src/composition/chat/short_term_memory.py).  Requests run on server    *)
(* threads; one step is what a thread does between two calls that leave    *)
(* the process (model, tool) or between two accesses to the shared maps    *)
(* that another thread can come between.                                   *)
(***************************************************************************)
EXTENDS Naturals, Sequences, Functions

CONSTANTS Conversations,
          Ids,           \* tool call ids the model hands out, each once
          Workers,       \* server threads
          MaxCalls,      \* approvals one message of the model asks for
          MaxRestarts,
          Serial         \* a client sends one request at a time

ASSUME BoundsAssumption ==
  /\ MaxCalls \in Nat
  /\ MaxRestarts \in Nat
  /\ Serial \in BOOLEAN

VARIABLES ledger,        \* id -> recorded decision or "none"
          pending_args,  \* ids with stored arguments
          owned,         \* approvals_by_conversation
          tools,         \* tools_by_conversation: what a resume will bind
          thread,        \* the checkpointer's threads
          req            \* what each server thread is doing

\* What the user and the outside world saw; the code keeps none of it.
VARIABLES fresh,         \* ids the model has not handed out yet
          home,          \* the conversation whose turn asked for the id
          shown,         \* ids on an approval card
          approved,      \* ids approved in the conversation that asked
          cancelled,     \* ids a request has answered "cancelled" for
          runs,          \* how often the tool ran for an id, up to RunCap
          ranHere,       \* ids whose tool ran since the process started
          restarts

maps == <<ledger, pending_args, owned, tools>>
seen == <<fresh, home, shown, approved, cancelled>>
done == <<runs, ranHere>>
vars == <<maps, thread, req, seen, done, restarts>>

RunCap    == 2
Decisions == {"approve", "reject"}
Bindings  == {"export", "retrieve"}
Answer    == [id : Ids, decision : Decisions]
IdSeqs    == UNION {[1..n -> Ids] : n \in 0..MaxCalls}

-----------------------------------------------------------------------------
(* The checkpointer.  A thread is interrupted when it has calls: its last  *)
(* message asks for them, and answers are the resume values stored so far. *)

NoThread == [exists |-> FALSE, calls |-> <<>>, answers |-> <<>>]
Saved(calls, answers) ==
  [exists |-> TRUE, calls |-> calls, answers |-> answers]

\* CheckpointTuple has no interrupts, so getattr's default is what is read.
Interrupts(c) == {}

(* Requests.                                                               *)
Free == [pc |-> "free"]
Model(c, memory, bound) ==
  [pc |-> "model", conv |-> c, memory |-> memory, bound |-> bound]
Node(pc, c, memory, bound, calls, answers, i) ==
  [pc |-> pc, conv |-> c, memory |-> memory, bound |-> bound,
   calls |-> calls, answers |-> answers, i |-> i]
Decide(pc, c, id, decision, prior) ==
  [pc |-> pc, conv |-> c, id |-> id, decision |-> decision, prior |-> prior]

Goto(w, r) == req' = [req EXCEPT ![w] = r]
Busy(c)    == \E w \in Workers : req[w].pc # "free" /\ req[w].conv = c
Admits(c)  == Serial => ~Busy(c)
Deciding(id) ==
  \E w \in Workers : req[w].pc \in {"record", "resume", "invoke"}
                     /\ req[w].id = id

-----------------------------------------------------------------------------
(* A chat turn: LangGraphToolAgent.run.  While approvals are outstanding   *)
(* the turn neither replaces the bound tools nor touches the thread.       *)

Outstanding_Ignored(c) == FALSE
Outstanding(c) == owned[c] # {}

Ask(w, c, bound) ==
  /\ req[w] = Free
  /\ Admits(c)
  /\ IF Outstanding(c)
       THEN UNCHANGED <<tools, thread>>
       ELSE /\ tools'  = [tools EXCEPT ![c] = bound]
            /\ thread' = [thread EXCEPT ![c] = Saved(<<>>, <<>>)]
  /\ Goto(w, Model(c, ~Outstanding(c), bound))
  /\ UNCHANGED <<ledger, pending_args, owned, seen, done, restarts>>

\* call_model: a final answer, the step limit or a provider error ends the
\* turn.
ModelAnswers(w) ==
  /\ req[w].pc = "model"
  /\ Goto(w, Free)
  /\ UNCHANGED <<maps, thread, seen, done, restarts>>

\* call_model: the message asks for tools that need approval, also when the
\* turn has not bound them.
ModelCalls(w, calls) ==
  LET r == req[w] IN
  /\ r.pc = "model"
  /\ calls # <<>> /\ IsInjective(calls) /\ Range(calls) \subseteq fresh
  /\ fresh' = fresh \ Range(calls)
  /\ home'  = [id \in Ids |-> IF id \in Range(calls) THEN r.conv ELSE home[id]]
  /\ thread' = IF r.memory
                 THEN [thread EXCEPT ![r.conv] = Saved(calls, <<>>)]
                 ELSE thread
  /\ Goto(w, Node("tools", r.conv, r.memory, r.bound, calls, <<>>, 1))
  /\ UNCHANGED <<maps, shown, approved, cancelled, done, restarts>>

-----------------------------------------------------------------------------
(* call_tools, one call of the message at a time.  A resumed node starts   *)
(* again at the first call with the resume values stored so far.           *)

At(w)    == req[w].calls[req[w].i]
Left(w)  == req[w].i <= Len(req[w].calls)
Known(w) == req[w].bound = "export"
Next1(w, pc) ==
  Node(pc, req[w].conv, req[w].memory, req[w].bound, req[w].calls,
       req[w].answers, IF pc = "tools" THEN req[w].i + 1 ELSE req[w].i)

Answered(w) == req[w].i <= Len(req[w].answers)

DecisionOf_AnyIsYes(w) == "approve"

\* _decision_from_resume: a value for another id counts as a rejection.
DecisionOf(w) ==
  IF req[w].answers[req[w].i].id = At(w)
    THEN req[w].answers[req[w].i].decision ELSE "reject"

\* What the code before interrupt() writes, and what resolving an id drops.
Enter(w) ==
  [pending |-> pending_args \union {At(w)},
   owned   |-> IF req[w].memory
                 THEN [owned EXCEPT ![req[w].conv] = @ \union {At(w)}]
                 ELSE owned]
Forget_Latches(w) == owned
Forget(w) ==
  IF req[w].memory
    THEN [owned EXCEPT ![req[w].conv] = @ \ {At(w)}] ELSE owned

CallUnknown(w) ==
  /\ req[w].pc = "tools" /\ Left(w)
  /\ ~Known(w)
  /\ Goto(w, Next1(w, "tools"))
  /\ UNCHANGED <<maps, thread, seen, done, restarts>>

CallInterrupts(w) ==
  /\ req[w].pc = "tools" /\ Left(w)
  /\ Known(w) /\ ~Answered(w)
  /\ pending_args' = Enter(w).pending
  /\ owned' = Enter(w).owned
  /\ shown' = shown \union {At(w)}
  /\ thread' = IF req[w].memory
                 THEN [thread EXCEPT ![req[w].conv] =
                         Saved(req[w].calls, req[w].answers)]
                 ELSE thread
  /\ Goto(w, Free)
  /\ UNCHANGED <<ledger, tools, fresh, home, approved, cancelled, done,
                 restarts>>

CallRejected(w) ==
  /\ req[w].pc = "tools" /\ Left(w)
  /\ Known(w) /\ Answered(w) /\ DecisionOf(w) = "reject"
  /\ pending_args' = pending_args \ {At(w)}
  /\ owned' = Forget(w)
  /\ Goto(w, Next1(w, "tools"))
  /\ UNCHANGED <<ledger, tools, thread, seen, done, restarts>>

\* The arguments are popped and the approval forgotten before tool.run.
CallApproved(w) ==
  /\ req[w].pc = "tools" /\ Left(w)
  /\ Known(w) /\ Answered(w) /\ DecisionOf(w) = "approve"
  /\ pending_args' = pending_args \ {At(w)}
  /\ owned' = Forget(w)
  /\ Goto(w, Next1(w, "run"))
  /\ UNCHANGED <<ledger, tools, thread, seen, done, restarts>>

\* tool.run returns, or refuses its arguments: either way the loop goes on.
ToolRuns(w) ==
  /\ req[w].pc = "run"
  /\ runs' = [runs EXCEPT ![At(w)] = IF @ < RunCap THEN @ + 1 ELSE @]
  /\ ranHere' = ranHere \union {At(w)}
  /\ Goto(w, Next1(w, "tools"))
  /\ UNCHANGED <<maps, thread, seen, restarts>>

\* ToolFailureError leaves the node; the thread stays at the interrupt.
ToolFails(w) ==
  /\ req[w].pc = "run"
  /\ runs' = [runs EXCEPT ![At(w)] = IF @ < RunCap THEN @ + 1 ELSE @]
  /\ ranHere' = ranHere \union {At(w)}
  /\ Goto(w, Free)
  /\ UNCHANGED <<maps, thread, seen, restarts>>

\* All calls have a message: the checkpoint moves on and the model is next.
NodeEnds(w) ==
  /\ req[w].pc = "tools" /\ ~Left(w)
  /\ thread' = IF req[w].memory
                 THEN [thread EXCEPT ![req[w].conv] = Saved(<<>>, <<>>)]
                 ELSE thread
  /\ Goto(w, Model(req[w].conv, req[w].memory, req[w].bound))
  /\ UNCHANGED <<maps, seen, done, restarts>>

-----------------------------------------------------------------------------
(* A decision: DecideToolApproval.execute around resume_approval.          *)

Conflicts(id, decision) == ledger[id] \notin {"none", decision}

ReadLedger(w, c, id, decision) ==
  /\ req[w] = Free
  /\ Admits(c) /\ (Serial => ~Deciding(id))
  /\ id \in shown
  /\ approved' = IF decision = "approve" /\ home[id] = c
                   THEN approved \union {id} ELSE approved
  /\ \/ /\ ~Conflicts(id, decision)
        /\ Goto(w, Decide(IF ledger[id] = "none" THEN "record" ELSE "resume",
                          c, id, decision, ledger[id]))
     \/ /\ Conflicts(id, decision)              \* ToolApprovalConflictError
        /\ UNCHANGED req
  /\ UNCHANGED <<maps, thread, fresh, home, shown, cancelled, done, restarts>>

Record(w) ==
  LET r == req[w] IN
  /\ r.pc = "record"
  /\ ledger' = [ledger EXCEPT ![r.id] = r.decision]
  /\ Goto(w, Decide("resume", r.conv, r.id, r.decision, r.prior))
  /\ UNCHANGED <<pending_args, owned, tools, thread, seen, done, restarts>>

\* resume_approval's refusals; only a fresh decision is rolled back.
Foreign(w) == LET r == req[w] IN
  \/ ~thread[r.conv].exists
  \/ Interrupts(r.conv) # {} /\ r.id \notin Interrupts(r.conv)
  \/ r.id \in pending_args /\ r.id \notin owned[r.conv]

NotFound(w) ==
  /\ req[w].pc = "resume"
  /\ Foreign(w)
  /\ ledger' = IF req[w].prior = "none"
                 THEN [ledger EXCEPT ![req[w].id] = "none"] ELSE ledger
  /\ Goto(w, Free)
  /\ UNCHANGED <<pending_args, owned, tools, thread, seen, done, restarts>>

Settled_Never(w) == FALSE
Settled(w) ==
  Interrupts(req[w].conv) = {} /\ req[w].id \notin pending_args

\* A reject is answered "cancelled" unless the turn raises; it is counted
\* when the turn is resumed.
Cancels(w) ==
  IF req[w].decision = "reject"
    THEN cancelled \union {req[w].id} ELSE cancelled

\* Nothing is pending under this id: answer from the thread's last state.
Replays(w) ==
  LET r == req[w] IN
  /\ r.pc = "resume"
  /\ ~Foreign(w)
  /\ Settled(w)
  /\ owned' = [owned EXCEPT ![r.conv] = @ \ {r.id}]
  /\ cancelled' = Cancels(w)
  /\ Goto(w, Free)
  /\ UNCHANGED <<ledger, pending_args, tools, thread, fresh, home, shown,
                 approved, done, restarts>>

Accepts(w) ==
  LET r == req[w] IN
  /\ r.pc = "resume"
  /\ ~Foreign(w)
  /\ ~Settled(w)
  /\ Goto(w, Decide("invoke", r.conv, r.id, r.decision, r.prior))
  /\ UNCHANGED <<maps, thread, seen, done, restarts>>

\* compiled.invoke(Command(resume=...)): the value is stored with the
\* thread and the interrupted node starts over; a thread that is not
\* interrupted has nothing to run.
Invoke(w) ==
  LET r       == req[w]
      calls   == thread[r.conv].calls
      answers == Append(thread[r.conv].answers,
                        [id |-> r.id, decision |-> r.decision])
  IN
  /\ r.pc = "invoke"
  /\ cancelled' = Cancels(w)
  /\ IF calls = <<>>
       THEN /\ Goto(w, Free)
            /\ UNCHANGED thread
       ELSE /\ thread' = [thread EXCEPT ![r.conv] = Saved(calls, answers)]
            /\ Goto(w, Node("tools", r.conv, TRUE, tools[r.conv], calls,
                            answers, 1))
  /\ UNCHANGED <<maps, fresh, home, shown, approved, done, restarts>>

-----------------------------------------------------------------------------
(* Deleting a conversation, and the end of the process.                    *)

ClearThread(c) ==
  /\ Admits(c)
  /\ tools'  = [tools EXCEPT ![c] = "none"]
  /\ ledger' = [id \in Ids |-> IF id \in owned[c] THEN "none" ELSE ledger[id]]
  /\ pending_args' = pending_args \ owned[c]
  /\ owned'  = [owned EXCEPT ![c] = {}]
  /\ thread' = [thread EXCEPT ![c] = NoThread]
  /\ UNCHANGED <<req, seen, done, restarts>>

Restart ==
  /\ restarts < MaxRestarts
  /\ restarts' = restarts + 1
  /\ ledger' = [id \in Ids |-> "none"]
  /\ pending_args' = {}
  /\ owned'  = [c \in Conversations |-> {}]
  /\ tools'  = [c \in Conversations |-> "none"]
  /\ thread' = [c \in Conversations |-> NoThread]
  /\ req'    = [w \in Workers |-> Free]
  /\ ranHere' = {}
  /\ cancelled' = {}
  /\ UNCHANGED <<fresh, home, shown, approved, runs>>

-----------------------------------------------------------------------------
Init ==
  /\ ledger = [id \in Ids |-> "none"]
  /\ pending_args = {}
  /\ owned  = [c \in Conversations |-> {}]
  /\ tools  = [c \in Conversations |-> "none"]
  /\ thread = [c \in Conversations |-> NoThread]
  /\ req    = [w \in Workers |-> Free]
  /\ fresh = Ids
  /\ home = [id \in Ids |-> "none"]
  /\ shown = {} /\ approved = {} /\ cancelled = {}
  /\ runs = [id \in Ids |-> 0]
  /\ ranHere = {}
  /\ restarts = 0

\* What a server thread does by itself once a request is in.
Step(w) ==
  \/ ModelAnswers(w)
  \/ \E calls \in IdSeqs : ModelCalls(w, calls)
  \/ CallUnknown(w) \/ CallInterrupts(w) \/ CallRejected(w) \/ CallApproved(w)
  \/ ToolRuns(w) \/ ToolFails(w) \/ NodeEnds(w)
  \/ Record(w) \/ NotFound(w) \/ Replays(w) \/ Accepts(w) \/ Invoke(w)

Next ==
  \/ \E w \in Workers :
       \/ \E c \in Conversations, bound \in Bindings : Ask(w, c, bound)
       \/ \E c \in Conversations, id \in Ids, d \in Decisions :
            ReadLedger(w, c, id, d)
       \/ Step(w)
  \/ \E c \in Conversations : ClearThread(c)
  \/ Restart

Spec == Init /\ [][Next]_vars

\* A server thread that has a request works on it.
FairSpec == Spec /\ \A w \in Workers : WF_vars(Step(w))

-----------------------------------------------------------------------------
(* Properties.                                                             *)

Request ==
  {Free}
  \union [pc : {"model"}, conv : Conversations, memory : BOOLEAN,
          bound : Bindings \union {"none"}]
  \union [pc : {"tools", "run"}, conv : Conversations, memory : BOOLEAN,
          bound : Bindings \union {"none"}, calls : IdSeqs,
          answers : Seq(Answer), i : 1..(MaxCalls + 1)]
  \union [pc : {"record", "resume", "invoke"}, conv : Conversations,
          id : Ids, decision : Decisions, prior : Decisions \union {"none"}]

\* Every variable has its type.
TypeOK ==
  /\ ledger \in [Ids -> Decisions \union {"none"}]
  /\ pending_args \subseteq Ids
  /\ owned \in [Conversations -> SUBSET Ids]
  /\ tools \in [Conversations -> Bindings \union {"none"}]
  /\ thread \in [Conversations -> [exists : BOOLEAN, calls : IdSeqs,
                                  answers : Seq(Answer)]]
  /\ req \in [Workers -> Request]
  /\ fresh \subseteq Ids /\ shown \subseteq Ids /\ ranHere \subseteq Ids
  /\ home \in [Ids -> Conversations \union {"none"}]
  /\ approved \subseteq Ids
  /\ cancelled \subseteq Ids
  /\ runs \in [Ids -> 0..RunCap]
  /\ restarts \in 0..MaxRestarts

\* A tool runs only for a call that an approve was sent for, and sent in the
\* conversation whose turn asked: a decision sent elsewhere, or for another
\* call, or a reject, never lets it run (langgraph_tool_agent.py, #311).
RunsWereApproved ==
  \A id \in Ids : runs[id] > 0 => id \in approved

\* "Approval confirms one call": deciding again, asking again, a failure of
\* the tool and a restart never make an approved call run a second time; and
\* who is told that the action was cancelled and nothing was changed is told
\* the truth, whatever was decided about the call before in this process.
OneRunPerApproval ==
  /\ \A id \in Ids : runs[id] <= 1
  /\ cancelled \cap ranHere = {}

\* Between requests, an approval that is outstanding for a conversation can
\* be resumed: it is the only one, its arguments are stored, the thread
\* stands at its call and the tool to run is still bound.
Resumable ==
  \A c \in Conversations :
    owned[c] # {} /\ ~Busy(c) =>
      LET t == thread[c]
          n == Len(t.answers) + 1
      IN /\ t.exists /\ n <= Len(t.calls)
         /\ owned[c] = {t.calls[n]} /\ t.calls[n] \in pending_args
         /\ tools[c] = "export"

\* A decision that was accepted takes effect unless the process ends: the
\* conversation is released, and the tool has been called if it was approved.
DecisionTakesEffect ==
  \A id \in Ids, d \in Decisions :
    (\E w \in Workers : /\ req[w].pc = "invoke" /\ req[w].id = id
                        /\ req[w].decision = d /\ restarts = MaxRestarts)
    ~> /\ \A c \in Conversations : id \notin owned[c]
       /\ d = "approve" => runs[id] > 0

=============================================================================
