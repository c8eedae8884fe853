----------------------------- MODULE TestDesign -----------------------------
(***************************************************************************)
(* Test Design drafts on the server: TestDesignFacade                      *)
(* (src/composition/test_design/facade.py), GenerateTestCases              *)
(* (src/packs/software_delivery/test_design/generate_cases.py) and the     *)
(* versioned store (src/infrastructure/workspace_store/sql_store.py).  A   *)
(* request reads the draft, may fetch the evidence and ask a model, and    *)
(* saves with the version its author has seen.  Requests run on server     *)
(* threads and interleave between any two of these steps.                  *)
(***************************************************************************)
EXTENDS DraftRules

CONSTANTS Workers, MaxVersion,
          Movable        \* candidates a request may change or remove

ASSUME TestDesignAssumption ==
  /\ Texts # {} /\ Types # {} /\ "none" \notin Evidence
  /\ MaxVersion \in Nat \ {0}

VARIABLES draft,       \* the stored record of one draft
          req,         \* what each server thread is doing
          source       \* the fingerprint of what the source says now

vars == <<draft, req, source>>

Free == [pc |-> "free"]
\* Before the evidence is fetched: the draft a confirm has read, and the
\* fingerprint of the one a generate has read.
Confirming(expected, base) ==
  [pc |-> "confirm", expected |-> expected, base |-> base]
Fetching(kind, expected, fingerprint, more) ==
  [pc |-> "fetch", kind |-> kind, expected |-> expected,
   fingerprint |-> fingerprint, more |-> more]
Loading(kind, expected, evidence, more) ==
  [pc |-> "load", kind |-> kind, expected |-> expected, evidence |-> evidence,
   more |-> more]
Saving(kind, expected, result) ==
  [pc |-> "save", kind |-> kind, expected |-> expected, result |-> result]

Goto(w, r) == req' = [req EXCEPT ![w] = r]

Init ==
  /\ draft = Start
  /\ req = [w \in Workers |-> Free]
  /\ source \in Evidence

-----------------------------------------------------------------------------
(* What is asked for.  The author has seen some version of the draft; the  *)
(* requests tried here change one candidate or edit one case.              *)

Admits(w, expected) ==
  /\ req[w] = Free
  /\ draft.version < MaxVersion
  /\ expected \in 1..draft.version

\* The version an author has seen: also an older one when cases are edited.
Seen(editing) ==
  IF editing THEN {draft.version, draft.version - 1} \ {0} ELSE {draft.version}

Lists(list) ==
  LET here == DOMAIN list \intersect Movable IN
  UNION {{[list EXCEPT ![c].title = x]    : c \in here, x \in Texts},
         {[list EXCEPT ![c].coverage = x] : c \in here, x \in Texts},
         {[list EXCEPT ![c].type = x]     : c \in here, x \in Types},
         {[list EXCEPT ![c].selected = x] : c \in DOMAIN list, x \in BOOLEAN},
         {Restrict(list, DOMAIN list \ {c}) : c \in here},
         {[c \in CandidateIds |-> IF c \in DOMAIN list THEN list[c]
                                                        ELSE Suggested]}}
Patches(d) ==
  [listed : {TRUE}, list : Lists(d.candidates), editing : {FALSE}, edits : {{}}]
  \union [listed : {FALSE}, list : {<<>>}, editing : {TRUE},
          edits : {{}} \union {{c} : c \in d.cases}]
Targets(d) ==
  {Selected(d.candidates)} \union {{c} : c \in Selected(d.candidates) \ Movable}
Overrides(d) ==
  {[ids |-> {}, type |-> CHOOSE x \in Types : TRUE]}
  \union {[ids |-> {c}, type |-> t] : c \in DOMAIN d.candidates \intersect Movable,
                                     t \in Types}

-----------------------------------------------------------------------------
(* patch_draft: read, compute, save.                                       *)

AskPatch(w, expected, p) ==
  /\ Admits(w, expected)
  /\ Patchable(draft, p)
  /\ Goto(w, Saving("patch", expected, Patched(draft, p)))
  /\ UNCHANGED <<draft, source>>

(* confirm_draft checks the version at once, fetches the evidence, saves.  *)

AskConfirm(w, expected) ==
  /\ Admits(w, expected)
  /\ draft.version = expected
  /\ Confirmable(draft)
  /\ Goto(w, Confirming(expected, draft))
  /\ UNCHANGED <<draft, source>>

FetchToConfirm(w) ==
  LET r == req[w] IN
  /\ r.pc = "confirm"
  /\ Goto(w, Saving("confirm", r.expected, ConfirmedBy(r.base, source)))
  /\ UNCHANGED <<draft, source>>

(* generate_cases reads, fetches, reads again, asks the model and saves.   *)

AskGenerate(w, expected, targets, types, overwrite) ==
  /\ Admits(w, expected)
  /\ draft.status \in Confirmed
  /\ Goto(w, Fetching(IF overwrite THEN "overwrite" ELSE "generate", expected,
                      draft.fingerprint, [targets |-> targets, types |-> types]))
  /\ UNCHANGED <<draft, source>>

SameEvidence_Unchecked(fingerprint, evidence) == TRUE
SameEvidence(fingerprint, evidence) == fingerprint \in {"none", evidence}

FetchToGenerate(w) ==
  LET r == req[w] IN
  /\ r.pc = "fetch"
  /\ SameEvidence(r.fingerprint, source)
  /\ Goto(w, Loading(r.kind, r.expected, source, r.more))
  /\ UNCHANGED <<draft, source>>

EvidenceChanged(w) ==
  LET r == req[w] IN
  /\ r.pc = "fetch"
  /\ ~SameEvidence(r.fingerprint, source)
  /\ Goto(w, Free)
  /\ UNCHANGED <<draft, source>>

Retyped(w) ==
  Overridden(draft.candidates, req[w].more.types.ids, req[w].more.types.type)
Todo(w) ==
  req[w].more.targets
    \ Skipped(draft, req[w].more.targets, req[w].kind = "overwrite")

\* The draft as it is now must still allow what was asked.
Loadable(w) ==
  /\ draft.status \in Confirmed
  /\ req[w].more.targets \subseteq Selected(draft.candidates)
  /\ req[w].more.types.ids \subseteq DOMAIN draft.candidates

Load(w) ==
  LET r == req[w] IN
  /\ r.pc = "load"
  /\ Loadable(w)
  /\ Todo(w) # {} \/ Retyped(w) # draft.candidates
  /\ Goto(w, Saving(r.kind, r.expected,
                    Generated(draft, Retyped(w), r.more.targets,
                              r.kind = "overwrite", r.evidence)))
  /\ UNCHANGED <<draft, source>>

NothingToDo(w) ==
  /\ req[w].pc = "load"
  /\ Loadable(w) => Todo(w) = {} /\ Retyped(w) = draft.candidates
  /\ Goto(w, Free)
  /\ UNCHANGED <<draft, source>>

-----------------------------------------------------------------------------
(* The end of a request.                                                   *)

Conflicts_Never(w) == FALSE
Conflicts(w) == draft.version # req[w].expected

\* VersionedWorkspaceStore.update: compare and swap in one transaction.
Save(w) ==
  /\ req[w].pc = "save"
  /\ ~Conflicts(w)
  /\ draft' = Stored([req[w].result EXCEPT !.version = req[w].expected])
  /\ Goto(w, Free)
  /\ UNCHANGED source

Conflict(w) ==
  /\ req[w].pc = "save"
  /\ Conflicts(w)
  /\ Goto(w, Free)
  /\ UNCHANGED <<draft, source>>

\* The source or the model fails, or the process ends.
Fails(w) ==
  /\ req[w] # Free
  /\ Goto(w, Free)
  /\ UNCHANGED <<draft, source>>

\* The issue is edited where it lives.
SourceMoves ==
  /\ source' \in Evidence \ {source}
  /\ UNCHANGED <<draft, req>>

Next ==
  \/ \E w \in Workers :
       \/ \E p \in Patches(draft) : \E v \in Seen(p.editing) : AskPatch(w, v, p)
       \/ AskConfirm(w, draft.version)
       \/ \E t \in Targets(draft), o \in Overrides(draft), again \in BOOLEAN :
            AskGenerate(w, draft.version, t, o, again)
       \/ FetchToConfirm(w) \/ FetchToGenerate(w) \/ EvidenceChanged(w)
       \/ Load(w) \/ NothingToDo(w)
       \/ Save(w) \/ Conflict(w) \/ Fails(w)
  \/ SourceMoves

Spec == Init /\ [][Next]_vars

-----------------------------------------------------------------------------
(* Properties.                                                             *)

More == [targets : SUBSET CandidateIds,
         types : [ids : SUBSET CandidateIds, type : Types]]
Kinds == {"patch", "confirm", "generate", "overwrite"}
Request ==
  {Free}
  \union [pc : {"confirm"}, expected : 1..MaxVersion, base : Draft]
  \union [pc : {"fetch"}, kind : Kinds, expected : 1..MaxVersion,
          fingerprint : Evidence \union {"none"}, more : More]
  \union [pc : {"load"}, kind : Kinds, expected : 1..MaxVersion,
          evidence : Evidence, more : More]
  \union [pc : {"save"}, kind : Kinds, expected : 1..MaxVersion,
          result : Draft]

\* Every variable has its type, and versions stay within the bound.
TypeOK ==
  /\ draft \in Draft /\ draft.version <= MaxVersion
  /\ req \in [Workers -> Request]
  /\ source \in Evidence

\* A draft that is ready was confirmed over evidence it names and over a
\* selection that is not empty, and has no cases before the first generation;
\* cases always belong to selected candidates, so that the checks of
\* TestCoverageDraft never refuse a save (models.py, __post_init__).
ReadyIsConfirmed ==
  /\ draft.status \in Confirmed =>
       draft.fingerprint # "none" /\ Selected(draft.candidates) # {}
  /\ draft.status = "coverage_review" => draft.fingerprint = "none"
  /\ draft.status = "ready" => draft.cases = {}
  /\ draft.edited \subseteq draft.cases
  /\ draft.cases \subseteq Selected(draft.candidates)

\* "Regeneration ... never silently overwrites user_edited cases": what a user
\* wrote goes only by a patch, or a generation that asks for it, whose author
\* has seen the version that holds it.
EditsKept ==
  [][\A c \in draft.edited :
       \/ c \in draft'.edited
       \/ \E w \in Workers : /\ req[w].pc = "save"
                             /\ req[w].kind \in {"patch", "overwrite"}
                             /\ req[w].expected = draft.version]_vars

\* Cases are generated only over the evidence the draft was confirmed over:
\* between two confirmations the fingerprint of a draft does not move.
EvidencePinned ==
  [][draft.status \in Confirmed /\ draft'.status \in Confirmed
       => draft'.fingerprint = draft.fingerprint]_vars

\* However requests interleave, each accepted one acts on the draft it
\* replaces, all at once: no save is lost and none is built on an older draft.
Atomic == INSTANCE AtomicDraft WITH draft <- draft
ActsAtomically == Atomic!AtomicSpec

=============================================================================
