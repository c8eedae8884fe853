----------------------------- MODULE CaseReplies -----------------------------
(***************************************************************************)
(* What becomes of the replies of the model in Test Design: the candidates *)
(* it suggests with the sources they cite, and the Gherkin of the cases it *)
(* writes, which share one Background per draft                            *)
(* (src/packs/software_delivery/test_design/suggest_tests.py and           *)
(* generate_cases.py).                                                     *)
(*                                                                         *)
(* A scenario is its steps and the columns of its Examples, if it has any, *)
(* a case without Gherkin the empty one.  Keywords are left out.  Requests *)
(* are served one at a time: how they interleave is in TestDesign.         *)
(***************************************************************************)
EXTENDS Naturals, FiniteSets, SequencesExt

CONSTANTS Ids,              \* of the candidates
          Scenarios,        \* what the model and users write
          Backgrounds,      \* sequences of steps, the empty one among them
          Uses,             \* from steps to the placeholders in them
          Pairs, Fold,      \* <<type, id>>, and types to their case-folded form
          Ticket            \* an id

Steps == DOMAIN Uses
IsScenario(s) == s = [steps |-> s.steps, table |-> s.table] /\ s.steps \in Seq(Steps)

ASSUME RepliesAssumption ==
  /\ \A s \in Scenarios : IsScenario(s)
  /\ Backgrounds \subseteq Seq(Steps)
  /\ IsFiniteSet(Pairs)

\* No step of a Background has a placeholder.  Nothing refuses one.
PlainBackgrounds == \A b \in Backgrounds : \A i \in DOMAIN b : Uses[b[i]] = {}

VARIABLES bundle,           \* the sources of the evidence
          cited,            \* what the model cited for a candidate
          refs,             \* what the candidate was stored with
          background,       \* of the draft
          cases,            \* from the candidates that have one
          edited,           \* those whose case is a user's
          wrote, runs       \* history: steps as written, and as first run

suggestVars == <<bundle, cited, refs>>
repliesVars == <<suggestVars, background, cases, edited, wrote, runs>>

NoGherkin == [steps |-> <<>>, table |-> {}]
Written == Scenarios \union {NoGherkin}
Cucumber(case) == case.steps # <<>>

RepliesInit ==
  /\ bundle = {} /\ cited = {} /\ refs = {} /\ background = <<>>
  /\ cases = <<>> /\ edited = {} /\ wrote = <<>> /\ runs = <<>>

-----------------------------------------------------------------------------
(* Suggested candidates.                                                   *)

Single(set) == Cardinality(set) = 1

\* The pair of the bundle that is meant: itself, one that differs in the case
\* of its type, one with the id, one of the type for the ticket, the only one.
Resolve(p) ==
  LET sameType == {q \in bundle' : Fold[q[1]] = Fold[p[1]]}
      sameId   == {q \in bundle' : q[2] = p[2]}
  IN IF p \in bundle' THEN {p}
     ELSE IF Single(sameType \intersect sameId) THEN sameType \intersect sameId
     ELSE IF Single(sameId) THEN sameId
     ELSE IF Single(bundle') THEN bundle'
     ELSE IF p[2] = Ticket /\ Single(sameType) THEN sameType ELSE {}

\* Each source once, and at least one
References(pairs) == UNION {Resolve(p) : p \in pairs}

\* Each candidate is taken alone; one that cites nothing of the evidence fails
\* the whole suggestion, and nothing is stored.
Suggest ==
  /\ refs = {} /\ cases = <<>>
  /\ bundle' \in (SUBSET Pairs) \ {{}} /\ cited' \in (SUBSET Pairs) \ {{}}
  /\ refs' = References(cited') /\ refs' # {}
  /\ UNCHANGED <<background, cases, edited, wrote, runs>>

\* Cases are written from what the source says then, whatever was cited.
Confirm ==
  /\ bundle' = {} /\ cited' = {} /\ refs' = {}
  /\ background' = IF cases = <<>> THEN <<>> ELSE background
  /\ UNCHANGED <<cases, edited, wrote, runs>>

-----------------------------------------------------------------------------
(* Generated cases.                                                        *)

Used(s) == UNION {Uses[s.steps[i]] : i \in DOMAIN s.steps}

\* Columns that no step reads, or placeholders without a column
Problem(s) == s.table # {} /\ (Used(s) = {} \/ s.table # Used(s))

DropUnused(s) == IF Used(s) = {} THEN [s EXCEPT !.table = {}] ELSE s

\* The first steps that repeat the Background go, unless all would.
Strip(s, shared) ==
  LET n == Len(LongestCommonPrefix({s.steps, shared})) IN
  IF n = Len(s.steps) THEN s ELSE [s EXCEPT !.steps = SubSeq(@, n + 1, Len(@))]

Retained(targets) == [c \in DOMAIN cases \ targets |-> cases[c]]

\* Cases that stay keep the Background they were written under.
Shared(given, retained) ==
  IF (\E c \in DOMAIN retained : Cucumber(retained[c])) \/ given = <<>>
  THEN background ELSE given

\* Problems are sent back once; without an answer, and in any case, a table that
\* no step reads is dropped.
Settled(reply, retry) ==
  LET merged == [c \in DOMAIN reply |-> IF c \in DOMAIN retry THEN retry[c] ELSE reply[c]]
  IN IF \E c \in DOMAIN reply : Problem(reply[c])
     THEN [c \in DOMAIN reply |-> DropUnused(merged[c])] ELSE reply

Over(new, old) == [c \in DOMAIN new \union DOMAIN old |->
                     IF c \in DOMAIN new THEN new[c] ELSE old[c]]

\* The steps that a case runs
Run(shared, case) == shared \o case.steps

Store(targets, settled, given) ==
  LET retained == Retained(targets)
      shared == Shared(given, retained)
      new == [c \in targets |-> Strip(settled[c], shared)]
  IN /\ cases' = Over(new, retained)
     /\ background' = IF \E c \in DOMAIN cases' : Cucumber(cases'[c]) THEN shared ELSE <<>>
     /\ edited' = edited \ targets
     /\ wrote' = Over([c \in targets |-> settled[c].steps], wrote)
     /\ runs' = Over([c \in targets |-> Run(background', new[c])], runs)

\* A reply that lacks a case, has one too many or cites something else fails.
Generate ==
  /\ refs = {}
  /\ \E targets \in (SUBSET Ids) \ {{}}, given \in Backgrounds :
       \E reply \in [targets -> Written] :
         LET problems == {c \in targets : Problem(reply[c])} IN
         \E retry \in {<<>>} \union [problems -> Written] :
           Store(targets, Settled(reply, retry), given)
  /\ UNCHANGED suggestVars

-----------------------------------------------------------------------------
(* What users do to cases and the Background.                              *)

EditCase ==
  /\ \E c \in DOMAIN cases, s \in Written :
       /\ cases' = [cases EXCEPT ![c] = s]
       /\ edited' = edited \union {c}
       /\ wrote' = [wrote EXCEPT ![c] = s.steps]
       /\ runs' = [runs EXCEPT ![c] = Run(background, s)]
  /\ UNCHANGED <<suggestVars, background>>

EditBackground ==
  /\ cases # <<>> /\ background' \in Backgrounds
  /\ wrote' = [c \in DOMAIN cases |-> cases[c].steps]
  /\ runs' = [c \in DOMAIN cases |-> Run(background', cases[c])]
  /\ UNCHANGED <<suggestVars, cases, edited>>

\* A candidate is no longer selected; the Background stays.
Deselect ==
  /\ \E c \in DOMAIN cases :
       /\ cases' = Retained({c}) /\ edited' = edited \ {c}
       /\ wrote' = [i \in DOMAIN cases' |-> wrote[i]]
       /\ runs' = [i \in DOMAIN cases' |-> runs[i]]
  /\ UNCHANGED <<suggestVars, background>>

RepliesNext ==
  Suggest \/ Confirm \/ Generate \/ EditCase \/ EditBackground \/ Deselect

RepliesSpec == RepliesInit /\ [][RepliesNext]_repliesVars

-----------------------------------------------------------------------------
(* Candidates cite the evidence that they were suggested from: what the    *)
(* model cited rightly stays, and a wrong citation becomes a source of     *)
(* another id only where no other could be meant.                          *)
CitesEvidence ==
  /\ refs \subseteq bundle /\ cited \intersect bundle \subseteq refs
  /\ \A r \in refs :
       \/ \E p \in cited : p[2] = r[2]
       \/ bundle = {r}
       \/ /\ \E p \in cited : p[2] = Ticket
          /\ \A q \in bundle : Fold[q[1]] = Fold[r[1]] => q = r

(* A scenario goes on meaning what was written: under the shared           *)
(* Background it runs each of its steps in their order (those that are not *)
(* its own any more are the first of the Background), it runs the same     *)
(* however often others are written, edited or dropped beside it, and one  *)
(* that the model wrote has Examples only if some step reads them.         *)
ScenariosMeanTheSame ==
  \A c \in DOMAIN cases : Cucumber(cases[c]) =>
    /\ Run(background, cases[c]) = runs[c]
    /\ \E n \in 0..Len(background) :
         wrote[c] = SubSeq(background, 1, n) \o cases[c].steps
    /\ c \notin edited /\ cases[c].table # {} => Used(cases[c]) # {}
=============================================================================
