----------------------------- MODULE DraftRules -----------------------------
(***************************************************************************)
(* What one request makes of a Test Design draft, as pure operators:       *)
(* patching it, confirming it and generating its cases                     *)
(* (src/composition/test_design/facade.py,                                 *)
(* src/packs/software_delivery/test_design/models.py and                   *)
(* generate_cases.py).  A draft is the record                              *)
(*   [status, candidates, cases, edited, fingerprint, version]             *)
(* with candidates a function from ids to candidates, cases the ids that   *)
(* have a generated case and edited those whose case a user has changed.   *)
(***************************************************************************)
EXTENDS Naturals, Functions

CONSTANTS CandidateIds,
          Texts,         \* titles, and texts of the other coverage fields
          Types,         \* test types
          Evidence       \* fingerprints of what the source says

Statuses  == {"coverage_review", "ready", "case_editing"}
Confirmed == {"ready", "case_editing"}
Candidate == [title : Texts, coverage : Texts, type : Types, selected : BOOLEAN]
CandidateLists == UNION {[S -> Candidate] : S \in SUBSET CandidateIds}

Draft == [status : Statuses, candidates : CandidateLists,
          cases : SUBSET CandidateIds, edited : SUBSET CandidateIds,
          fingerprint : Evidence \union {"none"}, version : Nat \ {0}]

\* A suggested draft: nothing is selected yet.
Suggested == [title |-> CHOOSE x \in Texts : TRUE,
              coverage |-> CHOOSE x \in Texts : TRUE,
              type |-> CHOOSE x \in Types : TRUE, selected |-> FALSE]
Start == [status |-> "coverage_review",
          candidates |-> [c \in CandidateIds |-> Suggested],
          cases |-> {}, edited |-> {}, fingerprint |-> "none", version |-> 1]

\* The store raises the version with every update.
Stored(d) == [d EXCEPT !.version = @ + 1]

Selected(list) == {c \in DOMAIN list : list[c].selected}

-----------------------------------------------------------------------------
(* Comparing the candidates of a request with those of the draft.          *)

\* coverage_candidate_fingerprint, with and without the title.
Coverage(k) == <<k.title, k.coverage, k.selected>>
Untitled(k) == <<k.coverage, k.selected>>

CoverageEqual(old, new) ==
  /\ DOMAIN old = DOMAIN new
  /\ \A c \in DOMAIN old : Coverage(old[c]) = Coverage(new[c])

TitlesOnly(old, new) ==
  /\ DOMAIN old = DOMAIN new
  /\ \A c \in DOMAIN old : /\ Untitled(old[c]) = Untitled(new[c])
                           /\ old[c].type = new[c].type
  /\ \E c \in DOMAIN old : old[c].title # new[c].title

DeselectionOnly(old, new) ==
  /\ DOMAIN old = DOMAIN new
  /\ \A c \in DOMAIN old :
       \/ Coverage(old[c]) = Coverage(new[c])
       \/ /\ old[c].selected /\ ~new[c].selected
          /\ old[c].title = new[c].title /\ old[c].coverage = new[c].coverage
  /\ ~CoverageEqual(old, new)

\* The candidates whose type a request leaves alone: those of its list.
SameType(old, new) ==
  {c \in DOMAIN old : c \in DOMAIN new /\ old[c].type = new[c].type}

Unchanged(old, new) ==
  {c \in SameType(old, new) : new[c].selected /\ Coverage(old[c]) = Coverage(new[c])}

-----------------------------------------------------------------------------
(* patch_draft: a request may carry a list of candidates, which replaces   *)
(* the draft's, and a list of cases, which edits those it names:           *)
(* [listed, list, editing, edits].                                         *)

Narrows_AnySelection(d, list) == DeselectionOnly(d.candidates, list)
\* Some of the candidates stay selected and nothing else changes.
Narrows(d, list) ==
  Selected(list) # {} /\ DeselectionOnly(d.candidates, list)

Keeps(d, kept) ==
  [d EXCEPT !.cases = @ \intersect kept, !.edited = @ \intersect kept]

WithCandidates(d, list) ==
  LET old == d.candidates
      new == [d EXCEPT !.candidates = list]
  IN IF d.status \in Confirmed /\ TitlesOnly(old, list)
       THEN new
     ELSE IF d.status \in Confirmed /\ Narrows(d, list)
       THEN Keeps(new, SameType(old, list) \intersect Selected(list))
     ELSE IF ~CoverageEqual(old, list)
       THEN [Keeps(new, Unchanged(old, list)) EXCEPT
               !.status = "coverage_review", !.fingerprint = "none"]
       ELSE Keeps(new, SameType(old, list))

Listed(d, p) == IF p.listed THEN WithCandidates(d, p.list) ELSE d

\* Editing a case that the draft does not have, or one that the same request
\* has demoted, is a validation error.
Patchable(d, p) ==
  p.editing => /\ Listed(d, p).status \in Confirmed
               /\ p.edits \subseteq Listed(d, p).cases

Patched(d, p) ==
  IF p.editing
    THEN [Listed(d, p) EXCEPT !.edited = @ \union p.edits,
                              !.status = "case_editing"]
    ELSE Listed(d, p)

-----------------------------------------------------------------------------
(* confirm_draft and generate_cases.                                       *)

Confirmable(d) == d.status = "coverage_review" /\ Selected(d.candidates) # {}

ConfirmedBy(d, evidence) ==
  LET kept == Keeps(d, Selected(d.candidates)) IN
  [kept EXCEPT !.status = IF kept.cases = {} THEN "ready" ELSE "case_editing",
               !.fingerprint = evidence]

\* The type the request gives to the candidates it names.
Overridden(list, ids, type) ==
  [c \in DOMAIN list |->
     IF c \in ids THEN [list[c] EXCEPT !.type = type] ELSE list[c]]

Skipped_None(d, targets, overwrite) == {}
\* User-edited cases are generated again only on demand.
Skipped(d, targets, overwrite) ==
  IF overwrite THEN {} ELSE targets \intersect d.edited

Generated(d, list, targets, overwrite, evidence) ==
  LET todo == targets \ Skipped(d, targets, overwrite) IN
  IF todo = {}
    THEN [d EXCEPT !.candidates = list, !.fingerprint = evidence]
    ELSE [d EXCEPT !.candidates = list, !.cases = @ \union todo,
                   !.edited = @ \ todo, !.status = "case_editing",
                   !.fingerprint = evidence]

=============================================================================
