---------------------------- MODULE AtomicDraft ----------------------------
(***************************************************************************)
(* What the versioned draft promises its users: every accepted request is  *)
(* one step that turns the stored draft, and nothing older, into what the  *)
(* request makes of it, and raises the version by one.                     *)
(***************************************************************************)
EXTENDS DraftRules

VARIABLE draft

\* A request's list, if it has one, becomes the draft's.
APatch ==
  \E p \in [listed : BOOLEAN, list : {draft'.candidates},
            editing : BOOLEAN, edits : SUBSET draft.cases] :
  /\ Patchable(draft, p)
  /\ draft' = Stored(Patched(draft, p))

AConfirm == \E e \in Evidence :
  /\ Confirmable(draft)
  /\ draft' = Stored(ConfirmedBy(draft, e))

AGenerate ==
  \E targets \in SUBSET Selected(draft.candidates), ids \in SUBSET CandidateIds,
     type \in Types, overwrite \in BOOLEAN :
    /\ draft.status \in Confirmed /\ targets # {}
    /\ draft' = Stored(Generated(draft, Overridden(draft.candidates, ids, type),
                                targets, overwrite, draft.fingerprint))

AInit == draft = Start
ANext ==
  /\ draft'.version = draft.version + 1
  /\ APatch \/ AConfirm \/ AGenerate
AtomicSpec == AInit /\ [][ANext]_draft

=============================================================================
