---------------------------- MODULE DraftReplies ----------------------------
(***************************************************************************)
(* A Test Design draft under the requests of several workers, and what     *)
(* becomes of the model's replies in it, side by side: TestDesign has only *)
(* which cases there are, CaseReplies only what they say.                  *)
(***************************************************************************)
EXTENDS TestDesign, CaseReplies

DesignInit == Init /\ RepliesInit
DesignNext == \/ Next /\ UNCHANGED repliesVars
              \/ RepliesNext /\ UNCHANGED vars
DesignSpec == DesignInit /\ [][DesignNext]_<<vars, repliesVars>>

(* What users and the model wrote stays as it was written: edited cases    *)
(* are overwritten only knowingly, and scenarios go on meaning the same    *)
(* (generate_cases.py).                                                    *)
WritingKept == EditsKept /\ []ScenariosMeanTheSame

(* Cases stand on the evidence they were confirmed over, and candidates on *)
(* the sources they were suggested from (facade.py, suggest_tests.py).     *)
EvidenceHeld == EvidencePinned /\ []CitesEvidence
=============================================================================
