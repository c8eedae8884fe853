---------------------------- MODULE KnowledgeFlow ----------------------------
(***************************************************************************)
(* What feeds the stores and what reads them.  Connectors list what is     *)
(* selected: issues page by page, and the folders of a Drive.  A text is   *)
(* cut into chunks, and chunks are retrieved.  Each moves by itself.       *)
(***************************************************************************)
EXTENDS IssueListing, DriveWalk, Retrieval, Chunking

ListingsInit == ListInit /\ WalkInit
ListingsNext ==
    \/ ListNext /\ UNCHANGED walkVars
    \/ WalkNext /\ UNCHANGED listVars
ListingsSpec == ListingsInit /\ [][ListingsNext]_<<listVars, walkVars>>

\* A listing that does not raise has what was there, and what was not is not in
\* it, as their modules state it.
PassedOnWhole == ListedWhole /\ WalkedWhole

EvidenceInit == ChunkingInit /\ SearchInit
EvidenceNext ==
    \/ ChunkingNext /\ UNCHANGED searchVars
    \/ SearchNext /\ UNCHANGED chunkingVars
EvidenceSpec == EvidenceInit /\ [][EvidenceNext]_<<chunkingVars, searchVars>>

\* A text is cut without loss, and what is retrieved is ranked by its evidence,
\* as their modules state it.
EvidenceKept == TextKept /\ RankedByEvidence
=============================================================================
