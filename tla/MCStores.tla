------------------------------ MODULE MCStores ------------------------------
(***************************************************************************)
(* Stores, and what reads them or feeds them: the chunk store, the locks   *)
(* of the upload blobs, the projects, the connectors' listings, retrieval, *)
(* and the cutting of a text into chunks.  Which one moves is chosen at    *)
(* the start, the others stay as they are.                                 *)
(***************************************************************************)
EXTENDS ChunkStore, PathLocks, Projects, KnowledgeFlow

CONSTANTS a, b, c, p1, p2, u1, u2, f, g

VARIABLE which

\* Issues 1, 2, 3 and 5 of one project and 4 of another
MCProjectOf == [k \in IssueKeys |-> IF k = 4 THEN 2 ELSE 1]

\* Folder a holds b and c, and b holds c as well
MCInside == [d \in Folders |-> CASE d = a -> {b, c} [] d = b -> {c} [] d = c -> {}]

\* Kinds of lines, short and longer ones
LinesOfText ==
    [kind : {"fence", "row", "separator", "indented", "text"}, size : {2}]
        \cup [kind : {"row", "head", "item", "text"}, size : {4}]
        \cup {[kind |-> "blank", size |-> 1]}
CutsOfText == {[size |-> 6, overlap |-> 0], [size |-> 6, overlap |-> 2]}

MCCosines    == {-2, -1, 1}
MCMatches    == {-1, 1}
MCThresholds == {-1}

MCInit ==
    /\ which \in {"chunks", "locks", "projects", "search", "issues", "drive", "text"}
    /\ IF which = "chunks" THEN TRUE ELSE rows = <<>>
    /\ IF which = "search" THEN TRUE
       ELSE config = [hybrid |-> FALSE, alpha |-> 0, threshold |-> -1, limit |-> 1,
                      agent |-> FALSE]
    /\ IF which = "issues" THEN TRUE ELSE server = "github" /\ issues = {}
    /\ IF which = "drive" THEN TRUE
       ELSE /\ selection = [folders |-> {}, files |-> {}, down |-> FALSE]
            /\ places = [d \in {f, g} |-> {}]
    /\ IF which = "text" THEN ChunkingInit
       ELSE /\ chunks = <<>>
            /\ document = [markdown |-> FALSE, lines |-> <<[kind |-> "text", size |-> 2]>>]
            /\ cut = [size |-> 6, overlap |-> 0]
    /\ Init /\ LockInit /\ ProjectsInit
    /\ SearchInit /\ ListingsInit

MCNext ==
    \/ /\ which = "chunks" /\ Next
       /\ UNCHANGED <<which, lockVars, projectVars, searchVars, listVars, walkVars, chunkingVars>>
    \/ /\ which = "locks" /\ LockNext
       /\ UNCHANGED <<which, vars, projectVars, searchVars, listVars, walkVars, chunkingVars>>
    \/ /\ which = "projects" /\ ProjectsNext
       /\ UNCHANGED <<which, vars, lockVars, searchVars, listVars, walkVars, chunkingVars>>
    \/ /\ which = "search" /\ SearchNext
       /\ UNCHANGED <<which, vars, lockVars, projectVars, listVars, walkVars, chunkingVars>>
    \/ /\ which = "issues" /\ ListNext
       /\ UNCHANGED <<which, vars, lockVars, projectVars, searchVars, walkVars, chunkingVars>>
    \/ /\ which = "drive" /\ WalkNext
       /\ UNCHANGED <<which, vars, lockVars, projectVars, searchVars, listVars, chunkingVars>>
    \/ /\ which = "text" /\ ChunkingNext
       /\ UNCHANGED <<which, vars, lockVars, projectVars, searchVars, listVars, walkVars>>

MCSpec == MCInit /\ [][MCNext]_<<which, vars, lockVars, projectVars, searchVars,
                                 listVars, walkVars, chunkingVars>>
=============================================================================
