------------------------------ MODULE DriveWalk ------------------------------
(***************************************************************************)
(* How the Google Drive connector lists what is selected: it walks the     *)
(* chosen folders, page by page and, from the Knowledge Hub, down into     *)
(* their folders, and adds the chosen files                                *)
(* (src/infrastructure/connectors/google_drive/connector.py), while files  *)
(* move.  Files here are the readable ones of a supported type; the        *)
(* folders stay where they are.                                            *)
(***************************************************************************)
EXTENDS Naturals, FiniteSets, Sequences, SequencesExt

CONSTANTS Files, Folders,
          Inside,        \* the folders in each folder
          MaxMoves

ASSUME DriveWalkAssumption ==
  /\ Inside \in [Folders -> SUBSET Folders] /\ IsFiniteSet(Folders)
  /\ Files \cap Folders = {}

VARIABLES selection,     \* chosen folders and files, and whether to go down
          places,        \* the folders each file is in; none when in the trash
          todo,          \* folders still to be walked, the next one first
          visited,
          page,          \* what the pages of the first of them gave so far
          rest,          \* chosen files still to be looked at
          documents, walk, moved

walkVars == <<selection, places, todo, visited, page, rest, documents, walk, moved>>

NoPage == {}
WalkInit ==
  /\ selection \in [folders : SUBSET Folders, files : SUBSET Files, down : BOOLEAN]
  /\ places \in [Files -> {{}} \union {{d} : d \in Folders}]
  /\ \E order \in SetToSeqs(selection.folders) : todo = order
  /\ visited = {} /\ page = NoPage /\ rest = selection.files
  /\ documents = {} /\ walk = "walking" /\ moved = {}

Children(d) == {f \in Files : d \in places[f]} \union Inside[d]

-----------------------------------------------------------------------------
(* _collect_folder: enter, pages, then the folders inside.                 *)

\* A folder is walked once, whatever leads to it.
Skip == Head(todo) \in visited /\ page = NoPage

Leave ==
  /\ walk = "walking" /\ todo # <<>> /\ Skip
  /\ todo' = Tail(todo)
  /\ UNCHANGED <<selection, places, visited, page, rest, documents, walk, moved>>

\* Some more of what is in the folder by now; if that is all, on to the next.
Below(d) == IF selection.down THEN Inside[d] ELSE {}
Ahead == IF todo = <<>> THEN {} ELSE Children(Head(todo)) \ page
NextPage(given) ==
  LET d == Head(todo) IN
  /\ walk = "walking" /\ todo # <<>> /\ ~Skip
  /\ given # {} \/ Children(d) \subseteq page
  /\ visited' = visited \union {d}
  /\ documents' = documents \union (given \intersect Files)
  /\ IF Children(d) \subseteq page \union given
     THEN /\ \E below \in SetToSeqs(Below(d)) : todo' = below \o Tail(todo)
          /\ page' = NoPage
     ELSE page' = page \union given /\ UNCHANGED todo
  /\ UNCHANGED <<selection, places, rest, walk, moved>>

\* Chosen files that no folder gave; one in the trash is left out.
LookAt(f) ==
  /\ walk = "walking" /\ todo = <<>> /\ f \in rest
  /\ rest' = rest \ {f}
  /\ documents' = IF places[f] # {} THEN documents \union {f} ELSE documents
  /\ UNCHANGED <<selection, places, todo, visited, page, walk, moved>>

Walked ==
  /\ walk = "walking" /\ todo = <<>> /\ rest = {}
  /\ walk' = "walked"
  /\ UNCHANGED <<selection, places, todo, visited, page, rest, documents, moved>>

\* No access, throttling, anything: the listing raises.
WalkFails ==
  /\ walk = "walking"
  /\ walk' = "failed"
  /\ UNCHANGED <<selection, places, todo, visited, page, rest, documents, moved>>

MoveFile(f, where) ==
  /\ walk = "walking" /\ f \notin moved /\ Cardinality(moved) < MaxMoves
  /\ where # places[f]
  /\ places' = [places EXCEPT ![f] = where]
  /\ moved' = moved \union {f}
  /\ UNCHANGED <<selection, todo, visited, page, rest, documents, walk>>

WalkNext ==
  \/ Leave \/ Walked \/ WalkFails
  \/ \E given \in SUBSET Ahead : NextPage(given)
  \/ \E f \in Files : LookAt(f)
  \/ \E f \in Files, where \in {{}} \union {{d} : d \in Folders} : MoveFile(f, where)

WalkSpec == WalkInit /\ [][WalkNext]_walkVars

-----------------------------------------------------------------------------
\* The folders that a walk leads to: those of every set that has the chosen
\* folders and what is below its own.
Closed(S) == selection.folders \subseteq S /\ \A d \in S : Below(d) \subseteq S
Reached == {d \in Folders : \A S \in SUBSET Folders : Closed(S) => d \in S}

(* A walk that does not raise lists every file that stayed in place in a   *)
(* folder it leads to or was chosen, and no other file that stayed in      *)
(* place.                                                                  *)
WalkedWhole ==
  walk = "walked" =>
    \A f \in Files \ moved :
      f \in documents <=> \/ places[f] \intersect Reached # {}
                          \/ f \in selection.files /\ places[f] # {}
=============================================================================
