------------------------ MODULE ConnectorSync_proofs ------------------------
(***************************************************************************)
(* Connector synchronization: type correctness, what failures may remove,  *)
(* and what catalog rows say about the chunks beside them, for every       *)
(* number of documents, roots, request threads, changes and failures.      *)
(***************************************************************************)
EXTENDS ConnectorSync, TLAPS

(* Where a run works on a document: up to the pending row, and after it.   *)
Deciding  == {"adopt", "probe", "fetch", "rewrite", "advance", "pending"}
Ingesting == {"embed", "vecDelete", "vecUpsert", "ready", "restore", "degrade",
              "degradeRaise"}
Working   == Deciding \cup Ingesting

(* What a request knows whatever other requests do: the document it works  *)
(* on is one it listed and took, what it decided still follows from the    *)
(* row it read, and what it removes after a failure is out of the roots it *)
(* listed.                                                                 *)
LocalOK(p) ==
    /\ pc[p] \in Working => cur[p] \in DOMAIN listing[p] /\ cur[p] \notin todo[p]
    /\ pc[p] \in Working \cup {"catalog", "pick"} => todo[p] \subseteq DOMAIN listing[p]
    /\ pc[p] = "adopt" => Ready(Before(p)) /\ Before(p).prints.prof = None
    /\ pc[p] \in {"probe", "rewrite", "advance"} =>
         /\ CurrentProfile(Before(p))
         /\ Before(p).prints.text # None
         /\ source[p] = None => Describes /\ Before(p).prints.hash = Sought(p).text
         /\ source[p] # None => Before(p).prints.text = source[p]
    /\ pc[p] = "probe" => source[p] = None
    /\ pc[p] \in {"rewrite", "advance"} => Before(p).fmt = Sought(p).fmt
    /\ pc[p] \in Ingesting \cup {"pending"} => source[p] # None
    /\ pc[p] \in Working /\ Pinned => source[p] \in {None, Sought(p).text}
    /\ pc[p] \in {"idle", "catalog", "purge"} => ~failed[p]
    /\ pc[p] = "removeRow" => cur[p] \in doomed[p]
    /\ pc[p] \in {"remove", "removeRow"} /\ failed[p] /\ Kind # "drive" =>
         \A d \in doomed[p], e \in DOMAIN listing[p] : RootOf[e] # RootOf[d]

LInv == TypeOK /\ \A p \in Runs : LocalOK(p)

(* TypeOK, of what requests share and of what each has for itself.         *)
SharedTypes ==
    /\ remote \in [Docs -> Listed \cup {NoDoc}] /\ edits \in 0..MaxEdits
    /\ row \in [Docs -> Row \cup {NoRow}]
    /\ chunks \in [Docs -> Chunk \cup {NoChunks}]
    /\ connected \in BOOLEAN /\ selection \in SUBSET Roots
    /\ selections \in 0..MaxSelections
    /\ profile \in Profile /\ faults \in 0..MaxFaults

ControlTypes ==
    /\ pc \in [Runs -> Labels]
    /\ listing \in [Runs -> Listings]
    /\ snap \in [Runs -> [Docs -> Row \cup {NoRow}]]
    /\ todo \in [Runs -> SUBSET Docs] /\ doomed \in [Runs -> SUBSET Docs]
    /\ cur \in [Runs -> Docs \cup {None}]
    /\ source \in [Runs -> Stamp \cup {None}]
    /\ forced \in [Runs -> BOOLEAN] /\ failed \in [Runs -> BOOLEAN]

(* Nothing a request has for itself changes.                               *)
Same(p) ==
    /\ pc'[p] = pc[p] /\ listing'[p] = listing[p] /\ snap'[p] = snap[p]
    /\ todo'[p] = todo[p] /\ cur'[p] = cur[p] /\ source'[p] = source[p]
    /\ forced'[p] = forced[p] /\ failed'[p] = failed[p] /\ doomed'[p] = doomed[p]

(* Only one request moves.                                                 *)
Moves(p) == profile' = profile /\ \A q \in Runs \ {p} : Same(q)

-----------------------------------------------------------------------------
(* Data.                                                                   *)

LEMMA TypeParts == TypeOK <=> SharedTypes /\ ControlTypes
BY DEF TypeOK, SharedTypes, ControlTypes

\* An absent document, row or set of chunks is none of the others.
LEMMA NoDocIs == NoDoc \notin Listed /\ NoDoc.text = None /\ NoDoc.rev = None
BY DEF NoDoc, Listed, Stamp, None

LEMMA NoRowIs ==
  NoRow \notin Row /\ NoRow.status = "none" /\ NoRow.prints = NoPrints /\ ~Ready(NoRow)
<1>1. \A r \in Row : r.status \in {"pending", "ready", "failed", "degraded"}
  BY DEF Row
<1>. QED  BY <1>1 DEF NoRow, Ready

LEMMA NoChunksIs == NoChunks \notin Chunk
BY DEF NoChunks, Chunk, Stamp, None

LEMMA ListedFields ==
  ASSUME NEW l \in Listed
  PROVE  l.text \in Stamp /\ l.fmt \in Formats /\ l.rev \in Stamp
BY DEF Listed

LEMMA RowFields ==
  ASSUME NEW r \in Row
  PROVE  /\ r.status \in {"pending", "ready", "failed", "degraded"}
         /\ r.rev \in Stamp /\ r.fmt \in Formats \cup {None} /\ r.prints \in Prints
BY DEF Row

LEMMA PrintsFields ==
  ASSUME NEW x \in Prints
  PROVE  /\ x.text \in Stamp \cup {None} /\ x.meta \in Stamp \cup {None}
         /\ x.prof \in Profile \cup {None} /\ x.hash \in Stamp \cup {None}
BY DEF Prints

\* Every row, absent ones included, has prints.
LEMMA RowPrints ==
  ASSUME NEW r \in Row \cup {NoRow}
  PROVE  r.prints \in Prints
<1>1. NoPrints \in Prints
  BY DEF NoPrints, Prints
<1>. QED  BY <1>1, RowFields, NoRowIs

LEMMA ChunkFields ==
  ASSUME NEW c \in Chunk
  PROVE  /\ c.text \in Stamp /\ c.cut \in Formats /\ c.fmt \in Formats /\ c.rev \in Stamp
         /\ c.prof \in Profile \cup {None} /\ c.whole \in BOOLEAN
BY DEF Chunk

LEMMA MkRowIs ==
  ASSUME NEW s \in {"pending", "ready", "failed", "degraded"}, NEW r \in Stamp,
         NEW f \in Formats \cup {None}, NEW x \in Prints
  PROVE  /\ MkRow(s, r, f, x) \in Row
         /\ MkRow(s, r, f, x).status = s /\ MkRow(s, r, f, x).rev = r
         /\ MkRow(s, r, f, x).fmt = f /\ MkRow(s, r, f, x).prints = x
BY DEF MkRow, Row

LEMMA FirstFormatIs == FirstFormat \in Formats
BY ConstantAssumption DEF FirstFormat

\* What a run listed, document by document.
LEMMA ListingIs ==
  ASSUME NEW f \in Listings
  PROVE  /\ DOMAIN f \subseteq Docs
         /\ \A d \in DOMAIN f : f[d] \in Listed
BY DEF Listings

LEMMA NothingIs == Nothing \in Listings /\ DOMAIN Nothing = {}
<1>1. Nothing \in [{} -> Listed]
  BY DEF Nothing
<1>2. {} \in SUBSET Docs
  OBVIOUS
<1>. QED  BY <1>1, <1>2 DEF Listings

-----------------------------------------------------------------------------
(* How a request moves on.                                                 *)

LEMMA GotoIs ==
  ASSUME ControlTypes, NEW p \in Runs, NEW label \in Labels, Goto(p, label)
  PROVE  pc' \in [Runs -> Labels] /\ pc'[p] = label /\ \A q \in Runs \ {p} : pc'[q] = pc[q]
BY DEF ControlTypes, Goto

LEMMA ContinueIs ==
  ASSUME ControlTypes, NEW p \in Runs, NEW label \in Labels, Continue(p, label)
  PROVE  /\ ControlTypes' /\ pc'[p] = label /\ \A q \in Runs \ {p} : Same(q)
         /\ UNCHANGED <<listing, snap, todo, cur, source, forced, failed, doomed>>
<1>1. Goto(p, label) /\ UNCHANGED <<listing, snap, todo, cur, source, forced, failed, doomed>>
  BY DEF Continue
<1>. QED  BY <1>1, GotoIs DEF ControlTypes, Same

LEMMA FailedOutcomeIs ==
  ASSUME ControlTypes, NEW p \in Runs, FailedOutcome(p)
  PROVE  /\ ControlTypes' /\ pc'[p] = "pick" /\ \A q \in Runs \ {p} : Same(q)
         /\ UNCHANGED <<listing, snap, todo, cur, source, forced, doomed>>
<1>1. /\ Goto(p, "pick") /\ failed' = [failed EXCEPT ![p] = TRUE]
      /\ UNCHANGED <<listing, snap, todo, cur, source, forced, doomed>>
  BY DEF FailedOutcome
<1>2. "pick" \in Labels
  BY DEF Labels
<1>3. failed' \in [Runs -> BOOLEAN] /\ \A q \in Runs \ {p} : failed'[q] = failed[q]
  BY <1>1 DEF ControlTypes
<1>. QED  BY <1>1, <1>2, <1>3, GotoIs DEF ControlTypes, Same

LEMMA ReingestIs ==
  ASSUME ControlTypes, NEW p \in Runs, NEW label \in Labels, Reingest(p, label)
  PROVE  /\ ControlTypes' /\ pc'[p] = label /\ \A q \in Runs \ {p} : Same(q)
         /\ UNCHANGED <<listing, snap, todo, cur, source, failed, doomed>>
<1>1. /\ Goto(p, label) /\ forced' = [forced EXCEPT ![p] = TRUE]
      /\ UNCHANGED <<listing, snap, todo, cur, source, failed, doomed>>
  BY DEF Reingest
<1>3. forced' \in [Runs -> BOOLEAN] /\ \A q \in Runs \ {p} : forced'[q] = forced[q]
  BY <1>1 DEF ControlTypes
<1>. QED  BY <1>1, <1>3, GotoIs DEF ControlTypes, Same

LEMMA FinishIs ==
  ASSUME ControlTypes, NEW p \in Runs, Finish(p)
  PROVE  /\ ControlTypes' /\ pc'[p] = "idle" /\ ~failed'[p] /\ DOMAIN listing'[p] = {}
         /\ \A q \in Runs \ {p} : Same(q)
<1>1. "idle" \in Labels /\ Goto(p, "idle")
  BY DEF Labels, Finish
<1>2. listing' \in [Runs -> Listings] /\ listing'[p] = Nothing
      /\ \A q \in Runs \ {p} : listing'[q] = listing[q]
  BY NothingIs DEF Finish, ControlTypes
<1>3. snap' \in [Runs -> [Docs -> Row \cup {NoRow}]]
      /\ \A q \in Runs \ {p} : snap'[q] = snap[q]
  BY DEF Finish, ControlTypes
<1>4. /\ todo' \in [Runs -> SUBSET Docs] /\ doomed' \in [Runs -> SUBSET Docs]
      /\ \A q \in Runs \ {p} : todo'[q] = todo[q] /\ doomed'[q] = doomed[q]
  BY DEF Finish, ControlTypes
<1>5. /\ cur' \in [Runs -> Docs \cup {None}] /\ source' \in [Runs -> Stamp \cup {None}]
      /\ \A q \in Runs \ {p} : cur'[q] = cur[q] /\ source'[q] = source[q]
  BY DEF Finish, ControlTypes
<1>6. /\ forced' \in [Runs -> BOOLEAN] /\ failed' \in [Runs -> BOOLEAN] /\ ~failed'[p]
      /\ \A q \in Runs \ {p} : forced'[q] = forced[q] /\ failed'[q] = failed[q]
  BY DEF Finish, ControlTypes
<1>. QED  BY <1>1, <1>2, <1>3, <1>4, <1>5, <1>6, GotoIs, NothingIs DEF ControlTypes, Same

\* What a request that does not move knows stays true.
LEMMA Others ==
  ASSUME NEW p \in Runs, Same(p), profile' = profile, LocalOK(p)
  PROVE  LocalOK(p)'
BY DEF Same, LocalOK, Before, Sought, CurrentProfile, Ready

\* A request with nothing to do knows nothing.
LEMMA IdleLocal ==
  ASSUME NEW p \in Runs, pc'[p] = "idle", ~failed'[p]
  PROVE  LocalOK(p)'
BY DEF LocalOK, Working, Deciding, Ingesting

\* After a document only the ones still to do matter.
LEMMA PickLocal ==
  ASSUME NEW p \in Runs, LocalOK(p), pc[p] \in Working, pc'[p] = "pick",
         todo'[p] = todo[p], listing'[p] = listing[p]
  PROVE  LocalOK(p)'
BY DEF LocalOK, Working, Deciding, Ingesting

\* While the document is ingested its text and its listing stay.
LEMMA IngestLocal ==
  ASSUME NEW p \in Runs, LocalOK(p), pc[p] \in Ingesting \cup {"pending"}, pc'[p] \in Ingesting,
         UNCHANGED <<listing, snap, todo, cur, source, forced, failed, doomed>>
  PROVE  LocalOK(p)'
BY DEF LocalOK, Working, Deciding, Ingesting, Sought

\* What a step of one request does to types, to that request and to others.
LocalStep(p) == SharedTypes' /\ ControlTypes' /\ LocalOK(p)' /\ Moves(p)

LEMMA LocalFacts ==
  ASSUME LInv, NEW p \in Runs
  PROVE  SharedTypes /\ ControlTypes /\ LocalOK(p)
BY TypeParts DEF LInv

\* The document a run works on is one it listed.
LEMMA CurrentDoc ==
  ASSUME LInv, NEW p \in Runs, pc[p] \in Working
  PROVE  /\ cur[p] \in Docs /\ cur[p] \in DOMAIN listing[p]
         /\ Sought(p) \in Listed /\ Before(p) \in Row \cup {NoRow}
<1>1. ControlTypes /\ LocalOK(p)
  BY LocalFacts
<1>2. listing[p] \in Listings /\ snap[p] \in [Docs -> Row \cup {NoRow}]
  BY <1>1 DEF ControlTypes
<1>3. cur[p] \in DOMAIN listing[p]
  BY <1>1 DEF LocalOK
<1>. QED  BY <1>2, <1>3, ListingIs DEF Sought, Before

LEMMA FaultIs ==
  ASSUME SharedTypes, Fault
  PROVE  faults' \in 0..MaxFaults
BY ConstantAssumption DEF SharedTypes, Fault

\* A write of one document's row.
LEMMA RowWritten ==
  ASSUME row \in [Docs -> Row \cup {NoRow}], NEW d \in Docs, NEW new \in Row \cup {NoRow},
         row' = [row EXCEPT ![d] = new]
  PROVE  /\ row' \in [Docs -> Row \cup {NoRow}] /\ row'[d] = new
         /\ \A e \in Docs \ {d} : row'[e] = row[e]
OBVIOUS

LEMMA ChunksWritten ==
  ASSUME chunks \in [Docs -> Chunk \cup {NoChunks}], NEW d \in Docs,
         NEW new \in Chunk \cup {NoChunks}, chunks' = [chunks EXCEPT ![d] = new]
  PROVE  /\ chunks' \in [Docs -> Chunk \cup {NoChunks}] /\ chunks'[d] = new
         /\ \A e \in Docs \ {d} : chunks'[e] = chunks[e]
OBVIOUS

\* A catalog write goes on at a label, or fails and ends the request.
LEMMA UpsertIs ==
  ASSUME LInv, NEW p \in Runs, cur[p] \in Docs, NEW new \in Row, NEW label \in Labels,
         Upsert(p, new, label)
  PROVE  /\ SharedTypes' /\ ControlTypes' /\ Moves(p)
         /\ UNCHANGED <<provider, grant, chunks, profile>>
         /\ \/ /\ row' = [row EXCEPT ![cur[p]] = new] /\ pc'[p] = label
               /\ UNCHANGED <<listing, snap, todo, cur, source, forced, failed, doomed>>
            \/ /\ row' = row /\ pc'[p] = "idle" /\ ~failed'[p] /\ DOMAIN listing'[p] = {}
<1>1. SharedTypes /\ ControlTypes
  BY LocalFacts
<1>2. UNCHANGED <<provider, grant, chunks, profile>>
  BY DEF Upsert
<1>3. CASE row' = [row EXCEPT ![cur[p]] = new] /\ Continue(p, label) /\ UNCHANGED faults
  <2>1. row' \in [Docs -> Row \cup {NoRow}]
    BY <1>1, <1>3, RowWritten DEF SharedTypes
  <2>2. SharedTypes'
    BY <1>1, <1>2, <1>3, <2>1 DEF SharedTypes, provider, grant
  <2>. QED  BY <1>1, <1>2, <1>3, <2>2, ContinueIs DEF Moves
<1>4. CASE Fault /\ Finish(p) /\ UNCHANGED row
  <2>1. SharedTypes'
    BY <1>1, <1>2, <1>4, FaultIs DEF SharedTypes, provider, grant
  <2>. QED  BY <1>1, <1>2, <1>4, <2>1, FinishIs DEF Moves
<1>. QED  BY <1>3, <1>4 DEF Upsert

\* Writing the row of the current document and going on with the next.
LEMMA UpsertLocal ==
  ASSUME LInv, NEW p \in Runs, NEW new \in Row, NEW label \in Labels, Upsert(p, new, label),
         \/ pc[p] \in Working /\ label = "pick"
         \/ pc[p] = "pending" /\ label = "embed"
  PROVE  LocalStep(p)
<1>. /\ SharedTypes /\ ControlTypes /\ LocalOK(p) /\ cur[p] \in Docs
  <2>1. pc[p] \in Working
    BY DEF Working, Deciding
  <2>. QED  BY <2>1, LocalFacts, CurrentDoc
<1>1. /\ SharedTypes' /\ ControlTypes' /\ Moves(p)
      /\ \/ /\ pc'[p] = label
            /\ UNCHANGED <<listing, snap, todo, cur, source, forced, failed, doomed>>
         \/ pc'[p] = "idle" /\ ~failed'[p]
  BY UpsertIs
<1>2. CASE pc'[p] = "idle" /\ ~failed'[p]
  BY <1>1, <1>2, IdleLocal DEF LocalStep
<1>3. CASE /\ pc'[p] = label
           /\ UNCHANGED <<listing, snap, todo, cur, source, forced, failed, doomed>>
  <2>1. CASE label = "pick" /\ pc[p] \in Working
    BY <1>1, <1>3, <2>1, PickLocal DEF LocalStep
  <2>2. CASE label = "embed" /\ pc[p] = "pending"
    BY <1>1, <1>3, <2>2, IngestLocal DEF LocalStep, Ingesting
  <2>. QED  BY <2>1, <2>2
<1>. QED  BY <1>1, <1>2, <1>3

LEMMA AdoptLocal ==
  ASSUME LInv, NEW p \in Runs, Adopt(p)
  PROVE  LocalStep(p)
<1>1. pc[p] = "adopt" /\ pc[p] \in Working /\ "pick" \in Labels
  BY DEF Adopt, Working, Deciding, Labels
<1>2. LocalOK(p) /\ SharedTypes /\ Before(p) \in Row
  BY <1>1, LocalFacts, CurrentDoc, NoRowIs DEF LocalOK
<1> DEFINE r == Before(p)
           x == [text |-> r.prints.text, meta |-> r.prints.meta,
                 prof |-> profile, hash |-> r.prints.hash]
<1>3. x \in Prints
  BY <1>2, RowFields, PrintsFields DEF Prints, SharedTypes
<1>4. MkRow(r.status, r.rev, r.fmt, x) \in Row
  BY <1>2, <1>3, RowFields, MkRowIs
<1>5. Upsert(p, MkRow(r.status, r.rev, r.fmt, x), "pick")
  BY DEF Adopt
<1>. HIDE DEF x, r
<1>. QED  BY <1>1, <1>4, <1>5, UpsertLocal

\* Revisions and provider hashes a listing may declare.
LEMMA HashIs ==
  ASSUME NEW l \in Listed
  PROVE  ProviderHash(l) \in Stamp \cup {None}
BY ListedFields DEF ProviderHash

LEMMA AdvanceRowIs ==
  ASSUME SharedTypes, NEW l \in Listed, NEW text \in Stamp \cup {None}
  PROVE  /\ [text |-> text, meta |-> l.rev, prof |-> profile, hash |-> ProviderHash(l)] \in Prints
         /\ MkRow("ready", l.rev, l.fmt, [text |-> text, meta |-> l.rev, prof |-> profile,
                                          hash |-> ProviderHash(l)]) \in Row
<1>1. [text |-> text, meta |-> l.rev, prof |-> profile, hash |-> ProviderHash(l)] \in Prints
  BY ListedFields, HashIs DEF Prints, SharedTypes
<1>. QED  BY <1>1, ListedFields, MkRowIs

LEMMA AdvanceLocal ==
  ASSUME LInv, NEW p \in Runs, Advance(p)
  PROVE  LocalStep(p)
<1>1. pc[p] = "advance" /\ pc[p] \in Working /\ "pick" \in Labels
  BY DEF Advance, Working, Deciding, Labels
<1>2. SharedTypes /\ ControlTypes /\ Sought(p) \in Listed /\ Before(p) \in Row \cup {NoRow}
  BY <1>1, LocalFacts, CurrentDoc
<1> DEFINE text == IF source[p] = None THEN Before(p).prints.text ELSE source[p]
<1>3. text \in Stamp \cup {None}
  BY <1>2, RowPrints, PrintsFields DEF ControlTypes
<1>4. Upsert(p, MkRow("ready", Sought(p).rev, Sought(p).fmt,
                      [text |-> text, meta |-> Sought(p).rev, prof |-> profile,
                       hash |-> ProviderHash(Sought(p))]), "pick")
  BY DEF Advance
<1>. HIDE DEF text
<1>. QED  BY <1>1, <1>2, <1>3, <1>4, AdvanceRowIs, UpsertLocal

LEMMA ReadyRowIs ==
  ASSUME LInv, NEW p \in Runs, pc[p] \in Ingesting
  PROVE  ReadyRow(p) \in Row
<1>1. pc[p] \in Working
  BY DEF Working
<1>2. SharedTypes /\ ControlTypes /\ Sought(p) \in Listed
  BY <1>1, LocalFacts, CurrentDoc
<1>3. source[p] \in Stamp \cup {None}
  BY <1>2 DEF ControlTypes
<1>. QED  BY <1>2, <1>3, AdvanceRowIs DEF ReadyRow

LEMMA WriteReadyLocal ==
  ASSUME LInv, NEW p \in Runs, WriteReady(p)
  PROVE  LocalStep(p)
<1>1. pc[p] = "ready" /\ pc[p] \in Ingesting /\ pc[p] \in Working /\ "pick" \in Labels
  BY DEF WriteReady, Working, Ingesting, Labels
<1>. QED  BY <1>1, ReadyRowIs, UpsertLocal DEF WriteReady

\* A row written for a document whose ingest has begun.
LEMMA StrandedIs ==
  ASSUME LInv, NEW p \in Runs, pc[p] \in Working,
         NEW status \in {"pending", "ready", "failed", "degraded"}
  PROVE  /\ Stranded(p, status) \in Row
         /\ Stranded(p, status).status = status
         /\ Stranded(p, status).rev = Sought(p).rev
         /\ Stranded(p, status).fmt = Sought(p).fmt
         /\ Stranded(p, status).prints = Before(p).prints
<1>1. Sought(p) \in Listed /\ Before(p).prints \in Prints
  BY CurrentDoc, RowPrints
<1>. QED  BY <1>1, ListedFields, MkRowIs DEF Stranded

LEMMA WritePendingLocal ==
  ASSUME LInv, NEW p \in Runs, WritePending(p)
  PROVE  LocalStep(p)
<1>1. pc[p] = "pending" /\ pc[p] \in Working /\ "embed" \in Labels
  BY DEF WritePending, Working, Deciding, Labels
<1>2. Upsert(p, Stranded(p, "pending"), "embed") /\ Stranded(p, "pending") \in Row
  BY <1>1, StrandedIs DEF WritePending, Stranded
<1>. QED  BY <1>1, <1>2, UpsertLocal

\* A row of a failed document: the run goes on, or ends when that write fails.
LEMMA RecordFailureIs ==
  ASSUME LInv, NEW p \in Runs, pc[p] \in Working, NEW new \in Row, RecordFailure(p, new)
  PROVE  /\ LocalStep(p)
         /\ UNCHANGED <<provider, grant, chunks, profile>>
         /\ \/ /\ row' = [row EXCEPT ![cur[p]] = new] /\ pc'[p] = "pick"
               /\ UNCHANGED <<listing, snap, todo, cur, source, forced, doomed>>
            \/ row' = row /\ pc'[p] = "idle" /\ DOMAIN listing'[p] = {}
<1>1. SharedTypes /\ ControlTypes /\ LocalOK(p) /\ cur[p] \in Docs
  BY LocalFacts, CurrentDoc
<1>2. UNCHANGED <<provider, grant, chunks, profile>>
  BY DEF RecordFailure
<1>3. CASE row' = [row EXCEPT ![cur[p]] = new] /\ FailedOutcome(p) /\ UNCHANGED faults
  <2>1. row' \in [Docs -> Row \cup {NoRow}]
    BY <1>1, <1>3, RowWritten DEF SharedTypes
  <2>2. SharedTypes'
    BY <1>1, <1>2, <1>3, <2>1 DEF SharedTypes, provider, grant
  <2>3. /\ ControlTypes' /\ pc'[p] = "pick" /\ \A q \in Runs \ {p} : Same(q)
        /\ UNCHANGED <<listing, snap, todo, cur, source, forced, doomed>>
    BY <1>1, <1>3, FailedOutcomeIs
  <2>4. LocalOK(p)'
    BY <1>1, <2>3, PickLocal
  <2>. QED  BY <1>2, <1>3, <2>2, <2>3, <2>4 DEF Moves, LocalStep
<1>4. CASE Fault /\ Finish(p) /\ UNCHANGED row
  <2>1. SharedTypes'
    BY <1>1, <1>2, <1>4, FaultIs DEF SharedTypes, provider, grant
  <2>2. /\ ControlTypes' /\ pc'[p] = "idle" /\ ~failed'[p] /\ DOMAIN listing'[p] = {}
        /\ \A q \in Runs \ {p} : Same(q)
    BY <1>1, <1>4, FinishIs
  <2>. QED  BY <1>2, <1>4, <2>1, <2>2, IdleLocal DEF Moves, LocalStep
<1>. QED  BY <1>3, <1>4 DEF RecordFailure

LEMMA RestoreLocal ==
  ASSUME LInv, NEW p \in Runs, Restore(p)
  PROVE  LocalStep(p)
<1>1. pc[p] \in Working
  BY DEF Restore, Working, Ingesting
<1>2. (IF Before(p) # NoRow THEN Before(p) ELSE Stranded(p, "failed")) \in Row
  BY <1>1, CurrentDoc, StrandedIs
<1>. QED  BY <1>1, <1>2, RecordFailureIs DEF Restore

LEMMA DegradeLocal ==
  ASSUME LInv, NEW p \in Runs, Degrade(p)
  PROVE  LocalStep(p)
<1>1. pc[p] \in Working
  BY DEF Degrade, Working, Ingesting
<1>. QED  BY <1>1, StrandedIs, RecordFailureIs DEF Degrade

LEMMA DegradeRaiseLocal ==
  ASSUME LInv, NEW p \in Runs, DegradeRaise(p)
  PROVE  LocalStep(p)
<1>1. pc[p] \in Working /\ Finish(p) /\ UNCHANGED <<provider, grant, chunks, profile>>
  BY DEF DegradeRaise, Working, Ingesting
<1>2. SharedTypes /\ ControlTypes /\ cur[p] \in Docs /\ Stranded(p, "degraded") \in Row
  BY <1>1, LocalFacts, CurrentDoc, StrandedIs
<1>3. row' \in [Docs -> Row \cup {NoRow}] /\ faults' \in 0..MaxFaults
  <2>1. CASE row' = [row EXCEPT ![cur[p]] = Stranded(p, "degraded")] /\ UNCHANGED faults
    BY <1>2, <2>1, RowWritten DEF SharedTypes
  <2>2. CASE Fault /\ UNCHANGED row
    BY <1>2, <2>2, FaultIs DEF SharedTypes
  <2>. QED  BY <2>1, <2>2 DEF DegradeRaise
<1>4. SharedTypes'
  BY <1>1, <1>2, <1>3 DEF SharedTypes, provider, grant
<1>. QED  BY <1>1, <1>2, <1>4, FinishIs, IdleLocal DEF Moves, LocalStep

LEMMA AbortLocal ==
  ASSUME LInv, NEW p \in Runs, Abort(p)
  PROVE  LocalStep(p)
<1>1. Fault /\ Finish(p) /\ UNCHANGED <<provider, grant, stores, profile>>
  BY DEF Abort
<1>2. SharedTypes /\ ControlTypes
  BY LocalFacts
<1>3. SharedTypes'
  BY <1>1, <1>2, FaultIs DEF SharedTypes, provider, grant, stores
<1>. QED  BY <1>1, <1>2, <1>3, FinishIs, IdleLocal DEF Moves, LocalStep

LEMMA ProbeLocal ==
  ASSUME LInv, NEW p \in Runs, Probe(p)
  PROVE  LocalStep(p)
<1>1. /\ pc[p] = "probe" /\ pc[p] \in Working /\ {"fetch", "rewrite"} \subseteq Labels
      /\ UNCHANGED <<provider, grant, stores, profile>>
  BY DEF Probe, Working, Deciding, Labels
<1>2. SharedTypes /\ ControlTypes /\ LocalOK(p)
  BY LocalFacts
<1>3. CASE Reingest(p, "fetch") /\ UNCHANGED faults
  <2>1. SharedTypes'
    BY <1>1, <1>2, <1>3 DEF SharedTypes, provider, grant, stores
  <2>2. /\ ControlTypes' /\ pc'[p] = "fetch" /\ \A q \in Runs \ {p} : Same(q)
        /\ UNCHANGED <<listing, snap, todo, cur, source, failed, doomed>>
    BY <1>1, <1>2, <1>3, ReingestIs
  <2>3. LocalOK(p)'
    BY <1>1, <1>2, <2>2 DEF LocalOK, Working, Deciding, Ingesting, Sought
  <2>. QED  BY <1>1, <2>1, <2>2, <2>3 DEF Moves, LocalStep
<1>4. CASE Continue(p, IF Describable(p) THEN "rewrite" ELSE "fetch") /\ UNCHANGED faults
  <2>1. SharedTypes'
    BY <1>1, <1>2, <1>4 DEF SharedTypes, provider, grant, stores
  <2>2. /\ ControlTypes' /\ pc'[p] = (IF Describable(p) THEN "rewrite" ELSE "fetch")
        /\ \A q \in Runs \ {p} : Same(q)
        /\ UNCHANGED <<listing, snap, todo, cur, source, forced, failed, doomed>>
    BY <1>1, <1>2, <1>4, ContinueIs
  <2>3. LocalOK(p)'
    BY <1>1, <1>2, <2>2
    DEF LocalOK, Working, Deciding, Ingesting, Sought, Before, Describable, CurrentProfile, Ready
  <2>. QED  BY <1>1, <2>1, <2>2, <2>3 DEF Moves, LocalStep
<1>5. CASE Fault /\ FailedOutcome(p)
  <2>1. SharedTypes'
    BY <1>1, <1>2, <1>5, FaultIs DEF SharedTypes, provider, grant, stores
  <2>. QED  BY <1>1, <1>2, <1>5, <2>1, FailedOutcomeIs, PickLocal DEF Moves, LocalStep
<1>. QED  BY <1>3, <1>4, <1>5 DEF Probe

\* What a fetch returns is a text, and the listed one where blobs are pinned.
LEMMA FetchedIs ==
  ASSUME LInv, NEW p \in Runs, pc[p] = "fetch", Available(p)
  PROVE  Fetched(p) \in Stamp /\ (Pinned => Fetched(p) = Sought(p).text)
<1>1. pc[p] \in Working
  BY DEF Working, Deciding
<1>2. cur[p] \in Docs /\ Sought(p) \in Listed /\ remote \in [Docs -> Listed \cup {NoDoc}]
  BY <1>1, LocalFacts, CurrentDoc DEF SharedTypes
<1>3. CASE Pinned
  BY <1>2, <1>3, ListedFields DEF Fetched
<1>4. CASE ~Pinned
  <2>1. remote[cur[p]] \in Listed
    BY <1>2, <1>4 DEF Available
  <2>. QED  BY <1>4, <2>1, ListedFields DEF Fetched
<1>. QED  BY <1>3, <1>4

LEMMA FetchLocal ==
  ASSUME LInv, NEW p \in Runs, Fetch(p)
  PROVE  LocalStep(p) /\ source'[p] = Fetched(p)
<1>1. /\ pc[p] = "fetch" /\ Available(p) /\ {"rewrite", "pending"} \subseteq Labels
      /\ source' = [source EXCEPT ![p] = Fetched(p)]
      /\ Goto(p, IF SameContent(p, Fetched(p)) THEN "rewrite" ELSE "pending")
      /\ UNCHANGED <<provider, grant, stores, profile, faults, listing, snap, todo, cur,
                     forced, failed, doomed>>
  BY DEF Fetch, Labels
<1>2. SharedTypes /\ ControlTypes /\ LocalOK(p)
  BY LocalFacts
<1>3. Fetched(p) \in Stamp /\ (Pinned => Fetched(p) = Sought(p).text) /\ Fetched(p) # None
  BY <1>1, FetchedIs DEF Stamp, None
<1>4. /\ source' \in [Runs -> Stamp \cup {None}] /\ source'[p] = Fetched(p)
      /\ \A q \in Runs \ {p} : source'[q] = source[q]
  BY <1>1, <1>2, <1>3 DEF ControlTypes
<1>5. /\ pc' \in [Runs -> Labels] /\ \A q \in Runs \ {p} : pc'[q] = pc[q]
      /\ pc'[p] = IF SameContent(p, Fetched(p)) THEN "rewrite" ELSE "pending"
  BY <1>1, <1>2, GotoIs
<1>6. SharedTypes' /\ ControlTypes' /\ Moves(p)
  BY <1>1, <1>2, <1>4, <1>5 DEF SharedTypes, ControlTypes, Moves, Same, provider, grant, stores
<1>7. LocalOK(p)'
  <2>1. CASE SameContent(p, Fetched(p))
    BY <1>1, <1>2, <1>3, <1>4, <1>5, <2>1
    DEF LocalOK, Working, Deciding, Ingesting, Sought, Before, SameContent, CurrentProfile, Ready
  <2>2. CASE ~SameContent(p, Fetched(p))
    BY <1>1, <1>2, <1>3, <1>4, <1>5, <2>2 DEF LocalOK, Working, Deciding, Ingesting, Sought
  <2>. QED  BY <2>1, <2>2
<1>. QED  BY <1>4, <1>6, <1>7 DEF LocalStep

LEMMA FetchFailsLocal ==
  ASSUME LInv, NEW p \in Runs, FetchFails(p)
  PROVE  LocalStep(p)
<1>1. /\ pc[p] = "fetch" /\ pc[p] \in Working /\ FailedOutcome(p)
      /\ UNCHANGED <<provider, grant, chunks, profile>>
  BY DEF FetchFails, Working, Deciding
<1>2. SharedTypes /\ ControlTypes /\ LocalOK(p) /\ cur[p] \in Docs /\ Sought(p) \in Listed
  BY <1>1, LocalFacts, CurrentDoc
<1>3. NoPrints \in Prints
  BY NoRowIs, RowPrints
<1>4. MkRow("failed", Sought(p).rev, None, NoPrints) \in Row
  BY <1>2, <1>3, ListedFields, MkRowIs
<1>5. row' \in [Docs -> Row \cup {NoRow}]
  BY <1>2, <1>4, RowWritten DEF FetchFails, SharedTypes
<1>6. faults' \in 0..MaxFaults
  BY <1>2, FaultIs DEF FetchFails, SharedTypes
<1>7. SharedTypes'
  BY <1>1, <1>2, <1>5, <1>6 DEF SharedTypes, provider, grant
<1>. QED  BY <1>1, <1>2, <1>7, FailedOutcomeIs, PickLocal DEF Moves, LocalStep

\* Chunks with other metadata, or chunks of which a part is missing.
LEMMA RewrittenChunk ==
  ASSUME NEW c \in Chunk, NEW l \in Listed
  PROVE  /\ [text |-> c.text, cut |-> c.cut, fmt |-> l.fmt, rev |-> l.rev,
             prof |-> c.prof, whole |-> c.whole] \in Chunk
         /\ [text |-> c.text, cut |-> c.cut, fmt |-> c.fmt, rev |-> c.rev,
             prof |-> c.prof, whole |-> FALSE] \in Chunk
BY ChunkFields, ListedFields DEF Chunk

\* A rewrite of metadata keeps text, format and profile of the chunks, or
\* loses them.
LEMMA RewriteIs ==
  ASSUME LInv, NEW p \in Runs, Rewrite(p)
  PROVE  /\ LocalStep(p) /\ pc[p] = "rewrite"
         /\ UNCHANGED <<provider, grant, row, profile, listing, snap, todo, cur, source, doomed>>
         /\ pc'[p] \in {"advance", "fetch", "pending", "pick"}
         /\ \A e \in Docs \ {cur[p]} : chunks'[e] = chunks[e]
         /\ chunks'[cur[p]] # NoChunks =>
              /\ chunks[cur[p]] # NoChunks
              /\ chunks'[cur[p]].text = chunks[cur[p]].text
              /\ chunks'[cur[p]].cut = chunks[cur[p]].cut
              /\ chunks'[cur[p]].prof = chunks[cur[p]].prof
<1> DEFINE d == cur[p]
           old == chunks[d]
           new == [text |-> old.text, cut |-> old.cut, fmt |-> Sought(p).fmt,
                   rev |-> Sought(p).rev, prof |-> old.prof, whole |-> old.whole]
           part == [text |-> old.text, cut |-> old.cut, fmt |-> old.fmt,
                    rev |-> old.rev, prof |-> old.prof, whole |-> FALSE]
           Kept(c) == c # NoChunks => /\ old # NoChunks /\ c.text = old.text
                                      /\ c.cut = old.cut /\ c.prof = old.prof
<1>1. /\ pc[p] = "rewrite" /\ pc[p] \in Working /\ {"advance", "fetch", "pending"} \subseteq Labels
      /\ UNCHANGED <<provider, grant, row, profile>>
  BY DEF Rewrite, Working, Deciding, Labels
<1>2. /\ SharedTypes /\ ControlTypes /\ LocalOK(p) /\ d \in Docs /\ Sought(p) \in Listed
      /\ old \in Chunk \cup {NoChunks}
  BY <1>1, LocalFacts, CurrentDoc DEF SharedTypes
<1>3. old # NoChunks => new \in Chunk /\ part \in Chunk
  BY <1>2, RewrittenChunk
<1>4. Kept(old) /\ Kept(NoChunks) /\ (old # NoChunks => Kept(new) /\ Kept(part))
  OBVIOUS
<1>5. ASSUME NEW c \in Chunk \cup {NoChunks}, chunks' = [chunks EXCEPT ![d] = c], Kept(c)
      PROVE  /\ chunks' \in [Docs -> Chunk \cup {NoChunks}] /\ Kept(chunks'[d])
             /\ \A e \in Docs \ {d} : chunks'[e] = chunks[e]
  BY <1>2, <1>5, ChunksWritten DEF SharedTypes
<1>6. ASSUME chunks' = chunks
      PROVE  /\ chunks' \in [Docs -> Chunk \cup {NoChunks}] /\ Kept(chunks'[d])
             /\ \A e \in Docs \ {d} : chunks'[e] = chunks[e]
  BY <1>2, <1>4, <1>6 DEF SharedTypes
<1> DEFINE Stores == /\ chunks' \in [Docs -> Chunk \cup {NoChunks}] /\ Kept(chunks'[d])
                     /\ \A e \in Docs \ {d} : chunks'[e] = chunks[e]
           Moved == /\ ControlTypes' /\ LocalOK(p)' /\ \A q \in Runs \ {p} : Same(q)
                    /\ pc'[p] \in {"advance", "fetch", "pending", "pick"}
                    /\ UNCHANGED <<listing, snap, todo, cur, source, doomed>>
<1>7. ASSUME Continue(p, "advance")
      PROVE  Moved
  <2>1. /\ ControlTypes' /\ pc'[p] = "advance" /\ \A q \in Runs \ {p} : Same(q)
        /\ UNCHANGED <<listing, snap, todo, cur, source, forced, failed, doomed>>
    BY <1>1, <1>2, <1>7, ContinueIs
  <2>2. LocalOK(p)'
    BY <1>1, <1>2, <2>1
    DEF LocalOK, Working, Deciding, Ingesting, Sought, Before, CurrentProfile, Ready
  <2>. QED  BY <2>1, <2>2
<1>8. ASSUME Reingest(p, IF source[p] = None THEN "fetch" ELSE "pending")
      PROVE  Moved
  <2>1. /\ ControlTypes' /\ pc'[p] = (IF source[p] = None THEN "fetch" ELSE "pending")
        /\ \A q \in Runs \ {p} : Same(q)
        /\ UNCHANGED <<listing, snap, todo, cur, source, failed, doomed>>
    BY <1>1, <1>2, <1>8, ReingestIs
  <2>2. LocalOK(p)'
    BY <1>1, <1>2, <2>1 DEF LocalOK, Working, Deciding, Ingesting, Sought
  <2>. QED  BY <2>1, <2>2
<1>9. ASSUME FailedOutcome(p)
      PROVE  Moved
  BY <1>1, <1>2, <1>9, FailedOutcomeIs, PickLocal
<1>10. Stores /\ Moved /\ faults' \in 0..MaxFaults
  <2>1. CASE Continue(p, "advance") /\ UNCHANGED <<chunks, faults>>
    BY <1>2, <1>6, <1>7, <2>1 DEF SharedTypes
  <2>2. CASE /\ chunks' = [chunks EXCEPT ![d] = IF old = NoChunks THEN old ELSE new]
             /\ IF Rewritten(p) THEN Continue(p, "advance")
                ELSE Reingest(p, IF source[p] = None THEN "fetch" ELSE "pending")
             /\ UNCHANGED faults
    <3>1. Stores
      <4>1. CASE old = NoChunks
        BY <1>2, <1>4, <1>5, <2>2, <4>1
      <4>2. CASE old # NoChunks
        <5>. HIDE DEF new, Kept
        <5>. QED  BY <1>3, <1>4, <1>5, <2>2, <4>2
      <4>. QED  BY <4>1, <4>2
    <3>2. Moved
      BY <1>7, <1>8, <2>2
    <3>. QED  BY <1>2, <2>2, <3>1, <3>2 DEF SharedTypes
  <2>3. CASE /\ Fault /\ FailedOutcome(p)
             /\ \/ UNCHANGED chunks
                \/ old # NoChunks /\ chunks' = [chunks EXCEPT ![d] = NoChunks]
                \/ old # NoChunks /\ chunks' = [chunks EXCEPT ![d] = part]
    <3>1. Stores
      <4>. HIDE DEF part, Kept
      <4>. QED  BY <1>3, <1>4, <1>5, <1>6, <2>3
    <3>2. Moved
      BY <1>9, <2>3
    <3>. QED  BY <1>2, <2>3, <3>1, <3>2, FaultIs
  <2>. QED  BY <2>1, <2>2, <2>3 DEF Rewrite
<1>11. SharedTypes'
  BY <1>1, <1>2, <1>10 DEF SharedTypes, provider, grant
<1>. QED  BY <1>1, <1>10, <1>11 DEF Moves, LocalStep

LEMMA EmbedLocal ==
  ASSUME LInv, NEW p \in Runs, Embed(p)
  PROVE  LocalStep(p)
<1>1. /\ pc[p] = "embed" /\ {"vecDelete", "restore", "degradeRaise"} \subseteq Labels
      /\ UNCHANGED <<provider, grant, stores, profile>>
  BY DEF Embed, Labels
<1>2. SharedTypes /\ ControlTypes /\ LocalOK(p)
  BY LocalFacts
<1>3. PICK label \in {"vecDelete", "restore", "degradeRaise"} : Continue(p, label)
  BY DEF Embed
<1>4. faults' \in 0..MaxFaults
  BY <1>2, FaultIs DEF Embed, SharedTypes
<1>5. SharedTypes'
  BY <1>1, <1>2, <1>4 DEF SharedTypes, provider, grant, stores
<1>6. /\ ControlTypes' /\ pc'[p] = label /\ \A q \in Runs \ {p} : Same(q)
      /\ UNCHANGED <<listing, snap, todo, cur, source, forced, failed, doomed>>
  BY <1>1, <1>2, <1>3, ContinueIs
<1>7. LocalOK(p)'
  BY <1>1, <1>2, <1>6, IngestLocal DEF Ingesting
<1>. QED  BY <1>1, <1>5, <1>6, <1>7 DEF Moves, LocalStep

LEMMA VecDeleteLocal ==
  ASSUME LInv, NEW p \in Runs, VecDelete(p)
  PROVE  LocalStep(p)
<1>1. /\ pc[p] = "vecDelete" /\ {"vecUpsert", "degrade"} \subseteq Labels /\ pc[p] \in Working
      /\ UNCHANGED <<provider, grant, row, profile>>
  BY DEF VecDelete, Labels, Working, Ingesting
<1>2. SharedTypes /\ ControlTypes /\ LocalOK(p) /\ cur[p] \in Docs
  BY <1>1, LocalFacts, CurrentDoc
<1>3. PICK label \in {"vecUpsert", "degrade"} : Continue(p, label)
  BY DEF VecDelete
<1>4. faults' \in 0..MaxFaults /\ chunks' \in [Docs -> Chunk \cup {NoChunks}]
  BY <1>2, FaultIs, ChunksWritten DEF VecDelete, SharedTypes
<1>5. SharedTypes'
  BY <1>1, <1>2, <1>4 DEF SharedTypes, provider, grant
<1>6. /\ ControlTypes' /\ pc'[p] = label /\ \A q \in Runs \ {p} : Same(q)
      /\ UNCHANGED <<listing, snap, todo, cur, source, forced, failed, doomed>>
  BY <1>1, <1>2, <1>3, ContinueIs
<1>7. LocalOK(p)'
  BY <1>1, <1>2, <1>6, IngestLocal DEF Ingesting
<1>. QED  BY <1>1, <1>5, <1>6, <1>7 DEF Moves, LocalStep

\* The chunks an ingest makes.
MadeBy(p, whole) ==
    [text |-> source[p], cut |-> Sought(p).fmt, fmt |-> Sought(p).fmt,
     rev |-> Sought(p).rev, prof |-> profile, whole |-> whole]

LEMMA MadeIs ==
  ASSUME LInv, NEW p \in Runs, pc[p] = "vecUpsert", NEW whole \in BOOLEAN
  PROVE  /\ MadeBy(p, whole) \in Chunk
         /\ MadeBy(p, whole).text = source[p] /\ MadeBy(p, whole).cut = Sought(p).fmt
         /\ MadeBy(p, whole).prof = profile
<1>1. pc[p] \in Working
  BY DEF Working, Ingesting
<1>2. SharedTypes /\ ControlTypes /\ LocalOK(p) /\ Sought(p) \in Listed
  BY <1>1, LocalFacts, CurrentDoc
<1>3. source[p] \in Stamp
  BY <1>2 DEF ControlTypes, LocalOK, Ingesting
<1>. QED  BY <1>2, <1>3, ListedFields DEF MadeBy, Chunk, SharedTypes

LEMMA VecUpsertIs ==
  ASSUME LInv, NEW p \in Runs, VecUpsert(p)
  PROVE  /\ LocalStep(p) /\ pc[p] = "vecUpsert" /\ pc'[p] \in {"ready", "degrade"}
         /\ UNCHANGED <<provider, grant, row, profile, listing, snap, todo, cur, source, forced,
                        failed, doomed>>
         /\ \A e \in Docs \ {cur[p]} : chunks'[e] = chunks[e]
         /\ pc'[p] = "ready" => /\ chunks'[cur[p]].text = source[p]
                                /\ chunks'[cur[p]].cut = Sought(p).fmt
                                /\ chunks'[cur[p]].prof = profile
<1>1. /\ pc[p] = "vecUpsert" /\ {"ready", "degrade"} \subseteq Labels /\ pc[p] \in Working
      /\ UNCHANGED <<provider, grant, row, profile>>
  BY DEF VecUpsert, Labels, Working, Ingesting
<1>2. SharedTypes /\ ControlTypes /\ LocalOK(p) /\ cur[p] \in Docs
  BY <1>1, LocalFacts, CurrentDoc
<1>3. PICK label \in {"ready", "degrade"} :
        /\ Continue(p, label) /\ (Fault \/ UNCHANGED faults)
        /\ label = "ready" => chunks' = [chunks EXCEPT ![cur[p]] = MadeBy(p, TRUE)]
        /\ label = "degrade" => \/ UNCHANGED chunks
                                \/ chunks' = [chunks EXCEPT ![cur[p]] = MadeBy(p, FALSE)]
  BY DEF VecUpsert, MadeBy
<1>4. faults' \in 0..MaxFaults
  BY <1>2, <1>3, FaultIs DEF SharedTypes
<1>5. /\ chunks' \in [Docs -> Chunk \cup {NoChunks}]
      /\ \A e \in Docs \ {cur[p]} : chunks'[e] = chunks[e]
      /\ label = "ready" => chunks'[cur[p]] = MadeBy(p, TRUE)
  <2>1. MadeBy(p, TRUE) \in Chunk /\ MadeBy(p, FALSE) \in Chunk
    BY <1>1, MadeIs
  <2>. QED  BY <1>2, <1>3, <2>1, ChunksWritten DEF SharedTypes
<1>6. SharedTypes'
  BY <1>1, <1>2, <1>4, <1>5 DEF SharedTypes, provider, grant
<1>7. /\ ControlTypes' /\ pc'[p] = label /\ \A q \in Runs \ {p} : Same(q)
      /\ UNCHANGED <<listing, snap, todo, cur, source, forced, failed, doomed>>
  BY <1>1, <1>2, <1>3, ContinueIs
<1>8. LocalOK(p)'
  BY <1>1, <1>2, <1>7, IngestLocal DEF Ingesting
<1>. QED  BY <1>1, <1>5, <1>6, <1>7, <1>8, MadeIs DEF Moves, LocalStep

LEMMA ListIs ==
  ASSUME LInv, NEW p \in Runs, List(p)
  PROVE  /\ LocalStep(p) /\ pc[p] = "idle" /\ pc'[p] = "catalog" /\ (Overlap \/ Quiet)
         /\ UNCHANGED <<provider, grant, stores, profile>>
         /\ todo'[p] \subseteq Docs
         /\ \A d \in DOMAIN listing'[p] : remote[d] \in Listed /\ listing'[p][d] = remote[d]
<1> DEFINE found == {d \in Docs : remote[d] # NoDoc /\ RootOf[d] \in selection}
           f == [d \in found |-> remote[d]]
<1>1. /\ pc[p] = "idle" /\ (Overlap \/ Quiet) /\ "catalog" \in Labels
      /\ listing' = [listing EXCEPT ![p] = f] /\ todo' = [todo EXCEPT ![p] = found]
      /\ Goto(p, "catalog")
      /\ UNCHANGED <<provider, grant, stores, profile, faults, snap, cur, source, forced,
                     failed, doomed>>
  BY DEF List, Labels
<1>2. SharedTypes /\ ControlTypes /\ LocalOK(p)
  BY LocalFacts
<1>3. \A d \in found : remote[d] \in Listed
  BY <1>2 DEF SharedTypes
<1>4. f \in Listings /\ DOMAIN f = found
  <2>1. f \in [found -> Listed] /\ found \in SUBSET Docs
    BY <1>3
  <2>. QED  BY <2>1 DEF Listings
<1>5. \A d \in DOMAIN f : remote[d] \in Listed /\ f[d] = remote[d]
  BY <1>3
<1>. HIDE DEF f
<1>6. /\ listing' \in [Runs -> Listings] /\ listing'[p] = f
      /\ \A q \in Runs \ {p} : listing'[q] = listing[q]
  BY <1>1, <1>2, <1>4 DEF ControlTypes
<1>7. /\ todo' \in [Runs -> SUBSET Docs] /\ todo'[p] = found
      /\ \A q \in Runs \ {p} : todo'[q] = todo[q]
  BY <1>1, <1>2 DEF ControlTypes
<1>8. SharedTypes'
  BY <1>1, <1>2 DEF SharedTypes, provider, grant, stores
<1>9. pc' \in [Runs -> Labels] /\ pc'[p] = "catalog" /\ \A q \in Runs \ {p} : pc'[q] = pc[q]
  BY <1>1, <1>2, GotoIs
<1>10. ControlTypes' /\ Moves(p)
  BY <1>1, <1>2, <1>6, <1>7, <1>9 DEF ControlTypes, Moves, Same
<1>11. LocalOK(p)'
  BY <1>1, <1>2, <1>4, <1>6, <1>7, <1>9 DEF LocalOK, Working, Deciding, Ingesting
<1>. QED  BY <1>1, <1>5, <1>6, <1>7, <1>8, <1>9, <1>10, <1>11 DEF LocalStep

LEMMA ReadCatalogIs ==
  ASSUME LInv, NEW p \in Runs, ReadCatalog(p)
  PROVE  /\ LocalStep(p) /\ pc[p] = "catalog" /\ pc'[p] = "pick" /\ snap'[p] = row
         /\ UNCHANGED <<provider, grant, stores, profile, faults, listing, todo, cur, source,
                        forced, failed, doomed>>
<1>1. /\ pc[p] = "catalog" /\ "pick" \in Labels
      /\ snap' = [snap EXCEPT ![p] = row] /\ Goto(p, "pick")
      /\ UNCHANGED <<provider, grant, stores, profile, faults, listing, todo, cur, source,
                     forced, failed, doomed>>
  BY DEF ReadCatalog, Labels
<1>2. SharedTypes /\ ControlTypes /\ LocalOK(p)
  BY LocalFacts
<1>3. /\ snap' \in [Runs -> [Docs -> Row \cup {NoRow}]] /\ snap'[p] = row
      /\ \A q \in Runs \ {p} : snap'[q] = snap[q]
  BY <1>1, <1>2 DEF ControlTypes, SharedTypes
<1>4. SharedTypes'
  BY <1>1, <1>2 DEF SharedTypes, provider, grant, stores
<1>5. pc' \in [Runs -> Labels] /\ pc'[p] = "pick" /\ \A q \in Runs \ {p} : pc'[q] = pc[q]
  BY <1>1, <1>2, GotoIs
<1>6. ControlTypes' /\ Moves(p)
  BY <1>1, <1>2, <1>3, <1>5 DEF ControlTypes, Moves, Same
<1>7. LocalOK(p)'
  BY <1>1, <1>2, <1>5 DEF LocalOK, Working, Deciding, Ingesting
<1>. QED  BY <1>1, <1>3, <1>4, <1>5, <1>6, <1>7 DEF LocalStep

\* What the row of the snapshot says decides the first call.
LEMMA TakeIs ==
  ASSUME LInv, NEW p \in Runs, NEW d \in Docs, Take(p, d)
  PROVE  /\ LocalStep(p) /\ pc[p] = "pick" /\ d \in todo[p] /\ d \in DOMAIN listing[p]
         /\ pc'[p] \in {"pick", "adopt", "probe", "fetch"}
         /\ todo'[p] = todo[p] \ {d} /\ cur'[p] = d /\ source'[p] = None
         /\ UNCHANGED <<provider, grant, stores, profile, faults, listing, snap, failed, doomed>>
<1> DEFINE r == snap[p][d]
           l == listing[p][d]
<1>1. /\ pc[p] = "pick" /\ d \in todo[p] /\ {"pick", "adopt", "probe", "fetch"} \subseteq Labels
      /\ todo' = [todo EXCEPT ![p] = @ \ {d}]
      /\ cur' = [cur EXCEPT ![p] = d]
      /\ source' = [source EXCEPT ![p] = None]
      /\ forced' = [forced EXCEPT ![p] = FALSE]
      /\ UNCHANGED <<provider, grant, stores, profile, faults, listing, snap, failed, doomed>>
  BY DEF Take, Labels
<1>2. SharedTypes /\ ControlTypes /\ LocalOK(p)
  BY LocalFacts
<1>3. todo[p] \subseteq DOMAIN listing[p] /\ d \in DOMAIN listing[p]
  BY <1>1, <1>2 DEF LocalOK
<1>4. PICK label \in {"pick", "adopt", "probe", "fetch"} :
        /\ Goto(p, label)
        /\ label = "adopt" => Ready(r) /\ r.prints.prof = None
        /\ label = "probe" => HashMatches(r, l)
  BY DEF Take, Unchanged
<1>5. /\ todo' \in [Runs -> SUBSET Docs] /\ todo'[p] = todo[p] \ {d}
      /\ \A q \in Runs \ {p} : todo'[q] = todo[q]
  BY <1>1, <1>2 DEF ControlTypes
<1>6. /\ cur' \in [Runs -> Docs \cup {None}] /\ cur'[p] = d
      /\ \A q \in Runs \ {p} : cur'[q] = cur[q]
  BY <1>1, <1>2 DEF ControlTypes
<1>7. /\ source' \in [Runs -> Stamp \cup {None}] /\ source'[p] = None
      /\ \A q \in Runs \ {p} : source'[q] = source[q]
  BY <1>1, <1>2 DEF ControlTypes
<1>8. forced' \in [Runs -> BOOLEAN] /\ \A q \in Runs \ {p} : forced'[q] = forced[q]
  BY <1>1, <1>2 DEF ControlTypes
<1>9. pc' \in [Runs -> Labels] /\ pc'[p] = label /\ \A q \in Runs \ {p} : pc'[q] = pc[q]
  BY <1>1, <1>2, <1>4, GotoIs
<1>10. SharedTypes'
  BY <1>1, <1>2 DEF SharedTypes, provider, grant, stores
<1>11. ControlTypes' /\ Moves(p)
  BY <1>1, <1>2, <1>5, <1>6, <1>7, <1>8, <1>9 DEF ControlTypes, Moves, Same
<1>12. Before(p)' = r /\ Sought(p)' = l
  BY <1>1, <1>6 DEF Before, Sought
<1>13. label = "probe" =>
         Describes /\ CurrentProfile(r) /\ r.prints.text # None /\ r.prints.hash = l.text
  BY <1>4 DEF HashMatches, Describes, ProviderHash
<1>14. CurrentProfile(Before(p))' <=> CurrentProfile(r)
  BY <1>1, <1>12 DEF CurrentProfile, Ready
<1>15. Ready(Before(p))' <=> Ready(r)
  BY <1>12 DEF Ready
<1>16. LocalOK(p)'
  <2>. HIDE DEF r, l
  <2>. QED  BY <1>1, <1>3, <1>4, <1>5, <1>6, <1>7, <1>9, <1>12, <1>13, <1>14, <1>15
            DEF LocalOK, Working, Deciding, Ingesting
<1>. QED  BY <1>1, <1>3, <1>5, <1>6, <1>7, <1>9, <1>10, <1>11, <1>16 DEF LocalStep

\* After a failure only documents of roots nothing was listed in are missing.
LEMMA MissingIs ==
  ASSUME NEW p \in Runs, failed[p], Kind # "drive", DOMAIN listing[p] \subseteq Docs,
         NEW d \in Missing(p), NEW e \in DOMAIN listing[p]
  PROVE  RootOf[e] # RootOf[d]
<1>1. Scope(d) = RootOf[d] /\ Scope(e) = RootOf[e]
  BY DEF Scope
<1>2. RootOf[e] # None
  BY ConstantAssumption
<1>3. Scope(d) \notin {Scope(x) : x \in DOMAIN listing[p]} \ {None}
  BY DEF Missing
<1>. QED  BY <1>1, <1>2, <1>3

LEMMA ReconcileLocal ==
  ASSUME LInv, NEW p \in Runs, Reconcile(p)
  PROVE  LocalStep(p) /\ pc'[p] = "remove"
<1>1. /\ pc[p] = "pick" /\ "remove" \in Labels
      /\ doomed' = [doomed EXCEPT ![p] = Missing(p)] /\ Goto(p, "remove")
      /\ UNCHANGED <<provider, grant, stores, profile, faults, listing, snap, todo, cur,
                     source, forced, failed>>
  BY DEF Reconcile, Labels
<1>2. SharedTypes /\ ControlTypes /\ LocalOK(p)
  BY LocalFacts
<1>3. Missing(p) \subseteq Docs /\ DOMAIN listing[p] \subseteq Docs
  BY <1>2, ListingIs DEF Missing, ControlTypes
<1>4. /\ doomed' \in [Runs -> SUBSET Docs] /\ doomed'[p] = Missing(p)
      /\ \A q \in Runs \ {p} : doomed'[q] = doomed[q]
  BY <1>1, <1>2, <1>3 DEF ControlTypes
<1>5. pc' \in [Runs -> Labels] /\ pc'[p] = "remove" /\ \A q \in Runs \ {p} : pc'[q] = pc[q]
  BY <1>1, <1>2, GotoIs
<1>6. SharedTypes' /\ ControlTypes' /\ Moves(p)
  BY <1>1, <1>2, <1>4, <1>5 DEF SharedTypes, ControlTypes, Moves, Same, provider, grant, stores
<1>7. LocalOK(p)'
  BY <1>1, <1>3, <1>4, <1>5, MissingIs DEF LocalOK, Working, Deciding, Ingesting
<1>. QED  BY <1>5, <1>6, <1>7 DEF LocalStep

LEMMA RemoveChunksIs ==
  ASSUME LInv, NEW p \in Runs, NEW d \in Docs, RemoveChunks(p, d)
  PROVE  /\ LocalStep(p) /\ pc[p] = "remove" /\ UNCHANGED <<provider, grant, row, profile>>
         /\ \/ /\ chunks' = [chunks EXCEPT ![d] = NoChunks] /\ pc'[p] = "removeRow"
               /\ cur'[p] = d /\ listing' = listing
            \/ /\ chunks' = chunks /\ pc'[p] = "idle" /\ DOMAIN listing'[p] = {}
<1>1. /\ pc[p] = "remove" /\ d \in doomed[p] /\ "removeRow" \in Labels
      /\ UNCHANGED <<provider, grant, row, profile>>
  BY DEF RemoveChunks, Labels
<1>2. SharedTypes /\ ControlTypes /\ LocalOK(p)
  BY LocalFacts
<1>3. CASE /\ chunks' = [chunks EXCEPT ![d] = NoChunks]
           /\ Goto(p, "removeRow") /\ Chosen(p, d) /\ UNCHANGED faults
  <2>1. chunks' \in [Docs -> Chunk \cup {NoChunks}]
    BY <1>2, <1>3, ChunksWritten DEF SharedTypes
  <2>2. SharedTypes'
    BY <1>1, <1>2, <1>3, <2>1 DEF SharedTypes, provider, grant
  <2>3. /\ cur' = [cur EXCEPT ![p] = d]
        /\ UNCHANGED <<listing, snap, todo, source, forced, failed, doomed>>
    BY <1>3 DEF Chosen
  <2>4. /\ cur' \in [Runs -> Docs \cup {None}] /\ cur'[p] = d
        /\ \A q \in Runs \ {p} : cur'[q] = cur[q]
    BY <1>2, <2>3 DEF ControlTypes
  <2>5. pc' \in [Runs -> Labels] /\ pc'[p] = "removeRow"
        /\ \A q \in Runs \ {p} : pc'[q] = pc[q]
    BY <1>1, <1>2, <1>3, GotoIs
  <2>6. ControlTypes' /\ Moves(p)
    BY <1>1, <1>2, <2>3, <2>4, <2>5 DEF ControlTypes, Moves, Same
  <2>7. LocalOK(p)'
    BY <1>1, <1>2, <2>3, <2>4, <2>5 DEF LocalOK, Working, Deciding, Ingesting
  <2>. QED  BY <1>1, <1>3, <2>2, <2>3, <2>4, <2>5, <2>6, <2>7 DEF LocalStep
<1>4. CASE Fault /\ Finish(p) /\ UNCHANGED chunks
  <2>1. SharedTypes'
    BY <1>1, <1>2, <1>4, FaultIs DEF SharedTypes, provider, grant
  <2>. QED  BY <1>1, <1>2, <1>4, <2>1, FinishIs, IdleLocal DEF Moves, LocalStep
<1>. QED  BY <1>3, <1>4 DEF RemoveChunks

LEMMA RemoveRowIs ==
  ASSUME LInv, NEW p \in Runs, RemoveRow(p)
  PROVE  /\ LocalStep(p) /\ pc[p] = "removeRow" /\ cur[p] \in Docs
         /\ UNCHANGED <<provider, grant, chunks, profile>>
         /\ \/ /\ row' = [row EXCEPT ![cur[p]] = NoRow] /\ pc'[p] = "remove"
               /\ listing' = listing
            \/ row' = row /\ pc'[p] = "idle" /\ DOMAIN listing'[p] = {}
<1>1. /\ pc[p] = "removeRow" /\ "remove" \in Labels /\ UNCHANGED <<provider, grant, chunks, profile>>
  BY DEF RemoveRow, Labels
<1>2. SharedTypes /\ ControlTypes /\ LocalOK(p)
  BY LocalFacts
<1>3. cur[p] \in Docs
  BY <1>1, <1>2 DEF LocalOK, ControlTypes
<1>4. CASE /\ row' = [row EXCEPT ![cur[p]] = NoRow]
           /\ doomed' = [doomed EXCEPT ![p] = @ \ {cur[p]}]
           /\ Goto(p, "remove")
           /\ UNCHANGED <<faults, listing, snap, todo, cur, source, forced, failed>>
  <2>1. row' \in [Docs -> Row \cup {NoRow}]
    BY <1>2, <1>3, <1>4, RowWritten DEF SharedTypes
  <2>2. SharedTypes'
    BY <1>1, <1>2, <1>4, <2>1 DEF SharedTypes, provider, grant
  <2>3. /\ doomed' \in [Runs -> SUBSET Docs] /\ doomed'[p] \subseteq doomed[p]
        /\ \A q \in Runs \ {p} : doomed'[q] = doomed[q]
    BY <1>2, <1>4 DEF ControlTypes
  <2>4. pc' \in [Runs -> Labels] /\ pc'[p] = "remove" /\ \A q \in Runs \ {p} : pc'[q] = pc[q]
    BY <1>1, <1>2, <1>4, GotoIs
  <2>5. ControlTypes' /\ Moves(p)
    BY <1>1, <1>2, <1>4, <2>3, <2>4 DEF ControlTypes, Moves, Same
  <2>6. LocalOK(p)'
    BY <1>1, <1>2, <1>4, <2>3, <2>4 DEF LocalOK, Working, Deciding, Ingesting
  <2>. QED  BY <1>1, <1>3, <1>4, <2>2, <2>4, <2>5, <2>6 DEF LocalStep
<1>5. CASE Fault /\ Finish(p) /\ UNCHANGED row
  <2>1. SharedTypes'
    BY <1>1, <1>2, <1>5, FaultIs DEF SharedTypes, provider, grant
  <2>. QED  BY <1>1, <1>2, <1>3, <1>5, <2>1, FinishIs, IdleLocal DEF Moves, LocalStep
<1>. QED  BY <1>4, <1>5 DEF RemoveRow

LEMMA RemovedIs ==
  ASSUME LInv, NEW p \in Runs, Removed(p)
  PROVE  /\ LocalStep(p) /\ pc'[p] = "idle" /\ DOMAIN listing'[p] = {}
         /\ UNCHANGED <<provider, grant, stores, profile>>
<1>1. Finish(p) /\ UNCHANGED <<provider, grant, stores, profile, faults>>
  BY DEF Removed
<1>2. SharedTypes /\ ControlTypes
  BY LocalFacts
<1>3. SharedTypes'
  BY <1>1, <1>2 DEF SharedTypes, provider, grant, stores
<1>. QED  BY <1>1, <1>2, <1>3, FinishIs, IdleLocal DEF Moves, LocalStep

\* A request that changed the selection or the connection goes on to purge.
LEMMA PurgeIs ==
  ASSUME LInv, NEW p \in Runs, NEW roots, Purge(p, roots), pc[p] = "idle",
         connected' \in BOOLEAN, selection' \in SUBSET Roots, selections' \in 0..MaxSelections
  PROVE  /\ LocalStep(p) /\ pc'[p] = "purge"
         /\ UNCHANGED <<provider, stores, profile, listing>>
<1>1. /\ todo' = [todo EXCEPT ![p] = {d \in Docs : RootOf[d] \in roots}]
      /\ Goto(p, "purge") /\ "purge" \in Labels
      /\ UNCHANGED <<provider, stores, profile, faults, listing, snap, cur, source, forced,
                     failed, doomed>>
  BY DEF Purge, Labels
<1>2. SharedTypes /\ ControlTypes /\ LocalOK(p)
  BY LocalFacts
<1>3. todo' \in [Runs -> SUBSET Docs] /\ \A q \in Runs \ {p} : todo'[q] = todo[q]
  BY <1>1, <1>2 DEF ControlTypes
<1>4. pc' \in [Runs -> Labels] /\ pc'[p] = "purge" /\ \A q \in Runs \ {p} : pc'[q] = pc[q]
  BY <1>1, <1>2, GotoIs
<1>5. SharedTypes'
  BY <1>1, <1>2 DEF SharedTypes, provider, stores
<1>6. ControlTypes' /\ Moves(p)
  BY <1>1, <1>2, <1>3, <1>4 DEF ControlTypes, Moves, Same
<1>7. LocalOK(p)'
  BY <1>1, <1>2, <1>4 DEF LocalOK, Working, Deciding, Ingesting
<1>. QED  BY <1>1, <1>4, <1>5, <1>6, <1>7 DEF LocalStep

LEMMA SelectIs ==
  ASSUME LInv, NEW p \in Runs, NEW new \in SUBSET Roots, Select(p, new)
  PROVE  /\ LocalStep(p) /\ pc[p] = "idle" /\ pc'[p] = "purge" /\ (Overlap \/ Quiet)
         /\ UNCHANGED <<provider, stores, profile, listing>>
<1>1. /\ pc[p] = "idle" /\ (Overlap \/ Quiet) /\ selections < MaxSelections
      /\ selection' = new /\ selections' = selections + 1 /\ UNCHANGED connected
  BY DEF Select, MayPurge
<1>2. PICK roots : Purge(p, roots)
  BY DEF Select
<1>3. connected' \in BOOLEAN /\ selection' \in SUBSET Roots /\ selections' \in 0..MaxSelections
  BY <1>1, LocalFacts, ConstantAssumption DEF SharedTypes
<1>. QED  BY <1>1, <1>2, <1>3, PurgeIs

LEMMA DisconnectIs ==
  ASSUME LInv, NEW p \in Runs, Disconnect(p)
  PROVE  /\ LocalStep(p) /\ pc[p] = "idle" /\ pc'[p] = "purge" /\ (Overlap \/ Quiet)
         /\ UNCHANGED <<provider, stores, profile, listing>>
<1>1. /\ pc[p] = "idle" /\ (Overlap \/ Quiet) /\ selections < MaxSelections
      /\ connected' = FALSE /\ selection' = {} /\ selections' = selections + 1
      /\ Purge(p, Roots)
  BY DEF Disconnect, MayPurge
<1>2. connected' \in BOOLEAN /\ selection' \in SUBSET Roots
  BY <1>1
<1>3. selections' \in 0..MaxSelections
  BY <1>1, LocalFacts, ConstantAssumption DEF SharedTypes
<1>. QED  BY <1>1, <1>2, <1>3, PurgeIs

LEMMA PurgeRowsIs ==
  ASSUME LInv, NEW p \in Runs, PurgeRows(p)
  PROVE  /\ LocalStep(p) /\ pc[p] = "purge" /\ pc'[p] = "remove"
         /\ UNCHANGED <<provider, grant, stores, profile, listing>>
<1>1. /\ pc[p] = "purge" /\ "remove" \in Labels /\ Goto(p, "remove")
      /\ doomed' = [doomed EXCEPT ![p] = {d \in todo[p] : row[d] # NoRow}]
      /\ todo' = [todo EXCEPT ![p] = {}]
      /\ UNCHANGED <<provider, grant, stores, profile, faults, listing, snap, cur, source,
                     forced, failed>>
  BY DEF PurgeRows, Labels
<1>2. SharedTypes /\ ControlTypes /\ LocalOK(p)
  BY LocalFacts
<1>3. /\ doomed' \in [Runs -> SUBSET Docs] /\ todo' \in [Runs -> SUBSET Docs]
      /\ \A q \in Runs \ {p} : doomed'[q] = doomed[q] /\ todo'[q] = todo[q]
  BY <1>1, <1>2 DEF ControlTypes
<1>4. pc' \in [Runs -> Labels] /\ pc'[p] = "remove" /\ \A q \in Runs \ {p} : pc'[q] = pc[q]
  BY <1>1, <1>2, GotoIs
<1>5. SharedTypes'
  BY <1>1, <1>2 DEF SharedTypes, provider, stores, grant
<1>6. ControlTypes' /\ Moves(p)
  BY <1>1, <1>2, <1>3, <1>4 DEF ControlTypes, Moves, Same
<1>7. LocalOK(p)'
  BY <1>1, <1>2, <1>4 DEF LocalOK, Working, Deciding, Ingesting
<1>. QED  BY <1>1, <1>4, <1>5, <1>6, <1>7 DEF LocalStep

\* Does the provider ever bring back what it held before?
Steady == Changes \cap {"revert", "restore"} = {}

\* What the provider makes of document d: absent, or stamped by this change.
Becomes(d, m) ==
    \/ m = NoDoc
    \/ /\ m \in Listed /\ m.rev = Revision(m.text, edits + 2)
       /\ m.text <= edits + 2 \/ m.text = remote[d].text
       /\ Kind # "drive" => m.fmt \in {remote[d].fmt, FirstFormat}
       /\ remote[d] = NoDoc => m.fmt = FirstFormat
       /\ Steady => \/ m.text = edits + 2
                    \/ remote[d] # NoDoc /\ m.text = remote[d].text

LEMMA ChangeIs ==
  ASSUME SharedTypes, NEW d \in Docs, NEW text \in Stamp, NEW fmt \in Formats,
         Change(d, text, fmt), text <= edits + 2 \/ text = remote[d].text,
         Kind # "drive" => fmt \in {remote[d].fmt, FirstFormat},
         remote[d] = NoDoc => fmt = FirstFormat,
         Steady => text = edits + 2 \/ (remote[d] # NoDoc /\ text = remote[d].text)
  PROVE  \E m : /\ remote' = [remote EXCEPT ![d] = m] /\ Becomes(d, m)
                /\ edits < MaxEdits /\ edits' = edits + 1
                /\ UNCHANGED <<grant, stores, profile, faults, control>>
<1> DEFINE m == [text |-> text, fmt |-> fmt, rev |-> Revision(text, edits + 2)]
<1>1. edits < MaxEdits /\ edits \in Nat /\ MaxEdits \in Nat
  BY ConstantAssumption DEF SharedTypes, Change
<1>2. text \in Stamp /\ Revision(text, edits + 2) \in Stamp
  BY <1>1 DEF Stamp, Revision
<1>3. m \in Listed
  BY <1>2 DEF Listed
<1>4. Becomes(d, m)
  BY <1>3 DEF Becomes
<1>5. /\ remote' = [remote EXCEPT ![d] = m] /\ edits' = edits + 1
      /\ UNCHANGED <<grant, stores, profile, faults, control>>
  BY DEF Change
<1>. HIDE DEF m
<1>. QED  BY <1>1, <1>4, <1>5

\* One document of the provider changes and nothing else does.
LEMMA ProviderIs ==
  ASSUME LInv, Provider
  PROVE  \E d \in Docs : \E m :
            /\ remote' = [remote EXCEPT ![d] = m] /\ Becomes(d, m)
            /\ edits < MaxEdits /\ edits' = edits + 1
            /\ UNCHANGED <<grant, stores, profile, faults, control>>
<1>1. SharedTypes /\ edits \in Nat
  BY TypeParts DEF LInv, SharedTypes
<1>2. PICK d \in Docs : Edit(d) \/ Touch(d) \/ Add(d) \/ Remove(d)
  BY DEF Provider
<1>3. remote[d] # NoDoc => remote[d] \in Listed
  BY <1>1 DEF SharedTypes
<1>4. CASE Remove(d)
  <2>1. Becomes(d, NoDoc)
    BY DEF Becomes
  <2>. QED  BY <1>4, <2>1 DEF Remove
<1>5. edits < MaxEdits =>
        /\ \A t \in Earlier(d) : t \in Stamp /\ t <= edits + 2
        /\ Fresh = edits + 2 /\ Fresh \in Stamp
  BY <1>1, ConstantAssumption DEF Earlier, Fresh, Stamp
<1>6. CASE Edit(d)
  <2>1. remote[d] # NoDoc /\ remote[d].fmt \in Formats
    BY <1>3, <1>6, ListedFields DEF Edit
  <2>2. CASE Change(d, Fresh, remote[d].fmt)
    <3>1. edits < MaxEdits
      BY <2>2 DEF Change
    <3>. QED  BY <1>1, <1>5, <2>1, <2>2, <3>1, ChangeIs
  <2>3. CASE "revert" \in Changes /\ \E t \in Earlier(d) : Change(d, t, remote[d].fmt)
    <3>1. ~Steady
      BY <2>3 DEF Steady
    <3>2. PICK t \in Earlier(d) : Change(d, t, remote[d].fmt)
      BY <2>3
    <3>3. edits < MaxEdits
      BY <3>2 DEF Change
    <3>. QED  BY <1>1, <1>5, <2>1, <3>1, <3>2, <3>3, ChangeIs
  <2>. QED  BY <1>6, <2>2, <2>3 DEF Edit
<1>7. CASE Touch(d)
  <2>1. remote[d] # NoDoc /\ remote[d].fmt \in Formats /\ remote[d].text \in Stamp
    BY <1>3, <1>7, ListedFields DEF Touch
  <2>2. PICK f \in Formats : Change(d, remote[d].text, f) /\ (Kind # "drive" => f = remote[d].fmt)
    BY <1>7, <2>1 DEF Touch
  <2>. QED  BY <1>1, <2>1, <2>2, ChangeIs
<1>8. CASE Add(d)
  <2>1. remote[d] = NoDoc /\ FirstFormat \in Formats
    BY <1>8, FirstFormatIs DEF Add
  <2>2. CASE Change(d, Fresh, FirstFormat)
    <3>1. edits < MaxEdits
      BY <2>2 DEF Change
    <3>. QED  BY <1>1, <1>5, <2>1, <2>2, <3>1, ChangeIs
  <2>3. CASE "restore" \in Changes /\ \E t \in Earlier(d) : Change(d, t, FirstFormat)
    <3>1. ~Steady
      BY <2>3 DEF Steady
    <3>2. PICK t \in Earlier(d) : Change(d, t, FirstFormat)
      BY <2>3
    <3>3. edits < MaxEdits
      BY <3>2 DEF Change
    <3>. QED  BY <1>1, <1>5, <2>1, <3>1, <3>2, <3>3, ChangeIs
  <2>. QED  BY <1>8, <2>2, <2>3 DEF Add
<1>. QED  BY <1>2, <1>4, <1>6, <1>7, <1>8

\* What the provider does leaves every request where it was.
LEMMA ProviderLocal ==
  ASSUME LInv, Provider
  PROVE  SharedTypes' /\ ControlTypes' /\ profile' = profile /\ \A q \in Runs : Same(q)
<1>1. SharedTypes /\ ControlTypes
  BY TypeParts DEF LInv
<1>2. PICK d \in Docs : \E m :
        /\ remote' = [remote EXCEPT ![d] = m] /\ Becomes(d, m)
        /\ edits < MaxEdits /\ edits' = edits + 1
        /\ UNCHANGED <<grant, stores, profile, faults, control>>
  BY ProviderIs
<1>3. PICK m : /\ remote' = [remote EXCEPT ![d] = m] /\ Becomes(d, m)
               /\ edits < MaxEdits /\ edits' = edits + 1
               /\ UNCHANGED <<grant, stores, profile, faults, control>>
  BY <1>2
<1>4. m \in Listed \cup {NoDoc}
  BY <1>3 DEF Becomes
<1>5. remote' \in [Docs -> Listed \cup {NoDoc}]
  BY <1>1, <1>3, <1>4 DEF SharedTypes
<1>6. edits' \in 0..MaxEdits
  BY <1>1, <1>3, ConstantAssumption DEF SharedTypes
<1>. QED  BY <1>1, <1>3, <1>5, <1>6 DEF SharedTypes, ControlTypes, Same, grant, stores, control

LEMMA ConnectLocal ==
  ASSUME LInv, Connect
  PROVE  SharedTypes' /\ ControlTypes' /\ profile' = profile /\ \A q \in Runs : Same(q)
<1>1. SharedTypes /\ ControlTypes
  BY TypeParts DEF LInv
<1>. QED  BY <1>1 DEF Connect, SharedTypes, ControlTypes, Same, provider, stores, control

LEMMA RestartLocal ==
  ASSUME LInv, Restart
  PROVE  /\ SharedTypes' /\ ControlTypes' /\ UNCHANGED <<provider, grant, stores>>
         /\ \A q \in Runs : pc'[q] = "idle" /\ ~failed'[q] /\ DOMAIN listing'[q] = {}
<1>1. SharedTypes /\ ControlTypes
  BY TypeParts DEF LInv
<1>2. /\ profile' \in Profile /\ Fault /\ UNCHANGED <<provider, grant, stores>>
      /\ "idle" \in Labels /\ Nothing \in Listings /\ DOMAIN Nothing = {}
  BY NothingIs DEF Restart, Labels
<1>3. SharedTypes'
  BY <1>1, <1>2, FaultIs DEF SharedTypes, provider, grant, stores
<1>4. pc' \in [Runs -> Labels] /\ listing' \in [Runs -> Listings]
  BY <1>2 DEF Restart
<1>5. snap' \in [Runs -> [Docs -> Row \cup {NoRow}]]
  BY DEF Restart
<1>6. /\ todo' \in [Runs -> SUBSET Docs] /\ doomed' \in [Runs -> SUBSET Docs]
      /\ cur' \in [Runs -> Docs \cup {None}] /\ source' \in [Runs -> Stamp \cup {None}]
      /\ forced' \in [Runs -> BOOLEAN] /\ failed' \in [Runs -> BOOLEAN]
  BY DEF Restart
<1>7. \A q \in Runs : pc'[q] = "idle" /\ ~failed'[q] /\ listing'[q] = Nothing
  BY DEF Restart
<1>. QED  BY <1>2, <1>3, <1>4, <1>5, <1>6, <1>7 DEF ControlTypes

LEMMA CallLocal ==
  ASSUME LInv, NEW p \in Runs, Call(p)
  PROVE  LocalStep(p)
BY ReadCatalogIs, TakeIs, RemoveChunksIs, AdoptLocal, ProbeLocal, FetchLocal, FetchFailsLocal,
   AbortLocal, RewriteIs, AdvanceLocal, WritePendingLocal, EmbedLocal, VecDeleteLocal,
   VecUpsertIs, WriteReadyLocal, RestoreLocal, DegradeLocal, DegradeRaiseLocal,
   ReconcileLocal, RemoveRowIs, RemovedIs, PurgeRowsIs DEF Call

LEMMA RequestLocal ==
  ASSUME LInv, NEW p \in Runs, Request(p)
  PROVE  LocalStep(p)
BY ListIs, DisconnectIs, SelectIs DEF Request

LEMMA LocalInit == Init => LInv
<1>. SUFFICES ASSUME Init PROVE LInv
  OBVIOUS
<1>1. SharedTypes
  <2>1. 1 \in Stamp /\ NoPrints \in Prints
    BY ConstantAssumption, NoRowIs, RowPrints DEF Stamp
  <2>2. FirstListed \in Listed
    BY <2>1, FirstFormatIs DEF FirstListed, Listed
  <2>3. LegacyRow \in Row
    BY <2>1, FirstFormatIs, MkRowIs DEF LegacyRow
  <2>4. LegacyChunk \in Chunk
    BY <2>1, FirstFormatIs DEF LegacyChunk, Chunk
  <2>. QED  BY <2>2, <2>3, <2>4, ConstantAssumption DEF Init, SharedTypes, Profile
<1>2. ControlTypes
  <2>1. "idle" \in Labels /\ Nothing \in Listings
    BY NothingIs DEF Labels
  <2>2. pc \in [Runs -> Labels] /\ listing \in [Runs -> Listings]
    BY <2>1 DEF Init
  <2>3. snap \in [Runs -> [Docs -> Row \cup {NoRow}]]
    BY DEF Init
  <2>4. /\ todo \in [Runs -> SUBSET Docs] /\ doomed \in [Runs -> SUBSET Docs]
        /\ cur \in [Runs -> Docs \cup {None}] /\ source \in [Runs -> Stamp \cup {None}]
        /\ forced \in [Runs -> BOOLEAN] /\ failed \in [Runs -> BOOLEAN]
    BY DEF Init
  <2>. QED  BY <2>2, <2>3, <2>4 DEF ControlTypes
<1>3. \A p \in Runs : LocalOK(p)
  BY DEF Init, LocalOK, Working, Deciding, Ingesting
<1>. QED  BY <1>1, <1>2, <1>3, TypeParts DEF LInv

LEMMA LocalNext == LInv /\ [Next]_vars => LInv'
<1>. SUFFICES ASSUME LInv, [Next]_vars PROVE LInv'
  OBVIOUS
<1>1. ASSUME SharedTypes' /\ ControlTypes', \A p \in Runs : LocalOK(p)'
      PROVE  LInv'
  BY <1>1, TypeParts DEF LInv, TypeOK, SharedTypes, ControlTypes
<1>2. ASSUME NEW p \in Runs, LocalStep(p)
      PROVE  LInv'
  <2>1. \A q \in Runs \ {p} : LocalOK(q)'
    BY <1>2, Others DEF LInv, LocalStep, Moves
  <2>. QED  BY <1>1, <1>2, <2>1 DEF LocalStep
<1>3. ASSUME SharedTypes' /\ ControlTypes', profile' = profile, \A q \in Runs : Same(q)
      PROVE  LInv'
  BY <1>1, <1>3, Others DEF LInv
<1>4. CASE Provider
  BY <1>3, <1>4, ProviderLocal
<1>5. CASE Connect
  BY <1>3, <1>5, ConnectLocal
<1>6. CASE Restart
  BY <1>1, <1>6, RestartLocal, IdleLocal
<1>7. CASE \E p \in Runs : Request(p) \/ Call(p)
  BY <1>2, <1>7, CallLocal, RequestLocal
<1>8. CASE UNCHANGED vars
  <2>1. SharedTypes' /\ ControlTypes' /\ profile' = profile /\ \A q \in Runs : Same(q)
    <3>1. SharedTypes /\ ControlTypes
      BY TypeParts DEF LInv
    <3>. QED  BY <1>8, <3>1 DEF vars, provider, grant, stores, control, SharedTypes,
                                ControlTypes, Same
  <2>. QED  BY <1>3, <2>1
<1>. QED  BY <1>4, <1>5, <1>6, <1>7, <1>8 DEF Next

LEMMA LocalInvariance == Spec => []LInv
BY LocalInit, LocalNext, PTL DEF Spec

\* Every variable keeps its type, whichever requests run side by side.
THEOREM TypeCorrect == Spec => []TypeOK
BY LocalInvariance, PTL DEF LInv

-----------------------------------------------------------------------------
(* One request at a time.  What the rows say of the chunks beside them,    *)
(* with m what the provider holds of the document and n its changes so far.*)

(* Revision r stands for text t in format f: whoever lists r finds these.  *)
Vouches(m, n, r, t, f) ==
    /\ r <= n + 1
    /\ Kind = "github" => t = r
    /\ Kind # "drive" => f = FirstFormat
    /\ r = m.rev => t = m.text /\ f = m.fmt

(* A text the provider has held, and has not gone back behind.             *)
NotAhead(m, n, t) == t <= n + 1 /\ (m # NoDoc => t <= m.text)

Forward == Kind = "drive" /\ Steady

(* Row r is true of chunks c.  A Drive file that comes back to bytes it    *)
(* had is where a revision does not tell which chunks are there.           *)
Agree(m, n, r, c) ==
    /\ r = NoRow \/ r.status = "failed" => c = NoChunks
    /\ Ready(r) /\ c # NoChunks =>
         /\ c.prof \in {r.prints.prof, None}
         /\ c.cut = r.fmt
         /\ r.prints.text \in {c.text, None}
         /\ Kind # "drive" \/ Steady => Vouches(m, n, r.rev, c.text, c.cut)

Ordered(m, n, r) == Forward => /\ r.prints.hash <= r.prints.text
                               /\ NotAhead(m, n, r.prints.text)

HeldOK(m, n) ==
    m # NoDoc => Vouches(m, n, m.rev, m.text, m.fmt) /\ m.text <= n + 1

ListedOK(m, n, l) ==
    Vouches(m, n, l.rev, l.text, l.fmt) /\ (Forward => NotAhead(m, n, l.text))

(* The text fetched for a document that was listed as l.                   *)
FetchedOK(m, n, l, text) ==
    /\ Vouches(m, n, l.rev, text, l.fmt)
    /\ Forward => l.text <= text /\ NotAhead(m, n, text)

StoresOK ==
    \A d \in Docs : /\ HeldOK(remote[d], edits)
                    /\ Agree(remote[d], edits, row[d], chunks[d])
                    /\ Ordered(remote[d], edits, row[d])

Solo == \A p, q \in Runs : pc[p] # "idle" /\ pc[q] # "idle" => p = q

(* What the only request at work knows of what all share: the rows it has  *)
(* not come to are those it read, the row of its document is that one or   *)
(* the pending row it wrote, and an ingest that touched nothing may put    *)
(* back the row of before.                                                 *)
SharedOK(p) ==
    /\ \A d \in DOMAIN listing[p] : ListedOK(remote[d], edits, listing[p][d])
    /\ pc[p] \in Working \cup {"catalog", "pick"} =>
         \A d \in todo[p] : Forward => row[d].prints.text <= listing[p][d].text
    /\ pc[p] \in Working \cup {"pick"} => \A d \in todo[p] : snap[p][d] = row[d]
    /\ pc[p] \in Deciding =>
         /\ Before(p) = row[cur[p]]
         /\ Forward => Before(p).prints.text <= Sought(p).text
    /\ pc[p] \in Ingesting => row[cur[p]] = Stranded(p, "pending")
    /\ pc[p] \in Working /\ source[p] # None =>
         FetchedOK(remote[cur[p]], edits, Sought(p), source[p])
    /\ pc[p] \in {"embed", "restore"} =>
         Agree(remote[cur[p]], edits, Before(p), chunks[cur[p]])
    /\ pc[p] = "ready" => /\ chunks[cur[p]].text = source[p]
                          /\ chunks[cur[p]].cut = Sought(p).fmt
                          /\ chunks[cur[p]].prof = profile
    /\ pc[p] = "removeRow" => chunks[cur[p]] = NoChunks

IInv == LInv /\ Solo /\ StoresOK /\ \A p \in Runs : SharedOK(p)

-----------------------------------------------------------------------------
(* The provider goes on changing.                                          *)

LEMMA SharedFacts ==
  ASSUME LInv, NEW d \in Docs
  PROVE  /\ edits \in Nat /\ remote[d] \in Listed \cup {NoDoc}
         /\ row[d] \in Row \cup {NoRow} /\ chunks[d] \in Chunk \cup {NoChunks}
BY TypeParts DEF LInv, SharedTypes

LEMMA BecomesIs ==
  ASSUME LInv, NEW d \in Docs, NEW m, Becomes(d, m), m # NoDoc
  PROVE  /\ m.text \in Stamp /\ m.rev = Revision(m.text, edits + 2)
         /\ m.text <= edits + 2 \/ m.text = remote[d].text
         /\ Kind # "drive" => m.fmt \in {remote[d].fmt, FirstFormat}
         /\ remote[d] = NoDoc => m.fmt = FirstFormat
         /\ Steady => m.text = edits + 2 \/ (remote[d] # NoDoc /\ m.text = remote[d].text)
BY ListedFields DEF Becomes

\* What a revision stood for it stands for after any change.
LEMMA VouchesKept ==
  ASSUME LInv, NEW d \in Docs, HeldOK(remote[d], edits), NEW m, Becomes(d, m),
         NEW r \in Stamp, NEW t, NEW f, Vouches(remote[d], edits, r, t, f)
  PROVE  Vouches(m, edits + 1, r, t, f)
<1>1. edits \in Nat /\ remote[d] \in Listed \cup {NoDoc} /\ r \in Nat \ {0}
  BY SharedFacts DEF Stamp
<1>2. CASE m = NoDoc
  BY <1>1, <1>2, NoDocIs DEF Vouches, None
<1>3. CASE m # NoDoc /\ Kind = "github"
  <2>1. m.rev = m.text
    BY <1>3, BecomesIs DEF Revision
  <2>2. m.fmt = FirstFormat
    BY <1>3, BecomesIs DEF HeldOK, Vouches
  <2>. QED  BY <1>1, <1>3, <2>1, <2>2 DEF Vouches
<1>4. CASE m # NoDoc /\ Kind # "github"
  <2>1. m.rev = edits + 2
    BY <1>4, BecomesIs DEF Revision
  <2>. QED  BY <1>1, <1>4, <2>1 DEF Vouches
<1>. QED  BY <1>2, <1>3, <1>4

LEMMA NotAheadKept ==
  ASSUME LInv, NEW d \in Docs, NEW m, Becomes(d, m), Steady,
         NEW t \in Nat, NotAhead(remote[d], edits, t)
  PROVE  NotAhead(m, edits + 1, t)
<1>1. edits \in Nat
  BY SharedFacts
<1>2. CASE m = NoDoc
  BY <1>1, <1>2 DEF NotAhead
<1>3. CASE m # NoDoc
  BY <1>1, <1>3, BecomesIs DEF NotAhead
<1>. QED  BY <1>2, <1>3

LEMMA HeldKept ==
  ASSUME LInv, NEW d \in Docs, HeldOK(remote[d], edits), NEW m, Becomes(d, m)
  PROVE  HeldOK(m, edits + 1)
<1>. SUFFICES ASSUME m # NoDoc
              PROVE  Vouches(m, edits + 1, m.rev, m.text, m.fmt) /\ m.text <= edits + 2
  <2>1. edits \in Nat
    BY SharedFacts
  <2>. QED  BY <2>1 DEF HeldOK
<1>1. edits \in Nat /\ m.text \in Stamp /\ m.text \in Nat \ {0}
  BY BecomesIs, SharedFacts DEF Stamp
<1>2. remote[d] = NoDoc => remote[d].text = None
  BY NoDocIs
<1>3. m.text <= edits + 2
  BY <1>1, <1>2, BecomesIs DEF HeldOK, None
<1>4. m.rev <= edits + 2 /\ (Kind = "github" => m.text = m.rev)
  BY <1>1, <1>3, BecomesIs DEF Revision
<1>5. Kind # "drive" => m.fmt = FirstFormat
  BY BecomesIs DEF HeldOK, Vouches
<1>. QED  BY <1>1, <1>3, <1>4, <1>5 DEF Vouches

LEMMA AgreeKept ==
  ASSUME LInv, NEW d \in Docs, HeldOK(remote[d], edits), NEW m, Becomes(d, m),
         NEW r \in Row \cup {NoRow}, NEW c, Agree(remote[d], edits, r, c)
  PROVE  Agree(m, edits + 1, r, c)
<1>1. Ready(r) => r.rev \in Stamp
  BY NoRowIs, RowFields
<1>. QED  BY <1>1, VouchesKept DEF Agree

LEMMA OrderedKept ==
  ASSUME LInv, NEW d \in Docs, NEW m, Becomes(d, m),
         NEW r \in Row \cup {NoRow}, Ordered(remote[d], edits, r)
  PROVE  Ordered(m, edits + 1, r)
<1>1. r.prints.text \in Nat
  BY RowPrints, PrintsFields DEF Stamp, None
<1>. QED  BY <1>1, NotAheadKept DEF Ordered, Forward

LEMMA ListedKept ==
  ASSUME LInv, NEW d \in Docs, HeldOK(remote[d], edits), NEW m, Becomes(d, m),
         NEW l \in Listed, ListedOK(remote[d], edits, l)
  PROVE  ListedOK(m, edits + 1, l)
<1>1. l.rev \in Stamp /\ l.text \in Nat
  BY ListedFields DEF Stamp
<1>. QED  BY <1>1, VouchesKept, NotAheadKept DEF ListedOK, Forward

LEMMA FetchedKept ==
  ASSUME LInv, NEW d \in Docs, HeldOK(remote[d], edits), NEW m, Becomes(d, m),
         NEW l \in Listed, NEW text \in Stamp, FetchedOK(remote[d], edits, l, text)
  PROVE  FetchedOK(m, edits + 1, l, text)
<1>1. l.rev \in Stamp /\ text \in Nat
  BY ListedFields DEF Stamp
<1>. QED  BY <1>1, VouchesKept, NotAheadKept DEF FetchedOK, Forward

\* One document of the provider changes: for the others only the number of
\* changes has grown.
LEMMA ProviderNext == IInv /\ Provider => IInv'
<1>. SUFFICES ASSUME IInv, Provider PROVE IInv'
  OBVIOUS
<1>1. LInv /\ LInv' /\ StoresOK
  BY LocalNext DEF IInv, Next
<1>2. PICK d0 \in Docs : \E m :
        /\ remote' = [remote EXCEPT ![d0] = m] /\ Becomes(d0, m)
        /\ edits < MaxEdits /\ edits' = edits + 1
        /\ UNCHANGED <<grant, stores, profile, faults, control>>
  BY <1>1, ProviderIs
<1>3. PICK m0 : /\ remote' = [remote EXCEPT ![d0] = m0] /\ Becomes(d0, m0)
                /\ edits < MaxEdits /\ edits' = edits + 1
                /\ UNCHANGED <<grant, stores, profile, faults, control>>
  BY <1>2
<1>4. UNCHANGED <<row, chunks, profile, pc, listing, snap, todo, cur, source, forced, failed,
                  doomed>>
  BY <1>3 DEF stores, control
<1>5. \A d \in Docs : remote'[d] = IF d = d0 THEN m0 ELSE remote[d]
  BY <1>1, <1>3, TypeParts DEF LInv, SharedTypes
<1>6. edits \in Nat
  BY <1>1, SharedFacts
<1>7. ASSUME NEW d \in Docs
      PROVE  /\ HeldOK(remote[d], edits)
             /\ d # d0 => HeldOK(remote[d], edits + 1)
  <2>1. HeldOK(remote[d], edits)
    BY <1>1 DEF StoresOK
  <2>. QED  BY <1>1, <1>6, <2>1, SharedFacts, ListedFields DEF HeldOK, Vouches, Stamp
<1>8. ASSUME NEW d \in Docs, NEW r \in Row \cup {NoRow}, NEW c,
             Agree(remote[d], edits, r, c)
      PROVE  Agree(remote'[d], edits + 1, r, c)
  <2>1. CASE d = d0
    BY <1>1, <1>3, <1>5, <1>7, <1>8, <2>1, AgreeKept
  <2>2. CASE d # d0
    <3>1. Ready(r) => r.rev \in Nat
      BY NoRowIs, RowFields DEF Stamp
    <3>. QED  BY <1>5, <1>6, <1>8, <2>2, <3>1 DEF Agree, Vouches
  <2>. QED  BY <2>1, <2>2
<1>9. ASSUME NEW d \in Docs, NEW r \in Row \cup {NoRow}, Ordered(remote[d], edits, r)
      PROVE  Ordered(remote'[d], edits + 1, r)
  <2>1. CASE d = d0
    BY <1>1, <1>3, <1>5, <1>9, <2>1, OrderedKept
  <2>2. CASE d # d0
    <3>1. r.prints.text \in Nat
      BY RowPrints, PrintsFields DEF Stamp, None
    <3>. QED  BY <1>5, <1>6, <1>9, <2>2, <3>1 DEF Ordered, NotAhead
  <2>. QED  BY <2>1, <2>2
<1>10. ASSUME NEW d \in Docs, NEW l \in Listed, ListedOK(remote[d], edits, l)
       PROVE  ListedOK(remote'[d], edits + 1, l)
  <2>1. CASE d = d0
    BY <1>1, <1>3, <1>5, <1>7, <1>10, <2>1, ListedKept
  <2>2. CASE d # d0
    <3>1. l.rev \in Nat /\ l.text \in Nat
      BY ListedFields DEF Stamp
    <3>. QED  BY <1>5, <1>6, <1>10, <2>2, <3>1 DEF ListedOK, Vouches, NotAhead
  <2>. QED  BY <2>1, <2>2
<1>11. ASSUME NEW d \in Docs, NEW l \in Listed, NEW text \in Stamp,
              FetchedOK(remote[d], edits, l, text)
       PROVE  FetchedOK(remote'[d], edits + 1, l, text)
  <2>1. CASE d = d0
    BY <1>1, <1>3, <1>5, <1>7, <1>11, <2>1, FetchedKept
  <2>2. CASE d # d0
    <3>1. l.rev \in Nat /\ text \in Nat
      BY ListedFields DEF Stamp
    <3>. QED  BY <1>5, <1>6, <1>11, <2>2, <3>1 DEF FetchedOK, Vouches, NotAhead
  <2>. QED  BY <2>1, <2>2
<1>12. StoresOK'
  <2>1. ASSUME NEW d \in Docs
        PROVE  HeldOK(remote'[d], edits')
    BY <1>1, <1>3, <1>5, <1>7, HeldKept
  <2>2. ASSUME NEW d \in Docs
        PROVE  /\ Agree(remote'[d], edits', row'[d], chunks'[d])
               /\ Ordered(remote'[d], edits', row'[d])
    BY <1>1, <1>3, <1>4, <1>8, <1>9, SharedFacts DEF StoresOK
  <2>. QED  BY <2>1, <2>2 DEF StoresOK
<1>13. Solo'
  BY <1>4 DEF IInv, Solo
<1>14. ASSUME NEW p \in Runs
       PROVE  SharedOK(p)'
  <2>1. SharedOK(p) /\ ControlTypes
    BY LocalFacts DEF IInv
  <2>2. Before(p)' = Before(p) /\ Sought(p)' = Sought(p)
    BY <1>4 DEF Before, Sought
  <2>3. Stranded(p, "pending")' = Stranded(p, "pending")
    BY <2>2 DEF Stranded
  <2>4. \A d \in DOMAIN listing[p] : ListedOK(remote'[d], edits', listing'[p][d])
    <3>1. listing[p] \in Listings
      BY <2>1 DEF ControlTypes
    <3>. QED  BY <1>3, <1>4, <1>10, <2>1, <3>1, ListingIs DEF SharedOK
  <2>5. pc[p] \in Working => cur[p] \in Docs /\ Sought(p) \in Listed /\ Before(p) \in Row \cup {NoRow}
    BY <1>1, CurrentDoc
  <2>6. pc[p] \in Working /\ source[p] # None =>
          FetchedOK(remote'[cur[p]], edits', Sought(p), source[p])
    <3>1. source[p] # None => source[p] \in Stamp
      BY <2>1 DEF ControlTypes
    <3>. QED  BY <1>3, <1>11, <2>1, <2>5, <3>1 DEF SharedOK
  <2>7. pc[p] \in {"embed", "restore"} =>
          Agree(remote'[cur[p]], edits', Before(p), chunks[cur[p]])
    BY <1>3, <1>8, <2>1, <2>5 DEF SharedOK, Working, Ingesting
  <2>. HIDE DEF Working, Deciding, Ingesting
  <2>. QED  BY <1>4, <2>1, <2>2, <2>3, <2>4, <2>6, <2>7 DEF SharedOK
<1>. QED  BY <1>1, <1>12, <1>13, <1>14 DEF IInv

-----------------------------------------------------------------------------
(* A step of the only request at work.                                     *)

Alone(p) == \A q \in Runs \ {p} : pc[q] = "idle"

LEMMA SoloIs ==
  ASSUME IInv, NEW p \in Runs, pc[p] # "idle" \/ Quiet
  PROVE  Alone(p)
BY DEF IInv, Solo, Alone, Quiet

\* The parts of the invariant, for one request.
LEMMA InvFacts ==
  ASSUME IInv, NEW p \in Runs
  PROVE  LInv /\ SharedTypes /\ ControlTypes /\ LocalOK(p) /\ SharedOK(p) /\ StoresOK
BY LocalFacts DEF IInv

\* When one request moves, what has to be shown is about it and the stores.
LEMMA StepFrame ==
  ASSUME IInv, NEW p \in Runs, Alone(p), LocalStep(p), UNCHANGED provider,
         SharedOK(p)', StoresOK'
  PROVE  IInv'
<1>1. LInv'
  <2>1. \A q \in Runs \ {p} : LocalOK(q)'
    BY Others DEF IInv, LInv, LocalStep, Moves
  <2>. QED  BY <2>1, TypeParts DEF LInv, LocalStep, TypeOK, SharedTypes, ControlTypes
<1>2. \A q \in Runs \ {p} : pc'[q] = "idle" /\ listing'[q] = listing[q]
  BY DEF Alone, LocalStep, Moves, Same
<1>3. Solo'
  BY <1>2 DEF Solo
<1>4. ASSUME NEW q \in Runs \ {p}
      PROVE  SharedOK(q)'
  <2>1. SharedOK(q)
    BY DEF IInv
  <2>2. \A d \in DOMAIN listing'[q] : ListedOK(remote'[d], edits', listing'[q][d])
    BY <1>2, <2>1 DEF SharedOK, provider
  <2>. QED  BY <1>2, <2>2 DEF SharedOK, Working, Deciding, Ingesting
<1>. QED  BY <1>1, <1>3, <1>4 DEF IInv

\* A write to the stores of one document leaves the others alone.
LEMMA StoresFrame ==
  ASSUME StoresOK, UNCHANGED provider, NEW d \in Docs,
         \A e \in Docs \ {d} : row'[e] = row[e] /\ chunks'[e] = chunks[e],
         Agree(remote[d], edits, row'[d], chunks'[d]),
         Ordered(remote[d], edits, row'[d])
  PROVE  StoresOK'
<1>1. remote' = remote /\ edits' = edits
  BY DEF provider
<1>2. ASSUME NEW e \in Docs
      PROVE  /\ HeldOK(remote[e], edits) /\ Agree(remote[e], edits, row'[e], chunks'[e])
             /\ Ordered(remote[e], edits, row'[e])
  BY DEF StoresOK
<1>. QED  BY <1>1, <1>2 DEF StoresOK

LEMMA StoresSame ==
  ASSUME StoresOK, UNCHANGED provider, UNCHANGED stores
  PROVE  StoresOK'
<1>1. remote' = remote /\ edits' = edits /\ row' = row /\ chunks' = chunks
  BY DEF provider, stores
<1>. QED  BY <1>1 DEF StoresOK

LEMMA IdleShared ==
  ASSUME NEW p \in Runs, pc'[p] \in {"idle", "purge", "remove"},
         DOMAIN listing'[p] = {} \/ (SharedOK(p) /\ UNCHANGED provider /\ listing'[p] = listing[p])
  PROVE  SharedOK(p)'
<1>1. \A d \in DOMAIN listing'[p] : ListedOK(remote'[d], edits', listing'[p][d])
  BY DEF SharedOK, provider
<1>. QED  BY <1>1 DEF SharedOK, Working, Deciding, Ingesting

\* After a document its run knows the rows of the ones still to do.
LEMMA PickShared ==
  ASSUME NEW p \in Runs, LocalOK(p), SharedOK(p), pc[p] \in Working, pc'[p] = "pick",
         UNCHANGED provider, todo[p] \subseteq Docs,
         todo' = todo, listing' = listing, snap' = snap,
         \A e \in Docs \ {cur[p]} : row'[e] = row[e]
  PROVE  SharedOK(p)'
<1>1. cur[p] \notin todo[p]
  BY DEF LocalOK
<1>2. \A d \in DOMAIN listing'[p] : ListedOK(remote'[d], edits', listing'[p][d])
  BY DEF SharedOK, provider
<1>3. \A d \in todo[p] : row'[d] = row[d]
  BY <1>1
<1>4. \A d \in todo'[p] : /\ Forward => row'[d].prints.text <= listing'[p][d].text
                          /\ snap'[p][d] = row'[d]
  BY <1>3 DEF SharedOK
<1>. QED  BY <1>2, <1>4 DEF SharedOK, Working, Deciding, Ingesting

\* While the run decides, the row of its document is the one it read.
LEMMA RowRead ==
  ASSUME IInv, NEW p \in Runs, pc[p] \in Deciding
  PROVE  /\ cur[p] \in Docs /\ Sought(p) \in Listed /\ row[cur[p]] = Before(p)
         /\ Before(p) \in Row \cup {NoRow}
         /\ ListedOK(remote[cur[p]], edits, Sought(p))
         /\ HeldOK(remote[cur[p]], edits)
         /\ Agree(remote[cur[p]], edits, Before(p), chunks[cur[p]])
         /\ Ordered(remote[cur[p]], edits, Before(p))
         /\ Forward => Before(p).prints.text <= Sought(p).text
<1>1. LInv /\ SharedOK(p) /\ StoresOK /\ pc[p] \in Working
  BY InvFacts DEF Working
<1>2. cur[p] \in Docs /\ cur[p] \in DOMAIN listing[p] /\ Sought(p) \in Listed
      /\ Before(p) \in Row \cup {NoRow}
  BY <1>1, CurrentDoc
<1>3. row[cur[p]] = Before(p) /\ (Forward => Before(p).prints.text <= Sought(p).text)
  BY <1>1 DEF SharedOK
<1>4. ListedOK(remote[cur[p]], edits, Sought(p))
  BY <1>1, <1>2 DEF SharedOK, Sought
<1>. QED  BY <1>1, <1>2, <1>3, <1>4 DEF StoresOK

\* Once the pending row is written the document has that row.
LEMMA RowPending ==
  ASSUME IInv, NEW p \in Runs, pc[p] \in Ingesting
  PROVE  /\ cur[p] \in Docs /\ Sought(p) \in Listed
         /\ row[cur[p]] = Stranded(p, "pending") /\ row[cur[p]] \in Row
         /\ row[cur[p]].status = "pending" /\ row[cur[p]].prints = Before(p).prints
         /\ Ordered(remote[cur[p]], edits, Before(p))
         /\ source[p] \in Stamp
         /\ FetchedOK(remote[cur[p]], edits, Sought(p), source[p])
<1>1. LInv /\ LocalOK(p) /\ SharedOK(p) /\ StoresOK /\ pc[p] \in Working /\ ControlTypes
  BY InvFacts DEF Working
<1>2. cur[p] \in Docs /\ Sought(p) \in Listed
  BY <1>1, CurrentDoc
<1>3. /\ row[cur[p]] = Stranded(p, "pending") /\ row[cur[p]] \in Row
      /\ row[cur[p]].status = "pending" /\ row[cur[p]].prints = Before(p).prints
  BY <1>1, StrandedIs DEF SharedOK
<1>4. Ordered(remote[cur[p]], edits, Before(p))
  BY <1>1, <1>2, <1>3 DEF StoresOK, Ordered
<1>5. source[p] \in Stamp
  BY <1>1 DEF LocalOK, ControlTypes
<1>6. FetchedOK(remote[cur[p]], edits, Sought(p), source[p])
  BY <1>1, <1>5 DEF SharedOK, Stamp, None
<1>. QED  BY <1>2, <1>3, <1>4, <1>5, <1>6

\* Rows that claim nothing of their chunks.
LEMMA NoClaim ==
  ASSUME NEW r \in Row, r.status \in {"pending", "degraded"}, NEW m, NEW n, NEW c
  PROVE  Agree(m, n, r, c)
BY NoRowIs DEF Agree, Ready

\* A row written at the end of a document, true of the chunks beside it.
LEMMA UpsertNext ==
  ASSUME IInv, NEW p \in Runs, pc[p] \in Working, NEW new \in Row, Upsert(p, new, "pick"),
         Agree(remote[cur[p]], edits, new, chunks[cur[p]]),
         Ordered(remote[cur[p]], edits, new)
  PROVE  IInv'
<1>1. /\ pc[p] # "idle" /\ "pick" \in Labels
  BY DEF Labels, Working, Deciding, Ingesting
<1>2. /\ LInv /\ LocalOK(p) /\ SharedOK(p) /\ StoresOK /\ SharedTypes /\ ControlTypes
      /\ Alone(p) /\ cur[p] \in Docs
  BY <1>1, InvFacts, SoloIs, CurrentDoc
<1>3. LocalStep(p)
  BY <1>1, <1>2, UpsertLocal
<1>4. /\ UNCHANGED <<provider, grant, chunks, profile>>
      /\ \/ /\ row' = [row EXCEPT ![cur[p]] = new] /\ pc'[p] = "pick"
            /\ UNCHANGED <<listing, snap, todo, cur, source, forced, failed, doomed>>
         \/ row' = row /\ pc'[p] = "idle" /\ DOMAIN listing'[p] = {}
  BY <1>1, <1>2, UpsertIs
<1>5. CASE row' = row /\ pc'[p] = "idle" /\ DOMAIN listing'[p] = {}
  <2>1. StoresOK'
    BY <1>2, <1>4, <1>5, StoresSame DEF stores
  <2>2. SharedOK(p)'
    BY <1>5, IdleShared
  <2>. QED  BY <1>2, <1>3, <1>4, <2>1, <2>2, StepFrame
<1>6. CASE /\ row' = [row EXCEPT ![cur[p]] = new] /\ pc'[p] = "pick"
           /\ UNCHANGED <<listing, snap, todo, cur, source, forced, failed, doomed>>
  <2>1. row'[cur[p]] = new /\ \A e \in Docs \ {cur[p]} : row'[e] = row[e]
    BY <1>2, <1>6, RowWritten DEF SharedTypes
  <2>2. StoresOK'
    BY <1>2, <1>4, <2>1, StoresFrame
  <2>3. SharedOK(p)'
    BY <1>2, <1>4, <1>6, <2>1, PickShared DEF ControlTypes
  <2>. QED  BY <1>2, <1>3, <1>4, <2>2, <2>3, StepFrame
<1>. QED  BY <1>4, <1>5, <1>6

\* A row that adopts the profile of this process, otherwise as it was.
Adopting(r) ==
    MkRow(r.status, r.rev, r.fmt, [text |-> r.prints.text, meta |-> r.prints.meta,
                                   prof |-> profile, hash |-> r.prints.hash])

LEMMA AdoptingIs ==
  ASSUME SharedTypes, NEW r \in Row
  PROVE  /\ Adopting(r) \in Row /\ Adopting(r).status = r.status
         /\ Adopting(r).rev = r.rev /\ Adopting(r).fmt = r.fmt
         /\ Adopting(r).prints.text = r.prints.text
         /\ Adopting(r).prints.hash = r.prints.hash
         /\ Adopting(r).prints.prof = profile
<1> DEFINE x == [text |-> r.prints.text, meta |-> r.prints.meta,
                 prof |-> profile, hash |-> r.prints.hash]
<1>1. r.prints \in Prints /\ profile \in Profile
  BY RowFields DEF SharedTypes
<1>2. x \in Prints
  BY <1>1, PrintsFields DEF Prints
<1>3. x.text = r.prints.text /\ x.hash = r.prints.hash /\ x.prof = profile
  OBVIOUS
<1>4. Adopting(r) = MkRow(r.status, r.rev, r.fmt, x)
  BY DEF Adopting
<1>. HIDE DEF x
<1>5. /\ r.status \in {"pending", "ready", "failed", "degraded"}
      /\ r.rev \in Stamp /\ r.fmt \in Formats \cup {None}
  BY RowFields
<1>6. /\ Adopting(r) \in Row /\ Adopting(r).status = r.status
      /\ Adopting(r).rev = r.rev /\ Adopting(r).fmt = r.fmt /\ Adopting(r).prints = x
  BY <1>2, <1>4, <1>5, MkRowIs
<1>. QED  BY <1>3, <1>6

LEMMA AdoptNext == ASSUME IInv, NEW p \in Runs, Adopt(p) PROVE IInv'
<1>1. pc[p] = "adopt" /\ pc[p] \in Deciding /\ pc[p] \in Working
  BY DEF Adopt, Deciding, Working
<1>2. LocalOK(p) /\ SharedTypes
  BY InvFacts
<1>3. Before(p) \in Row /\ Ready(Before(p)) /\ Before(p).prints.prof = None
  BY <1>1, <1>2, RowRead, NoRowIs DEF LocalOK
<1> DEFINE r == Before(p)
           new == Adopting(r)
<1>4. Upsert(p, new, "pick")
  BY DEF Adopt, Adopting
<1>5. /\ new \in Row /\ new.status = r.status /\ new.rev = r.rev /\ new.fmt = r.fmt
      /\ new.prints.text = r.prints.text /\ new.prints.hash = r.prints.hash
      /\ new.prints.prof = profile
  BY <1>2, <1>3, AdoptingIs
<1>. HIDE DEF new
<1>6. Agree(remote[cur[p]], edits, r, chunks[cur[p]]) /\ Ordered(remote[cur[p]], edits, r)
  BY <1>1, RowRead
<1>7. Agree(remote[cur[p]], edits, new, chunks[cur[p]])
  BY <1>3, <1>5, <1>6, NoRowIs DEF Agree, Ready
<1>8. Ordered(remote[cur[p]], edits, new)
  BY <1>5, <1>6 DEF Ordered
<1>. QED  BY <1>1, <1>4, <1>5, <1>7, <1>8, UpsertNext

LEMMA AdvanceNext == ASSUME IInv, NEW p \in Runs, Advance(p) PROVE IInv'
<1>1. pc[p] = "advance" /\ pc[p] \in Deciding /\ pc[p] \in Working
  BY DEF Advance, Deciding, Working
<1>2. LocalOK(p) /\ SharedOK(p) /\ SharedTypes /\ ControlTypes
  BY InvFacts
<1> DEFINE r == Before(p)
           l == Sought(p)
           m == remote[cur[p]]
           c == chunks[cur[p]]
           text == IF source[p] = None THEN r.prints.text ELSE source[p]
           x == [text |-> text, meta |-> l.rev, prof |-> profile, hash |-> ProviderHash(l)]
           new == MkRow("ready", l.rev, l.fmt, x)
<1>3. /\ l \in Listed /\ r \in Row \cup {NoRow} /\ ListedOK(m, edits, l)
      /\ Agree(m, edits, r, c) /\ Ordered(m, edits, r)
      /\ Forward => r.prints.text <= l.text
  BY <1>1, RowRead
<1>4. /\ Ready(r) /\ r.prints.prof = profile /\ r.prints.text # None /\ r.fmt = l.fmt
      /\ source[p] = None => Describes /\ r.prints.hash = l.text
      /\ source[p] # None => r.prints.text = source[p]
  BY <1>1, <1>2 DEF LocalOK, CurrentProfile
<1>5. r.prints.text \in Stamp /\ r.prints.hash \in Stamp \cup {None} /\ text = r.prints.text
      /\ r.prints.text \in Nat
  BY <1>3, <1>4, RowPrints, PrintsFields DEF Stamp
<1>6. Upsert(p, new, "pick")
  BY DEF Advance
<1>7. x \in Prints /\ new \in Row
  BY <1>2, <1>3, <1>5, AdvanceRowIs
<1>8. x.text = r.prints.text /\ x.prof = profile /\ x.hash = ProviderHash(l)
  BY <1>5
<1>. HIDE DEF x
<1>9. new.status = "ready" /\ new.rev = l.rev /\ new.fmt = l.fmt /\ new.prints = x
  BY <1>3, <1>7, ListedFields, MkRowIs
<1>. HIDE DEF new
<1>10. source[p] # None => FetchedOK(m, edits, l, r.prints.text)
  BY <1>1, <1>2, <1>4 DEF SharedOK
<1>11. Ordered(m, edits, new)
  <2>1. Forward => ProviderHash(l) = l.text
    BY DEF Forward, ProviderHash
  <2>2. Forward => l.text <= r.prints.text
    BY <1>3, <1>4, <1>10 DEF FetchedOK, Ordered
  <2>3. Forward => NotAhead(m, edits, r.prints.text)
    BY <1>3 DEF Ordered
  <2>. QED  BY <1>8, <1>9, <2>1, <2>2, <2>3 DEF Ordered
<1>12. Agree(m, edits, new, c)
  <2>1. new # NoRow /\ new.status # "failed"
    BY <1>7, <1>9, NoRowIs
  <2>2. ASSUME c # NoChunks
        PROVE  /\ c.prof \in {profile, None} /\ c.cut = l.fmt /\ c.text = r.prints.text
               /\ Kind # "drive" \/ Steady => Vouches(m, edits, l.rev, c.text, l.fmt)
    <3>1. c.prof \in {profile, None} /\ c.cut = l.fmt /\ c.text = r.prints.text
      BY <1>3, <1>4, <2>2 DEF Agree
    <3>2. CASE source[p] # None
      BY <1>10, <3>1, <3>2 DEF FetchedOK
    <3>3. CASE source[p] = None
      \* Only the listed hash vouches for the chunks: the text it was stored
      \* with is neither older nor newer than the listed one.
      <4>1. Kind = "drive" /\ r.prints.hash = l.text
        BY <1>4, <3>3 DEF Describes
      <4>2. Steady => r.prints.text = l.text
        BY <1>3, <1>5, <4>1, ListedFields DEF Forward, Ordered, Stamp
      <4>. QED  BY <1>3, <3>1, <4>1, <4>2 DEF ListedOK
    <3>. QED  BY <3>1, <3>2, <3>3
  <2>. HIDE DEF c
  <2>. QED  BY <1>8, <1>9, <2>1, <2>2 DEF Agree
<1>. QED  BY <1>1, <1>6, <1>7, <1>11, <1>12, UpsertNext

LEMMA WriteReadyNext == ASSUME IInv, NEW p \in Runs, WriteReady(p) PROVE IInv'
<1>1. pc[p] = "ready" /\ pc[p] \in Ingesting /\ pc[p] \in Working
      /\ Upsert(p, ReadyRow(p), "pick")
  BY DEF WriteReady, Ingesting, Working
<1>2. LInv /\ SharedOK(p) /\ SharedTypes
  BY InvFacts
<1> DEFINE l == Sought(p)
           m == remote[cur[p]]
           c == chunks[cur[p]]
           x == [text |-> source[p], meta |-> l.rev, prof |-> profile, hash |-> ProviderHash(l)]
<1>3. l \in Listed /\ source[p] \in Stamp /\ FetchedOK(m, edits, l, source[p])
  BY <1>1, RowPending
<1>4. c.text = source[p] /\ c.cut = l.fmt /\ c.prof = profile
  BY <1>1, <1>2 DEF SharedOK
<1>5. x \in Prints /\ ReadyRow(p) = MkRow("ready", l.rev, l.fmt, x)
  BY <1>2, <1>3, AdvanceRowIs DEF ReadyRow
<1>6. x.text = source[p] /\ x.prof = profile /\ x.hash = ProviderHash(l)
  OBVIOUS
<1>. HIDE DEF x
<1>7. /\ ReadyRow(p) \in Row /\ ReadyRow(p).status = "ready" /\ ReadyRow(p).rev = l.rev
      /\ ReadyRow(p).fmt = l.fmt /\ ReadyRow(p).prints = x
  BY <1>3, <1>5, ListedFields, MkRowIs
<1>8. Agree(m, edits, ReadyRow(p), c)
  <2>. HIDE DEF c
  <2>. QED  BY <1>3, <1>4, <1>6, <1>7, NoRowIs DEF Agree, FetchedOK
<1>9. Ordered(m, edits, ReadyRow(p))
  <2>1. Forward => ProviderHash(l) = l.text
    BY DEF Forward, ProviderHash
  <2>. QED  BY <1>3, <1>6, <1>7, <2>1 DEF Ordered, FetchedOK
<1>. QED  BY <1>1, <1>7, <1>8, <1>9, UpsertNext

\* A row written for a failed document, true of the chunks beside it.
LEMMA RecordFailureNext ==
  ASSUME IInv, NEW p \in Runs, pc[p] \in Working, NEW new \in Row, RecordFailure(p, new),
         Agree(remote[cur[p]], edits, new, chunks[cur[p]]),
         Ordered(remote[cur[p]], edits, new)
  PROVE  IInv'
<1>1. pc[p] # "idle"
  BY DEF Working, Deciding, Ingesting
<1>2. /\ LInv /\ LocalOK(p) /\ SharedOK(p) /\ StoresOK /\ SharedTypes /\ ControlTypes
      /\ Alone(p) /\ cur[p] \in Docs
  BY <1>1, InvFacts, SoloIs, CurrentDoc
<1>3. /\ LocalStep(p) /\ UNCHANGED <<provider, grant, chunks, profile>>
      /\ \/ /\ row' = [row EXCEPT ![cur[p]] = new] /\ pc'[p] = "pick"
            /\ UNCHANGED <<listing, snap, todo, cur, source, forced, doomed>>
         \/ row' = row /\ pc'[p] = "idle" /\ DOMAIN listing'[p] = {}
  BY <1>2, RecordFailureIs
<1>4. CASE row' = row /\ pc'[p] = "idle" /\ DOMAIN listing'[p] = {}
  <2>1. StoresOK'
    BY <1>2, <1>3, <1>4, StoresSame DEF stores
  <2>2. SharedOK(p)'
    BY <1>4, IdleShared
  <2>. QED  BY <1>2, <1>3, <2>1, <2>2, StepFrame
<1>5. CASE /\ row' = [row EXCEPT ![cur[p]] = new] /\ pc'[p] = "pick"
           /\ UNCHANGED <<listing, snap, todo, cur, source, forced, doomed>>
  <2>1. row'[cur[p]] = new /\ \A e \in Docs \ {cur[p]} : row'[e] = row[e]
    BY <1>2, <1>5, RowWritten DEF SharedTypes
  <2>2. StoresOK'
    BY <1>2, <1>3, <2>1, StoresFrame
  <2>3. SharedOK(p)'
    BY <1>2, <1>3, <1>5, <2>1, PickShared DEF ControlTypes
  <2>. QED  BY <1>2, <1>3, <2>2, <2>3, StepFrame
<1>. QED  BY <1>3, <1>4, <1>5

LEMMA DegradeNext == ASSUME IInv, NEW p \in Runs, Degrade(p) PROVE IInv'
<1>1. /\ pc[p] = "degrade" /\ pc[p] \in Ingesting /\ pc[p] \in Working
      /\ RecordFailure(p, Stranded(p, "degraded"))
  BY DEF Degrade, Ingesting, Working
<1>2. /\ Stranded(p, "degraded") \in Row /\ Stranded(p, "degraded").status = "degraded"
      /\ Stranded(p, "degraded").prints = Before(p).prints
  BY <1>1, InvFacts, StrandedIs
<1>3. Ordered(remote[cur[p]], edits, Stranded(p, "degraded"))
  BY <1>1, <1>2, RowPending DEF Ordered
<1>. QED  BY <1>1, <1>2, <1>3, NoClaim, RecordFailureNext

LEMMA RestoreNext == ASSUME IInv, NEW p \in Runs, Restore(p) PROVE IInv'
<1>1. /\ pc[p] = "restore" /\ pc[p] \in Ingesting /\ pc[p] \in Working
  BY DEF Restore, Ingesting, Working
<1>2. LInv /\ SharedOK(p) /\ Before(p) \in Row \cup {NoRow}
  BY <1>1, InvFacts, CurrentDoc
<1>3. /\ Agree(remote[cur[p]], edits, Before(p), chunks[cur[p]])
      /\ Ordered(remote[cur[p]], edits, Before(p))
  BY <1>1, <1>2, RowPending DEF SharedOK
<1>4. CASE Before(p) # NoRow
  BY <1>1, <1>2, <1>3, <1>4, RecordFailureNext DEF Restore
<1>5. CASE Before(p) = NoRow
  <2>1. /\ Stranded(p, "failed") \in Row /\ Stranded(p, "failed").status = "failed"
        /\ Stranded(p, "failed").prints = Before(p).prints
    BY <1>1, <1>2, StrandedIs
  <2>2. chunks[cur[p]] = NoChunks
    BY <1>3, <1>5 DEF Agree
  <2>3. Agree(remote[cur[p]], edits, Stranded(p, "failed"), chunks[cur[p]])
    BY <2>1, <2>2 DEF Agree
  <2>4. Ordered(remote[cur[p]], edits, Stranded(p, "failed"))
    BY <1>3, <2>1 DEF Ordered
  <2>. QED  BY <1>1, <1>5, <2>1, <2>3, <2>4, RecordFailureNext DEF Restore
<1>. QED  BY <1>4, <1>5

LEMMA DegradeRaiseNext == ASSUME IInv, NEW p \in Runs, DegradeRaise(p) PROVE IInv'
<1>1. /\ pc[p] = "degradeRaise" /\ pc[p] \in Ingesting /\ pc[p] \in Working /\ Finish(p)
      /\ UNCHANGED <<provider, grant, chunks, profile>>
  BY DEF DegradeRaise, Ingesting, Working
<1>2. LInv /\ StoresOK /\ SharedTypes /\ ControlTypes /\ Alone(p)
  BY <1>1, InvFacts, SoloIs DEF Ingesting
<1>3. LocalStep(p)
  BY <1>2, DegradeRaiseLocal
<1>4. SharedOK(p)'
  BY <1>1, <1>2, FinishIs, IdleShared
<1>5. StoresOK'
  <2>1. CASE UNCHANGED row
    BY <1>1, <1>2, <2>1, StoresSame DEF stores
  <2>2. CASE row' = [row EXCEPT ![cur[p]] = Stranded(p, "degraded")]
    <3>1. /\ Stranded(p, "degraded") \in Row /\ Stranded(p, "degraded").status = "degraded"
          /\ Stranded(p, "degraded").prints = Before(p).prints
      BY <1>1, <1>2, StrandedIs
    <3>2. cur[p] \in Docs /\ Ordered(remote[cur[p]], edits, Stranded(p, "degraded"))
      BY <1>1, <3>1, RowPending DEF Ordered
    <3>3. /\ row'[cur[p]] = Stranded(p, "degraded")
          /\ \A e \in Docs \ {cur[p]} : row'[e] = row[e]
      BY <1>2, <2>2, <3>1, <3>2, RowWritten DEF SharedTypes
    <3>4. Agree(remote[cur[p]], edits, Stranded(p, "degraded"), chunks[cur[p]])
      BY <3>1, NoClaim
    <3>. QED  BY <1>1, <1>2, <3>2, <3>3, <3>4, StoresFrame
  <2>. QED  BY <2>1, <2>2 DEF DegradeRaise
<1>. QED  BY <1>1, <1>2, <1>3, <1>4, <1>5, StepFrame

LEMMA WritePendingNext == ASSUME IInv, NEW p \in Runs, WritePending(p) PROVE IInv'
<1> DEFINE new == Stranded(p, "pending")
           d == cur[p]
<1>1. /\ pc[p] = "pending" /\ pc[p] \in Deciding /\ pc[p] \in Working /\ Upsert(p, new, "embed")
      /\ "embed" \in Labels
  BY DEF WritePending, Deciding, Working, Stranded, Labels
<1>2. LInv /\ LocalOK(p) /\ SharedOK(p) /\ StoresOK /\ SharedTypes /\ ControlTypes /\ Alone(p)
  BY <1>1, InvFacts, SoloIs
<1>3. /\ d \in Docs /\ row[d] = Before(p) /\ Ordered(remote[d], edits, Before(p))
      /\ Agree(remote[d], edits, Before(p), chunks[d])
  BY <1>1, RowRead
<1>4. new \in Row /\ new.status = "pending" /\ new.prints = Before(p).prints
  BY <1>1, <1>2, StrandedIs
<1>5. LocalStep(p)
  BY <1>2, WritePendingLocal
<1>. HIDE DEF new
<1>6. /\ UNCHANGED <<provider, grant, chunks, profile>>
      /\ \/ /\ row' = [row EXCEPT ![d] = new] /\ pc'[p] = "embed"
            /\ UNCHANGED <<listing, snap, todo, cur, source, forced, failed, doomed>>
         \/ row' = row /\ pc'[p] = "idle" /\ DOMAIN listing'[p] = {}
  BY <1>1, <1>2, <1>3, <1>4, UpsertIs
<1>7. CASE row' = row /\ pc'[p] = "idle" /\ DOMAIN listing'[p] = {}
  <2>1. StoresOK'
    BY <1>2, <1>6, <1>7, StoresSame DEF stores
  <2>2. SharedOK(p)'
    BY <1>7, IdleShared
  <2>. QED  BY <1>2, <1>5, <1>6, <2>1, <2>2, StepFrame
<1>8. CASE /\ row' = [row EXCEPT ![d] = new] /\ pc'[p] = "embed"
           /\ UNCHANGED <<listing, snap, todo, cur, source, forced, failed, doomed>>
  <2>1. row'[d] = new /\ \A e \in Docs \ {d} : row'[e] = row[e]
    BY <1>2, <1>3, <1>4, <1>8, RowWritten DEF SharedTypes
  <2>2. StoresOK'
    <3>1. Agree(remote[d], edits, new, chunks[d])
      BY <1>4, NoClaim
    <3>2. Ordered(remote[d], edits, new)
      BY <1>3, <1>4 DEF Ordered
    <3>. QED  BY <1>2, <1>3, <1>6, <2>1, <3>1, <3>2, StoresFrame
  <2>3. SharedOK(p)'
    <3>1. Before(p)' = Before(p) /\ Sought(p)' = Sought(p) /\ remote' = remote /\ edits' = edits
      BY <1>6, <1>8 DEF Before, Sought, provider
    <3>2. Stranded(p, "pending")' = new
      BY <3>1 DEF Stranded, new
    <3>3. \A e \in DOMAIN listing'[p] : ListedOK(remote'[e], edits', listing'[p][e])
      BY <1>2, <1>8, <3>1 DEF SharedOK
    <3>4. /\ todo[p] \subseteq Docs /\ d \notin todo[p]
      BY <1>1, <1>2 DEF LocalOK, ControlTypes
    <3>5. \A e \in todo'[p] : /\ Forward => row'[e].prints.text <= listing'[p][e].text
                              /\ snap'[p][e] = row'[e]
      BY <1>1, <1>2, <1>8, <2>1, <3>4 DEF SharedOK
    <3>6. source[p] # None /\ FetchedOK(remote[d], edits, Sought(p), source[p])
      BY <1>1, <1>2 DEF SharedOK, LocalOK
    <3>7. Agree(remote'[d], edits', Before(p)', chunks'[d])
      BY <1>3, <1>6, <3>1
    <3>. QED  BY <1>8, <2>1, <3>1, <3>2, <3>3, <3>5, <3>6, <3>7
              DEF SharedOK, Working, Deciding, Ingesting
  <2>. QED  BY <1>2, <1>5, <1>6, <2>2, <2>3, StepFrame
<1>. QED  BY <1>6, <1>7, <1>8

\* From one decision to the next the row is still the one the run read.
LEMMA DecideShared ==
  ASSUME IInv, NEW p \in Runs, pc[p] \in Deciding, pc'[p] \in Deciding,
         UNCHANGED <<provider, row, listing, snap, todo, cur>>,
         source'[p] # None => FetchedOK(remote[cur[p]], edits, Sought(p), source'[p])
  PROVE  SharedOK(p)'
<1>1. SharedOK(p)
  BY InvFacts
<1>2. Before(p)' = Before(p) /\ Sought(p)' = Sought(p) /\ remote' = remote /\ edits' = edits
  BY DEF Before, Sought, provider
<1>3. \A e \in DOMAIN listing'[p] : ListedOK(remote'[e], edits', listing'[p][e])
  BY <1>1, <1>2 DEF SharedOK
<1>4. \A e \in todo'[p] : /\ Forward => row'[e].prints.text <= listing'[p][e].text
                          /\ snap'[p][e] = row'[e]
  BY <1>1 DEF SharedOK, Working
<1>5. /\ Before(p)' = row'[cur'[p]]
      /\ Forward => Before(p)'.prints.text <= Sought(p)'.text
  BY <1>1, <1>2 DEF SharedOK
<1>6. source'[p] # None => FetchedOK(remote'[cur'[p]], edits', Sought(p)', source'[p])
  BY <1>2
<1>. QED  BY <1>3, <1>4, <1>5, <1>6 DEF SharedOK, Deciding, Working, Ingesting

\* While a document is ingested its pending row stays.
LEMMA IngestShared ==
  ASSUME IInv, NEW p \in Runs, pc[p] \in Ingesting, pc'[p] \in Ingesting,
         UNCHANGED <<provider, row, listing, snap, todo, cur, source>>,
         pc'[p] \in {"embed", "restore"} =>
           Agree(remote[cur[p]], edits, Before(p), chunks'[cur[p]]),
         pc'[p] = "ready" => /\ chunks'[cur[p]].text = source[p]
                             /\ chunks'[cur[p]].cut = Sought(p).fmt
                             /\ chunks'[cur[p]].prof = profile'
  PROVE  SharedOK(p)'
<1>1. SharedOK(p)
  BY InvFacts
<1>2. Before(p)' = Before(p) /\ Sought(p)' = Sought(p) /\ remote' = remote /\ edits' = edits
  BY DEF Before, Sought, provider
<1>3. Stranded(p, "pending")' = Stranded(p, "pending")
  BY <1>2 DEF Stranded
<1>4. \A e \in DOMAIN listing'[p] : ListedOK(remote'[e], edits', listing'[p][e])
  BY <1>1, <1>2 DEF SharedOK
<1>5. \A e \in todo'[p] : /\ Forward => row'[e].prints.text <= listing'[p][e].text
                          /\ snap'[p][e] = row'[e]
  BY <1>1 DEF SharedOK, Working
<1>6. row'[cur'[p]] = Stranded(p, "pending")'
  BY <1>1, <1>3 DEF SharedOK
<1>7. source'[p] # None => FetchedOK(remote'[cur'[p]], edits', Sought(p)', source'[p])
  BY <1>1, <1>2 DEF SharedOK, Working
<1>8. pc'[p] \in {"embed", "restore"} =>
        Agree(remote'[cur'[p]], edits', Before(p)', chunks'[cur'[p]])
  BY <1>2
<1>9. pc'[p] = "ready" => /\ chunks'[cur'[p]].text = source'[p]
                          /\ chunks'[cur'[p]].cut = Sought(p)'.fmt
                          /\ chunks'[cur'[p]].prof = profile'
  BY <1>2
<1>. QED  BY <1>4, <1>5, <1>6, <1>7, <1>8, <1>9 DEF SharedOK, Deciding, Working, Ingesting

LEMMA EmbedNext == ASSUME IInv, NEW p \in Runs, Embed(p) PROVE IInv'
<1>1. /\ pc[p] = "embed" /\ pc[p] \in Ingesting
      /\ UNCHANGED <<provider, grant, stores, profile>>
  BY DEF Embed, Ingesting
<1>2. LInv /\ SharedOK(p) /\ StoresOK /\ ControlTypes /\ Alone(p)
  BY <1>1, InvFacts, SoloIs
<1>3. PICK label \in {"vecDelete", "restore", "degradeRaise"} : Continue(p, label)
  BY DEF Embed
<1>4. pc'[p] = label /\ UNCHANGED <<listing, snap, todo, cur, source, forced, failed, doomed>>
  <2>1. label \in Labels
    BY DEF Labels
  <2>. QED  BY <1>2, <1>3, <2>1, ContinueIs
<1>5. Agree(remote[cur[p]], edits, Before(p), chunks'[cur[p]])
  BY <1>1, <1>2 DEF SharedOK, stores
<1>6. SharedOK(p)'
  BY <1>1, <1>4, <1>5, IngestShared DEF Ingesting, stores
<1>. QED  BY <1>1, <1>2, <1>6, EmbedLocal, StoresSame, StepFrame

LEMMA VecDeleteNext == ASSUME IInv, NEW p \in Runs, VecDelete(p) PROVE IInv'
<1>1. /\ pc[p] = "vecDelete" /\ pc[p] \in Ingesting
      /\ UNCHANGED <<provider, grant, row, profile>>
  BY DEF VecDelete, Ingesting
<1>2. LInv /\ SharedOK(p) /\ StoresOK /\ ControlTypes /\ SharedTypes /\ Alone(p)
  BY <1>1, InvFacts, SoloIs
<1>3. PICK label \in {"vecUpsert", "degrade"} : Continue(p, label)
  BY DEF VecDelete
<1>4. pc'[p] = label /\ UNCHANGED <<listing, snap, todo, cur, source, forced, failed, doomed>>
  <2>1. label \in Labels
    BY DEF Labels
  <2>. QED  BY <1>2, <1>3, <2>1, ContinueIs
<1>5. SharedOK(p)'
  BY <1>1, <1>4, IngestShared DEF Ingesting
<1>6. /\ cur[p] \in Docs /\ row[cur[p]] \in Row /\ row[cur[p]].status = "pending"
      /\ Ordered(remote[cur[p]], edits, row[cur[p]])
  BY <1>1, <1>2, RowPending DEF StoresOK
<1>7. \A e \in Docs \ {cur[p]} : chunks'[e] = chunks[e]
  BY <1>2, <1>6, ChunksWritten DEF VecDelete, SharedTypes
<1>8. StoresOK'
  BY <1>1, <1>2, <1>6, <1>7, NoClaim, StoresFrame
<1>. QED  BY <1>1, <1>2, <1>5, <1>8, VecDeleteLocal, StepFrame

LEMMA VecUpsertNext == ASSUME IInv, NEW p \in Runs, VecUpsert(p) PROVE IInv'
<1>1. pc[p] = "vecUpsert" /\ pc[p] \in Ingesting
  BY DEF VecUpsert, Ingesting
<1>2. LInv /\ SharedOK(p) /\ StoresOK /\ Alone(p)
  BY <1>1, InvFacts, SoloIs
<1>3. /\ LocalStep(p) /\ pc'[p] \in {"ready", "degrade"}
      /\ UNCHANGED <<provider, grant, row, profile, listing, snap, todo, cur, source, forced,
                     failed, doomed>>
      /\ \A e \in Docs \ {cur[p]} : chunks'[e] = chunks[e]
      /\ pc'[p] = "ready" => /\ chunks'[cur[p]].text = source[p]
                             /\ chunks'[cur[p]].cut = Sought(p).fmt
                             /\ chunks'[cur[p]].prof = profile
  BY <1>2, VecUpsertIs
<1>4. SharedOK(p)'
  BY <1>1, <1>3, IngestShared DEF Ingesting
<1>5. /\ cur[p] \in Docs /\ row[cur[p]] \in Row /\ row[cur[p]].status = "pending"
      /\ Ordered(remote[cur[p]], edits, row[cur[p]])
  BY <1>1, <1>2, RowPending DEF StoresOK
<1>6. StoresOK'
  BY <1>2, <1>3, <1>5, NoClaim, StoresFrame
<1>. QED  BY <1>2, <1>3, <1>4, <1>6, StepFrame

LEMMA PinnedIs == Pinned <=> Kind # "drive"
BY DEF Pinned

\* The text a fetch returns is the listed one, or no older.
LEMMA FetchedTrue ==
  ASSUME IInv, NEW p \in Runs, pc[p] = "fetch", Available(p)
  PROVE  FetchedOK(remote[cur[p]], edits, Sought(p), Fetched(p))
<1> DEFINE m == remote[cur[p]]
           l == Sought(p)
<1>1. pc[p] \in Deciding /\ LInv
  BY InvFacts DEF Deciding
<1>2. cur[p] \in Docs /\ l \in Listed /\ ListedOK(m, edits, l) /\ HeldOK(m, edits)
  BY <1>1, RowRead
<1>3. m \in Listed \cup {NoDoc} /\ edits \in Nat
  BY <1>1, <1>2, SharedFacts
<1>4. CASE Pinned
  BY <1>2, <1>4, PinnedIs DEF Fetched, FetchedOK, ListedOK, Forward
<1>5. CASE ~Pinned
  <2>1. m # NoDoc /\ m \in Listed /\ Fetched(p) = m.text /\ Kind = "drive"
    BY <1>3, <1>5, PinnedIs DEF Available, Fetched
  <2>2. m.text \in Nat /\ l.text \in Nat
    BY <1>2, <2>1, ListedFields DEF Stamp
  <2>3. Vouches(m, edits, l.rev, m.text, l.fmt)
    BY <1>2, <2>1 DEF ListedOK, Vouches
  <2>4. Forward => l.text <= m.text /\ NotAhead(m, edits, m.text)
    BY <1>2, <2>1, <2>2 DEF ListedOK, NotAhead, HeldOK
  <2>. QED  BY <2>1, <2>3, <2>4 DEF FetchedOK
<1>. QED  BY <1>4, <1>5

LEMMA FetchNext == ASSUME IInv, NEW p \in Runs, Fetch(p) PROVE IInv'
<1>1. /\ pc[p] = "fetch" /\ pc[p] \in Deciding /\ Available(p)
      /\ UNCHANGED <<provider, grant, stores, profile, faults, listing, snap, todo, cur,
                     forced, failed, doomed>>
  BY DEF Fetch, Deciding
<1>2. LInv /\ StoresOK /\ ControlTypes /\ Alone(p)
  BY <1>1, InvFacts, SoloIs
<1>3. LocalStep(p) /\ source'[p] = Fetched(p)
  BY <1>2, FetchLocal
<1>4. pc'[p] \in {"rewrite", "pending"}
  <2>1. (IF SameContent(p, Fetched(p)) THEN "rewrite" ELSE "pending") \in Labels
    BY DEF Labels
  <2>2. Goto(p, IF SameContent(p, Fetched(p)) THEN "rewrite" ELSE "pending")
    BY DEF Fetch
  <2>3. pc'[p] = IF SameContent(p, Fetched(p)) THEN "rewrite" ELSE "pending"
    BY <1>2, <2>1, <2>2, GotoIs
  <2>. QED  BY <2>3
<1>5. SharedOK(p)'
  BY <1>1, <1>3, <1>4, FetchedTrue, DecideShared DEF Deciding, stores
<1>. QED  BY <1>1, <1>2, <1>3, <1>5, StoresSame, StepFrame

LEMMA FetchFailsNext == ASSUME IInv, NEW p \in Runs, FetchFails(p) PROVE IInv'
<1> DEFINE d == cur[p]
           new == MkRow("failed", Sought(p).rev, None, NoPrints)
<1>1. /\ pc[p] = "fetch" /\ pc[p] \in Deciding /\ pc[p] \in Working /\ FailedOutcome(p)
      /\ UNCHANGED <<provider, grant, chunks, profile>>
  BY DEF FetchFails, Deciding, Working
<1>2. LInv /\ LocalOK(p) /\ SharedOK(p) /\ StoresOK /\ ControlTypes /\ SharedTypes /\ Alone(p)
  BY <1>1, InvFacts, SoloIs
<1>3. LocalStep(p)
  BY <1>2, FetchFailsLocal
<1>4. /\ d \in Docs /\ Sought(p) \in Listed /\ row[d] = Before(p)
      /\ Agree(remote[d], edits, Before(p), chunks[d])
      /\ Ordered(remote[d], edits, Before(p))
  BY <1>1, RowRead
<1>5. new \in Row /\ new.status = "failed" /\ new.prints = NoPrints
  <2>1. NoPrints \in Prints /\ "failed" \in {"pending", "ready", "failed", "degraded"}
    BY NoRowIs, RowPrints
  <2>2. Sought(p).rev \in Stamp /\ None \in Formats \cup {None}
    BY <1>4, ListedFields
  <2>. QED  BY <2>1, <2>2, MkRowIs
<1>6. /\ \A e \in Docs \ {d} : row'[e] = row[e]
      /\ row'[d] = IF Before(p) = NoRow THEN new ELSE row[d]
  <2>1. CASE Before(p) = NoRow
    <3>1. row' = [row EXCEPT ![d] = new]
      BY <2>1 DEF FetchFails
    <3>. HIDE DEF new
    <3>. QED  BY <1>2, <1>4, <1>5, <2>1, <3>1, RowWritten DEF SharedTypes
  <2>2. CASE Before(p) # NoRow
    BY <2>2 DEF FetchFails
  <2>. QED  BY <2>1, <2>2
<1>. HIDE DEF new
<1>7. /\ Agree(remote[d], edits, row'[d], chunks'[d])
      /\ Ordered(remote[d], edits, row'[d])
  <2>1. CASE Before(p) # NoRow
    BY <1>1, <1>4, <1>6, <2>1
  <2>2. CASE Before(p) = NoRow
    <3>1. chunks[d] = NoChunks
      BY <1>4, <2>2 DEF Agree
    <3>2. new.prints = Before(p).prints
      BY <1>5, <2>2, NoRowIs
    <3>. QED  BY <1>1, <1>4, <1>5, <1>6, <2>2, <3>1, <3>2 DEF Agree, Ordered
  <2>. QED  BY <2>1, <2>2
<1>8. StoresOK'
  BY <1>1, <1>2, <1>4, <1>6, <1>7, StoresFrame
<1>9. SharedOK(p)'
  <2>1. pc'[p] = "pick" /\ UNCHANGED <<listing, snap, todo, cur, source, forced, doomed>>
    BY <1>1, <1>2, FailedOutcomeIs
  <2>. QED  BY <1>1, <1>2, <1>6, <2>1, PickShared DEF ControlTypes
<1>. QED  BY <1>1, <1>2, <1>3, <1>8, <1>9, StepFrame

LEMMA AbortNext == ASSUME IInv, NEW p \in Runs, Abort(p) PROVE IInv'
<1>1. pc[p] # "idle" /\ Finish(p) /\ UNCHANGED <<provider, grant, stores, profile>>
  BY DEF Abort
<1>2. LInv /\ StoresOK /\ ControlTypes /\ Alone(p)
  BY <1>1, InvFacts, SoloIs
<1>. QED  BY <1>1, <1>2, AbortLocal, FinishIs, IdleShared, StoresSame, StepFrame

LEMMA ProbeNext == ASSUME IInv, NEW p \in Runs, Probe(p) PROVE IInv'
<1>1. /\ pc[p] = "probe" /\ pc[p] \in Deciding /\ pc[p] \in Working
      /\ {"fetch", "rewrite"} \subseteq Labels /\ UNCHANGED <<provider, grant, stores, profile>>
  BY DEF Probe, Deciding, Working, Labels
<1>2. LInv /\ LocalOK(p) /\ SharedOK(p) /\ StoresOK /\ ControlTypes /\ Alone(p)
  BY <1>1, InvFacts, SoloIs
<1>3. \/ pc'[p] \in {"fetch", "rewrite"} /\ UNCHANGED <<listing, snap, todo, cur, source>>
      \/ pc'[p] = "pick" /\ UNCHANGED <<listing, snap, todo, cur, source>>
  <2>1. CASE Reingest(p, "fetch")
    BY <1>1, <1>2, <2>1, ReingestIs
  <2>2. CASE Continue(p, IF Describable(p) THEN "rewrite" ELSE "fetch")
    <3>1. (IF Describable(p) THEN "rewrite" ELSE "fetch") \in Labels
      BY <1>1
    <3>2. pc'[p] = (IF Describable(p) THEN "rewrite" ELSE "fetch")
          /\ UNCHANGED <<listing, snap, todo, cur, source>>
      BY <1>2, <2>2, <3>1, ContinueIs
    <3>. QED  BY <3>2
  <2>3. CASE FailedOutcome(p)
    BY <1>2, <2>3, FailedOutcomeIs
  <2>. QED  BY <2>1, <2>2, <2>3 DEF Probe
<1>4. SharedOK(p)'
  <2>1. CASE pc'[p] \in {"fetch", "rewrite"} /\ UNCHANGED <<listing, snap, todo, cur, source>>
    <3>1. source'[p] = None
      BY <1>1, <1>2, <2>1 DEF LocalOK
    <3>. QED  BY <1>1, <2>1, <3>1, DecideShared DEF Deciding, stores
  <2>2. CASE pc'[p] = "pick" /\ UNCHANGED <<listing, snap, todo, cur, source>>
    BY <1>1, <1>2, <2>2, PickShared DEF ControlTypes, stores
  <2>. QED  BY <1>3, <2>1, <2>2
<1>. QED  BY <1>1, <1>2, <1>4, ProbeLocal, StoresSame, StepFrame

LEMMA RewriteNext == ASSUME IInv, NEW p \in Runs, Rewrite(p) PROVE IInv'
<1> DEFINE d == cur[p]
           c == chunks[d]
<1>1. pc[p] = "rewrite" /\ pc[p] \in Deciding /\ pc[p] \in Working
  BY DEF Rewrite, Deciding, Working
<1>2. LInv /\ LocalOK(p) /\ SharedOK(p) /\ StoresOK /\ ControlTypes /\ Alone(p)
  BY <1>1, InvFacts, SoloIs
<1>3. /\ LocalStep(p) /\ pc'[p] \in {"advance", "fetch", "pending", "pick"}
      /\ UNCHANGED <<provider, grant, row, profile, listing, snap, todo, cur, source, doomed>>
      /\ \A e \in Docs \ {d} : chunks'[e] = chunks[e]
      /\ chunks'[d] # NoChunks => /\ c # NoChunks /\ chunks'[d].text = c.text
                                  /\ chunks'[d].cut = c.cut /\ chunks'[d].prof = c.prof
  BY <1>2, RewriteIs
<1>4. /\ d \in Docs /\ Agree(remote[d], edits, row[d], c) /\ Ordered(remote[d], edits, row[d])
  BY <1>1, <1>2, RowRead DEF StoresOK
<1>5. Agree(remote[d], edits, row[d], chunks'[d])
  BY <1>3, <1>4 DEF Agree
<1>6. StoresOK'
  BY <1>2, <1>3, <1>4, <1>5, StoresFrame
<1>7. SharedOK(p)'
  <2>1. CASE pc'[p] = "pick"
    BY <1>1, <1>2, <1>3, <2>1, PickShared DEF ControlTypes
  <2>2. CASE pc'[p] \in {"advance", "fetch", "pending"}
    <3>1. source'[p] # None => FetchedOK(remote[d], edits, Sought(p), source'[p])
      BY <1>1, <1>2, <1>3 DEF SharedOK
    <3>. QED  BY <1>1, <1>3, <2>2, <3>1, DecideShared DEF Deciding
  <2>. QED  BY <1>3, <2>1, <2>2
<1>. QED  BY <1>2, <1>3, <1>6, <1>7, StepFrame

LEMMA ListNext == ASSUME IInv, ~Overlap, NEW p \in Runs, List(p) PROVE IInv'
<1>1. LInv /\ SharedTypes /\ StoresOK
  BY InvFacts
<1>2. /\ LocalStep(p) /\ pc'[p] = "catalog" /\ Alone(p)
      /\ UNCHANGED <<provider, grant, stores, profile>>
      /\ \A d \in DOMAIN listing'[p] : remote[d] \in Listed /\ listing'[p][d] = remote[d]
  BY <1>1, ListIs, SoloIs
<1>3. DOMAIN listing'[p] \subseteq Docs /\ todo'[p] \subseteq DOMAIN listing'[p]
  BY <1>2, ListingIs DEF LocalStep, ControlTypes, LocalOK
<1>4. ASSUME NEW d \in DOMAIN listing'[p]
      PROVE  /\ ListedOK(remote[d], edits, listing'[p][d])
             /\ Forward => row[d].prints.text <= listing'[p][d].text
  <2>1. d \in Docs /\ remote[d] # NoDoc /\ listing'[p][d] = remote[d]
    BY <1>2, <1>3, NoDocIs
  <2>2. /\ HeldOK(remote[d], edits) /\ Ordered(remote[d], edits, row[d])
        /\ remote[d].text \in Nat
    BY <1>1, <1>2, <2>1, ListedFields DEF StoresOK, Stamp
  <2>. QED  BY <2>1, <2>2 DEF ListedOK, HeldOK, Ordered, NotAhead
<1>5. remote' = remote /\ edits' = edits /\ row' = row
  BY <1>2 DEF provider, stores
<1>6. SharedOK(p)'
  BY <1>2, <1>3, <1>4, <1>5 DEF SharedOK, Working, Deciding, Ingesting
<1>. QED  BY <1>1, <1>2, <1>6, StoresSame, StepFrame

LEMMA ReadCatalogNext == ASSUME IInv, NEW p \in Runs, ReadCatalog(p) PROVE IInv'
<1>1. LInv /\ SharedOK(p) /\ StoresOK
  BY InvFacts
<1>2. /\ LocalStep(p) /\ pc[p] = "catalog" /\ pc'[p] = "pick" /\ snap'[p] = row
      /\ UNCHANGED <<provider, grant, stores, profile, faults, listing, todo, cur, source,
                     forced, failed, doomed>>
  BY <1>1, ReadCatalogIs
<1>3. remote' = remote /\ edits' = edits /\ row' = row
  BY <1>2 DEF provider, stores
<1>4. \A d \in DOMAIN listing'[p] : ListedOK(remote'[d], edits', listing'[p][d])
  BY <1>1, <1>2, <1>3 DEF SharedOK
<1>5. \A d \in todo'[p] : Forward => row'[d].prints.text <= listing'[p][d].text
  BY <1>1, <1>2, <1>3 DEF SharedOK
<1>6. SharedOK(p)'
  BY <1>2, <1>3, <1>4, <1>5 DEF SharedOK, Working, Deciding, Ingesting
<1>. QED  BY <1>1, <1>2, <1>6, SoloIs, StoresSame, StepFrame

LEMMA TakeNext == ASSUME IInv, NEW p \in Runs, NEW d \in Docs, Take(p, d) PROVE IInv'
<1>1. LInv /\ SharedOK(p) /\ StoresOK
  BY InvFacts
<1>2. /\ LocalStep(p) /\ pc[p] = "pick" /\ d \in todo[p]
      /\ pc'[p] \in {"pick", "adopt", "probe", "fetch"}
      /\ todo'[p] = todo[p] \ {d} /\ cur'[p] = d /\ source'[p] = None
      /\ UNCHANGED <<provider, grant, stores, profile, faults, listing, snap, failed, doomed>>
  BY <1>1, TakeIs
<1>3. remote' = remote /\ edits' = edits /\ row' = row
  BY <1>2 DEF provider, stores
<1>4. \A e \in DOMAIN listing'[p] : ListedOK(remote'[e], edits', listing'[p][e])
  BY <1>1, <1>2, <1>3 DEF SharedOK
<1>5. \A e \in todo[p] : /\ Forward => row'[e].prints.text <= listing'[p][e].text
                         /\ snap'[p][e] = row'[e]
  BY <1>1, <1>2, <1>3 DEF SharedOK
<1>6. Before(p)' = snap[p][d] /\ Sought(p)' = listing[p][d]
  BY <1>2 DEF Before, Sought
<1>7. /\ Before(p)' = row'[cur'[p]]
      /\ Forward => Before(p)'.prints.text <= Sought(p)'.text
  BY <1>2, <1>5, <1>6
<1>8. SharedOK(p)'
  BY <1>2, <1>4, <1>5, <1>7 DEF SharedOK, Working, Deciding, Ingesting
<1>. QED  BY <1>1, <1>2, <1>8, SoloIs, StoresSame, StepFrame

LEMMA ReconcileNext == ASSUME IInv, NEW p \in Runs, Reconcile(p) PROVE IInv'
<1>1. /\ pc[p] # "idle" /\ UNCHANGED <<provider, stores, listing>>
  BY DEF Reconcile
<1>2. LInv /\ SharedOK(p) /\ StoresOK /\ Alone(p)
  BY <1>1, InvFacts, SoloIs
<1>. QED  BY <1>1, <1>2, ReconcileLocal, IdleShared, StoresSame, StepFrame

LEMMA RemoveChunksNext ==
  ASSUME IInv, NEW p \in Runs, NEW d \in Docs, RemoveChunks(p, d) PROVE IInv'
<1>1. LInv /\ SharedOK(p) /\ StoresOK /\ SharedTypes
  BY InvFacts
<1>2. /\ LocalStep(p) /\ pc[p] = "remove" /\ UNCHANGED <<provider, grant, row, profile>>
      /\ \/ /\ chunks' = [chunks EXCEPT ![d] = NoChunks] /\ pc'[p] = "removeRow"
            /\ cur'[p] = d /\ listing' = listing
         \/ /\ chunks' = chunks /\ pc'[p] = "idle" /\ DOMAIN listing'[p] = {}
  BY <1>1, RemoveChunksIs
<1>3. Alone(p)
  BY <1>2, SoloIs
<1>4. CASE chunks' = chunks /\ pc'[p] = "idle" /\ DOMAIN listing'[p] = {}
  BY <1>1, <1>2, <1>3, <1>4, IdleShared, StoresSame, StepFrame DEF stores
<1>5. CASE /\ chunks' = [chunks EXCEPT ![d] = NoChunks] /\ pc'[p] = "removeRow"
           /\ cur'[p] = d /\ listing' = listing
  <2>1. chunks'[d] = NoChunks /\ \A e \in Docs \ {d} : chunks'[e] = chunks[e]
    BY <1>1, <1>5, ChunksWritten DEF SharedTypes
  <2>2. /\ Agree(remote[d], edits, row'[d], chunks'[d])
        /\ Ordered(remote[d], edits, row'[d])
    BY <1>1, <1>2, <2>1 DEF Agree, StoresOK
  <2>3. StoresOK'
    BY <1>1, <1>2, <2>1, <2>2, StoresFrame
  <2>4. remote' = remote /\ edits' = edits
    BY <1>2 DEF provider
  <2>5. \A e \in DOMAIN listing'[p] : ListedOK(remote'[e], edits', listing'[p][e])
    BY <1>1, <1>5, <2>4 DEF SharedOK
  <2>6. SharedOK(p)'
    BY <1>5, <2>1, <2>5 DEF SharedOK, Working, Deciding, Ingesting
  <2>. QED  BY <1>2, <1>3, <2>3, <2>6, StepFrame
<1>. QED  BY <1>2, <1>4, <1>5

LEMMA RemoveRowNext == ASSUME IInv, NEW p \in Runs, RemoveRow(p) PROVE IInv'
<1>1. LInv /\ SharedOK(p) /\ StoresOK /\ SharedTypes
  BY InvFacts
<1>2. /\ LocalStep(p) /\ pc[p] = "removeRow" /\ cur[p] \in Docs
      /\ UNCHANGED <<provider, grant, chunks, profile>>
      /\ \/ /\ row' = [row EXCEPT ![cur[p]] = NoRow] /\ pc'[p] = "remove"
            /\ listing' = listing
         \/ row' = row /\ pc'[p] = "idle" /\ DOMAIN listing'[p] = {}
  BY <1>1, RemoveRowIs
<1>3. Alone(p)
  BY <1>2, SoloIs
<1>4. CASE row' = row /\ pc'[p] = "idle" /\ DOMAIN listing'[p] = {}
  BY <1>1, <1>2, <1>3, <1>4, IdleShared, StoresSame, StepFrame DEF stores
<1>5. CASE /\ row' = [row EXCEPT ![cur[p]] = NoRow] /\ pc'[p] = "remove"
           /\ listing' = listing
  <2>1. row'[cur[p]] = NoRow /\ \A e \in Docs \ {cur[p]} : row'[e] = row[e]
    BY <1>1, <1>2, <1>5, RowWritten DEF SharedTypes
  <2>2. Agree(remote[cur[p]], edits, NoRow, chunks[cur[p]])
    BY <1>1, <1>2, NoRowIs DEF Agree, SharedOK
  <2>3. Ordered(remote[cur[p]], edits, NoRow)
    <3>1. edits \in Nat /\ remote[cur[p]] \in Listed \cup {NoDoc}
      BY <1>1, <1>2, SharedFacts
    <3>2. remote[cur[p]] # NoDoc => remote[cur[p]].text \in Nat
      BY <3>1, ListedFields DEF Stamp
    <3>3. NoRow.prints.text = 0 /\ NoRow.prints.hash = 0
      BY DEF NoRow, NoPrints, None
    <3>. QED  BY <3>1, <3>2, <3>3 DEF Ordered, NotAhead
  <2>4. StoresOK'
    BY <1>1, <1>2, <2>1, <2>2, <2>3, StoresFrame
  <2>5. SharedOK(p)'
    BY <1>1, <1>2, <1>5, IdleShared
  <2>. QED  BY <1>2, <1>3, <2>4, <2>5, StepFrame
<1>. QED  BY <1>2, <1>4, <1>5

LEMMA RemovedNext == ASSUME IInv, NEW p \in Runs, Removed(p) PROVE IInv'
<1>1. pc[p] # "idle"
  BY DEF Removed
<1>2. LInv /\ StoresOK /\ Alone(p)
  BY <1>1, InvFacts, SoloIs
<1>. QED  BY <1>2, RemovedIs, IdleShared, StoresSame, StepFrame

LEMMA PurgeRowsNext == ASSUME IInv, NEW p \in Runs, PurgeRows(p) PROVE IInv'
<1>1. pc[p] # "idle"
  BY DEF PurgeRows
<1>2. LInv /\ SharedOK(p) /\ StoresOK /\ Alone(p)
  BY <1>1, InvFacts, SoloIs
<1>. QED  BY <1>2, PurgeRowsIs, IdleShared, StoresSame, StepFrame

LEMMA SelectNext ==
  ASSUME IInv, ~Overlap, NEW p \in Runs, NEW new \in SUBSET Roots, Select(p, new) PROVE IInv'
<1>1. LInv /\ SharedOK(p) /\ StoresOK
  BY InvFacts
<1>2. /\ LocalStep(p) /\ pc'[p] = "purge" /\ Quiet
      /\ UNCHANGED <<provider, stores, profile, listing>>
  BY <1>1, SelectIs
<1>. QED  BY <1>1, <1>2, SoloIs, IdleShared, StoresSame, StepFrame

LEMMA DisconnectNext ==
  ASSUME IInv, ~Overlap, NEW p \in Runs, Disconnect(p) PROVE IInv'
<1>1. LInv /\ SharedOK(p) /\ StoresOK
  BY InvFacts
<1>2. /\ LocalStep(p) /\ pc'[p] = "purge" /\ Quiet
      /\ UNCHANGED <<provider, stores, profile, listing>>
  BY <1>1, DisconnectIs
<1>. QED  BY <1>1, <1>2, SoloIs, IdleShared, StoresSame, StepFrame

LEMMA CallNext == ASSUME IInv, NEW p \in Runs, Call(p) PROVE IInv'
BY ReadCatalogNext, TakeNext, RemoveChunksNext, AdoptNext, ProbeNext, FetchNext,
   FetchFailsNext, AbortNext, RewriteNext, AdvanceNext, WritePendingNext, EmbedNext,
   VecDeleteNext, VecUpsertNext, WriteReadyNext, RestoreNext, DegradeNext,
   DegradeRaiseNext, ReconcileNext, RemoveRowNext, RemovedNext, PurgeRowsNext DEF Call

\* The process starts again: no request knows anything, the stores are as
\* they were, whatever the settings are now.
LEMMA RestartNext == IInv /\ Restart => IInv'
<1>. SUFFICES ASSUME IInv, Restart PROVE IInv'
  OBVIOUS
<1>1. LInv /\ StoresOK /\ LInv'
  BY LocalNext DEF IInv, Next
<1>2. /\ UNCHANGED <<provider, grant, stores>>
      /\ \A q \in Runs : pc'[q] = "idle" /\ DOMAIN listing'[q] = {}
  BY <1>1, RestartLocal
<1>3. StoresOK' /\ Solo' /\ \A q \in Runs : SharedOK(q)'
  BY <1>1, <1>2, StoresSame, IdleShared DEF Solo
<1>. QED  BY <1>1, <1>3 DEF IInv

\* Nothing a request or the invariant speaks of changes.
LEMMA StillNext ==
  ASSUME IInv, LInv', UNCHANGED <<provider, stores, profile, control>>
  PROVE  IInv'
<1>1. UNCHANGED <<remote, edits, row, chunks, profile, pc, listing, snap, todo, cur, source,
                  forced, failed, doomed>>
  BY DEF provider, stores, control
<1>2. StoresOK'
  BY StoresSame DEF IInv
<1>3. Solo'
  BY <1>1 DEF IInv, Solo
<1>4. ASSUME NEW p \in Runs
      PROVE  SharedOK(p)'
  BY <1>1 DEF IInv, SharedOK, Before, Sought, Stranded
<1>. QED  BY <1>2, <1>3, <1>4 DEF IInv

LEMMA SharedInit == Init => IInv
<1>. SUFFICES ASSUME Init PROVE IInv
  OBVIOUS
<1>1. LInv
  BY LocalInit
<1>2. Solo
  BY DEF Init, Solo
<1>3. \A p \in Runs : SharedOK(p)
  BY NothingIs DEF Init, SharedOK, Working, Deciding, Ingesting
<1>4. StoresOK
  <2>. SUFFICES ASSUME NEW d \in Docs
                PROVE  /\ HeldOK(FirstListed, 0)
                       /\ Agree(FirstListed, 0, row[d], chunks[d])
                       /\ Ordered(FirstListed, 0, row[d])
    BY DEF Init, StoresOK
  <2>1. /\ FirstListed.text = 1 /\ FirstListed.rev = 1 /\ FirstListed.fmt = FirstFormat
        /\ FirstListed # NoDoc
    BY DEF FirstListed, NoDoc, None
  <2>2. HeldOK(FirstListed, 0)
    BY <2>1 DEF HeldOK, Vouches
  <2>3. CASE d \notin Legacy
    <3>1. row[d] = NoRow /\ chunks[d] = NoChunks
      BY <2>3 DEF Init
    <3>2. NoRow.prints.text = 0 /\ NoRow.prints.hash = 0
      BY DEF NoRow, NoPrints, None
    <3>. QED  BY <2>1, <2>2, <3>1, <3>2, NoRowIs DEF Agree, Ordered, NotAhead
  <2>4. CASE d \in Legacy
    <3>1. row[d] = LegacyRow /\ chunks[d] = LegacyChunk
      BY <2>4 DEF Init
    <3>2. /\ LegacyChunk.text = 1 /\ LegacyChunk.cut = FirstFormat /\ LegacyChunk.prof = None
      BY DEF LegacyChunk
    <3>3. /\ LegacyRow.status = "ready" /\ LegacyRow.rev = 1 /\ LegacyRow.fmt = FirstFormat
          /\ LegacyRow.prints = NoPrints
      BY DEF LegacyRow, MkRow
    <3>4. NoPrints.text = None /\ NoPrints.hash = None /\ NoPrints.prof = None
      BY DEF NoPrints
    <3>5. LegacyRow # NoRow
      BY <3>3, NoRowIs
    <3>6. Agree(FirstListed, 0, LegacyRow, LegacyChunk)
      BY <2>1, <3>2, <3>3, <3>4, <3>5 DEF Agree, Vouches
    <3>7. Ordered(FirstListed, 0, LegacyRow)
      BY <2>1, <3>3, <3>4 DEF Ordered, NotAhead, None
    <3>. QED  BY <2>2, <3>1, <3>6, <3>7
  <2>. QED  BY <2>3, <2>4
<1>. QED  BY <1>1, <1>2, <1>3, <1>4 DEF IInv

LEMMA SharedNext == ASSUME ~Overlap PROVE IInv /\ [Next]_vars => IInv'
<1>. SUFFICES ASSUME IInv, [Next]_vars PROVE IInv'
  OBVIOUS
<1>1. LInv'
  BY LocalNext DEF IInv
<1>2. CASE Provider
  BY <1>2, ProviderNext
<1>3. CASE Connect
  BY <1>1, <1>3, StillNext DEF Connect
<1>4. CASE Restart
  BY <1>4, RestartNext
<1>5. CASE \E p \in Runs : Request(p) \/ Call(p)
  BY <1>5, CallNext, ListNext, SelectNext, DisconnectNext DEF Request
<1>6. CASE UNCHANGED vars
  BY <1>1, <1>6, StillNext DEF vars
<1>. QED  BY <1>2, <1>3, <1>4, <1>5, <1>6 DEF Next

LEMMA SharedInvariance == ASSUME ~Overlap PROVE Spec => []IInv
BY SharedInit, SharedNext, PTL DEF Spec

-----------------------------------------------------------------------------
(* What follows, as long as requests do not overlap.                       *)

\* Nothing stays searchable that no row, or only a failed one, accounts for:
\* whatever fails and wherever the process dies, chunks go before their row.
THEOREM NothingLeftHidden == ASSUME ~Overlap PROVE Spec => []NothingHidden
<1>1. IInv => NothingHidden
  BY DEF IInv, StoresOK, Agree, NothingHidden
<1>. QED  BY <1>1, SharedInvariance, PTL

\* A ready row claims no settings its chunks were not made under, also when
\* the process comes back with others between any two writes.
THEOREM ProfilesHonest == ASSUME ~Overlap PROVE Spec => []ProfileHonest
<1>1. IInv => ProfileHonest
  BY DEF IInv, StoresOK, Agree, ProfileHonest
<1>. QED  BY <1>1, SharedInvariance, PTL

\* A document whose ready row is at the provider's revision is searchable as
\* the provider holds it, so that skipping it is sound: for GitHub and Jira
\* whatever the provider does, for Drive unless a file returns to bytes it had.
THEOREM SkippingIsSound ==
  ASSUME ~Overlap, Kind # "drive" \/ Steady
  PROVE  Spec => []ReadyIsCurrent
<1>1. IInv => ReadyIsCurrent
  BY DEF IInv, StoresOK, Agree, Vouches, ReadyIsCurrent
<1>. QED  BY <1>1, SharedInvariance, PTL

\* A run in which documents failed removes no row of a root it listed.  Drive
\* ids carry no root, so this is about GitHub and Jira.
THEOREM FailuresNoDeletes ==
  ASSUME ~Overlap, Kind # "drive"
  PROVE  Spec => FailuresKeepRows
<1> DEFINE A == \A p \in Runs, d \in Docs :
                  row[d] # NoRow /\ row'[d] = NoRow /\ pc[p] = "removeRow" /\ failed[p] =>
                    \A e \in DOMAIN listing[p] : RootOf[e] # RootOf[d]
<1>1. ASSUME IInv, [Next]_vars PROVE A
  <2>. SUFFICES ASSUME NEW p \in Runs, NEW d \in Docs, row[d] # NoRow, row'[d] = NoRow,
                       pc[p] = "removeRow", failed[p], NEW e \in DOMAIN listing[p]
                PROVE  RootOf[e] # RootOf[d]
    OBVIOUS
  <2>1. LInv /\ LocalOK(p) /\ SharedTypes
    BY <1>1, InvFacts
  <2>2. row' # row
    OBVIOUS
  <2>3. PICK q \in Runs : Request(q) \/ Call(q)
    BY <1>1, <2>2 DEF Next, Provider, Edit, Touch, Add, Remove, Change, Connect, Restart,
                      stores, vars
  <2>4. ~Request(q)
    BY <2>1, <2>2, ListIs, SelectIs, DisconnectIs DEF Request, stores
  <2>5. pc[q] # "idle"
    BY <2>3, <2>4 DEF Call, ReadCatalog, Take, RemoveChunks, Adopt, Probe, Fetch, FetchFails,
                      Abort, Rewrite, Advance, WritePending, Embed, VecDelete, VecUpsert,
                      WriteReady, Restore, Degrade, DegradeRaise, Reconcile, RemoveRow,
                      Removed, PurgeRows
  <2>6. q = p
    BY <1>1, <2>5 DEF IInv, Solo
  <2>7. RemoveRow(p)
    BY <2>3, <2>4, <2>6 DEF Call, ReadCatalog, Take, RemoveChunks, Adopt, Probe, Fetch,
                      FetchFails, Abort, Rewrite, Advance, WritePending, Embed, VecDelete,
                      VecUpsert, WriteReady, Restore, Degrade, DegradeRaise, Reconcile,
                      Removed, PurgeRows
  <2>8. d = cur[p]
    BY <2>1, <2>7, RemoveRowIs, RowWritten DEF SharedTypes
  <2>. QED  BY <2>1, <2>8 DEF LocalOK
<1>2. IInv /\ [Next]_vars => [A]_vars
  BY <1>1
<1>. QED  BY <1>2, SharedInvariance, PTL DEF Spec, FailuresKeepRows
=============================================================================
