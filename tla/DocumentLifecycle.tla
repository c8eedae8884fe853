-------------------------- MODULE DocumentLifecycle --------------------------
(***************************************************************************)
(* The life of an uploaded document over the four stores that hold it:     *)
(* the SQLite catalog row, the Chroma vector chunks, the in-memory BM25    *)
(* mirror of those chunks and the original upload bytes.  No transaction   *)
(* spans them: ManageUploadedDocuments orders the writes, and every write  *)
(* may fail or be the last one before a crash.                             *)
(*                                                                         *)
(* HTTP handlers are synchronous functions run in a thread pool, so a      *)
(* request is a writer (create, replace, delete) or a reader (content) and *)
(* its store calls interleave with those of the others.  One action is one *)
(* store call together with the bookkeeping up to the next one.            *)
(*                                                                         *)
(* An upload is a version number: file name, media type, text and bytes of *)
(* one payload travel together, and a later request has a larger number.   *)
(***************************************************************************)
EXTENDS Integers, FiniteSets

CONSTANTS
    Docs,         \* source ids of uploaded documents
    Writers,      \* request threads that create, replace or delete
    Readers,      \* request threads that download or preview
    MaxVersion,   \* how many uploads are made in a behaviour
    MaxFaults,    \* how many store failures and crashes happen in a behaviour
    MaxChunks,    \* the largest number of chunks of an upload
    ChunkCount,   \* number of chunks of each upload
    Overlap       \* may two requests that write one document overlap?

Version == 1..MaxVersion
Index   == 1..MaxChunks
None    == 0

ASSUME ConstantAssumption ==
    /\ MaxVersion \in Nat /\ MaxFaults \in Nat /\ MaxChunks \in Nat
    /\ ChunkCount \in [Version -> Index]
    /\ Overlap \in BOOLEAN

VARIABLES
    row,       \* catalog row of each document
    vec,       \* Chroma: which upload each chunk position holds, None if absent
    lex,       \* BM25: the same, in memory
    blob,      \* upload whose original bytes are on disk, None if absent
    used,      \* source ids that have been allocated
    uploads,   \* number of uploads so far
    faults,    \* number of failures and crashes so far
    pc,        \* next store call of each writer
    op,        \* request a writer serves
    outcome,   \* status a writer's failed ingest is going to record
    stored,    \* did a writer's last write of the original bytes succeed?
    reading    \* what a reader has read of the catalog, and then of the disk

vars == <<row, vec, lex, blob, used, uploads, faults, pc, op, outcome, stored, reading>>

(***************************************************************************)
(* Rows.  `missing` is the MISSING_UPLOAD_BLOB_ERROR sentinel in the error *)
(* column; `ver` is the upload whose name and format the row describes.    *)
(***************************************************************************)
Status == {"pending", "ready", "failed", "degraded"}
Row    == [status : Status, ver : Version, missing : BOOLEAN]
NoRow  == [status |-> "none", ver |-> None, missing |-> FALSE]
Rows   == Row \cup {NoRow}

PendingRow(v) == [status |-> "pending", ver |-> v, missing |-> FALSE]

Chunks   == [Index -> Version \cup {None}]
NoChunks == [i \in Index |-> None]
Full(v)  == [i \in Index |-> IF i <= ChunkCount[v] THEN v ELSE None]

\* Record ids derive from the chunk index: an upsert overwrites its own
\* positions and leaves higher ones alone.
Overwrite(held, v) ==
    [i \in Index |-> IF i <= ChunkCount[v] THEN v ELSE held[i]]

(***************************************************************************)
(* Requests.                                                               *)
(***************************************************************************)
UploadPc == {"writePending", "embed", "vecDelete", "lexDelete", "vecUpsert",
             "lexUpsert", "putBlob", "writeReady", "failBlob", "failRow",
             "restore"}
DeletePc == {"delVec", "delLex", "delBlob", "delRow"}
Pc       == {"idle"} \cup UploadPc \cup DeletePc

Op == [kind   : {"none", "create", "replace", "delete"},
       doc    : Docs \cup {None},
       ver    : Version \cup {None},
       prev   : Rows]        \* the row replace read before it began

NewOp(kind, d, v, prev) == [kind |-> kind, doc |-> d, ver |-> v, prev |-> prev]
NoOp == NewOp("none", None, None, NoRow)

NotReading == [stage |-> "idle", doc |-> None, ver |-> None, bytes |-> None]
Reading    == [stage : {"idle", "row", "served"}, doc : Docs \cup {None},
               ver : Version \cup {None}, bytes : Version \cup {None}]

Init ==
    /\ row = [d \in Docs |-> NoRow]
    /\ vec = [d \in Docs |-> NoChunks]
    /\ lex = [d \in Docs |-> NoChunks]
    /\ blob = [d \in Docs |-> None]
    /\ used = {} /\ uploads = 0 /\ faults = 0
    /\ pc = [p \in Writers |-> "idle"]
    /\ op = [p \in Writers |-> NoOp]
    /\ outcome = [p \in Writers |-> "failed"]
    /\ stored = [p \in Writers |-> TRUE]
    /\ reading = [r \in Readers |-> NotReading]

Busy(d) == \E p \in Writers : pc[p] # "idle" /\ op[p].doc = d
MayBegin(d) == Overlap \/ ~Busy(d)

Fault == faults < MaxFaults /\ faults' = faults + 1
Goto(p, label) == pc' = [pc EXCEPT ![p] = label]
Begin(p, label, request) ==
    /\ Goto(p, label)
    /\ op' = [op EXCEPT ![p] = request]
    /\ UNCHANGED <<outcome, stored>>
Continue(p, label) ==
    /\ Goto(p, label)
    /\ UNCHANGED <<op, outcome, stored>>
\* Whatever comes out of create or replace, a row or any exception, ends the
\* request and is translated for the caller.
Finish(p) ==
    /\ Goto(p, "idle")
    /\ op' = [op EXCEPT ![p] = NoOp]
    /\ outcome' = [outcome EXCEPT ![p] = "failed"]
    /\ stored' = [stored EXCEPT ![p] = TRUE]

(***************************************************************************)
(* create and replace: begin by writing the pending row.  A refused size,  *)
(* an extraction error, an unknown document or a failed write of that row  *)
(* ends the request with nothing changed and is not a step.                *)
(***************************************************************************)
Create(p, d) ==
    /\ pc[p] = "idle" /\ d \notin used /\ row[d] = NoRow /\ MayBegin(d)
    /\ uploads < MaxVersion
    /\ uploads' = uploads + 1
    /\ used' = used \cup {d}
    /\ row' = [row EXCEPT ![d] = PendingRow(uploads + 1)]
    /\ Begin(p, "embed", NewOp("create", d, uploads + 1, NoRow))
    /\ UNCHANGED <<vec, lex, blob, faults, reading>>

\* Mutant of Replace: the guard on an unknown document is dropped.
Replace_Unguarded(p, d) ==
    /\ pc[p] = "idle" /\ d \in used /\ MayBegin(d)
    /\ uploads < MaxVersion
    /\ uploads' = uploads + 1
    /\ Begin(p, "writePending", NewOp("replace", d, uploads + 1, row[d]))
    /\ UNCHANGED <<row, vec, lex, blob, used, faults, reading>>

\* replace reads the previous row first; `writePending` is the second call.
Replace(p, d) ==
    /\ pc[p] = "idle" /\ row[d] # NoRow /\ MayBegin(d)
    /\ uploads < MaxVersion
    /\ uploads' = uploads + 1
    /\ Begin(p, "writePending", NewOp("replace", d, uploads + 1, row[d]))
    /\ UNCHANGED <<row, vec, lex, blob, used, faults, reading>>

WritePending(p) ==
    /\ pc[p] = "writePending"
    /\ \/ /\ row' = [row EXCEPT ![op[p].doc] = PendingRow(op[p].ver)]
          /\ Continue(p, "embed")
          /\ UNCHANGED faults
       \/ Fault /\ Finish(p) /\ UNCHANGED row
    /\ UNCHANGED <<vec, lex, blob, used, uploads, reading>>

(***************************************************************************)
(* Ingest: chunk and embed everything, then delete the source's chunks and *)
(* write the new ones, each in the vector store and then in its mirror.    *)
(***************************************************************************)
Embed(p) ==
    /\ pc[p] = "embed"
    /\ Continue(p, "vecDelete")
    /\ UNCHANGED <<row, vec, lex, blob, used, uploads, faults, reading>>

\* Mutant of FailIngest: replace restores the previous row whatever happened.
FailIngest_Restores(p, status) ==
    /\ outcome' = [outcome EXCEPT ![p] = status]
    /\ Goto(p, IF op[p].kind = "replace" THEN "restore" ELSE "failBlob")
    /\ UNCHANGED <<op, stored>>

\* Where a failed ingest goes, and the status it is going to record.
FailIngest(p, status) ==
    /\ outcome' = [outcome EXCEPT ![p] = status]
    /\ Goto(p, "failBlob")
    /\ UNCHANGED <<op, stored>>

\* Chunking, embedding or validation fails: no chunk has been touched.
EmbedFails(p) ==
    /\ pc[p] = "embed" /\ Fault
    /\ \/ op[p].kind = "create" /\ FailIngest(p, "failed")
       \/ op[p].kind = "replace" /\ Continue(p, "restore")
    /\ UNCHANGED <<row, vec, lex, blob, used, uploads, reading>>

\* The ingest pipeline itself cannot be built: an error outside its typed
\* failures, which replace takes for a mutation.
IngestNotBuilt(p) ==
    /\ pc[p] = "embed" /\ Fault
    /\ FailIngest(p, IF op[p].kind = "create" THEN "failed" ELSE "degraded")
    /\ UNCHANGED <<row, vec, lex, blob, used, uploads, reading>>

VecDelete(p) ==
    /\ pc[p] = "vecDelete"
    /\ \/ /\ vec' = [vec EXCEPT ![op[p].doc] = NoChunks]
          /\ Continue(p, "lexDelete")
          /\ UNCHANGED faults
       \/ Fault /\ FailIngest(p, "degraded") /\ UNCHANGED vec
    /\ UNCHANGED <<row, lex, blob, used, uploads, reading>>

\* Mutant of LexDelete: the mirror keeps the chunks of the previous upload.
LexDelete_Skipped(p) ==
    /\ pc[p] = "lexDelete"
    /\ Continue(p, "vecUpsert")
    /\ UNCHANGED <<row, vec, lex, blob, used, uploads, faults, reading>>

LexDelete(p) ==
    /\ pc[p] = "lexDelete"
    /\ lex' = [lex EXCEPT ![op[p].doc] = NoChunks]
    /\ Continue(p, "vecUpsert")
    /\ UNCHANGED <<row, vec, blob, used, uploads, faults, reading>>

\* The store restores what it held when its write fails; when that fails
\* too, the positions it was writing hold any part of the new chunks.
VecUpsert(p) ==
    /\ pc[p] = "vecUpsert"
    /\ LET d == op[p].doc
           v == op[p].ver
       IN \/ /\ vec' = [vec EXCEPT ![d] = Overwrite(vec[d], v)]
             /\ Continue(p, "lexUpsert")
             /\ UNCHANGED faults
          \/ /\ Fault /\ FailIngest(p, "degraded")
             /\ \/ UNCHANGED vec
                \/ \E kept \in SUBSET (1..ChunkCount[v]) :
                      vec' = [vec EXCEPT ![d] =
                                [i \in Index |-> IF i > ChunkCount[v] THEN vec[d][i]
                                                ELSE IF i \in kept THEN v ELSE None]]
    /\ UNCHANGED <<row, lex, blob, used, uploads, reading>>

LexUpsert(p) ==
    /\ pc[p] = "lexUpsert"
    /\ lex' = [lex EXCEPT ![op[p].doc] = Overwrite(lex[op[p].doc], op[p].ver)]
    /\ Continue(p, "putBlob")
    /\ UNCHANGED <<row, vec, blob, used, uploads, faults, reading>>

(***************************************************************************)
(* Success: the original bytes, then the ready row.  A failed put is       *)
(* recorded in the row; a failed row write strands the pending row.        *)
(***************************************************************************)
PutOriginal(p, label) ==
    /\ \/ /\ blob' = [blob EXCEPT ![op[p].doc] = op[p].ver]
          /\ stored' = [stored EXCEPT ![p] = TRUE]
          /\ UNCHANGED faults
       \/ /\ Fault
          /\ stored' = [stored EXCEPT ![p] = FALSE]
          /\ UNCHANGED blob
    /\ Goto(p, label)
    /\ UNCHANGED <<op, outcome>>

\* Write a row and end the request, or fail to and end it all the same.
RecordOutcome(p, final) ==
    /\ \/ row' = [row EXCEPT ![op[p].doc] = final] /\ UNCHANGED faults
       \/ Fault /\ UNCHANGED row
    /\ Finish(p)
    /\ UNCHANGED <<vec, lex, blob, used, uploads, reading>>

PutBlob(p) ==
    /\ pc[p] = "putBlob"
    /\ PutOriginal(p, "writeReady")
    /\ UNCHANGED <<row, vec, lex, used, uploads, reading>>

\* The processing profile the ready row needs cannot be read.
ProfileFails(p) ==
    /\ pc[p] = "putBlob" /\ Fault /\ Finish(p)
    /\ UNCHANGED <<row, vec, lex, blob, used, uploads, reading>>

\* Mutant of OutcomeRow: the row forgets that the original bytes could not
\* be stored.
OutcomeRow_NoSentinel(p, status) ==
    [status |-> status, ver |-> op[p].ver, missing |-> FALSE]

OutcomeRow(p, status) ==
    [status |-> status, ver |-> op[p].ver, missing |-> ~stored[p]]

WriteReady(p) ==
    /\ pc[p] = "writeReady"
    /\ RecordOutcome(p, OutcomeRow(p, "ready"))

(***************************************************************************)
(* Failure: either the previous row comes back, or the bytes and then the  *)
(* failed or degraded row are written.                                     *)
(***************************************************************************)
FailBlob(p) ==
    /\ pc[p] = "failBlob"
    /\ PutOriginal(p, "failRow")
    /\ UNCHANGED <<row, vec, lex, used, uploads, reading>>

FailRow(p) ==
    /\ pc[p] = "failRow"
    /\ RecordOutcome(p, OutcomeRow(p, outcome[p]))

RestorePrevious(p) ==
    /\ pc[p] = "restore"
    /\ RecordOutcome(p, op[p].prev)

(***************************************************************************)
(* delete: chunks, mirror, bytes, row.  The target need not be catalogued. *)
(***************************************************************************)
\* Mutant of Delete: an uncatalogued target is refused.
Delete_CataloguedOnly(p, d) ==
    /\ pc[p] = "idle" /\ row[d] # NoRow /\ MayBegin(d)
    /\ Begin(p, "delVec", NewOp("delete", d, None, NoRow))
    /\ UNCHANGED <<row, vec, lex, blob, used, uploads, faults, reading>>

Delete(p, d) ==
    /\ pc[p] = "idle" /\ d \in used /\ MayBegin(d)
    /\ Begin(p, "delVec", NewOp("delete", d, None, NoRow))
    /\ UNCHANGED <<row, vec, lex, blob, used, uploads, faults, reading>>

DelVec(p) ==
    /\ pc[p] = "delVec"
    /\ \/ /\ vec' = [vec EXCEPT ![op[p].doc] = NoChunks]
          /\ Continue(p, "delLex")
          /\ UNCHANGED faults
       \/ Fault /\ Finish(p) /\ UNCHANGED vec
    /\ UNCHANGED <<row, lex, blob, used, uploads, reading>>

DelLex(p) ==
    /\ pc[p] = "delLex"
    /\ lex' = [lex EXCEPT ![op[p].doc] = NoChunks]
    /\ Continue(p, "delBlob")
    /\ UNCHANGED <<row, vec, blob, used, uploads, faults, reading>>

\* Mutant of DelBlob: a failed unlink does not stop the delete.
DelBlob_Swallowed(p) ==
    /\ pc[p] = "delBlob"
    /\ \/ blob' = [blob EXCEPT ![op[p].doc] = None] /\ UNCHANGED faults
       \/ Fault /\ UNCHANGED blob
    /\ Continue(p, "delRow")
    /\ UNCHANGED <<row, vec, lex, used, uploads, reading>>

DelBlob(p) ==
    /\ pc[p] = "delBlob"
    /\ \/ /\ blob' = [blob EXCEPT ![op[p].doc] = None]
          /\ Continue(p, "delRow")
          /\ UNCHANGED faults
       \/ Fault /\ Finish(p) /\ UNCHANGED blob
    /\ UNCHANGED <<row, vec, lex, used, uploads, reading>>

DelRow(p) ==
    /\ pc[p] = "delRow"
    /\ RecordOutcome(p, NoRow)

(***************************************************************************)
(* Download or preview: the row decides whether and under which name and   *)
(* media type the bytes are served; the bytes are read afterwards.         *)
(***************************************************************************)
Servable(r) == r # NoRow /\ r.status # "pending" /\ ~r.missing

ReadRow(r, d) ==
    /\ reading[r].stage # "row" /\ Servable(row[d])
    /\ reading' = [reading EXCEPT ![r] = [stage |-> "row", doc |-> d,
                                          ver |-> row[d].ver, bytes |-> None]]
    /\ UNCHANGED <<row, vec, lex, blob, used, uploads, faults, pc, op, outcome, stored>>

ReadBlob(r) ==
    /\ reading[r].stage = "row"
    /\ LET seen == reading[r]
       IN reading' = [reading EXCEPT ![r] = [stage |-> "served", doc |-> seen.doc,
                                       ver |-> seen.ver, bytes |-> blob[seen.doc]]]
    /\ UNCHANGED <<row, vec, lex, blob, used, uploads, faults, pc, op, outcome, stored>>

(***************************************************************************)
(* The process dies and starts again: requests are gone and the mirror is  *)
(* built from the vector store.                                            *)
(***************************************************************************)
Crash ==
    /\ Fault
    /\ pc' = [p \in Writers |-> "idle"]
    /\ op' = [p \in Writers |-> NoOp]
    /\ outcome' = [p \in Writers |-> "failed"]
    /\ stored' = [p \in Writers |-> TRUE]
    /\ reading' = [r \in Readers |-> NotReading]
    /\ lex' = vec
    /\ UNCHANGED <<row, vec, blob, used, uploads>>

StoreCall(p) ==
    \/ WritePending(p) \/ Embed(p) \/ EmbedFails(p) \/ IngestNotBuilt(p)
    \/ VecDelete(p) \/ LexDelete(p) \/ VecUpsert(p) \/ LexUpsert(p)
    \/ PutBlob(p) \/ ProfileFails(p) \/ WriteReady(p)
    \/ FailBlob(p) \/ FailRow(p) \/ RestorePrevious(p)
    \/ DelVec(p) \/ DelLex(p) \/ DelBlob(p) \/ DelRow(p)

Request(p) == \E d \in Docs : Create(p, d) \/ Replace(p, d) \/ Delete(p, d)

Next ==
    \/ \E p \in Writers : Request(p) \/ StoreCall(p)
    \/ \E r \in Readers : ReadBlob(r) \/ \E d \in Docs : ReadRow(r, d)
    \/ Crash

Spec == Init /\ [][Next]_vars

(***************************************************************************)
(* Fairness.  The pool runs every request it has taken.  An operator who   *)
(* wants a document gone asks again for as long as asking is possible; the *)
(* failure message of delete tells the operator to.                        *)
(***************************************************************************)
PoolFairness   == \A p \in Writers : WF_vars(StoreCall(p))
RetriedDeletes == \A d \in Docs : SF_vars(\E p \in Writers : Delete(p, d))
RetrySpec      == Spec /\ PoolFairness /\ RetriedDeletes

(***************************************************************************)
(* Properties.                                                             *)
(***************************************************************************)
TypeOK ==
    /\ row \in [Docs -> Rows]
    /\ vec \in [Docs -> Chunks]
    /\ lex \in [Docs -> Chunks]
    /\ blob \in [Docs -> Version \cup {None}]
    /\ used \in SUBSET Docs
    /\ uploads \in 0..MaxVersion
    /\ faults \in 0..MaxFaults
    /\ pc \in [Writers -> Pc]
    /\ op \in [Writers -> Op]
    /\ outcome \in [Writers -> {"failed", "degraded"}]
    /\ stored \in [Writers -> BOOLEAN]
    /\ reading \in [Readers -> Reading]

Searchable(d) == vec[d] # NoChunks

\* A ready row describes the chunks that are searchable: all of its own
\* upload and nothing of another, or nothing at all once a delete has begun.
\* (Rows restored after a failed replace are the hard case.)
ReadyIsWhole ==
    \A d \in Docs : row[d].status = "ready" =>
        vec[d] \in {Full(row[d].ver), NoChunks}

\* Chunks an upload may have written stay visible: a failed row never has
\* any, and a document without a row has neither chunks nor bytes.
NothingHidden ==
    \A d \in Docs :
        /\ row[d].status = "failed" => ~Searchable(d)
        /\ row[d] = NoRow => ~Searchable(d) /\ lex[d] = NoChunks /\ blob[d] = None

\* Between requests the lexical mirror of a ready or failed document equals
\* the vector store, whatever failed on the way.
MirrorInSync ==
    \A d \in Docs :
        ~Busy(d) /\ row[d].status \in {"ready", "failed"} => lex[d] = vec[d]

\* Bytes served under a row's name and media type are never older than the
\* upload that row describes.
NoStaleBytes ==
    \A r \in Readers :
        reading[r].stage = "served" =>
            reading[r].bytes = None \/ reading[r].bytes >= reading[r].ver

\* A document that has been deleted does not come back, whatever fails between
\* the store calls of one request at a time (delete, and the row that
\* _recover_replace restores).
StaysDeleted ==
    [][\A d \in Docs : d \in used /\ row[d] = NoRow => row'[d] = NoRow]_vars

Gone(d) == row[d] = NoRow /\ ~Searchable(d) /\ lex[d] = NoChunks /\ blob[d] = None

\* Retrying a delete removes every trace of the document in the end, however
\* requests overlapped and whatever failed before.
DeleteConverges == \A d \in Docs : <>[](d \in used => Gone(d))

=============================================================================
