----------------------- MODULE DocumentLifecycle_proofs -----------------------
(***************************************************************************)
(* What DocumentLifecycle promises for every number of documents, writers, *)
(* readers, uploads and failures, as long as requests that write the same  *)
(* document do not overlap (Overlap = FALSE); type correctness needs no    *)
(* such assumption.                                                        *)
(*                                                                         *)
(* And what the text of a document goes through: how it is cut into chunks *)
(* (Chunking), for every text and size of a chunk, and how chunks are      *)
(* found again (Retrieval), for all scores, limits and settings.           *)
(***************************************************************************)
EXTENDS DocumentLifecycle, KnowledgeFlow, FiniteSetTheorems, SequenceTheorems,
        WellFoundedInduction, TLAPS

Active(p)    == pc[p] # "idle"
Uploading(p) == pc[p] \in UploadPc
Deleting(p)  == pc[p] \in DeletePc

\* A request in flight knows its document, and an upload its version.
OpOK ==
    \A p \in Writers :
        /\ Active(p) => op[p].doc \in Docs
        /\ Uploading(p) => /\ op[p].ver \in 1..uploads
                           /\ op[p].kind \in {"create", "replace"}
                           /\ op[p].prev.ver < op[p].ver
        /\ op[p].kind = "create" => op[p].prev = NoRow

\* No row is newer than the last upload.
RowsOK == \A d \in Docs : row[d].ver <= uploads

\* Requests in flight write different documents.
Exclusive ==
    \A p, q \in Writers :
        p # q /\ Active(p) /\ Active(q) => op[p].doc # op[q].doc

BytesOK(d, r) ==
    /\ r = NoRow => blob[d] = None
    /\ Servable(r) => blob[d] \in {r.ver, None}

\* What the stores hold for document d when its row is r and nothing runs.
Intact(d, r) ==
    /\ r = NoRow => vec[d] = NoChunks
    /\ r.status = "ready" => vec[d] \in {Full(r.ver), NoChunks}
    /\ r.status = "failed" => vec[d] = NoChunks
    /\ r = NoRow \/ r.status \in {"ready", "failed"} => lex[d] = vec[d]
    /\ BytesOK(d, r)

Settled == \A d \in Docs : ~Busy(d) => Intact(d, row[d])

\* What the stores hold while request p runs.
UploadProgress(p) ==
    LET d == op[p].doc
        v == op[p].ver
    IN /\ pc[p] = "writePending" => Intact(d, row[d]) /\ op[p].prev = row[d]
       /\ pc[p] \in UploadPc \ {"writePending"} => row[d] = PendingRow(v)
       /\ pc[p] \in {"embed", "vecDelete", "restore"} => Intact(d, op[p].prev)
       /\ pc[p] \in {"failBlob", "failRow"} /\ outcome[p] = "failed"
            => vec[d] = NoChunks /\ lex[d] = NoChunks
       /\ pc[p] \in {"lexDelete", "vecUpsert"} => vec[d] = NoChunks
       /\ pc[p] \in {"vecUpsert", "lexUpsert"} => lex[d] = NoChunks
       /\ pc[p] \in {"lexUpsert", "putBlob", "writeReady"} => vec[d] = Full(v)
       /\ pc[p] \in {"putBlob", "writeReady"} => lex[d] = vec[d]
       /\ pc[p] \in {"writeReady", "failRow"} /\ stored[p] => blob[d] = v

DeleteProgress(p) ==
    LET d == op[p].doc
    IN /\ pc[p] = "delVec" => Intact(d, row[d])
       /\ pc[p] \in {"delLex", "delBlob", "delRow"} =>
            /\ vec[d] = NoChunks
            /\ row[d] = NoRow => lex[d] = NoChunks
            /\ BytesOK(d, row[d])
       /\ pc[p] \in {"delBlob", "delRow"} => lex[d] = NoChunks
       /\ pc[p] = "delRow" => blob[d] = None

Progress ==
    \A p \in Writers :
        /\ Uploading(p) => UploadProgress(p)
        /\ Deleting(p)  => DeleteProgress(p)

\* Between a reader's two reads the bytes only become newer, or vanish.
ReadersOK ==
    \A r \in Readers : reading[r].stage = "row" =>
        /\ reading[r].ver <= uploads
        /\ blob[reading[r].doc] = None \/ blob[reading[r].doc] >= reading[r].ver
        /\ \A p \in Writers : Uploading(p) /\ op[p].doc = reading[r].doc
                                => op[p].ver > reading[r].ver

-----------------------------------------------------------------------------
(***************************************************************************)
(* Type correctness.                                                       *)
(***************************************************************************)
\* A reader between its two reads knows its document.
ReadingOK ==
    \A r \in Readers : reading[r].stage = "row" => reading[r].doc \in Docs

TInv == TypeOK /\ OpOK /\ RowsOK /\ ReadingOK

LEMMA PcSets ==
    /\ UploadPc \subseteq Pc /\ DeletePc \subseteq Pc /\ "idle" \in Pc
    /\ "idle" \notin UploadPc /\ "idle" \notin DeletePc
    /\ Pc = {"idle"} \cup UploadPc \cup DeletePc
    /\ UploadPc \cap DeletePc = {}
    /\ "writePending" \in UploadPc /\ "embed" \in UploadPc /\ "vecDelete" \in UploadPc
    /\ "lexDelete" \in UploadPc /\ "vecUpsert" \in UploadPc /\ "lexUpsert" \in UploadPc
    /\ "putBlob" \in UploadPc /\ "writeReady" \in UploadPc /\ "failBlob" \in UploadPc
    /\ "failRow" \in UploadPc /\ "restore" \in UploadPc
    /\ "delVec" \in DeletePc /\ "delLex" \in DeletePc
    /\ "delBlob" \in DeletePc /\ "delRow" \in DeletePc
BY DEF Pc, UploadPc, DeletePc

\* The chunk vectors the stores are written with are chunk vectors.
LEMMA ChunkTypes ==
    /\ NoChunks \in Chunks
    /\ \A v \in Version : Full(v) \in Chunks
    /\ \A c \in Chunks, v \in Version : Overwrite(c, v) \in Chunks
    /\ \A v \in Version : Overwrite(NoChunks, v) = Full(v)
BY DEF NoChunks, Chunks, Full, Overwrite

LEMMA RowTypes ==
    /\ NoRow \in Rows /\ NoRow.ver = 0 /\ NoOp \in Op /\ NoOp.prev = NoRow
    /\ \A v \in Version : PendingRow(v) \in Rows /\ PendingRow(v).ver = v
    /\ \A r \in Rows : r.ver \in 0..MaxVersion
    /\ \A r \in Rows : r # NoRow => r.ver \in Version
BY ConstantAssumption DEF NoRow, Rows, NoOp, NewOp, Op, PendingRow, Row, Status, None,
   Version

LEMMA TInit == Init => TInv
BY ConstantAssumption, PcSets, ChunkTypes, RowTypes
   DEF Init, TInv, TypeOK, OpOK, RowsOK, ReadingOK, Active, Uploading, NotReading, Reading, None,
       NoOp, NewOp, Version

\* The control part of TInv: what the writers' own variables hold.
ControlOK ==
    /\ pc \in [Writers -> Pc] /\ op \in [Writers -> Op]
    /\ outcome \in [Writers -> {"failed", "degraded"}]
    /\ stored \in [Writers -> BOOLEAN]
    /\ OpOK

\* The store part: what the four stores, the readers and the counters hold.
StoresOK ==
    /\ row \in [Docs -> Rows] /\ vec \in [Docs -> Chunks] /\ lex \in [Docs -> Chunks]
    /\ blob \in [Docs -> Version \cup {None}] /\ used \in SUBSET Docs
    /\ uploads \in 0..MaxVersion /\ faults \in 0..MaxFaults
    /\ reading \in [Readers -> Reading]
    /\ RowsOK /\ ReadingOK

LEMMA TInvParts == TInv <=> ControlOK /\ StoresOK
BY DEF TInv, TypeOK, ControlOK, StoresOK

LEMMA FinishControl ==
    ASSUME ControlOK, NEW p \in Writers, Finish(p), UNCHANGED uploads
    PROVE  ControlOK'
BY PcSets, RowTypes DEF Finish, Goto, ControlOK, OpOK, Active, Uploading, NoOp, NewOp

LEMMA ContinueControl ==
    ASSUME ControlOK, NEW p \in Writers, NEW label \in Pc, Continue(p, label),
           label \in UploadPc => Uploading(p), Active(p), UNCHANGED uploads
    PROVE  ControlOK'
BY PcSets DEF Continue, Goto, ControlOK, OpOK, Active, Uploading

LEMMA FailControl ==
    ASSUME ControlOK, NEW p \in Writers, Uploading(p), UNCHANGED uploads,
           NEW status \in {"failed", "degraded"}, FailIngest(p, status)
    PROVE  ControlOK'
BY PcSets DEF FailIngest, Goto, ControlOK, OpOK, Active, Uploading

LEMMA PutControl ==
    ASSUME ControlOK, NEW p \in Writers, Uploading(p), UNCHANGED uploads,
           NEW label \in UploadPc, PutOriginal(p, label)
    PROVE  ControlOK'
<1>1. stored' \in [Writers -> BOOLEAN]
  BY DEF PutOriginal, ControlOK
<1> QED
  BY <1>1, PcSets DEF PutOriginal, Goto, ControlOK, OpOK, Active, Uploading

\* What a writer in flight knows of its own request.
LEMMA OwnRequest ==
    ASSUME ControlOK, StoresOK, NEW p \in Writers
    PROVE  /\ Active(p) => op[p].doc \in Docs
           /\ Uploading(p) => /\ Active(p)
                              /\ op[p].ver \in 1..uploads /\ op[p].ver \in Version
                              /\ op[p].prev \in Rows /\ op[p].prev.ver < op[p].ver
                              /\ op[p].kind \in {"create", "replace"}
           /\ Deleting(p) => Active(p)
BY ConstantAssumption, PcSets
   DEF ControlOK, StoresOK, OpOK, Op, Active, Uploading, Deleting, Version

\* Writing a row no newer than the last upload keeps the rows well formed.
LEMMA RowWrite ==
    ASSUME StoresOK, NEW d \in Docs, NEW r \in Rows, r.ver <= uploads,
           UNCHANGED uploads, row' = [row EXCEPT ![d] = r] \/ UNCHANGED row
    PROVE  row' \in [Docs -> Rows] /\ RowsOK'
BY DEF StoresOK, RowsOK

LEMMA ChunkWrite ==
    ASSUME StoresOK, NEW d \in Docs, NEW c \in Chunks,
           vec' = [vec EXCEPT ![d] = c] \/ UNCHANGED vec
    PROVE  vec' \in [Docs -> Chunks]
BY DEF StoresOK

LEMMA TNext == TInv /\ [Next]_vars => TInv'
<1> SUFFICES ASSUME ControlOK, StoresOK, [Next]_vars PROVE ControlOK' /\ StoresOK'
  <2>1. TInv' <=> ControlOK' /\ StoresOK'
    BY DEF TInv, TypeOK, ControlOK, StoresOK
  <2> QED
    BY <2>1, TInvParts
<1> USE ConstantAssumption, PcSets, ChunkTypes, RowTypes DEF None
<1>1. ASSUME NEW p \in Writers, NEW d \in Docs, Create(p, d)
      PROVE  ControlOK' /\ StoresOK'
  <2>1. uploads + 1 \in Version
    BY <1>1 DEF Create, Version, StoresOK
  <2>2. NewOp("create", d, uploads + 1, NoRow) \in Op
    BY <2>1 DEF NewOp, Op, StoresOK
  <2>3. ControlOK'
    BY <1>1, <2>1, <2>2 DEF Create, Begin, NewOp, Goto, ControlOK, StoresOK, OpOK,
       RowsOK, ReadingOK, Active, Uploading
  <2>4. StoresOK'
    BY <1>1, <2>1 DEF Create, StoresOK, RowsOK, ReadingOK
  <2> QED
    BY <2>3, <2>4
<1>2. ASSUME NEW p \in Writers, NEW d \in Docs, Replace(p, d)
      PROVE  ControlOK' /\ StoresOK'
  <2>1. uploads + 1 \in Version
    BY <1>2 DEF Replace, Version, StoresOK
  <2>2. NewOp("replace", d, uploads + 1, row[d]) \in Op
    BY <2>1 DEF NewOp, Op, StoresOK
  <2>3. ControlOK'
    BY <1>2, <2>1, <2>2 DEF Replace, Begin, NewOp, Goto, ControlOK, StoresOK, OpOK,
       RowsOK, ReadingOK, Active, Uploading
  <2>4. StoresOK'
    BY <1>2, <2>1 DEF Replace, StoresOK, RowsOK, ReadingOK
  <2> QED
    BY <2>3, <2>4
<1>3. ASSUME NEW p \in Writers, NEW d \in Docs, Delete(p, d)
      PROVE  ControlOK' /\ StoresOK'
  <2>2. NewOp("delete", d, None, NoRow) \in Op
    BY DEF NewOp, Op
  <2>3. ControlOK'
    BY <1>3, <2>2 DEF Delete, Begin, NewOp, Goto, ControlOK, StoresOK, OpOK, RowsOK,
       ReadingOK, Active, Uploading
  <2>4. StoresOK'
    BY <1>3 DEF Delete, StoresOK, RowsOK, ReadingOK
  <2> QED
    BY <2>3, <2>4
<1>4. ASSUME NEW p \in Writers, WritePending(p)
      PROVE  ControlOK' /\ StoresOK'
  <2>1. Uploading(p)
    BY <1>4 DEF WritePending, Uploading
  <2>2. ControlOK'
    BY <1>4, <2>1, OwnRequest, ContinueControl, FinishControl DEF WritePending
  <2>3. faults' \in 0..MaxFaults
    BY <1>4 DEF WritePending, Fault, StoresOK
  <2>4. row' \in [Docs -> Rows] /\ RowsOK'
    <3>1. PendingRow(op[p].ver) \in Rows /\ PendingRow(op[p].ver).ver <= uploads
      BY <2>1, OwnRequest DEF StoresOK
    <3> QED
      BY <1>4, <2>1, <3>1, OwnRequest, RowWrite DEF WritePending
  <2> QED
    BY <1>4, <2>2, <2>3, <2>4 DEF WritePending, StoresOK, RowsOK, ReadingOK
<1>5. ASSUME NEW p \in Writers, Embed(p)
      PROVE  ControlOK' /\ StoresOK'
  <2>1. Uploading(p)
    BY <1>5 DEF Embed, Uploading
  <2>2. ControlOK'
    BY <1>5, <2>1, OwnRequest, ContinueControl DEF Embed
  <2>3. StoresOK'
    BY <1>5, <2>1, OwnRequest DEF Embed, Fault, StoresOK, RowsOK, ReadingOK
  <2> QED
    BY <2>2, <2>3
<1>6. ASSUME NEW p \in Writers, EmbedFails(p)
      PROVE  ControlOK' /\ StoresOK'
  <2>1. Uploading(p)
    BY <1>6 DEF EmbedFails, Uploading
  <2>2. ControlOK'
    BY <1>6, <2>1, OwnRequest, ContinueControl, FailControl DEF EmbedFails
  <2>3. StoresOK'
    BY <1>6, <2>1, OwnRequest DEF EmbedFails, Fault, StoresOK, RowsOK, ReadingOK
  <2> QED
    BY <2>2, <2>3
<1>7. ASSUME NEW p \in Writers, IngestNotBuilt(p)
      PROVE  ControlOK' /\ StoresOK'
  <2>1. Uploading(p)
    BY <1>7 DEF IngestNotBuilt, Uploading
  <2>2. ControlOK'
    BY <1>7, <2>1, OwnRequest, FailControl DEF IngestNotBuilt
  <2>3. StoresOK'
    BY <1>7, <2>1, OwnRequest DEF IngestNotBuilt, Fault, StoresOK, RowsOK, ReadingOK
  <2> QED
    BY <2>2, <2>3
<1>8. ASSUME NEW p \in Writers, VecDelete(p)
      PROVE  ControlOK' /\ StoresOK'
  <2>1. Uploading(p)
    BY <1>8 DEF VecDelete, Uploading
  <2>2. ControlOK'
    BY <1>8, <2>1, OwnRequest, ContinueControl, FailControl DEF VecDelete
  <2>3. faults' \in 0..MaxFaults
    BY <1>8 DEF VecDelete, Fault, StoresOK
  <2>4. vec' \in [Docs -> Chunks]
    BY <1>8, <2>1, OwnRequest, ChunkWrite DEF VecDelete
  <2> QED
    BY <1>8, <2>2, <2>3, <2>4 DEF VecDelete, StoresOK, RowsOK, ReadingOK
<1>9. ASSUME NEW p \in Writers, LexDelete(p)
      PROVE  ControlOK' /\ StoresOK'
  <2>1. Uploading(p)
    BY <1>9 DEF LexDelete, Uploading
  <2>2. ControlOK'
    BY <1>9, <2>1, OwnRequest, ContinueControl DEF LexDelete
  <2>3. StoresOK'
    BY <1>9, <2>1, OwnRequest DEF LexDelete, Fault, StoresOK, RowsOK, ReadingOK
  <2> QED
    BY <2>2, <2>3
<1>10. ASSUME NEW p \in Writers, VecUpsert(p)
      PROVE  ControlOK' /\ StoresOK'
  <2>1. Uploading(p)
    BY <1>10 DEF VecUpsert, Uploading
  <2>2. ControlOK'
    BY <1>10, <2>1, OwnRequest, ContinueControl, FailControl DEF VecUpsert
  <2>3. vec' \in [Docs -> Chunks]
    <3> DEFINE d == op[p].doc
               v == op[p].ver
    <3>1. vec[d] \in Chunks /\ d \in Docs /\ v \in Version
      BY <2>1, OwnRequest DEF StoresOK
    <3>2. ASSUME NEW kept \in SUBSET (1..ChunkCount[v])
          PROVE  [i \in Index |-> IF i > ChunkCount[v] THEN vec[d][i]
                                 ELSE IF i \in kept THEN v ELSE None] \in Chunks
      BY <3>1 DEF Chunks
    <3>3. CASE vec' = [vec EXCEPT ![d] = Overwrite(vec[d], v)]
      BY <3>1, <3>3 DEF StoresOK
    <3>4. CASE UNCHANGED vec
      BY <3>4 DEF StoresOK
    <3>5. ASSUME NEW kept \in SUBSET (1..ChunkCount[v]),
                 vec' = [vec EXCEPT ![d] =
                           [i \in Index |-> IF i > ChunkCount[v] THEN vec[d][i]
                                           ELSE IF i \in kept THEN v ELSE None]]
          PROVE  vec' \in [Docs -> Chunks]
      BY <3>2, <3>5 DEF StoresOK
    <3> QED
      BY <1>10, <3>3, <3>4, <3>5 DEF VecUpsert
  <2>4. faults' \in 0..MaxFaults
    BY <1>10 DEF VecUpsert, Fault, StoresOK
  <2> QED
    BY <1>10, <2>2, <2>3, <2>4 DEF VecUpsert, StoresOK, RowsOK, ReadingOK
<1>11. ASSUME NEW p \in Writers, LexUpsert(p)
      PROVE  ControlOK' /\ StoresOK'
  <2>1. Uploading(p)
    BY <1>11 DEF LexUpsert, Uploading
  <2>2. ControlOK'
    BY <1>11, <2>1, OwnRequest, ContinueControl DEF LexUpsert
  <2>3. StoresOK'
    BY <1>11, <2>1, OwnRequest DEF LexUpsert, Fault, StoresOK, RowsOK, ReadingOK
  <2> QED
    BY <2>2, <2>3
<1>12. ASSUME NEW p \in Writers, PutBlob(p)
      PROVE  ControlOK' /\ StoresOK'
  <2>1. Uploading(p)
    BY <1>12 DEF PutBlob, Uploading
  <2>2. ControlOK'
    BY <1>12, <2>1, OwnRequest, PutControl DEF PutBlob
  <2>3. StoresOK'
    BY <1>12, <2>1, OwnRequest DEF PutBlob, PutOriginal, Fault, StoresOK, RowsOK, ReadingOK
  <2> QED
    BY <2>2, <2>3
<1>13. ASSUME NEW p \in Writers, ProfileFails(p)
      PROVE  ControlOK' /\ StoresOK'
  <2>1. Uploading(p)
    BY <1>13 DEF ProfileFails, Uploading
  <2>2. ControlOK'
    BY <1>13, <2>1, OwnRequest, FinishControl DEF ProfileFails
  <2>3. StoresOK'
    BY <1>13, <2>1, OwnRequest DEF ProfileFails, Fault, StoresOK, RowsOK, ReadingOK
  <2> QED
    BY <2>2, <2>3
<1>14. ASSUME NEW p \in Writers, WriteReady(p)
      PROVE  ControlOK' /\ StoresOK'
  <2>1. Uploading(p)
    BY <1>14 DEF WriteReady, Uploading
  <2>2. ControlOK'
    BY <1>14, <2>1, OwnRequest, FinishControl DEF WriteReady, RecordOutcome
  <2>3. OutcomeRow(p, "ready") \in Rows /\ OutcomeRow(p, "ready").ver = op[p].ver
    BY <2>1, OwnRequest DEF OutcomeRow, Rows, Row, Status, ControlOK
  <2>4. faults' \in 0..MaxFaults
    BY <1>14 DEF WriteReady, RecordOutcome, Fault, StoresOK
  <2>5. row' \in [Docs -> Rows] /\ RowsOK'
    <3>1. OutcomeRow(p, "ready").ver <= uploads
      BY <2>1, <2>3, OwnRequest
    <3> QED
      BY <1>14, <2>1, <2>3, <3>1, OwnRequest, RowWrite DEF WriteReady, RecordOutcome
  <2> QED
    BY <1>14, <2>2, <2>4, <2>5 DEF WriteReady, RecordOutcome, StoresOK, ReadingOK
<1>15. ASSUME NEW p \in Writers, FailBlob(p)
      PROVE  ControlOK' /\ StoresOK'
  <2>1. Uploading(p)
    BY <1>15 DEF FailBlob, Uploading
  <2>2. ControlOK'
    BY <1>15, <2>1, OwnRequest, PutControl DEF FailBlob
  <2>3. StoresOK'
    BY <1>15, <2>1, OwnRequest DEF FailBlob, PutOriginal, Fault, StoresOK, RowsOK, ReadingOK
  <2> QED
    BY <2>2, <2>3
<1>16. ASSUME NEW p \in Writers, FailRow(p)
      PROVE  ControlOK' /\ StoresOK'
  <2>1. Uploading(p)
    BY <1>16 DEF FailRow, Uploading
  <2>2. ControlOK'
    BY <1>16, <2>1, OwnRequest, FinishControl DEF FailRow, RecordOutcome
  <2>3. OutcomeRow(p, outcome[p]) \in Rows /\ OutcomeRow(p, outcome[p]).ver = op[p].ver
    BY <2>1, OwnRequest DEF OutcomeRow, Rows, Row, Status, ControlOK
  <2>4. faults' \in 0..MaxFaults
    BY <1>16 DEF FailRow, RecordOutcome, Fault, StoresOK
  <2>5. row' \in [Docs -> Rows] /\ RowsOK'
    <3>1. OutcomeRow(p, outcome[p]).ver <= uploads
      BY <2>1, <2>3, OwnRequest
    <3> QED
      BY <1>16, <2>1, <2>3, <3>1, OwnRequest, RowWrite DEF FailRow, RecordOutcome
  <2> QED
    BY <1>16, <2>2, <2>4, <2>5 DEF FailRow, RecordOutcome, StoresOK, ReadingOK
<1>17. ASSUME NEW p \in Writers, RestorePrevious(p)
      PROVE  ControlOK' /\ StoresOK'
  <2>1. Uploading(p)
    BY <1>17 DEF RestorePrevious, Uploading
  <2>2. ControlOK'
    BY <1>17, <2>1, OwnRequest, FinishControl DEF RestorePrevious, RecordOutcome
  <2>3. faults' \in 0..MaxFaults
    BY <1>17 DEF RestorePrevious, RecordOutcome, Fault, StoresOK
  <2>4. row' \in [Docs -> Rows] /\ RowsOK'
    <3>1. op[p].prev \in Rows /\ op[p].prev.ver <= uploads
      BY <2>1, OwnRequest DEF StoresOK
    <3> QED
      BY <1>17, <2>1, <3>1, OwnRequest, RowWrite DEF RestorePrevious, RecordOutcome
  <2> QED
    BY <1>17, <2>2, <2>3, <2>4 DEF RestorePrevious, RecordOutcome, StoresOK, RowsOK,
       ReadingOK
<1>18. ASSUME NEW p \in Writers, DelVec(p)
      PROVE  ControlOK' /\ StoresOK'
  <2>1. Deleting(p)
    BY <1>18 DEF DelVec, Deleting
  <2>2. ControlOK'
    BY <1>18, <2>1, OwnRequest, ContinueControl, FinishControl DEF DelVec
  <2>3. faults' \in 0..MaxFaults
    BY <1>18 DEF DelVec, Fault, StoresOK
  <2>4. vec' \in [Docs -> Chunks]
    BY <1>18, <2>1, OwnRequest, ChunkWrite DEF DelVec
  <2> QED
    BY <1>18, <2>2, <2>3, <2>4 DEF DelVec, StoresOK, RowsOK, ReadingOK
<1>19. ASSUME NEW p \in Writers, DelLex(p)
      PROVE  ControlOK' /\ StoresOK'
  <2>1. Deleting(p)
    BY <1>19 DEF DelLex, Deleting
  <2>2. ControlOK'
    BY <1>19, <2>1, OwnRequest, ContinueControl DEF DelLex
  <2>3. StoresOK'
    BY <1>19, <2>1, OwnRequest DEF DelLex, Fault, StoresOK, RowsOK, ReadingOK
  <2> QED
    BY <2>2, <2>3
<1>20. ASSUME NEW p \in Writers, DelBlob(p)
      PROVE  ControlOK' /\ StoresOK'
  <2>1. Deleting(p)
    BY <1>20 DEF DelBlob, Deleting
  <2>2. ControlOK'
    BY <1>20, <2>1, OwnRequest, ContinueControl, FinishControl DEF DelBlob
  <2>3. faults' \in 0..MaxFaults
    BY <1>20 DEF DelBlob, Fault, StoresOK
  <2>4. blob' \in [Docs -> Version \cup {None}]
    BY <1>20, <2>1, OwnRequest DEF DelBlob, StoresOK, RowsOK
  <2> QED
    BY <1>20, <2>2, <2>3, <2>4 DEF DelBlob, StoresOK, RowsOK, ReadingOK
<1>21. ASSUME NEW p \in Writers, DelRow(p)
      PROVE  ControlOK' /\ StoresOK'
  <2>1. Deleting(p)
    BY <1>21 DEF DelRow, Deleting
  <2>2. ControlOK'
    BY <1>21, <2>1, OwnRequest, FinishControl DEF DelRow, RecordOutcome
  <2>3. faults' \in 0..MaxFaults
    BY <1>21 DEF DelRow, RecordOutcome, Fault, StoresOK
  <2>4. row' \in [Docs -> Rows] /\ RowsOK'
    <3>1. NoRow \in Rows /\ NoRow.ver <= uploads
      BY <2>1, OwnRequest DEF StoresOK
    <3> QED
      BY <1>21, <2>1, <3>1, OwnRequest, RowWrite DEF DelRow, RecordOutcome
  <2> QED
    BY <1>21, <2>2, <2>3, <2>4 DEF DelRow, RecordOutcome, StoresOK, RowsOK, ReadingOK
<1>22. ASSUME NEW r \in Readers, NEW d \in Docs, ReadRow(r, d)
      PROVE  ControlOK' /\ StoresOK'
  BY <1>22 DEF ReadRow, ControlOK, StoresOK, OpOK, RowsOK, ReadingOK, Active, Uploading,
     Reading, Servable
<1>23. ASSUME NEW r \in Readers, ReadBlob(r)
      PROVE  ControlOK' /\ StoresOK'
  <2>1. blob[reading[r].doc] \in Version \cup {None}
    BY <1>23 DEF ReadBlob, StoresOK, ReadingOK
  <2> QED
    BY <1>23, <2>1 DEF ReadBlob, ControlOK, StoresOK, OpOK, RowsOK, ReadingOK, Active,
       Uploading, Reading
<1>24. ASSUME Crash PROVE ControlOK' /\ StoresOK'
  BY <1>24 DEF Crash, Fault, ControlOK, StoresOK, OpOK, RowsOK, ReadingOK, Active,
     Uploading, Reading, NotReading, NoOp, NewOp
<1>25. ASSUME UNCHANGED vars PROVE ControlOK' /\ StoresOK'
  BY <1>25 DEF vars, ControlOK, StoresOK, OpOK, RowsOK, ReadingOK, Active, Uploading
<1> QED
  BY <1>1, <1>2, <1>3, <1>4, <1>5, <1>6, <1>7, <1>8, <1>9, <1>10, <1>11, <1>12, <1>13,
     <1>14, <1>15, <1>16, <1>17, <1>18, <1>19, <1>20, <1>21, <1>22, <1>23, <1>24,
     <1>25 DEF Next, Request, StoreCall

\* Every store holds a value of its type in every reachable state.
THEOREM TypeCorrect == Spec => []TypeOK
<1>1. TInv => TypeOK
  BY DEF TInv
<1> QED
  BY TInit, TNext, <1>1, PTL DEF Spec

-----------------------------------------------------------------------------
(***************************************************************************)
(* Consistency of the four stores when requests on one document do not     *)
(* overlap.  Each action touches one document and one writer, so it is     *)
(* enough to look at these two; the Frame lemma carries the others over.   *)
(***************************************************************************)
IInv == /\ TInv /\ Exclusive
        /\ Settled /\ Progress /\ ReadersOK /\ NoStaleBytes

\* What must hold for writer p and document d after a step of p on d.
Local(p, d) ==
    \/ pc[p] = "idle" /\ Intact(d, row[d])
    \/ /\ Active(p) /\ op[p].doc = d
       /\ Uploading(p) => UploadProgress(p)
       /\ Deleting(p) => DeleteProgress(p)

\* A step of p on d leaves the other documents and writers alone.
OthersUntouched(p, d) ==
    /\ \A e \in Docs \ {d} : /\ row'[e] = row[e] /\ vec'[e] = vec[e]
                              /\ lex'[e] = lex[e] /\ blob'[e] = blob[e]
    /\ \A q \in Writers \ {p} : /\ pc'[q] = pc[q] /\ op'[q] = op[q]
                                 /\ outcome'[q] = outcome[q] /\ stored'[q] = stored[q]

LEMMA Frame ==
    ASSUME IInv, NEW p \in Writers, NEW d \in Docs,
           (Active(p) /\ op[p].doc = d) \/ (~Active(p) /\ ~Busy(d)),
           OthersUntouched(p, d), Local(p, d)'
    PROVE  Exclusive' /\ Settled' /\ Progress'
<1>1. ASSUME NEW q \in Writers, q # p, Active(q) PROVE op[q].doc # d
  BY <1>1 DEF IInv, Exclusive, Busy, Active
<1>2. ASSUME NEW q \in Writers, q # p
      PROVE  /\ Active(q)' <=> Active(q) /\ op'[q].doc = op[q].doc
             /\ Uploading(q)' <=> Uploading(q)
             /\ Deleting(q)' <=> Deleting(q)
  BY <1>2 DEF OthersUntouched, Active, Uploading, Deleting
<1>3. Exclusive'
  BY <1>1, <1>2 DEF IInv, Exclusive, Local, Active, OthersUntouched
<1>4. ASSUME NEW e \in Docs, ~Busy(e)' PROVE Intact(e, row[e])'
  <2>1. CASE e = d
    BY <1>4, <2>1 DEF Local, Busy, Active
  <2>2. CASE e # d
    <3>1. ~Busy(e)
      BY <1>4, <2>2 DEF Busy, OthersUntouched, Active
    <3> QED
      BY <2>2, <3>1 DEF IInv, Settled, Intact, BytesOK, OthersUntouched
  <2> QED
    BY <2>1, <2>2
<1>5. ASSUME NEW q \in Writers
      PROVE  (Uploading(q)' => UploadProgress(q)') /\ (Deleting(q)' => DeleteProgress(q)')
  <2>1. CASE q = p
    BY <2>1, PcSets DEF Local, Uploading, Deleting
  <2>2. CASE q # p
    <3>1. Uploading(q)' => UploadProgress(q)'
      <4> SUFFICES ASSUME Uploading(q)' PROVE UploadProgress(q)'
        OBVIOUS
      <4>1. Uploading(q) /\ Active(q) /\ op[q].doc \in Docs \ {d} /\ UploadProgress(q)
        BY <1>1, <1>2, <2>2, PcSets DEF IInv, TInv, OpOK, Progress, Uploading, Active
      <4> QED
        BY <4>1, <2>2 DEF OthersUntouched, UploadProgress, Intact, BytesOK
    <3>2. Deleting(q)' => DeleteProgress(q)'
      <4> SUFFICES ASSUME Deleting(q)' PROVE DeleteProgress(q)'
        OBVIOUS
      <4>1. Deleting(q) /\ Active(q) /\ op[q].doc \in Docs \ {d} /\ DeleteProgress(q)
        BY <1>1, <1>2, <2>2, PcSets DEF IInv, TInv, OpOK, Progress, Deleting, Active
      <4> QED
        BY <4>1, <2>2 DEF OthersUntouched, DeleteProgress, Intact, BytesOK
    <3> QED
      BY <3>1, <3>2
  <2> QED
    BY <2>1, <2>2
<1> QED
  BY <1>3, <1>4, <1>5 DEF Settled, Progress

\* A step in which readers stand still, and bytes change only to None or to
\* the upload of a request in flight, keeps the readers' part.
LEMMA ReadersFrame ==
    ASSUME IInv, TInv', UNCHANGED reading, uploads' >= uploads,
           \A e \in Docs : \/ blob'[e] \in {blob[e], None}
                            \/ \E p \in Writers : /\ Uploading(p) /\ op[p].doc = e
                                                  /\ blob'[e] = op[p].ver,
           \A p \in Writers : Uploading(p)' => \/ Uploading(p) /\ op'[p] = op[p]
                                               \/ op'[p].ver > uploads
    PROVE  ReadersOK' /\ NoStaleBytes'
<1>1. NoStaleBytes'
  BY DEF IInv, NoStaleBytes
<1>2. ASSUME NEW r \in Readers, reading[r].stage = "row"
      PROVE  /\ reading[r].ver <= uploads'
             /\ blob'[reading[r].doc] = None \/ blob'[reading[r].doc] >= reading[r].ver
             /\ \A p \in Writers : Uploading(p)' /\ op'[p].doc = reading[r].doc
                                    => op'[p].ver > reading[r].ver
  <2> DEFINE d == reading[r].doc
  <2>1. /\ d \in Docs /\ reading[r].ver <= uploads
        /\ blob[d] = None \/ blob[d] >= reading[r].ver
        /\ \A p \in Writers : Uploading(p) /\ op[p].doc = d => op[p].ver > reading[r].ver
    BY <1>2 DEF IInv, TInv, ReadingOK, ReadersOK
  <2>2. /\ uploads \in Int /\ uploads' \in Int /\ reading[r].ver \in Int
        /\ \A p \in Writers : op[p].ver \in Int /\ op'[p].ver \in Int
    BY ConstantAssumption DEF IInv, TInv, TypeOK, Op, Reading, Version, None
  <2>3. blob'[d] = None \/ blob'[d] >= reading[r].ver
    BY <2>1, <2>2
  <2>4. ASSUME NEW p \in Writers, Uploading(p)', op'[p].doc = d
        PROVE  op'[p].ver > reading[r].ver
    BY <2>1, <2>2, <2>4
  <2> QED
    BY <2>1, <2>2, <2>3, <2>4
<1> QED
  BY <1>1, <1>2 DEF ReadersOK

LEMMA IInit == Init => IInv
<1> SUFFICES ASSUME Init PROVE IInv
  OBVIOUS
<1>1. TInv
  BY TInit
<1>2. Exclusive /\ Progress
  BY PcSets DEF Init, Exclusive, Progress, Active, Uploading, Deleting
<1>3. Settled
  BY DEF Init, Settled, Intact, BytesOK, NoRow, Servable, None
<1>4. ReadersOK /\ NoStaleBytes
  BY DEF Init, ReadersOK, NoStaleBytes, NotReading
<1> QED
  BY <1>1, <1>2, <1>3, <1>4 DEF IInv

\* The facts a leaf about one store call needs.
LEMMA RowShapes ==
    /\ NoRow.status = "none" /\ ~Servable(NoRow)
    /\ \A v \in Version : /\ PendingRow(v).status = "pending" /\ PendingRow(v) # NoRow
                           /\ ~Servable(PendingRow(v))
BY DEF NoRow, PendingRow, Servable

\* A request that ends must leave its document consistent.
LEMMA FinishLocal ==
    ASSUME TypeOK, NEW p \in Writers, NEW d \in Docs, Finish(p), Intact(d, row[d])'
    PROVE  Local(p, d)'
BY DEF TypeOK, Finish, Goto, Local

LEMMA CallLocal ==
    ASSUME IInv, TInv', NEW p \in Writers, NEW d \in Docs, op[p].doc = d,
           StoreCall(p)
    PROVE  Active(p) /\ OthersUntouched(p, d) /\ Local(p, d)'
<1> DEFINE v == op[p].ver
<1>0. /\ op[p].doc = d
      /\ Uploading(p) => v \in Version /\ UploadProgress(p)
      /\ Deleting(p) => DeleteProgress(p)
      /\ op[p].kind = "create" => op[p].prev = NoRow
  BY ConstantAssumption DEF IInv, TInv, OpOK, TypeOK, Version, Progress, Uploading, Active
<1> USE <1>0, PcSets, RowShapes, ChunkTypes DEF IInv, TInv, TypeOK
<1>1. ASSUME WritePending(p) PROVE Active(p) /\ OthersUntouched(p, d) /\ Local(p, d)'
  <2>1. Uploading(p) /\ Active(p)
    BY <1>1 DEF WritePending, Uploading, Active
  <2>2. OthersUntouched(p, d)
    BY <1>1, <2>1 DEF WritePending, Continue, Finish, Goto, OthersUntouched
  <2>3. Local(p, d)'
    <3>1. CASE row' = [row EXCEPT ![d] = PendingRow(v)] /\ Continue(p, "embed")
      BY <1>1, <2>1, <3>1 DEF WritePending, Continue, Goto, Local, Active, Uploading,
         Deleting, UploadProgress, Intact, BytesOK
    <3>2. CASE Finish(p) /\ UNCHANGED row
      <4>1. Intact(d, row[d])'
        BY <1>1, <2>1, <3>2 DEF WritePending, UploadProgress, Intact, BytesOK
      <4> QED
        BY <1>1, <2>1, <3>2, <4>1, FinishLocal DEF WritePending
    <3> QED
      BY <1>1, <3>1, <3>2 DEF WritePending
  <2> QED
    BY <2>1, <2>2, <2>3
<1>2. ASSUME Embed(p) PROVE Active(p) /\ OthersUntouched(p, d) /\ Local(p, d)'
  <2>1. Uploading(p) /\ Active(p)
    BY <1>2 DEF Embed, Uploading, Active
  <2>2. OthersUntouched(p, d)
    BY <1>2, <2>1 DEF Embed, Continue, Goto, OthersUntouched
  <2>3. Local(p, d)'
    BY <1>2, <2>1 DEF Embed, Continue, Goto, Local, Active, Uploading, Deleting,
       UploadProgress, Intact, BytesOK
  <2> QED
    BY <2>1, <2>2, <2>3
<1>3. ASSUME EmbedFails(p) PROVE Active(p) /\ OthersUntouched(p, d) /\ Local(p, d)'
  <2>1. Uploading(p) /\ Active(p)
    BY <1>3 DEF EmbedFails, Uploading, Active
  <2>2. OthersUntouched(p, d)
    BY <1>3, <2>1 DEF EmbedFails, Continue, FailIngest, Goto, OthersUntouched
  <2>3. Local(p, d)'
    <3>1. CASE op[p].kind = "create" /\ FailIngest(p, "failed")
      BY <1>3, <2>1, <3>1 DEF EmbedFails, FailIngest, Goto, Local, Active, Uploading,
         Deleting, UploadProgress, Intact, BytesOK
    <3>2. CASE Continue(p, "restore")
      BY <1>3, <2>1, <3>2 DEF EmbedFails, Continue, Goto, Local, Active, Uploading,
         Deleting, UploadProgress, Intact, BytesOK
    <3> QED
      BY <1>3, <3>1, <3>2 DEF EmbedFails
  <2> QED
    BY <2>1, <2>2, <2>3
<1>4. ASSUME IngestNotBuilt(p) PROVE Active(p) /\ OthersUntouched(p, d) /\ Local(p, d)'
  <2>1. Uploading(p) /\ Active(p)
    BY <1>4 DEF IngestNotBuilt, Uploading, Active
  <2>2. OthersUntouched(p, d)
    BY <1>4, <2>1 DEF IngestNotBuilt, FailIngest, Goto, OthersUntouched
  <2>3. Local(p, d)'
    <3>1. CASE op[p].kind = "create"
      BY <1>4, <2>1, <3>1 DEF IngestNotBuilt, FailIngest, Goto, Local, Active, Uploading,
         Deleting, UploadProgress, Intact, BytesOK
    <3>2. CASE op[p].kind # "create"
      BY <1>4, <2>1, <3>2 DEF IngestNotBuilt, FailIngest, Goto, Local, Active, Uploading,
         Deleting, UploadProgress, Intact, BytesOK
    <3> QED
      BY <1>4, <3>1, <3>2 DEF IngestNotBuilt
  <2> QED
    BY <2>1, <2>2, <2>3
<1>5. ASSUME VecDelete(p) PROVE Active(p) /\ OthersUntouched(p, d) /\ Local(p, d)'
  <2>1. Uploading(p) /\ Active(p)
    BY <1>5 DEF VecDelete, Uploading, Active
  <2>2. OthersUntouched(p, d)
    BY <1>5, <2>1 DEF VecDelete, Continue, FailIngest, Goto, OthersUntouched
  <2>3. Local(p, d)'
    BY <1>5, <2>1 DEF VecDelete, Continue, FailIngest, Goto, Local, Active, Uploading,
       Deleting, UploadProgress, Intact, BytesOK
  <2> QED
    BY <2>1, <2>2, <2>3
<1>6. ASSUME LexDelete(p) PROVE Active(p) /\ OthersUntouched(p, d) /\ Local(p, d)'
  <2>1. Uploading(p) /\ Active(p)
    BY <1>6 DEF LexDelete, Uploading, Active
  <2>2. OthersUntouched(p, d)
    BY <1>6, <2>1 DEF LexDelete, Continue, Goto, OthersUntouched
  <2>3. Local(p, d)'
    BY <1>6, <2>1 DEF LexDelete, Continue, Goto, Local, Active, Uploading, Deleting,
       UploadProgress, Intact, BytesOK
  <2> QED
    BY <2>1, <2>2, <2>3
<1>7. ASSUME VecUpsert(p) PROVE Active(p) /\ OthersUntouched(p, d) /\ Local(p, d)'
  <2>1. Uploading(p) /\ Active(p)
    BY <1>7 DEF VecUpsert, Uploading, Active
  <2>2. OthersUntouched(p, d)
    BY <1>7, <2>1 DEF VecUpsert, Continue, FailIngest, Goto, OthersUntouched
  <2>3. Local(p, d)'
    BY <1>7, <2>1 DEF VecUpsert, Continue, FailIngest, Goto, Local, Active, Uploading,
       Deleting, UploadProgress, Intact, BytesOK
  <2> QED
    BY <2>1, <2>2, <2>3
<1>8. ASSUME LexUpsert(p) PROVE Active(p) /\ OthersUntouched(p, d) /\ Local(p, d)'
  <2>1. Uploading(p) /\ Active(p)
    BY <1>8 DEF LexUpsert, Uploading, Active
  <2>2. OthersUntouched(p, d)
    BY <1>8, <2>1 DEF LexUpsert, Continue, Goto, OthersUntouched
  <2>3. Local(p, d)'
    BY <1>8, <2>1 DEF LexUpsert, Continue, Goto, Local, Active, Uploading, Deleting,
       UploadProgress, Intact, BytesOK
  <2> QED
    BY <2>1, <2>2, <2>3
<1>9. ASSUME PutBlob(p) PROVE Active(p) /\ OthersUntouched(p, d) /\ Local(p, d)'
  <2>1. Uploading(p) /\ Active(p)
    BY <1>9 DEF PutBlob, Uploading, Active
  <2>2. OthersUntouched(p, d)
    BY <1>9, <2>1 DEF PutBlob, PutOriginal, Goto, OthersUntouched
  <2>3. Local(p, d)'
    BY <1>9, <2>1 DEF PutBlob, PutOriginal, Goto, Local, Active, Uploading, Deleting,
       UploadProgress, Intact, BytesOK
  <2> QED
    BY <2>1, <2>2, <2>3
<1>10. ASSUME ProfileFails(p) PROVE Active(p) /\ OthersUntouched(p, d) /\ Local(p, d)'
  <2>1. Uploading(p) /\ Active(p)
    BY <1>10 DEF ProfileFails, Uploading, Active
  <2>2. OthersUntouched(p, d)
    BY <1>10, <2>1 DEF ProfileFails, Finish, Goto, OthersUntouched
  <2>3. Local(p, d)'
    <3>1. Intact(d, row[d])'
      BY <1>10, <2>1 DEF ProfileFails, UploadProgress, Intact, BytesOK
    <3> QED
      BY <1>10, <2>1, <3>1, FinishLocal DEF ProfileFails
  <2> QED
    BY <2>1, <2>2, <2>3
<1>11. ASSUME WriteReady(p) PROVE Active(p) /\ OthersUntouched(p, d) /\ Local(p, d)'
  <2>1. Uploading(p) /\ Active(p)
    BY <1>11 DEF WriteReady, Uploading, Active
  <2>2. OthersUntouched(p, d)
    BY <1>11, <2>1 DEF WriteReady, RecordOutcome, Finish, Goto, OthersUntouched
  <2>3. Local(p, d)'
    <3>1. CASE row' = [row EXCEPT ![d] = OutcomeRow(p, "ready")]
      <4>1. Intact(d, row[d])'
        BY <1>11, <2>1, <3>1 DEF WriteReady, RecordOutcome, UploadProgress, Intact,
           BytesOK, OutcomeRow, Servable, NoRow
      <4> QED
        BY <1>11, <2>1, <3>1, <4>1, FinishLocal DEF WriteReady, RecordOutcome
    <3>2. CASE UNCHANGED row
      <4>1. Intact(d, row[d])'
        BY <1>11, <2>1, <3>2 DEF WriteReady, RecordOutcome, UploadProgress, Intact, BytesOK
      <4> QED
        BY <1>11, <2>1, <3>2, <4>1, FinishLocal DEF WriteReady, RecordOutcome
    <3> QED
      BY <1>11, <3>1, <3>2 DEF WriteReady, RecordOutcome
  <2> QED
    BY <2>1, <2>2, <2>3
<1>12. ASSUME FailBlob(p) PROVE Active(p) /\ OthersUntouched(p, d) /\ Local(p, d)'
  <2>1. Uploading(p) /\ Active(p)
    BY <1>12 DEF FailBlob, Uploading, Active
  <2>2. OthersUntouched(p, d)
    BY <1>12, <2>1 DEF FailBlob, PutOriginal, Goto, OthersUntouched
  <2>3. Local(p, d)'
    BY <1>12, <2>1 DEF FailBlob, PutOriginal, Goto, Local, Active, Uploading, Deleting,
       UploadProgress, Intact, BytesOK
  <2> QED
    BY <2>1, <2>2, <2>3
<1>13. ASSUME FailRow(p) PROVE Active(p) /\ OthersUntouched(p, d) /\ Local(p, d)'
  <2>1. Uploading(p) /\ Active(p)
    BY <1>13 DEF FailRow, Uploading, Active
  <2>2. OthersUntouched(p, d)
    BY <1>13, <2>1 DEF FailRow, RecordOutcome, Finish, Goto, OthersUntouched
  <2>3. Local(p, d)'
    <3>1. CASE row' = [row EXCEPT ![d] = OutcomeRow(p, outcome[p])]
      <4>1. Intact(d, row[d])'
        BY <1>13, <2>1, <3>1 DEF FailRow, RecordOutcome, UploadProgress, Intact, BytesOK,
           OutcomeRow, Servable, NoRow
      <4> QED
        BY <1>13, <2>1, <3>1, <4>1, FinishLocal DEF FailRow, RecordOutcome
    <3>2. CASE UNCHANGED row
      <4>1. Intact(d, row[d])'
        BY <1>13, <2>1, <3>2 DEF FailRow, RecordOutcome, UploadProgress, Intact, BytesOK
      <4> QED
        BY <1>13, <2>1, <3>2, <4>1, FinishLocal DEF FailRow, RecordOutcome
    <3> QED
      BY <1>13, <3>1, <3>2 DEF FailRow, RecordOutcome
  <2> QED
    BY <2>1, <2>2, <2>3
<1>14. ASSUME RestorePrevious(p) PROVE Active(p) /\ OthersUntouched(p, d) /\ Local(p, d)'
  <2>1. Uploading(p) /\ Active(p)
    BY <1>14 DEF RestorePrevious, Uploading, Active
  <2>2. OthersUntouched(p, d)
    BY <1>14, <2>1 DEF RestorePrevious, RecordOutcome, Finish, Goto, OthersUntouched
  <2>3. Local(p, d)'
    <3>1. CASE row' = [row EXCEPT ![d] = op[p].prev]
      <4>1. Intact(d, row[d])'
        BY <1>14, <2>1, <3>1 DEF RestorePrevious, RecordOutcome, UploadProgress, Intact,
           BytesOK
      <4> QED
        BY <1>14, <2>1, <3>1, <4>1, FinishLocal DEF RestorePrevious, RecordOutcome
    <3>2. CASE UNCHANGED row
      <4>1. Intact(d, row[d])'
        BY <1>14, <2>1, <3>2 DEF RestorePrevious, RecordOutcome, UploadProgress, Intact,
           BytesOK
      <4> QED
        BY <1>14, <2>1, <3>2, <4>1, FinishLocal DEF RestorePrevious, RecordOutcome
    <3> QED
      BY <1>14, <3>1, <3>2 DEF RestorePrevious, RecordOutcome
  <2> QED
    BY <2>1, <2>2, <2>3
<1>15. ASSUME DelVec(p) PROVE Active(p) /\ OthersUntouched(p, d) /\ Local(p, d)'
  <2>1. Deleting(p) /\ Active(p)
    BY <1>15 DEF DelVec, Deleting, Active
  <2>2. OthersUntouched(p, d)
    BY <1>15, <2>1 DEF DelVec, Continue, Finish, Goto, OthersUntouched
  <2>3. Local(p, d)'
    <3>1. CASE vec' = [vec EXCEPT ![d] = NoChunks] /\ Continue(p, "delLex")
      BY <1>15, <2>1, <3>1 DEF DelVec, Continue, Goto, Local, Active, Uploading,
         Deleting, DeleteProgress, Intact, BytesOK
    <3>2. CASE Finish(p) /\ UNCHANGED vec
      <4>1. Intact(d, row[d])'
        BY <1>15, <2>1, <3>2 DEF DelVec, DeleteProgress, Intact, BytesOK
      <4> QED
        BY <1>15, <2>1, <3>2, <4>1, FinishLocal DEF DelVec
    <3> QED
      BY <1>15, <3>1, <3>2 DEF DelVec
  <2> QED
    BY <2>1, <2>2, <2>3
<1>16. ASSUME DelLex(p) PROVE Active(p) /\ OthersUntouched(p, d) /\ Local(p, d)'
  <2>1. Deleting(p) /\ Active(p)
    BY <1>16 DEF DelLex, Deleting, Active
  <2>2. OthersUntouched(p, d)
    BY <1>16, <2>1 DEF DelLex, Continue, Goto, OthersUntouched
  <2>3. Local(p, d)'
    BY <1>16, <2>1 DEF DelLex, Continue, Goto, Local, Active, Uploading, Deleting,
       DeleteProgress, Intact, BytesOK
  <2> QED
    BY <2>1, <2>2, <2>3
<1>17. ASSUME DelBlob(p) PROVE Active(p) /\ OthersUntouched(p, d) /\ Local(p, d)'
  <2>1. Deleting(p) /\ Active(p)
    BY <1>17 DEF DelBlob, Deleting, Active
  <2>2. OthersUntouched(p, d)
    BY <1>17, <2>1 DEF DelBlob, Continue, Finish, Goto, OthersUntouched
  <2>3. Local(p, d)'
    <3>1. CASE blob' = [blob EXCEPT ![d] = None] /\ Continue(p, "delRow")
      BY <1>17, <2>1, <3>1 DEF DelBlob, Continue, Goto, Local, Active, Uploading,
         Deleting, DeleteProgress, Intact, BytesOK
    <3>2. CASE Finish(p) /\ UNCHANGED blob
      <4>1. Intact(d, row[d])'
        BY <1>17, <2>1, <3>2 DEF DelBlob, DeleteProgress, Intact, BytesOK
      <4> QED
        BY <1>17, <2>1, <3>2, <4>1, FinishLocal DEF DelBlob
    <3> QED
      BY <1>17, <3>1, <3>2 DEF DelBlob
  <2> QED
    BY <2>1, <2>2, <2>3
<1>18. ASSUME DelRow(p) PROVE Active(p) /\ OthersUntouched(p, d) /\ Local(p, d)'
  <2>1. Deleting(p) /\ Active(p)
    BY <1>18 DEF DelRow, Deleting, Active
  <2>2. OthersUntouched(p, d)
    BY <1>18, <2>1 DEF DelRow, RecordOutcome, Finish, Goto, OthersUntouched
  <2>3. Local(p, d)'
    <3>1. CASE row' = [row EXCEPT ![d] = NoRow]
      <4>1. Intact(d, row[d])'
        BY <1>18, <2>1, <3>1 DEF DelRow, RecordOutcome, DeleteProgress, Intact, BytesOK
      <4> QED
        BY <1>18, <2>1, <3>1, <4>1, FinishLocal DEF DelRow, RecordOutcome
    <3>2. CASE UNCHANGED row
      <4>1. Intact(d, row[d])'
        BY <1>18, <2>1, <3>2 DEF DelRow, RecordOutcome, DeleteProgress, Intact, BytesOK
      <4> QED
        BY <1>18, <2>1, <3>2, <4>1, FinishLocal DEF DelRow, RecordOutcome
    <3> QED
      BY <1>18, <3>1, <3>2 DEF DelRow, RecordOutcome
  <2> QED
    BY <2>1, <2>2, <2>3
<1> QED
  BY <1>1, <1>2, <1>3, <1>4, <1>5, <1>6, <1>7, <1>8, <1>9, <1>10, <1>11, <1>12, <1>13,
     <1>14, <1>15, <1>16, <1>17, <1>18 DEF StoreCall

\* Nothing but the readers moves: the rest of the invariant carries over.
LEMMA StoresFrame ==
    ASSUME IInv, UNCHANGED <<row, vec, lex, blob, pc, op, outcome, stored>>
    PROVE  Exclusive' /\ Settled' /\ Progress'
<1>1. Exclusive'
  BY DEF IInv, Exclusive, Active
<1>2. Settled'
  BY DEF IInv, Settled, Busy, Intact, BytesOK
<1>3. Progress'
  BY DEF IInv, Progress, Uploading, Deleting, UploadProgress, DeleteProgress, Intact,
     BytesOK
<1> QED
  BY <1>1, <1>2, <1>3

LEMMA INext ==
    ASSUME ~Overlap, IInv, [Next]_vars
    PROVE  IInv'
<1>1. TInv'
  BY TNext DEF IInv
<1>2. ASSUME NEW p \in Writers, StoreCall(p) PROVE IInv'
  <2> DEFINE d == op[p].doc
  <2>1. d \in Docs
    BY <1>2 DEF IInv, TInv, OpOK, Active, StoreCall, WritePending, Embed, EmbedFails,
       IngestNotBuilt, VecDelete, LexDelete, VecUpsert, LexUpsert, PutBlob, ProfileFails,
       WriteReady, FailBlob, FailRow, RestorePrevious, DelVec, DelLex, DelBlob, DelRow
  <2>2. Exclusive' /\ Settled' /\ Progress'
    <3>1. PICK e \in Docs : op[p].doc = e
      BY <2>1
    <3>2. Active(p) /\ OthersUntouched(p, e) /\ Local(p, e)'
      BY <1>1, <1>2, <3>1, CallLocal
    <3> QED
      BY <3>1, <3>2, Frame
  <2>3. UNCHANGED <<reading, uploads>>
    BY <1>2 DEF StoreCall, WritePending, Embed, EmbedFails,
       IngestNotBuilt, VecDelete, LexDelete, VecUpsert, LexUpsert, PutBlob, ProfileFails,
       WriteReady, FailBlob, FailRow, RestorePrevious, DelVec, DelLex, DelBlob, DelRow,
       RecordOutcome
  <2>4. ASSUME NEW e \in Docs
        PROVE  \/ blob'[e] \in {blob[e], None}
               \/ \E q \in Writers : Uploading(q) /\ op[q].doc = e /\ blob'[e] = op[q].ver
    <3>1. CASE PutBlob(p) \/ FailBlob(p)
      BY <3>1, <2>1, PcSets DEF PutBlob, FailBlob, PutOriginal, Uploading, IInv, TInv,
         TypeOK
    <3>2. CASE DelBlob(p)
      BY <3>2, <2>1 DEF DelBlob, IInv, TInv, TypeOK
    <3>3. CASE ~(PutBlob(p) \/ FailBlob(p) \/ DelBlob(p))
      BY <1>2, <3>3 DEF StoreCall, WritePending, Embed, EmbedFails, IngestNotBuilt,
         VecDelete,
         LexDelete, VecUpsert, LexUpsert, ProfileFails, WriteReady, FailRow,
         RestorePrevious, DelVec, DelLex, DelRow, RecordOutcome
    <3> QED
      BY <3>1, <3>2, <3>3
  <2>5. ASSUME NEW q \in Writers, Uploading(q)' PROVE Uploading(q) /\ op'[q] = op[q]
    <3>1. CASE q # p
      <4>1. pc'[q] = pc[q] /\ op'[q] = op[q]
        <5>1. PICK e \in Docs : op[p].doc = e
          BY <2>1
        <5> QED
          BY <1>1, <1>2, <3>1, <5>1, CallLocal DEF OthersUntouched
      <4> QED
        BY <2>5, <4>1 DEF Uploading
    <3>2. CASE q = p
      BY <1>2, <2>5, <3>2, PcSets DEF IInv, TInv, TypeOK, Uploading, StoreCall,
         WritePending,
         Embed, EmbedFails, IngestNotBuilt, VecDelete, LexDelete, VecUpsert, LexUpsert,
         PutBlob, ProfileFails, WriteReady, FailBlob, FailRow, RestorePrevious, DelVec,
         DelLex, DelBlob, DelRow, RecordOutcome, Finish, Continue, Goto, FailIngest, PutOriginal
    <3> QED
      BY <3>1, <3>2
  <2>6. uploads' >= uploads
    BY <2>3, ConstantAssumption DEF IInv, TInv, TypeOK
  <2>7. ReadersOK' /\ NoStaleBytes'
    BY <1>1, <2>3, <2>4, <2>5, <2>6, ReadersFrame
  <2> QED
    BY <1>1, <2>2, <2>7 DEF IInv
<1>3. ASSUME NEW p \in Writers, NEW d \in Docs, Create(p, d) \/ Replace(p, d) \/ Delete(p, d)
      PROVE  IInv'
  <2>1. ~Active(p) /\ ~Busy(d)
    BY <1>3 DEF Create, Replace, Delete, MayBegin, Active
  <2>2. OthersUntouched(p, d)
    BY <1>3 DEF Create, Replace, Delete, Begin, Goto, OthersUntouched, IInv, TInv, TypeOK
  <2>3. Intact(d, row[d])
    BY <2>1 DEF IInv, Settled
  <2>4. Local(p, d)'
    <3> USE PcSets, RowShapes, RowTypes DEF IInv, TInv, TypeOK
    <3>1. CASE Create(p, d)
      BY <2>3, <3>1 DEF Create, Begin, NewOp, Goto, Local, Active, Uploading, Deleting,
         UploadProgress, Intact, BytesOK
    <3>2. CASE Replace(p, d)
      BY <2>3, <3>2 DEF Replace, Begin, NewOp, Goto, Local, Active, Uploading, Deleting,
         UploadProgress, Intact, BytesOK
    <3>3. CASE Delete(p, d)
      BY <2>3, <3>3 DEF Delete, Begin, NewOp, Goto, Local, Active, Uploading, Deleting,
         DeleteProgress, Intact, BytesOK
    <3> QED
      BY <1>3, <3>1, <3>2, <3>3
  <2>5. Exclusive' /\ Settled' /\ Progress'
    BY <2>1, <2>2, <2>4, Frame
  <2>6. ASSUME NEW q \in Writers, Uploading(q)'
        PROVE  (Uploading(q) /\ op'[q] = op[q]) \/ op'[q].ver > uploads
    <3>1. CASE q # p
      BY <2>2, <2>6, <3>1 DEF OthersUntouched, Uploading
    <3>2. CASE q = p
      <4>1. uploads + 1 > uploads
        BY ConstantAssumption DEF IInv, TInv, TypeOK
      <4> QED
        BY <1>3, <2>6, <3>2, <4>1, PcSets DEF Create, Replace, Delete, Begin, NewOp, Goto,
           IInv, TInv, TypeOK, Uploading
    <3> QED
      BY <3>1, <3>2
  <2>7. /\ UNCHANGED <<reading, blob>> /\ uploads' >= uploads
    BY <1>3, ConstantAssumption DEF Create, Replace, Delete, IInv, TInv, TypeOK
  <2>8. ReadersOK' /\ NoStaleBytes'
    BY <1>1, <2>6, <2>7, ReadersFrame
  <2> QED
    BY <1>1, <2>5, <2>8 DEF IInv
<1>4. ASSUME NEW r \in Readers, NEW d \in Docs, ReadRow(r, d) PROVE IInv'
  <2>1. Exclusive' /\ Settled' /\ Progress'
    BY <1>4, StoresFrame DEF ReadRow
  <2>2. /\ row[d].ver <= uploads
        /\ blob[d] = None \/ blob[d] >= row[d].ver
        /\ \A p \in Writers : Uploading(p) /\ op[p].doc = d => op[p].ver > row[d].ver
    <3>0. Servable(row[d]) /\ row[d].ver \in Int /\ row[d].ver <= uploads
      BY <1>4, RowTypes, ConstantAssumption DEF ReadRow, IInv, TInv, TypeOK, RowsOK
    <3>1. ASSUME NEW p \in Writers, Uploading(p), op[p].doc = d
          PROVE  pc[p] = "writePending" /\ op[p].prev = row[d] /\ op[p].ver > row[d].ver
      <4>1. UploadProgress(p) /\ op[p].ver \in Version /\ op[p].prev.ver < op[p].ver
        BY <3>1, PcSets, ConstantAssumption
           DEF IInv, TInv, TypeOK, OpOK, Progress, Active, Uploading, Version
      <4>2. row[d] # PendingRow(op[p].ver)
        BY <3>0, <4>1, RowShapes
      <4>3. pc[p] = "writePending" /\ op[p].prev = row[d]
        BY <3>1, <4>1, <4>2 DEF UploadProgress, Uploading
      <4> QED
        BY <4>1, <4>3, <3>0, ConstantAssumption DEF Version
    <3>2. BytesOK(d, row[d])
      <4>1. CASE ~Busy(d)
        BY <4>1 DEF IInv, Settled, Intact
      <4>2. CASE Busy(d)
        <5>1. PICK p \in Writers : Active(p) /\ op[p].doc = d
          BY <4>2 DEF Busy, Active
        <5>2. CASE Uploading(p)
          BY <3>1, <5>1, <5>2 DEF IInv, Progress, UploadProgress, Intact
        <5>3. CASE Deleting(p)
          BY <5>1, <5>3 DEF IInv, Progress, Deleting, DeletePc, DeleteProgress, Intact
        <5> QED
          BY <5>1, <5>2, <5>3, PcSets DEF IInv, TInv, TypeOK, Active, Uploading, Deleting
      <4> QED
        BY <4>1, <4>2
    <3> QED
      BY <3>0, <3>1, <3>2 DEF BytesOK
  <2>3. ReadersOK' /\ NoStaleBytes'
    BY <1>4, <2>2 DEF ReadRow, IInv, TInv, TypeOK, ReadersOK, NoStaleBytes, Uploading
  <2> QED
    BY <1>1, <2>1, <2>3 DEF IInv
<1>5. ASSUME NEW r \in Readers, ReadBlob(r) PROVE IInv'
  <2>1. Exclusive' /\ Settled' /\ Progress'
    BY <1>5, StoresFrame DEF ReadBlob
  <2>2. ReadersOK' /\ NoStaleBytes'
    BY <1>5 DEF ReadBlob, IInv, TInv, TypeOK, ReadersOK, NoStaleBytes, Uploading
  <2> QED
    BY <1>1, <2>1, <2>2 DEF IInv
<1>6. CASE Crash
  <2>1. Exclusive' /\ Progress' /\ ReadersOK' /\ NoStaleBytes'
    BY <1>6, PcSets DEF Crash, Exclusive, Progress, ReadersOK, NoStaleBytes, NotReading,
       Active, Uploading, Deleting
  <2>2. ASSUME NEW d \in Docs PROVE Intact(d, row[d])'
    <3>1. Intact(d, row[d]) \/ (vec[d] = NoChunks /\ BytesOK(d, row[d])) \/ row[d].status = "pending"
      <4>1. CASE ~Busy(d)
        BY <4>1 DEF IInv, Settled
      <4>2. CASE Busy(d)
        <5>1. PICK p \in Writers : Active(p) /\ op[p].doc = d
          BY <4>2 DEF Busy, Active
        <5>2. CASE Uploading(p)
          <6>1. UploadProgress(p) /\ op[p].ver \in Version
            BY <5>1, <5>2, ConstantAssumption DEF IInv, TInv, TypeOK, OpOK, Progress,
               Version
          <6> QED
            BY <5>1, <5>2, <6>1, RowShapes DEF Uploading, UploadProgress
        <5>3. CASE Deleting(p)
          BY <5>1, <5>3 DEF IInv, Progress, Deleting, DeletePc, DeleteProgress
        <5> QED
          BY <5>1, <5>2, <5>3, PcSets DEF IInv, TInv, TypeOK, Active, Uploading, Deleting
      <4> QED
        BY <4>1, <4>2
    <3>2. /\ row'[d] = row[d] /\ vec'[d] = vec[d] /\ lex'[d] = vec[d] /\ blob'[d] = blob[d]
      BY <1>6 DEF Crash
    <3> QED
      BY <3>1, <3>2, RowShapes DEF Intact, BytesOK, Servable
  <2>3. Settled'
    BY <2>2 DEF Settled
  <2> QED
    BY <1>1, <2>1, <2>3 DEF IInv
<1>7. CASE UNCHANGED vars
  <2>1. Exclusive' /\ Settled' /\ Progress'
    BY <1>7, StoresFrame DEF vars
  <2>2. ReadersOK' /\ NoStaleBytes'
    BY <1>7 DEF vars, IInv, ReadersOK, NoStaleBytes, Uploading
  <2> QED
    BY <1>1, <2>1, <2>2 DEF IInv
<1> QED
  BY <1>2, <1>3, <1>4, <1>5, <1>6, <1>7 DEF Next, Request

\* One request at a time per document, any number of documents, readers,
\* failures and crashes: ready rows describe whole uploads, nothing is
\* hidden, the mirror agrees and no stale bytes are served.
THEOREM Consistent ==
    ASSUME ~Overlap
    PROVE  Spec => [](ReadyIsWhole /\ NothingHidden /\ MirrorInSync /\ NoStaleBytes)
<1>1. IInv => ReadyIsWhole /\ NothingHidden /\ MirrorInSync /\ NoStaleBytes
  <2> SUFFICES ASSUME IInv, NEW d \in Docs
               PROVE  /\ row[d].status = "ready" => vec[d] \in {Full(row[d].ver), NoChunks}
                      /\ row[d].status = "failed" => ~Searchable(d)
                      /\ row[d] = NoRow => ~Searchable(d) /\ lex[d] = NoChunks /\ blob[d] = None
                      /\ ~Busy(d) /\ row[d].status \in {"ready", "failed"} => lex[d] = vec[d]
    BY DEF IInv, ReadyIsWhole, NothingHidden, MirrorInSync
  <2>1. CASE ~Busy(d)
    BY <2>1 DEF IInv, Settled, Intact, BytesOK, Searchable
  <2>2. CASE Busy(d)
    <3>1. PICK p \in Writers : Active(p) /\ op[p].doc = d
      BY <2>2 DEF Busy, Active
    <3>2. CASE Uploading(p)
      <4>1. UploadProgress(p) /\ op[p].ver \in Version
        BY <3>1, <3>2, ConstantAssumption DEF IInv, TInv, TypeOK, OpOK, Progress, Version
      <4>2. CASE pc[p] = "writePending"
        BY <2>2, <3>1, <4>1, <4>2 DEF UploadProgress, Intact, BytesOK, Searchable
      <4>3. CASE pc[p] # "writePending"
        BY <2>2, <3>1, <3>2, <4>1, <4>3, RowShapes DEF Uploading, UploadProgress
      <4> QED
        BY <4>2, <4>3
    <3>3. CASE Deleting(p)
      <4>1. DeleteProgress(p)
        BY <3>1, <3>3 DEF IInv, Progress
      <4> QED
        BY <2>2, <3>1, <3>3, <4>1
           DEF Deleting, DeletePc, DeleteProgress, Intact, BytesOK, Searchable
    <3> QED
      BY <3>1, <3>2, <3>3, PcSets DEF IInv, TInv, TypeOK, Active, Uploading, Deleting
  <2> QED
    BY <2>1, <2>2
<1>2. IInv /\ [Next]_vars => IInv'
  BY INext
<1> QED
  BY IInit, <1>1, <1>2, PTL DEF Spec

\* The chunks behind a ready row are exactly those of the upload it describes,
\* whatever failed or crashed before (_recover_replace, _finalize_ready).
THEOREM ReadyRowsAreWhole ==
    ASSUME ~Overlap
    PROVE  Spec => []ReadyIsWhole
BY Consistent, PTL

\* Nothing is searchable that the catalog does not show (delete, _write_degraded).
THEOREM NothingIsHidden ==
    ASSUME ~Overlap
    PROVE  Spec => []NothingHidden
BY Consistent, PTL

\* Between requests the lexical mirror holds what the vector store holds
\* (DualWriteVectorStore).
THEOREM MirrorAgrees ==
    ASSUME ~Overlap
    PROVE  Spec => []MirrorInSync
BY Consistent, PTL

\* No reader is served bytes that are older than the row it has read
\* (get_uploaded_document_content).
THEOREM BytesAreFresh ==
    ASSUME ~Overlap
    PROVE  Spec => []NoStaleBytes
BY Consistent, PTL

-----------------------------------------------------------------------------
(***************************************************************************)
(* Deleted documents stay deleted.  A replace found a row when it began,   *)
(* and without overlap the row is still there when it writes.              *)
(***************************************************************************)
ReplacesKnown == \A p \in Writers : pc[p] = "writePending" => op[p].prev # NoRow

\* Only the first read of a replace leads to its first write.
LEMMA NoNewReplace ==
    ASSUME TypeOK, NEW p \in Writers, StoreCall(p), NEW q \in Writers,
           pc'[q] = "writePending"
    PROVE  pc[q] = "writePending" /\ op'[q] = op[q]
<1>1. CASE q # p
  BY <1>1 DEF StoreCall, WritePending, Embed, EmbedFails, IngestNotBuilt, VecDelete,
     LexDelete, VecUpsert, LexUpsert, PutBlob, ProfileFails, WriteReady, FailBlob,
     FailRow, RestorePrevious, DelVec, DelLex, DelBlob, DelRow, FailIngest, PutOriginal,
     RecordOutcome, Continue, Finish, Goto, TypeOK
<1>2. CASE q = p
  <2>1. ASSUME NEW label, Goto(p, label), label # "writePending" PROVE FALSE
    BY <1>2, <2>1 DEF Goto, TypeOK
  <2>2. ~Finish(p)
    BY <2>1 DEF Finish
  <2>3. ASSUME NEW label, Continue(p, label), label # "writePending" PROVE FALSE
    BY <2>1, <2>3 DEF Continue
  <2>4. ASSUME NEW status, FailIngest(p, status) PROVE FALSE
    BY <2>1, <2>4 DEF FailIngest
  <2>5. ASSUME NEW label, PutOriginal(p, label), label # "writePending" PROVE FALSE
    BY <2>1, <2>5 DEF PutOriginal
  <2>6. ASSUME NEW final, RecordOutcome(p, final) PROVE FALSE
    BY <2>2, <2>6 DEF RecordOutcome
  <2> QED
    BY <2>2, <2>3, <2>4, <2>5, <2>6 DEF StoreCall, WritePending, Embed, EmbedFails,
       IngestNotBuilt, VecDelete, LexDelete, VecUpsert, LexUpsert, PutBlob, ProfileFails,
       WriteReady, FailBlob, FailRow, RestorePrevious, DelVec, DelLex, DelBlob, DelRow
<1> QED
  BY <1>1, <1>2

LEMMA ReplacesNext == IInv /\ ReplacesKnown /\ [Next]_vars => ReplacesKnown'
<1> SUFFICES ASSUME IInv, ReplacesKnown, [Next]_vars,
                    NEW q \in Writers, pc'[q] = "writePending"
             PROVE  op'[q].prev # NoRow
  BY DEF ReplacesKnown
<1>1. TypeOK
  BY DEF IInv, TInv
<1>2. ASSUME NEW p \in Writers, NEW d \in Docs, Create(p, d) \/ Replace(p, d) \/ Delete(p, d)
      PROVE  op'[q].prev # NoRow
  <2>1. CASE Replace(p, d) /\ p = q
    BY <1>1, <2>1 DEF Replace, Begin, TypeOK, NewOp
  <2>2. CASE ~(Replace(p, d) /\ p = q)
    <3>1. pc[q] = "writePending" /\ op'[q] = op[q]
      BY <1>1, <1>2, <2>2 DEF Create, Replace, Delete, Begin, Goto, TypeOK
    <3> QED
      BY <3>1 DEF ReplacesKnown
  <2> QED
    BY <2>1, <2>2
<1>3. ASSUME NEW p \in Writers, StoreCall(p) PROVE op'[q].prev # NoRow
  BY <1>1, <1>3, NoNewReplace DEF ReplacesKnown
<1>4. ASSUME NEW r \in Readers, ReadBlob(r) \/ \E d \in Docs : ReadRow(r, d)
      PROVE  op'[q].prev # NoRow
  BY <1>4 DEF ReadBlob, ReadRow, ReplacesKnown
<1>5. CASE Crash
  BY <1>5 DEF Crash
<1>6. CASE UNCHANGED vars
  BY <1>6 DEF vars, ReplacesKnown
<1> QED
  BY <1>2, <1>3, <1>4, <1>5, <1>6 DEF Next, Request

\* A store call of an upload finds a row, or leaves a deleted document alone.
LEMMA CallKeepsDeleted ==
    ASSUME IInv, ReplacesKnown, NEW p \in Writers, StoreCall(p),
           NEW d \in Docs, row[d] = NoRow
    PROVE  row'[d] = NoRow
<1>1. TypeOK
  BY DEF IInv, TInv
<1>2. CASE DelRow(p)
  BY <1>1, <1>2 DEF DelRow, RecordOutcome, TypeOK
<1>3. CASE WritePending(p) \/ WriteReady(p) \/ FailRow(p) \/ RestorePrevious(p)
  <2>1. Uploading(p) /\ Active(p)
    BY <1>3, PcSets DEF WritePending, WriteReady, FailRow, RestorePrevious, Uploading, Active
  <2>2. UploadProgress(p) /\ op[p].ver \in Version
    BY <2>1, ConstantAssumption DEF IInv, TInv, TypeOK, OpOK, Progress, Version
  <2>3. op[p].doc # d
    <3>1. CASE pc[p] = "writePending"
      BY <2>2, <3>1 DEF UploadProgress, ReplacesKnown
    <3>2. CASE pc[p] # "writePending"
      BY <2>1, <2>2, <3>2, RowShapes DEF UploadProgress, Uploading
    <3> QED
      BY <3>1, <3>2
  <2> QED
    BY <1>1, <1>3, <2>3
       DEF WritePending, WriteReady, FailRow, RestorePrevious, RecordOutcome, TypeOK
<1>4. CASE UNCHANGED row
  BY <1>4
<1> QED
  BY <1>2, <1>3, <1>4 DEF StoreCall, Embed, EmbedFails, IngestNotBuilt, VecDelete,
     LexDelete, VecUpsert, LexUpsert, PutBlob, ProfileFails, FailBlob, DelVec, DelLex,
     DelBlob

\* With one request at a time per document, what was deleted does not come
\* back: not by a replace that fails and restores its row, not by a delete
\* that is repeated, not after a crash.  A replace that read the row before an
\* overlapping delete can bring it back; ~Overlap excludes it.
THEOREM DeletedForGood ==
    ASSUME ~Overlap
    PROVE  Spec => StaysDeleted
<1> DEFINE Kept == \A d \in Docs : d \in used /\ row[d] = NoRow => row'[d] = NoRow
<1>1. Init => ReplacesKnown
  BY DEF Init, ReplacesKnown
<1>2. IInv /\ ReplacesKnown /\ [Next]_vars => [Kept]_vars
  <2> SUFFICES ASSUME IInv, ReplacesKnown, Next, NEW d \in Docs, d \in used, row[d] = NoRow
               PROVE  row'[d] = NoRow
    OBVIOUS
  <2>1. ASSUME NEW p \in Writers, NEW e \in Docs, Create(p, e) \/ Replace(p, e) \/ Delete(p, e)
        PROVE  row'[d] = NoRow
    BY <2>1 DEF Create, Replace, Delete, IInv, TInv, TypeOK
  <2>2. ASSUME NEW p \in Writers, StoreCall(p) PROVE row'[d] = NoRow
    BY <2>2, CallKeepsDeleted
  <2>3. ASSUME Crash \/ \E r \in Readers : ReadBlob(r) \/ \E e \in Docs : ReadRow(r, e)
        PROVE  row'[d] = NoRow
    BY <2>3 DEF Crash, ReadBlob, ReadRow
  <2> QED
    BY <2>1, <2>2, <2>3 DEF Next, Request
<1>3. IInv /\ [Next]_vars => IInv'
  BY INext
<1> QED
  BY IInit, ReplacesNext, <1>1, <1>2, <1>3, PTL DEF Spec, StaysDeleted

-----------------------------------------------------------------------------
(* What is retrieved.                                                      *)

(* Elements in an order that is strict and total: each has a place, and    *)
(* one that is before another has an earlier place.                        *)
LEMMA InOrderIs ==
  ASSUME NEW S, IsFiniteSet(S), NEW R,
         \A c \in S : <<c, c>> \notin R,
         \A c, d, e \in S : <<c, d>> \in R /\ <<d, e>> \in R => <<c, e>> \in R,
         \A c, d \in S : c # d => <<c, d>> \in R \/ <<d, c>> \in R
  PROVE  /\ Cardinality(S) \in Nat /\ DOMAIN InOrder(S, R) = 1..Cardinality(S)
         /\ InOrder(S, R) \in Seq(S)
         /\ \A i \in 1..Cardinality(S) : InOrder(S, R)[i] \in S
         /\ \A c \in S : \E i \in 1..Cardinality(S) : InOrder(S, R)[i] = c
         /\ \A i, j \in 1..Cardinality(S) :
              <<InOrder(S, R)[i], InOrder(S, R)[j]>> \in R <=> i < j
<1> DEFINE n == Cardinality(S)
           before(c) == {d \in S : <<d, c>> \in R}
           place == [c \in S |-> Cardinality(before(c))]
           s == InOrder(S, R)
<1>1. n \in Nat
  BY FS_CardinalityType
<1>a. \A c \in S : \A d : d \in before(c) <=> d \in S /\ <<d, c>> \in R
  OBVIOUS
<1>b. /\ place = [c \in S |-> place[c]]
      /\ \A c \in S : place[c] = Cardinality(before(c))
  OBVIOUS
<1>6. s = [i \in 1..n |-> CHOOSE c \in S : Cardinality(before(c)) = i - 1]
  BY DEF InOrder
<1> HIDE DEF before, place, s
<1>2. \A c \in S : IsFiniteSet(before(c)) /\ place[c] \in 0..(n - 1)
  <2> SUFFICES ASSUME NEW c \in S
               PROVE  IsFiniteSet(before(c)) /\ place[c] \in 0..(n - 1)
    OBVIOUS
  <2>1. IsFiniteSet(S \ {c}) /\ Cardinality(S \ {c}) = n - 1
    BY FS_RemoveElement
  <2>2. before(c) \in SUBSET (S \ {c})
    BY <1>a
  <2>3. IsFiniteSet(before(c)) /\ Cardinality(before(c)) <= Cardinality(S \ {c})
    BY <2>1, <2>2, FS_Subset
  <2>4. Cardinality(before(c)) \in Nat
    BY <2>3, FS_CardinalityType
  <2> HIDE DEF n
  <2>. QED  BY <1>1, <1>b, <2>1, <2>3, <2>4
<1>3. ASSUME NEW c \in S, NEW d \in S, <<c, d>> \in R
      PROVE  place[c] < place[d]
  <2>1. before(c) \in SUBSET before(d) /\ before(c) # before(d)
    BY <1>3, <1>a
  <2>2. Cardinality(before(c)) <= Cardinality(before(d)) /\ Cardinality(before(c)) # Cardinality(before(d))
    BY <1>2, <2>1, FS_Subset
  <2>3. place[c] \in Nat /\ place[d] \in Nat
    <3> HIDE DEF n
    <3>. QED  BY <1>1, <1>2
  <2>. QED  BY <1>b, <2>2, <2>3
<1>4. \A c, d \in S : place[c] = place[d] => c = d
  <2> SUFFICES ASSUME NEW c \in S, NEW d \in S, place[c] = place[d], c # d
               PROVE  FALSE
    OBVIOUS
  <2>1. place[c] < place[d] \/ place[d] < place[c]
    BY <1>3
  <2>2. place[c] \in Int /\ place[d] \in Int
    <3> HIDE DEF n
    <3>. QED  BY <1>1, <1>2
  <2>. QED  BY <2>1, <2>2
<1>5. \A k \in 0..(n - 1) : \E c \in S : place[c] = k
  <2>1. place \in [S -> 0..(n - 1)]
    BY <1>2, <1>b
  <2>2. place \in Injection(S, 0..(n - 1))
    <3>. QED  BY <1>4, <2>1 DEF Injection, IsInjective
  <2>3. IsFiniteSet(0..(n - 1)) /\ Cardinality(0..(n - 1)) = n
    <3>1. n - 1 \in Int
      BY <1>1
    <3>2. IsFiniteSet(0..(n-1)) /\ Cardinality(0..(n-1)) = IF 0 > n - 1 THEN 0 ELSE (n - 1) - 0 + 1
      BY <3>1, FS_Interval
    <3>. QED  BY <1>1, <3>2
  <2>4. place \in Surjection(S, 0..(n - 1))
    BY <2>2, <2>3, FS_Injection
  <2>. QED  BY <2>4 DEF Surjection
<1>7. \A i \in 1..n : s[i] \in S /\ place[s[i]] = i - 1
  <2> HIDE DEF n
  <2> SUFFICES ASSUME NEW i \in 1..n
               PROVE  s[i] \in S /\ place[s[i]] = i - 1
    OBVIOUS
  <2>1. i - 1 \in 0..(n - 1)
    BY <1>1
  <2>2. \E c \in S : Cardinality(before(c)) = i - 1
    BY <1>5, <1>b, <2>1
  <2>3. s[i] = CHOOSE c \in S : Cardinality(before(c)) = i - 1
    BY <1>6
  <2>. QED  BY <1>b, <2>2, <2>3
<1> HIDE DEF n
<1>8. s \in Seq(S) /\ DOMAIN s = 1..n
  BY <1>1, <1>6, <1>7
<1>9. \A c \in S : \E i \in 1..n : s[i] = c
  <2> SUFFICES ASSUME NEW c \in S
               PROVE  \E i \in 1..n : s[i] = c
    OBVIOUS
  <2>1. place[c] \in 0..(n - 1)
    BY <1>2
  <2>2. place[c] + 1 \in 1..n /\ (place[c] + 1) - 1 = place[c]
    BY <1>1, <2>1
  <2>. QED  BY <1>4, <1>7, <2>2
<1>10. \A i, j \in 1..n : <<s[i], s[j]>> \in R <=> i < j
  <2> SUFFICES ASSUME NEW i \in 1..n, NEW j \in 1..n
               PROVE  <<s[i], s[j]>> \in R <=> i < j
    OBVIOUS
  <2>1. /\ s[i] \in S /\ s[j] \in S
        /\ place[s[i]] = i - 1 /\ place[s[j]] = j - 1
    BY <1>7
  <2>2. <<s[i], s[j]>> \in R => i - 1 < j - 1
    BY <1>3, <2>1
  <2>3. <<s[j], s[i]>> \in R => j - 1 < i - 1
    BY <1>3, <2>1
  <2>4. i < j => s[i] # s[j]
    BY <2>1
  <2>5. s[i] # s[j] => <<s[i], s[j]>> \in R \/ <<s[j], s[i]>> \in R
    BY <2>1
  <2>. QED  BY <2>2, <2>3, <2>4, <2>5
<1>. QED  BY <1>1, <1>7, <1>8, <1>9, <1>10 DEF s, n

(* Finitely many numbers have a least and a greatest one.                  *)
LEMMA MinMaxAre ==
  ASSUME NEW S \in SUBSET Int, IsFiniteSet(S), S # {}
  PROVE  /\ Min(S) \in S /\ \A x \in S : Min(S) <= x
         /\ Max(S) \in S /\ \A x \in S : x <= Max(S)
<1> DEFINE R == {p \in S \X S : p[1] < p[2]}
           s == InOrder(S, R)
           n == Cardinality(S)
<1>1. \A x, y \in S : <<x, y>> \in R <=> x < y
  OBVIOUS
<1>2. /\ \A x \in S : <<x, x>> \notin R
      /\ \A x, y, z \in S : <<x, y>> \in R /\ <<y, z>> \in R => <<x, z>> \in R
      /\ \A x, y \in S : x # y => <<x, y>> \in R \/ <<y, x>> \in R
  <2> HIDE DEF R
  <2>. QED  BY <1>1
<1>3. /\ n \in Nat /\ \A i \in 1..n : s[i] \in S
      /\ \A x \in S : \E i \in 1..n : s[i] = x
      /\ \A i, j \in 1..n : <<s[i], s[j]>> \in R <=> i < j
  <2> HIDE DEF R
  <2>. QED  BY <1>2, InOrderIs
<1>4. \A i, j \in 1..n : s[i] < s[j] <=> i < j
  BY <1>1, <1>3
<1> HIDE DEF R, s, n
<1>5. 1 \in 1..n /\ n \in 1..n
  <2>1. PICK x \in S : TRUE
    OBVIOUS
  <2>2. PICK i \in 1..n : s[i] = x
    BY <1>3, <2>1
  <2>. QED  BY <1>3, <2>2
<1>6. \A x \in S : s[1] <= x /\ x <= s[n]
  <2> SUFFICES ASSUME NEW x \in S
               PROVE  s[1] <= x /\ x <= s[n]
    OBVIOUS
  <2>1. PICK i \in 1..n : s[i] = x
    BY <1>3
  <2>2. s[1] \in S /\ s[n] \in S
    BY <1>3, <1>5
  <2>3. ~ (i < 1) /\ ~ (n < i)
    BY <1>3
  <2>4. ~ (s[i] < s[1]) /\ ~ (s[n] < s[i])
    BY <1>4, <1>5, <2>3
  <2>5. s[1] \in Int /\ s[n] \in Int /\ x \in Int
    BY <2>2
  <2>. QED  BY <2>1, <2>4, <2>5
<1>7. (\E x \in S : \A y \in S : x <= y) /\ (\E x \in S : \A y \in S : x >= y)
  <2>1. s[1] \in S /\ s[n] \in S
    BY <1>3, <1>5
  <2>. QED  BY <1>6, <2>1
<1>. QED  BY <1>7 DEF Min, Max

(* The scores of a channel are finitely many numbers.                      *)
LEMMA ValuesAre ==
  ASSUME NEW channel, IsFiniteSet(channel), NEW score, \A c \in channel : score[c] \in Int
  PROVE  /\ {score[c] : c \in channel} \in SUBSET Int
         /\ IsFiniteSet({score[c] : c \in channel})
<1> DEFINE f == [c \in channel |-> score[c]]
           values == {score[c] : c \in channel}
<1>1. f \in Surjection(channel, values)
  BY DEF Surjection
<1> HIDE DEF f
<1>2. IsFiniteSet(values)
  BY <1>1, FS_Surjection
<1>. QED  BY <1>2

(* Shares grow with the scores, and a candidate without one has none.      *)
LEMMA ShareIs ==
  ASSUME NEW channel, IsFiniteSet(channel), NEW score, \A c \in channel : score[c] \in Int
  PROVE  /\ \A c : Share(channel, score, c) \in Nat
         /\ \A c : c \notin channel => Share(channel, score, c) = 0
         /\ \A c, d \in channel : score[c] > score[d] =>
              Share(channel, score, c) > Share(channel, score, d)
<1> DEFINE values == {score[c] : c \in channel}
<1>1. values \in SUBSET Int /\ IsFiniteSet(values)
  BY ValuesAre
<1>2. \A c \in channel : score[c] \in values
  OBVIOUS
<1>3. \A c : Share(channel, score, c) = IF c \notin channel THEN 0
                                        ELSE IF Cardinality(values) = 1 THEN 1
                                        ELSE score[c] - Min(values)
  BY DEF Share
<1> HIDE DEF values
<1>4. \A c \in channel : Min(values) \in Int /\ score[c] \in Int /\ Min(values) <= score[c]
  BY <1>1, <1>2, MinMaxAre
<1>5. \A c \in channel : score[c] - Min(values) \in Nat
  BY <1>4
<1>6. \A c : Share(channel, score, c) \in Nat
  BY <1>3, <1>5
<1>7. ASSUME NEW c \in channel, NEW d \in channel, score[c] > score[d]
      PROVE  Share(channel, score, c) > Share(channel, score, d)
  <2>1. Cardinality(values) # 1
    <3>1. SUFFICES ASSUME Cardinality(values) = 1
                   PROVE  FALSE
      OBVIOUS
    <3>2. PICK x : values = {x}
      BY <1>1, <3>1, FS_Singleton
    <3>. QED  BY <1>2, <1>4, <1>7, <3>2
  <2>. QED  BY <1>3, <1>4, <1>7, <2>1
<1>. QED  BY <1>3, <1>6, <1>7

LEMMA SpanIs ==
  ASSUME NEW channel, IsFiniteSet(channel), NEW score, \A c \in channel : score[c] \in Int
  PROVE  Span(channel, score) \in Nat /\ Span(channel, score) > 0
<1> DEFINE values == {score[c] : c \in channel}
<1>1. values \in SUBSET Int /\ IsFiniteSet(values)
  BY ValuesAre
<1>2. Span(channel, score) = IF Cardinality(values) <= 1 THEN 1 ELSE Max(values) - Min(values)
  BY DEF Span
<1> HIDE DEF values
<1>3. Cardinality(values) \in Nat
  BY <1>1, FS_CardinalityType
<1>4. CASE Cardinality(values) > 1
  <2>1. values # {}
    BY <1>4, FS_EmptySet
  <2>2. /\ Min(values) \in values /\ \A x \in values : Min(values) <= x
        /\ Max(values) \in values /\ \A x \in values : x <= Max(values)
    BY <1>1, <2>1, MinMaxAre
  <2>3. Min(values) # Max(values)
    <3>1. SUFFICES ASSUME Min(values) = Max(values)
                   PROVE  FALSE
      OBVIOUS
    <3>2. \A x \in values : x = Max(values)
      <4>1. Max(values) \in Int /\ \A x \in values : x \in Int
        BY <1>1, <2>2
      <4>2. \A x \in values : Max(values) <= x /\ x <= Max(values)
        BY <2>2, <3>1
      <4>. QED  BY <4>1, <4>2
    <3>3. values = {Max(values)}
      BY <2>2, <3>2
    <3>4. \A x : Cardinality({x}) = 1
      BY FS_Singleton
    <3>5. Cardinality(values) = 1
      BY <3>3, <3>4
    <3>. QED  BY <1>4, <3>5
  <2>4. Min(values) \in Int /\ Max(values) \in Int /\ Min(values) <= Max(values)
    BY <1>1, <2>2
  <2>5. Max(values) - Min(values) \in Nat /\ Max(values) - Min(values) > 0
    BY <2>3, <2>4
  <2>. QED  BY <1>2, <1>3, <1>4, <2>5
<1>5. CASE Cardinality(values) <= 1
  BY <1>2, <1>5
<1>. QED  BY <1>3, <1>4, <1>5

(* What scores and settings are.                                           *)
ScoresOK ==
  /\ config \in Configs /\ (~config.hybrid => config.alpha = 0)
  /\ vector \in [Corpus -> Int] /\ lexical \in [Corpus -> Int]

LEMMA Larger ==
  ASSUME NEW a \in Nat, NEW b \in Nat, NEW s \in Nat
  PROVE  /\ a * s \in Nat
         /\ a >= b => a * s >= b * s
         /\ a > b /\ s > 0 => a * s > b * s
<1>1. a * s \in Nat /\ b * s \in Nat
  OBVIOUS
<1>2. a >= b => a * s = b * s + (a - b) * s /\ (a - b) * s \in Nat
  OBVIOUS
<1>3. a > b /\ s > 0 => (a - b) * s > 0
  OBVIOUS
<1>. QED  BY <1>1, <1>2, <1>3

LEMMA FusedIs ==
  ASSUME ScoresOK, NEW near \in SUBSET Corpus, NEW words \in SUBSET Corpus
  PROVE  /\ \A c : Fused(near, words, c) \in Int
         /\ \A c, d \in Corpus :
              /\ d \in near => c \in near /\ vector[c] > vector[d]
              /\ d \in words => c \in words /\ lexical[c] > lexical[d]
              /\ (d \in near /\ config.alpha < 2) \/ (d \in words /\ config.alpha > 0)
              => Fused(near, words, c) > Fused(near, words, d)
<1> DEFINE v(c) == Share(near, vector, c)
           w(c) == Share(words, lexical, c)
           sv == Span(near, vector)
           sw == Span(words, lexical)
<1>1. /\ IsFiniteSet(near) /\ \A c \in near : vector[c] \in Int
      /\ IsFiniteSet(words) /\ \A c \in words : lexical[c] \in Int
  BY RetrievalAssumption, FS_Subset DEF ScoresOK
<1>2. /\ \A c : v(c) \in Nat
      /\ \A c : c \notin near => v(c) = 0
      /\ \A c, d \in near : vector[c] > vector[d] => v(c) > v(d)
  BY <1>1, ShareIs
<1>3. /\ \A c : w(c) \in Nat
      /\ \A c : c \notin words => w(c) = 0
      /\ \A c, d \in words : lexical[c] > lexical[d] => w(c) > w(d)
  BY <1>1, ShareIs
<1>4. sv \in Nat /\ sv > 0 /\ sw \in Nat /\ sw > 0
  BY <1>1, SpanIs
<1>5. \A c : Fused(near, words, c) = config.alpha * w(c) * sv + (2 - config.alpha) * v(c) * sw
  BY DEF Fused
<1>6. config.alpha \in 0..2
  BY DEF ScoresOK, Configs
<1> HIDE DEF v, w, sv, sw
<1>7. \A c : w(c) * sv \in Nat /\ v(c) * sw \in Nat
  BY <1>2, <1>3, <1>4, Larger
<1>8. \A c : Fused(near, words, c) = config.alpha * (w(c) * sv) + (2 - config.alpha) * (v(c) * sw)
  <2>1. \A a, x, s \in Int : a * x * s = a * (x * s)
    OBVIOUS
  <2>. QED  BY <1>2, <1>3, <1>4, <1>5, <1>6, <2>1
<1>9. \A c : \/ config.alpha = 0 /\ Fused(near, words, c) = 2 * (v(c) * sw)
             \/ config.alpha = 1 /\ Fused(near, words, c) = w(c) * sv + v(c) * sw
             \/ config.alpha = 2 /\ Fused(near, words, c) = 2 * (w(c) * sv)
  BY <1>6, <1>7, <1>8
<1>10. ASSUME NEW c \in Corpus, NEW d \in Corpus,
              d \in near => c \in near /\ vector[c] > vector[d],
              d \in words => c \in words /\ lexical[c] > lexical[d],
              (d \in near /\ config.alpha < 2) \/ (d \in words /\ config.alpha > 0)
       PROVE  Fused(near, words, c) > Fused(near, words, d)
  <2>1. /\ v(c) \in Nat /\ v(d) \in Nat /\ v(c) >= v(d)
        /\ w(c) \in Nat /\ w(d) \in Nat /\ w(c) >= w(d)
        /\ d \in near => v(c) > v(d)
        /\ d \in words => w(c) > w(d)
    BY <1>2, <1>3, <1>10
  <2>2. /\ v(c) * sw >= v(d) * sw /\ w(c) * sv >= w(d) * sv
        /\ d \in near => v(c) * sw > v(d) * sw
        /\ d \in words => w(c) * sv > w(d) * sv
    BY <1>4, <2>1, Larger
  <2>. QED  BY <1>7, <1>9, <1>10, <2>2
<1>11. \A c : Fused(near, words, c) \in Int
  BY <1>7, <1>9
<1>. QED  BY <1>10, <1>11

(* Ranked chunks are those found, each once, the ones that precede first.  *)
LEMMA RankedIs ==
  ASSUME ScoresOK, NEW near \in SUBSET Corpus, NEW words \in SUBSET Corpus
  PROVE  /\ Ranked(near, words) \in Seq(near \union words)
         /\ \A c \in near \union words :
              \E i \in DOMAIN Ranked(near, words) : Ranked(near, words)[i] = c
         /\ \A i, j \in DOMAIN Ranked(near, words) :
              Fused(near, words, Ranked(near, words)[i]) > Fused(near, words, Ranked(near, words)[j])
                => i < j
<1> DEFINE all == near \union words
           R == {p \in all \X all : Precedes(near, words, p[1], p[2])}
           s == Ranked(near, words)
           n == Cardinality(all)
<1>1. IsFiniteSet(all) /\ \A c \in all : c \in Int
  BY RetrievalAssumption, FS_Subset
<1>2. \A c, d \in all : <<c, d>> \in R <=> Precedes(near, words, c, d)
  OBVIOUS
<1>3. s = InOrder(all, R)
  BY DEF Ranked
<1> HIDE DEF R, s, all, n
<1>4. \A c : Fused(near, words, c) \in Int
  BY FusedIs
<1>5. /\ \A c \in all : <<c, c>> \notin R
      /\ \A c, d, e \in all : <<c, d>> \in R /\ <<d, e>> \in R => <<c, e>> \in R
      /\ \A c, d \in all : c # d => <<c, d>> \in R \/ <<d, c>> \in R
  BY <1>1, <1>2, <1>4 DEF Precedes
<1>6. /\ n \in Nat /\ DOMAIN s = 1..n /\ s \in Seq(all)
      /\ \A i \in 1..n : s[i] \in all
      /\ \A c \in all : \E i \in 1..n : s[i] = c
      /\ \A i, j \in 1..n : <<s[i], s[j]>> \in R <=> i < j
  <2>1. /\ Cardinality(all) \in Nat /\ DOMAIN InOrder(all, R) = 1..Cardinality(all)
        /\ InOrder(all, R) \in Seq(all)
        /\ \A i \in 1..Cardinality(all) : InOrder(all, R)[i] \in all
        /\ \A c \in all : \E i \in 1..Cardinality(all) : InOrder(all, R)[i] = c
        /\ \A i, j \in 1..Cardinality(all) :
             <<InOrder(all, R)[i], InOrder(all, R)[j]>> \in R <=> i < j
    BY <1>1, <1>5, InOrderIs
  <2>. QED  BY <1>3, <2>1 DEF n
<1>7. \A i, j \in 1..n : Fused(near, words, s[i]) > Fused(near, words, s[j]) => i < j
  BY <1>2, <1>6 DEF Precedes
<1>. QED  BY <1>6, <1>7 DEF s, all

(* What is ahead of a hit, and why it is one.                              *)
FirstOnes(h) ==
  \A j \in DOMAIN h : \A c \in Corpus : Beats(c, h[j]) => \E i \in 1..j - 1 : h[i] = c
Evident(c) ==
  \/ vector[c] >= config.threshold /\ config.alpha < 2
  \/ config.hybrid /\ config.alpha > 0 /\ c \in Matching

(* A channel has what beats one of its chunks.                             *)
LEMMA BestHasBetter ==
  ASSUME ScoresOK, NEW S, NEW score, NEW n, NEW T \in Best(S, score, n),
         \A c \in S : score[c] \in Int,
         NEW d \in T, NEW c \in S, score[c] > score[d]
  PROVE  c \in T /\ T \subseteq S
<1>1. T \subseteq S /\ \A t \in T, u \in S \ T : score[t] >= score[u]
  BY DEF Best
<1>. QED  BY <1>1

LEMMA RankedFirst ==
  ASSUME ScoresOK, NEW near \in SUBSET Corpus, NEW words \in SUBSET Matching,
         \A d \in near, c \in Corpus : Beats(c, d) => c \in near,
         \A d \in words, c \in Corpus : Beats(c, d) => c \in words,
         config.alpha < 2 \/ near = {}, config.alpha > 0 \/ words = {}
  PROVE  FirstOnes(Ranked(near, words))
<1> DEFINE s == Ranked(near, words)
<1>1. words \in SUBSET Corpus /\ \A d \in words : lexical[d] # Absent
  BY DEF Matching
<1>2. /\ s \in Seq(near \union words)
      /\ \A c \in near \union words : \E i \in DOMAIN s : s[i] = c
      /\ \A i, j \in DOMAIN s : Fused(near, words, s[i]) > Fused(near, words, s[j]) => i < j
  BY <1>1, RankedIs
<1> HIDE DEF s
<1>3. ASSUME NEW j \in DOMAIN s, NEW c \in Corpus, Beats(c, s[j])
      PROVE  \E i \in 1..j - 1 : s[i] = c
  <2> DEFINE d == s[j]
  <2>1. d \in near \union words /\ d \in Corpus /\ Beats(c, d) /\ j \in Nat
    BY <1>1, <1>2, <1>3
  <2>a. DOMAIN s = 1..Len(s) /\ Len(s) \in Nat
    BY <1>2
  <2> HIDE DEF d
  <2>2. /\ d \in near => c \in near /\ vector[c] > vector[d]
        /\ d \in words => c \in words /\ lexical[c] > lexical[d]
    BY <1>1, <2>1 DEF Beats
  <2>3. (d \in near /\ config.alpha < 2) \/ (d \in words /\ config.alpha > 0)
    BY <2>1
  <2>4. Fused(near, words, c) > Fused(near, words, d)
    BY <1>1, <2>1, <2>2, <2>3, FusedIs
  <2>5. c \in near \union words
    BY <2>1, <2>2
  <2>6. PICK i \in DOMAIN s : s[i] = c
    BY <1>2, <2>5
  <2>7. i < j
    BY <1>2, <2>4, <2>6 DEF d
  <2>. QED  BY <2>a, <2>6, <2>7
<1>. QED  BY <1>3 DEF FirstOnes, s

(* Cutting the last ones and dropping what is not close enough leave what  *)
(* is ahead of the others.                                                 *)
LEMMA CutFirst ==
  ASSUME NEW S, NEW s \in Seq(S), FirstOnes(s), NEW n \in Nat
  PROVE  /\ FirstOnes(Cut(s, n)) /\ Cut(s, n) \in Seq(S)
<1>1. CASE Len(s) <= n
  BY <1>1 DEF Cut
<1>2. CASE ~ (Len(s) <= n)
  <2> DEFINE t == SubSeq(s, 1, n)
  <2>1. /\ Cut(s, n) = t /\ t \in Seq(S) /\ DOMAIN t = 1..n
        /\ \A i \in 1..n : i \in DOMAIN s /\ t[i] = s[i]
    BY <1>2 DEF Cut
  <2> HIDE DEF t
  <2>2. ASSUME NEW j \in 1..n, NEW c \in Corpus, Beats(c, t[j])
        PROVE  \E i \in 1..j - 1 : t[i] = c
    <3>1. PICK i \in 1..j - 1 : s[i] = c
      BY <2>1, <2>2 DEF FirstOnes
    <3>2. i \in 1..n
      BY <2>2
    <3>. QED  BY <2>1, <3>1, <3>2
  <2>. QED  BY <2>1, <2>2 DEF FirstOnes
<1>. QED  BY <1>1, <1>2

LEMMA RelevantFirst ==
  ASSUME ScoresOK, NEW s \in Seq(Corpus), FirstOnes(s), ~config.hybrid
  PROVE  /\ FirstOnes(Relevant(s)) /\ Relevant(s) \in Seq(Corpus)
         /\ \A i \in DOMAIN Relevant(s) : vector[Relevant(s)[i]] >= config.threshold
<1> DEFINE close == {i \in DOMAIN s : s[i] \in Eligible(Corpus)}
           R == {p \in close \X close : p[1] < p[2]}
           spots == InOrder(close, R)
           n == Cardinality(close)
           r == [i \in DOMAIN spots |-> s[spots[i]]]
<1>1. DOMAIN s = 1..Len(s) /\ Len(s) \in Nat /\ \A i \in DOMAIN s : s[i] \in Corpus
  OBVIOUS
<1>2. close \in SUBSET Nat /\ IsFiniteSet(close)
  <2>1. IsFiniteSet(1..Len(s)) /\ close \in SUBSET (1..Len(s))
    BY <1>1, FS_Interval
  <2>. QED  BY <2>1, FS_Subset
<1>3. \A i, j \in close : <<i, j>> \in R <=> i < j
  OBVIOUS
<1>4. Relevant(s) = r
  BY DEF Relevant
<1>a. \A i : i \in close <=> i \in DOMAIN s /\ vector[s[i]] >= config.threshold
  BY <1>1 DEF Eligible
<1> HIDE DEF close, R
<1>5. /\ n \in Nat /\ DOMAIN spots = 1..n
      /\ \A i \in 1..n : spots[i] \in close
      /\ \A k \in close : \E i \in 1..n : spots[i] = k
      /\ \A i, j \in 1..n : spots[i] < spots[j] <=> i < j
  <2>1. /\ \A i \in close : <<i, i>> \notin R
        /\ \A i, j, k \in close : <<i, j>> \in R /\ <<j, k>> \in R => <<i, k>> \in R
        /\ \A i, j \in close : i # j => <<i, j>> \in R \/ <<j, i>> \in R
    BY <1>2, <1>3
  <2>2. /\ n \in Nat /\ DOMAIN spots = 1..n
        /\ \A i \in 1..n : spots[i] \in close
        /\ \A k \in close : \E i \in 1..n : spots[i] = k
        /\ \A i, j \in 1..n : <<spots[i], spots[j]>> \in R <=> i < j
    BY <1>2, <2>1, InOrderIs
  <2> HIDE DEF n, spots
  <2>. QED  BY <1>3, <2>2
<1> HIDE DEF n, spots
<1>6. DOMAIN r = 1..n /\ \A i \in 1..n : r[i] = s[spots[i]]
  BY <1>5
<1>7. r \in Seq(Corpus)
  BY <1>1, <1>5, <1>a
<1> HIDE DEF r
<1>8. \A i \in 1..n : vector[r[i]] >= config.threshold
  BY <1>5, <1>6, <1>a
<1>9. ASSUME NEW j \in 1..n, NEW c \in Corpus, Beats(c, r[j])
      PROVE  \E i \in 1..j - 1 : r[i] = c
  <2>1. spots[j] \in DOMAIN s /\ Beats(c, s[spots[j]])
    BY <1>5, <1>6, <1>9, <1>a
  <2>2. PICK k \in 1..spots[j] - 1 : s[k] = c
    BY <1>9, <2>1 DEF FirstOnes
  <2>3. vector[c] \in Int /\ vector[r[j]] \in Int /\ config.threshold \in Int
    <3>1. r[j] \in Corpus
      BY <1>1, <1>6, <2>1
    <3>. QED  BY <3>1, RetrievalAssumption DEF ScoresOK, Configs
  <2>4. vector[c] >= config.threshold
    BY <1>8, <1>9, <2>3 DEF Beats
  <2>5. k \in close /\ k < spots[j]
    BY <1>1, <1>a, <2>1, <2>2, <2>4
  <2>6. PICK i \in 1..n : spots[i] = k
    BY <1>5, <2>5
  <2>7. i < j
    BY <1>5, <2>5, <2>6
  <2>. QED  BY <1>5, <1>6, <2>2, <2>6, <2>7
<1>. QED  BY <1>4, <1>6, <1>7, <1>8, <1>9 DEF FirstOnes

(* Whatever is found is ranked by its evidence.                            *)
LEMMA FoundIsRanked ==
  ASSUME ScoresOK, NEW h \in Found
  PROVE  FirstOnes(h) /\ \A i \in DOMAIN h : Evident(h[i])
<1> DEFINE k == config.limit
<1>1. /\ k \in Nat /\ 2 * k \in Nat /\ config.threshold \in Int /\ config.alpha \in 0..2
      /\ \A c \in Corpus : vector[c] \in Int /\ lexical[c] \in Int
      /\ Matching \subseteq Corpus /\ {} \in SUBSET Corpus /\ {} \in SUBSET Matching
  <2>1. config.limit \in Nat /\ config.threshold \in Int /\ config.alpha \in 0..2
    BY RetrievalAssumption DEF ScoresOK, Configs
  <2>2. /\ \A c \in Corpus : vector[c] \in Int /\ lexical[c] \in Int
        /\ Matching \subseteq Corpus
    BY DEF ScoresOK, Matching
  <2>. QED  BY <2>1, <2>2
<1>2. ASSUME NEW n, NEW near \in Best(Corpus, vector, n)
      PROVE  /\ near \in SUBSET Corpus
             /\ \A d \in near, c \in Corpus : Beats(c, d) => c \in near
             /\ Eligible(near) \in SUBSET Corpus
             /\ \A d \in Eligible(near), c \in Corpus : Beats(c, d) => c \in Eligible(near)
             /\ \A d \in Eligible(near) : vector[d] >= config.threshold
  <2>1. near \in SUBSET Corpus
    BY DEF Best
  <2>2. \A d \in near, c \in Corpus : Beats(c, d) => c \in near
    BY <1>1, BestHasBetter DEF Beats
  <2>3. \A d : d \in Eligible(near) <=> d \in near /\ vector[d] >= config.threshold
    BY DEF Eligible
  <2>4. \A d \in near, c \in Corpus : Beats(c, d) /\ vector[d] >= config.threshold
                                        => vector[c] >= config.threshold
    BY <1>1, <2>1 DEF Beats
  <2>. QED  BY <2>1, <2>2, <2>3, <2>4
<1>3. ASSUME NEW n, NEW words \in Best(Matching, lexical, n)
      PROVE  /\ words \in SUBSET Matching /\ words \in SUBSET Corpus
             /\ \A d \in words, c \in Corpus : Beats(c, d) => c \in words
  <2>1. words \in SUBSET Matching
    BY DEF Best
  <2>2. ASSUME NEW d \in words, NEW c \in Corpus, Beats(c, d)
        PROVE  c \in words
    <3>1. c \in Matching /\ lexical[c] > lexical[d] /\ \A x \in Matching : lexical[x] \in Int
      BY <1>1, <2>1, <2>2 DEF Beats, Matching
    <3>. QED  BY <3>1, BestHasBetter
  <2>. QED  BY <1>1, <2>1, <2>2
<1>4. CASE ~config.hybrid
  <2>1. PICK near \in Best(Corpus, vector, k) : h = Relevant(Ranked(near, {}))
    BY <1>4 DEF Found
  <2>2. config.alpha = 0
    BY <1>4 DEF ScoresOK
  <2>3. near \in SUBSET Corpus /\ \A d \in near, c \in Corpus : Beats(c, d) => c \in near
    BY <1>2
  <2>4. FirstOnes(Ranked(near, {}))
    BY <1>1, <2>2, <2>3, RankedFirst
  <2>5. Ranked(near, {}) \in Seq(near \union {})
    BY <1>1, <2>3, RankedIs
  <2>6. Ranked(near, {}) \in Seq(Corpus)
    BY <2>3, <2>5
  <2>7. /\ FirstOnes(Relevant(Ranked(near, {})))
        /\ \A i \in DOMAIN Relevant(Ranked(near, {})) :
             vector[Relevant(Ranked(near, {}))[i]] >= config.threshold
    BY <1>4, <2>4, <2>6, RelevantFirst
  <2>. QED  BY <2>1, <2>2, <2>7 DEF Evident
<1>5. CASE config.hybrid /\ config.alpha = 0
  <2>1. PICK near \in Best(Corpus, vector, k) : h = Ranked(Eligible(near), {})
    BY <1>5 DEF Found
  <2> DEFINE close == Eligible(near)
  <2>2. /\ close \in SUBSET Corpus /\ \A d \in close, c \in Corpus : Beats(c, d) => c \in close
        /\ \A d \in close : vector[d] >= config.threshold
    BY <1>2
  <2> HIDE DEF close
  <2>3. FirstOnes(Ranked(close, {}))
    BY <1>1, <1>5, <2>2, RankedFirst
  <2>4. Ranked(close, {}) \in Seq(close \union {})
    BY <1>1, <2>2, RankedIs
  <2>5. \A i \in DOMAIN Ranked(close, {}) : Ranked(close, {})[i] \in close
    BY <2>4
  <2>. QED  BY <1>5, <2>1, <2>2, <2>3, <2>5 DEF Evident, close
<1>6. CASE config.hybrid /\ config.alpha = 2
  <2>1. PICK words \in Best(Matching, lexical, k) : h = Ranked({}, words)
    BY <1>6 DEF Found
  <2>2. /\ words \in SUBSET Matching /\ words \in SUBSET Corpus
        /\ \A d \in words, c \in Corpus : Beats(c, d) => c \in words
    BY <1>3
  <2>3. FirstOnes(Ranked({}, words))
    BY <1>1, <1>6, <2>2, RankedFirst
  <2>4. Ranked({}, words) \in Seq({} \union words)
    BY <1>1, <2>2, RankedIs
  <2>5. \A i \in DOMAIN Ranked({}, words) : Ranked({}, words)[i] \in words
    BY <2>4
  <2>. QED  BY <1>6, <2>1, <2>2, <2>3, <2>5 DEF Evident
<1>7. CASE config.hybrid /\ config.alpha = 1
  <2>1. PICK near \in Best(Corpus, vector, 2 * k), words \in Best(Matching, lexical, 2 * k) :
          h = Cut(Ranked(Eligible(near), words), k)
    BY <1>7 DEF Found
  <2> DEFINE close == Eligible(near)
  <2>2. /\ close \in SUBSET Corpus /\ \A d \in close, c \in Corpus : Beats(c, d) => c \in close
        /\ \A d \in close : vector[d] >= config.threshold
    BY <1>2
  <2>3. /\ words \in SUBSET Matching /\ words \in SUBSET Corpus
        /\ \A d \in words, c \in Corpus : Beats(c, d) => c \in words
    BY <1>3
  <2> HIDE DEF close
  <2>4. FirstOnes(Ranked(close, words))
    BY <1>7, <2>2, <2>3, RankedFirst
  <2>5. Ranked(close, words) \in Seq(close \union words)
    BY <2>2, <2>3, RankedIs
  <2>6. FirstOnes(Cut(Ranked(close, words), k)) /\ Cut(Ranked(close, words), k) \in Seq(close \union words)
    BY <1>1, <2>4, <2>5, CutFirst
  <2>7. h = Cut(Ranked(close, words), k)
    BY <2>1 DEF close
  <2>8. \A i \in DOMAIN h : h[i] \in close \union words
    BY <2>6, <2>7
  <2>. QED  BY <1>7, <2>2, <2>3, <2>6, <2>7, <2>8 DEF Evident
<1>. QED  BY <1>1, <1>4, <1>5, <1>6, <1>7

SearchInv == ScoresOK /\ RankedByEvidence

LEMMA SearchInductive ==
  /\ SearchInit => SearchInv
  /\ SearchInv /\ [SearchNext]_searchVars => SearchInv'
<1>1. ASSUME SearchInit
      PROVE  SearchInv
  <2>1. Min(Cosines) \in Int /\ Absent \in Int
    BY RetrievalAssumption, MinMaxAre
  <2>. QED  BY <1>1, <2>1 DEF SearchInit, SearchInv, ScoresOK, RankedByEvidence
<1>2. ASSUME SearchInv, [SearchNext]_searchVars
      PROVE  SearchInv'
  <2>1. CASE Search
    <3>1. vector' \in [Corpus -> Int] /\ lexical' \in [Corpus -> Int]
      BY <2>1, RetrievalAssumption DEF Search
    <3>. QED  BY <1>2, <2>1, <3>1 DEF Search, SearchInv, ScoresOK, RankedByEvidence
  <2>2. CASE Find
    <3>1. hits' \in Found /\ UNCHANGED <<config, vector, lexical>>
      BY <2>2 DEF Find
    <3>2. ScoresOK'
      BY <1>2, <3>1 DEF SearchInv, ScoresOK
    <3>3. FirstOnes(hits') /\ \A i \in DOMAIN hits' : Evident(hits'[i])
      BY <1>2, <3>1, FoundIsRanked DEF SearchInv
    <3>4. RankedByEvidence'
      BY <3>1, <3>3 DEF RankedByEvidence, FirstOnes, Evident, Beats, Matching
    <3>. QED  BY <3>2, <3>4 DEF SearchInv
  <2>3. CASE Reply \/ AgentReply \/ SearchFails \/ UNCHANGED searchVars
    <3>1. UNCHANGED <<config, vector, lexical, hits>>
      BY <2>3 DEF Reply, AgentReply, SearchFails, searchVars
    <3>. QED  BY <1>2, <3>1 DEF SearchInv, ScoresOK, RankedByEvidence, Beats, Matching
  <2>. QED  BY <1>2, <2>1, <2>2, <2>3 DEF SearchNext
<1>. QED  BY <1>1, <1>2

-----------------------------------------------------------------------------
(* How a text is cut.                                                      *)

(* A set of numbers that is not empty has a least one.                     *)
LEMMA Smallest ==
  ASSUME NEW S \in SUBSET Nat, S # {}
  PROVE  \E m \in S : \A k \in S : m <= k
<1>1. \A x, y \in Nat : <<x, y>> \in OpToRel(<, Nat) <=> x < y
  BY Zenon DEF OpToRel
<1>2. PICK R : IsWellFoundedOn(R, Nat) /\ \A x, y \in Nat : <<x, y>> \in R <=> x < y
  BY <1>1, NatLessThanWellFounded, Zenon
<1>3. PICK m \in S : \A k \in S : ~ (<<k, m>> \in R)
  <2>1. IsWellFoundedOn(R, Nat)
    BY <1>2
  <2>. QED  BY <2>1, WFMin, Zenon
<1>4. \A k \in S : ~ (k < m)
  BY <1>2, <1>3
<1>. QED  BY <1>4

\* The results of n steps, each from the one before.
IsFold(f, T, start, n, step) ==
  f \in [0..n -> T] /\ f[0] = start /\ \A i \in 1..n : f[i] = step[<<f[i - 1], i>>]

(* They exist.                                                             *)
LEMMA Folded ==
  ASSUME NEW T, NEW start \in T, NEW n \in Nat, NEW step \in [T \X (1..n) -> T]
  PROVE  \E f : IsFold(f, T, start, n, step)
<1> DEFINE Upto(k) == \E f \in [0..k -> T] :
                        f[0] = start /\ \A i \in 1..k : f[i] = step[<<f[i - 1], i>>]
           Bad == {k \in 0..n : ~ Upto(k)}
<1>1. SUFFICES ASSUME Bad # {}
               PROVE  FALSE
  <2>1. n \in 0..n
    OBVIOUS
  <2>2. Bad = {} => Upto(n)
    BY <2>1
  <2> HIDE DEF Bad
  <2>3. Upto(n) => \E f : IsFold(f, T, start, n, step)
    BY Zenon DEF IsFold
  <2>. QED  BY <2>2, <2>3, Zenon
<1>2. Bad \in SUBSET Nat
  OBVIOUS
<1>3. PICK k \in Bad : \A l \in Bad : k <= l
  <2> HIDE DEF Bad
  <2>. QED  BY <1>1, <1>2, Smallest
<1>4. k \in 0..n /\ ~ Upto(k)
  BY <1>3
<1>5. CASE k = 0
  <2>1. [i \in 0..0 |-> start] \in [0..0 -> T] /\ [i \in 0..0 |-> start][0] = start
    OBVIOUS
  <2>2. 1..0 = {}
    OBVIOUS
  <2>. QED  BY <1>4, <1>5, <2>1, <2>2
<1>6. CASE k # 0
  <2>1. k - 1 \in 0..n /\ k - 1 \notin Bad
    <3> HIDE DEF Bad
    <3>. QED  BY <1>3, <1>4, <1>6
  <2>2. PICK f \in [0..k-1 -> T] :
          f[0] = start /\ \A i \in 1..k-1 : f[i] = step[<<f[i - 1], i>>]
    BY <2>1
  <2>3. k - 1 \in 0..k-1 /\ f[k-1] \in T /\ <<f[k-1], k>> \in T \X (1..n)
    BY <1>4, <1>6, <2>2
  <2>4. step[<<f[k-1], k>>] \in T
    BY <2>3
  <2> DEFINE g == [i \in 0..k |-> IF i = k THEN step[<<f[k-1], k>>] ELSE f[i]]
  <2>5. \A i \in 0..k : i # k => i \in 0..k-1 /\ g[i] = f[i]
    BY <1>4
  <2>6. g \in [0..k -> T]
    BY <2>2, <2>4, <2>5
  <2>7. g[k] = step[<<f[k-1], k>>]
    BY <1>4
  <2> HIDE DEF g
  <2>8. g[0] = start
    BY <1>4, <1>6, <2>2, <2>5
  <2>9. ASSUME NEW i \in 1..k
        PROVE  g[i] = step[<<g[i-1], i>>]
    <3>1. i - 1 \in 0..k /\ i - 1 # k /\ g[i-1] = f[i-1]
      BY <1>4, <2>5
    <3>2. CASE i = k
      BY <2>7, <3>1, <3>2
    <3>3. CASE i # k
      <4>1. i \in 1..k-1 /\ i \in 0..k
        BY <1>4, <3>3
      <4>. QED  BY <2>2, <2>5, <3>1, <3>3, <4>1
    <3>. QED  BY <3>2, <3>3
  <2>. QED  BY <1>4, <2>6, <2>8, <2>9
<1>. QED  BY <1>5, <1>6

Char == [line : Nat, at : Nat, breaks : BOOLEAN]
TextOK == document \in Documents /\ cut \in Allowed
Number == 1..Len(document.lines)

LEMMA DocumentIs ==
  ASSUME TextOK
  PROVE  /\ Len(document.lines) \in Nat /\ DOMAIN document.lines = Number
         /\ document.markdown \in BOOLEAN
         /\ \A i \in Number : /\ document.lines[i].size \in Nat \ {0}
                              /\ document.lines[i].size = 1 <=> Kind(i) = "blank"
         /\ \E i \in Number : Kind(i) # "blank"
         /\ cut.size \in Nat /\ cut.overlap \in Nat /\ cut.size > 0 /\ cut.overlap < cut.size
<1>1. PICK n \in 1..MaxLines : document.lines \in [1..n -> Lines]
  BY DEF TextOK, Documents
<1>2. Len(document.lines) = n /\ Number = 1..n /\ n \in Nat
  <2>1. n \in Nat
    BY <1>1, ChunkingAssumption
  <2>. QED  BY <1>1, <2>1 DEF Number
<1>3. /\ document.markdown \in BOOLEAN
      /\ \E i \in DOMAIN document.lines : document.lines[i].size > 1
  BY DEF TextOK, Documents
<1>4. \A i \in Number : document.lines[i] \in Lines
  BY <1>1, <1>2
<1>5. /\ cut.size \in Nat /\ cut.overlap \in Nat /\ cut.size > 0 /\ cut.overlap < cut.size
  BY ChunkingAssumption DEF TextOK, Allowed
<1>6. \A i \in Number : /\ document.lines[i].size \in Nat \ {0}
                        /\ document.lines[i].size = 1 <=> Kind(i) = "blank"
  BY <1>4, ChunkingAssumption DEF Kind
<1>7. \E i \in Number : Kind(i) # "blank"
  BY <1>1, <1>2, <1>3, <1>6
<1>. QED  BY <1>1, <1>2, <1>3, <1>5, <1>6, <1>7

LEMMA LineIs ==
  ASSUME TextOK, NEW i \in Number
  PROVE  /\ Line(i) \in Seq(Char) /\ Len(Line(i)) = document.lines[i].size
         /\ Kind(i) # "blank" => ~ Blank(Line(i))
         /\ \A x \in ToSet(Line(i)) : x.line = i
         /\ \A x \in ToSet(Line(i)) : ~ x.breaks => Kind(i) # "blank"
<1> DEFINE n == document.lines[i].size
<1>1. n \in Nat \ {0} /\ (n = 1 <=> Kind(i) = "blank") /\ i \in Nat
  BY DocumentIs DEF Number
<1>2. Line(i) = [k \in 1..n |-> [line |-> i, at |-> k, breaks |-> k = n]]
  BY DEF Line
<1> HIDE DEF n
<1>3. /\ Line(i) \in Seq(Char) /\ Len(Line(i)) = n /\ DOMAIN Line(i) = 1..n
      /\ \A k \in 1..n : Line(i)[k].line = i /\ Line(i)[k].breaks = (k = n)
  <2>1. \A k \in 1..n : [line |-> i, at |-> k, breaks |-> k = n] \in Char
    BY <1>1 DEF Char
  <2>. QED  BY <1>1, <1>2, <2>1
<1>4. Kind(i) # "blank" => 1 \in DOMAIN Line(i) /\ ~ Line(i)[1].breaks
  <2>1. SUFFICES ASSUME n # 1
                 PROVE  1 \in DOMAIN Line(i) /\ ~ Line(i)[1].breaks
    BY <1>1, Zenon
  <2>2. 1 \in 1..n /\ (1 = n) = FALSE
    BY <1>1, <2>1
  <2>3. Line(i)[1].breaks = (1 = n)
    BY <1>3, <2>2, Zenon
  <2>. QED  BY <1>3, <2>2, <2>3, Zenon
<1>5. \A x \in ToSet(Line(i)) : x.line = i
  BY <1>3 DEF ToSet
<1>6. ASSUME NEW x \in ToSet(Line(i)), ~ x.breaks
      PROVE  Kind(i) # "blank"
  <2>1. PICK k \in 1..n : x = Line(i)[k]
    BY <1>3 DEF ToSet
  <2>2. k # n
    BY <1>3, <1>6, <2>1
  <2>. QED  BY <1>1, <2>2
<1>. QED  BY <1>3, <1>4, <1>5, <1>6 DEF Blank, n

(* The sequences put after each other have the elements of all of them.    *)
LEMMA FlattenIs ==
    ASSUME NEW S, NEW seqs \in Seq(Seq(S))
    PROVE  /\ FlattenSeq(seqs) \in Seq(S)
           /\ ToSet(FlattenSeq(seqs)) = UNION {ToSet(seqs[p]) : p \in DOMAIN seqs}
<1> DEFINE Upto(f, n) == f = [i \in 1..n |-> IF i = 1 THEN seqs[i] ELSE f[i-1] \o seqs[i]]
<1>0. Len(seqs) \in Nat /\ DOMAIN seqs = 1..Len(seqs) /\ \A p \in 1..Len(seqs) : seqs[p] \in Seq(S)
  OBVIOUS
<1>1. CASE Len(seqs) = 0
  <2>1. FlattenSeq(seqs) = seqs /\ seqs = <<>>
    BY <1>1 DEF FlattenSeq
  <2>2. DOMAIN seqs = {}
    BY <1>0, <1>1
  <2> QED  BY <2>1, <2>2 DEF ToSet
<1>2. CASE Len(seqs) # 0
  <2>1. \A n \in Nat : \E f : Upto(f, n)
    <3> DEFINE Bad == {n \in Nat : ~ \E f : Upto(f, n)}
    <3>1. SUFFICES ASSUME Bad # {}
                   PROVE  FALSE
      OBVIOUS
    <3>2. PICK n \in Bad : \A k \in Bad : n <= k
      BY <3>1, Smallest
    <3>3. n # 0
      <4>1. Upto([i \in 1..0 |-> 0], 0)
        OBVIOUS
      <4>. QED  BY <4>1
    <3>4. n - 1 \in Nat /\ n - 1 \notin Bad
      <4>1. n \in Nat /\ \A k \in Bad : n <= k
        BY <3>2
      <4>. HIDE DEF Bad
      <4>. QED  BY <3>3, <4>1
    <3>5. PICK f : Upto(f, n - 1)
      BY <3>4
    <3> DEFINE g == [i \in 1..n |-> IF i = 1 THEN seqs[1]
                                    ELSE IF i = n THEN f[n-1] \o seqs[n] ELSE f[i]]
    <3>6. ASSUME NEW i \in 1..n
          PROVE  g[i] = IF i = 1 THEN seqs[i] ELSE g[i-1] \o seqs[i]
      <4>1. CASE i = 1
        BY <4>1
      <4>2. CASE i # 1
        <5>1. i - 1 \in 1..(n-1)
          BY <4>2
        <5>2. g[i-1] = f[i-1]
          BY <5>1, <3>5
        <5>3. i # n => f[i] = f[i-1] \o seqs[i]
          <6>1. i # n => i \in 1..(n-1)
            BY <3>4
          <6>. QED  BY <4>2, <3>5, <6>1
        <5>. QED  BY <4>2, <5>1, <5>2, <5>3
      <4>. QED  BY <4>1, <4>2
    <3>7. Upto(g, n)
      <4> HIDE DEF g
      <4>1. g = [i \in 1..n |-> g[i]]
        BY DEF g
      <4>. QED  BY <3>6, <4>1
    <3>. QED  BY <3>2, <3>7
  <2> DEFINE f == CHOOSE f : Upto(f, Len(seqs))
  <2>2. Upto(f, Len(seqs))
    BY <1>0, <2>1
  <2>3. FlattenSeq(seqs) = f[Len(seqs)]
    BY <1>2, Zenon DEF FlattenSeq
  <2> HIDE DEF f
  <2> DEFINE OK(i) == /\ f[i] \in Seq(S)
                      /\ ToSet(f[i]) = UNION {ToSet(seqs[p]) : p \in 1..i}
             Wrong == {i \in 1..Len(seqs) : ~ OK(i)}
  <2>4. Wrong = {}
    <3>1. SUFFICES ASSUME Wrong # {}
                   PROVE  FALSE
      OBVIOUS
    <3>2. PICK i \in Wrong : \A k \in Wrong : i <= k
      <4>1. Wrong \in SUBSET Nat
        OBVIOUS
      <4>. HIDE DEF Wrong
      <4>. QED  BY <4>1, <3>1, Smallest
    <3>3. CASE i = 1
      <4>1. f[1] = seqs[1] /\ 1..1 = {1}
        BY <2>2, <3>2, <3>3
      <4>. QED  BY <1>0, <3>2, <3>3, <4>1
    <3>4. CASE i # 1
      <4>1. i - 1 \in 1..Len(seqs) /\ i - 1 \notin Wrong
        <5>1. i \in 1..Len(seqs) /\ \A k \in Wrong : i <= k
          BY <3>2
        <5>. HIDE DEF Wrong
        <5>. QED  BY <1>0, <3>4, <5>1
      <4>2. f[i-1] \in Seq(S) /\ ToSet(f[i-1]) = UNION {ToSet(seqs[p]) : p \in 1..(i-1)}
        BY <4>1
      <4>3. f[i] = f[i-1] \o seqs[i] /\ seqs[i] \in Seq(S)
        BY <1>0, <2>2, <3>2, <3>4
      <4>4. f[i] \in Seq(S)
        BY <4>2, <4>3
      <4>5. ToSet(f[i]) = ToSet(f[i-1]) \cup ToSet(seqs[i])
        <5> DEFINE a == f[i-1]
                   b == seqs[i]
        <5>1. a \in Seq(S) /\ b \in Seq(S)
          BY <4>2, <4>3
        <5> HIDE DEF a, b
        <5>2. ToSet(a \o b) = ToSet(a) \cup ToSet(b)
          <6>1. \A j \in DOMAIN (a \o b) : (a \o b)[j] \in ToSet(a) \cup ToSet(b)
            BY <5>1 DEF ToSet
          <6>2. \A j \in DOMAIN a : j \in DOMAIN (a \o b) /\ (a \o b)[j] = a[j]
            BY <5>1
          <6>3. \A j \in 1..Len(b) : j + Len(a) \in DOMAIN (a \o b) /\ (a \o b)[j + Len(a)] = b[j]
            BY <5>1
          <6>4. \A j \in DOMAIN b : b[j] \in ToSet(a \o b)
            <7>1. DOMAIN b = 1..Len(b)
              BY <5>1
            <7>. QED  BY <6>3, <7>1, Zenon DEF ToSet
          <6>5. \A j \in DOMAIN a : a[j] \in ToSet(a \o b)
            BY <6>2, Zenon DEF ToSet
          <6>6. ToSet(a \o b) \subseteq ToSet(a) \cup ToSet(b)
            BY <6>1, Zenon DEF ToSet
          <6>7. ToSet(a) \subseteq ToSet(a \o b) /\ ToSet(b) \subseteq ToSet(a \o b)
            BY <6>4, <6>5, Zenon DEF ToSet
          <6>. QED  BY <6>6, <6>7
        <5>. QED  BY <4>3, <5>2 DEF a, b
      <4>6. 1..i = (1..(i-1)) \cup {i}
        BY <3>2
      <4>7. UNION {ToSet(seqs[p]) : p \in 1..i} = ToSet(f[i-1]) \cup ToSet(seqs[i])
        BY <4>2, <4>6
      <4>. QED  BY <3>2, <4>4, <4>5, <4>7
    <3>. QED  BY <3>3, <3>4
  <2>5. Len(seqs) \in 1..Len(seqs)
    BY <1>0, <1>2
  <2> QED  BY <1>0, <2>3, <2>4, <2>5
<1>. QED  BY <1>1, <1>2

(* Two texts one after the other.                                          *)
LEMMA JoinIs ==
  ASSUME NEW S, NEW a \in Seq(S), NEW b \in Seq(S)
  PROVE  /\ a \o b \in Seq(S) /\ Len(a \o b) = Len(a) + Len(b) /\ Len(a) \in Nat /\ Len(b) \in Nat
         /\ DOMAIN (a \o b) = 1..Len(a) + Len(b)
         /\ \A j \in 1..Len(a) : (a \o b)[j] = a[j]
         /\ \A j \in 1..Len(b) : (a \o b)[Len(a) + j] = b[j]
         /\ ToSet(a \o b) = ToSet(a) \union ToSet(b)
<1>0. Len(a) \in Nat /\ Len(b) \in Nat /\ DOMAIN a = 1..Len(a) /\ DOMAIN b = 1..Len(b)
  OBVIOUS
<1>1. /\ a \o b \in Seq(S) /\ Len(a \o b) = Len(a) + Len(b)
      /\ DOMAIN (a \o b) = 1..Len(a) + Len(b)
      /\ \A j \in 1..Len(a) : (a \o b)[j] = a[j]
      /\ \A j \in 1..Len(b) : (a \o b)[Len(a) + j] = b[j]
  OBVIOUS
<1>2. \A j \in DOMAIN (a \o b) : \/ (j \in DOMAIN a /\ (a \o b)[j] = a[j])
                                  \/ (j - Len(a) \in DOMAIN b /\ (a \o b)[j] = b[j - Len(a)])
  BY <1>0, <1>1
<1>3. \A j \in DOMAIN a : j \in DOMAIN (a \o b) /\ (a \o b)[j] = a[j]
  BY <1>0, <1>1
<1>4. \A j \in DOMAIN b : Len(a) + j \in DOMAIN (a \o b) /\ (a \o b)[Len(a) + j] = b[j]
  BY <1>0, <1>1
<1>5. ToSet(a \o b) \subseteq ToSet(a) \union ToSet(b)
  BY <1>2, Zenon DEF ToSet
<1>6. ToSet(a) \subseteq ToSet(a \o b)
  BY <1>3, Zenon DEF ToSet
<1>7. ToSet(b) \subseteq ToSet(a \o b)
  BY <1>4, Zenon DEF ToSet
<1>. QED  BY <1>0, <1>1, <1>5, <1>6, <1>7

(* The text of some lines has the characters of each.                      *)
LEMMA TextIs ==
  ASSUME TextOK, NEW ns \in Seq(Number)
  PROVE  /\ Text(ns) \in Seq(Char)
         /\ ToSet(Text(ns)) = UNION {ToSet(Line(i)) : i \in ToSet(ns)}
<1> DEFINE seqs == [j \in 1..Len(ns) |-> Line(ns[j])]
<1>1. Len(ns) \in Nat /\ DOMAIN ns = 1..Len(ns) /\ \A j \in 1..Len(ns) : ns[j] \in Number
  OBVIOUS
<1>2. \A j \in 1..Len(ns) : Line(ns[j]) \in Seq(Char)
  BY <1>1, LineIs
<1>3. seqs \in Seq(Seq(Char)) /\ DOMAIN seqs = 1..Len(ns)
  BY <1>1, <1>2
<1>4. Text(ns) = FlattenSeq(seqs)
  BY <1>1 DEF Text
<1>5. \A j \in 1..Len(ns) : seqs[j] = Line(ns[j])
  OBVIOUS
<1> HIDE DEF seqs
<1>6. /\ FlattenSeq(seqs) \in Seq(Char)
      /\ ToSet(FlattenSeq(seqs)) = UNION {ToSet(seqs[p]) : p \in DOMAIN seqs}
  BY <1>3, FlattenIs
<1>7. {ToSet(seqs[p]) : p \in DOMAIN seqs} = {ToSet(Line(i)) : i \in ToSet(ns)}
  <2>1. \A p \in DOMAIN seqs : ns[p] \in ToSet(ns) /\ ToSet(seqs[p]) = ToSet(Line(ns[p]))
    BY <1>1, <1>3, <1>5, Zenon DEF ToSet
  <2>2. ASSUME NEW i \in ToSet(ns)
        PROVE  \E p \in DOMAIN seqs : ns[p] = i
    BY <1>1, <1>3, Zenon DEF ToSet
  <2>. QED  BY <2>1, <2>2
<1>. QED  BY <1>4, <1>6, <1>7

(* What follows the last character that is not a break is cut off.         *)
LEMMA StrippedIs ==
  ASSUME NEW s \in Seq(Char)
  PROVE  /\ Stripped(s) \in Seq(Char) /\ Len(Stripped(s)) <= Len(s)
         /\ ToSet(Stripped(s)) \subseteq ToSet(s)
         /\ \A x \in ToSet(s) : ~ x.breaks => x \in ToSet(Stripped(s))
         /\ \A k, l \in 1..Len(s) : k <= l /\ ~ s[l].breaks => s[k] \in ToSet(Stripped(s))
         /\ Len(Stripped(s)) \in 0..Len(s) /\ (Stripped(s) # <<>> => ~ s[Len(Stripped(s))].breaks)
         /\ \A k \in 1..Len(Stripped(s)) : Stripped(s)[k] = s[k]
<1> DEFINE spots == {i \in DOMAIN s : ~ s[i].breaks} \union {0}
           m == Max(spots)
<1>1. Len(s) \in Nat /\ DOMAIN s = 1..Len(s) /\ \A i \in 1..Len(s) : s[i] \in Char
  OBVIOUS
<1>2. spots \subseteq 0..Len(s) /\ spots # {}
  BY <1>1
<1>3. IsFiniteSet(spots) /\ spots \in SUBSET Int
  <2>1. IsFiniteSet(0..Len(s))
    BY <1>1, FS_Interval
  <2> HIDE DEF spots
  <2>2. IsFiniteSet(spots)
    BY <1>2, <2>1, FS_Subset, Zenon
  <2>3. 0..Len(s) \subseteq Int
    BY <1>1
  <2>. QED  BY <1>2, <2>2, <2>3, Zenon
<1> HIDE DEF m
<1>4. m \in spots /\ \A x \in spots : x <= m
  <2> HIDE DEF spots
  <2>. QED  BY <1>2, <1>3, MinMaxAre DEF m
<1>5. Stripped(s) = SubSeq(s, 1, m)
  BY DEF Stripped, m
<1>6. m \in 0..Len(s) /\ (m # 0 => ~ s[m].breaks)
  BY <1>2, <1>4
<1>7. \A l \in 1..Len(s) : ~ s[l].breaks => l <= m
  BY <1>1, <1>4
<1>8. /\ Stripped(s) \in Seq(Char) /\ Len(Stripped(s)) = m /\ DOMAIN Stripped(s) = 1..m
      /\ \A k \in 1..m : Stripped(s)[k] = s[k]
  BY <1>1, <1>5, <1>6
<1>9. ToSet(Stripped(s)) \subseteq ToSet(s)
  <2>1. \A k \in 1..m : k \in DOMAIN s
    BY <1>1, <1>6
  <2>. QED  BY <1>8, <2>1, Zenon DEF ToSet
<1>10. \A k, l \in 1..Len(s) : k <= l /\ ~ s[l].breaks => k \in DOMAIN Stripped(s) /\ Stripped(s)[k] = s[k]
  BY <1>1, <1>6, <1>7, <1>8
<1>11. \A k, l \in 1..Len(s) : k <= l /\ ~ s[l].breaks => s[k] \in ToSet(Stripped(s))
  BY <1>10, Zenon DEF ToSet
<1>12. \A k \in 1..Len(s) : ~ s[k].breaks => s[k] \in ToSet(Stripped(s))
  BY <1>1, <1>11
<1>13. \A x \in ToSet(s) : ~ x.breaks => x \in ToSet(Stripped(s))
  BY <1>1, <1>12, Zenon DEF ToSet
<1>14. Stripped(s) # <<>> => m # 0
  BY <1>8
<1>. QED  BY <1>1, <1>6, <1>8, <1>9, <1>11, <1>13, <1>14

(* A function on the first numbers is a sequence.                          *)
LEMMA SeqIs ==
  ASSUME NEW T, NEW n \in Nat, NEW f \in [1..n -> T]
  PROVE  f \in Seq(T) /\ Len(f) = n
OBVIOUS

(* Where text follows, nothing before it is cut off.                       *)
LEMMA StrippedJoin ==
  ASSUME NEW a \in Seq(Char), NEW b \in Seq(Char), ~ Blank(b)
  PROVE  ToSet(a) \union ToSet(Stripped(b)) \subseteq ToSet(Stripped(a \o b))
<1>1. PICK l \in 1..Len(b) : ~ b[l].breaks
  BY DEF Blank
<1> DEFINE c == a \o b
           m == Len(Stripped(b))
<1>2. /\ c \in Seq(Char) /\ Len(c) = Len(a) + Len(b) /\ Len(a) \in Nat /\ Len(b) \in Nat
      /\ \A j \in 1..Len(a) : c[j] = a[j]
      /\ \A j \in 1..Len(b) : c[Len(a) + j] = b[j]
  BY JoinIs
<1>3. /\ m \in 0..Len(b) /\ (Stripped(b) # <<>> => ~ b[m].breaks)
      /\ \A k \in 1..m : Stripped(b)[k] = b[k]
      /\ DOMAIN Stripped(b) = 1..m
  BY StrippedIs
<1>4. \A k, i \in 1..Len(c) : k <= i /\ ~ c[i].breaks => c[k] \in ToSet(Stripped(c))
  BY <1>2, StrippedIs
<1>5. DOMAIN a = 1..Len(a)
  OBVIOUS
<1> HIDE DEF c, m
<1>6. \A j \in 1..Len(a) : a[j] \in ToSet(Stripped(c))
  <2>1. Len(a) + l \in 1..Len(c) /\ ~ c[Len(a) + l].breaks
    BY <1>1, <1>2
  <2>2. \A j \in 1..Len(a) : j \in 1..Len(c) /\ j <= Len(a) + l
    BY <1>1, <1>2
  <2>. QED  BY <1>2, <1>4, <2>1, <2>2
<1>7. \A j \in 1..m : Stripped(b)[j] \in ToSet(Stripped(c))
  <2>1. ASSUME NEW j \in 1..m
        PROVE  Stripped(b)[j] \in ToSet(Stripped(c))
    <3>1. m \in 1..Len(b) /\ j \in 1..Len(b) /\ j <= m
      BY <1>2, <1>3
    <3>2. Stripped(b) # <<>>
      BY <1>3, <2>1
    <3>3. Len(a) + m \in 1..Len(c) /\ ~ c[Len(a) + m].breaks
      BY <1>2, <1>3, <3>1, <3>2
    <3>4. Len(a) + j \in 1..Len(c) /\ Len(a) + j <= Len(a) + m
      BY <1>2, <3>1
    <3>5. c[Len(a) + j] = Stripped(b)[j]
      BY <1>2, <1>3, <3>1
    <3>. QED  BY <1>4, <3>3, <3>4, <3>5
  <2>. QED  BY <2>1
<1>8. ToSet(a) \subseteq ToSet(Stripped(c))
  BY <1>5, <1>6, Zenon DEF ToSet
<1>9. ToSet(Stripped(b)) \subseteq ToSet(Stripped(c))
  BY <1>3, <1>7, Zenon DEF ToSet
<1>. QED  BY <1>8, <1>9 DEF c

(* A text in which a character is no break is not blank.                   *)
LEMMA BlankIs ==
  ASSUME NEW s \in Seq(Char)
  PROVE  Blank(s) <=> \A x \in ToSet(s) : x.breaks
BY Zenon DEF Blank, ToSet

(* Only the blank pieces are left out.                                     *)
LEMMA NotBlankIs ==
  ASSUME NEW pieces \in Seq(Seq(Char))
  PROVE  /\ NotBlank(pieces) \in Seq(Seq(Char))
         /\ ToSet(NotBlank(pieces)) = {p \in ToSet(pieces) : ~ Blank(p)}
<1> DEFINE seqs == [k \in 1..Len(pieces) |-> IF Blank(pieces[k]) THEN <<>> ELSE <<pieces[k]>>]
<1>1. Len(pieces) \in Nat /\ DOMAIN pieces = 1..Len(pieces)
      /\ \A k \in 1..Len(pieces) : pieces[k] \in Seq(Char)
  OBVIOUS
<1>2. NotBlank(pieces) = FlattenSeq(seqs)
  BY <1>1 DEF NotBlank
<1>3. ASSUME NEW k \in 1..Len(pieces)
      PROVE  /\ seqs[k] \in Seq(Seq(Char))
             /\ ToSet(seqs[k]) = IF Blank(pieces[k]) THEN {} ELSE {pieces[k]}
  <2>1. seqs[k] = IF Blank(pieces[k]) THEN <<>> ELSE <<pieces[k]>>
    OBVIOUS
  <2>2. \A p \in Seq(Char) : <<p>> \in Seq(Seq(Char))
    OBVIOUS
  <2>3. \A p : ToSet(<<p>>) = {p}
    BY DEF ToSet
  <2>4. ToSet(<<>>) = {} /\ <<>> \in Seq(Seq(Char))
    BY DEF ToSet
  <2> HIDE DEF seqs
  <2>5. CASE Blank(pieces[k])
    <3>1. seqs[k] = <<>>
      BY <2>1, <2>5
    <3>. QED  BY <2>4, <2>5, <3>1
  <2>6. CASE ~ Blank(pieces[k])
    <3>1. seqs[k] = <<pieces[k]>>
      BY <2>1, <2>6
    <3>. QED  BY <1>1, <2>2, <2>3, <2>6, <3>1
  <2>. QED  BY <2>5, <2>6
<1>4. Len(seqs) = Len(pieces) /\ DOMAIN seqs = 1..Len(pieces)
  BY <1>1
<1>5. seqs \in Seq(Seq(Seq(Char)))
  <2>1. seqs \in [1..Len(pieces) -> Seq(Seq(Char))]
    <3>1. seqs = [k \in 1..Len(pieces) |-> seqs[k]]
      OBVIOUS
    <3>2. \A k \in 1..Len(pieces) : seqs[k] \in Seq(Seq(Char))
      BY <1>3
    <3> HIDE DEF seqs
    <3>. QED  BY <3>1, <3>2, Zenon
  <2> HIDE DEF seqs
  <2>. QED  BY <1>1, <2>1, SeqIs, Zenon
<1> HIDE DEF seqs
<1>6. /\ FlattenSeq(seqs) \in Seq(Seq(Char))
      /\ ToSet(FlattenSeq(seqs)) = UNION {ToSet(seqs[p]) : p \in DOMAIN seqs}
  BY ONLY <1>5, FlattenIs, Zenon
<1>7. UNION {ToSet(seqs[p]) : p \in DOMAIN seqs} = {p \in ToSet(pieces) : ~ Blank(p)}
  <2>1. \A k \in 1..Len(pieces) : pieces[k] \in ToSet(pieces)
    BY <1>1, Zenon DEF ToSet
  <2>2. \A p \in ToSet(pieces) : \E k \in 1..Len(pieces) : p = pieces[k]
    BY <1>1, Zenon DEF ToSet
  <2>3. UNION {ToSet(seqs[p]) : p \in DOMAIN seqs} \subseteq {p \in ToSet(pieces) : ~ Blank(p)}
    <3>1. ASSUME NEW k \in 1..Len(pieces)
          PROVE  ToSet(seqs[k]) \subseteq {p \in ToSet(pieces) : ~ Blank(p)}
      BY <1>3, <2>1
    <3>. QED  BY <1>4, <3>1, Zenon
  <2>4. ASSUME NEW p \in ToSet(pieces), ~ Blank(p)
        PROVE  p \in UNION {ToSet(seqs[k]) : k \in DOMAIN seqs}
    <3>1. PICK k \in 1..Len(pieces) : p = pieces[k]
      BY <2>2
    <3>2. p \in ToSet(seqs[k])
      BY <1>3, <2>4, <3>1
    <3>. QED  BY <1>4, <3>2
  <2>. QED  BY <2>3, <2>4
<1>. QED  BY <1>2, <1>6, <1>7

(* The windows reach every run that fits into the overlap and one          *)
(* character more.                                                         *)
LEMMA WindowOver ==
  ASSUME TextOK, NEW n \in Nat, n > cut.size,
         NEW r \in 1..cut.overlap + 1, NEW k \in 0..n - r
  PROVE  /\ (n - cut.size + Step - 1) \div Step \in Nat
         /\ \E j \in 0..(n - cut.size + Step - 1) \div Step :
              j * Step <= k /\ k + r <= n /\ k + r <= j * Step + cut.size
<1> DEFINE size == cut.size
           st == Step
           top == n - size + st - 1
           last == top \div st
<1>1. /\ size \in Nat /\ cut.overlap \in Nat /\ size > 0 /\ cut.overlap < size
      /\ st = size - cut.overlap
  BY DocumentIs DEF Step
<1> HIDE DEF size, st
<1>2. st \in Nat /\ st > 0 /\ n > size /\ top \in Nat
  BY <1>1 DEF size
<1>3. last \in Nat /\ last * st <= top /\ top < last * st + st
  <2>1. \A a, b \in Nat : b > 0 => a \div b \in Nat /\ (a \div b) * b <= a /\ a < (a \div b) * b + b
    OBVIOUS
  <2> HIDE DEF top
  <2>. QED  BY <1>2, <2>1
<1>4. n <= last * st + size
  <2>1. last * st \in Nat
    BY <1>2, <1>3
  <2> HIDE DEF last
  <2>. QED  BY <1>1, <1>2, <1>3, <2>1
<1> HIDE DEF last
<1> DEFINE Past == {j \in Nat : j * st > k}
<1>5. PICK m \in Past : \A j \in Past : m <= j
  <2>1. k + 1 \in Nat /\ (k + 1) * st > k
    <3>1. k \in Nat
      OBVIOUS
    <3>2. (k + 1) * st = k + 1 + (k + 1) * (st - 1) /\ (k + 1) * (st - 1) \in Nat
      BY <1>2, <3>1
    <3>. QED  BY <1>2, <3>1, <3>2
  <2>2. Past # {} /\ Past \in SUBSET Nat
    BY <2>1
  <2> HIDE DEF Past
  <2>. QED  BY <2>2, Smallest
<1>6. m \in Nat /\ m * st > k /\ m # 0
  BY <1>2, <1>5
<1>7. (m - 1) * st <= k /\ m - 1 \in Nat /\ (m - 1) * st \in Nat /\ m * st = (m - 1) * st + st
  <2>1. m - 1 \in Nat /\ m - 1 \notin Past
    <3>1. m \in Nat /\ \A j \in Past : m <= j
      BY <1>5
    <3> HIDE DEF Past
    <3>. QED  BY <1>6, <3>1
  <2>2. (m - 1) * st \in Nat /\ m * st = (m - 1) * st + st
    BY <1>2, <1>6, <2>1
  <2>. QED  BY <2>1, <2>2
<1>8. k \in Nat /\ r \in Nat /\ r <= cut.overlap + 1 /\ k + r <= n
  BY <1>1
<1>9. CASE m - 1 <= last
  <2>1. m - 1 \in 0..last
    BY <1>3, <1>7, <1>9
  <2>2. k + r <= (m - 1) * st + size
    BY <1>1, <1>2, <1>6, <1>7, <1>8
  <2>. QED  BY <1>3, <1>7, <1>8, <2>1, <2>2 DEF size, last, st
<1>10. CASE m - 1 > last
  <2>1. last * st <= (m - 1) * st
    <3>1. (m - 1) * st = last * st + (m - 1 - last) * st /\ (m - 1 - last) * st \in Nat
          /\ last * st \in Nat
      BY <1>2, <1>3, <1>7, <1>10
    <3>. QED  BY <3>1
  <2>2. last * st <= k /\ last \in 0..last
    <3>1. last * st \in Nat
      BY <1>2, <1>3
    <3>. QED  BY <1>3, <1>7, <1>8, <2>1, <3>1
  <2>3. k + r <= last * st + size
    <3>1. last * st \in Nat
      BY <1>2, <1>3
    <3>. QED  BY <1>1, <1>2, <1>4, <1>8, <3>1
  <2>. QED  BY <1>3, <1>8, <2>2, <2>3 DEF size, last, st
<1>. QED  BY <1>3, <1>7, <1>9, <1>10

(* The elements of a part.                                                 *)
LEMMA RunIs ==
  ASSUME NEW S, NEW s \in Seq(S), NEW a \in Nat, NEW b \in Nat, a <= b, b <= Len(s)
  PROVE  /\ SubSeq(s, a + 1, b) \in Seq(S) /\ Len(SubSeq(s, a + 1, b)) = b - a
         /\ DOMAIN SubSeq(s, a + 1, b) = 1..b - a
         /\ \A i \in 1..b - a : SubSeq(s, a + 1, b)[i] = s[i + a]
<1>1. Len(s) \in Nat /\ DOMAIN s = 1..Len(s)
  OBVIOUS
<1>. QED  BY <1>1

(* A run of a part is a run of the whole.                                  *)
LEMMA PartIs ==
  ASSUME NEW S, NEW s \in Seq(S), NEW a \in Nat, NEW b \in 0..Len(s), a <= b
  PROVE  /\ SubSeq(s, a + 1, b) \in Seq(S) /\ Len(SubSeq(s, a + 1, b)) = b - a
         /\ ToSet(SubSeq(s, a + 1, b)) \subseteq ToSet(s)
         /\ \A k, l \in Nat : a <= k /\ k <= l /\ l <= b =>
              SubSeq(SubSeq(s, a + 1, b), k - a + 1, l - a) = SubSeq(s, k + 1, l)
<1>1. Len(s) \in Nat /\ DOMAIN s = 1..Len(s)
  OBVIOUS
<1> DEFINE t == SubSeq(s, a + 1, b)
<1>2. t \in Seq(S) /\ Len(t) = b - a /\ DOMAIN t = 1..b - a /\ \A i \in 1..b - a : t[i] = s[i + a]
  BY <1>1, RunIs
<1> HIDE DEF t
<1>3. \A i \in DOMAIN t : i + a \in DOMAIN s /\ t[i] = s[i + a]
  BY <1>1, <1>2
<1>4. ToSet(t) \subseteq ToSet(s)
  BY <1>3, Zenon DEF ToSet
<1>5. ASSUME NEW k \in Nat, NEW l \in Nat, a <= k, k <= l, l <= b
      PROVE  SubSeq(t, k - a + 1, l - a) = SubSeq(s, k + 1, l)
  <2> DEFINE u == SubSeq(t, k - a + 1, l - a)
             w == SubSeq(s, k + 1, l)
  <2>1. u \in Seq(S) /\ Len(u) = l - k /\ \A i \in 1..l - k : u[i] = t[i + (k - a)]
    <3> DEFINE x == k - a
               y == l - a
    <3>1. x \in Nat /\ y \in Nat /\ x <= y /\ y <= Len(t) /\ y - x = l - k
      BY <1>2, <1>5
    <3> HIDE DEF x, y
    <3>2. /\ SubSeq(t, x + 1, y) \in Seq(S) /\ Len(SubSeq(t, x + 1, y)) = y - x
          /\ \A i \in 1..y - x : SubSeq(t, x + 1, y)[i] = t[i + x]
      BY <1>2, <3>1, RunIs
    <3>3. u = SubSeq(t, x + 1, y)
      BY DEF x, y
    <3> HIDE DEF u
    <3>4. u \in Seq(S) /\ Len(u) = l - k /\ \A i \in 1..l - k : u[i] = t[i + x]
      BY <3>1, <3>2, <3>3
    <3>. QED  BY <3>4 DEF x
  <2>2. w \in Seq(S) /\ Len(w) = l - k /\ \A i \in 1..l - k : w[i] = s[i + k]
    BY <1>1, <1>5, RunIs
  <2> HIDE DEF u, w
  <2>3. \A i \in 1..l - k : u[i] = w[i]
    <3>1. ASSUME NEW i \in 1..l - k
          PROVE  u[i] = w[i]
      <4>1. i + (k - a) \in 1..b - a /\ (i + (k - a)) + a = i + k
        BY <1>5
      <4>. QED  BY <1>2, <2>1, <2>2, <4>1
    <3>. QED  BY <3>1
  <2>4. u = w
    BY <2>1, <2>2, <2>3
  <2>. QED  BY <2>4 DEF u, w
<1>. QED  BY <1>2, <1>4, <1>5 DEF t

\* Some text has a run of characters.
Somewhere(s, texts) ==
  \E c \in texts : \E k \in 0..Len(c) - Len(s) : SubSeq(c, k + 1, k + Len(s)) = s

(* A character of a text is somewhere in it.                               *)
LEMMA CharIs ==
  ASSUME NEW s \in Seq(Char)
  PROVE  /\ \A x \in ToSet(s) : \E k \in 0..Len(s) - 1 : SubSeq(s, k + 1, k + 1) = <<x>>
         /\ \A k \in 0..Len(s) - 1 : ToSet(SubSeq(s, k + 1, k + 1)) = {s[k + 1]}
                                     /\ s[k + 1] \in ToSet(s)
<1>1. Len(s) \in Nat /\ DOMAIN s = 1..Len(s)
  OBVIOUS
<1>2. \A k \in 0..Len(s) - 1 : SubSeq(s, k + 1, k + 1) = <<s[k + 1]>> /\ k + 1 \in DOMAIN s
  <2>1. ASSUME NEW k \in 0..Len(s) - 1
        PROVE  SubSeq(s, k + 1, k + 1) = <<s[k + 1]>> /\ k + 1 \in DOMAIN s
    <3>1. /\ SubSeq(s, k + 1, k + 1) \in Seq(Char) /\ Len(SubSeq(s, k + 1, k + 1)) = 1
          /\ SubSeq(s, k + 1, k + 1)[1] = s[k + 1]
      BY <1>1
    <3>2. \A t \in Seq(Char) : Len(t) = 1 => t = <<t[1]>>
      OBVIOUS
    <3>3. SubSeq(s, k + 1, k + 1) = <<s[k + 1]>>
      BY <3>1, <3>2, Zenon
    <3>4. k + 1 \in DOMAIN s
      BY <1>1
    <3>. QED  BY <3>3, <3>4, Zenon
  <2>. QED  BY <2>1
<1>3. \A x \in ToSet(s) : \E k \in 0..Len(s) - 1 : x = s[k + 1]
  <2>1. \A i \in DOMAIN s : i - 1 \in 0..Len(s) - 1 /\ (i - 1) + 1 = i
    BY <1>1
  <2>. QED  BY <2>1 DEF ToSet
<1>4. \A x : ToSet(<<x>>) = {x}
  BY DEF ToSet
<1>5. \A i \in DOMAIN s : s[i] \in ToSet(s)
  BY Zenon DEF ToSet
<1>. QED  BY <1>2, <1>3, <1>4, <1>5

(* The windows of a text fit; they are not blank where there are several;  *)
(* and each run that is not blank and fits into the overlap and one        *)
(* character more is in one of them.                                       *)
LEMMA WindowsIs ==
  ASSUME TextOK, NEW s \in Seq(Char)
  PROVE  /\ Windows(s) \in Seq(Seq(Char))
         /\ \A w \in ToSet(Windows(s)) : Fits(w)
         /\ \A r \in 1..cut.overlap + 1 : \A k \in 0..Len(s) - r :
              ~ Blank(SubSeq(s, k + 1, k + r)) =>
                \E w \in ToSet(Windows(s)) : \E j \in 0..Len(w) - r :
                  SubSeq(w, j + 1, j + r) = SubSeq(s, k + 1, k + r)
<1> DEFINE n == Len(s)
           last == (n - cut.size + Step - 1) \div Step
           window(k) == SubSeq(s, k * Step + 1, Min({k * Step + cut.size, n}))
           pieces == [k \in 1..last + 1 |-> window(k - 1)]
<1>1. n \in Nat
  OBVIOUS
<1>2. cut.size \in Nat /\ cut.overlap \in Nat /\ cut.overlap < cut.size /\ cut.size > 0
      /\ Step \in Nat /\ Step > 0
  BY DocumentIs DEF Step
<1>3. CASE Fits(s)
  <2>1. Windows(s) = <<s>>
    BY <1>3 DEF Windows
  <2>2. <<s>> \in Seq(Seq(Char)) /\ ToSet(<<s>>) = {s}
    BY DEF ToSet
  <2>. QED  BY <1>3, <2>1, <2>2
<1>4. CASE ~ Fits(s)
  <2>1. n > cut.size
    BY <1>1, <1>2, <1>4 DEF Fits
  <2>2. last \in Nat
    <3>1. 1 \in 1..cut.overlap + 1 /\ 0 \in 0..n - 1
      BY <1>1, <1>2, <2>1
    <3>. QED  BY <1>1, <2>1, <3>1, WindowOver
  <2>3. Windows(s) = NotBlank(pieces)
    BY <1>4 DEF Windows
  <2> HIDE DEF last
  <2>4. ASSUME NEW k \in 0..last
        PROVE  \E b \in 0..n : /\ b = Min({k * Step + cut.size, n})
                               /\ b <= k * Step + cut.size
                               /\ b = k * Step + cut.size \/ b = n
    <3>1. k \in Nat /\ k * Step \in Nat
      BY <1>2, <2>2
    <3> DEFINE e == k * Step
               S == {e + cut.size, n}
    <3>2. S \in SUBSET Int /\ S # {}
      BY <1>1, <1>2, <3>1
    <3>3. IsFiniteSet(S)
      <4>1. S = {e + cut.size} \union {n} /\ IsFiniteSet({e + cut.size}) /\ IsFiniteSet({n})
        BY FS_Singleton
      <4> HIDE DEF S
      <4>. QED  BY <4>1, FS_Union
    <3>4. Min(S) \in S /\ \A x \in S : Min(S) <= x
      <4> HIDE DEF S
      <4>. QED  BY <3>2, <3>3, MinMaxAre
    <3> DEFINE b == Min(S)
    <3>5. b = Min({k * Step + cut.size, n})
      OBVIOUS
    <3>6. b \in {e + cut.size, n} /\ b <= e + cut.size /\ b <= n
      BY <3>4
    <3> HIDE DEF b, S, e
    <3>7. e \in Nat
      BY <3>1 DEF e
    <3>8. b \in 0..n
      BY <1>1, <1>2, <3>6, <3>7
    <3>. QED  BY <3>5, <3>6, <3>8 DEF e
  <2>5. ASSUME NEW k \in 0..last
        PROVE  /\ window(k) \in Seq(Char) /\ Fits(window(k))
               /\ \A r \in 1..cut.overlap + 1 : \A a \in 0..n - r :
                    k * Step <= a /\ a + r <= n /\ a + r <= k * Step + cut.size =>
                      \E j \in 0..Len(window(k)) - r :
                        SubSeq(window(k), j + 1, j + r) = SubSeq(s, a + 1, a + r)
    <3> DEFINE e == k * Step
    <3>1. e \in Nat
      BY <1>2, <2>2
    <3>2. PICK b \in 0..n : /\ b = Min({e + cut.size, n})
                            /\ b <= e + cut.size /\ (b = e + cut.size \/ b = n)
      BY <2>4
    <3> DEFINE w == SubSeq(s, e + 1, b)
    <3>3. window(k) = w
      BY <3>2
    <3> HIDE DEF e, window
    <3>4. b \in Nat
      BY <1>1
    <3>5. CASE e <= b
      <4>1. /\ w \in Seq(Char) /\ Len(w) = b - e
            /\ \A a, l \in Nat : e <= a /\ a <= l /\ l <= b =>
                 SubSeq(w, a - e + 1, l - e) = SubSeq(s, a + 1, l)
        BY <1>1, <3>1, <3>5, PartIs
      <4> HIDE DEF w
      <4>2. Fits(w)
        BY <1>2, <3>1, <3>2, <3>4, <4>1 DEF Fits
      <4>3. ASSUME NEW r \in 1..cut.overlap + 1, NEW a \in 0..n - r,
                   e <= a, a + r <= n, a + r <= e + cut.size
            PROVE  \E j \in 0..Len(w) - r : SubSeq(w, j + 1, j + r) = SubSeq(s, a + 1, a + r)
        <5>1. a \in Nat /\ r \in Nat /\ a + r \in Nat /\ a <= a + r
          BY <1>1, <1>2
        <5>2. a + r <= b
          BY <3>2, <4>3
        <5>3. SubSeq(w, a - e + 1, (a + r) - e) = SubSeq(s, a + 1, a + r)
          <6> DEFINE l == a + r
          <6>1. l \in Nat /\ a <= l /\ l <= b /\ e <= a
            BY <4>3, <5>1, <5>2
          <6> HIDE DEF l
          <6>2. SubSeq(w, a - e + 1, l - e) = SubSeq(s, a + 1, l)
            BY <4>1, <5>1, <6>1
          <6>3. l = a + r
            BY DEF l
          <6>. QED  BY <6>2, <6>3, Zenon
        <5>4. a - e \in 0..Len(w) - r /\ (a - e) + r = (a + r) - e
          BY <3>1, <3>4, <4>1, <4>3, <5>1, <5>2
        <5>. QED  BY <5>3, <5>4
      <4>. QED  BY <3>3, <4>1, <4>2, <4>3 DEF e
    <3>6. CASE e > b
      <4>1. w = <<>>
        BY <1>1, <3>1, <3>4, <3>6
      <4> HIDE DEF w
      <4>2. w \in Seq(Char) /\ Fits(w)
        <5>1. <<>> \in Seq(Char) /\ Len(<<>>) = 0
          OBVIOUS
        <5>. QED  BY <1>2, <4>1, <5>1 DEF Fits
      <4>3. ASSUME NEW r \in 1..cut.overlap + 1, NEW a \in 0..n - r,
                   e <= a, a + r <= n, a + r <= e + cut.size
            PROVE  FALSE
        <5>1. a \in Nat /\ r \in Nat
          BY <1>1, <1>2
        <5>. QED  BY <1>1, <3>1, <3>2, <3>6, <4>3, <5>1, <3>4
      <4>. QED  BY <3>3, <4>2, <4>3 DEF e
    <3>7. e <= b \/ e > b
      BY <3>1, <3>4
    <3>. QED  BY <3>5, <3>6, <3>7, Zenon
  <2>6. pieces \in Seq(Seq(Char))
        /\ ToSet(pieces) = {window(k) : k \in 0..last}
    <3>1. \A k \in 1..last + 1 : k - 1 \in 0..last
      BY <2>2
    <3>2. \A k \in 0..last : k + 1 \in 1..last + 1 /\ (k + 1) - 1 = k
      BY <2>2
    <3>3. \A k \in 1..last + 1 : window(k - 1) \in Seq(Char)
      BY <2>5, <3>1
    <3> HIDE DEF window
    <3>4. pieces \in [1..last + 1 -> Seq(Char)] /\ last + 1 \in Nat
      BY <2>2, <3>3
    <3>5. \A k \in 0..last : pieces[k + 1] = window(k)
      BY <3>2
    <3>6. DOMAIN pieces = 1..last + 1 /\ \A k \in 1..last + 1 : pieces[k] = window(k - 1)
      OBVIOUS
    <3> HIDE DEF pieces
    <3>7. pieces \in Seq(Seq(Char))
      BY <3>4, SeqIs, Zenon
    <3>8. ToSet(pieces) = {pieces[k] : k \in 1..last + 1}
      BY <3>6, Zenon DEF ToSet
    <3>. QED  BY <3>1, <3>2, <3>5, <3>6, <3>7, <3>8
  <2> HIDE DEF pieces
  <2>7. /\ NotBlank(pieces) \in Seq(Seq(Char))
        /\ ToSet(NotBlank(pieces)) = {p \in ToSet(pieces) : ~ Blank(p)}
    BY <2>6, NotBlankIs
  <2>8. \A w \in ToSet(pieces) : Fits(w)
    BY <2>5, <2>6
  <2>9. ASSUME NEW r \in 1..cut.overlap + 1, NEW k \in 0..n - r,
               ~ Blank(SubSeq(s, k + 1, k + r))
        PROVE  \E w \in ToSet(Windows(s)) : \E j \in 0..Len(w) - r :
                 SubSeq(w, j + 1, j + r) = SubSeq(s, k + 1, k + r)
    <3>1. PICK i \in 0..last : i * Step <= k /\ k + r <= n /\ k + r <= i * Step + cut.size
      BY <1>1, <2>1, WindowOver DEF last
    <3> DEFINE w == window(i)
               t == SubSeq(s, k + 1, k + r)
    <3>2. w \in ToSet(pieces) /\ w \in Seq(Char)
      BY <2>5, <2>6
    <3>3. PICK j \in 0..Len(w) - r : SubSeq(w, j + 1, j + r) = t
      BY <2>5, <3>1
    <3> HIDE DEF w
    <3>4. ~ Blank(w)
      <4>1. r \in Nat /\ j \in Nat /\ Len(w) \in Nat /\ j + r <= Len(w) /\ k \in Nat
        BY <1>1, <1>2, <3>2
      <4>2. t \in Seq(Char) /\ ToSet(t) \subseteq ToSet(w)
        <5> DEFINE l == j + r
        <5>1. l \in 0..Len(w) /\ j <= l
          BY <4>1
        <5> HIDE DEF l
        <5>2. SubSeq(w, j + 1, l) \in Seq(Char) /\ ToSet(SubSeq(w, j + 1, l)) \subseteq ToSet(w)
          BY <3>2, <4>1, <5>1, PartIs
        <5>. QED  BY <3>3, <5>2 DEF l
      <4> HIDE DEF t
      <4>3. \E x \in ToSet(t) : ~ x.breaks
        BY <2>9, <4>2, BlankIs DEF t
      <4>. QED  BY <3>2, <4>2, <4>3, BlankIs
    <3>5. w \in ToSet(Windows(s))
      BY <2>3, <2>7, <3>2, <3>4
    <3>. QED  BY <3>3, <3>5
  <2>. QED  BY <2>3, <2>7, <2>8, <2>9
<1>. QED  BY <1>3, <1>4

(* No character that is no break is lost.                                  *)
LEMMA WindowsKeep ==
  ASSUME TextOK, NEW s \in Seq(Char), NEW x \in ToSet(s), ~ x.breaks
  PROVE  \E w \in ToSet(Windows(s)) : x \in ToSet(w)
<1>1. PICK k \in 0..Len(s) - 1 : SubSeq(s, k + 1, k + 1) = <<x>>
  BY CharIs
<1>2. ~ Blank(<<x>>)
  BY DEF Blank
<1>3. 1 \in 1..cut.overlap + 1
  BY DocumentIs
<1>4. PICK w \in ToSet(Windows(s)) : \E j \in 0..Len(w) - 1 :
               SubSeq(w, j + 1, j + 1) = SubSeq(s, k + 1, k + 1)
  BY <1>1, <1>2, <1>3, WindowsIs
<1>5. PICK j \in 0..Len(w) - 1 : SubSeq(w, j + 1, j + 1) = <<x>>
  BY <1>1, <1>4
<1>6. w \in Seq(Char)
  BY WindowsIs DEF ToSet
<1>7. ToSet(<<x>>) = {w[j + 1]} /\ w[j + 1] \in ToSet(w)
  BY <1>5, <1>6, CharIs
<1>8. ToSet(<<x>>) = {x}
  BY DEF ToSet
<1>. QED  BY <1>7, <1>8

-----------------------------------------------------------------------------
(* Blocks.                                                                 *)

Structured(open) == open \in {"fence", "row", "item", "text"}

\* A block starts with a line that is not blank, and a table has only rows.
IsBlock(b) ==
  /\ b \in Seq(Number) /\ b # <<>> /\ Kind(b[1]) # "blank"
  /\ Kind(b[1]) \in RowKinds => \A j \in DOMAIN b : Kind(b[j]) \in RowKinds

\* What is open is of the kind of the last block.
Parses ==
  {p \in [blocks : Seq({b \in Seq(Number) : IsBlock(b)}),
          open : {Opens(Kind(i)) : i \in Number} \union {"none"}] :
     Structured(p.open) =>
       p.blocks # <<>> /\ Opens(Kind(p.blocks[Len(p.blocks)][1])) = p.open}

InBlock(p, i) == \E k \in DOMAIN p.blocks : i \in ToSet(p.blocks[k])

LEMMA KindsAre ==
  /\ ~ Structured("none") /\ ~ Structured(Opens("blank"))
  /\ \A open, kind : Continues(open, kind) => Structured(open)
  /\ \A open, kind, head : Continues(open, kind) /\ Opens(head) = open /\ head \in RowKinds => kind \in RowKinds
<1>1. ~ Structured("none")
  BY DEF Structured
<1>2. ~ Structured(Opens("blank"))
  BY DEF Structured, Opens, RowKinds
<1>3. \A open, kind : Continues(open, kind) => Structured(open)
  BY DEF Structured, Continues
<1>4. \A open, kind, head : Continues(open, kind) /\ Opens(head) = open /\ head \in RowKinds => kind \in RowKinds
  BY DEF Continues, Opens, RowKinds
<1>. QED  BY <1>1, <1>2, <1>3, <1>4

(* A line is put into the block that is open or starts one of its own, and *)
(* only blank ones are left out.                                           *)
LEMMA AddLineIs ==
  ASSUME TextOK, NEW p \in Parses, NEW i \in Number
  PROVE  /\ AddLine(p, i) \in Parses
         /\ \A j : InBlock(p, j) => InBlock(AddLine(p, i), j)
         /\ Kind(i) # "blank" => InBlock(AddLine(p, i), i)
<1> DEFINE B == {b \in Seq(Number) : IsBlock(b)}
           O == {Opens(Kind(j)) : j \in Number} \union {"none"}
           n == Len(p.blocks)
<1>1. /\ p \in [blocks : Seq(B), open : O]
      /\ Structured(p.open) => p.blocks # <<>> /\ Opens(Kind(p.blocks[n][1])) = p.open
  BY Zenon DEF Parses
<1>2. p.blocks \in Seq(B) /\ p.open \in O
  <2> HIDE DEF B, O
  <2>. QED  BY <1>1
<1>3. n \in Nat /\ DOMAIN p.blocks = 1..n /\ \A k \in 1..n : p.blocks[k] \in B
  <2> HIDE DEF B
  <2>. QED  BY <1>2
<1> HIDE DEF n
<1>4. CASE Continues(p.open, Kind(i))
  <2>1. n # 0 /\ Opens(Kind(p.blocks[n][1])) = p.open /\ Structured(p.open)
    <3>1. Structured(p.open)
      BY <1>4, KindsAre
    <3>. QED  BY <1>1, <1>2, <1>3, <3>1 DEF n
  <2> DEFINE b == p.blocks[n]
             c == Append(b, i)
             q == [p.blocks EXCEPT ![n] = c]
             o == IF p.open = Kind(i) /\ Kind(i) = "fence" THEN "none" ELSE p.open
  <2>2. n \in 1..n /\ b \in B
    BY <1>3, <2>1
  <2>3. b \in Seq(Number) /\ b # <<>> /\ Kind(b[1]) # "blank"
        /\ (Kind(b[1]) \in RowKinds => \A j \in DOMAIN b : Kind(b[j]) \in RowKinds)
    BY <2>2, Zenon DEF IsBlock
  <2>4. AddLine(p, i) = [blocks |-> q, open |-> o]
    BY <1>4, Zenon DEF AddLine, n
  <2>5. Kind(b[1]) \in RowKinds => Kind(i) \in RowKinds
    BY <1>4, <2>1, KindsAre, Zenon
  <2> HIDE DEF b
  <2>6. /\ c \in Seq(Number) /\ c # <<>> /\ c[1] = b[1] /\ DOMAIN c = 1..Len(b) + 1
        /\ DOMAIN b = 1..Len(b) /\ Len(b) \in Nat
        /\ \A j \in 1..Len(b) : c[j] = b[j]
        /\ c[Len(b) + 1] = i
    BY <2>3
  <2> HIDE DEF c
  <2>7. c \in B
    <3>1. \A j \in DOMAIN c : c[j] = i \/ (j \in DOMAIN b /\ c[j] = b[j])
      BY <2>6
    <3>2. IsBlock(c)
      BY <2>3, <2>5, <2>6, <3>1, Zenon DEF IsBlock
    <3>. QED  BY <2>6, <3>2
  <2>8. /\ q \in Seq(B) /\ Len(q) = n /\ q # <<>> /\ q[n] = c /\ DOMAIN q = 1..n
        /\ \A k \in 1..n : k # n => q[k] = p.blocks[k]
    <3> HIDE DEF B
    <3>. QED  BY <1>2, <1>3, <2>2, <2>7 DEF n
  <2> HIDE DEF q
  <2>9. o \in O
    BY <1>2
  <2>10. Structured(o) => o = p.open
    BY KindsAre
  <2> HIDE DEF o
  <2>11. AddLine(p, i) \in Parses
    <3> DEFINE r == [blocks |-> q, open |-> o]
    <3>1. r.blocks = q /\ r.open = o
      OBVIOUS
    <3>2. r \in [blocks : Seq(B), open : O]
      <4> HIDE DEF B, O
      <4>. QED  BY <2>8, <2>9
    <3>3. Structured(r.open) => r.blocks # <<>> /\ Opens(Kind(r.blocks[Len(r.blocks)][1])) = r.open
      <4>1. Opens(Kind(q[n][1])) = p.open
        BY <2>1, <2>6, <2>8 DEF b
      <4>. QED  BY <2>8, <2>10, <3>1, <4>1, Zenon
    <3> HIDE DEF r
    <3>4. r \in Parses
      BY <3>2, <3>3, Zenon DEF Parses
    <3>. QED  BY <2>4, <3>4, Zenon DEF r
  <2>12. AddLine(p, i).blocks = q
    BY <2>4
  <2>13. \A k \in DOMAIN q : ToSet(p.blocks[k]) \subseteq ToSet(q[k])
    <3>1. ASSUME NEW k \in DOMAIN q
          PROVE  ToSet(p.blocks[k]) \subseteq ToSet(q[k])
      <4>1. CASE k = n
        <5>1. \A j \in DOMAIN b : j \in DOMAIN c /\ c[j] = b[j]
          BY <2>6
        <5>2. ToSet(b) \subseteq ToSet(c)
          BY <5>1, Zenon DEF ToSet
        <5>. QED  BY <2>8, <4>1, <5>2 DEF b
      <4>2. CASE k # n
        BY <2>8, <4>2, <3>1
      <4>. QED  BY <4>1, <4>2
    <3>. QED  BY <3>1
  <2>14. i \in ToSet(q[n])
    <3>1. Len(b) + 1 \in DOMAIN c /\ c[Len(b) + 1] = i
      BY <2>6
    <3>. QED  BY <2>8, <3>1, Zenon DEF ToSet
  <2>15. DOMAIN q = DOMAIN p.blocks /\ n \in DOMAIN q
    BY <1>3, <2>2, <2>8
  <2>. QED  BY <2>11, <2>12, <2>13, <2>14, <2>15 DEF InBlock
<1>5. CASE ~ Continues(p.open, Kind(i)) /\ Kind(i) = "blank"
  <2>1. AddLine(p, i) = [blocks |-> p.blocks, open |-> Opens(Kind(i))]
    BY <1>5, Zenon DEF AddLine
  <2> DEFINE r == [blocks |-> p.blocks, open |-> Opens(Kind(i))]
  <2>2. r.blocks = p.blocks /\ ~ Structured(r.open)
    BY <1>5, KindsAre
  <2>3. Opens(Kind(i)) \in O
    OBVIOUS
  <2>4. r \in [blocks : Seq(B), open : O]
    <3> HIDE DEF B, O
    <3>. QED  BY <1>2, <2>3
  <2> HIDE DEF r
  <2>5. r \in Parses
    BY <2>2, <2>4, Zenon DEF Parses
  <2>6. AddLine(p, i) = r
    BY <2>1 DEF r
  <2>. QED  BY <1>5, <2>2, <2>5, <2>6, Zenon DEF InBlock
<1>6. CASE ~ Continues(p.open, Kind(i)) /\ Kind(i) # "blank"
  <2> DEFINE q == Append(p.blocks, <<i>>)
             r == [blocks |-> q, open |-> Opens(Kind(i))]
  <2>1. AddLine(p, i) = r
    BY <1>6, Zenon DEF AddLine
  <2>2. <<i>> \in B
    <3> DEFINE c == <<i>>
    <3>1. c \in Seq(Number) /\ c # <<>> /\ c[1] = i /\ DOMAIN c = 1..1
      OBVIOUS
    <3> HIDE DEF c
    <3>2. \A j \in DOMAIN c : j = 1
      BY <3>1
    <3>3. IsBlock(c)
      BY <1>6, <3>1, <3>2, Zenon DEF IsBlock
    <3>4. c \in B
      BY <3>1, <3>3
    <3>. QED  BY <3>4 DEF c
  <2>3. /\ q \in Seq(B) /\ Len(q) = n + 1 /\ q # <<>> /\ q[n + 1] = <<i>> /\ DOMAIN q = 1..n + 1
        /\ \A k \in 1..n : q[k] = p.blocks[k]
    <3> HIDE DEF B
    <3>. QED  BY <1>2, <1>3, <2>2 DEF n
  <2>4. Opens(Kind(i)) \in O
    OBVIOUS
  <2> HIDE DEF q
  <2>5. r.blocks = q /\ r.open = Opens(Kind(i))
    OBVIOUS
  <2>6. r \in [blocks : Seq(B), open : O]
    <3> HIDE DEF B, O
    <3>. QED  BY <2>3, <2>4
  <2>7. Opens(Kind(r.blocks[Len(r.blocks)][1])) = r.open /\ r.blocks # <<>>
    <3>1. q[Len(q)][1] = i
      BY <2>3
    <3>. QED  BY <2>3, <2>5, <3>1, Zenon
  <2> HIDE DEF r
  <2>8. r \in Parses
    BY <2>6, <2>7, Zenon DEF Parses
  <2>9. \A k \in DOMAIN p.blocks : k \in DOMAIN q /\ q[k] = p.blocks[k]
    BY <1>3, <2>3
  <2>10. n + 1 \in DOMAIN q /\ i \in ToSet(q[n + 1])
    <3>1. ToSet(<<i>>) = {i}
      BY DEF ToSet
    <3>. QED  BY <1>3, <2>3, <3>1
  <2>11. \A j : InBlock(p, j) => InBlock(r, j)
    BY <2>5, <2>9, Zenon DEF InBlock
  <2>12. InBlock(r, i)
    BY <2>5, <2>10, Zenon DEF InBlock
  <2>. QED  BY <2>1, <2>8, <2>11, <2>12, Zenon
<1>. QED  BY <1>4, <1>5, <1>6

(* The blocks of a text have all its lines that are not blank.             *)
LEMMA BlocksAre ==
  ASSUME TextOK
  PROVE  /\ Blocks \in Seq(Seq(Number)) /\ \A k \in DOMAIN Blocks : IsBlock(Blocks[k])
         /\ \A i \in Number : Kind(i) # "blank" => \E b \in ToSet(Blocks) : i \in ToSet(b)
<1> DEFINE n == Len(document.lines)
           start == [blocks |-> <<>>, open |-> "none"]
           step == [a \in Parses \X (1..n) |-> AddLine(a[1], a[2])]
           B == {b \in Seq(Number) : IsBlock(b)}
<1>1. n \in Nat /\ Number = 1..n
  BY DocumentIs DEF Number
<1>2. start \in Parses /\ start.blocks = <<>>
  <2>1. start.blocks = <<>> /\ start.open = "none"
    OBVIOUS
  <2> DEFINE O == {Opens(Kind(i)) : i \in Number} \union {"none"}
  <2>2. "none" \in O
    OBVIOUS
  <2>3. start \in [blocks : Seq(B), open : O]
    <3> HIDE DEF B, O
    <3>. QED  BY <2>2
  <2> HIDE DEF start
  <2>4. ~ Structured(start.open)
    BY <2>1, KindsAre
  <2>. QED  BY <2>1, <2>3, <2>4, Zenon DEF Parses
<1>3. step \in [Parses \X (1..n) -> Parses]
  <2>1. \A a \in Parses \X (1..n) : AddLine(a[1], a[2]) \in Parses
    BY <1>1, AddLineIs
  <2>. QED  BY <2>1
<1>4. \A p \in Parses, i \in 1..n : step[<<p, i>>] = AddLine(p, i)
  OBVIOUS
<1> HIDE DEF step, start, n
<1>5. \E f : IsFold(f, Parses, start, n, step)
  BY <1>1, <1>2, <1>3, Folded
<1>6. PICK f \in [0..n -> Parses] : f[0] = start /\ \A i \in 1..n : f[i] = step[<<f[i - 1], i>>]
  BY <1>5 DEF IsFold
<1> DEFINE Eq(g) == g = [i \in 0..n |-> IF i = 0 THEN start ELSE AddLine(g[i - 1], i)]
<1>7. Eq(f)
  <2>1. \A i \in 0..n : f[i] = IF i = 0 THEN start ELSE AddLine(f[i - 1], i)
    <3>1. ASSUME NEW i \in 0..n, i # 0
          PROVE  f[i] = AddLine(f[i - 1], i)
      <4>1. i \in 1..n /\ i - 1 \in 0..n
        BY <1>1, <3>1
      <4>2. f[i - 1] \in Parses
        BY <1>6, <4>1
      <4>. QED  BY <1>4, <1>6, <4>1, <4>2
    <3>. QED  BY <1>6, <3>1
  <2>2. f = [i \in 0..n |-> f[i]]
    BY <1>6
  <2>. QED  BY <2>1, <2>2
<1>8. Eq(Parsed)
  <2>1. Parsed = CHOOSE g : Eq(g)
    BY Zenon DEF Parsed, n, start
  <2> HIDE DEF Eq
  <2>. QED  BY <1>7, <2>1
<1>9. \A i \in 0..n : Parsed[i] = IF i = 0 THEN start ELSE AddLine(Parsed[i - 1], i)
  BY <1>8
<1> HIDE DEF Eq
<1> DEFINE OK(m) == /\ Parsed[m] \in Parses
                    /\ \A i \in 1..m : Kind(i) # "blank" => InBlock(Parsed[m], i)
           Bad == {m \in 0..n : ~ OK(m)}
<1>10. Bad = {}
  <2>1. SUFFICES ASSUME Bad # {}
                 PROVE  FALSE
    OBVIOUS
  <2>2. PICK m \in Bad : \A k \in Bad : m <= k
    <3>1. Bad \in SUBSET Nat
      BY <1>1
    <3> HIDE DEF Bad
    <3>. QED  BY <2>1, <3>1, Smallest
  <2>3. m \in 0..n /\ ~ OK(m)
    BY <2>2
  <2>4. m # 0
    <3>1. Parsed[0] = start /\ 1..0 = {}
      BY <1>1, <1>9
    <3>. QED  BY <1>2, <2>3, <3>1
  <2>5. m - 1 \in 0..n /\ OK(m - 1)
    <3>1. m - 1 \in 0..n /\ m - 1 \notin Bad
      <4> HIDE DEF Bad
      <4>. QED  BY <1>1, <2>2, <2>3, <2>4
    <3>. QED  BY <3>1
  <2>6. m \in Number /\ Parsed[m] = AddLine(Parsed[m - 1], m)
    BY <1>1, <1>9, <2>3, <2>4
  <2>7. /\ Parsed[m] \in Parses
        /\ \A j : InBlock(Parsed[m - 1], j) => InBlock(Parsed[m], j)
        /\ Kind(m) # "blank" => InBlock(Parsed[m], m)
    BY <2>5, <2>6, AddLineIs
  <2>8. \A i \in 1..m : i = m \/ i \in 1..m - 1
    BY <2>3, <1>1
  <2>9. ASSUME NEW i \in 1..m, Kind(i) # "blank"
        PROVE  InBlock(Parsed[m], i)
    <3>1. CASE i = m
      BY <2>7, <2>9, <3>1, Zenon
    <3>2. CASE i \in 1..m - 1
      <4>1. InBlock(Parsed[m - 1], i)
        BY <2>5, <2>9, <3>2
      <4>. QED  BY <2>7, <4>1, Zenon
    <3>. QED  BY <2>8, <3>1, <3>2
  <2>10. \A i \in 1..m : Kind(i) # "blank" => InBlock(Parsed[m], i)
    BY <2>9
  <2>. QED  BY <2>3, <2>7, <2>10, Zenon
<1>11. n \in 0..n /\ Blocks = Parsed[n].blocks
  BY <1>1 DEF Blocks, n
<1>12. Parsed[n] \in Parses /\ \A i \in 1..n : Kind(i) # "blank" => InBlock(Parsed[n], i)
  BY <1>10, <1>11
<1>13. Blocks \in Seq(B)
  <2>1. Parsed[n] \in [blocks : Seq(B), open : {Opens(Kind(i)) : i \in Number} \union {"none"}]
    BY <1>12, Zenon DEF Parses
  <2> HIDE DEF B
  <2>. QED  BY <1>11, <2>1
<1>14. Blocks \in Seq(Seq(Number)) /\ \A k \in DOMAIN Blocks : IsBlock(Blocks[k])
  <2>1. \A k \in DOMAIN Blocks : Blocks[k] \in B
    <3> HIDE DEF B
    <3>. QED  BY <1>13
  <2>2. \A k \in DOMAIN Blocks : Blocks[k] \in Seq(Number) /\ IsBlock(Blocks[k])
    BY <2>1
  <2>3. Len(Blocks) \in Nat /\ Blocks \in [1..Len(Blocks) -> Seq(Number)]
    <3>1. Len(Blocks) \in Nat /\ Blocks = [k \in 1..Len(Blocks) |-> Blocks[k]]
          /\ DOMAIN Blocks = 1..Len(Blocks)
      <4> HIDE DEF B
      <4>. QED  BY <1>13
    <3>. QED  BY <2>2, <3>1
  <2>. QED  BY <2>2, <2>3, SeqIs, Zenon
<1>. QED  BY <1>1, <1>11, <1>12, <1>14, Zenon DEF InBlock, ToSet

-----------------------------------------------------------------------------
(* Pieces.                                                                 *)

\* The pieces have the characters of a block, and the rows of a table that is
\* cut between them.
KeepsBlock(texts, b) ==
  /\ \A i \in ToSet(b) : \A x \in ToSet(Line(i)) :
       ~ x.breaks => \E c \in texts : x \in ToSet(c)
  /\ Kind(b[1]) \in RowKinds /\ RowsFit(b) =>
       \A i \in ToSet(Data(b)) : \E c \in texts :
         ToSet(Stripped(Prefix(b))) \union ToSet(Stripped(Line(i))) \subseteq ToSet(c)

LEMMA KeepsMore ==
  ASSUME NEW T, NEW U, NEW b, KeepsBlock(T, b), \A c \in T : \E d \in U : ToSet(c) \subseteq ToSet(d)
  PROVE  KeepsBlock(U, b)
<1>1. ASSUME NEW i \in ToSet(b), NEW x \in ToSet(Line(i)), ~ x.breaks
      PROVE  \E d \in U : x \in ToSet(d)
  <2>1. PICK c \in T : x \in ToSet(c)
    BY <1>1, Zenon DEF KeepsBlock
  <2>2. PICK d \in U : ToSet(c) \subseteq ToSet(d)
    BY <2>1, Zenon
  <2>. QED  BY <2>1, <2>2
<1>2. ASSUME Kind(b[1]) \in RowKinds, RowsFit(b), NEW i \in ToSet(Data(b))
      PROVE  \E d \in U : ToSet(Stripped(Prefix(b))) \union ToSet(Stripped(Line(i))) \subseteq ToSet(d)
  <2>1. PICK c \in T : ToSet(Stripped(Prefix(b))) \union ToSet(Stripped(Line(i))) \subseteq ToSet(c)
    BY <1>2, Zenon DEF KeepsBlock
  <2>2. PICK d \in U : ToSet(c) \subseteq ToSet(d)
    BY <2>1, Zenon
  <2>. QED  BY <2>1, <2>2
<1>. QED  BY <1>1, <1>2, Zenon DEF KeepsBlock

(* A block is its header, with the separator, and its data.                *)
LEMMA TableIs ==
  ASSUME TextOK, NEW b \in Seq(Number), IsBlock(b)
  PROVE  /\ Prefix(b) \in Seq(Char) /\ Data(b) \in Seq(Number)
         /\ ToSet(Data(b)) \subseteq ToSet(b)
         /\ \A i \in ToSet(b) : i \in ToSet(Data(b)) \/ ToSet(Line(i)) \subseteq ToSet(Prefix(b))
         /\ ToSet(Prefix(b)) \subseteq ToSet(Text(b))
         /\ \A i \in ToSet(b) : i \in Number
         /\ Kind(b[1]) \in RowKinds => \A i \in ToSet(b) : ~ Blank(Line(i))
<1> DEFINE h == Headed(b)
           head == SubSeq(b, 1, h)
           data == SubSeq(b, h + 1, Len(b))
<1>1. b # <<>> /\ (Kind(b[1]) \in RowKinds => \A j \in DOMAIN b : Kind(b[j]) \in RowKinds)
  BY Zenon DEF IsBlock
<1>2. Len(b) \in Nat /\ Len(b) > 0 /\ DOMAIN b = 1..Len(b)
  BY <1>1
<1>3. h \in 1..Len(b)
  <2>1. h = 1 \/ (h = 2 /\ Len(b) > 1)
    BY Zenon DEF Headed
  <2> HIDE DEF h
  <2>. QED  BY <1>2, <2>1
<1>4. Data(b) = data /\ Prefix(b) = Text(head)
  BY Zenon DEF Data, Prefix
<1> HIDE DEF h
<1>5. /\ head \in Seq(Number) /\ DOMAIN head = 1..h /\ \A j \in 1..h : head[j] = b[j]
      /\ data \in Seq(Number) /\ DOMAIN data = 1..Len(b) - h
      /\ \A j \in 1..Len(b) - h : data[j] = b[j + h]
  <2>1. h \in Nat /\ h <= Len(b) /\ 0 <= h /\ h - 0 = h /\ 0 + 1 = 1 /\ \A j \in 1..h : j + 0 = j
    BY <1>2, <1>3
  <2>2. /\ SubSeq(b, 0 + 1, h) \in Seq(Number) /\ DOMAIN SubSeq(b, 0 + 1, h) = 1..h - 0
        /\ \A j \in 1..h - 0 : SubSeq(b, 0 + 1, h)[j] = b[j + 0]
    BY <1>2, <2>1, RunIs
  <2>3. /\ data \in Seq(Number) /\ DOMAIN data = 1..Len(b) - h
        /\ \A j \in 1..Len(b) - h : data[j] = b[j + h]
    BY <1>2, <2>1, RunIs
  <2>4. head = SubSeq(b, 0 + 1, h)
    BY <2>1
  <2> HIDE DEF head, data
  <2>. QED  BY <2>1, <2>2, <2>3, <2>4
<1> HIDE DEF head, data
<1>6. Prefix(b) \in Seq(Char) /\ ToSet(Prefix(b)) = UNION {ToSet(Line(i)) : i \in ToSet(head)}
  BY <1>4, <1>5, TextIs
<1>7. ToSet(data) \subseteq ToSet(b)
  <2>1. \A j \in DOMAIN data : j + h \in DOMAIN b /\ data[j] = b[j + h]
    BY <1>2, <1>3, <1>5
  <2>. QED  BY <2>1, Zenon DEF ToSet
<1>8. ToSet(head) \subseteq ToSet(b)
  <2>1. \A j \in DOMAIN head : j \in DOMAIN b /\ head[j] = b[j]
    BY <1>2, <1>3, <1>5
  <2>. QED  BY <2>1, Zenon DEF ToSet
<1>9. \A i \in ToSet(b) : i \in ToSet(data) \/ i \in ToSet(head)
  <2>1. \A j \in DOMAIN b : \/ (j \in DOMAIN head /\ head[j] = b[j])
                            \/ (j - h \in DOMAIN data /\ data[j - h] = b[j])
    BY <1>2, <1>3, <1>5
  <2>. QED  BY <2>1, Zenon DEF ToSet
<1>10. \A i \in ToSet(b) : i \in Number
  BY DEF ToSet
<1>11. Kind(b[1]) \in RowKinds => \A i \in ToSet(b) : ~ Blank(Line(i))
  <2>1. \A k \in RowKinds : k # "blank"
    BY DEF RowKinds
  <2>2. Kind(b[1]) \in RowKinds => \A i \in ToSet(b) : Kind(i) # "blank"
    BY <1>1, <2>1, Zenon DEF ToSet
  <2>. QED  BY <1>10, <2>2, LineIs
<1>12. ToSet(Text(b)) = UNION {ToSet(Line(i)) : i \in ToSet(b)}
  BY TextIs
<1>. QED  BY <1>4, <1>5, <1>6, <1>7, <1>8, <1>9, <1>10, <1>11, <1>12

\* Pieces of a table that are full, and the one that is being filled.
Cuttings(b) ==
  {c \in [done : Seq(Seq(Char)), current : Seq(Char)] :
     /\ \A d \in ToSet(c.done) : Fits(d)
     /\ Fits(c.current)
     /\ ToSet(Prefix(b)) \subseteq ToSet(c.current)}

Within(S, c) ==
  (\E p \in ToSet(c.done) : S \subseteq ToSet(p)) \/ S \subseteq ToSet(Stripped(c.current))

RowOfTable(b, i) == ToSet(Stripped(Prefix(b))) \union ToSet(Stripped(Line(i)))

(* One element more.                                                       *)
LEMMA AppendIs ==
  ASSUME NEW S, NEW s \in Seq(S), NEW e \in S
  PROVE  Append(s, e) \in Seq(S) /\ ToSet(Append(s, e)) = ToSet(s) \union {e}
<1>1. /\ Append(s, e) \in Seq(S) /\ DOMAIN Append(s, e) = 1..Len(s) + 1 /\ DOMAIN s = 1..Len(s)
      /\ Len(s) \in Nat
      /\ \A j \in 1..Len(s) : Append(s, e)[j] = s[j]
      /\ Append(s, e)[Len(s) + 1] = e
  OBVIOUS
<1>2. \A j \in DOMAIN Append(s, e) : Append(s, e)[j] = e \/ (j \in DOMAIN s /\ Append(s, e)[j] = s[j])
  BY <1>1
<1>3. \A j \in DOMAIN s : j \in DOMAIN Append(s, e) /\ Append(s, e)[j] = s[j]
  BY <1>1
<1>4. Len(s) + 1 \in DOMAIN Append(s, e) /\ Append(s, e)[Len(s) + 1] = e
  BY <1>1
<1>5. ToSet(Append(s, e)) \subseteq ToSet(s) \union {e}
  BY <1>2 DEF ToSet
<1>6. ToSet(s) \subseteq ToSet(Append(s, e)) /\ e \in ToSet(Append(s, e))
  BY <1>3, <1>4, Zenon DEF ToSet
<1>. QED  BY <1>1, <1>5, <1>6

(* A row is put after the rows before it or after the header again.        *)
LEMMA AddRowIs ==
  ASSUME TextOK, NEW b \in Seq(Number), IsBlock(b), Kind(b[1]) \in RowKinds, RowsFit(b),
         NEW c \in Cuttings(b), NEW i \in ToSet(Data(b))
  PROVE  /\ AddRow(b, c, i) \in Cuttings(b)
         /\ \A S : Within(S, c) => Within(S, AddRow(b, c, i))
         /\ Within(RowOfTable(b, i), AddRow(b, c, i))
<1>1. /\ c.done \in Seq(Seq(Char)) /\ c.current \in Seq(Char)
      /\ \A d \in ToSet(c.done) : Fits(d)
      /\ Fits(c.current) /\ ToSet(Prefix(b)) \subseteq ToSet(c.current)
      /\ c \in [done : Seq(Seq(Char)), current : Seq(Char)]
  BY DEF Cuttings
<1>2. Prefix(b) \in Seq(Char) /\ ~ Blank(Line(i)) /\ i \in Number
  BY TableIs
<1>3. Line(i) \in Seq(Char)
  BY <1>2, LineIs
<1>4. \A a \in Seq(Char) : /\ a \o Line(i) \in Seq(Char)
                           /\ ToSet(a) \union ToSet(Stripped(Line(i))) \subseteq ToSet(Stripped(a \o Line(i)))
                           /\ ToSet(a) \subseteq ToSet(a \o Line(i))
  BY <1>2, <1>3, StrippedJoin, JoinIs
<1>5. \A a \in Seq(Char) : /\ Stripped(a) \in Seq(Char) /\ ToSet(Stripped(a)) \subseteq ToSet(a)
                           /\ Fits(a) => Fits(Stripped(a))
  <2>1. ASSUME NEW a \in Seq(Char)
        PROVE  /\ Stripped(a) \in Seq(Char) /\ ToSet(Stripped(a)) \subseteq ToSet(a)
               /\ Len(Stripped(a)) <= Len(a) /\ Len(a) \in Nat /\ Len(Stripped(a)) \in Nat
    BY StrippedIs
  <2>2. cut.size \in Nat
    BY DocumentIs
  <2>. QED  BY <2>1, <2>2 DEF Fits
<1>6. ToSet(Stripped(Prefix(b))) \subseteq ToSet(Prefix(b))
  BY <1>2, <1>5
<1>7. CASE Fits(c.current \o Line(i))
  <2> DEFINE next == c.current \o Line(i)
             r == [c EXCEPT !.current = next]
  <2>1. AddRow(b, c, i) = r
    BY <1>7, Zenon DEF AddRow
  <2>2. r.done = c.done /\ r.current = next
        /\ (next \in Seq(Char) => r \in [done : Seq(Seq(Char)), current : Seq(Char)])
    BY <1>1
  <2>3. /\ next \in Seq(Char) /\ ToSet(c.current) \subseteq ToSet(next)
        /\ ToSet(c.current) \union ToSet(Stripped(Line(i))) \subseteq ToSet(Stripped(next))
    BY <1>1, <1>4
  <2>4. Fits(next)
    BY <1>7
  <2> HIDE DEF r, next
  <2>5. r \in Cuttings(b)
    BY <1>1, <2>2, <2>3, <2>4 DEF Cuttings
  <2>6. ToSet(Stripped(c.current)) \subseteq ToSet(Stripped(r.current))
    BY <1>1, <1>5, <2>2, <2>3
  <2>7. \A S : Within(S, c) => Within(S, r)
    BY <2>2, <2>6 DEF Within
  <2>8. RowOfTable(b, i) \subseteq ToSet(Stripped(r.current))
    BY <1>1, <1>6, <2>2, <2>3 DEF RowOfTable
  <2>. QED  BY <2>1, <2>5, <2>7, <2>8, Zenon DEF Within
<1>8. CASE ~ Fits(c.current \o Line(i))
  <2> DEFINE next == NextPiece(b, i)
             done == Append(c.done, Stripped(c.current))
             r == [done |-> done, current |-> next]
  <2>1. AddRow(b, c, i) = r
    BY <1>8, Zenon DEF AddRow
  <2>2. r.done = done /\ r.current = next
    OBVIOUS
  <2>3. /\ next \in Seq(Char) /\ ToSet(Prefix(b)) \subseteq ToSet(next)
        /\ ToSet(Prefix(b)) \union ToSet(Stripped(Line(i))) \subseteq ToSet(Stripped(next))
    BY <1>2, <1>4 DEF NextPiece
  <2>4. Fits(next)
    BY DEF RowsFit, NextPiece
  <2>5. /\ done \in Seq(Seq(Char)) /\ ToSet(done) = ToSet(c.done) \union {Stripped(c.current)}
        /\ Fits(Stripped(c.current))
    <3> DEFINE T == Seq(Char)
    <3>1. c.done \in Seq(T) /\ Stripped(c.current) \in T /\ Fits(Stripped(c.current))
      BY <1>1, <1>5
    <3> HIDE DEF T
    <3>2. done \in Seq(T) /\ ToSet(done) = ToSet(c.done) \union {Stripped(c.current)}
      BY <3>1, AppendIs
    <3>. QED  BY <3>1, <3>2 DEF T
  <2> HIDE DEF next, done
  <2>6. r \in [done : Seq(Seq(Char)), current : Seq(Char)]
    BY <2>3, <2>5
  <2> HIDE DEF r
  <2>7. r \in Cuttings(b)
    BY <1>1, <2>2, <2>3, <2>4, <2>5, <2>6 DEF Cuttings
  <2>8. \A S : Within(S, c) => Within(S, r)
    BY <2>2, <2>5 DEF Within
  <2>9. RowOfTable(b, i) \subseteq ToSet(Stripped(r.current))
    BY <1>6, <2>2, <2>3 DEF RowOfTable
  <2>. QED  BY <2>1, <2>7, <2>8, <2>9, Zenon DEF Within
<1>. QED  BY <1>7, <1>8

(* The pieces of a table fit and keep it.                                  *)
LEMMA SplitTableIs ==
  ASSUME TextOK, NEW b \in Seq(Number), IsBlock(b), Kind(b[1]) \in RowKinds, RowsFit(b)
  PROVE  /\ SplitTable(b) \in Seq(Seq(Char))
         /\ \A p \in ToSet(SplitTable(b)) : Fits(p)
         /\ KeepsBlock(ToSet(SplitTable(b)), b)
<1> DEFINE data == Data(b)
           n == Len(data)
           start == [done |-> <<>>, current |-> Prefix(b)]
           T == Cuttings(b)
           step == [a \in T \X (1..n) |-> AddRow(b, a[1], data[a[2]])]
<1>1. /\ Prefix(b) \in Seq(Char) /\ data \in Seq(Number)
      /\ \A i \in ToSet(data) : i \in ToSet(b) /\ i \in Number /\ ~ Blank(Line(i))
      /\ \A i \in ToSet(b) : i \in ToSet(data) \/ ToSet(Line(i)) \subseteq ToSet(Prefix(b))
  BY TableIs
<1>2. /\ n \in Nat /\ DOMAIN data = 1..n
      /\ \A j \in 1..n : data[j] \in ToSet(data)
      /\ \A i \in ToSet(data) : \E j \in 1..n : data[j] = i
  <2>1. n \in Nat /\ DOMAIN data = 1..n
    <3> HIDE DEF data
    <3>. QED  BY <1>1
  <2>. QED  BY <2>1, Zenon DEF ToSet
<1>3. n > 0
  <2>1. data # <<>>
    BY DEF RowsFit
  <2> HIDE DEF data
  <2>. QED  BY <1>1, <2>1
<1>4. Fits(Prefix(b))
  <2>1. 1 \in 1..n /\ data[1] \in ToSet(data) /\ data[1] \in Number
    BY <1>1, <1>2, <1>3
  <2>2. Fits(Prefix(b) \o Line(data[1]))
    BY <2>1 DEF RowsFit
  <2>3. Line(data[1]) \in Seq(Char)
    BY <2>1, LineIs
  <2>4. /\ Len(Prefix(b) \o Line(data[1])) = Len(Prefix(b)) + Len(Line(data[1]))
        /\ Len(Prefix(b)) \in Nat /\ Len(Line(data[1])) \in Nat
    BY <1>1, <2>3, JoinIs
  <2>5. cut.size \in Nat
    BY DocumentIs
  <2>. QED  BY <2>2, <2>4, <2>5 DEF Fits
<1>5. start \in T
  <2>1. start.done = <<>> /\ start.current = Prefix(b)
    OBVIOUS
  <2>2. <<>> \in Seq(Seq(Char)) /\ ToSet(<<>>) = {}
    BY DEF ToSet
  <2>3. start \in [done : Seq(Seq(Char)), current : Seq(Char)]
    BY <1>1, <2>2
  <2> HIDE DEF start
  <2>. QED  BY <1>4, <2>1, <2>2, <2>3 DEF Cuttings
<1>6. \A c \in T, j \in 1..n :
        /\ AddRow(b, c, data[j]) \in T
        /\ \A S : Within(S, c) => Within(S, AddRow(b, c, data[j]))
        /\ Within(RowOfTable(b, data[j]), AddRow(b, c, data[j]))
  BY <1>2, AddRowIs
<1> HIDE DEF T
<1>7. step \in [T \X (1..n) -> T] /\ \A c \in T, j \in 1..n : step[<<c, j>>] = AddRow(b, c, data[j])
  BY <1>6
<1> HIDE DEF step, start, n
<1>8. \E f : IsFold(f, T, start, n, step)
  BY <1>2, <1>5, <1>7, Folded
<1>9. PICK f \in [0..n -> T] : f[0] = start /\ \A i \in 1..n : f[i] = step[<<f[i - 1], i>>]
  BY <1>8 DEF IsFold
<1> DEFINE Eq(g) == g = [i \in 0..n |-> IF i = 0 THEN start ELSE AddRow(b, g[i - 1], data[i])]
           split == CHOOSE g : Eq(g)
<1>10. Eq(f)
  <2>1. \A i \in 0..n : f[i] = IF i = 0 THEN start ELSE AddRow(b, f[i - 1], data[i])
    <3>1. ASSUME NEW i \in 0..n, i # 0
          PROVE  f[i] = AddRow(b, f[i - 1], data[i])
      <4>1. i \in 1..n /\ i - 1 \in 0..n
        BY <1>2, <3>1
      <4>2. f[i - 1] \in T
        BY <1>9, <4>1
      <4>. QED  BY <1>7, <1>9, <4>1, <4>2
    <3>. QED  BY <1>9, <3>1
  <2>2. f = [i \in 0..n |-> f[i]]
    BY <1>9
  <2>. QED  BY <2>1, <2>2
<1>11. SplitTable(b) = Append(split[n].done, Stripped(split[n].current))
  BY Zenon DEF SplitTable, n, start
<1>12. Eq(split)
  <2> HIDE DEF Eq
  <2>. QED  BY <1>10
<1> HIDE DEF split
<1>13. \A i \in 0..n : split[i] = IF i = 0 THEN start ELSE AddRow(b, split[i - 1], data[i])
  BY <1>12
<1> HIDE DEF Eq
<1> DEFINE OK(m) == split[m] \in T /\ \A j \in 1..m : Within(RowOfTable(b, data[j]), split[m])
           Bad == {m \in 0..n : ~ OK(m)}
<1>14. Bad = {}
  <2>1. SUFFICES ASSUME Bad # {}
                 PROVE  FALSE
    OBVIOUS
  <2>2. PICK m \in Bad : \A k \in Bad : m <= k
    <3>1. Bad \in SUBSET Nat
      BY <1>2
    <3> HIDE DEF Bad
    <3>. QED  BY <2>1, <3>1, Smallest
  <2>3. m \in 0..n /\ ~ OK(m)
    BY <2>2
  <2>4. m # 0
    <3>1. split[0] = start /\ 1..0 = {}
      BY <1>2, <1>13
    <3>. QED  BY <1>5, <2>3, <3>1
  <2>5. m - 1 \in 0..n /\ OK(m - 1)
    <3>1. m - 1 \in 0..n /\ m - 1 \notin Bad
      <4> HIDE DEF Bad
      <4>. QED  BY <1>2, <2>2, <2>3, <2>4
    <3>. QED  BY <3>1
  <2>6. m \in 1..n /\ split[m] = AddRow(b, split[m - 1], data[m])
    BY <1>2, <1>13, <2>3, <2>4
  <2>7. /\ split[m] \in T
        /\ \A S : Within(S, split[m - 1]) => Within(S, split[m])
        /\ Within(RowOfTable(b, data[m]), split[m])
    BY <1>6, <2>5, <2>6
  <2>8. \A j \in 1..m : j = m \/ j \in 1..m - 1
    BY <1>2, <2>3
  <2>9. \A j \in 1..m : Within(RowOfTable(b, data[j]), split[m])
    BY <2>5, <2>7, <2>8
  <2>. QED  BY <2>3, <2>7, <2>9, Zenon
<1>15. split[n] \in T /\ \A j \in 1..n : Within(RowOfTable(b, data[j]), split[n])
  <2>1. n \in 0..n
    BY <1>2
  <2>. QED  BY <1>14, <2>1
<1> DEFINE c == split[n]
           pieces == Append(c.done, Stripped(c.current))
<1>16. /\ c.done \in Seq(Seq(Char)) /\ c.current \in Seq(Char)
       /\ \A d \in ToSet(c.done) : Fits(d)
       /\ Fits(c.current)
  BY <1>15 DEF Cuttings, T
<1> HIDE DEF c
<1>17. Stripped(c.current) \in Seq(Char) /\ Fits(Stripped(c.current))
  <2>1. /\ Stripped(c.current) \in Seq(Char)
        /\ Len(Stripped(c.current)) <= Len(c.current) /\ Len(c.current) \in Nat
        /\ Len(Stripped(c.current)) \in Nat
    BY <1>16, StrippedIs
  <2>2. cut.size \in Nat
    BY DocumentIs
  <2>. QED  BY <1>16, <2>1, <2>2 DEF Fits
<1>18. pieces \in Seq(Seq(Char)) /\ ToSet(pieces) = ToSet(c.done) \union {Stripped(c.current)}
  <2> DEFINE U == Seq(Char)
  <2>1. c.done \in Seq(U) /\ Stripped(c.current) \in U
    BY <1>16, <1>17
  <2> HIDE DEF U
  <2>2. pieces \in Seq(U) /\ ToSet(pieces) = ToSet(c.done) \union {Stripped(c.current)}
    BY <2>1, AppendIs
  <2>. QED  BY <2>2 DEF U
<1>19. SplitTable(b) = pieces
  BY <1>11 DEF c
<1> HIDE DEF pieces, data
<1>20. \A i \in ToSet(data) : \E p \in ToSet(pieces) : RowOfTable(b, i) \subseteq ToSet(p)
  <2>1. ASSUME NEW i \in ToSet(data)
        PROVE  \E p \in ToSet(pieces) : RowOfTable(b, i) \subseteq ToSet(p)
    <3>1. PICK j \in 1..n : data[j] = i
      BY <1>2
    <3>2. Within(RowOfTable(b, i), c)
      BY <1>15, <3>1 DEF c
    <3>. QED  BY <1>18, <3>2 DEF Within
  <2>. QED  BY <2>1
<1>21. ASSUME NEW i \in ToSet(b), NEW x \in ToSet(Line(i)), ~ x.breaks
       PROVE  \E p \in ToSet(pieces) : x \in ToSet(p)
  <2>1. CASE i \in ToSet(data)
    <3>1. x \in ToSet(Stripped(Line(i)))
      BY <1>1, <1>21, <2>1, LineIs, StrippedIs
    <3>. QED  BY <1>20, <2>1, <3>1 DEF RowOfTable
  <2>2. CASE ToSet(Line(i)) \subseteq ToSet(Prefix(b))
    <3>1. x \in ToSet(Stripped(Prefix(b)))
      BY <1>1, <1>21, <2>2, StrippedIs
    <3>2. data[1] \in ToSet(data)
      BY <1>2, <1>3
    <3>. QED  BY <1>20, <3>1, <3>2 DEF RowOfTable
  <2>. QED  BY <1>1, <2>1, <2>2
<1>22. \A p \in ToSet(pieces) : Fits(p)
  BY <1>16, <1>17, <1>18
<1>23. KeepsBlock(ToSet(pieces), b)
  BY <1>20, <1>21 DEF KeepsBlock, RowOfTable, data
<1>. QED  BY <1>18, <1>19, <1>22, <1>23

(* The pieces of a block fit and keep it; there is one at least.           *)
LEMMA PiecesAre ==
  ASSUME TextOK, NEW b \in Seq(Number), IsBlock(b)
  PROVE  /\ Pieces(b) \in Seq(Seq(Char)) /\ Pieces(b) # <<>>
         /\ \A p \in ToSet(Pieces(b)) : Fits(p)
         /\ KeepsBlock(ToSet(Pieces(b)), b)
         /\ Fits(Text(b)) => Pieces(b) = <<Text(b)>>
<1>1. Text(b) \in Seq(Char) /\ ToSet(Text(b)) = UNION {ToSet(Line(i)) : i \in ToSet(b)}
  BY TextIs
<1>2. /\ Prefix(b) \in Seq(Char) /\ ToSet(Prefix(b)) \subseteq ToSet(Text(b))
      /\ ToSet(Data(b)) \subseteq ToSet(b) /\ \A i \in ToSet(b) : i \in Number
  BY TableIs
<1>3. CASE Fits(Text(b))
  <2>1. Pieces(b) = <<Text(b)>>
    BY <1>3, Zenon DEF Pieces
  <2>2. <<Text(b)>> \in Seq(Seq(Char)) /\ <<Text(b)>> # <<>> /\ ToSet(<<Text(b)>>) = {Text(b)}
    BY <1>1 DEF ToSet
  <2>3. ASSUME NEW i \in ToSet(b)
        PROVE  ToSet(Line(i)) \subseteq ToSet(Text(b))
    BY <1>1
  <2>4. ASSUME NEW i \in ToSet(Data(b))
        PROVE  ToSet(Stripped(Prefix(b))) \union ToSet(Stripped(Line(i))) \subseteq ToSet(Text(b))
    <3>1. ToSet(Stripped(Prefix(b))) \subseteq ToSet(Prefix(b))
      BY <1>2, StrippedIs
    <3>2. i \in ToSet(b) /\ i \in Number
      BY <1>2, <2>4
    <3>3. ToSet(Stripped(Line(i))) \subseteq ToSet(Line(i))
      BY <3>2, LineIs, StrippedIs
    <3>4. ToSet(Line(i)) \subseteq ToSet(Text(b))
      BY <2>3, <3>2
    <3>. QED  BY <1>2, <3>1, <3>3, <3>4
  <2>5. KeepsBlock({Text(b)}, b)
    BY <2>3, <2>4 DEF KeepsBlock
  <2>. QED  BY <1>3, <2>1, <2>2, <2>5
<1>4. ASSUME ~ Fits(Text(b))
      PROVE  \/ Pieces(b) = Windows(Text(b)) /\ ~ (Kind(b[1]) \in RowKinds /\ RowsFit(b))
             \/ Pieces(b) = SplitTable(b) /\ Kind(b[1]) \in RowKinds /\ RowsFit(b)
  <2>1. Head(b) = b[1]
    BY DEF IsBlock
  <2>2. CASE Kind(b[1]) \in RowKinds
    <3>1. Pieces(b) = SplitTable(b)
      BY <1>4, <2>1, <2>2, Zenon DEF Pieces
    <3>2. ~ RowsFit(b) => SplitTable(b) = Windows(Text(b))
      BY Zenon DEF SplitTable
    <3>. QED  BY <2>2, <3>1, <3>2, Zenon
  <2>3. CASE ~ (Kind(b[1]) \in RowKinds)
    BY <1>4, <2>1, <2>3, Zenon DEF Pieces
  <2>. QED  BY <2>2, <2>3
<1>5. \E i \in ToSet(b) : \E x \in ToSet(Line(i)) : ~ x.breaks
  <2>1. b # <<>> /\ Kind(b[1]) # "blank"
    BY Zenon DEF IsBlock
  <2>2. 1 \in DOMAIN b /\ b[1] \in Number
    BY <2>1
  <2>3. b[1] \in ToSet(b) /\ ~ Blank(Line(b[1])) /\ Line(b[1]) \in Seq(Char)
    BY <2>1, <2>2, LineIs DEF ToSet
  <2>. QED  BY <2>3, BlankIs
<1>6. ASSUME KeepsBlock(ToSet(Pieces(b)), b)
      PROVE  Pieces(b) # <<>>
  <2>1. PICK i \in ToSet(b) : \E x \in ToSet(Line(i)) : ~ x.breaks
    BY <1>5
  <2>2. \E c \in ToSet(Pieces(b)) : TRUE
    BY <1>6, <2>1 DEF KeepsBlock
  <2>3. ToSet(<<>>) = {}
    BY DEF ToSet
  <2>. QED  BY <2>2, <2>3
<1>7. CASE ~ Fits(Text(b)) /\ Pieces(b) = Windows(Text(b)) /\ ~ (Kind(b[1]) \in RowKinds /\ RowsFit(b))
  <2>1. Windows(Text(b)) \in Seq(Seq(Char)) /\ \A w \in ToSet(Windows(Text(b))) : Fits(w)
    BY <1>1, WindowsIs
  <2>2. \A i \in ToSet(b) : \A x \in ToSet(Line(i)) :
          ~ x.breaks => \E w \in ToSet(Windows(Text(b))) : x \in ToSet(w)
    <3>1. ASSUME NEW i \in ToSet(b), NEW x \in ToSet(Line(i)), ~ x.breaks
          PROVE  \E w \in ToSet(Windows(Text(b))) : x \in ToSet(w)
      <4>1. x \in ToSet(Text(b))
        BY <1>1
      <4>. QED  BY <1>1, <3>1, <4>1, WindowsKeep
    <3>. QED  BY <3>1
  <2>3. KeepsBlock(ToSet(Pieces(b)), b)
    BY <1>7, <2>2, Zenon DEF KeepsBlock
  <2>. QED  BY <1>6, <1>7, <2>1, <2>3
<1>8. CASE ~ Fits(Text(b)) /\ Pieces(b) = SplitTable(b) /\ Kind(b[1]) \in RowKinds /\ RowsFit(b)
  BY <1>6, <1>8, SplitTableIs
<1>. QED  BY <1>3, <1>4, <1>7, <1>8

(* A sequence is all but its last element and the last one.                *)
LEMMA FrontLast ==
  ASSUME NEW S, NEW s \in Seq(S), s # <<>>
  PROVE  Front(s) \in Seq(S) /\ Last(s) \in S /\ ToSet(s) = ToSet(Front(s)) \union {Last(s)}
<1> DEFINE n == Len(s)
           t == Front(s)
<1>1. n \in Nat /\ n > 0 /\ DOMAIN s = 1..n
  OBVIOUS
<1>2. t = SubSeq(s, 1, n - 1)
  BY DEF Front
<1>3. t \in Seq(S) /\ DOMAIN t = 1..n - 1 /\ \A j \in 1..n - 1 : t[j] = s[j]
  BY <1>1, <1>2
<1>4. Last(s) = s[n] /\ s[n] \in S
  BY <1>1 DEF Last
<1> HIDE DEF t, n
<1>5. \A j \in DOMAIN s : j = n \/ (j \in DOMAIN t /\ t[j] = s[j])
  BY <1>1, <1>3
<1>6. n \in DOMAIN s /\ \A j \in DOMAIN t : j \in DOMAIN s /\ t[j] = s[j]
  BY <1>1, <1>3
<1>7. ToSet(s) \subseteq ToSet(t) \union {s[n]}
  BY <1>5 DEF ToSet
<1>8. s[n] \in ToSet(s) /\ ToSet(t) \subseteq ToSet(s)
  BY <1>6, Zenon DEF ToSet
<1>. QED  BY <1>3, <1>4, <1>7, <1>8 DEF t

\* Chunks that are full, and the one that is being put together.
Packings ==
  {p \in [packed : Seq(Seq(Char)), current : Seq(Char)] :
     (\A q \in ToSet(p.packed) : Fits(q)) /\ Fits(p.current)}

Has(p) == ToSet(p.packed) \union {p.current}

LEMMA AddBlockIs ==
  ASSUME TextOK, NEW p \in Packings, NEW b \in Seq(Number), IsBlock(b)
  PROVE  /\ AddBlock(p, b) \in Packings
         /\ \A a : KeepsBlock(Has(p), a) => KeepsBlock(Has(AddBlock(p, b)), a)
         /\ KeepsBlock(Has(AddBlock(p, b)), b)
<1> DEFINE gap == IF Last(p.current).breaks THEN <<Break>> ELSE <<Break, Break>>
           before == p.current \o gap
           joined == before \o Text(b)
           kept == IF p.current = <<>> THEN p.packed ELSE Append(p.packed, p.current)
           pieces == Pieces(b)
<1>1. /\ p.packed \in Seq(Seq(Char)) /\ p.current \in Seq(Char)
      /\ \A q \in ToSet(p.packed) : Fits(q)
      /\ Fits(p.current)
      /\ p \in [packed : Seq(Seq(Char)), current : Seq(Char)]
  BY DEF Packings
<1>2. Text(b) \in Seq(Char)
  BY TextIs
<1>3. /\ pieces \in Seq(Seq(Char)) /\ pieces # <<>>
      /\ \A q \in ToSet(pieces) : Fits(q)
      /\ KeepsBlock(ToSet(pieces), b)
      /\ Fits(Text(b)) => pieces = <<Text(b)>>
  BY PiecesAre
<1> HIDE DEF pieces
<1>4. cut.size \in Nat
  BY DocumentIs
<1>5. CASE p.current # <<>> /\ Fits(joined)
  <2>1. gap \in Seq(Char)
    <3>1. Break \in Char
      BY DEF Break, Char
    <3>2. <<Break>> \in Seq(Char) /\ <<Break, Break>> \in Seq(Char)
      BY <3>1
    <3>. QED  BY <3>2
  <2> DEFINE r == [p EXCEPT !.current = joined]
  <2>2. AddBlock(p, b) = r
    BY <1>5, Zenon DEF AddBlock
  <2> HIDE DEF gap
  <2>3. before \in Seq(Char) /\ ToSet(p.current) \subseteq ToSet(before)
    BY <1>1, <2>1, JoinIs
  <2> HIDE DEF before
  <2>4. /\ joined \in Seq(Char) /\ ToSet(joined) = ToSet(before) \union ToSet(Text(b))
        /\ Len(joined) = Len(before) + Len(Text(b)) /\ Len(before) \in Nat /\ Len(Text(b)) \in Nat
    BY <1>2, <2>3, JoinIs
  <2>5. r.packed = p.packed /\ r.current = joined
        /\ (joined \in Seq(Char) => r \in [packed : Seq(Seq(Char)), current : Seq(Char)])
    BY <1>1
  <2>6. Fits(joined)
    BY <1>5
  <2> HIDE DEF joined, r
  <2>7. pieces = <<Text(b)>> /\ ToSet(<<Text(b)>>) = {Text(b)}
    <3>1. Fits(Text(b))
      BY <1>4, <2>4, <2>6 DEF Fits
    <3>. QED  BY <1>3, <3>1 DEF ToSet
  <2>8. r \in Packings
    BY <1>1, <2>4, <2>5, <2>6 DEF Packings
  <2>9. ASSUME NEW a, KeepsBlock(Has(p), a)
        PROVE  KeepsBlock(Has(r), a)
    <3>1. \A c \in Has(p) : \E d \in Has(r) : ToSet(c) \subseteq ToSet(d)
      BY <2>3, <2>4, <2>5 DEF Has
    <3>. QED  BY <2>9, <3>1, KeepsMore
  <2>10. KeepsBlock(Has(r), b)
    <3>1. \A c \in ToSet(pieces) : \E d \in Has(r) : ToSet(c) \subseteq ToSet(d)
      BY <2>4, <2>5, <2>7 DEF Has
    <3>. QED  BY <1>3, <3>1, KeepsMore
  <2>. QED  BY <2>2, <2>8, <2>9, <2>10
<1>6. CASE ~ (p.current # <<>> /\ Fits(joined))
  <2> DEFINE r == [packed |-> kept \o Front(pieces), current |-> Last(pieces)]
  <2>1. AddBlock(p, b) = r
    BY <1>6, Zenon DEF AddBlock, pieces
  <2> DEFINE U == Seq(Char)
  <2>2. /\ Front(pieces) \in Seq(U) /\ Last(pieces) \in U
        /\ ToSet(pieces) = ToSet(Front(pieces)) \union {Last(pieces)}
    <3>1. pieces \in Seq(U) /\ pieces # <<>>
      BY <1>3
    <3> HIDE DEF U
    <3>. QED  BY <3>1, FrontLast
  <2>3. /\ kept \in Seq(U) /\ ToSet(kept) \subseteq ToSet(p.packed) \union {p.current}
        /\ ToSet(p.packed) \subseteq ToSet(kept)
        /\ p.current # <<>> => p.current \in ToSet(kept)
    <3>1. p.packed \in Seq(U) /\ p.current \in U
      BY <1>1
    <3> HIDE DEF U
    <3>2. Append(p.packed, p.current) \in Seq(U)
          /\ ToSet(Append(p.packed, p.current)) = ToSet(p.packed) \union {p.current}
      BY <3>1, AppendIs
    <3>3. CASE p.current = <<>>
      <4>1. kept = p.packed
        BY <3>3
      <4>. QED  BY <3>1, <3>3, <4>1
    <3>4. CASE p.current # <<>>
      <4>1. kept = Append(p.packed, p.current)
        BY <3>4
      <4>. QED  BY <3>2, <4>1
    <3>. QED  BY <3>3, <3>4
  <2> HIDE DEF kept
  <2>4. kept \o Front(pieces) \in Seq(U)
        /\ ToSet(kept \o Front(pieces)) = ToSet(kept) \union ToSet(Front(pieces))
    <3> HIDE DEF U
    <3>. QED  BY <2>2, <2>3, JoinIs
  <2>5. r.packed = kept \o Front(pieces) /\ r.current = Last(pieces)
    OBVIOUS
  <2>6. r \in [packed : Seq(Seq(Char)), current : Seq(Char)]
    BY <2>2, <2>4
  <2> HIDE DEF r
  <2>7. Has(r) = ToSet(kept) \union ToSet(pieces)
    BY <2>2, <2>4, <2>5 DEF Has
  <2>8. \A q \in Has(r) : Fits(q)
    BY <1>1, <1>3, <2>3, <2>7
  <2>9. r \in Packings
    BY <2>6, <2>8 DEF Packings, Has
  <2>10. ASSUME NEW a, KeepsBlock(Has(p), a)
         PROVE  KeepsBlock(Has(r), a)
    <3>1. ToSet(<<>>) = {}
      BY DEF ToSet
    <3>2. \E d : d \in Has(r)
      BY DEF Has
    <3>3. ASSUME NEW c \in Has(p)
          PROVE  \E d \in Has(r) : ToSet(c) \subseteq ToSet(d)
      <4>1. CASE c \in ToSet(kept)
        BY <2>7, <4>1
      <4>2. CASE c = <<>>
        BY <3>1, <3>2, <4>2
      <4>3. c \in ToSet(kept) \/ c = <<>>
        BY <2>3 DEF Has
      <4>. QED  BY <4>1, <4>2, <4>3
    <3>. QED  BY <2>10, <3>3, KeepsMore
  <2>11. KeepsBlock(Has(r), b)
    <3>1. \A c \in ToSet(pieces) : \E d \in Has(r) : ToSet(c) \subseteq ToSet(d)
      BY <2>7
    <3>. QED  BY <1>3, <3>1, KeepsMore
  <2>. QED  BY <2>1, <2>9, <2>10, <2>11
<1>. QED  BY <1>5, <1>6

(* Put together, the pieces of all blocks fit and keep them.               *)
LEMMA PackedIs ==
  ASSUME TextOK
  PROVE  /\ Packed \in Seq(Seq(Char)) /\ \A c \in ToSet(Packed) : Fits(c)
         /\ \A b \in ToSet(Blocks) : KeepsBlock(ToSet(Packed), b)
<1> DEFINE n == Len(Blocks)
           start == [packed |-> <<>>, current |-> <<>>]
           T == Packings
           step == [a \in T \X (1..n) |-> AddBlock(a[1], Blocks[a[2]])]
<1>1. /\ n \in Nat /\ DOMAIN Blocks = 1..n
      /\ \A j \in 1..n : Blocks[j] \in Seq(Number) /\ IsBlock(Blocks[j])
      /\ \A b \in ToSet(Blocks) : \E j \in 1..n : Blocks[j] = b
  <2>1. Blocks \in Seq(Seq(Number)) /\ \A k \in DOMAIN Blocks : IsBlock(Blocks[k])
    BY BlocksAre
  <2>2. n \in Nat /\ DOMAIN Blocks = 1..n
    BY <2>1
  <2>3. \A j \in 1..n : Blocks[j] \in Seq(Number)
    BY <2>1
  <2>4. \A b \in ToSet(Blocks) : \E j \in 1..n : Blocks[j] = b
    BY <2>2, Zenon DEF ToSet
  <2>. QED  BY <2>1, <2>2, <2>3, <2>4
<1>2. start \in T
  <2>1. start.packed = <<>> /\ start.current = <<>>
    OBVIOUS
  <2>2. /\ <<>> \in Seq(Seq(Char)) /\ <<>> \in Seq(Char) /\ ToSet(<<>>) = {} /\ Len(<<>>) = 0
    BY DEF ToSet
  <2>3. Fits(<<>>)
    <3>1. cut.size \in Nat
      BY DocumentIs
    <3>. QED  BY <2>2, <3>1 DEF Fits
  <2>4. start \in [packed : Seq(Seq(Char)), current : Seq(Char)]
    BY <2>2
  <2> HIDE DEF start
  <2>. QED  BY <2>1, <2>2, <2>3, <2>4 DEF Packings
<1>3. \A p \in T, j \in 1..n :
        /\ AddBlock(p, Blocks[j]) \in T
        /\ \A a : KeepsBlock(Has(p), a) => KeepsBlock(Has(AddBlock(p, Blocks[j])), a)
        /\ KeepsBlock(Has(AddBlock(p, Blocks[j])), Blocks[j])
  BY <1>1, AddBlockIs
<1> HIDE DEF T
<1>4. step \in [T \X (1..n) -> T] /\ \A p \in T, j \in 1..n : step[<<p, j>>] = AddBlock(p, Blocks[j])
  BY <1>3
<1> HIDE DEF step, start, n
<1>5. \E f : IsFold(f, T, start, n, step)
  BY <1>1, <1>2, <1>4, Folded
<1>6. PICK f \in [0..n -> T] : f[0] = start /\ \A i \in 1..n : f[i] = step[<<f[i - 1], i>>]
  BY <1>5 DEF IsFold
<1> DEFINE Eq(g) == g = [i \in 0..n |-> IF i = 0 THEN start ELSE AddBlock(g[i - 1], Blocks[i])]
           packing == CHOOSE g : Eq(g)
<1>7. Eq(f)
  <2>1. \A i \in 0..n : f[i] = IF i = 0 THEN start ELSE AddBlock(f[i - 1], Blocks[i])
    <3>1. ASSUME NEW i \in 0..n, i # 0
          PROVE  f[i] = AddBlock(f[i - 1], Blocks[i])
      <4>1. i \in 1..n /\ i - 1 \in 0..n
        BY <1>1, <3>1
      <4>2. f[i - 1] \in T
        BY <1>6, <4>1
      <4>. QED  BY <1>4, <1>6, <4>1, <4>2
    <3>. QED  BY <1>6, <3>1
  <2>2. f = [i \in 0..n |-> f[i]]
    BY <1>6
  <2>. QED  BY <2>1, <2>2
<1>8. Packed = Append(packing[n].packed, packing[n].current)
  BY Zenon DEF Packed, n, start
<1>9. Eq(packing)
  <2> HIDE DEF Eq
  <2>. QED  BY <1>7
<1> HIDE DEF packing
<1>10. \A i \in 0..n : packing[i] = IF i = 0 THEN start ELSE AddBlock(packing[i - 1], Blocks[i])
  BY <1>9
<1> HIDE DEF Eq
<1> DEFINE OK(m) == packing[m] \in T /\ \A j \in 1..m : KeepsBlock(Has(packing[m]), Blocks[j])
           Bad == {m \in 0..n : ~ OK(m)}
<1>11. Bad = {}
  <2>1. SUFFICES ASSUME Bad # {}
                 PROVE  FALSE
    OBVIOUS
  <2>2. PICK m \in Bad : \A k \in Bad : m <= k
    <3>1. Bad \in SUBSET Nat
      BY <1>1
    <3> HIDE DEF Bad
    <3>. QED  BY <2>1, <3>1, Smallest
  <2>3. m \in 0..n /\ ~ OK(m)
    BY <2>2
  <2>4. m # 0
    <3>1. packing[0] = start /\ 1..0 = {}
      BY <1>1, <1>10
    <3>. QED  BY <1>2, <2>3, <3>1
  <2>5. m - 1 \in 0..n /\ OK(m - 1)
    <3>1. m - 1 \in 0..n /\ m - 1 \notin Bad
      <4> HIDE DEF Bad
      <4>. QED  BY <1>1, <2>2, <2>3, <2>4
    <3>. QED  BY <3>1
  <2>6. m \in 1..n /\ packing[m] = AddBlock(packing[m - 1], Blocks[m])
    BY <1>1, <1>10, <2>3, <2>4
  <2>7. /\ packing[m] \in T
        /\ \A a : KeepsBlock(Has(packing[m - 1]), a) => KeepsBlock(Has(packing[m]), a)
        /\ KeepsBlock(Has(packing[m]), Blocks[m])
    BY <1>3, <2>5, <2>6
  <2>8. \A j \in 1..m : j = m \/ j \in 1..m - 1
    BY <1>1, <2>3
  <2>9. \A j \in 1..m : KeepsBlock(Has(packing[m]), Blocks[j])
    BY <2>5, <2>7, <2>8
  <2>. QED  BY <2>3, <2>7, <2>9, Zenon
<1>12. packing[n] \in T /\ \A j \in 1..n : KeepsBlock(Has(packing[n]), Blocks[j])
  <2>1. n \in 0..n
    BY <1>1
  <2>. QED  BY <1>11, <2>1
<1> DEFINE p == packing[n]
<1>13. /\ p.packed \in Seq(Seq(Char)) /\ p.current \in Seq(Char)
       /\ \A c \in Has(p) : Fits(c)
  BY <1>12 DEF Packings, T, Has
<1> HIDE DEF p
<1>14. Packed \in Seq(Seq(Char)) /\ ToSet(Packed) = Has(p)
  <2> DEFINE U == Seq(Char)
  <2>1. p.packed \in Seq(U) /\ p.current \in U
    BY <1>13
  <2> HIDE DEF U
  <2>2. Append(p.packed, p.current) \in Seq(U)
        /\ ToSet(Append(p.packed, p.current)) = ToSet(p.packed) \union {p.current}
    BY <2>1, AppendIs
  <2>3. Packed = Append(p.packed, p.current)
    BY <1>8 DEF p
  <2>. QED  BY <2>2, <2>3 DEF U, Has
<1>. QED  BY <1>1, <1>12, <1>13, <1>14 DEF p

\* What TextKept says of chunks, of any others.
Held(texts) ==
  /\ \A c \in ToSet(texts) : Fits(c) /\ ~ Blank(c)
  /\ \A x \in ToSet(Whole) : ~ x.breaks => Somewhere(<<x>>, ToSet(texts))
  /\ ~ document.markdown =>
       \A k \in 0..Len(Whole) - cut.overlap - 1 :
         \/ Blank(SubSeq(Whole, k + 1, k + cut.overlap + 1))
         \/ Somewhere(SubSeq(Whole, k + 1, k + cut.overlap + 1), ToSet(texts))
  /\ document.markdown =>
       \A b \in ToSet(Blocks) :
         Kind(Head(b)) \in RowKinds /\ RowsFit(b) =>
           \A i \in ToSet(Data(b)) : \E c \in ToSet(texts) :
             ToSet(Stripped(Prefix(b))) \union ToSet(Stripped(Line(i))) \subseteq ToSet(c)

(* A character of a chunk is a run of its own.                             *)
LEMMA OneIs ==
  ASSUME NEW texts \in SUBSET Seq(Char), NEW x, NEW c \in texts, x \in ToSet(c)
  PROVE  Somewhere(<<x>>, texts)
<1>1. PICK k \in 0..Len(c) - 1 : SubSeq(c, k + 1, k + 1) = <<x>>
  BY CharIs
<1>2. Len(<<x>>) = 1
  OBVIOUS
<1>. QED  BY <1>1, <1>2 DEF Somewhere

(* Where a block is kept, its rows and lines are in chunks that are not    *)
(* blank.                                                                  *)
LEMMA ChunkedKept ==
  ASSUME TextOK
  PROVE  Held(NotBlank(Chunked))
<1>1. /\ Numbers \in Seq(Number) /\ ToSet(Numbers) = Number
      /\ Len(document.lines) \in Nat /\ document.markdown \in BOOLEAN
      /\ cut.size \in Nat /\ cut.overlap \in Nat
  <2>1. /\ Len(document.lines) \in Nat /\ DOMAIN document.lines = Number
        /\ document.markdown \in BOOLEAN /\ cut.size \in Nat /\ cut.overlap \in Nat
    BY DocumentIs
  <2>2. Numbers \in Seq(Number) /\ DOMAIN Numbers = Number /\ \A i \in Number : Numbers[i] = i
    BY <2>1 DEF Numbers, Number
  <2>. QED  BY <2>1, <2>2, Zenon DEF ToSet
<1>2. Whole \in Seq(Char) /\ ToSet(Whole) = UNION {ToSet(Line(i)) : i \in Number}
  BY <1>1, TextIs DEF Whole
<1>3. \A b \in ToSet(Blocks) : b \in Seq(Number) /\ IsBlock(b) /\ Head(b) = b[1]
  <2>1. Blocks \in Seq(Seq(Number)) /\ \A k \in DOMAIN Blocks : IsBlock(Blocks[k])
    BY BlocksAre
  <2>2. ASSUME NEW b \in ToSet(Blocks)
        PROVE  b \in Seq(Number) /\ IsBlock(b)
    <3>1. PICK k \in DOMAIN Blocks : b = Blocks[k]
      BY DEF ToSet
    <3>. QED  BY <2>1, <3>1
  <2>. QED  BY <2>2
<1> DEFINE texts == ToSet(NotBlank(Chunked))
\* The pieces are texts that fit
<1>5. Chunked \in Seq(Seq(Char)) /\ \A c \in ToSet(Chunked) : Fits(c)
  <2>1. CASE Fits(Whole)
    <3>1. Chunked = <<Whole>>
      BY <2>1 DEF Chunked
    <3>2. <<Whole>> \in Seq(Seq(Char)) /\ ToSet(<<Whole>>) = {Whole}
      BY <1>2 DEF ToSet
    <3>. QED  BY <2>1, <3>1, <3>2
  <2>2. CASE ~ Fits(Whole)
    <3>1. Chunked = IF document.markdown THEN Packed ELSE Windows(Whole)
      BY <2>2 DEF Chunked
    <3>. QED  BY <1>1, <1>2, <3>1, PackedIs, WindowsIs
  <2>. QED  BY <2>1, <2>2
<1>6. texts = {c \in ToSet(Chunked) : ~ Blank(c)} /\ texts \in SUBSET Seq(Char)
  <2>1. texts = {c \in ToSet(Chunked) : ~ Blank(c)}
    BY <1>5, NotBlankIs
  <2>2. ToSet(Chunked) \subseteq Seq(Char)
    BY <1>5 DEF ToSet
  <2> HIDE DEF texts
  <2>. QED  BY <2>1, <2>2
<1> HIDE DEF texts
\* A piece with something that is no break is a chunk
<1>7. \A c \in ToSet(Chunked) : \A x : x \in ToSet(c) /\ ~ x.breaks => c \in texts
  <2>1. \A c \in ToSet(Chunked) : c \in Seq(Char)
    BY <1>5 DEF ToSet
  <2>. QED  BY <1>6, <2>1, BlankIs
\* Every line is in a block that is kept
<1>8. ASSUME document.markdown, NEW b \in ToSet(Blocks)
      PROVE  KeepsBlock(ToSet(Chunked), b)
  <2>1. CASE Fits(Whole)
    <3>1. Chunked = <<Whole>> /\ ToSet(<<Whole>>) = {Whole}
      BY <2>1 DEF Chunked, ToSet
    <3>2. b \in Seq(Number) /\ IsBlock(b)
      BY <1>3
    <3>3. /\ Prefix(b) \in Seq(Char) /\ ToSet(Prefix(b)) \subseteq ToSet(Text(b))
          /\ ToSet(Data(b)) \subseteq ToSet(b) /\ \A i \in ToSet(b) : i \in Number
      BY <3>2, TableIs
    <3>4. ToSet(Text(b)) = UNION {ToSet(Line(i)) : i \in ToSet(b)}
      BY <3>2, TextIs
    <3>5. ToSet(Text(b)) \subseteq ToSet(Whole)
      BY <1>2, <3>3, <3>4
    <3>6. \A i \in Number : ToSet(Line(i)) \subseteq ToSet(Whole)
      BY <1>2
    <3>7. ASSUME NEW i \in ToSet(Data(b))
          PROVE  ToSet(Stripped(Prefix(b))) \union ToSet(Stripped(Line(i))) \subseteq ToSet(Whole)
      <4>1. ToSet(Stripped(Prefix(b))) \subseteq ToSet(Prefix(b))
        BY <3>3, StrippedIs
      <4>2. i \in Number
        BY <3>3, <3>7
      <4>3. ToSet(Stripped(Line(i))) \subseteq ToSet(Line(i))
        BY <4>2, LineIs, StrippedIs
      <4>. QED  BY <3>3, <3>5, <3>6, <4>1, <4>2, <4>3
    <3>8. KeepsBlock({Whole}, b)
      BY <3>3, <3>6, <3>7 DEF KeepsBlock
    <3>. QED  BY <3>1, <3>8
  <2>2. CASE ~ Fits(Whole)
    <3>1. Chunked = Packed
      BY <1>8, <2>2 DEF Chunked
    <3>. QED  BY <3>1, PackedIs
  <2>. QED  BY <2>1, <2>2
<1>9. ASSUME NEW x \in ToSet(Whole), ~ x.breaks
      PROVE  Somewhere(<<x>>, texts)
  <2>1. SUFFICES \E c \in ToSet(Chunked) : x \in ToSet(c)
    BY <1>6, <1>7, <1>9, OneIs
  <2>2. PICK i \in Number : x \in ToSet(Line(i))
    BY <1>2
  <2>3. CASE document.markdown
    <3>1. Kind(i) # "blank"
      BY <1>9, <2>2, LineIs
    <3>2. PICK b \in ToSet(Blocks) : i \in ToSet(b)
      BY <3>1, BlocksAre
    <3>3. KeepsBlock(ToSet(Chunked), b)
      BY <1>8, <2>3
    <3>. QED  BY <1>9, <2>2, <3>2, <3>3, Zenon DEF KeepsBlock
  <2>4. CASE ~ document.markdown
    <3>1. CASE Fits(Whole)
      <4>1. Chunked = <<Whole>> /\ ToSet(<<Whole>>) = {Whole}
        BY <3>1 DEF Chunked, ToSet
      <4>. QED  BY <4>1
    <3>2. CASE ~ Fits(Whole)
      <4>1. Chunked = Windows(Whole)
        BY <2>4, <3>2 DEF Chunked
      <4>. QED  BY <1>2, <1>9, <4>1, WindowsKeep
    <3>. QED  BY <3>1, <3>2
  <2>. QED  BY <1>1, <2>3, <2>4
<1>10. ASSUME ~ document.markdown, NEW k \in 0..Len(Whole) - cut.overlap - 1,
              ~ Blank(SubSeq(Whole, k + 1, k + cut.overlap + 1))
       PROVE  Somewhere(SubSeq(Whole, k + 1, k + cut.overlap + 1), texts)
  <2> DEFINE r == cut.overlap + 1
             s == SubSeq(Whole, k + 1, k + r)
  <2>1. Len(Whole) \in Nat /\ k \in Nat /\ r \in Nat /\ r > 0 /\ k + r <= Len(Whole)
        /\ k + r = k + cut.overlap + 1
    <3> DEFINE o == cut.overlap
               n == Len(Whole)
    <3>1. o \in Nat
      BY <1>1
    <3>2. n \in Nat
      BY <1>2
    <3>3. k \in 0..n - o - 1
      OBVIOUS
    <3> HIDE DEF o, n
    <3>4. n \in Nat /\ k \in Nat /\ o + 1 \in Nat /\ o + 1 > 0 /\ k + (o + 1) <= n
          /\ k + (o + 1) = k + o + 1
      BY <3>1, <3>2, <3>3
    <3>. QED  BY <3>4, Zenon DEF o, n
  <2>2. s = SubSeq(Whole, k + 1, k + cut.overlap + 1)
    <3>1. k + r = k + cut.overlap + 1
      BY <2>1
    <3> HIDE DEF r
    <3>. QED  BY <3>1, Zenon
  <2> HIDE DEF r
  <2>3. s \in Seq(Char) /\ Len(s) = r /\ ToSet(s) \subseteq ToSet(Whole)
    <3> DEFINE l == k + r
    <3>1. l \in 0..Len(Whole) /\ k <= l /\ l - k = r
      BY <2>1
    <3> HIDE DEF l
    <3>2. SubSeq(Whole, k + 1, l) \in Seq(Char) /\ Len(SubSeq(Whole, k + 1, l)) = l - k
          /\ ToSet(SubSeq(Whole, k + 1, l)) \subseteq ToSet(Whole)
      BY <1>2, <2>1, <3>1, PartIs
    <3>. QED  BY <3>1, <3>2 DEF l
  <2>4. ~ Blank(s)
    BY <1>10, <2>2
  <2>5. \E c \in ToSet(Chunked) : \E j \in 0..Len(c) - r : SubSeq(c, j + 1, j + r) = s
    <3>1. CASE Fits(Whole)
      <4>1. Chunked = <<Whole>> /\ ToSet(<<Whole>>) = {Whole}
        BY <3>1 DEF Chunked, ToSet
      <4>2. k \in 0..Len(Whole) - r
        BY <2>1
      <4>. QED  BY <4>1, <4>2
    <3>2. CASE ~ Fits(Whole)
      <4>1. Chunked = Windows(Whole)
        BY <1>10, <3>2 DEF Chunked
      <4>2. r \in 1..cut.overlap + 1 /\ k \in 0..Len(Whole) - r
        BY <1>1, <2>1 DEF r
      <4>. QED  BY <1>2, <2>4, <4>1, <4>2, WindowsIs
    <3>. QED  BY <3>1, <3>2
  <2>6. PICK c \in ToSet(Chunked) : \E j \in 0..Len(c) - r : SubSeq(c, j + 1, j + r) = s
    BY <2>5
  <2>7. PICK j \in 0..Len(c) - r : SubSeq(c, j + 1, j + r) = s
    BY <2>6
  <2>8. c \in Seq(Char)
    BY <1>5 DEF ToSet
  <2>9. ToSet(s) \subseteq ToSet(c)
    <3> DEFINE l == j + r
    <3>1. j \in Nat /\ l \in 0..Len(c) /\ j <= l
      BY <2>1, <2>8
    <3> HIDE DEF l
    <3>2. ToSet(SubSeq(c, j + 1, l)) \subseteq ToSet(c)
      BY <2>8, <3>1, PartIs
    <3>. QED  BY <2>7, <3>2 DEF l
  <2> HIDE DEF s
  <2>10. c \in texts
    BY <1>7, <2>3, <2>4, <2>9, BlankIs
  <2>11. Somewhere(s, texts)
    BY <2>3, <2>7, <2>10 DEF Somewhere
  <2>. QED  BY <2>2, <2>11
<1>11. ASSUME document.markdown, NEW b \in ToSet(Blocks), Kind(Head(b)) \in RowKinds, RowsFit(b),
              NEW i \in ToSet(Data(b))
       PROVE  \E c \in texts :
                ToSet(Stripped(Prefix(b))) \union ToSet(Stripped(Line(i))) \subseteq ToSet(c)
  <2>1. b \in Seq(Number) /\ IsBlock(b) /\ Kind(b[1]) \in RowKinds
    BY <1>3, <1>11
  <2>2. KeepsBlock(ToSet(Chunked), b)
    BY <1>8, <1>11
  <2>3. PICK c \in ToSet(Chunked) :
          ToSet(Stripped(Prefix(b))) \union ToSet(Stripped(Line(i))) \subseteq ToSet(c)
    BY <1>11, <2>1, <2>2, Zenon DEF KeepsBlock
  <2>4. i \in ToSet(b) /\ i \in Number /\ ~ Blank(Line(i))
    BY <1>11, <2>1, TableIs
  <2>5. Line(i) \in Seq(Char)
    BY <2>4, LineIs
  <2>6. PICK x \in ToSet(Line(i)) : ~ x.breaks
    BY <2>4, <2>5, BlankIs
  <2>7. x \in ToSet(Stripped(Line(i)))
    BY <2>5, <2>6, StrippedIs
  <2>8. c \in texts
    BY <1>7, <2>3, <2>6, <2>7
  <2>. QED  BY <2>3, <2>8
<1>12. \A c \in texts : Fits(c) /\ ~ Blank(c)
  BY <1>5, <1>6
<1>. QED  BY <1>9, <1>10, <1>11, <1>12 DEF Held, texts

-----------------------------------------------------------------------------
TextInv == TextOK /\ TextKept

(* What is cut is decided by the document.                                 *)
LEMMA SameText ==
  ASSUME document' = document, cut' = cut
  PROVE  /\ Whole' = Whole /\ Blocks' = Blocks
         /\ \A c : Fits(c)' = Fits(c)
         /\ \A i : Line(i)' = Line(i) /\ Kind(i)' = Kind(i)
         /\ \A b : Data(b)' = Data(b) /\ Prefix(b)' = Prefix(b) /\ RowsFit(b)' = RowsFit(b)
<1>1. Whole' = Whole
  BY SMT DEF Whole, Text, Numbers, Line
<1>2. Parsed' = Parsed
  BY SMT DEF Parsed, AddLine, Kind, Continues
<1>3. Blocks' = Blocks
  BY <1>2 DEF Blocks
<1>4. \A c : Fits(c)' = Fits(c)
  BY DEF Fits
<1>5. \A i : Line(i)' = Line(i) /\ Kind(i)' = Kind(i)
  BY SMT DEF Line, Kind
<1>6. \A b : Data(b)' = Data(b)
  BY DEF Data, Headed, Kind
<1>7. \A b : Prefix(b)' = Prefix(b)
  BY SMT DEF Prefix, Headed, Kind, Text, Line
<1>8. \A b : RowsFit(b)' = RowsFit(b)
  BY <1>5, <1>6, <1>7 DEF RowsFit, Fits
<1>. QED  BY <1>1, <1>3, <1>4, <1>5, <1>6, <1>7, <1>8

LEMMA TextInductive ==
  /\ ChunkingInit => TextInv
  /\ TextInv /\ [ChunkingNext]_chunkingVars => TextInv'
<1>1. ChunkingInit => TextInv
  BY DEF ChunkingInit, TextInv, TextOK, TextKept
<1>2. ASSUME TextInv, [ChunkingNext]_chunkingVars
      PROVE  TextInv'
  <2>1. document' = document /\ cut' = cut
    BY <1>2 DEF ChunkingNext, ChunkDocument, chunkingVars
  <2>2. TextOK'
    BY <1>2, <2>1 DEF TextInv, TextOK, Documents, Allowed
  <2>3. Held(chunks') \/ chunks' = <<>>
    <3>1. CASE ChunkDocument
      BY <1>2, <3>1, ChunkedKept DEF ChunkDocument, TextInv
    <3>2. CASE UNCHANGED chunkingVars
      <4>1. chunks' = chunks
        BY <3>2 DEF chunkingVars
      <4>2. chunks # <<>> => Held(chunks)
        BY <1>2 DEF TextInv, TextKept, Held, Together, Somewhere
      <4>. QED  BY <4>1, <4>2
    <3>. QED  BY <1>2, <3>1, <3>2 DEF ChunkingNext
  <2>4. TextKept'
    BY <2>1, <2>3, SameText DEF TextKept, Held, Together, Somewhere
  <2>. QED  BY <2>2, <2>4 DEF TextInv
<1>. QED  BY <1>1, <1>2

-----------------------------------------------------------------------------
(* No chunk is blank or longer than the limit and no character of a text   *)
(* is lost; what fits into the overlap and one character more is never     *)
(* cut apart, and a row of a table that can be cut between rows is whole   *)
(* and with its header (chunk_document); and no chunk is ahead of one with *)
(* more evidence, nor found without any (RetrieveKnowledge, fuse_hits).    *)
THEOREM EvidenceIsKept == EvidenceSpec => []EvidenceKept
<1>1. EvidenceInit => TextInv /\ SearchInv
  BY TextInductive, SearchInductive DEF EvidenceInit
<1>2. TextInv /\ SearchInv /\ [EvidenceNext]_<<chunkingVars, searchVars>> => (TextInv /\ SearchInv)'
  <2>1. [EvidenceNext]_<<chunkingVars, searchVars>> =>
          [ChunkingNext]_chunkingVars /\ [SearchNext]_searchVars
    BY Zenon DEF EvidenceNext
  <2>. QED  BY <2>1, TextInductive, SearchInductive
<1>3. TextInv /\ SearchInv => EvidenceKept
  BY Zenon DEF TextInv, SearchInv, EvidenceKept
<1>. QED  BY <1>1, <1>2, <1>3, PTL DEF EvidenceSpec
=============================================================================
