----------------------------- MODULE ChunkStore -----------------------------
(***************************************************************************)
(* The chunk store from the inside: the Chroma adapter                     *)
(* (src/infrastructure/vectorstore/chroma.py), which replaces rows by      *)
(* deleting and writing them and takes a snapshot first, the lexical       *)
(* mirror written after it (dual_write.py, bm25.py), and the process-wide  *)
(* cache of a source's ordered ids that page listings use.  A row is a     *)
(* chunk: its text and the keys of its extra metadata, kept in an envelope *)
(* and, for filters, promoted to keys of the row; Chroma merges promoted   *)
(* keys when it overwrites a row.  One writer at a time, as the adapter    *)
(* asks; listings run on other threads.                                    *)
(***************************************************************************)
EXTENDS Naturals, FiniteSets, Functions

CONSTANTS Sources, MaxChunks, Texts,
          Keys,          \* keys of extra metadata
          Readers,
          Overlap,       \* whether listings may overlap a write
          MaxWrites, MaxFailures

ASSUME ChunkStoreAssumption ==
  /\ MaxChunks \in Nat \ {0} /\ {MaxWrites, MaxFailures} \subseteq Nat
  /\ Overlap \in BOOLEAN

VARIABLES rows,          \* what Chroma holds: ids to rows
          mirror,        \* what the lexical index holds
          cache,         \* sources to the ids of their chunks
          writer, readers,
          broken,        \* sources whose recovery has failed since
          writes, failures

vars == <<rows, mirror, cache, writer, readers, broken, writes, failures>>

\* _derive_id: one id per source and chunk index.
Ids == Sources \X (0..MaxChunks - 1)
Row == [text : Texts, extra : SUBSET Keys, promoted : SUBSET Keys]

Of(f, s)      == {i \in DOMAIN f : i[1] = s}
Without(f, S) == Restrict(f, DOMAIN f \ S)
\* What f says, and what g says besides.
Over(f, g)    == [i \in DOMAIN f \union DOMAIN g |-> IF i \in DOMAIN f THEN f[i] ELSE g[i]]
Chunk(text, extra) == [text |-> text, extra |-> extra, promoted |-> extra]
\* A row of an older version has its extra keys in the envelope only.
Legacy(text, extra) == [text |-> text, extra |-> extra, promoted |-> {}]

\* Composition rebuilds the mirror from Chroma when the process starts.
Hydrated(f) == [i \in DOMAIN f |-> [text |-> f[i].text, extra |-> f[i].extra]]

Init ==
  /\ \/ rows = <<>>
     \/ \E s \in Sources, x \in Texts :
          rows = [i \in {<<s, 0>>} |-> Legacy(x, Keys)]
  /\ mirror = Hydrated(rows)
  /\ cache = <<>>
  /\ writer = [pc |-> "idle"]
  /\ readers = [r \in Readers |-> [pc |-> "idle"]]
  /\ broken = {} /\ writes = 0 /\ failures = 0

Quiet == writer.pc \in {"idle", "stuck"}

-----------------------------------------------------------------------------
(* Writing.  A replacement knows the rows it wants, those it found and the *)
(* step it takes next; `forget` are the sources whose cached ids it drops, *)
(* and `note` what it tells the mirror.                                    *)

Starts ==
  /\ writer.pc = "idle"
  /\ writes < MaxWrites
  /\ writes' = writes + 1
  /\ Overlap \/ \A r \in Readers : readers[r].pc = "idle"
  /\ UNCHANGED <<rows, mirror, cache, readers, failures, broken>>

Replacing(new, forget, note) ==
  [pc |-> "delete", new |-> new, old |-> Restrict(rows, DOMAIN new \intersect DOMAIN rows),
   forget |-> forget, note |-> note]

\* upsert of a batch: the first n chunks of a source.
Upsert(s, n, text, extra) ==
  /\ Starts
  /\ writer' = Replacing([i \in {s} \X (0..n - 1) |-> Chunk(text, extra)], {s}, "upsert")

\* _rewrite_records: the rows that are there, with other metadata.
Rewrite(S, new, note) ==
  /\ Starts
  /\ writer' = IF DOMAIN new = {} THEN [pc |-> "forget", forget |-> S, note |-> "none",
                                        new |-> <<>>]
               ELSE Replacing(new, S, note)
UpdateMetadata(s, extra) ==
  Rewrite({s}, [i \in Of(rows, s) |-> Chunk(rows[i].text, extra)], "update")
Reindex ==
  Rewrite(Sources, [i \in DOMAIN rows |-> Chunk(rows[i].text, rows[i].extra)], "none")

\* delete_source, by the metadata of the rows, not by ids.
DeleteSource(s) ==
  /\ writer.pc = "idle" /\ writes < MaxWrites
  /\ Overlap \/ \A r \in Readers : readers[r].pc = "idle"
  /\ writes' = writes + 1
  /\ rows' = Without(rows, Of(rows, s))
  /\ writer' = [pc |-> "forget", forget |-> {s}, note |-> "delete", new |-> <<>>]
  /\ UNCHANGED <<mirror, cache, readers, failures, broken>>

Go(pc) == writer' = [writer EXCEPT !.pc = pc]

Delete ==
  /\ writer.pc = "delete"
  /\ rows' = Without(rows, DOMAIN writer.new)
  /\ Go("write")
  /\ UNCHANGED <<mirror, cache, readers, writes, failures, broken>>

\* Chroma's upsert and add: keys promoted before stay on a row that is
\* overwritten.
Merged(f, new) ==
  [i \in DOMAIN new |-> IF i \in DOMAIN f
                        THEN [new[i] EXCEPT !.promoted = @ \union f[i].promoted]
                        ELSE new[i]]
Written(f, new) == Over(Merged(f, new), f)

Write ==
  /\ writer.pc = "write"
  /\ rows' = Written(rows, writer.new)
  /\ Go("forget")
  /\ UNCHANGED <<mirror, cache, readers, writes, failures, broken>>

\* The delete fails, or the write after some of the rows.
Fails ==
  /\ failures < MaxFailures
  /\ failures' = failures + 1
  /\ \/ writer.pc = "delete" /\ UNCHANGED rows
     \/ /\ writer.pc = "write"
        /\ \E S \in SUBSET DOMAIN writer.new :
             rows' = Written(rows, Restrict(writer.new, S))
  /\ Go("clean")
  /\ UNCHANGED <<mirror, cache, readers, writes, broken>>

\* Recovery deletes every row of the batch again and adds the snapshot.
Clean_Nothing(f, S) == f
Clean(f, S) == Without(f, S)

Recover ==
  /\ writer.pc = "clean"
  /\ rows' = Clean(rows, DOMAIN writer.new)
  /\ Go("restore")
  /\ UNCHANGED <<mirror, cache, readers, writes, failures, broken>>

\* add leaves alone an id that exists.
Restore ==
  /\ writer.pc = "restore"
  /\ rows' = Over(rows, writer.old)
  /\ Go("failed")
  /\ UNCHANGED <<mirror, cache, readers, writes, failures, broken>>

\* Recovery fails as well: both failures are reported, and the next write or
\* ingest of the source has to repair it.
RecoveryFails ==
  /\ failures < MaxFailures
  /\ failures' = failures + 1
  /\ writer.pc \in {"clean", "restore"}
  /\ \/ UNCHANGED rows
     \/ /\ writer.pc = "restore"
        /\ \E S \in SUBSET DOMAIN writer.old : rows' = Over(rows, Restrict(writer.old, S))
  /\ broken' = broken \union writer.forget
  /\ Go("stuck")
  /\ UNCHANGED <<mirror, cache, readers, writes>>

Forget_Nothing(c, S) == c
Forget(c, S) == Without(c, S)

Invalidate ==
  /\ writer.pc = "forget"
  /\ cache' = Forget(cache, writer.forget)
  /\ broken' = broken \ writer.forget
  /\ Go("mirror")
  /\ UNCHANGED <<rows, mirror, readers, writes, failures>>

Mirrored ==
  CASE writer.note = "upsert" -> Over(Hydrated(writer.new), mirror)
    [] writer.note = "update" ->
         [i \in DOMAIN mirror |->
            IF i \in DOMAIN writer.new THEN Hydrated(writer.new)[i] ELSE mirror[i]]
    [] writer.note = "delete" -> Without(mirror, {i \in Ids : i[1] \in writer.forget})
    [] writer.note = "none"   -> mirror

WriteMirror ==
  /\ writer.pc = "mirror"
  /\ mirror' = Mirrored
  /\ Go("done")
  /\ UNCHANGED <<rows, cache, readers, writes, failures, broken>>

Return ==
  /\ writer.pc \in {"done", "failed", "stuck"}
  /\ writer' = [pc |-> "idle"]
  /\ UNCHANGED <<rows, mirror, cache, readers, writes, failures, broken>>

-----------------------------------------------------------------------------
(* Listing a page: the ordered ids of the source, from the cache or from   *)
(* Chroma, then the rows of the page.                                      *)

Become(r, s) == readers' = [readers EXCEPT ![r] = s]

Cached(s) == IF s \in DOMAIN cache THEN cache[s] ELSE {}

StartListing(r, s) ==
  /\ readers[r].pc = "idle"
  /\ Overlap \/ Quiet
  /\ Become(r, [pc |-> IF s \in DOMAIN cache THEN "page" ELSE "fetch", of |-> s,
                ids |-> Cached(s)])
  /\ UNCHANGED <<rows, mirror, cache, writer, writes, failures, broken>>

FetchIds(r) ==
  /\ readers[r].pc = "fetch"
  /\ Become(r, [readers[r] EXCEPT !.pc = "keep", !.ids = Of(rows, readers[r].of)])
  /\ UNCHANGED <<rows, mirror, cache, writer, writes, failures, broken>>

KeepIds(r) ==
  /\ readers[r].pc = "keep"
  /\ cache' = Over([s \in {readers[r].of} |-> readers[r].ids], cache)
  /\ Become(r, [readers[r] EXCEPT !.pc = "page"])
  /\ UNCHANGED <<rows, mirror, writer, writes, failures, broken>>

\* Ids that are gone by now are left out of the page.
ReadPage(r) ==
  /\ readers[r].pc = "page"
  /\ Become(r, [pc |-> "idle"])
  /\ UNCHANGED <<rows, mirror, cache, writer, writes, failures, broken>>

\* At its limit the cache drops entries.
Evict ==
  /\ \E s \in DOMAIN cache : cache' = Without(cache, {s})
  /\ UNCHANGED <<rows, mirror, writer, readers, writes, failures, broken>>

\* The process stops and starts again: Chroma's rows stay.
Restart ==
  /\ failures < MaxFailures
  /\ failures' = failures + 1
  /\ mirror' = Hydrated(rows)
  /\ cache' = <<>>
  /\ writer' = [pc |-> "idle"]
  /\ readers' = [r \in Readers |-> [pc |-> "idle"]]
  /\ broken' = {}
  /\ UNCHANGED <<rows, writes>>

Next ==
  \/ \E s \in Sources :
       \/ \E n \in 1..MaxChunks, x \in Texts, k \in SUBSET Keys : Upsert(s, n, x, k)
       \/ \E k \in SUBSET Keys : UpdateMetadata(s, k)
       \/ DeleteSource(s)
       \/ \E r \in Readers : StartListing(r, s)
  \/ Reindex
  \/ Delete \/ Write \/ Fails \/ Recover \/ Restore \/ RecoveryFails
  \/ Invalidate \/ WriteMirror \/ Return
  \/ \E r \in Readers : FetchIds(r) \/ KeepIds(r) \/ ReadPage(r)
  \/ Evict
  \/ Restart

Spec == Init /\ [][Next]_vars

-----------------------------------------------------------------------------
(* A replacement is whole: when it returns its rows are the new ones, and  *)
(* when it has failed and recovered they are the old ones and no others    *)
(* (_delete_then_write), whatever part of the batch was written.  No row   *)
(* matches a filter on metadata it no longer has.                          *)
WholeOrNothing ==
  /\ writer.pc = "mirror" =>
       Restrict(rows, DOMAIN writer.new) = writer.new
  /\ writer.pc = "failed" =>
       /\ Restrict(rows, DOMAIN writer.old) = writer.old
       /\ DOMAIN rows \intersect DOMAIN writer.new = DOMAIN writer.old
  /\ \A i \in DOMAIN rows : rows[i].promoted \subseteq rows[i].extra

(* What a listing uses without asking Chroma is what Chroma holds, when no *)
(* write is under way and none has failed to recover (the cache is         *)
(* invalidated by upsert, delete_source and both rewrites).                *)
CacheCurrent ==
  writer.pc = "idle" /\ (\A r \in Readers : readers[r].pc = "idle") =>
    \A s \in DOMAIN cache \ broken : cache[s] = Of(rows, s)
=============================================================================
