---------------------------- MODULE Stores_proofs ----------------------------
(***************************************************************************)
(* The stores: what a replacement of chunks leaves behind when it returns  *)
(* or fails, the ids a listing takes from the cache, the locks of the      *)
(* upload blobs, and what the operators of a workspace may rely on, for    *)
(* every number of sources, chunks, readers, writes, failures, paths,      *)
(* threads, projects, scopes, components and versions. And what connectors *)
(* list for them, for every number of issues, pages, files and folders.    *)
(***************************************************************************)
EXTENDS ChunkStore, PathLocks, Projects, KnowledgeFlow, FiniteSetTheorems,
        SequenceTheorems, WellFoundedInduction, TLAPS

(* What Chroma can hold, of which no row matches a filter on metadata it   *)
(* does not have.                                                          *)
Tables == UNION {[S -> Row] : S \in SUBSET Ids}
Sane(f) == \A i \in DOMAIN f : f[i].promoted \subseteq f[i].extra
Table(f) == f \in Tables /\ Sane(f)

Notes == {"upsert", "update", "delete", "none"}
Ending == {"forget", "mirror", "done"}
Undoing == {"delete", "write", "clean", "restore", "failed", "stuck"}

IdleWriter == [pc |-> "idle"]
Replacement == [pc : Undoing \cup Ending, new : Tables, old : Tables,
                forget : SUBSET Sources, note : Notes]
Dropping == [pc : Ending, forget : SUBSET Sources, note : Notes, new : {<<>>}]
Writers == {IdleWriter} \cup Replacement \cup Dropping

Listings == {[pc |-> "idle"]}
            \cup [pc : {"fetch", "keep", "page"}, of : Sources, ids : SUBSET Ids]

Caches == UNION {[S -> SUBSET Ids] : S \in SUBSET Sources}
ListingTypes == cache \in Caches /\ readers \in [Readers -> Listings]

(* A replacement on its way: its batch is of the sources it will forget;   *)
(* the snapshot is of the rows it found; between the delete and the write  *)
(* none of its ids is there; past the write they hold what it wanted.      *)
BatchOK(w) ==
    /\ w.pc # "idle" => Sane(w.new) /\ \A i \in DOMAIN w.new : i[1] \in w.forget
    /\ w.pc \in Undoing => Sane(w.old) /\ DOMAIN w.old \subseteq DOMAIN w.new

ReplacementOK(w, f) ==
    /\ w.pc = "delete" => w.old = Restrict(f, DOMAIN w.new \cap DOMAIN f)
    /\ w.pc \in {"write", "restore"} => DOMAIN f \cap DOMAIN w.new = {}
    /\ w.pc \in {"forget", "mirror"} => Restrict(f, DOMAIN w.new) = w.new
    /\ w.pc = "failed" =>
         /\ Restrict(f, DOMAIN w.old) = w.old
         /\ DOMAIN f \cap DOMAIN w.new = DOMAIN w.old

WInv ==
    Table(rows) /\ writer \in Writers /\ BatchOK(writer) /\ ReplacementOK(writer, rows)

(* The ids of a source with its snapshot in the place of its batch.        *)
Before(w, f, s) == (Of(f, s) \ DOMAIN w.new) \cup Of(w.old, s)

(* What the cache holds is what Chroma holds, or will again if the write   *)
(* under way is undone; what that write is about to forget does not count. *)
CachedOK(w, f, c, bad) ==
    \A s \in DOMAIN c \ bad :
        IF w.pc \in {"idle", "mirror", "done"} \/ s \notin w.forget
          THEN c[s] = Of(f, s)
          ELSE w.pc \in {"delete", "write", "clean", "restore", "failed"}
                 => c[s] = Before(w, f, s)

ReadersOK ==
    \A r \in Readers :
        /\ readers[r].pc # "idle" => writer.pc \in {"idle", "stuck"}
        /\ readers[r].pc = "keep" => readers[r].ids = Of(rows, readers[r].of)

CInv ==
    /\ WInv /\ ListingTypes /\ CachedOK(writer, rows, cache, broken) /\ ReadersOK
    /\ writer.pc = "stuck" => writer.forget \subseteq broken

-----------------------------------------------------------------------------
(* Data.                                                                   *)

LEMMA RestrictIs ==
  ASSUME NEW f, Table(f), NEW S \in SUBSET DOMAIN f
  PROVE  /\ Table(Restrict(f, S)) /\ DOMAIN Restrict(f, S) = S
         /\ \A i \in S : Restrict(f, S)[i] = f[i]
<1>1. /\ DOMAIN f \in SUBSET Ids /\ f \in [DOMAIN f -> Row]
  BY DEF Table, Tables
<1>2. DOMAIN Restrict(f, S) = S /\ \A i \in S : Restrict(f, S)[i] = f[i]
  BY DEF Restrict
<1>3. Restrict(f, S) \in [S -> Row] /\ S \in SUBSET Ids
  BY <1>1 DEF Restrict
<1>4. Sane(Restrict(f, S))
  BY <1>2 DEF Table, Sane
<1>. QED  BY <1>2, <1>3, <1>4 DEF Table, Tables

LEMMA WithoutIs ==
  ASSUME NEW f, Table(f), NEW S
  PROVE  /\ Table(Without(f, S)) /\ DOMAIN Without(f, S) = DOMAIN f \ S
         /\ \A i \in DOMAIN f \ S : Without(f, S)[i] = f[i]
<1>1. DOMAIN f \ S \in SUBSET DOMAIN f
  OBVIOUS
<1>. QED  BY <1>1, RestrictIs DEF Without

LEMMA OverlayIs ==
  ASSUME NEW f, NEW g, Table(f), Table(g)
  PROVE  /\ Table(Over(f, g)) /\ DOMAIN Over(f, g) = DOMAIN f \cup DOMAIN g
         /\ \A i \in DOMAIN f : Over(f, g)[i] = f[i]
         /\ \A i \in DOMAIN g \ DOMAIN f : Over(f, g)[i] = g[i]
<1>. DEFINE h == Over(f, g)
<1>1. /\ DOMAIN f \in SUBSET Ids /\ f \in [DOMAIN f -> Row]
      /\ DOMAIN g \in SUBSET Ids /\ g \in [DOMAIN g -> Row]
  BY DEF Table, Tables
<1>2. h = [i \in DOMAIN f \cup DOMAIN g |-> IF i \in DOMAIN f THEN f[i] ELSE g[i]]
  BY DEF Over
<1>. HIDE DEF h
<1>3. /\ DOMAIN h = DOMAIN f \cup DOMAIN g /\ DOMAIN h \in SUBSET Ids
      /\ h \in [DOMAIN h -> Row]
  BY <1>1, <1>2
<1>4. /\ \A i \in DOMAIN f : h[i] = f[i]
      /\ \A i \in DOMAIN g \ DOMAIN f : h[i] = g[i]
  BY <1>2
<1>5. Sane(h)
  BY <1>3, <1>4 DEF Table, Sane
<1>6. Table(h)
  BY <1>3, <1>5 DEF Table, Tables
<1>. QED  BY <1>3, <1>4, <1>6 DEF h

LEMMA SameTable ==
  ASSUME NEW f, NEW g, Table(f), Table(g), DOMAIN f = DOMAIN g,
         \A i \in DOMAIN f : f[i] = g[i]
  PROVE  f = g
<1>1. f \in [DOMAIN f -> Row] /\ g \in [DOMAIN f -> Row]
  BY DEF Table, Tables
<1>. QED  BY <1>1

LEMMA EmptyIs == Table(<<>>) /\ DOMAIN <<>> = {}
<1>1. DOMAIN <<>> = {}
  OBVIOUS
<1>2. <<>> \in [{} -> Row]
  OBVIOUS
<1>. QED  BY <1>1, <1>2 DEF Table, Tables, Sane

LEMMA NothingRestricted == \A f : Restrict(f, {}) = <<>>
BY DEF Restrict

LEMMA ChunkIs ==
  ASSUME NEW x \in Texts, NEW k \in SUBSET Keys
  PROVE  Chunk(x, k) \in Row /\ Chunk(x, k).promoted \subseteq Chunk(x, k).extra
BY DEF Chunk, Row

LEMMA WriterFields ==
  ASSUME NEW w \in Writers
  PROVE  /\ w.pc \in {"idle"} \cup Undoing \cup Ending
         /\ w.pc = "idle" => w = IdleWriter
         /\ w.pc # "idle" => w.new \in Tables /\ w.forget \in SUBSET Sources
         /\ w.pc \in Undoing => w \in Replacement /\ w.old \in Tables
<1>1. CASE w = IdleWriter
  BY <1>1 DEF IdleWriter, Undoing
<1>2. CASE w \in Replacement
  BY <1>2 DEF Replacement, Undoing, Ending
<1>3. CASE w \in Dropping
  <2>1. w.pc \in Ending /\ w.new = <<>> /\ w.forget \in SUBSET Sources
    BY <1>3 DEF Dropping
  <2>2. w.pc # "idle" /\ w.pc \notin Undoing
    BY <2>1 DEF Ending, Undoing
  <2>3. <<>> \in Tables
    BY EmptyIs DEF Table
  <2>. QED  BY <2>1, <2>2, <2>3
<1>. QED  BY <1>1, <1>2, <1>3 DEF Writers

\* The writer takes its next step.
LEMMA GoIs ==
  ASSUME NEW w \in Writers, NEW pc, w.pc # "idle",
         pc \in Ending \/ (pc \in Undoing /\ w.pc \in Undoing), NEW v, v = [w EXCEPT !.pc = pc]
  PROVE  /\ v \in Writers /\ v.pc = pc /\ v.new = w.new /\ v.forget = w.forget
         /\ w.pc \in Undoing => v.old = w.old
<1>1. w \in Replacement \/ w \in Dropping
  BY DEF Writers, IdleWriter
<1>2. CASE w \in Replacement
  <2>1. v \in Replacement /\ v.pc = pc /\ v.new = w.new /\ v.forget = w.forget /\ v.old = w.old
    BY <1>2 DEF Replacement
  <2>. QED  BY <2>1 DEF Writers
<1>3. CASE w \in Dropping
  <2>1. w.pc \notin Undoing
    BY <1>3 DEF Dropping, Undoing, Ending
  <2>2. v \in Dropping /\ v.pc = pc /\ v.new = w.new /\ v.forget = w.forget
    BY <1>3, <2>1 DEF Dropping
  <2>. QED  BY <2>1, <2>2 DEF Writers
<1>. QED  BY <1>1, <1>2, <1>3

-----------------------------------------------------------------------------
(* Replacements.                                                           *)

Starting == \/ \E s \in Sources, n \in 1..MaxChunks, x \in Texts, k \in SUBSET Keys :
                 Upsert(s, n, x, k)
            \/ \E s \in Sources, k \in SUBSET Keys : UpdateMetadata(s, k)
            \/ Reindex

LEMMA ReplacingStarts ==
  ASSUME WInv, NEW new, Table(new), NEW S \in SUBSET Sources, NEW note \in Notes,
         \A i \in DOMAIN new : i[1] \in S,
         writer' = Replacing(new, S, note), rows' = rows
  PROVE  /\ WInv' /\ writer'.pc = "delete" /\ writer'.forget = S /\ writer'.new = new
         /\ writer'.old = Restrict(rows, DOMAIN new \cap DOMAIN rows)
<1>. DEFINE old == Restrict(rows, DOMAIN new \cap DOMAIN rows)
<1>1. Table(old) /\ DOMAIN old = DOMAIN new \cap DOMAIN rows
  BY RestrictIs DEF WInv
<1>2. writer' = [pc |-> "delete", new |-> new, old |-> old, forget |-> S, note |-> note]
  BY DEF Replacing
<1>. HIDE DEF old
<1>3. /\ writer' \in Replacement /\ writer'.pc = "delete" /\ writer'.new = new
      /\ writer'.old = old /\ writer'.forget = S
  BY <1>1, <1>2 DEF Replacement, Table, Undoing
<1>4. BatchOK(writer')
  BY <1>1, <1>3 DEF BatchOK, Table
<1>5. ReplacementOK(writer', rows)
  BY <1>3 DEF ReplacementOK, old
<1>. QED  BY <1>3, <1>4, <1>5 DEF WInv, Writers, old

LEMMA RewriteStarts ==
  ASSUME WInv, NEW new, Table(new), NEW S \in SUBSET Sources, NEW note \in Notes,
         \A i \in DOMAIN new : i[1] \in S, Rewrite(S, new, note)
  PROVE  /\ WInv'
         /\ \/ writer'.pc = "forget" /\ writer'.forget = S
            \/ /\ writer'.pc = "delete" /\ writer'.forget = S /\ writer'.new = new
               /\ writer'.old = Restrict(rows, DOMAIN new \cap DOMAIN rows)
<1>1. rows' = rows
  BY DEF Rewrite, Starts
<1>2. CASE DOMAIN new # {}
  <2>1. writer' = Replacing(new, S, note)
    BY <1>2 DEF Rewrite
  <2>. QED  BY <1>1, <2>1, ReplacingStarts
<1>3. CASE DOMAIN new = {}
  <2>1. writer' = [pc |-> "forget", forget |-> S, note |-> "none", new |-> <<>>]
    BY <1>3 DEF Rewrite
  <2>2. /\ writer' \in Dropping /\ writer'.pc = "forget" /\ writer'.new = <<>>
        /\ writer'.forget = S /\ writer'.pc \notin Undoing
    BY <2>1 DEF Dropping, Ending, Undoing, Notes
  <2>3. BatchOK(writer')
    BY <2>2, EmptyIs DEF BatchOK, Table
  <2>4. ReplacementOK(writer', rows)
    BY <2>2, EmptyIs, NothingRestricted DEF ReplacementOK
  <2>. QED  BY <1>1, <2>2, <2>3, <2>4 DEF WInv, Writers
<1>. QED  BY <1>2, <1>3

LEMMA StartingIs ==
  ASSUME WInv, Starting
  PROVE  /\ WInv' /\ Starts
         /\ \/ writer'.pc = "forget"
            \/ /\ writer'.pc = "delete"
               /\ writer'.old = Restrict(rows, DOMAIN writer'.new \cap DOMAIN rows)
<1>0. /\ DOMAIN rows \in SUBSET Ids /\ \A i \in DOMAIN rows : rows[i] \in Row
      /\ \A i \in Ids : i[1] \in Sources
  BY DEF WInv, Table, Tables, Ids
<1>1. ASSUME NEW s \in Sources, NEW n \in 1..MaxChunks, NEW x \in Texts, NEW k \in SUBSET Keys,
             Upsert(s, n, x, k)
      PROVE  /\ WInv' /\ Starts /\ writer'.pc = "delete"
             /\ writer'.old = Restrict(rows, DOMAIN writer'.new \cap DOMAIN rows)
  <2>. DEFINE new == [i \in {s} \X (0..n - 1) |-> Chunk(x, k)]
  <2>1. Starts /\ rows' = rows /\ writer' = Replacing(new, {s}, "upsert")
    BY <1>1 DEF Upsert, Starts
  <2>2. {s} \X (0..n - 1) \in SUBSET Ids /\ \A i \in {s} \X (0..n - 1) : i[1] = s
    BY ChunkStoreAssumption DEF Ids
  <2>3. Table(new) /\ \A i \in DOMAIN new : i[1] \in {s}
    <3>1. /\ DOMAIN new = {s} \X (0..n - 1) /\ new \in [{s} \X (0..n - 1) -> Row]
          /\ \A i \in DOMAIN new : new[i] = Chunk(x, k)
      BY ChunkIs
    <3>. HIDE DEF new
    <3>. QED  BY <2>2, <3>1, ChunkIs DEF Table, Tables, Sane
  <2>. HIDE DEF new
  <2>4. {s} \in SUBSET Sources /\ "upsert" \in Notes
    BY DEF Notes
  <2>. QED  BY <2>1, <2>3, <2>4, ReplacingStarts
<1>2. ASSUME NEW S \in SUBSET Sources, NEW note \in Notes, NEW new, DOMAIN new \subseteq DOMAIN rows,
             new = [i \in DOMAIN new |-> new[i]],
             \A i \in DOMAIN new : i[1] \in S /\ new[i].promoted \subseteq new[i].extra
                                   /\ new[i] \in Row,
             Rewrite(S, new, note)
      PROVE  /\ WInv' /\ Starts
             /\ \/ writer'.pc = "forget"
                \/ /\ writer'.pc = "delete"
                   /\ writer'.old = Restrict(rows, DOMAIN writer'.new \cap DOMAIN rows)
  <2>1. Table(new)
    <3>1. DOMAIN new \in SUBSET Ids
      BY <1>0, <1>2
    <3>2. new \in [DOMAIN new -> Row]
      BY <1>2
    <3>. QED  BY <1>2, <3>1, <3>2 DEF Table, Tables, Sane
  <2>2. Starts
    BY <1>2 DEF Rewrite
  <2>. QED  BY <1>2, <2>1, <2>2, RewriteStarts
<1>3. ASSUME NEW s \in Sources, NEW k \in SUBSET Keys, UpdateMetadata(s, k)
      PROVE  /\ WInv' /\ Starts
             /\ \/ writer'.pc = "forget"
                \/ /\ writer'.pc = "delete"
                   /\ writer'.old = Restrict(rows, DOMAIN writer'.new \cap DOMAIN rows)
  <2>. DEFINE new == [i \in Of(rows, s) |-> Chunk(rows[i].text, k)]
  <2>1. Rewrite({s}, new, "update")
    BY <1>3 DEF UpdateMetadata
  <2>2. Of(rows, s) \subseteq DOMAIN rows /\ \A i \in Of(rows, s) : i[1] = s
    BY DEF Of
  <2>3. \A i \in Of(rows, s) : rows[i].text \in Texts
    BY <1>0, <2>2 DEF Row
  <2>4. /\ DOMAIN new = Of(rows, s) /\ new = [i \in DOMAIN new |-> new[i]]
        /\ \A i \in DOMAIN new : new[i] = Chunk(rows[i].text, k)
    OBVIOUS
  <2>. HIDE DEF new
  <2>5. \A i \in DOMAIN new : i[1] \in {s} /\ new[i].promoted \subseteq new[i].extra
                              /\ new[i] \in Row
    BY <2>2, <2>3, <2>4, ChunkIs
  <2>6. {s} \in SUBSET Sources /\ "update" \in Notes
    BY DEF Notes
  <2>. QED  BY <2>1, <2>2, <2>4, <2>5, <2>6, <1>2
<1>4. ASSUME Reindex
      PROVE  /\ WInv' /\ Starts
             /\ \/ writer'.pc = "forget"
                \/ /\ writer'.pc = "delete"
                   /\ writer'.old = Restrict(rows, DOMAIN writer'.new \cap DOMAIN rows)
  <2>. DEFINE new == [i \in DOMAIN rows |-> Chunk(rows[i].text, rows[i].extra)]
  <2>1. Rewrite(Sources, new, "none")
    BY <1>4 DEF Reindex
  <2>3. \A i \in DOMAIN rows : rows[i].text \in Texts /\ rows[i].extra \in SUBSET Keys
    BY <1>0 DEF Row
  <2>4. /\ DOMAIN new = DOMAIN rows /\ new = [i \in DOMAIN new |-> new[i]]
        /\ \A i \in DOMAIN new : new[i] = Chunk(rows[i].text, rows[i].extra)
    OBVIOUS
  <2>. HIDE DEF new
  <2>5. \A i \in DOMAIN new : i[1] \in Sources /\ new[i].promoted \subseteq new[i].extra
                              /\ new[i] \in Row
    BY <1>0, <2>3, <2>4, ChunkIs
  <2>6. Sources \in SUBSET Sources /\ "none" \in Notes
    BY DEF Notes
  <2>. QED  BY <2>1, <2>4, <2>5, <2>6, <1>2
<1>. QED  BY <1>1, <1>3, <1>4 DEF Starting

\* What a writer past its start knows.
LEMMA WritingIs ==
  ASSUME WInv, writer.pc # "idle"
  PROVE  /\ Table(writer.new) /\ writer.forget \in SUBSET Sources
         /\ \A i \in DOMAIN writer.new : i[1] \in writer.forget
         /\ writer.pc \in Undoing => Table(writer.old) /\ DOMAIN writer.old \subseteq DOMAIN writer.new
BY WriterFields DEF WInv, BatchOK, Table

\* The writer goes on over rows of which the rest of the invariant is known.
LEMMA GoesOn ==
  ASSUME WInv, NEW pc, Go(pc), writer.pc # "idle",
         pc \in Ending \/ (pc \in Undoing /\ writer.pc \in Undoing),
         Table(rows'), ReplacementOK(writer', rows')
  PROVE  /\ WInv' /\ writer'.pc = pc /\ writer'.new = writer.new
         /\ writer'.forget = writer.forget
         /\ writer.pc \in Undoing => writer'.old = writer.old
<1>1. /\ writer' \in Writers /\ writer'.pc = pc /\ writer'.new = writer.new
      /\ writer'.forget = writer.forget
      /\ writer.pc \in Undoing => writer'.old = writer.old
  BY GoIs DEF Go, WInv
<1>2. pc \in Undoing => writer.pc \in Undoing
  BY DEF Undoing, Ending
<1>3. BatchOK(writer')
  BY <1>1, <1>2, WritingIs DEF BatchOK, Table
<1>. QED  BY <1>1, <1>3 DEF WInv

LEMMA GoFields ==
  ASSUME WInv, NEW pc, Go(pc), writer.pc # "idle",
         pc \in Ending \/ (pc \in Undoing /\ writer.pc \in Undoing)
  PROVE  /\ writer'.pc = pc /\ writer'.new = writer.new
         /\ writer'.forget = writer.forget
         /\ writer.pc \in Undoing => writer'.old = writer.old
BY GoIs DEF Go, WInv

LEMMA DeleteIs ==
  ASSUME WInv, Delete
  PROVE  /\ WInv' /\ writer.pc = "delete" /\ writer'.pc = "write"
         /\ writer'.new = writer.new /\ writer'.forget = writer.forget
         /\ writer'.old = writer.old
         /\ DOMAIN rows' = DOMAIN rows \ DOMAIN writer.new
<1>1. /\ writer.pc = "delete" /\ Go("write") /\ rows' = Without(rows, DOMAIN writer.new)
      /\ writer.pc \in Undoing /\ "write" \in Undoing /\ writer.pc # "idle"
  BY DEF Delete, Undoing
<1>2. Table(rows') /\ DOMAIN rows' = DOMAIN rows \ DOMAIN writer.new
  BY <1>1, WithoutIs DEF WInv
<1>3. writer'.pc = "write" /\ writer'.new = writer.new
  BY <1>1, GoFields
<1>4. ReplacementOK(writer', rows')
  BY <1>2, <1>3 DEF ReplacementOK
<1>. QED  BY <1>1, <1>2, <1>4, GoesOn

\* Nothing is written over: the rows of the batch are as it wants them.
LEMMA WrittenIs ==
  ASSUME NEW f, NEW new, Table(f), Table(new), DOMAIN f \cap DOMAIN new = {}
  PROVE  /\ Table(Written(f, new)) /\ DOMAIN Written(f, new) = DOMAIN f \cup DOMAIN new
         /\ \A i \in DOMAIN new : Written(f, new)[i] = new[i]
<1>1. new = [i \in DOMAIN new |-> new[i]]
  BY DEF Table, Tables
<1>2. \A i \in DOMAIN new : i \notin DOMAIN f
  OBVIOUS
<1>3. Merged(f, new) = [i \in DOMAIN new |-> new[i]]
  BY <1>2 DEF Merged
<1>4. Written(f, new) = Over(new, f)
  BY <1>1, <1>3 DEF Written
<1>5. /\ Table(Over(new, f)) /\ DOMAIN Over(new, f) = DOMAIN new \cup DOMAIN f
      /\ \A i \in DOMAIN new : Over(new, f)[i] = new[i]
  BY OverlayIs
<1>. QED  BY <1>4, <1>5

LEMMA WriteIs ==
  ASSUME WInv, Write
  PROVE  /\ WInv' /\ writer.pc = "write" /\ writer'.pc = "forget"
         /\ writer'.forget = writer.forget /\ writer'.new = writer.new
         /\ DOMAIN rows' = DOMAIN rows \cup DOMAIN writer.new
<1>1. /\ writer.pc = "write" /\ Go("forget") /\ rows' = Written(rows, writer.new)
      /\ writer.pc # "idle" /\ "forget" \in Ending
  BY DEF Write, Ending
<1>2. Table(writer.new) /\ Table(rows) /\ DOMAIN rows \cap DOMAIN writer.new = {}
  BY <1>1, WritingIs DEF WInv, ReplacementOK
<1>3. /\ Table(rows') /\ DOMAIN rows' = DOMAIN rows \cup DOMAIN writer.new
      /\ \A i \in DOMAIN writer.new : rows'[i] = writer.new[i]
  <2>. DEFINE f == Written(rows, writer.new)
  <2>1. /\ Table(f) /\ DOMAIN f = DOMAIN rows \cup DOMAIN writer.new
        /\ \A i \in DOMAIN writer.new : f[i] = writer.new[i]
    BY <1>2, WrittenIs
  <2>. QED  BY <1>1, <2>1
<1>4. writer'.pc = "forget" /\ writer'.new = writer.new
  BY <1>1, GoFields
<1>5. Restrict(rows', DOMAIN writer.new) = writer.new
  <2>1. /\ DOMAIN writer.new \in SUBSET DOMAIN rows'
    BY <1>3
  <2>2. /\ Table(Restrict(rows', DOMAIN writer.new))
        /\ DOMAIN Restrict(rows', DOMAIN writer.new) = DOMAIN writer.new
        /\ \A i \in DOMAIN writer.new : Restrict(rows', DOMAIN writer.new)[i] = rows'[i]
    BY <1>3, <2>1, RestrictIs
  <2>. QED  BY <1>2, <1>3, <2>2, SameTable
<1>6. ReplacementOK(writer', rows')
  BY <1>4, <1>5 DEF ReplacementOK
<1>. QED  BY <1>1, <1>3, <1>6, GoesOn

LEMMA FailsIs ==
  ASSUME WInv, Fails
  PROVE  /\ WInv' /\ writer.pc \in {"delete", "write"} /\ writer'.pc = "clean"
         /\ writer'.new = writer.new /\ writer'.forget = writer.forget
         /\ writer'.old = writer.old
         /\ DOMAIN rows' \ DOMAIN writer.new = DOMAIN rows \ DOMAIN writer.new
<1>1. /\ writer.pc \in {"delete", "write"} /\ Go("clean")
      /\ writer.pc \in Undoing /\ "clean" \in Undoing /\ writer.pc # "idle"
  BY DEF Fails, Undoing
<1>2. Table(rows') /\ DOMAIN rows' \ DOMAIN writer.new = DOMAIN rows \ DOMAIN writer.new
  <2>1. CASE rows' = rows
    BY <2>1 DEF WInv
  <2>2. CASE writer.pc = "write" /\ rows' # rows
    <3>1. PICK S \in SUBSET DOMAIN writer.new : rows' = Written(rows, Restrict(writer.new, S))
      BY <2>2 DEF Fails
    <3>2. Table(writer.new) /\ Table(rows) /\ DOMAIN rows \cap DOMAIN writer.new = {}
      BY <1>1, <2>2, WritingIs DEF WInv, ReplacementOK
    <3>3. Table(Restrict(writer.new, S)) /\ DOMAIN Restrict(writer.new, S) = S
      BY <3>2, RestrictIs
    <3>4. DOMAIN rows \cap DOMAIN Restrict(writer.new, S) = {}
      BY <3>2, <3>3
    <3>5. Table(rows') /\ DOMAIN rows' = DOMAIN rows \cup S
      BY <3>1, <3>2, <3>3, <3>4, WrittenIs
    <3>. QED  BY <3>5
  <2>. QED  BY <2>1, <2>2 DEF Fails
<1>3. writer'.pc = "clean"
  BY <1>1, GoFields
<1>4. ReplacementOK(writer', rows')
  BY <1>3 DEF ReplacementOK
<1>. QED  BY <1>1, <1>2, <1>4, GoesOn

LEMMA RecoverIs ==
  ASSUME WInv, Recover
  PROVE  /\ WInv' /\ writer.pc = "clean" /\ writer'.pc = "restore"
         /\ writer'.new = writer.new /\ writer'.forget = writer.forget
         /\ writer'.old = writer.old
         /\ DOMAIN rows' = DOMAIN rows \ DOMAIN writer.new
<1>1. /\ writer.pc = "clean" /\ Go("restore") /\ rows' = Without(rows, DOMAIN writer.new)
      /\ writer.pc \in Undoing /\ "restore" \in Undoing /\ writer.pc # "idle"
  BY DEF Recover, Clean, Undoing
<1>2. Table(rows') /\ DOMAIN rows' = DOMAIN rows \ DOMAIN writer.new
  BY <1>1, WithoutIs DEF WInv
<1>3. writer'.pc = "restore" /\ writer'.new = writer.new
  BY <1>1, GoFields
<1>4. ReplacementOK(writer', rows')
  BY <1>2, <1>3 DEF ReplacementOK
<1>. QED  BY <1>1, <1>2, <1>4, GoesOn

LEMMA RestoreIs ==
  ASSUME WInv, Restore
  PROVE  /\ WInv' /\ writer.pc = "restore" /\ writer'.pc = "failed"
         /\ writer'.new = writer.new /\ writer'.forget = writer.forget
         /\ writer'.old = writer.old /\ DOMAIN rows \cap DOMAIN writer.new = {}
         /\ DOMAIN rows' = DOMAIN rows \cup DOMAIN writer.old
<1>1. /\ writer.pc = "restore" /\ Go("failed") /\ rows' = Over(rows, writer.old)
      /\ writer.pc \in Undoing /\ "failed" \in Undoing /\ writer.pc # "idle"
  BY DEF Restore, Undoing
<1>2. /\ Table(rows) /\ Table(writer.old) /\ DOMAIN writer.old \subseteq DOMAIN writer.new
      /\ DOMAIN rows \cap DOMAIN writer.new = {}
  BY <1>1, WritingIs DEF WInv, ReplacementOK
<1>3. /\ Table(rows') /\ DOMAIN rows' = DOMAIN rows \cup DOMAIN writer.old
      /\ \A i \in DOMAIN writer.old \ DOMAIN rows : rows'[i] = writer.old[i]
  BY <1>1, <1>2, OverlayIs
<1>4. \A i \in DOMAIN writer.old : rows'[i] = writer.old[i]
  BY <1>2, <1>3
<1>5. Restrict(rows', DOMAIN writer.old) = writer.old
  <2>1. DOMAIN writer.old \in SUBSET DOMAIN rows'
    BY <1>3
  <2>2. /\ Table(Restrict(rows', DOMAIN writer.old))
        /\ DOMAIN Restrict(rows', DOMAIN writer.old) = DOMAIN writer.old
        /\ \A i \in DOMAIN writer.old : Restrict(rows', DOMAIN writer.old)[i] = rows'[i]
    BY <1>3, <2>1, RestrictIs
  <2>. QED  BY <1>2, <1>4, <2>2, SameTable
<1>6. DOMAIN rows' \cap DOMAIN writer.new = DOMAIN writer.old
  BY <1>2, <1>3
<1>7. writer'.pc = "failed" /\ writer'.new = writer.new /\ writer'.old = writer.old
  BY <1>1, GoFields
<1>8. ReplacementOK(writer', rows')
  BY <1>5, <1>6, <1>7 DEF ReplacementOK
<1>. QED  BY <1>1, <1>2, <1>3, <1>8, GoesOn

LEMMA RecoveryFailsIs ==
  ASSUME WInv, RecoveryFails
  PROVE  /\ WInv' /\ writer.pc \in {"clean", "restore"} /\ writer'.pc = "stuck"
         /\ writer'.forget = writer.forget
         /\ \A s \in Sources \ writer.forget : Of(rows', s) = Of(rows, s)
<1>1. /\ writer.pc \in {"clean", "restore"} /\ Go("stuck")
      /\ writer.pc \in Undoing /\ "stuck" \in Undoing /\ writer.pc # "idle"
  BY DEF RecoveryFails, Undoing
<1>2. /\ Table(rows) /\ Table(writer.old)
      /\ \A i \in DOMAIN writer.old : i[1] \in writer.forget
  BY <1>1, WritingIs DEF WInv
<1>3. Table(rows') /\ \A s \in Sources \ writer.forget : Of(rows', s) = Of(rows, s)
  <2>1. CASE rows' = rows
    BY <1>2, <2>1
  <2>2. CASE rows' # rows
    <3>1. PICK S \in SUBSET DOMAIN writer.old : rows' = Over(rows, Restrict(writer.old, S))
      BY <2>2 DEF RecoveryFails
    <3>2. Table(Restrict(writer.old, S)) /\ DOMAIN Restrict(writer.old, S) = S
      BY <1>2, RestrictIs
    <3>3. Table(rows') /\ DOMAIN rows' = DOMAIN rows \cup S
      <4>1. /\ Table(Over(rows, Restrict(writer.old, S)))
            /\ DOMAIN Over(rows, Restrict(writer.old, S))
                 = DOMAIN rows \cup DOMAIN Restrict(writer.old, S)
        BY <1>2, <3>2, OverlayIs
      <4>. QED  BY <3>1, <3>2, <4>1
    <3>. QED  BY <1>2, <3>3 DEF Of
  <2>. QED  BY <2>1, <2>2
<1>4. writer'.pc = "stuck"
  BY <1>1, GoFields
<1>5. ReplacementOK(writer', rows')
  BY <1>4 DEF ReplacementOK
<1>. QED  BY <1>1, <1>3, <1>5, GoesOn

LEMMA DeleteSourceIs ==
  ASSUME WInv, NEW s \in Sources, DeleteSource(s)
  PROVE  /\ WInv' /\ writer.pc = "idle" /\ writer'.pc = "forget" /\ writer'.forget = {s}
         /\ \A t \in Sources \ {s} : Of(rows', t) = Of(rows, t)
<1>1. /\ writer.pc = "idle" /\ rows' = Without(rows, Of(rows, s))
      /\ writer' = [pc |-> "forget", forget |-> {s}, note |-> "delete", new |-> <<>>]
  BY DEF DeleteSource
<1>2. Table(rows') /\ DOMAIN rows' = DOMAIN rows \ Of(rows, s)
  BY <1>1, WithoutIs DEF WInv
<1>3. /\ writer' \in Dropping /\ writer'.pc = "forget" /\ writer'.new = <<>>
      /\ writer'.forget = {s} /\ writer'.pc \notin Undoing
  BY <1>1 DEF Dropping, Ending, Undoing, Notes
<1>4. BatchOK(writer') /\ ReplacementOK(writer', rows')
  BY <1>3, EmptyIs, NothingRestricted DEF BatchOK, Table, ReplacementOK
<1>5. \A t \in Sources \ {s} : Of(rows', t) = Of(rows, t)
  BY <1>2 DEF Of
<1>. QED  BY <1>1, <1>2, <1>3, <1>4, <1>5 DEF WInv, Writers

LEMMA InvalidateIs ==
  ASSUME WInv, Invalidate
  PROVE  /\ WInv' /\ writer.pc = "forget" /\ writer'.pc = "mirror"
<1>1. /\ writer.pc = "forget" /\ Go("mirror") /\ rows' = rows
      /\ writer.pc # "idle" /\ "mirror" \in Ending
  BY DEF Invalidate, Ending
<1>2. /\ writer'.pc = "mirror" /\ writer'.new = writer.new
  BY <1>1, GoFields
<1>3. ReplacementOK(writer', rows') /\ Table(rows')
  BY <1>1, <1>2 DEF WInv, ReplacementOK
<1>. QED  BY <1>1, <1>3, GoesOn

LEMMA WriteMirrorIs ==
  ASSUME WInv, WriteMirror
  PROVE  /\ WInv' /\ writer.pc = "mirror" /\ writer'.pc = "done"
<1>1. /\ writer.pc = "mirror" /\ Go("done") /\ rows' = rows
      /\ writer.pc # "idle" /\ "done" \in Ending
  BY DEF WriteMirror, Ending
<1>2. writer'.pc = "done"
  BY <1>1, GoFields
<1>3. ReplacementOK(writer', rows') /\ Table(rows')
  BY <1>1, <1>2 DEF WInv, ReplacementOK
<1>. QED  BY <1>1, <1>3, GoesOn

LEMMA IdleIs ==
  ASSUME WInv, writer' = [pc |-> "idle"], rows' = rows
  PROVE  WInv'
<1>1. writer'.pc = "idle" /\ writer' \in Writers
  BY DEF Writers, IdleWriter
<1>2. BatchOK(writer') /\ ReplacementOK(writer', rows')
  BY <1>1 DEF BatchOK, ReplacementOK, Undoing
<1>. QED  BY <1>1, <1>2 DEF WInv

(* A step of the store, a step of a listing, or the end of the process.    *)
Storing == Delete \/ Write \/ Fails \/ Recover \/ Restore \/ RecoveryFails
           \/ Invalidate \/ WriteMirror \/ Return
Listing == (\E r \in Readers : \/ \E s \in Sources : StartListing(r, s)
                               \/ FetchIds(r) \/ KeepIds(r) \/ ReadPage(r))
           \/ Evict

LEMMA NextIs ==
  Next => Starting \/ (\E s \in Sources : DeleteSource(s)) \/ Storing \/ Listing \/ Restart
BY DEF Next, Starting, Storing, Listing

LEMMA ListingLeaves == Listing => UNCHANGED <<rows, writer, broken>>
BY DEF Listing, StartListing, FetchIds, KeepIds, ReadPage, Evict

LEMMA WInvInit == Init => WInv
<1>. SUFFICES ASSUME Init PROVE WInv
  OBVIOUS
<1>1. Table(rows)
  <2>1. CASE rows = <<>>
    BY <2>1, EmptyIs
  <2>2. CASE \E s \in Sources, x \in Texts : rows = [i \in {<<s, 0>>} |-> Legacy(x, Keys)]
    <3>1. PICK s \in Sources, x \in Texts : rows = [i \in {<<s, 0>>} |-> Legacy(x, Keys)]
      BY <2>2
    <3>2. /\ Legacy(x, Keys) \in Row /\ Legacy(x, Keys).promoted = {}
      BY DEF Legacy, Row
    <3>3. {<<s, 0>>} \in SUBSET Ids
      BY ChunkStoreAssumption DEF Ids
    <3>4. rows \in [{<<s, 0>>} -> Row] /\ DOMAIN rows = {<<s, 0>>}
      BY <3>1, <3>2
    <3>5. Sane(rows)
      BY <3>1, <3>2 DEF Sane
    <3>. QED  BY <3>3, <3>4, <3>5 DEF Table, Tables
  <2>. QED  BY <2>1, <2>2 DEF Init
<1>2. writer = [pc |-> "idle"]
  BY DEF Init
<1>3. writer.pc = "idle" /\ writer \in Writers
  BY <1>2 DEF Writers, IdleWriter
<1>4. BatchOK(writer) /\ ReplacementOK(writer, rows)
  BY <1>3 DEF BatchOK, ReplacementOK, Undoing
<1>. QED  BY <1>1, <1>3, <1>4 DEF WInv

LEMMA WInvStep == WInv /\ [Next]_vars => WInv'
<1>. SUFFICES ASSUME WInv, [Next]_vars PROVE WInv'
  OBVIOUS
<1>1. CASE Starting
  BY <1>1, StartingIs
<1>2. CASE \E s \in Sources : DeleteSource(s)
  BY <1>2, DeleteSourceIs
<1>3. CASE Storing
  <2>1. CASE Return
    BY <2>1, IdleIs DEF Return
  <2>. QED  BY <1>3, <2>1, DeleteIs, WriteIs, FailsIs, RecoverIs, RestoreIs, RecoveryFailsIs,
               InvalidateIs, WriteMirrorIs DEF Storing
<1>4. CASE Listing \/ UNCHANGED vars
  <2>1. UNCHANGED <<rows, writer>>
    BY <1>4, ListingLeaves DEF vars
  <2>. QED  BY <2>1 DEF WInv
<1>5. CASE Restart
  BY <1>5, IdleIs DEF Restart
<1>. QED  BY <1>1, <1>2, <1>3, <1>4, <1>5, NextIs

\* A replacement is whole: past its write the ids hold what it wanted, and a
\* failed one that recovered has left the rows it found and no others,
\* whatever part of the batch was written; no row matches a filter on metadata
\* it does not have (chroma.py _delete_then_write, _restore_snapshot).
THEOREM ReplacedWhole == Spec => []WholeOrNothing
<1>1. WInv => WholeOrNothing
  BY DEF WInv, ReplacementOK, WholeOrNothing, Table, Sane
<1>. QED  BY <1>1, WInvInit, WInvStep, PTL DEF Spec

-----------------------------------------------------------------------------
(* The cache.                                                              *)

LEMMA CacheRestricts ==
  ASSUME NEW c \in Caches, NEW S
  PROVE  /\ Without(c, S) \in Caches /\ DOMAIN Without(c, S) = DOMAIN c \ S
         /\ \A s \in DOMAIN c \ S : Without(c, S)[s] = c[s]
<1>1. PICK D \in SUBSET Sources : c \in [D -> SUBSET Ids]
  BY DEF Caches
<1>. DEFINE h == Without(c, S)
<1>2. h = [s \in D \ S |-> c[s]]
  BY <1>1 DEF Without, Restrict
<1>. HIDE DEF h
<1>3. h \in [D \ S -> SUBSET Ids] /\ D \ S \in SUBSET Sources
  BY <1>1, <1>2
<1>4. h \in Caches
  BY <1>3 DEF Caches
<1>. QED  BY <1>1, <1>2, <1>4 DEF h

LEMMA CacheGrows ==
  ASSUME NEW c \in Caches, NEW s \in Sources, NEW g \in [{s} -> SUBSET Ids]
  PROVE  /\ Over(g, c) \in Caches /\ DOMAIN Over(g, c) = DOMAIN c \cup {s}
         /\ Over(g, c)[s] = g[s] /\ \A t \in DOMAIN c \ {s} : Over(g, c)[t] = c[t]
<1>1. PICK D \in SUBSET Sources : c \in [D -> SUBSET Ids]
  BY DEF Caches
<1>. DEFINE h == Over(g, c)
<1>2. h = [t \in {s} \cup D |-> IF t \in {s} THEN g[t] ELSE c[t]]
  BY <1>1 DEF Over
<1>. HIDE DEF h
<1>3. h \in [{s} \cup D -> SUBSET Ids] /\ {s} \cup D \in SUBSET Sources
  BY <1>1, <1>2
<1>4. h \in Caches
  BY <1>3 DEF Caches
<1>5. DOMAIN h = DOMAIN c \cup {s} /\ h[s] = g[s] /\ \A t \in DOMAIN c \ {s} : h[t] = c[t]
  BY <1>1, <1>2
<1>. QED  BY <1>4, <1>5 DEF h

LEMMA ListingFields ==
  ASSUME ListingTypes, NEW r \in Readers
  PROVE  /\ readers[r].pc \in {"idle", "fetch", "keep", "page"}
         /\ readers[r].pc # "idle" =>
              /\ readers[r] \in [pc : {"fetch", "keep", "page"}, of : Sources, ids : SUBSET Ids]
              /\ readers[r].of \in Sources /\ readers[r].ids \in SUBSET Ids
<1>1. readers[r] \in Listings
  BY DEF ListingTypes
<1>2. CASE readers[r] = [pc |-> "idle"]
  BY <1>2
<1>3. CASE readers[r] \in [pc : {"fetch", "keep", "page"}, of : Sources, ids : SUBSET Ids]
  BY <1>3
<1>. QED  BY <1>1, <1>2, <1>3 DEF Listings

\* Listings wait for the writer, as the adapter asks.
LEMMA ListingsWait ==
  ASSUME CInv, ~Overlap, \/ writer.pc \notin {"idle", "stuck"}
                         \/ Starts
                         \/ \E s \in Sources : DeleteSource(s)
  PROVE  \A r \in Readers : readers[r].pc = "idle"
BY DEF CInv, ReadersOK, Starts, DeleteSource

\* A write under way: listings are idle and stay so.
LEMMA Writes ==
  ASSUME CInv, ~Overlap, WInv', UNCHANGED <<cache, readers>>,
         \/ writer.pc \notin {"idle", "stuck"}
         \/ Starts
         \/ \E s \in Sources : DeleteSource(s),
         CachedOK(writer', rows', cache, broken'),
         writer'.pc = "stuck" => writer'.forget \subseteq broken'
  PROVE  CInv'
<1>1. \A r \in Readers : readers'[r].pc = "idle"
  BY ListingsWait
<1>2. ReadersOK'
  BY <1>1 DEF ReadersOK
<1>. QED  BY <1>2 DEF CInv, ListingTypes

LEMMA NothingLost ==
  ASSUME NEW w, NEW v, NEW f, NEW h, NEW c, NEW bad, CachedOK(w, f, c, bad),
         v.new = w.new, v.old = w.old, v.forget = w.forget,
         \A i \in DOMAIN w.new : i[1] \in w.forget,
         DOMAIN h \ DOMAIN w.new = DOMAIN f \ DOMAIN w.new,
         w.pc \in {"delete", "write", "clean", "restore", "failed"},
         v.pc \in {"delete", "write", "clean", "restore", "failed"}
  PROVE  CachedOK(v, h, c, bad)
<1>1. \A s : s \notin w.forget => Of(h, s) = Of(f, s)
  BY DEF Of
<1>2. \A s : Before(v, h, s) = Before(w, f, s)
  BY DEF Before, Of
<1>. QED  BY <1>1, <1>2 DEF CachedOK

LEMMA StartingKeeps ==
  ASSUME CInv, ~Overlap, Starting
  PROVE  CInv'
<1>1. /\ WInv' /\ Starts /\ writer.pc = "idle" /\ UNCHANGED <<rows, cache, readers, broken>>
      /\ \/ writer'.pc = "forget"
         \/ /\ writer'.pc = "delete"
            /\ writer'.old = Restrict(rows, DOMAIN writer'.new \cap DOMAIN rows)
  BY StartingIs DEF CInv, Starts
<1>2. CASE writer'.pc = "forget"
  <2>1. CachedOK(writer', rows', cache, broken')
    BY <1>1, <1>2 DEF CInv, CachedOK
  <2>. QED  BY <1>1, <1>2, <2>1, Writes
<1>3. CASE writer'.pc = "delete"
  <2>1. /\ DOMAIN writer'.new \cap DOMAIN rows \in SUBSET DOMAIN rows /\ Table(rows)
        /\ writer'.old = Restrict(rows, DOMAIN writer'.new \cap DOMAIN rows)
    BY <1>1, <1>3 DEF CInv, WInv
  <2>2. DOMAIN writer'.old = DOMAIN writer'.new \cap DOMAIN rows
    BY <2>1, RestrictIs
  <2>3. \A s : Before(writer', rows, s) = Of(rows, s)
    BY <2>2 DEF Before, Of
  <2>4. CachedOK(writer', rows', cache, broken')
    BY <1>1, <1>3, <2>3 DEF CInv, CachedOK
  <2>. QED  BY <1>1, <1>3, <2>4, Writes
<1>. QED  BY <1>1, <1>2, <1>3

LEMMA DeleteSourceKeeps ==
  ASSUME CInv, ~Overlap, NEW s \in Sources, DeleteSource(s)
  PROVE  CInv'
<1>1. /\ WInv' /\ writer.pc = "idle" /\ writer'.pc = "forget" /\ writer'.forget = {s}
      /\ \A t \in Sources \ {s} : Of(rows', t) = Of(rows, t)
      /\ UNCHANGED <<cache, readers, broken>>
  BY DeleteSourceIs DEF CInv, DeleteSource
<1>2. DOMAIN cache \subseteq Sources
  BY DEF CInv, ListingTypes, Caches
<1>3. CachedOK(writer', rows', cache, broken')
  BY <1>1, <1>2 DEF CInv, CachedOK
<1>. QED  BY <1>1, <1>3, Writes

LEMMA ReplacingKeeps ==
  ASSUME CInv, ~Overlap, Delete \/ Fails \/ Recover \/ Restore
  PROVE  CInv'
<1>1. UNCHANGED <<cache, readers, broken>>
  BY DEF Delete, Fails, Recover, Restore
<1>2. WInv /\ CachedOK(writer, rows, cache, broken)
  BY DEF CInv
<1>3. /\ WInv' /\ writer'.new = writer.new /\ writer'.forget = writer.forget
      /\ writer'.old = writer.old
      /\ writer.pc \in {"delete", "write", "clean", "restore", "failed"}
      /\ writer'.pc \in {"delete", "write", "clean", "restore", "failed"}
      /\ DOMAIN rows' \ DOMAIN writer.new = DOMAIN rows \ DOMAIN writer.new
  <2>1. CASE Delete
    BY <1>2, <2>1, DeleteIs
  <2>2. CASE Fails
    BY <1>2, <2>2, FailsIs
  <2>3. CASE Recover
    BY <1>2, <2>3, RecoverIs
  <2>4. CASE Restore
    <3>1. DOMAIN writer.old \subseteq DOMAIN writer.new
      BY <1>2, <2>4, WritingIs DEF Restore, Undoing
    <3>. QED  BY <1>2, <2>4, <3>1, RestoreIs
  <2>. QED  BY <2>1, <2>2, <2>3, <2>4
<1>4. \A i \in DOMAIN writer.new : i[1] \in writer.forget
  BY <1>2, <1>3, WritingIs
<1>5. CachedOK(writer', rows', cache, broken)
  BY <1>2, <1>3, <1>4, NothingLost
<1>. QED  BY <1>1, <1>3, <1>5, Writes

LEMMA WriteKeeps ==
  ASSUME CInv, ~Overlap, Write
  PROVE  CInv'
<1>1. /\ WInv' /\ writer.pc = "write" /\ writer'.pc = "forget"
      /\ writer'.forget = writer.forget
      /\ DOMAIN rows' = DOMAIN rows \cup DOMAIN writer.new
      /\ UNCHANGED <<cache, readers, broken>>
  BY WriteIs DEF CInv, Write
<1>2. \A i \in DOMAIN writer.new : i[1] \in writer.forget
  BY <1>1, WritingIs DEF CInv
<1>3. \A s : s \notin writer.forget => Of(rows', s) = Of(rows, s)
  BY <1>1, <1>2 DEF Of
<1>4. CachedOK(writer', rows', cache, broken')
  BY <1>1, <1>3 DEF CInv, CachedOK
<1>. QED  BY <1>1, <1>4, Writes

LEMMA RecoveryFailsKeeps ==
  ASSUME CInv, ~Overlap, RecoveryFails
  PROVE  CInv'
<1>1. /\ WInv' /\ writer.pc \in {"clean", "restore"} /\ writer'.pc = "stuck"
      /\ writer'.forget = writer.forget
      /\ \A s \in Sources \ writer.forget : Of(rows', s) = Of(rows, s)
      /\ UNCHANGED <<cache, readers>> /\ broken' = broken \cup writer.forget
  BY RecoveryFailsIs DEF CInv, RecoveryFails
<1>2. DOMAIN cache \subseteq Sources
  BY DEF CInv, ListingTypes, Caches
<1>3. CachedOK(writer', rows', cache, broken')
  BY <1>1, <1>2 DEF CInv, CachedOK
<1>. QED  BY <1>1, <1>3, Writes

LEMMA InvalidateKeeps ==
  ASSUME CInv, ~Overlap, Invalidate
  PROVE  CInv'
<1>1. /\ WInv' /\ writer.pc = "forget" /\ writer'.pc = "mirror" /\ UNCHANGED <<rows, readers>>
      /\ cache' = Without(cache, writer.forget) /\ broken' = broken \ writer.forget
  BY InvalidateIs DEF CInv, Invalidate, Forget
<1>2. /\ cache' \in Caches /\ DOMAIN cache' = DOMAIN cache \ writer.forget
      /\ \A s \in DOMAIN cache \ writer.forget : cache'[s] = cache[s]
  <2>. DEFINE S == writer.forget
              c == Without(cache, S)
  <2>1. cache \in Caches /\ cache' = c
    BY <1>1 DEF CInv, ListingTypes
  <2>2. /\ c \in Caches /\ DOMAIN c = DOMAIN cache \ S
        /\ \A s \in DOMAIN cache \ S : c[s] = cache[s]
    BY <2>1, CacheRestricts
  <2>. HIDE DEF c
  <2>. QED  BY <2>1, <2>2
<1>3. CachedOK(writer', rows', cache', broken')
  BY <1>1, <1>2 DEF CInv, CachedOK
<1>4. \A r \in Readers : readers'[r].pc = "idle"
  BY <1>1, ListingsWait
<1>5. ReadersOK'
  BY <1>4 DEF ReadersOK
<1>. QED  BY <1>1, <1>2, <1>3, <1>5 DEF CInv, ListingTypes

LEMMA WriteMirrorKeeps ==
  ASSUME CInv, ~Overlap, WriteMirror
  PROVE  CInv'
<1>1. /\ WInv' /\ writer.pc = "mirror" /\ writer'.pc = "done"
      /\ UNCHANGED <<rows, cache, readers, broken>>
  BY WriteMirrorIs DEF CInv, WriteMirror
<1>2. CachedOK(writer', rows', cache, broken')
  BY <1>1 DEF CInv, CachedOK
<1>. QED  BY <1>1, <1>2, Writes

LEMMA ReturnKeeps ==
  ASSUME CInv, ~Overlap, Return
  PROVE  CInv'
<1>1. /\ WInv' /\ writer.pc \in {"done", "failed", "stuck"} /\ writer'.pc = "idle"
      /\ UNCHANGED <<rows, cache, readers, broken>>
  <2>1. writer' = [pc |-> "idle"] /\ rows' = rows
    BY DEF Return
  <2>. QED  BY <2>1, IdleIs DEF CInv, Return
<1>2. \A s \in DOMAIN cache \ broken : cache[s] = Of(rows, s)
  <2>1. CASE writer.pc \in {"done", "stuck"}
    BY <2>1 DEF CInv, CachedOK
  <2>2. CASE writer.pc = "failed"
    <3>1. DOMAIN rows \cap DOMAIN writer.new = DOMAIN writer.old
      BY <2>2 DEF CInv, WInv, ReplacementOK
    <3>2. \A s : Before(writer, rows, s) = Of(rows, s)
      BY <3>1 DEF Before, Of
    <3>. QED  BY <2>2, <3>2 DEF CInv, CachedOK
  <2>. QED  BY <1>1, <2>1, <2>2
<1>3. CachedOK(writer', rows', cache', broken')
  BY <1>1, <1>2 DEF CachedOK
<1>4. ReadersOK'
  BY <1>1 DEF CInv, ReadersOK
<1>. QED  BY <1>1, <1>3, <1>4 DEF CInv, ListingTypes

\* A step of a listing: it keeps what its own record must satisfy.
LEMMA ListingStep ==
  ASSUME CInv, NEW r \in Readers, NEW l \in Listings,
         readers' = [readers EXCEPT ![r] = l], UNCHANGED <<rows, writer, broken>>,
         cache' \in Caches, CachedOK(writer, rows, cache', broken),
         l.pc # "idle" => writer.pc \in {"idle", "stuck"},
         l.pc = "keep" => l.ids = Of(rows, l.of)
  PROVE  CInv'
<1>1. /\ readers \in [Readers -> Listings] /\ readers' \in [Readers -> Listings]
      /\ readers'[r] = l /\ \A q \in Readers \ {r} : readers'[q] = readers[q]
  BY DEF CInv, ListingTypes
<1>2. ReadersOK'
  BY <1>1 DEF CInv, ReadersOK
<1>. QED  BY <1>1, <1>2 DEF CInv, ListingTypes, WInv

LEMMA ListingKeeps ==
  ASSUME CInv, ~Overlap, Listing
  PROVE  CInv'
<1>1. UNCHANGED <<rows, writer, broken>> /\ cache \in Caches /\ ListingTypes
  BY ListingLeaves DEF CInv, ListingTypes
<1>2. DOMAIN rows \subseteq Ids
  BY DEF CInv, WInv, Table, Tables
<1>3. ASSUME NEW r \in Readers, NEW s \in Sources, StartListing(r, s)
      PROVE  CInv'
  <2>. DEFINE pc == IF s \in DOMAIN cache THEN "page" ELSE "fetch"
              l == [pc |-> pc, of |-> s, ids |-> Cached(s)]
  <2>1. /\ writer.pc \in {"idle", "stuck"} /\ readers' = [readers EXCEPT ![r] = l]
        /\ cache' = cache
    BY <1>3 DEF StartListing, Become, Quiet
  <2>2. Cached(s) \in SUBSET Ids
    BY <1>1 DEF Cached, Caches
  <2>3. l \in Listings /\ l.pc # "keep"
    BY <2>2 DEF Listings
  <2>. HIDE DEF l
  <2>. QED  BY <1>1, <2>1, <2>3, ListingStep DEF CInv
<1>4. ASSUME NEW r \in Readers, FetchIds(r)
      PROVE  CInv'
  <2>. DEFINE l == [readers[r] EXCEPT !.pc = "keep", !.ids = Of(rows, readers[r].of)]
  <2>1. /\ readers[r].pc = "fetch" /\ readers' = [readers EXCEPT ![r] = l] /\ cache' = cache
    BY <1>4 DEF FetchIds, Become
  <2>2. Of(rows, readers[r].of) \in SUBSET Ids
    BY <1>2 DEF Of
  <2>3. readers[r] \in [pc : {"fetch", "keep", "page"}, of : Sources, ids : SUBSET Ids]
    BY <1>1, <2>1, ListingFields
  <2>4. l \in Listings /\ l.ids = Of(rows, l.of)
    BY <2>2, <2>3 DEF Listings
  <2>5. writer.pc \in {"idle", "stuck"}
    BY <2>1 DEF CInv, ReadersOK
  <2>. HIDE DEF l
  <2>. QED  BY <1>1, <2>1, <2>4, <2>5, ListingStep DEF CInv
<1>5. ASSUME NEW r \in Readers, KeepIds(r)
      PROVE  CInv'
  <2>. DEFINE s == readers[r].of
              l == [readers[r] EXCEPT !.pc = "page"]
  <2>1. /\ readers[r].pc = "keep" /\ readers' = [readers EXCEPT ![r] = l]
        /\ cache' = Over([t \in {s} |-> readers[r].ids], cache)
    BY <1>5 DEF KeepIds, Become
  <2>2. /\ readers[r] \in [pc : {"fetch", "keep", "page"}, of : Sources, ids : SUBSET Ids]
        /\ s \in Sources /\ readers[r].ids \in SUBSET Ids
    BY <1>1, <2>1, ListingFields
  <2>3. l \in Listings /\ l.pc = "page"
    BY <2>2 DEF Listings
  <2>4. writer.pc \in {"idle", "stuck"} /\ readers[r].ids = Of(rows, s)
    BY <2>1 DEF CInv, ReadersOK
  <2>. HIDE DEF l, s
  <2>5. /\ cache' \in Caches /\ DOMAIN cache' = DOMAIN cache \cup {s}
        /\ cache'[s] = Of(rows, s) /\ \A t \in DOMAIN cache \ {s} : cache'[t] = cache[t]
    <3>. DEFINE held == readers[r].ids
                g == [t \in {s} |-> held]
    <3>1. /\ held \in SUBSET Ids /\ held = Of(rows, s) /\ cache' = Over(g, cache)
          /\ cache \in Caches /\ s \in Sources
      BY <1>1, <2>1, <2>2, <2>4
    <3>. HIDE DEF held
    <3>2. g \in [{s} -> SUBSET Ids] /\ g[s] = held
      BY <3>1
    <3>. HIDE DEF g
    <3>3. /\ Over(g, cache) \in Caches /\ DOMAIN Over(g, cache) = DOMAIN cache \cup {s}
          /\ Over(g, cache)[s] = g[s]
          /\ \A t \in DOMAIN cache \ {s} : Over(g, cache)[t] = cache[t]
      BY <3>1, <3>2, CacheGrows
    <3>. QED  BY <3>1, <3>2, <3>3
  <2>6. CachedOK(writer, rows, cache', broken)
    BY <2>4, <2>5 DEF CInv, CachedOK
  <2>. QED  BY <1>1, <2>1, <2>3, <2>4, <2>5, <2>6, ListingStep
<1>6. ASSUME NEW r \in Readers, ReadPage(r)
      PROVE  CInv'
  <2>. DEFINE l == [pc |-> "idle"]
  <2>1. readers' = [readers EXCEPT ![r] = l] /\ cache' = cache /\ l \in Listings /\ l.pc = "idle"
    BY <1>6 DEF ReadPage, Become, Listings
  <2>. HIDE DEF l
  <2>. QED  BY <1>1, <2>1, ListingStep DEF CInv
<1>7. ASSUME Evict
      PROVE  CInv'
  <2>1. PICK s \in DOMAIN cache : cache' = Without(cache, {s})
    BY <1>7 DEF Evict
  <2>2. /\ cache' \in Caches /\ DOMAIN cache' = DOMAIN cache \ {s}
        /\ \A t \in DOMAIN cache \ {s} : cache'[t] = cache[t]
    BY <1>1, <2>1, CacheRestricts
  <2>3. CachedOK(writer, rows, cache', broken)
    BY <2>2 DEF CInv, CachedOK
  <2>4. readers' = readers
    BY <1>7 DEF Evict
  <2>. QED  BY <1>1, <2>2, <2>3, <2>4 DEF CInv, WInv, ListingTypes, ReadersOK
<1>. QED  BY <1>3, <1>4, <1>5, <1>6, <1>7 DEF Listing

LEMMA NothingCached == <<>> \in Caches /\ DOMAIN <<>> = {}
<1>1. <<>> \in [{} -> SUBSET Ids] /\ DOMAIN <<>> = {}
  OBVIOUS
<1>. QED  BY <1>1 DEF Caches

LEMMA FreshListings ==
  ASSUME WInv, writer.pc = "idle", cache = <<>>,
         readers = [r \in Readers |-> [pc |-> "idle"]]
  PROVE  CInv
<1>1. readers \in [Readers -> Listings] /\ \A r \in Readers : readers[r].pc = "idle"
  BY DEF Listings
<1>. QED  BY <1>1, NothingCached DEF CInv, ListingTypes, CachedOK, ReadersOK

LEMMA RestartKeeps ==
  ASSUME CInv, Restart
  PROVE  CInv'
<1>1. /\ writer' = [pc |-> "idle"] /\ rows' = rows /\ cache' = <<>>
      /\ readers' = [r \in Readers |-> [pc |-> "idle"]]
  BY DEF Restart
<1>2. WInv' /\ writer'.pc = "idle"
  BY <1>1, IdleIs DEF CInv
<1>3. readers' \in [Readers -> Listings] /\ \A r \in Readers : readers'[r].pc = "idle"
  BY <1>1 DEF Listings
<1>4. cache' \in Caches /\ DOMAIN cache' = {}
  BY <1>1, NothingCached
<1>. QED  BY <1>2, <1>3, <1>4 DEF CInv, ListingTypes, CachedOK, ReadersOK

LEMMA CInvInit == Init => CInv
<1>1. Init => writer.pc = "idle" /\ cache = <<>> /\ readers = [r \in Readers |-> [pc |-> "idle"]]
  BY DEF Init
<1>. QED  BY <1>1, WInvInit, FreshListings

LEMMA CInvStep == ~Overlap /\ CInv /\ [Next]_vars => CInv'
<1>. SUFFICES ASSUME ~Overlap, CInv, [Next]_vars PROVE CInv'
  OBVIOUS
<1>1. CASE Starting
  BY <1>1, StartingKeeps
<1>2. CASE \E s \in Sources : DeleteSource(s)
  BY <1>2, DeleteSourceKeeps
<1>3. CASE Storing
  BY <1>3, ReplacingKeeps, WriteKeeps, RecoveryFailsKeeps, InvalidateKeeps, WriteMirrorKeeps,
     ReturnKeeps DEF Storing
<1>4. CASE Listing
  BY <1>4, ListingKeeps
<1>5. CASE Restart
  BY <1>5, RestartKeeps
<1>6. CASE UNCHANGED vars
  BY <1>6 DEF vars, CInv, WInv, ListingTypes, ReadersOK
<1>. QED  BY <1>1, <1>2, <1>3, <1>4, <1>5, <1>6, NextIs

\* What the cache of ordered ids says of a source is what Chroma holds of it
\* whenever nothing is being written or listed, unless a write of it has
\* failed to recover, for as long as listings and writes do not overlap, which
\* the adapter leaves to its caller (chroma.py _list_ordered_chunk_ids,
\* _invalidate_chunk_order_cache).
THEOREM CachedIdsCurrent ==
  ASSUME ~Overlap
  PROVE  Spec => []CacheCurrent
<1>1. CInv => CacheCurrent
  BY DEF CInv, CachedOK, CacheCurrent
<1>2. CInv /\ [Next]_vars => CInv'
  BY CInvStep
<1>. QED  BY <1>1, <1>2, CInvInit, PTL DEF Spec
-----------------------------------------------------------------------------
(* The locks of the upload blobs.  Whoever works on a path, waits for it   *)
(* or is about to release it is a user of its entry, and has its lock; the *)
(* entry counts its users; and a lock has one holder.                      *)

Busy == {"wait", "inside", "leaving"}
Users(p) == {t \in Threads : threads[t].pc # "out" /\ threads[t].path = p}

ThreadsOK ==
    threads \in [Threads -> {[pc |-> "out"]} \cup [pc : Busy, path : Paths, lock : Nat]]
TableOK ==
    /\ DOMAIN locks \subseteq Paths
    /\ locks \in [DOMAIN locks -> [lock : Nat, refs : Nat]]
    /\ IsFiniteSet(DOMAIN locks)

UsersOK ==
    \A t \in Threads : threads[t].pc # "out" =>
        threads[t].path \in DOMAIN locks /\ threads[t].lock = locks[threads[t].path].lock

CountOK == \A p \in DOMAIN locks : locks[p].refs = Cardinality(Users(p))

HoldersOK ==
    \A t, u \in Threads :
        threads[t].pc = "inside" /\ threads[u].pc = "inside"
        /\ threads[t].lock = threads[u].lock => t = u

SizeOK ==
    Cardinality(DOMAIN locks) > MaxLocks => Cardinality(DOMAIN locks) <= Cardinality(Threads)

LInv == ThreadsOK /\ TableOK /\ UsersOK /\ CountOK /\ HoldersOK /\ SizeOK

LEMMA UsersAre ==
  ASSUME NEW p
  PROVE  IsFiniteSet(Users(p)) /\ Cardinality(Users(p)) \in Nat
<1>1. Users(p) \in SUBSET Threads /\ IsFiniteSet(Threads)
  BY PathLocksAssumption DEF Users
<1>. QED  BY <1>1, FS_Subset, FS_CardinalityType

LEMMA ThreadIs ==
  ASSUME ThreadsOK, NEW t \in Threads
  PROVE  /\ threads[t].pc \in {"out"} \cup Busy
         /\ threads[t].pc # "out" =>
              /\ threads[t] \in [pc : Busy, path : Paths, lock : Nat]
              /\ threads[t].path \in Paths /\ threads[t].lock \in Nat
BY DEF ThreadsOK, Busy

\* A set that an injection takes into a finite set is no larger.
LEMMA Fewer ==
  ASSUME NEW D, NEW S, IsFiniteSet(S), NEW user \in [D -> S],
         \A p, q \in D : user[p] = user[q] => p = q
  PROVE  IsFiniteSet(D) /\ Cardinality(D) <= Cardinality(S)
<1>1. user \in Injection(D, S)
  BY DEF Injection, IsInjective
<1>. QED  BY <1>1, FS_Injection DEF ExistsInjection

\* The locks in use are finitely many, so that there is a new one.
LEMMA NewLockIs ==
  ASSUME LInv
  PROVE  NewLock \in Nat
<1>. DEFINE L == {locks[p].lock : p \in DOMAIN locks}
            B == {u \in Threads : threads[u].pc # "out"}
            T == {threads[t].lock : t \in B}
<1>1. T \subseteq L
  BY DEF LInv, UsersOK
<1>2. Used = L
  BY <1>1 DEF Used
<1>3. IsFiniteSet(Used)
  <2>. DEFINE at == [n \in L |-> CHOOSE p \in DOMAIN locks : locks[p].lock = n]
  <2>1. \A n \in L : at[n] \in DOMAIN locks /\ locks[at[n]].lock = n
    OBVIOUS
  <2>2. at \in [L -> DOMAIN locks] /\ \A m, n \in L : at[m] = at[n] => m = n
    BY <2>1
  <2>3. IsFiniteSet(DOMAIN locks)
    BY DEF LInv, TableOK
  <2>. HIDE DEF at, L
  <2>. QED  BY <1>2, <2>2, <2>3, Fewer
<1>. DEFINE n == Cardinality(Used)
<1>4. n \in Nat
  BY <1>3, FS_CardinalityType
<1>5. \E k \in 1..(n + 1) : k \notin Used
  <2>. SUFFICES ASSUME 1..(n + 1) \in SUBSET Used PROVE FALSE
    OBVIOUS
  <2>1. Cardinality(1..(n + 1)) <= n
    BY <1>3, FS_Subset
  <2>2. Cardinality(1..(n + 1)) = n + 1
    <3>. HIDE DEF n
    <3>. QED  BY <1>4, FS_Interval
  <2>. QED  BY <1>4, <2>1, <2>2
<1>6. NewLock \in 1..(n + 1)
  BY <1>5 DEF NewLock
<1>. QED  BY <1>4, <1>6

\* Entries that have a user each are no more than there are threads.
LEMMA Outgrown ==
  ASSUME NEW D, NEW f, \A p \in D : \E t \in Threads : f[t].path = p
  PROVE  IsFiniteSet(D) /\ Cardinality(D) <= Cardinality(Threads)
<1>. DEFINE user == [p \in D |-> CHOOSE t \in Threads : f[t].path = p]
<1>1. \A p \in D : user[p] \in Threads /\ f[user[p]].path = p
  OBVIOUS
<1>2. user \in [D -> Threads] /\ \A p, q \in D : user[p] = user[q] => p = q
  BY <1>1
<1>. HIDE DEF user
<1>. QED  BY <1>2, Fewer, PathLocksAssumption

LEMMA LInvInit == LockInit => LInv
<1>. SUFFICES ASSUME LockInit PROVE LInv
  OBVIOUS
<1>1. DOMAIN locks = {} /\ locks \in [{} -> [lock : Nat, refs : Nat]]
  BY DEF LockInit
<1>2. threads = [t \in Threads |-> [pc |-> "out"]] /\ ThreadsOK
  BY DEF LockInit, ThreadsOK
<1>3. \A t \in Threads : threads[t].pc = "out"
  BY <1>2
<1>4. TableOK
  BY <1>1, FS_EmptySet DEF TableOK
<1>5. SizeOK
  BY <1>1, FS_EmptySet, PathLocksAssumption DEF SizeOK
<1>. QED  BY <1>1, <1>2, <1>3, <1>4, <1>5 DEF LInv, UsersOK, CountOK, HoldersOK

\* A thread takes its place in the table: the entry of its path has one user
\* more, the others as many as they had.
LEMMA AcquireUsers ==
  ASSUME LInv, NEW t \in Threads, NEW path \in Paths, NEW lock \in Nat, threads[t].pc = "out",
         threads' = [threads EXCEPT ![t] = [pc |-> "wait", path |-> path, lock |-> lock]]
  PROVE  /\ ThreadsOK' /\ threads'[t] = [pc |-> "wait", path |-> path, lock |-> lock]
         /\ \A u \in Threads \ {t} : threads'[u] = threads[u]
         /\ t \notin Users(path)
         /\ \A p : Users(p)' = IF p = path THEN Users(p) \cup {t} ELSE Users(p)
<1>1. threads \in [Threads -> {[pc |-> "out"]} \cup [pc : Busy, path : Paths, lock : Nat]]
  BY DEF LInv, ThreadsOK
<1>2. [pc |-> "wait", path |-> path, lock |-> lock] \in [pc : Busy, path : Paths, lock : Nat]
  BY DEF Busy
<1>. DEFINE new == [pc |-> "wait", path |-> path, lock |-> lock]
<1>3. new.pc = "wait" /\ new.path = path
  OBVIOUS
<1>. HIDE DEF new
<1>4. /\ threads' \in [Threads -> {[pc |-> "out"]} \cup [pc : Busy, path : Paths, lock : Nat]]
      /\ threads'[t] = new /\ \A u \in Threads \ {t} : threads'[u] = threads[u]
  BY <1>1, <1>2 DEF new
<1>5. t \notin Users(path)
  BY DEF Users
<1>6. \A p : Users(p)' = IF p = path THEN Users(p) \cup {t} ELSE Users(p)
  BY <1>3, <1>4 DEF Users
<1>. QED  BY <1>4, <1>5, <1>6 DEF ThreadsOK, new

LEMMA AcquireKnown ==
  ASSUME LInv, NEW t \in Threads, NEW path \in DOMAIN locks, threads[t].pc = "out",
         locks' = [locks EXCEPT ![path].refs = @ + 1],
         threads' = [threads EXCEPT ![t] = [pc |-> "wait", path |-> path, lock |-> locks'[path].lock]]
  PROVE  LInv'
<1>1. path \in Paths /\ locks \in [DOMAIN locks -> [lock : Nat, refs : Nat]]
  BY DEF LInv, TableOK
<1>2. /\ DOMAIN locks' = DOMAIN locks /\ locks' \in [DOMAIN locks -> [lock : Nat, refs : Nat]]
      /\ locks'[path].lock = locks[path].lock /\ locks'[path].refs = locks[path].refs + 1
      /\ \A p \in DOMAIN locks \ {path} : locks'[p] = locks[p]
  BY <1>1
<1>3. locks'[path].lock \in Nat
  BY <1>1, <1>2
<1>4. /\ ThreadsOK'
      /\ threads'[t] = [pc |-> "wait", path |-> path, lock |-> locks'[path].lock]
      /\ \A u \in Threads \ {t} : threads'[u] = threads[u]
      /\ t \notin Users(path)
      /\ \A p : Users(p)' = IF p = path THEN Users(p) \cup {t} ELSE Users(p)
  BY <1>1, <1>3, AcquireUsers
<1>5. TableOK'
  BY <1>2 DEF LInv, TableOK
<1>6. UsersOK'
  BY <1>2, <1>4 DEF LInv, UsersOK
<1>7. CountOK'
  <2>1. Cardinality(Users(path) \cup {t}) = Cardinality(Users(path)) + 1
    BY <1>4, UsersAre, FS_AddElement
  <2>2. ASSUME NEW p \in DOMAIN locks PROVE locks'[p].refs = Cardinality(Users(p)')
    <3>1. CASE p = path
      BY <1>2, <1>4, <2>1, <3>1 DEF LInv, CountOK
    <3>2. CASE p # path
      BY <1>2, <1>4, <3>2 DEF LInv, CountOK
    <3>. QED  BY <3>1, <3>2
  <2>. QED  BY <1>2, <2>2 DEF CountOK
<1>8. HoldersOK'
  BY <1>4 DEF LInv, HoldersOK
<1>9. SizeOK'
  BY <1>2 DEF LInv, SizeOK
<1>. QED  BY <1>4, <1>5, <1>6, <1>7, <1>8, <1>9 DEF LInv

LEMMA AcquireUnknown ==
  ASSUME LInv, NEW t \in Threads, NEW path \in Paths \ DOMAIN locks, threads[t].pc = "out",
         NEW gone \in Trimmed,
         locks' = [p \in (DOMAIN locks \ gone) \cup {path} |->
                     IF p = path THEN [lock |-> NewLock, refs |-> 1] ELSE locks[p]],
         threads' = [threads EXCEPT ![t] = [pc |-> "wait", path |-> path, lock |-> locks'[path].lock]]
  PROVE  LInv'
<1>. DEFINE kept == DOMAIN locks \ gone
<1>1. /\ path \notin kept /\ locks \in [DOMAIN locks -> [lock : Nat, refs : Nat]]
      /\ IsFiniteSet(DOMAIN locks) /\ DOMAIN locks \subseteq Paths
  BY DEF LInv, TableOK
<1>2. /\ \A p \in gone : p \in DOMAIN locks /\ Idle(p)
      /\ Cardinality(kept) < MaxLocks \/ \A p \in kept : ~Idle(p)
  BY DEF Trimmed, Room
<1>3. NewLock \in Nat
  BY NewLockIs
<1>4. /\ DOMAIN locks' = kept \cup {path} /\ locks' \in [kept \cup {path} -> [lock : Nat, refs : Nat]]
      /\ locks'[path] = [lock |-> NewLock, refs |-> 1]
      /\ \A p \in kept : locks'[p] = locks[p]
  BY <1>1, <1>3
<1>. HIDE DEF kept
<1>5. locks'[path].lock \in Nat /\ locks'[path].refs = 1
  BY <1>3, <1>4
<1>6. /\ ThreadsOK'
      /\ threads'[t] = [pc |-> "wait", path |-> path, lock |-> locks'[path].lock]
      /\ \A u \in Threads \ {t} : threads'[u] = threads[u]
      /\ t \notin Users(path)
      /\ \A p : Users(p)' = IF p = path THEN Users(p) \cup {t} ELSE Users(p)
  BY <1>5, AcquireUsers
<1>7. IsFiniteSet(kept) /\ IsFiniteSet(kept \cup {path})
      /\ Cardinality(kept \cup {path}) = Cardinality(kept) + 1 /\ Cardinality(kept) \in Nat
  <2>1. kept \in SUBSET DOMAIN locks
    BY DEF kept
  <2>2. IsFiniteSet(kept)
    BY <1>1, <2>1, FS_Subset
  <2>. QED  BY <1>1, <2>2, FS_AddElement, FS_CardinalityType
<1>8. TableOK'
  BY <1>1, <1>4, <1>7 DEF TableOK, kept
<1>9. \A u \in Threads : threads[u].pc # "out" => threads[u].path \in kept
  <2>1. SUFFICES ASSUME NEW u \in Threads, threads[u].pc # "out", threads[u].path \in gone
                 PROVE  FALSE
    BY DEF LInv, UsersOK, kept
  <2>. DEFINE p == threads[u].path
  <2>2. p \in DOMAIN locks /\ locks[p].refs = 0 /\ u \in Users(p)
    BY <1>2, <2>1 DEF Idle, Users
  <2>3. Cardinality(Users(p)) = 0
    BY <2>2 DEF LInv, CountOK
  <2>. HIDE DEF p
  <2>. QED  BY <2>2, <2>3, UsersAre, FS_EmptySet
<1>10. UsersOK'
  BY <1>4, <1>6, <1>9 DEF LInv, UsersOK
<1>11. CountOK'
  <2>1. Users(path) = {}
    BY <1>1, <1>9 DEF Users
  <2>2. \A p : p = path => Users(p)' = {t}
    BY <1>6, <2>1
  <2>3. \A p : p = path => Cardinality(Users(p)') = 1
    BY <2>2, FS_Singleton
  <2>4. \A p \in kept : p \in DOMAIN locks /\ p # path
    BY <1>1 DEF kept
  <2>5. \A p \in kept : locks'[p].refs = Cardinality(Users(p)')
    BY <1>4, <1>6, <2>4 DEF LInv, CountOK
  <2>. QED  BY <1>4, <1>5, <2>3, <2>5 DEF CountOK
<1>12. HoldersOK'
  BY <1>6 DEF LInv, HoldersOK
<1>13. SizeOK'
  <2>1. CASE Cardinality(kept) < MaxLocks
    <3>1. Cardinality(DOMAIN locks') \in Nat /\ Cardinality(DOMAIN locks') <= MaxLocks
      BY <1>4, <1>7, <2>1, PathLocksAssumption
    <3>. QED  BY <3>1, PathLocksAssumption DEF SizeOK
  <2>2. CASE \A p \in kept : ~Idle(p)
    <3>1. ASSUME NEW p \in kept PROVE Users(p)' # {}
      <4>1. Cardinality(Users(p)) # 0 /\ p # path
        BY <1>1, <2>2, <3>1 DEF Idle, LInv, CountOK, kept
      <4>2. Users(p) # {}
        BY <4>1, FS_EmptySet
      <4>. QED  BY <1>6, <4>1, <4>2
    <3>2. \A p \in DOMAIN locks' : Users(p)' # {}
      BY <1>4, <1>6, <3>1
    <3>3. \A p \in DOMAIN locks' : \E u \in Threads : threads'[u].path = p
      BY <3>2 DEF Users
    <3>4. Cardinality(DOMAIN locks') <= Cardinality(Threads)
      <4>1. PICK D, f : D = DOMAIN locks' /\ f = threads'
        OBVIOUS
      <4>2. \A p \in D : \E u \in Threads : f[u].path = p
        BY <3>3, <4>1
      <4>3. Cardinality(D) <= Cardinality(Threads)
        BY <4>2, Outgrown
      <4>. QED  BY <4>1, <4>3
    <3>. QED  BY <3>4 DEF SizeOK
  <2>. QED  BY <1>2, <2>1, <2>2
<1>. QED  BY <1>6, <1>8, <1>10, <1>11, <1>12, <1>13 DEF LInv

\* A thread goes on with the entry it has.
LEMMA MovesOn ==
  ASSUME LInv, NEW t \in Threads, NEW pc \in Busy, threads[t].pc # "out",
         threads' = [threads EXCEPT ![t].pc = pc], locks' = locks,
         pc = "inside" =>
            \A u \in Threads : threads[u].pc = "inside" => threads[u].lock # threads[t].lock
  PROVE  LInv'
<1>1. /\ threads \in [Threads -> {[pc |-> "out"]} \cup [pc : Busy, path : Paths, lock : Nat]]
      /\ threads[t] \in [pc : Busy, path : Paths, lock : Nat]
  BY ThreadIs DEF LInv, ThreadsOK
<1>2. /\ threads'[t].pc = pc /\ threads'[t].path = threads[t].path
      /\ threads'[t].lock = threads[t].lock /\ threads'[t] \in [pc : Busy, path : Paths, lock : Nat]
      /\ \A u \in Threads \ {t} : threads'[u] = threads[u]
  BY <1>1
<1>3. ThreadsOK'
  BY <1>1, <1>2 DEF ThreadsOK
<1>4. pc # "out"
  BY DEF Busy
<1>5. \A p : Users(p)' = Users(p)
  BY <1>2, <1>4 DEF Users
<1>6. UsersOK' /\ TableOK' /\ SizeOK'
  BY <1>2 DEF LInv, UsersOK, TableOK, SizeOK
<1>7. CountOK'
  BY <1>5 DEF LInv, CountOK
<1>8. HoldersOK'
  BY <1>2 DEF LInv, HoldersOK
<1>. QED  BY <1>3, <1>6, <1>7, <1>8 DEF LInv

LEMMA ReleaseKeeps ==
  ASSUME LInv, NEW t \in Threads, ReleaseLock(t)
  PROVE  LInv'
<1>0. PICK path : path = threads[t].path
  OBVIOUS
<1>1. /\ threads[t].pc = "leaving" /\ path \in DOMAIN locks
      /\ locks' = [locks EXCEPT ![path].refs = IF @ = 0 THEN 0 ELSE @ - 1]
      /\ threads' = [threads EXCEPT ![t] = [pc |-> "out"]]
  BY <1>0 DEF ReleaseLock, LInv, UsersOK
<1>2. /\ threads \in [Threads -> {[pc |-> "out"]} \cup [pc : Busy, path : Paths, lock : Nat]]
      /\ locks \in [DOMAIN locks -> [lock : Nat, refs : Nat]]
      /\ t \in Users(path)
  BY <1>0, <1>1 DEF LInv, ThreadsOK, TableOK, Users
<1>3. /\ threads' \in [Threads -> {[pc |-> "out"]} \cup [pc : Busy, path : Paths, lock : Nat]]
      /\ threads'[t].pc = "out" /\ \A u \in Threads \ {t} : threads'[u] = threads[u]
  BY <1>1, <1>2
<1>4. locks[path].refs = Cardinality(Users(path)) /\ locks[path].refs \in Nat \ {0}
  <2>1. locks[path].refs = Cardinality(Users(path))
    BY <1>1 DEF LInv, CountOK
  <2>2. Cardinality(Users(path)) # 0
    BY <1>2, UsersAre, FS_EmptySet
  <2>. QED  BY <2>1, <2>2, UsersAre
<1>5. /\ DOMAIN locks' = DOMAIN locks /\ locks' \in [DOMAIN locks -> [lock : Nat, refs : Nat]]
      /\ locks'[path].lock = locks[path].lock /\ locks'[path].refs = locks[path].refs - 1
      /\ \A p \in DOMAIN locks \ {path} : locks'[p] = locks[p]
  <2>. DEFINE e == [locks[path] EXCEPT !.refs = @ - 1]
  <2>1. locks[path] \in [lock : Nat, refs : Nat] /\ locks[path].refs # 0
    BY <1>1, <1>2, <1>4
  <2>2. locks' = [locks EXCEPT ![path] = e]
    BY <1>1, <2>1
  <2>3. /\ e \in [lock : Nat, refs : Nat] /\ e.lock = locks[path].lock
        /\ e.refs = locks[path].refs - 1
    BY <1>4, <2>1
  <2>. HIDE DEF e
  <2>. QED  BY <1>1, <1>2, <2>2, <2>3
<1>6. \A p : Users(p)' = IF p = path THEN Users(p) \ {t} ELSE Users(p)
  BY <1>0, <1>3 DEF Users
<1>7. Cardinality(Users(path) \ {t}) = Cardinality(Users(path)) - 1
  BY <1>2, UsersAre, FS_RemoveElement
<1>8. TableOK'
  BY <1>5 DEF LInv, TableOK
<1>9. UsersOK'
  BY <1>3, <1>5 DEF LInv, UsersOK
<1>10. CountOK'
  <2>1. ASSUME NEW p \in DOMAIN locks PROVE locks'[p].refs = Cardinality(Users(p)')
    <3>1. CASE p = path
      BY <1>4, <1>5, <1>6, <1>7, <3>1
    <3>2. CASE p # path
      BY <1>5, <1>6, <3>2 DEF LInv, CountOK
    <3>. QED  BY <3>1, <3>2
  <2>. QED  BY <1>5, <2>1 DEF CountOK
<1>11. HoldersOK'
  BY <1>3 DEF LInv, HoldersOK
<1>12. SizeOK'
  BY <1>5 DEF LInv, SizeOK
<1>. QED  BY <1>3, <1>8, <1>9, <1>10, <1>11, <1>12 DEF LInv, ThreadsOK

LEMMA LInvStep == LInv /\ [LockNext]_lockVars => LInv'
<1>. SUFFICES ASSUME LInv, [LockNext]_lockVars PROVE LInv'
  OBVIOUS
<1>1. ASSUME NEW t \in Threads, NEW path \in Paths, AcquireLock(t, path)
      PROVE  LInv'
  <2>1. CASE path \in DOMAIN locks
    BY <1>1, <2>1, AcquireKnown DEF AcquireLock
  <2>2. CASE path \notin DOMAIN locks
    BY <1>1, <2>2, AcquireUnknown DEF AcquireLock
  <2>. QED  BY <2>1, <2>2
<1>2. ASSUME NEW t \in Threads, EnterPath(t) \/ LeavePath(t)
      PROVE  LInv'
  BY <1>2, MovesOn DEF EnterPath, LeavePath, Busy
<1>3. ASSUME NEW t \in Threads, ReleaseLock(t)
      PROVE  LInv'
  BY <1>3, ReleaseKeeps
<1>4. CASE UNCHANGED lockVars
  BY <1>4 DEF lockVars, LInv, ThreadsOK, TableOK, UsersOK, CountOK, HoldersOK, SizeOK, Users
<1>. QED  BY <1>1, <1>2, <1>3, <1>4 DEF LockNext

\* Two threads never work on one upload blob at once, and the table of locks
\* outgrows its size only as far as there are threads, for any number of paths
\* and threads and whatever size the table has (upload_blob_store.py
\* _acquire_lock, _release_lock).
THEOREM OneThreadAtABlob == LockSpec => []OneThreadPerPath
<1>1. LInv => OneThreadPerPath
  <2>. SUFFICES ASSUME LInv PROVE OneThreadPerPath
    OBVIOUS
  <2>1. \A t, u \in Threads :
          threads[t].pc = "inside" /\ threads[u].pc = "inside"
          /\ threads[t].path = threads[u].path => t = u
    BY DEF LInv, UsersOK, HoldersOK
  <2>. QED  BY <2>1 DEF LInv, SizeOK, OneThreadPerPath
<1>. QED  BY <1>1, LInvInit, LInvStep, PTL DEF LockSpec

-----------------------------------------------------------------------------
(* The projects: what a record holds, and whom it is of.                   *)
AssociationRow ==
    [state : {"confirmed", "suggested"}, version : Nat, acknowledged : SUBSET Projects]
ComponentRow ==
    [project : Projects, members : SUBSET (Scopes \X (0..MaxDepth)), version : Nat]

AssociationTypes ==
    /\ projects \subseteq Projects
    /\ DOMAIN associations \subseteq projects \X Scopes
    /\ associations \in [DOMAIN associations -> AssociationRow]
    /\ DOMAIN retired \subseteq Projects \X Scopes /\ retired \in [DOMAIN retired -> Nat]

(* A version goes on from where it stopped.                                *)
Counted ==
    \A k \in DOMAIN associations \cap DOMAIN retired : retired[k] < associations[k].version

(* A record that was read is there as it was, or has a later version, or   *)
(* is gone and will not come back with a version as early.                 *)
Same(new, old) == new = old \/ new.version > old.version
AssociationSeen ==
    view.kind = "association" =>
      /\ view.record \in AssociationRow
      /\ IF view.key \in DOMAIN associations
           THEN Same(associations[view.key], view.record)
           ELSE view.key \in DOMAIN retired /\ retired[view.key] >= view.record.version
ComponentSeen ==
    view.kind = "component" =>
      /\ view.key \in 1..ids /\ view.record \in ComponentRow
      /\ view.key \in DOMAIN components => Same(components[view.key], view.record)

(* The components of a project have no member in common and none is empty; *)
(* a member is of an associated scope, and a confirmed scope that forms    *)
(* components has one.                                                     *)
Filled(h) == \A i \in DOMAIN h : h[i].members # {}
Apart(h) ==
    \A i, j \in DOMAIN h :
        h[i].project = h[j].project /\ i # j => h[i].members \cap h[j].members = {}
Rooted(h, keys) ==
    \A i \in DOMAIN h : \A m \in h[i].members : <<h[i].project, m[1]>> \in keys
Placed(h, n, keys) ==
    /\ n \in Nat /\ DOMAIN h \subseteq 1..n /\ h \in [DOMAIN h -> ComponentRow]
    /\ Filled(h) /\ Apart(h) /\ Rooted(h, keys)
Holds(h, p, s) ==
    \E i \in DOMAIN h : h[i].project = p /\ \E m \in h[i].members : m[1] = s
Formed ==
    \A p \in Projects, s \in Forming : Confirmed(p, s) => Holds(components, p, s)

ProjectsInv ==
    /\ AssociationTypes /\ Counted /\ AssociationSeen /\ ComponentSeen /\ SharingKnown
    /\ Placed(components, ids, DOMAIN associations) /\ Formed

(* What a step may make of the components: one of before keeps its version *)
(* or has a later one, a new one has a new id; a project keeps its scopes. *)
Later(h, g, n) == \A i \in DOMAIN g : i \in 1..n => i \in DOMAIN h /\ Same(g[i], h[i])
Keeps(h, g) == \A p, s : Holds(h, p, s) => Holds(g, p, s)

LEMMA PutIs ==
    ASSUME NEW h, NEW k, NEW record
    PROVE  /\ DOMAIN Put(h, k, record) = DOMAIN h \cup {k}
           /\ Put(h, k, record)[k] = record
           /\ \A x \in DOMAIN h : x # k => Put(h, k, record)[x] = h[x]
           /\ Put(h, k, record) = [x \in DOMAIN h \cup {k} |-> Put(h, k, record)[x]]
BY DEF Put

LEMMA ComponentIs ==
    ASSUME NEW p \in Projects, NEW M \in SUBSET (Scopes \X (0..MaxDepth)), NEW v \in Nat
    PROVE  /\ Component(p, M, v) \in ComponentRow
           /\ Component(p, M, v).project = p
           /\ Component(p, M, v).members = M
           /\ Component(p, M, v).version = v
BY DEF Component, ComponentRow

(* A component is written whose members no other of its project has.       *)
LEMMA PutPlaced ==
    ASSUME NEW h, NEW n, NEW keys, Placed(h, n, keys), NEW c \in 1..n, NEW p \in Projects,
           NEW M \in SUBSET (Scopes \X (0..MaxDepth)), NEW v \in Nat, M # {},
           \A m \in M : <<p, m[1]>> \in keys,
           \A i \in DOMAIN h : i # c /\ h[i].project = p => h[i].members \cap M = {}
    PROVE  Placed(Put(h, c, Component(p, M, v)), n, keys)
<1> DEFINE r == Component(p, M, v)
           g == Put(h, c, r)
<1>1. r \in ComponentRow /\ r.project = p /\ r.members = M
  BY ComponentIs
<1> HIDE DEF r
<1>2. /\ DOMAIN g = DOMAIN h \cup {c} /\ g[c] = r
      /\ \A x \in DOMAIN h : x # c => g[x] = h[x]
      /\ g = [x \in DOMAIN h \cup {c} |-> g[x]]
  BY DEF Put
<1> HIDE DEF g
<1>3. n \in Nat /\ DOMAIN h \subseteq 1..n /\ h \in [DOMAIN h -> ComponentRow]
  BY DEF Placed
<1>4. n \in Nat /\ DOMAIN g \subseteq 1..n /\ g \in [DOMAIN g -> ComponentRow]
  BY <1>1, <1>2, <1>3
<1>5. Filled(g)
  BY <1>1, <1>2 DEF Placed, Filled
<1>6. Apart(g)
  BY <1>1, <1>2 DEF Placed, Apart
<1>7. Rooted(g, keys)
  BY <1>1, <1>2 DEF Placed, Rooted
<1>. QED  BY <1>4, <1>5, <1>6, <1>7 DEF Placed, g, r

LEMMA RestrictPlaced ==
    ASSUME NEW h, NEW n, NEW keys, Placed(h, n, keys), NEW S \in SUBSET DOMAIN h
    PROVE  /\ Placed(Restrict(h, S), n, keys)
           /\ DOMAIN Restrict(h, S) = S
           /\ \A i \in S : Restrict(h, S)[i] = h[i]
<1> DEFINE g == Restrict(h, S)
<1>1. DOMAIN g = S /\ (\A i \in S : g[i] = h[i]) /\ g = [i \in S |-> g[i]]
  BY DEF Restrict
<1> HIDE DEF g
<1>2. n \in Nat /\ DOMAIN g \subseteq 1..n /\ g \in [DOMAIN g -> ComponentRow]
  BY <1>1 DEF Placed
<1>3. Filled(g) /\ Apart(g) /\ Rooted(g, keys)
  BY <1>1 DEF Placed, Filled, Apart, Rooted
<1>. QED  BY <1>1, <1>2, <1>3 DEF Placed, g

LEMMA SameOn ==
    ASSUME NEW x \in ComponentRow, NEW y \in ComponentRow, NEW z \in ComponentRow,
           Same(x, y), Same(y, z)
    PROVE  Same(x, z)
BY DEF Same, ComponentRow

LEMMA SeenAfter ==
    ASSUME ProjectsInv, view' = view, NEW keys, Placed(components', ids', keys),
           ids' \in Nat, ids <= ids', Later(components, components', ids)
    PROVE  ComponentSeen'
<1>1. ids \in Nat /\ DOMAIN components \subseteq 1..ids
      /\ components \in [DOMAIN components -> ComponentRow]
  BY DEF ProjectsInv, Placed
<1>2. components' \in [DOMAIN components' -> ComponentRow]
  BY DEF Placed
<1>3. ASSUME view.kind = "component"
      PROVE  /\ view.key \in 1..ids' /\ view.record \in ComponentRow
             /\ view.key \in DOMAIN components' => Same(components'[view.key], view.record)
  <2> DEFINE k == view.key  r == view.record
  <2>1. k \in 1..ids /\ r \in ComponentRow
        /\ (k \in DOMAIN components => Same(components[k], r))
    BY <1>3 DEF ProjectsInv, ComponentSeen
  <2> HIDE DEF k, r
  <2>2. ASSUME k \in DOMAIN components'
        PROVE  Same(components'[k], r)
    <3>1. k \in DOMAIN components /\ Same(components'[k], components[k])
      BY <2>1, <2>2, Zenon DEF Later
    <3>2. /\ components[k] \in ComponentRow /\ components'[k] \in ComponentRow
      BY <1>1, <1>2, <2>2, <3>1
    <3>. QED  BY <2>1, <3>1, <3>2, SameOn
  <2>3. k \in 1..ids'
    BY <1>1, <2>1
  <2>. QED  BY <2>1, <2>2, <2>3 DEF k, r
<1>. QED  BY <1>3 DEF ComponentSeen

(* The invariant after a step that changes components only.                *)
LEMMA ComponentsMove ==
    ASSUME ProjectsInv, UNCHANGED <<projects, associations, retired, view>>,
           Placed(components', ids', DOMAIN associations), ids' \in Nat, ids <= ids',
           Later(components, components', ids), Keeps(components, components')
    PROVE  ProjectsInv'
<1>1. AssociationTypes' /\ Counted' /\ AssociationSeen' /\ SharingKnown'
  BY DEF ProjectsInv, AssociationTypes, Counted, AssociationSeen, SharingKnown, Sharing,
         Confirmed
<1>2. ComponentSeen'
  BY SeenAfter
<1>3. Formed'
  BY DEF ProjectsInv, Formed, Confirmed, Keeps
<1>. QED  BY <1>1, <1>2, <1>3 DEF ProjectsInv
LEMMA ComponentAt ==
    ASSUME ProjectsInv, NEW c \in DOMAIN components
    PROVE  /\ c \in 1..ids /\ ids \in Nat /\ components[c] \in ComponentRow
           /\ components[c].project \in Projects /\ components[c].version \in Nat
           /\ components[c].members \in SUBSET (Scopes \X (0..MaxDepth))
           /\ components[c].members # {}
           /\ \A m \in components[c].members :
                 <<components[c].project, m[1]>> \in DOMAIN associations
           /\ \A i \in DOMAIN components :
                 i # c /\ components[i].project = components[c].project =>
                   components[i].members \cap components[c].members = {}
<1>1. components[c] \in ComponentRow /\ c \in 1..ids /\ ids \in Nat
  BY DEF ProjectsInv, Placed
<1>2. /\ components[c].project \in Projects /\ components[c].version \in Nat
      /\ components[c].members \in SUBSET (Scopes \X (0..MaxDepth))
  BY <1>1 DEF ComponentRow
<1>. QED  BY <1>1, <1>2 DEF ProjectsInv, Placed, Filled, Rooted, Apart

(* A component is added whose members no other of its project has.         *)
LEMMA AddedPlaced ==
    ASSUME ProjectsInv, NEW p \in Projects, NEW keys, DOMAIN associations \subseteq keys,
           NEW M \in SUBSET (Scopes \X (0..MaxDepth)), M # {},
           \A m \in M : <<p, m[1]>> \in keys,
           \A i \in DOMAIN components :
               components[i].project = p => components[i].members \cap M = {},
           NEW h, DOMAIN h = DOMAIN components, Placed(h, ids, DOMAIN associations),
           \A i \in DOMAIN h : h[i].members = components[i].members
                               /\ h[i].project = components[i].project
    PROVE  /\ ids + 1 \in Nat /\ ids <= ids + 1
           /\ Placed(Added(h, p, M), ids + 1, keys)
           /\ Later(h, Added(h, p, M), ids) /\ Keeps(components, Added(h, p, M))
           /\ \A m \in M : Holds(Added(h, p, M), p, m[1])
<1> DEFINE r == Component(p, M, 1)
           g == Put(h, ids + 1, r)
<1>1. r \in ComponentRow /\ r.project = p /\ r.members = M
  BY ComponentIs
<1> HIDE DEF r
<1>2. /\ DOMAIN g = DOMAIN h \cup {ids + 1} /\ g[ids + 1] = r
      /\ \A x \in DOMAIN h : x # ids + 1 => g[x] = h[x]
  BY DEF Put
<1>3. ids \in Nat /\ DOMAIN h \subseteq 1..ids
  BY DEF ProjectsInv, Placed
<1>4. \A x \in DOMAIN h : g[x] = h[x]
  BY <1>2, <1>3
<1>5. Placed(h, ids + 1, keys)
  <2>1. ids + 1 \in Nat /\ DOMAIN h \subseteq 1..(ids + 1)
    BY <1>3
  <2>2. Rooted(h, keys)
    BY DEF Placed, Rooted
  <2>. QED  BY <2>1, <2>2 DEF Placed
<1>6. Placed(g, ids + 1, keys)
  <2>1. ids + 1 \in 1..(ids + 1) /\ 1 \in Nat
    BY <1>3
  <2>2. \A i \in DOMAIN h : i # ids + 1 /\ h[i].project = p => h[i].members \cap M = {}
    OBVIOUS
  <2>. QED  BY <1>5, <2>1, <2>2, PutPlaced DEF r
<1> HIDE DEF g
<1>7. Later(h, g, ids)
  <2>1. \A i \in DOMAIN g : i \in 1..ids => i \in DOMAIN h /\ g[i] = h[i]
    BY <1>2, <1>3, <1>4
  <2>. QED  BY <2>1 DEF Later, Same
<1>8. Keeps(components, g)
  BY <1>2, <1>4, Zenon DEF Keeps, Holds
<1>9. \A m \in M : Holds(g, p, m[1])
  BY <1>1, <1>2 DEF Holds
<1>. QED  BY <1>3, <1>6, <1>7, <1>8, <1>9 DEF Added, g, r

LEMMA SameComponents ==
    ASSUME ProjectsInv
    PROVE  Later(components, components, ids) /\ Keeps(components, components)
BY DEF Later, Same, Keeps

LEMMA Splitting ==
    ASSUME ProjectsInv, NEW c \in DOMAIN components, NEW v, NEW s \in Scopes,
           NEW d \in 1..MaxDepth, SplitComponent(c, v, s, d)
    PROVE  ProjectsInv'
<1> DEFINE p == components[c].project
           M == {<<s, d>>}
           row == Component(p, components[c].members, components[c].version + 1)
           h == Put(components, c, row)
<1>1. /\ c \in 1..ids /\ ids \in Nat /\ components[c] \in ComponentRow
      /\ p \in Projects /\ components[c].version \in Nat
      /\ components[c].members \in SUBSET (Scopes \X (0..MaxDepth))
      /\ components[c].members # {}
      /\ \A m \in components[c].members : <<p, m[1]>> \in DOMAIN associations
      /\ \A i \in DOMAIN components : i # c /\ components[i].project = p =>
            components[i].members \cap components[c].members = {}
  BY ComponentAt
<1>2. /\ UNCHANGED <<projects, associations, retired, view>> /\ ids' = ids + 1
      /\ components' = Added(h, p, M)
      /\ \E e \in 0..d - 1 : <<s, e>> \in components[c].members
      /\ Owners(p, <<s, d>>) = {}
  BY DEF SplitComponent, Updated
<1>3. Placed(components, ids, DOMAIN associations)
  BY DEF ProjectsInv
<1>4. /\ row \in ComponentRow /\ row.project = p /\ row.members = components[c].members
      /\ row.version = components[c].version + 1
  BY <1>1, ComponentIs
<1>5. Placed(h, ids, DOMAIN associations)
  BY <1>1, <1>3, PutPlaced
<1>6. /\ DOMAIN h = DOMAIN components /\ h[c] = row
      /\ \A i \in DOMAIN components : i # c => h[i] = components[i]
  BY DEF Put
<1> HIDE DEF row, h
<1>7. \A i \in DOMAIN h : h[i].members = components[i].members
                          /\ h[i].project = components[i].project
  BY <1>4, <1>6
<1>8. M \in SUBSET (Scopes \X (0..MaxDepth)) /\ M # {}
  BY ProjectsAssumption
<1>9. \A m \in M : <<p, m[1]>> \in DOMAIN associations
  BY <1>1, <1>2
<1>10. \A i \in DOMAIN components :
          components[i].project = p => components[i].members \cap M = {}
  BY <1>2 DEF Owners, OfProject
<1> HIDE DEF M, p
<1>11. /\ ids + 1 \in Nat /\ ids <= ids + 1
       /\ Placed(Added(h, p, M), ids + 1, DOMAIN associations)
       /\ Later(h, Added(h, p, M), ids) /\ Keeps(components, Added(h, p, M))
  BY <1>1, <1>5, <1>6, <1>7, <1>8, <1>9, <1>10, AddedPlaced
<1>12. Later(components, components', ids)
  <2>1. \A i \in DOMAIN h : h[i] \in ComponentRow /\ components[i] \in ComponentRow
    BY <1>3, <1>5, <1>6 DEF Placed
  <2>2. \A i \in DOMAIN h : Same(h[i], components[i])
    BY <1>1, <1>4, <1>6 DEF Same
  <2>3. /\ DOMAIN components' \subseteq 1..ids + 1
        /\ components' \in [DOMAIN components' -> ComponentRow]
    BY <1>2, <1>11 DEF Placed
  <2>4. \A i \in DOMAIN components' : i \in 1..ids => i \in DOMAIN h /\ Same(components'[i], h[i])
    BY <1>2, <1>11 DEF Later
  <2>. QED  BY <1>6, <2>1, <2>2, <2>3, <2>4, SameOn DEF Later
<1>. QED  BY <1>2, <1>11, <1>12, ComponentsMove

(* One component takes members, after others were taken out or shortened.  *)
LEMMA TakenPlaced ==
    ASSUME ProjectsInv, NEW c \in DOMAIN components, NEW h,
           NEW M \in SUBSET (Scopes \X (0..MaxDepth)), Placed(h, ids, DOMAIN associations), components[c].members \subseteq M,
           \A m \in M : <<components[c].project, m[1]>> \in DOMAIN associations,
           Later(components, h, ids),
           \A i \in DOMAIN h : i # c /\ h[i].project = components[c].project =>
                                 h[i].members \cap M = {},
           \A i \in DOMAIN components :
              \/ i = c
              \/ i \in DOMAIN h /\ h[i] = components[i]
              \/ /\ components[i].project = components[c].project
                 /\ \A m \in components[i].members \ M :
                       i \in DOMAIN h /\ h[i].project = components[c].project
                       /\ m \in h[i].members
    PROVE  LET g == Updated(h, c, M) IN
           /\ Placed(g, ids, DOMAIN associations)
           /\ Later(components, g, ids) /\ Keeps(components, g)
<1> DEFINE p == components[c].project
           row == Component(p, M, components[c].version + 1)
           g == Put(h, c, row)
<1>1. /\ c \in 1..ids /\ ids \in Nat /\ components[c] \in ComponentRow
      /\ p \in Projects /\ components[c].version \in Nat
      /\ components[c].members # {}
  BY ComponentAt
<1>2. /\ row \in ComponentRow /\ row.project = p /\ row.members = M
      /\ row.version = components[c].version + 1
  BY <1>1, ComponentIs
<1>3. Placed(g, ids, DOMAIN associations)
  BY <1>1, PutPlaced
<1>4. /\ DOMAIN g = DOMAIN h \cup {c} /\ g[c] = row
      /\ \A i \in DOMAIN h : i # c => g[i] = h[i]
  BY DEF Put
<1> HIDE DEF row, g
<1>5. Same(row, components[c])
  BY <1>1, <1>2 DEF Same
<1>6. Later(components, g, ids)
  BY <1>4, <1>5 DEF Later
<1>7. Keeps(components, g)
  <2>1. ASSUME NEW q, NEW s, NEW i \in DOMAIN components, NEW m \in components[i].members,
               components[i].project = q, m[1] = s
        PROVE  Holds(g, q, s)
    <3>1. CASE i = c
      <4>1. g[c].project = q /\ m \in g[c].members /\ c \in DOMAIN g
        BY <1>2, <1>4, <2>1, <3>1
      <4>. QED  BY <2>1, <4>1 DEF Holds
    <3>2. CASE i # c /\ i \in DOMAIN h /\ h[i] = components[i]
      <4>1. g[i].project = q /\ m \in g[i].members /\ i \in DOMAIN g
        BY <1>4, <2>1, <3>2
      <4>. QED  BY <2>1, <4>1 DEF Holds
    <3>3. CASE i # c /\ q = p /\ m \in M
      <4>1. g[c].project = q /\ m \in g[c].members /\ c \in DOMAIN g
        BY <1>2, <1>4, <3>3
      <4>. QED  BY <2>1, <4>1 DEF Holds
    <3>4. CASE /\ i # c /\ q = p /\ m \notin M /\ i \in DOMAIN h
               /\ h[i].project = p /\ m \in h[i].members
      <4>1. g[i].project = q /\ m \in g[i].members /\ i \in DOMAIN g
        BY <1>4, <3>4
      <4>. QED  BY <2>1, <4>1 DEF Holds
    <3>. QED  BY <2>1, <3>1, <3>2, <3>3, <3>4
  <2>. QED  BY <2>1 DEF Keeps, Holds
<1>. QED  BY <1>3, <1>6, <1>7 DEF Updated, g, row

LEMMA Merging ==
    ASSUME ProjectsInv, NEW cs \in SUBSET DOMAIN components, NEW first \in cs, NEW expected,
           MergeComponents(first, cs, expected)
    PROVE  ProjectsInv'
<1> DEFINE p == components[first].project
           h == Restrict(components, DOMAIN components \ cs)
           M == UNION {components[c].members : c \in cs}
<1>1. /\ UNCHANGED <<projects, associations, retired, view, ids>>
      /\ cs \subseteq OfProject(p) /\ components' = Updated(h, first, M)
  BY DEF MergeComponents, Deleted
<1>2. Placed(components, ids, DOMAIN associations) /\ ids \in Nat
  BY DEF ProjectsInv, Placed
<1>3. /\ Placed(h, ids, DOMAIN associations) /\ DOMAIN h = DOMAIN components \ cs
      /\ \A i \in DOMAIN components \ cs : h[i] = components[i]
  BY <1>2, RestrictPlaced
<1>4. /\ M \in SUBSET (Scopes \X (0..MaxDepth)) /\ components[first].members \subseteq M
      /\ \A m \in M : <<p, m[1]>> \in DOMAIN associations
  <2>1. \A c \in cs : /\ components[c].members \in SUBSET (Scopes \X (0..MaxDepth))
                      /\ components[c].project = p
                      /\ \A m \in components[c].members :
                            <<components[c].project, m[1]>> \in DOMAIN associations
    BY <1>1, ComponentAt DEF OfProject
  <2>. QED  BY <2>1
<1>5. Later(components, h, ids)
  BY <1>3 DEF Later, Same
<1>6. \A i \in DOMAIN h : i # first /\ h[i].project = p => h[i].members \cap M = {}
  <2>1. \A i \in DOMAIN components \ cs, j \in cs :
           components[i].project = p => components[i].members \cap components[j].members = {}
    BY <1>1, <1>2 DEF Placed, Apart, OfProject
  <2>2. ASSUME NEW i \in DOMAIN h, h[i].project = p, NEW m \in h[i].members, m \in M
        PROVE  FALSE
    <3>1. i \in DOMAIN components \ cs /\ h[i] = components[i]
      BY <1>3, <2>2
    <3>2. PICK j \in cs : m \in components[j].members
      BY <2>2
    <3> HIDE DEF h, M
    <3>. QED  BY <2>1, <2>2, <3>1, <3>2
  <2> HIDE DEF h, M
  <2>. QED  BY <2>2
<1>7. \A i \in DOMAIN components :
         \/ i = first
         \/ i \in DOMAIN h /\ h[i] = components[i]
         \/ components[i].project = p /\ components[i].members \ M = {}
  BY <1>1, <1>3 DEF OfProject
<1> HIDE DEF h, M
<1>8. \A i \in DOMAIN components :
         \/ i = first
         \/ i \in DOMAIN h /\ h[i] = components[i]
         \/ /\ components[i].project = components[first].project
            /\ \A m \in components[i].members \ M :
                  i \in DOMAIN h /\ h[i].project = components[first].project
                  /\ m \in h[i].members
  BY <1>7
<1>9. /\ Placed(components', ids, DOMAIN associations)
      /\ Later(components, components', ids) /\ Keeps(components, components')
  BY <1>1, <1>3, <1>4, <1>5, <1>6, <1>8, TakenPlaced
<1>. QED  BY <1>1, <1>2, <1>9, ComponentsMove

LEMMA Assigning ==
    ASSUME ProjectsInv, NEW c \in DOMAIN components, NEW v, NEW w,
           NEW m \in Scopes \X (0..MaxDepth), NEW source,
           AssignComponent(c, v, m, source, w)
    PROVE  ProjectsInv'
<1> DEFINE p == components[c].project
           M == components[c].members \cup {m}
           left == components[source].members \ {m}
           owners == Owners(p, m)
           row == Component(components[source].project, left, components[source].version + 1)
<1>1. /\ UNCHANGED <<projects, associations, retired, view, ids>>
      /\ <<p, m[1]>> \in DOMAIN associations /\ c \notin owners
      /\ owners # {} => source \in owners
      /\ components' = Updated(IF owners = {} THEN components
                              ELSE IF left = {} THEN Deleted({source})
                              ELSE Updated(components, source, left), c, M)
  BY DEF AssignComponent
<1>2. Placed(components, ids, DOMAIN associations) /\ ids \in Nat
  BY DEF ProjectsInv, Placed
<1>3. /\ M \in SUBSET (Scopes \X (0..MaxDepth)) /\ components[c].members \subseteq M
      /\ (\A k \in M : <<p, k[1]>> \in DOMAIN associations)
      /\ \A i \in DOMAIN components : i # c /\ components[i].project = p =>
            components[i].members \cap components[c].members = {}
  BY <1>1, ComponentAt
<1>4. ASSUME NEW h, Placed(h, ids, DOMAIN associations), Later(components, h, ids),
             \A i \in DOMAIN h : h[i].project = p /\ i # c => h[i].members \cap M = {},
             \A i \in DOMAIN components :
                \/ i \in DOMAIN h /\ h[i] = components[i]
                \/ /\ components[i].project = p
                   /\ \A k \in components[i].members \ M :
                         i \in DOMAIN h /\ h[i].project = p /\ k \in h[i].members,
             components' = Updated(h, c, M)
      PROVE  ProjectsInv'
  <2>1. /\ Placed(components', ids, DOMAIN associations)
        /\ Later(components, components', ids) /\ Keeps(components, components')
    <3> HIDE DEF M
    <3>. QED  BY <1>3, <1>4, TakenPlaced
  <2>. QED  BY <1>1, <1>2, <2>1, ComponentsMove
<1>5. CASE owners = {}
  <2>1. \A i \in DOMAIN components : components[i].project = p /\ i # c =>
            components[i].members \cap M = {}
    BY <1>3, <1>5 DEF Owners, OfProject
  <2>2. components' = Updated(components, c, M)
    BY <1>1, <1>5
  <2> HIDE DEF M, owners, p, left
  <2>. QED  BY <1>2, <1>4, <2>1, <2>2, SameComponents
<1>6. ASSUME owners # {}
      PROVE  /\ source \in DOMAIN components /\ source # c
             /\ components[source].project = p /\ m \in components[source].members
             /\ \A i \in DOMAIN components :
                   components[i].project = p /\ i # c /\ i # source =>
                     components[i].members \cap M = {}
  <2>1. /\ source \in DOMAIN components /\ source # c
        /\ components[source].project = p /\ m \in components[source].members
    BY <1>1, <1>6 DEF Owners, OfProject
  <2>2. \A i \in DOMAIN components : i # source /\ components[i].project = p =>
            components[i].members \cap components[source].members = {}
    BY <2>1, ComponentAt
  <2>. QED  BY <1>3, <2>1, <2>2
<1>7. CASE owners # {} /\ left = {}
  <2> DEFINE h == Deleted({source})
  <2>1. components' = Updated(h, c, M)
    BY <1>1, <1>7
  <2>2. /\ Placed(h, ids, DOMAIN associations) /\ DOMAIN h = DOMAIN components \ {source}
        /\ \A i \in DOMAIN components \ {source} : h[i] = components[i]
    BY <1>2, RestrictPlaced DEF Deleted
  <2> HIDE DEF h
  <2>3. Later(components, h, ids)
    BY <2>2 DEF Later, Same
  <2>4. \A i \in DOMAIN h : h[i].project = p /\ i # c => h[i].members \cap M = {}
    BY <1>6, <1>7, <2>2
  <2>5. \A i \in DOMAIN components :
          \/ i \in DOMAIN h /\ h[i] = components[i]
          \/ components[i].project = p /\ components[i].members \ M = {}
    BY <1>6, <1>7, <2>2
  <2> HIDE DEF M, owners, p, left
  <2>. QED  BY <1>4, <2>1, <2>2, <2>3, <2>4, <2>5
<1>8. CASE owners # {} /\ left # {}
  <2> DEFINE h == Put(components, source, row)
  <2>0. /\ source \in 1..ids /\ components[source] \in ComponentRow
        /\ components[source].project \in Projects /\ components[source].version \in Nat
        /\ components[source].members \in SUBSET (Scopes \X (0..MaxDepth))
        /\ \A k \in components[source].members :
               <<components[source].project, k[1]>> \in DOMAIN associations
        /\ \A i \in DOMAIN components :
                 i # source /\ components[i].project = components[source].project =>
                   components[i].members \cap components[source].members = {}
    BY <1>6, <1>8, ComponentAt
  <2>1. components' = Updated(h, c, M)
    BY <1>1, <1>8 DEF Updated
  <2>2. /\ row \in ComponentRow /\ row.project = p /\ row.members = left
        /\ row.version = components[source].version + 1
    BY <1>6, <1>8, <2>0, ComponentIs
  <2>3. Placed(h, ids, DOMAIN associations)
    <3>1. /\ left \in SUBSET (Scopes \X (0..MaxDepth)) /\ left # {}
          /\ components[source].version + 1 \in Nat
          /\ \A k \in left : <<components[source].project, k[1]>> \in DOMAIN associations
          /\ \A i \in DOMAIN components :
                 i # source /\ components[i].project = components[source].project =>
                   components[i].members \cap left = {}
      BY <1>8, <2>0
    <3> HIDE DEF left
    <3>. QED  BY <1>2, <2>0, <3>1, PutPlaced
  <2>4. /\ DOMAIN h = DOMAIN components /\ h[source] = row
        /\ \A i \in DOMAIN components : i # source => h[i] = components[i]
    BY <1>6, <1>8 DEF Put
  <2> HIDE DEF h, row
  <2>5. Later(components, h, ids)
    BY <2>0, <2>2, <2>4 DEF Later, Same
  <2>6. \A i \in DOMAIN h : h[i].project = p /\ i # c => h[i].members \cap M = {}
    <3>1. left \cap M = {}
      BY <1>3, <1>6, <1>8
    <3>. QED  BY <1>6, <1>8, <2>2, <2>4, <3>1
  <2>7. \A i \in DOMAIN components :
          \/ i \in DOMAIN h /\ h[i] = components[i]
          \/ /\ components[i].project = p
             /\ \A k \in components[i].members \ M :
                   i \in DOMAIN h /\ h[i].project = p /\ k \in h[i].members
    BY <1>6, <1>8, <2>2, <2>4
  <2> HIDE DEF M, owners, p, left
  <2>. QED  BY <1>4, <2>1, <2>3, <2>5, <2>6, <2>7
<1>. QED  BY <1>5, <1>7, <1>8

(* ... and after one that adds or confirms associations.                   *)
LEMMA AssociationsMove ==
    ASSUME ProjectsInv, UNCHANGED <<projects, retired, view>>,
           AssociationTypes', SharingKnown', Formed',
           DOMAIN associations \subseteq DOMAIN associations',
           \A k \in DOMAIN associations : Same(associations'[k], associations[k]),
           \A k \in DOMAIN associations' \ DOMAIN associations :
               k \in DOMAIN retired => associations'[k].version > retired[k],
           Placed(components', ids', DOMAIN associations'), ids' \in Nat, ids <= ids',
           Later(components, components', ids)
    PROVE  ProjectsInv'
<1>1. \A k \in DOMAIN associations : associations[k] \in AssociationRow
  BY DEF ProjectsInv, AssociationTypes
<1>2. \A k \in DOMAIN associations' : associations'[k] \in AssociationRow
  BY DEF AssociationTypes
<1>3. \A k \in DOMAIN retired : retired[k] \in Nat
  BY DEF ProjectsInv, AssociationTypes
<1>4. Counted'
  <2>1. ASSUME NEW k \in DOMAIN associations', k \in DOMAIN retired
        PROVE  retired[k] < associations'[k].version
    <3>0. associations'[k].version \in Nat
      BY <1>2 DEF AssociationRow
    <3>1. CASE k \in DOMAIN associations
      <4>1. associations[k].version \in Nat /\ retired[k] < associations[k].version
        BY <1>1, <2>1, <3>1 DEF AssociationRow, ProjectsInv, Counted
      <4>. QED  BY <1>3, <2>1, <3>0, <3>1, <4>1 DEF Same
    <3>. QED  BY <1>3, <2>1, <3>0, <3>1
  <2>. QED  BY <2>1 DEF Counted
<1>5. AssociationSeen'
  <2>1. ASSUME view.kind = "association"
        PROVE  /\ view.record \in AssociationRow
               /\ IF view.key \in DOMAIN associations'
                    THEN Same(associations'[view.key], view.record)
                    ELSE /\ view.key \in DOMAIN retired
                         /\ retired[view.key] >= view.record.version
    <3> DEFINE k == view.key  r == view.record
    <3>1. /\ r \in AssociationRow
          /\ IF k \in DOMAIN associations THEN Same(associations[k], r)
             ELSE k \in DOMAIN retired /\ retired[k] >= r.version
      BY <2>1 DEF ProjectsInv, AssociationSeen
    <3> HIDE DEF k, r
    <3>2. r.version \in Nat
      BY <3>1 DEF AssociationRow
    <3>3. CASE k \in DOMAIN associations
      <4>1. /\ associations[k].version \in Nat /\ associations'[k].version \in Nat
        BY <1>1, <1>2, <3>3 DEF AssociationRow
      <4>2. k \in DOMAIN associations' /\ Same(associations'[k], r)
        BY <3>1, <3>2, <3>3, <4>1 DEF Same
      <4>. QED  BY <3>1, <4>2 DEF k, r
    <3>4. CASE k \notin DOMAIN associations /\ k \in DOMAIN associations'
      <4>1. associations'[k].version \in Nat
        BY <1>2, <3>4 DEF AssociationRow
      <4>2. Same(associations'[k], r)
        BY <1>3, <3>1, <3>2, <3>4, <4>1 DEF Same
      <4>. QED  BY <3>1, <3>4, <4>2 DEF k, r
    <3>5. CASE k \notin DOMAIN associations'
      BY <3>1, <3>5 DEF k, r
    <3>. QED  BY <3>3, <3>4, <3>5
  <2>. QED  BY <2>1 DEF AssociationSeen
<1>6. ComponentSeen'
  BY SeenAfter
<1>. QED  BY <1>4, <1>5, <1>6 DEF ProjectsInv

(* A project that confirms a scope has named those that confirmed it.      *)
LEMMA Joined ==
    ASSUME ProjectsInv, projects' = projects, NEW p \in projects, NEW s \in Scopes,
           NEW known, Sharing(p, s) \subseteq known,
           DOMAIN associations' = DOMAIN associations \cup {<<p, s>>},
           associations'[<<p, s>>].acknowledged = known \cap Sharing(p, s),
           \A k \in DOMAIN associations : k # <<p, s>> => associations'[k] = associations[k]
    PROVE  SharingKnown'
<1>1. \A q, t : <<q, t>> # <<p, s>> => (Confirmed(q, t)' <=> Confirmed(q, t))
  BY DEF Confirmed
<1>2. SUFFICES ASSUME NEW q \in projects, NEW t \in Scopes, NEW r \in projects \ {q},
                      Confirmed(q, t)', Confirmed(r, t)'
               PROVE  \/ r \in associations'[<<q, t>>].acknowledged
                      \/ q \in associations'[<<r, t>>].acknowledged
  BY DEF SharingKnown, Sharing
<1>3. CASE <<q, t>> = <<p, s>>
  <2>1. r \in Sharing(p, s)
    BY <1>1, <1>2, <1>3 DEF Sharing
  <2>. QED  BY <1>3, <2>1
<1>4. CASE <<r, t>> = <<p, s>>
  <2>1. q \in Sharing(p, s)
    BY <1>1, <1>2, <1>4 DEF Sharing
  <2>. QED  BY <1>4, <2>1
<1>5. CASE <<q, t>> # <<p, s>> /\ <<r, t>> # <<p, s>>
  <2>1. Confirmed(q, t) /\ Confirmed(r, t)
    BY <1>1, <1>2, <1>5
  <2>2. \/ r \in associations[<<q, t>>].acknowledged
        \/ q \in associations[<<r, t>>].acknowledged
    BY <1>2, <2>1 DEF ProjectsInv, SharingKnown, Sharing
  <2>3. <<q, t>> \in DOMAIN associations /\ <<r, t>> \in DOMAIN associations
    BY <2>1 DEF Confirmed
  <2>. QED  BY <1>5, <2>2, <2>3
<1>. QED  BY <1>3, <1>4, <1>5

LEMMA DefaultPlaced ==
    ASSUME ProjectsInv, NEW p \in Projects, NEW s \in Scopes, EnsureDefault(p, s),
           DOMAIN associations' = DOMAIN associations \cup {<<p, s>>}
    PROVE  /\ Placed(components', ids', DOMAIN associations') /\ ids' \in Nat /\ ids <= ids'
           /\ Later(components, components', ids) /\ Keeps(components, components')
           /\ s \in Forming => Holds(components', p, s)
<1> DEFINE keys == DOMAIN associations \cup {<<p, s>>}
           M == {<<s, 0>>}
<1>1. Placed(components, ids, DOMAIN associations) /\ ids \in Nat
  BY DEF ProjectsInv, Placed
<1>2. CASE UNCHANGED <<components, ids>> /\ (s \in Forming => Holds(components, p, s))
  <2>1. Placed(components, ids, keys)
    BY <1>1 DEF Placed, Rooted
  <2>. QED  BY <1>1, <1>2, <2>1, SameComponents
<1>3. CASE /\ \A i \in OfProject(p) : \A m \in components[i].members : m[1] # s
           /\ ids' = ids + 1 /\ components' = Added(components, p, M)
  <2>1. M \in SUBSET (Scopes \X (0..MaxDepth)) /\ M # {} /\ \A m \in M : <<p, m[1]>> \in keys
    BY ProjectsAssumption
  <2>2. \A i \in DOMAIN components :
           components[i].project = p => components[i].members \cap M = {}
    BY <1>3 DEF OfProject
  <2>3. s = (<<s, 0>>)[1] /\ <<s, 0>> \in M /\ DOMAIN associations \subseteq keys
    OBVIOUS
  <2> HIDE DEF M, keys
  <2>4. /\ ids + 1 \in Nat /\ ids <= ids + 1
        /\ Placed(Added(components, p, M), ids + 1, keys)
        /\ Later(components, Added(components, p, M), ids)
        /\ Keeps(components, Added(components, p, M))
        /\ \A m \in M : Holds(Added(components, p, M), p, m[1])
    BY <1>1, <2>1, <2>2, <2>3, AddedPlaced
  <2>5. Holds(components', p, s)
    BY <1>3, <2>3, <2>4
  <2>. QED  BY <1>3, <2>4, <2>5 DEF keys
<1>. QED  BY <1>2, <1>3 DEF EnsureDefault, OfProject, Holds

LEMMA Confirming ==
    ASSUME ProjectsInv, UNCHANGED <<projects, retired, view>>,
           NEW p \in projects, NEW s \in Scopes, NEW known \in SUBSET Projects,
           Sharing(p, s) \subseteq known, EnsureDefault(p, s), NEW v \in Nat,
           <<p, s>> \in DOMAIN retired => v > retired[<<p, s>>],
           <<p, s>> \in DOMAIN associations => v > associations[<<p, s>>].version,
           DOMAIN associations' = DOMAIN associations \cup {<<p, s>>},
           associations' = [k \in DOMAIN associations' |-> associations'[k]],
           associations'[<<p, s>>] = Association("confirmed", v, known \cap Sharing(p, s)),
           \A k \in DOMAIN associations : k # <<p, s>> => associations'[k] = associations[k]
    PROVE  ProjectsInv'
<1> DEFINE row == Association("confirmed", v, known \cap Sharing(p, s))
<1>1. /\ row \in AssociationRow /\ row.acknowledged = known \cap Sharing(p, s)
      /\ row.version = v /\ row.state = "confirmed"
  BY DEF Association, AssociationRow
<1> HIDE DEF row
<1>2. associations'[<<p, s>>] = row
  BY DEF row
<1>3. p \in Projects
  BY DEF ProjectsInv, AssociationTypes
<1>4. AssociationTypes'
  <2>1. /\ projects \subseteq Projects /\ DOMAIN associations \subseteq projects \X Scopes
        /\ associations \in [DOMAIN associations -> AssociationRow]
        /\ DOMAIN retired \subseteq Projects \X Scopes /\ retired \in [DOMAIN retired -> Nat]
    BY DEF ProjectsInv, AssociationTypes
  <2>2. \A k \in DOMAIN associations' : associations'[k] \in AssociationRow
    BY <1>1, <1>2, <2>1
  <2>3. associations' \in [DOMAIN associations' -> AssociationRow]
    BY <2>2
  <2>. QED  BY <2>1, <2>3 DEF AssociationTypes
<1>5. SharingKnown'
  BY <1>1, <1>2, Joined
<1>6. /\ Placed(components', ids', DOMAIN associations') /\ ids' \in Nat /\ ids <= ids'
      /\ Later(components, components', ids) /\ Keeps(components, components')
      /\ s \in Forming => Holds(components', p, s)
  BY <1>3, DefaultPlaced
<1>7. Formed'
  <2>1. ASSUME NEW q \in Projects, NEW t \in Forming, Confirmed(q, t)'
        PROVE  Holds(components', q, t)
    <3>1. CASE q = p /\ t = s
      BY <1>6, <2>1, <3>1
    <3>2. CASE <<q, t>> # <<p, s>>
      <4>1. Confirmed(q, t)
        BY <2>1, <3>2 DEF Confirmed
      <4>. QED  BY <1>6, <2>1, <4>1 DEF ProjectsInv, Formed, Keeps
    <3>. QED  BY <3>1, <3>2
  <2>. QED  BY <2>1 DEF Formed
<1>8. \A k \in DOMAIN associations : Same(associations'[k], associations[k])
  BY <1>1, <1>2 DEF Same
<1>9. \A k \in DOMAIN associations' \ DOMAIN associations :
         k \in DOMAIN retired => associations'[k].version > retired[k]
  BY <1>1, <1>2
<1>. QED  BY <1>4, <1>5, <1>6, <1>7, <1>8, <1>9, AssociationsMove

LEMMA Associating ==
    ASSUME ProjectsInv, NEW p, NEW s \in Scopes, NEW known \in SUBSET Projects,
           AssociateSource(p, s, known)
    PROVE  ProjectsInv'
<1> DEFINE v == FirstVersion(p, s)
           row == Association("confirmed", v, known \cap Sharing(p, s))
<1>1. /\ UNCHANGED <<projects, retired, view>> /\ p \in projects
      /\ <<p, s>> \notin DOMAIN associations /\ Sharing(p, s) \subseteq known
      /\ EnsureDefault(p, s) /\ associations' = Put(associations, <<p, s>>, row)
  BY DEF AssociateSource, Associated
<1>2. v \in Nat /\ (<<p, s>> \in DOMAIN retired => v > retired[<<p, s>>])
  <2>1. <<p, s>> \in DOMAIN retired => retired[<<p, s>>] \in Nat
    BY DEF ProjectsInv, AssociationTypes
  <2>. QED  BY <2>1 DEF FirstVersion, Retired
<1> HIDE DEF row
<1>3. /\ DOMAIN associations' = DOMAIN associations \cup {<<p, s>>}
      /\ associations' = [k \in DOMAIN associations' |-> associations'[k]]
      /\ associations'[<<p, s>>] = row
      /\ \A k \in DOMAIN associations : k # <<p, s>> => associations'[k] = associations[k]
  BY <1>1 DEF Put
<1> HIDE DEF v
<1>. QED  BY <1>1, <1>2, <1>3, Confirming DEF row

LEMMA ConfirmingSuggested ==
    ASSUME ProjectsInv, NEW p, NEW s \in Scopes, NEW known \in SUBSET Projects, NEW e \in Nat,
           ConfirmAssociation(p, s, e, known)
    PROVE  ProjectsInv'
<1> DEFINE row == Association("confirmed", e + 1, known \cap Sharing(p, s))
<1>1. /\ UNCHANGED <<projects, retired, view>>
      /\ <<p, s>> \in DOMAIN associations /\ Sharing(p, s) \subseteq known
      /\ associations[<<p, s>>].version = e
      /\ EnsureDefault(p, s) /\ associations' = [associations EXCEPT ![<<p, s>>] = row]
  BY DEF ConfirmAssociation, Replaced
<1>2. p \in projects
  BY <1>1 DEF ProjectsInv, AssociationTypes
<1>3. <<p, s>> \in DOMAIN retired => e + 1 > retired[<<p, s>>]
  BY <1>1 DEF ProjectsInv, AssociationTypes, Counted
<1> HIDE DEF row
<1>4. /\ DOMAIN associations' = DOMAIN associations \cup {<<p, s>>}
      /\ associations' = [k \in DOMAIN associations' |-> associations'[k]]
      /\ associations'[<<p, s>>] = row
      /\ \A k \in DOMAIN associations : k # <<p, s>> => associations'[k] = associations[k]
  BY <1>1
<1>5. e + 1 \in Nat /\ e + 1 > e
  OBVIOUS
<1>. QED  BY <1>1, <1>2, <1>3, <1>4, <1>5, Confirming DEF row

(* The scope leaves the components of the project, and nothing else does.  *)
LEMMA ScopeLeaves ==
    ASSUME ProjectsInv, NEW p, NEW s
    PROVE  LET g == WithoutScope(p, s) IN
           /\ Placed(g, ids, DOMAIN associations \ {<<p, s>>})
           /\ Later(components, g, ids)
           /\ \A q, t : <<q, t>> # <<p, s>> /\ Holds(components, q, t) => Holds(g, q, t)
<1> DEFINE g == WithoutScope(p, s)
           left(i) == {m \in components[i].members : m[1] # s}
           gone == {i \in OfProject(p) : left(i) = {}}
<1>1. Placed(components, ids, DOMAIN associations) /\ ids \in Nat
  BY DEF ProjectsInv, Placed
<1>2. g = [i \in DOMAIN components \ gone |->
             IF i \in OfProject(p) /\ left(i) # components[i].members
             THEN Component(p, left(i), components[i].version + 1)
             ELSE components[i]]
  BY DEF WithoutScope
<1> HIDE DEF g
<1>3. DOMAIN g = DOMAIN components \ gone
  BY <1>2
<1>4. ASSUME NEW i \in DOMAIN g
      PROVE  /\ i \in DOMAIN components /\ g[i] \in ComponentRow
             /\ g[i].project = components[i].project
             /\ g[i].members = IF components[i].project = p THEN left(i)
                               ELSE components[i].members
             /\ g[i].members # {} /\ Same(g[i], components[i])
  <2>1. i \in DOMAIN components /\ (components[i].project = p => left(i) # {})
    BY <1>3, <1>4 DEF OfProject
  <2>2. /\ components[i] \in ComponentRow /\ components[i].members # {}
        /\ components[i].project \in Projects /\ components[i].version \in Nat
        /\ components[i].members \in SUBSET (Scopes \X (0..MaxDepth))
    BY <2>1, ComponentAt
  <2>3. CASE components[i].project = p /\ left(i) # components[i].members
    <3> DEFINE row == Component(p, left(i), components[i].version + 1)
    <3>1. g[i] = row
      BY <1>2, <1>3, <1>4, <2>1, <2>3 DEF OfProject
    <3>2. /\ p \in Projects /\ left(i) \in SUBSET (Scopes \X (0..MaxDepth))
          /\ components[i].version + 1 \in Nat
      BY <2>2, <2>3
    <3>3. /\ row \in ComponentRow /\ row.project = p /\ row.members = left(i)
          /\ row.version = components[i].version + 1
      <4> HIDE DEF left
      <4>. QED  BY <3>2, ComponentIs
    <3> HIDE DEF row
    <3>4. Same(g[i], components[i])
      BY <2>2, <3>1, <3>3 DEF Same
    <3>. QED  BY <2>1, <2>3, <3>1, <3>3, <3>4
  <2>4. CASE ~ (components[i].project = p /\ left(i) # components[i].members)
    <3>1. g[i] = components[i]
      BY <1>2, <1>3, <1>4, <2>1, <2>4 DEF OfProject
    <3>. QED  BY <2>1, <2>2, <2>4, <3>1 DEF Same
  <2>. QED  BY <2>3, <2>4
<1>5. \A i \in DOMAIN g : g[i].members \subseteq components[i].members
  BY <1>4
<1>6. Placed(g, ids, DOMAIN associations \ {<<p, s>>})
  <2>1. g \in [DOMAIN g -> ComponentRow]
    <3>1. g = [i \in DOMAIN g |-> g[i]]
      BY <1>2
    <3> HIDE DEF left
    <3>. QED  BY <1>4, <3>1
  <2>2. Filled(g)
    BY <1>4 DEF Filled
  <2>3. Apart(g)
    BY <1>1, <1>4, <1>5 DEF Placed, Apart
  <2>4. Rooted(g, DOMAIN associations \ {<<p, s>>})
    <3>1. ASSUME NEW i \in DOMAIN g, NEW m \in g[i].members
          PROVE  /\ <<g[i].project, m[1]>> \in DOMAIN associations
                 /\ <<g[i].project, m[1]>> # <<p, s>>
      BY <1>1, <1>4, <1>5, <3>1 DEF Placed, Rooted
    <3>. QED  BY <3>1 DEF Rooted
  <2>5. DOMAIN g \subseteq 1..ids
    BY <1>1, <1>3 DEF Placed
  <2>. QED  BY <1>1, <2>1, <2>2, <2>3, <2>4, <2>5 DEF Placed
<1>7. Later(components, g, ids)
  BY <1>4 DEF Later
<1>8. ASSUME NEW q, NEW t, <<q, t>> # <<p, s>>, Holds(components, q, t)
      PROVE  Holds(g, q, t)
  <2>1. PICK i \in DOMAIN components : components[i].project = q
                                     /\ \E m \in components[i].members : m[1] = t
    BY <1>8 DEF Holds
  <2>2. PICK m \in components[i].members : m[1] = t
    BY <2>1
  <2>3. i \notin gone
    BY <1>8, <2>1, <2>2 DEF OfProject
  <2>4. i \in DOMAIN g
    BY <1>3, <2>3
  <2>5. m \in g[i].members /\ g[i].project = q
    BY <1>4, <1>8, <2>1, <2>2, <2>4
  <2>. QED  BY <2>2, <2>4, <2>5 DEF Holds
<1>. QED  BY <1>6, <1>7, <1>8 DEF g

LEMMA Removing ==
    ASSUME ProjectsInv, NEW p \in Projects, NEW s \in Scopes, NEW e \in Nat,
           RemoveAssociation(p, s, e)
    PROVE  ProjectsInv'
<1> DEFINE k == <<p, s>>
<1>1. /\ UNCHANGED <<projects, ids, view>> /\ k \in DOMAIN associations
      /\ associations[k].version = e /\ components' = WithoutScope(p, s)
      /\ associations' = Restrict(associations, DOMAIN associations \ {k})
      /\ retired' = Put(retired, k, e)
  BY DEF RemoveAssociation, Removed
<1>2. /\ projects \subseteq Projects /\ DOMAIN associations \subseteq projects \X Scopes
      /\ associations \in [DOMAIN associations -> AssociationRow]
      /\ DOMAIN retired \subseteq Projects \X Scopes /\ retired \in [DOMAIN retired -> Nat]
      /\ ids \in Nat
  BY DEF ProjectsInv, AssociationTypes, Placed
<1>3. /\ DOMAIN associations' = DOMAIN associations \ {k}
      /\ associations' = [x \in DOMAIN associations' |-> associations'[x]]
      /\ \A x \in DOMAIN associations' : associations'[x] = associations[x]
  BY <1>1 DEF Restrict
<1>4. /\ DOMAIN retired' = DOMAIN retired \cup {k} /\ retired'[k] = e
      /\ retired' = [x \in DOMAIN retired' |-> retired'[x]]
      /\ \A x \in DOMAIN retired : x # k => retired'[x] = retired[x]
  BY <1>1 DEF Put
<1>5. AssociationTypes'
  <2>1. k \in Projects \X Scopes
    OBVIOUS
  <2> HIDE DEF k
  <2>2. associations' \in [DOMAIN associations' -> AssociationRow]
    BY <1>2, <1>3
  <2>3. retired' \in [DOMAIN retired' -> Nat]
    BY <1>2, <1>4
  <2>. QED  BY <1>1, <1>2, <1>3, <1>4, <2>1, <2>2, <2>3 DEF AssociationTypes
<1>6. Counted'
  BY <1>3, <1>4 DEF ProjectsInv, Counted
<1>7. AssociationSeen'
  <2>1. ASSUME view.kind = "association"
        PROVE  /\ view.record \in AssociationRow
               /\ IF view.key \in DOMAIN associations'
                    THEN Same(associations'[view.key], view.record)
                    ELSE /\ view.key \in DOMAIN retired'
                         /\ retired'[view.key] >= view.record.version
    <3> DEFINE x == view.key  r == view.record
    <3>1. /\ r \in AssociationRow
          /\ IF x \in DOMAIN associations THEN Same(associations[x], r)
             ELSE x \in DOMAIN retired /\ retired[x] >= r.version
      BY <2>1 DEF ProjectsInv, AssociationSeen
    <3> HIDE DEF x, r
    <3>2. r.version \in Nat
      BY <3>1 DEF AssociationRow
    <3>3. CASE x = k
      <4>1. e >= r.version
        BY <1>1, <3>1, <3>2, <3>3 DEF Same
      <4>. QED  BY <1>3, <1>4, <3>1, <3>3, <4>1 DEF x, r
    <3>4. CASE x # k /\ x \in DOMAIN associations
      BY <1>3, <3>1, <3>4 DEF x, r
    <3>5. CASE x # k /\ x \notin DOMAIN associations
      BY <1>3, <1>4, <3>1, <3>5 DEF x, r
    <3>. QED  BY <3>3, <3>4, <3>5
  <2>. QED  BY <1>1, <2>1 DEF AssociationSeen
<1>8. \A q, t : Confirmed(q, t)' => Confirmed(q, t) /\ <<q, t>> # k
  BY <1>3 DEF Confirmed
<1>9. SharingKnown'
  <2>1. SUFFICES ASSUME NEW q \in projects, NEW t \in Scopes, NEW r \in projects \ {q},
                        Confirmed(q, t)', Confirmed(r, t)'
                 PROVE  \/ r \in associations'[<<q, t>>].acknowledged
                        \/ q \in associations'[<<r, t>>].acknowledged
    BY <1>1 DEF SharingKnown, Sharing
  <2>2. Confirmed(q, t) /\ Confirmed(r, t)
    BY <1>8, <2>1
  <2>3. \/ r \in associations[<<q, t>>].acknowledged
        \/ q \in associations[<<r, t>>].acknowledged
    BY <2>1, <2>2 DEF ProjectsInv, SharingKnown, Sharing
  <2>4. <<q, t>> \in DOMAIN associations' /\ <<r, t>> \in DOMAIN associations'
    BY <2>1 DEF Confirmed
  <2>. QED  BY <1>3, <2>3, <2>4
<1>10. /\ Placed(components', ids, DOMAIN associations \ {k})
       /\ Later(components, components', ids)
       /\ \A q, t : <<q, t>> # k /\ Holds(components, q, t) => Holds(components', q, t)
  BY <1>1, ScopeLeaves
<1>11. Placed(components', ids', DOMAIN associations')
  BY <1>1, <1>3, <1>10
<1>12. ComponentSeen'
  BY <1>1, <1>2, <1>10, <1>11, SeenAfter
<1>13. Formed'
  BY <1>8, <1>10 DEF ProjectsInv, Formed
<1>. QED  BY <1>5, <1>6, <1>7, <1>9, <1>11, <1>12, <1>13 DEF ProjectsInv

LEMMA Suggesting ==
    ASSUME ProjectsInv, NEW links, SuggestAssociations(links)
    PROVE  ProjectsInv'
<1> DEFINE new == {k \in projects \X Scopes :
                     /\ k \notin DOMAIN associations
                     /\ \E link \in links : link[2] = k[2] /\ Confirmed(k[1], link[1])}
           row(k) == Association("suggested", FirstVersion(k[1], k[2]), {})
<1>1. /\ UNCHANGED <<projects, retired, components, ids, view>>
      /\ associations' = [k \in new \cup DOMAIN associations |->
                             IF k \in new THEN row(k) ELSE associations[k]]
  BY DEF SuggestAssociations
<1>2. /\ projects \subseteq Projects /\ DOMAIN associations \subseteq projects \X Scopes
      /\ associations \in [DOMAIN associations -> AssociationRow]
      /\ DOMAIN retired \subseteq Projects \X Scopes /\ retired \in [DOMAIN retired -> Nat]
  BY DEF ProjectsInv, AssociationTypes
<1>3. /\ new \subseteq projects \X Scopes /\ \A k \in new : k \notin DOMAIN associations
  OBVIOUS
<1>4. ASSUME NEW k \in new
      PROVE  /\ row(k) \in AssociationRow /\ row(k).state = "suggested"
             /\ k \in DOMAIN retired => row(k).version > retired[k]
  <2>1. k = <<k[1], k[2]>>
    BY <1>3
  <2>2. k \in DOMAIN retired => retired[k] \in Nat
    BY <1>2
  <2>3. FirstVersion(k[1], k[2]) = (IF k \in DOMAIN retired THEN retired[k] ELSE 0) + 1
    BY <2>1 DEF FirstVersion, Retired
  <2>. QED  BY <2>2, <2>3 DEF Association, AssociationRow
<1> HIDE DEF new, row
<1>5. /\ DOMAIN associations' = new \cup DOMAIN associations
      /\ associations' = [k \in DOMAIN associations' |-> associations'[k]]
      /\ \A k \in new : associations'[k] = row(k)
      /\ \A k \in DOMAIN associations : associations'[k] = associations[k]
  BY <1>1, <1>3
<1>6. AssociationTypes'
  <2>1. \A k \in DOMAIN associations' : associations'[k] \in AssociationRow
    BY <1>2, <1>4, <1>5
  <2>2. associations' \in [DOMAIN associations' -> AssociationRow]
    BY <1>5, <2>1
  <2>. QED  BY <1>1, <1>2, <1>3, <1>5, <2>2 DEF AssociationTypes
<1>7. \A q, t : Confirmed(q, t)' <=> Confirmed(q, t)
  <2>1. ASSUME NEW q, NEW t, Confirmed(q, t)'
        PROVE  Confirmed(q, t)
    <3>1. <<q, t>> \notin new
      BY <1>4, <1>5, <2>1 DEF Confirmed
    <3>. QED  BY <1>5, <2>1, <3>1 DEF Confirmed
  <2>2. ASSUME NEW q, NEW t, Confirmed(q, t)
        PROVE  Confirmed(q, t)'
    BY <1>5, <2>2 DEF Confirmed
  <2>. QED  BY <2>1, <2>2
<1>8. SharingKnown'
  <2>1. SUFFICES ASSUME NEW q \in projects, NEW t \in Scopes, NEW r \in projects \ {q},
                        Confirmed(q, t)', Confirmed(r, t)'
                 PROVE  \/ r \in associations'[<<q, t>>].acknowledged
                        \/ q \in associations'[<<r, t>>].acknowledged
    BY <1>1 DEF SharingKnown, Sharing
  <2>2. Confirmed(q, t) /\ Confirmed(r, t)
    BY <1>7, <2>1
  <2>3. \/ r \in associations[<<q, t>>].acknowledged
        \/ q \in associations[<<r, t>>].acknowledged
    BY <2>1, <2>2 DEF ProjectsInv, SharingKnown, Sharing
  <2>4. <<q, t>> \in DOMAIN associations /\ <<r, t>> \in DOMAIN associations
    BY <2>2 DEF Confirmed
  <2>. QED  BY <1>5, <2>3, <2>4
<1>9. Formed'
  BY <1>1, <1>7 DEF ProjectsInv, Formed
<1>10. /\ Placed(components', ids', DOMAIN associations') /\ ids' \in Nat /\ ids <= ids'
  BY <1>1, <1>5 DEF ProjectsInv, Placed, Rooted
<1>11. Later(components, components', ids)
  BY <1>1, SameComponents
<1>12. \A k \in DOMAIN associations : Same(associations'[k], associations[k])
  BY <1>5 DEF Same
<1>13. \A k \in DOMAIN associations' \ DOMAIN associations :
          k \in DOMAIN retired => associations'[k].version > retired[k]
  BY <1>4, <1>5
<1>. QED  BY <1>1, <1>5, <1>6, <1>8, <1>9, <1>10, <1>11, <1>12, <1>13, AssociationsMove

LEMMA Creating ==
    ASSUME ProjectsInv, NEW p \in Projects, CreateProject(p)
    PROVE  ProjectsInv'
<1>1. /\ p \notin projects /\ projects' = projects \cup {p}
      /\ UNCHANGED <<associations, retired, components, ids, view>>
  BY DEF CreateProject, Created
<1>2. AssociationTypes'
  BY <1>1 DEF ProjectsInv, AssociationTypes
<1>3. Counted' /\ AssociationSeen' /\ ComponentSeen' /\ Formed'
      /\ Placed(components', ids', DOMAIN associations')
  BY <1>1 DEF ProjectsInv, Counted, AssociationSeen, ComponentSeen, Formed, Confirmed
<1>4. SharingKnown'
  <2>1. \A q, t : (Confirmed(q, t)' <=> Confirmed(q, t)) /\ (Confirmed(q, t) => q \in projects)
    BY <1>1 DEF Confirmed, ProjectsInv, AssociationTypes
  <2>2. SUFFICES ASSUME NEW q \in projects', NEW t \in Scopes, NEW r \in projects' \ {q},
                        Confirmed(q, t)', Confirmed(r, t)'
                 PROVE  \/ r \in associations'[<<q, t>>].acknowledged
                        \/ q \in associations'[<<r, t>>].acknowledged
    BY DEF SharingKnown, Sharing
  <2>. QED  BY <1>1, <2>1, <2>2 DEF ProjectsInv, SharingKnown, Sharing
<1>. QED  BY <1>2, <1>3, <1>4 DEF ProjectsInv

LEMMA Reading ==
    ASSUME ProjectsInv, Read
    PROVE  ProjectsInv'
<1>1. UNCHANGED <<projects, associations, retired, components, ids>>
  BY DEF Read
<1>2. /\ AssociationTypes' /\ Counted' /\ SharingKnown' /\ Formed'
      /\ Placed(components', ids', DOMAIN associations')
  BY <1>1 DEF ProjectsInv, AssociationTypes, Counted, SharingKnown, Sharing, Confirmed, Formed
<1>3. AssociationSeen' /\ ComponentSeen'
  <2>1. ASSUME NEW k \in DOMAIN associations,
               view' = [kind |-> "association", key |-> k, record |-> associations[k]]
        PROVE  AssociationSeen' /\ ComponentSeen'
    <3>1. associations[k] \in AssociationRow
      BY DEF ProjectsInv, AssociationTypes
    <3>. QED  BY <1>1, <2>1, <3>1 DEF AssociationSeen, ComponentSeen, Same
  <2>2. ASSUME NEW c \in DOMAIN components,
               view' = [kind |-> "component", key |-> c, record |-> components[c]]
        PROVE  AssociationSeen' /\ ComponentSeen'
    <3>1. components[c] \in ComponentRow /\ c \in 1..ids
      BY ComponentAt
    <3>. QED  BY <1>1, <2>2, <3>1 DEF AssociationSeen, ComponentSeen, Same
  <2>. QED  BY <2>1, <2>2 DEF Read
<1>. QED  BY <1>2, <1>3 DEF ProjectsInv

LEMMA ProjectsInductive ==
    /\ ProjectsInit => ProjectsInv
    /\ ProjectsInv /\ [ProjectsNext]_projectVars => ProjectsInv'
<1>1. ASSUME ProjectsInit
      PROVE  ProjectsInv
  <2> DEFINE none == <<>>
  <2>1. DOMAIN none = {} /\ \A S : none \in [{} -> S]
    OBVIOUS
  <2> HIDE DEF none
  <2>2. /\ projects = {} /\ associations = none /\ retired = none
        /\ components = none /\ ids = 0 /\ view.kind = "none"
    BY <1>1 DEF ProjectsInit, none
  <2>3. AssociationTypes /\ Counted /\ SharingKnown
    BY <2>1, <2>2 DEF AssociationTypes, Counted, SharingKnown
  <2>4. AssociationSeen /\ ComponentSeen
    BY <2>2 DEF AssociationSeen, ComponentSeen
  <2>5. Placed(components, ids, DOMAIN associations)
    BY <2>1, <2>2 DEF Placed, Filled, Apart, Rooted
  <2>6. Formed
    BY <2>1, <2>2 DEF Formed, Confirmed
  <2>. QED  BY <2>3, <2>4, <2>5, <2>6 DEF ProjectsInv
<1>2. ASSUME ProjectsInv, ProjectsNext
      PROVE  ProjectsInv'
  <2>1. ASSUME NEW p \in Projects, CreateProject(p)
        PROVE  ProjectsInv'
    BY <1>2, <2>1, Creating
  <2>2. CASE Read
    BY <1>2, <2>2, Reading
  <2>3. ASSUME NEW p \in Projects, NEW s \in Scopes, NEW known \in SUBSET (Projects \ {p}),
               AssociateSource(p, s, known)
        PROVE  ProjectsInv'
    <3>1. known \in SUBSET Projects
      OBVIOUS
    <3>. QED  BY <1>2, <2>3, <3>1, Associating
  <2>4. ASSUME NEW p \in Projects, NEW s \in Scopes, NEW known \in SUBSET (Projects \ {p}),
               NEW v \in 1..MaxVersion, ConfirmAssociation(p, s, v, known)
        PROVE  ProjectsInv'
    <3>1. known \in SUBSET Projects /\ v \in Nat
      BY ProjectsAssumption
    <3>. QED  BY <1>2, <2>4, <3>1, ConfirmingSuggested
  <2>5. ASSUME NEW p \in Projects, NEW s \in Scopes, NEW v \in 1..MaxVersion,
               RemoveAssociation(p, s, v)
        PROVE  ProjectsInv'
    <3>1. v \in Nat
      BY ProjectsAssumption
    <3>. QED  BY <1>2, <2>5, <3>1, Removing
  <2>6. ASSUME NEW links \in SUBSET (Scopes \X Scopes), SuggestAssociations(links)
        PROVE  ProjectsInv'
    BY <1>2, <2>6, Suggesting
  <2>7. ASSUME NEW c \in DOMAIN components, NEW v \in 1..MaxVersion,
               NEW m \in Scopes \X (0..MaxDepth), NEW source \in DOMAIN components,
               NEW w \in 1..MaxVersion, AssignComponent(c, v, m, source, w)
        PROVE  ProjectsInv'
    BY <1>2, <2>7, Assigning
  <2>8. ASSUME NEW c \in DOMAIN components, NEW v \in 1..MaxVersion,
               NEW s \in Scopes, NEW d \in 1..MaxDepth, SplitComponent(c, v, s, d)
        PROVE  ProjectsInv'
    BY <1>2, <2>8, Splitting
  <2>9. ASSUME NEW cs \in SUBSET DOMAIN components, NEW first \in cs, NEW expected,
               MergeComponents(first, cs, expected)
        PROVE  ProjectsInv'
    BY <1>2, <2>9, Merging
  <2>. QED  BY <1>2, <2>1, <2>2, <2>3, <2>4, <2>5, <2>6, <2>7, <2>8, <2>9 DEF ProjectsNext
<1>3. ASSUME ProjectsInv, UNCHANGED projectVars
      PROVE  ProjectsInv'
  BY <1>3 DEF projectVars, ProjectsInv, AssociationTypes, Counted, AssociationSeen,
     ComponentSeen, SharingKnown, Sharing, Confirmed, Formed
<1>. QED  BY <1>1, <1>2, <1>3

(* Some number of a set is the least one, and of some up to n one is the   *)
(* greatest.                                                               *)
LEMMA Least ==
  ASSUME NEW S \in SUBSET Nat, S # {}
  PROVE  \E m \in S : \A k \in S : m <= k
<1>. S \subseteq Nat
  OBVIOUS
<1>1. PICK R : IsWellFoundedOn(R, Nat) /\ \A x, y \in Nat : <<x, y>> \in R <=> x < y
  <2>1. \A x, y \in Nat : <<x, y>> \in OpToRel(<, Nat) <=> x < y
    BY Zenon DEF OpToRel
  <2>. QED  BY <2>1, NatLessThanWellFounded, Zenon
<1>2. \A x, y \in Nat : <<x, y>> \in R <=> x < y
  BY <1>1
<1>3. PICK m \in S : \A k \in S : ~ (<<k, m>> \in R)
  <2>1. IsWellFoundedOn(R, Nat)
    BY <1>1
  <2>. QED  BY <2>1, WFMin, Zenon
<1>4. \A k \in S : ~ (k < m)
  BY <1>2, <1>3
<1>. QED  BY <1>4

LEMMA Greatest ==
    ASSUME NEW n \in Nat, NEW S \in SUBSET (0..n), S # {}
    PROVE  \E m \in S : \A k \in S : k <= m
<1> DEFINE T == {n - k : k \in S}
<1>1. T \in SUBSET Nat /\ T # {}
  <2>1. \A k \in S : n - k \in Nat
    OBVIOUS
  <2>. QED  BY <2>1
<1> HIDE DEF T
<1>2. PICK x \in T : \A y \in T : x <= y
  BY <1>1, Least
<1>3. PICK m \in S : x = n - m
  BY DEF T
<1>4. ASSUME NEW k \in S
      PROVE  k <= m
  <2>1. n - k \in T
    BY DEF T
  <2>2. n - m <= n - k
    BY <1>2, <1>3, <2>1
  <2>. QED  BY <2>2
<1>. QED  BY <1>4

(* The members decide where a document belongs: of the components with a   *)
(* directory over its own, the one with the deepest.                       *)
LEMMA ResolvedIs ==
    ASSUME ProjectsInv, NEW p, NEW s \in Scopes, NEW d \in 0..MaxDepth
    PROVE  /\ Cardinality(Resolved(p, s, d)) <= 1
           /\ Holds(components, p, s) => Resolved(p, s, MaxDepth) # {}
<1>1. ASSUME NEW i \in OfProject(p)
      PROVE  i \in DOMAIN components /\ components[i].project = p
             /\ components[i].members \in SUBSET (Scopes \X (0..MaxDepth))
  BY ComponentAt DEF OfProject
<1>2. ASSUME NEW i \in OfProject(p), NEW e \in 0..MaxDepth, NEW x \in Above(i, s, e)
      PROVE  x \in 0..MaxDepth /\ <<s, x>> \in components[i].members
  <2>1. PICK m \in components[i].members : m[1] = s /\ m[2] = x
    BY DEF Above
  <2>2. m \in Scopes \X (0..MaxDepth)
    BY <1>1
  <2>. QED  BY <2>1, <2>2
<1>3. ASSUME NEW i \in Resolved(p, s, d), NEW j \in Resolved(p, s, d)
      PROVE  i = j
  <2>1. PICK x \in Above(i, s, d) : \A e \in Above(j, s, d) : e <= x
    BY <1>3 DEF Resolved
  <2>2. PICK y \in Above(j, s, d) : \A e \in Above(i, s, d) : e <= y
    BY <1>3 DEF Resolved
  <2>3. i \in OfProject(p) /\ j \in OfProject(p)
    BY <1>3 DEF Resolved
  <2>4. /\ x \in 0..MaxDepth /\ <<s, x>> \in components[i].members
        /\ y \in 0..MaxDepth /\ <<s, y>> \in components[j].members
    BY <1>2, <2>3
  <2>5. x = y
    BY <2>1, <2>2, <2>4, ProjectsAssumption
  <2>6. components[i].members \cap components[j].members # {}
    BY <2>4, <2>5
  <2>. QED  BY <1>1, <2>3, <2>6 DEF ProjectsInv, Placed, Apart
<1>4. Cardinality(Resolved(p, s, d)) <= 1
  <2>1. CASE Resolved(p, s, d) = {}
    BY <2>1, FS_EmptySet
  <2>2. CASE Resolved(p, s, d) # {}
    <3>1. PICK i : Resolved(p, s, d) = {i}
      BY <1>3, <2>2
    <3>2. Cardinality({i}) = 1
      BY FS_Singleton
    <3>. QED  BY <3>1, <3>2
  <2>. QED  BY <2>1, <2>2
<1>5. ASSUME Holds(components, p, s)
      PROVE  Resolved(p, s, MaxDepth) # {}
  <2> DEFINE depths == UNION {Above(i, s, MaxDepth) : i \in OfProject(p)}
  <2>1. depths \in SUBSET (0..MaxDepth)
    <3>1. MaxDepth \in 0..MaxDepth
      BY ProjectsAssumption
    <3>2. \A i \in OfProject(p) : Above(i, s, MaxDepth) \subseteq 0..MaxDepth
      BY <1>2, <3>1
    <3>. QED  BY <3>2
  <2>2. depths # {}
    <3>1. PICK i \in OfProject(p) : \E m \in components[i].members : m[1] = s
      BY <1>5 DEF Holds, OfProject
    <3>2. PICK m \in components[i].members : m[1] = s
      BY <3>1
    <3>3. m \in Scopes \X (0..MaxDepth)
      BY <1>1
    <3>4. m[2] <= MaxDepth
      BY <3>3, ProjectsAssumption
    <3>5. m[2] \in Above(i, s, MaxDepth)
      BY <3>2, <3>4 DEF Above
    <3>. QED  BY <3>5
  <2>3. PICK x \in depths : \A e \in depths : e <= x
    <3> HIDE DEF depths
    <3>. QED  BY <2>1, <2>2, Greatest, ProjectsAssumption
  <2>4. PICK i \in OfProject(p) : x \in Above(i, s, MaxDepth)
    OBVIOUS
  <2>5. i \in Resolved(p, s, MaxDepth)
    BY <2>3, <2>4 DEF Resolved
  <2>. QED  BY <2>5
<1>. QED  BY <1>4, <1>5

LEMMA ViewsOfInv == ProjectsInv => ViewsHonest
<1> SUFFICES ASSUME ProjectsInv
             PROVE  ViewsHonest
  OBVIOUS
<1>1. ASSUME view.kind = "association"
      PROVE  AsRead(associations)
  <2> DEFINE k == view.key  r == view.record
  <2>1. SUFFICES ASSUME k \in DOMAIN associations, associations[k].version = r.version
                 PROVE  associations[k] = r
    BY DEF AsRead
  <2>2. Same(associations[k], r) /\ r \in AssociationRow
    BY <1>1, <2>1 DEF ProjectsInv, AssociationSeen
  <2> HIDE DEF k, r
  <2>3. r.version \in Nat
    BY <2>2 DEF AssociationRow
  <2>. QED  BY <2>1, <2>2, <2>3 DEF Same
<1>2. ASSUME view.kind = "component"
      PROVE  AsRead(components)
  <2> DEFINE k == view.key  r == view.record
  <2>1. SUFFICES ASSUME k \in DOMAIN components, components[k].version = r.version
                 PROVE  components[k] = r
    BY DEF AsRead
  <2>2. Same(components[k], r) /\ r \in ComponentRow
    BY <1>2, <2>1 DEF ProjectsInv, ComponentSeen
  <2> HIDE DEF k, r
  <2>3. r.version \in Nat
    BY <2>2 DEF ComponentRow
  <2>. QED  BY <2>1, <2>2, <2>3 DEF Same
<1>. QED  BY <1>1, <1>2 DEF ViewsHonest

LEMMA PlacedOfInv == ProjectsInv => PlacedOnce
<1> SUFFICES ASSUME ProjectsInv
             PROVE  PlacedOnce
  OBVIOUS
<1>1. /\ \A c \in DOMAIN components : components[c].members # {}
      /\ \A c \in DOMAIN components : \A m \in components[c].members :
            <<components[c].project, m[1]>> \in DOMAIN associations
  BY DEF ProjectsInv, Placed, Filled, Rooted
<1>2. ASSUME NEW p \in projects, NEW s \in Scopes, Confirmed(p, s)
      PROVE  /\ \A d \in 0..MaxDepth : Cardinality(Resolved(p, s, d)) <= 1
             /\ s \in Forming => Resolved(p, s, MaxDepth) # {}
  <2>1. p \in Projects /\ MaxDepth \in 0..MaxDepth
    BY ProjectsAssumption DEF ProjectsInv, AssociationTypes
  <2>2. s \in Forming => Holds(components, p, s)
    BY <1>2, <2>1 DEF ProjectsInv, Formed
  <2>. QED  BY <2>1, <2>2, ResolvedIs
<1>. QED  BY <1>1, <1>2 DEF PlacedOnce

(* A request about a project that names the version its author has read    *)
(* finds what was read or fails; of two projects with one confirmed scope  *)
(* the later one named the earlier one; a document of a confirmed scope    *)
(* belongs to one component of the project at most (operators of a         *)
(* workspace, src/infrastructure/project/sql_store.py).                    *)
THEOREM ProjectsAgree == ProjectsSpec => []OperatorsAgree
<1>1. ProjectsInv => OperatorsAgree
  BY ViewsOfInv, PlacedOfInv DEF OperatorsAgree, ProjectsInv
<1>. QED  BY <1>1, ProjectsInductive, PTL DEF ProjectsSpec

-----------------------------------------------------------------------------
(* A walk of folders: what is to be walked leads on to all that is reached *)
(* and to nothing else, and of a walked folder the files are listed that   *)
(* stayed in it, except for the one whose pages are still coming.          *)
Queued == Range(todo)
Entered(d) == page # {} /\ todo # <<>> /\ d = Head(todo)
WalkShapes ==
    /\ selection \in [folders : SUBSET Folders, files : SUBSET Files, down : BOOLEAN]
    /\ places \in [Files -> SUBSET Folders]
    /\ todo \in Seq(Folders) /\ visited \subseteq Folders
    /\ page \subseteq Files \cup Folders /\ rest \subseteq selection.files
    /\ documents \subseteq Files /\ moved \subseteq Files
WalkInv ==
    /\ WalkShapes
    /\ page # {} => todo # <<>> /\ Head(todo) \in visited /\ page \cap Files \subseteq documents
    /\ Queued \cup visited \subseteq Reached
    /\ selection.folders \subseteq visited \cup Queued
    /\ \A d \in visited : Below(d) \subseteq visited \cup Queued \/ Entered(d)
    /\ \A d \in visited, f \in Files \ moved :
         d \in places[f] => f \in documents \/ Entered(d)
    /\ \A f \in documents \ moved :
         places[f] \cap Reached # {} \/ (f \in selection.files /\ places[f] # {})
    /\ \A f \in selection.files \ (rest \cup moved) : places[f] # {} => f \in documents
    /\ walk = "walked" => todo = <<>> /\ rest = {}

LEMMA SeqsOfSet ==
    ASSUME NEW S, IsFiniteSet(S), NEW s \in SetToSeqs(S)
    PROVE  s \in Seq(S) /\ Range(s) = S
<1> DEFINE n == Cardinality(S)
<1>1. n \in Nat
  BY FS_CardinalityType
<1>2. s \in [1..n -> S] /\ \A i, j \in 1..n : i # j => s[i] # s[j]
  BY Zenon DEF SetToSeqs
<1>3. s \in Injection(1..n, S)
  BY <1>2 DEF Injection, IsInjective
<1>4. Cardinality(1..n) = n
  BY <1>1, FS_Interval
<1>5. s \in Surjection(1..n, S)
  <2> HIDE DEF n
  <2>1. Cardinality(1..n) = Cardinality(S) <=> s \in Surjection(1..n, S)
    BY <1>3, FS_Injection
  <2>. QED  BY <1>4, <2>1 DEF n
<1>6. Range(s) = S
  <2> HIDE DEF n
  <2>. QED  BY <1>2, <1>5 DEF Surjection, Range
<1>7. s \in Seq(S)
  <2> HIDE DEF n
  <2>. QED  BY <1>1, <1>2
<1>. QED  BY <1>6, <1>7

LEMMA ReachedClosed ==
    ASSUME WalkShapes
    PROVE  /\ Closed(Reached) /\ Reached \subseteq Folders
           /\ \A S \in SUBSET Folders : Closed(S) => Reached \subseteq S
           /\ \A d \in Folders : Below(d) \subseteq Folders
<1>1. \A d \in Folders : Below(d) \subseteq Folders
  BY DriveWalkAssumption DEF Below
<1>2. selection.folders \subseteq Folders
  BY DEF WalkShapes
<1>3. selection.folders \subseteq Reached
  BY <1>2 DEF Reached, Closed
<1>4. ASSUME NEW d \in Reached, NEW e \in Below(d)
      PROVE  e \in Reached
  <2>1. d \in Folders /\ e \in Folders
    BY <1>1, <1>4 DEF Reached
  <2>2. ASSUME NEW S \in SUBSET Folders, Closed(S)
        PROVE  e \in S
    <3>1. d \in S
      BY <2>2, <1>4 DEF Reached
    <3>. QED  BY <2>2, <3>1, <1>4 DEF Closed
  <2>. QED  BY <2>1, <2>2 DEF Reached
<1>5. Closed(Reached)
  BY <1>3, <1>4 DEF Closed
<1>. QED  BY <1>1, <1>5 DEF Reached

LEMMA HeadOfQueue ==
    ASSUME todo \in Seq(Folders), todo # <<>>
    PROVE  /\ Queued = {Head(todo)} \cup Range(Tail(todo))
           /\ Tail(todo) \in Seq(Folders) /\ Head(todo) \in Folders
<1>1. /\ Head(todo) \in Folders /\ Tail(todo) \in Seq(Folders) /\ Len(todo) \in Nat \ {0}
      /\ Len(Tail(todo)) = Len(todo) - 1 /\ Head(todo) = todo[1]
      /\ DOMAIN todo = 1..Len(todo) /\ DOMAIN Tail(todo) = 1..(Len(todo) - 1)
      /\ \A i \in 1..(Len(todo) - 1) : Tail(todo)[i] = todo[i + 1]
  BY HeadTailProperties
<1>2. ASSUME NEW d \in Queued
      PROVE  d \in {Head(todo)} \cup Range(Tail(todo))
  <2>1. PICK i \in 1..Len(todo) : d = todo[i]
    BY <1>1, <1>2 DEF Queued, Range
  <2>2. CASE i = 1
    BY <1>1, <2>1, <2>2
  <2>3. CASE i # 1
    <3>1. i - 1 \in 1..(Len(todo) - 1) /\ (i - 1) + 1 = i
      BY <1>1, <2>3
    <3>2. Tail(todo)[i - 1] = d
      BY <1>1, <2>1, <3>1
    <3>. QED  BY <1>1, <3>1, <3>2 DEF Range
  <2>. QED  BY <2>2, <2>3
<1>3. ASSUME NEW d \in {Head(todo)} \cup Range(Tail(todo))
      PROVE  d \in Queued
  <2>1. CASE d = Head(todo)
    BY <1>1, <2>1 DEF Queued, Range
  <2>2. CASE d \in Range(Tail(todo))
    <3>1. PICK i \in 1..(Len(todo) - 1) : d = Tail(todo)[i]
      BY <1>1, <2>2 DEF Range
    <3>2. i + 1 \in 1..Len(todo) /\ d = todo[i + 1]
      BY <1>1, <3>1
    <3>. QED  BY <1>1, <3>2 DEF Queued, Range
  <2>. QED  BY <1>3, <2>1, <2>2
<1>. QED  BY <1>1, <1>2, <1>3

LEMMA QueuedBefore ==
    ASSUME NEW s \in Seq(Folders), NEW t \in Seq(Folders)
    PROVE  s \o t \in Seq(Folders) /\ Range(s \o t) = Range(s) \cup Range(t)
<1>1. /\ s \o t \in Seq(Folders) /\ Len(s \o t) = Len(s) + Len(t)
      /\ Len(s) \in Nat /\ Len(t) \in Nat
      /\ \A i \in 1..(Len(s) + Len(t)) : (s \o t)[i] = IF i <= Len(s) THEN s[i] ELSE t[i - Len(s)]
      /\ DOMAIN s = 1..Len(s) /\ DOMAIN t = 1..Len(t) /\ DOMAIN (s \o t) = 1..(Len(s) + Len(t))
  BY ConcatProperties
<1>2. ASSUME NEW d \in Range(s \o t)
      PROVE  d \in Range(s) \cup Range(t)
  <2>1. PICK i \in 1..(Len(s) + Len(t)) : d = (s \o t)[i]
    BY <1>1, <1>2 DEF Range
  <2>2. CASE i <= Len(s)
    <3>1. i \in 1..Len(s) /\ d = s[i]
      BY <1>1, <2>1, <2>2
    <3>. QED  BY <1>1, <3>1 DEF Range
  <2>3. CASE ~(i <= Len(s))
    <3>1. i - Len(s) \in 1..Len(t) /\ d = t[i - Len(s)]
      BY <1>1, <2>1, <2>3
    <3>. QED  BY <1>1, <3>1 DEF Range
  <2>. QED  BY <2>2, <2>3
<1>3. ASSUME NEW d \in Range(s)
      PROVE  d \in Range(s \o t)
  <2>1. PICK i \in 1..Len(s) : d = s[i]
    BY <1>1, <1>3 DEF Range
  <2>2. i \in 1..(Len(s) + Len(t)) /\ d = (s \o t)[i]
    BY <1>1, <2>1
  <2>. QED  BY <1>1, <2>2 DEF Range
<1>4. ASSUME NEW d \in Range(t)
      PROVE  d \in Range(s \o t)
  <2>1. PICK i \in 1..Len(t) : d = t[i]
    BY <1>1, <1>4 DEF Range
  <2>2. i + Len(s) \in 1..(Len(s) + Len(t)) /\ d = (s \o t)[i + Len(s)]
    BY <1>1, <2>1
  <2>. QED  BY <1>1, <2>2 DEF Range
<1>. QED  BY <1>1, <1>2, <1>3, <1>4

LEMMA WalkSame ==
    ASSUME WalkInv, UNCHANGED <<selection, places, todo, visited, page, rest, documents, moved>>,
           walk' = "walked" => todo = <<>> /\ rest = {}
    PROVE  WalkInv'
<1>1. Reached' = Reached /\ Queued' = Queued /\ \A d : (Below(d))' = Below(d)
  BY DEF Reached, Closed, Below, Queued
<1>2. WalkShapes' /\ \A d : (Entered(d))' = Entered(d)
  BY DEF WalkInv, WalkShapes, Entered
<1>. QED  BY <1>1, <1>2 DEF WalkInv

LEMMA LeaveKeeps ==
    ASSUME WalkInv, Leave
    PROVE  WalkInv'
<1>1. /\ walk = "walking" /\ todo # <<>> /\ Head(todo) \in visited /\ page = {}
      /\ todo' = Tail(todo)
      /\ UNCHANGED <<selection, places, visited, page, rest, documents, walk, moved>>
  BY DEF Leave, Skip, NoPage
<1>2. todo \in Seq(Folders)
  BY DEF WalkInv, WalkShapes
<1>3. Queued = {Head(todo)} \cup Queued' /\ todo' \in Seq(Folders)
  BY <1>1, <1>2, HeadOfQueue DEF Queued
<1>4. Reached' = Reached /\ \A d : (Below(d))' = Below(d)
  BY <1>1 DEF Reached, Closed, Below
<1>5. Queued \cup visited = Queued' \cup visited'
  BY <1>1, <1>3
<1>6. \A d : ~Entered(d) /\ ~(Entered(d))'
  BY <1>1 DEF Entered
<1>7. WalkShapes'
  BY <1>1, <1>3 DEF WalkInv, WalkShapes
<1>. QED  BY <1>1, <1>4, <1>5, <1>6, <1>7 DEF WalkInv

LEMMA PageKeeps ==
    ASSUME WalkInv, NEW given \in SUBSET Ahead, NextPage(given)
    PROVE  WalkInv'
<1> DEFINE d == Head(todo)
<1>1. /\ walk = "walking" /\ todo # <<>> /\ (d \in visited => page # {})
      /\ given # {} \/ Children(d) \subseteq page
      /\ visited' = visited \cup {d} /\ documents' = documents \cup (given \cap Files)
      /\ UNCHANGED <<selection, places, rest, walk, moved>>
  BY DEF NextPage, Skip, NoPage
<1>2. WalkShapes /\ todo \in Seq(Folders)
  BY DEF WalkInv, WalkShapes
<1>3. /\ Queued = {d} \cup Range(Tail(todo)) /\ Tail(todo) \in Seq(Folders) /\ d \in Folders
      /\ d \in Reached
  <2>1. Queued = {d} \cup Range(Tail(todo)) /\ Tail(todo) \in Seq(Folders) /\ d \in Folders
    BY <1>1, <1>2, HeadOfQueue
  <2>. QED  BY <2>1 DEF WalkInv
<1>4. Reached' = Reached /\ \A e : (Below(e))' = Below(e)
  BY <1>1 DEF Reached, Closed, Below
<1>5. given \subseteq Children(d)
  BY <1>1 DEF Ahead
<1>6. given \subseteq Files \cup Folders /\ \A f \in given \cap Files : d \in places[f]
  BY <1>3, <1>5, DriveWalkAssumption DEF Children
<1>7. \A f \in documents' \ moved' :
        places'[f] \cap Reached' # {} \/ (f \in selection'.files /\ places'[f] # {})
  <2>1. \A f \in given \cap Files : places[f] \cap Reached # {}
    BY <1>3, <1>6
  <2>. QED  BY <1>1, <1>4, <2>1 DEF WalkInv
<1>8. \A f \in Files : d \in places[f] => f \in Children(d)
  BY DEF Children
<1>9. CASE Children(d) \subseteq page \cup given
  <2>1. PICK below \in SetToSeqs(Below(d)) : todo' = below \o Tail(todo)
    BY <1>9 DEF NextPage
  <2>2. page' = {}
    BY <1>9 DEF NextPage, NoPage
  <2>3. below \in Seq(Folders) /\ Range(below) = Below(d)
    <3>1. Below(d) \subseteq Folders
      BY <1>2, <1>3, ReachedClosed
    <3>2. IsFiniteSet(Below(d))
      BY <3>1, DriveWalkAssumption, FS_Subset
    <3>3. below \in Seq(Below(d)) /\ Range(below) = Below(d)
      BY <3>2, SeqsOfSet
    <3>. QED  BY <3>1, <3>3
  <2>4. todo' \in Seq(Folders) /\ Queued' = Below(d) \cup Range(Tail(todo))
    BY <1>3, <2>1, <2>3, QueuedBefore DEF Queued
  <2>5. WalkShapes'
    BY <1>1, <1>2, <1>3, <2>2, <2>4 DEF WalkShapes
  <2>6. Queued' \cup visited' \subseteq Reached
    <3>1. Below(d) \subseteq Reached
      BY <1>2, <1>3, ReachedClosed DEF Closed
    <3>. QED  BY <1>1, <1>3, <2>4, <3>1 DEF WalkInv
  <2>7. visited \cup Queued \subseteq visited' \cup Queued'
    BY <1>1, <1>3, <2>4
  <2>8. \A e : ~(Entered(e))'
    BY <2>2 DEF Entered
  <2>9. \A e \in visited' : Below(e) \subseteq visited' \cup Queued'
    <3>1. ASSUME NEW e \in visited', e # d
          PROVE  Below(e) \subseteq visited' \cup Queued'
      <4>1. e \in visited /\ ~Entered(e)
        BY <1>1, <3>1 DEF Entered
      <4>2. Below(e) \subseteq visited \cup Queued
        BY <4>1 DEF WalkInv
      <4>. QED  BY <2>7, <4>2
    <3>. QED  BY <2>4, <3>1
  <2>10. \A e \in visited', f \in Files \ moved : e \in places[f] => f \in documents'
    <3>1. ASSUME NEW e \in visited', NEW f \in Files \ moved, e \in places[f], e # d
          PROVE  f \in documents'
      <4>1. e \in visited /\ ~Entered(e)
        BY <1>1, <3>1 DEF Entered
      <4>. QED  BY <1>1, <3>1, <4>1 DEF WalkInv
    <3>2. ASSUME NEW f \in Files \ moved, d \in places[f]
          PROVE  f \in documents'
      <4>1. f \in page \/ f \in given
        BY <1>8, <1>9, <3>2
      <4>2. f \in page => f \in documents
        BY DEF WalkInv
      <4>. QED  BY <1>1, <4>1, <4>2
    <3>. QED  BY <3>1, <3>2
  <2>. QED  BY <1>1, <1>4, <1>7, <2>2, <2>5, <2>6, <2>7, <2>8, <2>9, <2>10 DEF WalkInv
<1>10. CASE ~(Children(d) \subseteq page \cup given)
  <2>1. page' = page \cup given /\ todo' = todo /\ page' # {}
    BY <1>1, <1>10 DEF NextPage
  <2>2. WalkShapes'
    BY <1>1, <1>2, <1>3, <1>6, <2>1 DEF WalkShapes
  <2>3. Queued' = Queued /\ Queued' \cup visited' \subseteq Reached
    BY <1>1, <1>3, <2>1 DEF Queued, WalkInv
  <2>4. /\ (Entered(d))' /\ Head(todo') = d
        /\ \A e : Entered(e) => e = d
    BY <1>1, <2>1 DEF Entered
  <2>5. \A e \in visited' : Below(e) \subseteq visited' \cup Queued' \/ (Entered(e))'
    BY <1>1, <2>3, <2>4 DEF WalkInv
  <2>6. \A e \in visited', f \in Files \ moved :
          e \in places[f] => f \in documents' \/ (Entered(e))'
    BY <1>1, <2>4 DEF WalkInv
  <2>7. page' \cap Files \subseteq documents' /\ Head(todo') \in visited' /\ todo' # <<>>
    BY <1>1, <2>1, <2>4 DEF WalkInv
  <2>. QED  BY <1>1, <1>4, <1>7, <2>2, <2>3, <2>5, <2>6, <2>7 DEF WalkInv
<1>. QED  BY <1>9, <1>10

LEMMA LookKeeps ==
    ASSUME WalkInv, NEW f \in Files, LookAt(f)
    PROVE  WalkInv'
<1>1. /\ walk = "walking" /\ f \in rest /\ rest' = rest \ {f}
      /\ documents' = IF places[f] # {} THEN documents \cup {f} ELSE documents
      /\ UNCHANGED <<selection, places, todo, visited, page, walk, moved>>
  BY DEF LookAt
<1>2. Reached' = Reached /\ Queued' = Queued /\ \A d : (Below(d))' = Below(d)
  BY <1>1 DEF Reached, Closed, Below, Queued
<1>3. WalkShapes' /\ \A d : (Entered(d))' = Entered(d)
  BY <1>1 DEF WalkInv, WalkShapes, Entered
<1>4. f \in selection.files /\ documents \subseteq documents'
  BY <1>1 DEF WalkInv, WalkShapes
<1>. QED  BY <1>1, <1>2, <1>3, <1>4 DEF WalkInv

LEMMA MoveKeeps ==
    ASSUME WalkInv, NEW f \in Files, NEW where \in {{}} \cup {{d} : d \in Folders},
           MoveFile(f, where)
    PROVE  WalkInv'
<1>1. /\ walk = "walking" /\ places' = [places EXCEPT ![f] = where] /\ moved' = moved \cup {f}
      /\ UNCHANGED <<selection, todo, visited, page, rest, documents, walk>>
  BY DEF MoveFile
<1>2. Reached' = Reached /\ Queued' = Queued /\ \A d : (Below(d))' = Below(d)
  BY <1>1 DEF Reached, Closed, Below, Queued
<1>3. WalkShapes' /\ \A d : (Entered(d))' = Entered(d)
  BY <1>1 DEF WalkInv, WalkShapes, Entered
<1>4. \A g \in Files \ moved' : places'[g] = places[g] /\ g \in Files \ moved
  BY <1>1 DEF WalkInv, WalkShapes
<1>5. documents \subseteq Files /\ selection.files \subseteq Files
  BY DEF WalkInv, WalkShapes
<1>. QED  BY <1>1, <1>2, <1>3, <1>4, <1>5 DEF WalkInv

LEMMA WalkInductive ==
    /\ WalkInit => WalkInv
    /\ WalkInv /\ [WalkNext]_walkVars => WalkInv'
<1>1. ASSUME WalkInit
      PROVE  WalkInv
  <2>1. /\ selection \in [folders : SUBSET Folders, files : SUBSET Files, down : BOOLEAN]
        /\ places \in [Files -> SUBSET Folders] /\ visited = {} /\ page = {}
        /\ rest = selection.files /\ documents = {} /\ walk = "walking" /\ moved = {}
    BY <1>1 DEF WalkInit, NoPage
  <2>2. PICK order \in SetToSeqs(selection.folders) : todo = order
    BY <1>1 DEF WalkInit
  <2>3. selection.folders \subseteq Folders
    BY <2>1
  <2>4. IsFiniteSet(selection.folders)
    BY <2>3, DriveWalkAssumption, FS_Subset
  <2>5. todo \in Seq(selection.folders) /\ Queued = selection.folders
    BY <2>2, <2>4, SeqsOfSet DEF Queued
  <2>6. WalkShapes
    BY <2>1, <2>3, <2>5 DEF WalkShapes
  <2>7. Queued \subseteq Reached
    BY <2>5, <2>6, ReachedClosed DEF Closed
  <2>. QED  BY <2>1, <2>5, <2>6, <2>7 DEF WalkInv
<1>2. ASSUME WalkInv, Walked \/ WalkFails
      PROVE  WalkInv'
  BY <1>2, WalkSame DEF Walked, WalkFails
<1>3. ASSUME WalkInv, UNCHANGED walkVars
      PROVE  WalkInv'
  <2>1. walk = "walked" => todo = <<>> /\ rest = {}
    BY <1>3 DEF WalkInv
  <2>. QED  BY <1>3, <2>1, WalkSame DEF walkVars
<1>. QED  BY <1>1, <1>2, <1>3, LeaveKeeps, PageKeeps, LookKeeps, MoveKeeps DEF WalkNext

LEMMA WalksWhole == WalkInv => WalkedWhole
<1> SUFFICES ASSUME WalkInv, walk = "walked", NEW f \in Files \ moved
             PROVE  f \in documents <=> \/ places[f] \cap Reached # {}
                                        \/ f \in selection.files /\ places[f] # {}
  BY DEF WalkedWhole
<1>1. todo = <<>> /\ rest = {} /\ Queued = {}
  BY DEF WalkInv, Queued, Range
<1>2. \A d : ~Entered(d)
  BY <1>1 DEF Entered
<1>3. visited \subseteq Folders /\ WalkShapes
  BY DEF WalkInv, WalkShapes
<1>4. Closed(visited)
  BY <1>1, <1>2 DEF WalkInv, Closed
<1>5. Reached \subseteq visited
  BY <1>3, <1>4, ReachedClosed
<1>. QED  BY <1>1, <1>2, <1>5 DEF WalkInv

-----------------------------------------------------------------------------
(* The place of a number among others says how many come before it.        *)
LEMMA PlaceIs ==
    ASSUME NEW S \in SUBSET Nat, IsFiniteSet(S)
    PROVE  /\ Cardinality(S) \in Nat
           /\ \A k \in S : Place(S, k) \in 1..Cardinality(S)
           /\ \A k, l \in S : k < l <=> Place(S, k) < Place(S, l)
<1>1. Cardinality(S) \in Nat
  BY FS_CardinalityType
<1>2. ASSUME NEW k \in S
      PROVE  /\ IsFiniteSet({j \in S : j <= k}) /\ Place(S, k) \in 1..Cardinality(S)
  <2> DEFINE T == {j \in S : j <= k}
  <2>1. T \in SUBSET S /\ k \in T
    BY <1>2
  <2>2. IsFiniteSet(T) /\ Cardinality(T) <= Cardinality(S) /\ Cardinality(T) \in Nat
    <3> HIDE DEF T
    <3>. QED  BY <2>1, FS_Subset, FS_CardinalityType
  <2>3. Cardinality(T) # 0
    <3> HIDE DEF T
    <3>. QED  BY <2>1, <2>2, FS_EmptySet
  <2>. QED  BY <1>1, <2>2, <2>3 DEF Place
<1>3. ASSUME NEW k \in S, NEW l \in S, k < l
      PROVE  Place(S, k) < Place(S, l)
  <2> DEFINE T == {j \in S : j <= k}
             U == {j \in S : j <= l}
  <2>1. T \subseteq U /\ l \in U /\ l \notin T
    <3>1. \A j \in S : j \in Nat
      OBVIOUS
    <3>2. \A j \in S : j <= k => j <= l
      BY <1>3, <3>1
    <3>3. l \in S /\ l <= l /\ ~(l <= k)
      BY <1>3, <3>1
    <3>. QED  BY <3>2, <3>3
  <2>2. IsFiniteSet(U) /\ IsFiniteSet(T)
    BY <1>2
  <2>3. Cardinality(T) < Cardinality(U)
    <3> HIDE DEF T, U
    <3>1. T \in SUBSET U /\ T # U
      BY <2>1
    <3>2. /\ Cardinality(T) <= Cardinality(U) /\ Cardinality(T) # Cardinality(U)
          /\ Cardinality(T) \in Nat /\ Cardinality(U) \in Nat
      BY <2>2, <3>1, FS_Subset, FS_CardinalityType
    <3>. QED  BY <3>2
  <2>. QED  BY <2>3 DEF Place
<1>4. ASSUME NEW k \in S, NEW l \in S, Place(S, k) < Place(S, l)
      PROVE  k < l
  <2>1. k \in Nat /\ l \in Nat /\ Place(S, k) \in Nat /\ Place(S, l) \in Nat
    <3>1. \A j \in S : Place(S, j) \in 1..Cardinality(S)
      BY <1>2
    <3>. QED  BY <1>1, <3>1
  <2>2. CASE l < k
    <3>1. Place(S, l) < Place(S, k)
      BY <1>3, <2>2
    <3>. QED  BY <1>4, <2>1, <3>1
  <2>3. CASE l = k
    BY <1>4, <2>1, <2>3
  <2>. QED  BY <2>1, <2>2, <2>3
<1>. QED  BY <1>1, <1>2, <1>3, <1>4

(* The first n of them are n.                                              *)
LEMMA FirstAre ==
    ASSUME NEW S \in SUBSET Nat, IsFiniteSet(S), NEW n \in 0..Cardinality(S)
    PROVE  /\ IsFiniteSet({k \in S : Place(S, k) <= n})
           /\ Cardinality({k \in S : Place(S, k) <= n}) = n
<1> DEFINE c == Cardinality(S)
           place == [k \in S |-> Place(S, k)]
           T == {k \in S : Place(S, k) <= n}
           first == [k \in T |-> Place(S, k)]
<1>1. /\ c \in Nat /\ \A k \in S : Place(S, k) \in 1..c
      /\ \A k, l \in S : k < l <=> Place(S, k) < Place(S, l)
  BY PlaceIs
<1>2. \A k, l \in S : Place(S, k) = Place(S, l) => k = l
  <2>1. \A k \in S : k \in Nat /\ Place(S, k) \in Nat
    BY <1>1
  <2>. QED  BY <1>1, <2>1
<1>3. place \in Injection(S, 1..c)
  <2>1. place \in [S -> 1..c]
    BY <1>1
  <2>. QED  BY <1>2, <2>1 DEF Injection, IsInjective
<1>4. place \in Surjection(S, 1..c)
  <2>1. IsFiniteSet(1..c) /\ Cardinality(1..c) = c
    BY <1>1, FS_Interval
  <2> HIDE DEF place
  <2>2. Cardinality(S) = Cardinality(1..c) <=> place \in Surjection(S, 1..c)
    BY <1>3, <2>1, FS_Injection
  <2>. QED  BY <2>1, <2>2
<1>5. ASSUME NEW i \in 1..c
      PROVE  \E k \in S : Place(S, k) = i
  <2>1. \E k \in S : place[k] = i
    <3> HIDE DEF place, c
    <3>. QED  BY <1>4, <1>5 DEF Surjection
  <2>2. PICK k \in S : place[k] = i
    BY <2>1
  <2>3. place[k] = Place(S, k)
    OBVIOUS
  <2>. QED  BY <2>2, <2>3
<1>6. n \in Nat /\ n <= c /\ T \subseteq S
  BY <1>1
<1>7. IsFiniteSet(T)
  BY <1>6, FS_Subset
<1>8. first \in Bijection(T, 1..n)
  <2>1. first \in [T -> 1..n]
    <3>1. \A k \in T : Place(S, k) \in 1..n
      BY <1>1, <1>6
    <3>. QED  BY <3>1
  <2>2. first \in Injection(T, 1..n)
    BY <1>2, <2>1 DEF Injection, IsInjective
  <2>3. ASSUME NEW i \in 1..n
        PROVE  \E k \in T : first[k] = i
    <3> HIDE DEF c
    <3>1. i \in 1..c
      BY <1>1, <1>6
    <3>2. PICK k \in S : Place(S, k) = i
      BY <1>5, <3>1
    <3>3. k \in T
      BY <3>2
    <3>. QED  BY <3>2, <3>3
  <2>. QED  BY <2>1, <2>2, <2>3 DEF Bijection, Surjection
<1>9. ExistsBijection(T, 1..n)
  <2> HIDE DEF first, T
  <2>. QED  BY <1>8 DEF ExistsBijection
<1>10. Cardinality(1..n) = n /\ Cardinality(1..n) = Cardinality(T)
  <2>1. Cardinality(1..n) = n
    BY <1>6, FS_Interval
  <2> HIDE DEF T
  <2>. QED  BY <1>7, <1>9, <2>1, FS_Bijection
<1>. QED  BY <1>7, <1>10

LEMMA MaxIs ==
    ASSUME NEW S \in SUBSET Nat, IsFiniteSet(S), S # {}
    PROVE  Max(S) \in S /\ \A k \in S : k <= Max(S)
<1> DEFINE ranks == {Place(S, k) : k \in S}
<1>1. /\ Cardinality(S) \in Nat /\ \A k \in S : Place(S, k) \in 1..Cardinality(S)
      /\ \A k, l \in S : k < l <=> Place(S, k) < Place(S, l)
  BY PlaceIs
<1>2. ranks \in SUBSET (0..Cardinality(S)) /\ ranks # {}
  <2>1. \A k \in S : Place(S, k) \in 0..Cardinality(S)
    BY <1>1
  <2>2. PICK k \in S : TRUE
    OBVIOUS
  <2>3. Place(S, k) \in ranks
    OBVIOUS
  <2>4. ranks \subseteq 0..Cardinality(S)
    BY <2>1
  <2> HIDE DEF ranks
  <2>. QED  BY <2>3, <2>4
<1>3. PICK p \in ranks : \A q \in ranks : q <= p
  <2> HIDE DEF ranks
  <2>. QED  BY <1>1, <1>2, Greatest
<1>4. PICK m \in S : p = Place(S, m)
  OBVIOUS
<1>5. \A k \in S : m >= k
  <2>1. ASSUME NEW k \in S, ~(m >= k)
        PROVE  FALSE
    <3>1. m < k
      BY <2>1
    <3>2. Place(S, m) < Place(S, k) /\ Place(S, k) <= Place(S, m)
      BY <1>1, <1>3, <1>4, <3>1
    <3>3. Place(S, m) \in Nat /\ Place(S, k) \in Nat
      BY <1>1
    <3>. QED  BY <3>2, <3>3
  <2>. QED  BY <2>1
<1>6. Max(S) \in S /\ \A k \in S : Max(S) >= k
  BY <1>5, Zenon DEF Max
<1>. QED  BY <1>6

(* And what follows the first c is placed among itself from there on.      *)
LEMMA PlaceAfter ==
    ASSUME NEW S \in SUBSET Nat, IsFiniteSet(S), NEW c \in 0..Cardinality(S),
           NEW k \in S, Place(S, k) > c
    PROVE  Place(S, k) = c + Place({j \in S : Place(S, j) > c}, k)
<1> DEFINE first == {j \in S : Place(S, j) <= c}
           T == {j \in S : Place(S, j) > c}
           before == {j \in T : j <= k}
           all == {j \in S : j <= k}
<1>1. /\ Cardinality(S) \in Nat /\ \A j \in S : Place(S, j) \in 1..Cardinality(S)
      /\ \A j, l \in S : j < l <=> Place(S, j) < Place(S, l)
  BY PlaceIs
<1>2. IsFiniteSet(first) /\ Cardinality(first) = c
  BY FirstAre
<1>3. all = first \cup before /\ first \cap before = {}
  <2>1. \A j \in first : j <= k
    <3>1. ASSUME NEW j \in first
          PROVE  j <= k
      <4>1. j \in S /\ Place(S, j) <= c /\ Place(S, j) \in Nat /\ Place(S, k) \in Nat /\ c \in Nat
        BY <1>1
      <4>2. Place(S, j) < Place(S, k)
        BY <4>1
      <4>3. j < k
        BY <1>1, <4>1, <4>2
      <4>. QED  BY <4>1, <4>3
    <3>. QED  BY <3>1
  <2>2. \A j \in S : Place(S, j) <= c \/ Place(S, j) > c
    BY <1>1
  <2>3. \A j \in S : ~(Place(S, j) <= c /\ Place(S, j) > c)
    BY <1>1
  <2>. QED  BY <2>1, <2>2, <2>3
<1>4. IsFiniteSet(before) /\ Cardinality(before) \in Nat
  <2>1. before \in SUBSET S
    OBVIOUS
  <2> HIDE DEF before
  <2>. QED  BY <2>1, FS_Subset, FS_CardinalityType
<1>5. Cardinality(all) = c + Cardinality(before)
  <2>1. Cardinality(first \cap before) = 0
    BY <1>3, FS_EmptySet
  <2> HIDE DEF first, before, all
  <2>2. Cardinality(first \cup before) = Cardinality(first) + Cardinality(before)
                                         - Cardinality(first \cap before)
    BY <1>2, <1>4, FS_Union
  <2>. QED  BY <1>2, <1>3, <1>4, <2>1, <2>2
<1>. QED  BY <1>5 DEF Place

-----------------------------------------------------------------------------
(* A listing of issues.  A project that is over has been found, but for    *)
(* what came meanwhile.  By a cursor, so has all of the current one up to  *)
(* the cursor, and nothing after it.  By an offset the first issues have,  *)
(* unless the number of them has changed since the first page, and it does *)
(* not change back.  And as long as no page was empty each but the last of *)
(* a project brought as many issues as the smallest had.                   *)
FoundOf(p) == {k \in found : ProjectOf[k] = p}
Passed == {k \in Here : Place(Here, k) <= cursor}
Shifted == \/ Cardinality(Here) \notin total /\ touched.come # {}
              /\ \A n \in total : n < Cardinality(Here)
           \/ Cardinality(Here) \notin total /\ touched.gone # {}
              /\ \A n \in total : Cardinality(Here) < n
OneWay == ByOffset => ~Mixed /\ (touched.come = {} \/ touched.gone = {})

ListShapes ==
    /\ server \in Servers /\ issues \subseteq IssueKeys /\ found \subseteq IssueKeys
    /\ project \in Nat \ {0} /\ cursor \in Nat /\ pages \in Nat /\ smallest \in 1..PageSize
    /\ \A n \in total : n \in Nat /\ total = {n}
    /\ touched \in [come : SUBSET IssueKeys, gone : SUBSET IssueKeys, blank : BOOLEAN]
    /\ listing \in {"running", "drifted", "too_many", "listed", "failed", "over_budget"}

ByCursorOK ==
    /\ \A k \in Here \ touched.come : k <= cursor => k \in found
    /\ \A k \in FoundOf(project) : k <= cursor
ByOffsetOK ==
    /\ total = {} => cursor = 0 /\ FoundOf(project) = {}
    /\ total # {} => Shifted \/ (/\ total = {Cardinality(Here)} /\ cursor < Cardinality(Here)
                                /\ FoundOf(project) = Passed)
Paced ==
    /\ project - 1 <= pages
    /\ Limited => Cardinality(found) <= MaxIssues
    /\ touched.blank = FALSE => smallest * (pages - (project - 1)) <= Cardinality(found)

ListInv ==
    /\ ListShapes /\ OneWay
    /\ found \subseteq issues \cup touched.gone
    /\ \A k \in issues \ touched.come : ProjectOf[k] < project => k \in found
    /\ listing = "listed" => \A p \in Listed : p < project
    /\ listing = "over_budget" => touched.blank
    /\ listing = "running" =>
         /\ project \in Listed /\ \A k \in found : ProjectOf[k] <= project
         /\ IF ByOffset THEN ByOffsetOK ELSE ByCursorOK
         /\ Paced

LEMMA IssueTypes ==
    ASSUME ListShapes
    PROVE  /\ IssueKeys \subseteq Nat \ {0} /\ \A k \in IssueKeys : ProjectOf[k] \in 1..2
           /\ IsFiniteSet(Here) /\ Here \in SUBSET Nat /\ Here \subseteq issues
           /\ IsFiniteSet(Rest) /\ Rest \in SUBSET Nat /\ Rest \subseteq Here
           /\ IsFiniteSet(found) /\ Cardinality(found) \in Nat
           /\ Cardinality(Here) \in Nat /\ Cardinality(Rest) \in Nat
           /\ \A k \in Here : ProjectOf[k] = project
<1>1. IssueKeys \subseteq Nat \ {0} /\ \A k \in IssueKeys : ProjectOf[k] \in 1..2
  BY IssueListingAssumption
<1>2. Here \subseteq issues /\ Rest \subseteq Here /\ \A k \in Here : ProjectOf[k] = project
  BY DEF Here, Rest
<1>3. issues \in SUBSET IssueKeys /\ found \in SUBSET IssueKeys
  BY DEF ListShapes
<1>4. Here \in SUBSET IssueKeys /\ Rest \in SUBSET IssueKeys
  BY <1>2, <1>3
<1>5. IsFiniteSet(Here) /\ IsFiniteSet(Rest) /\ IsFiniteSet(found)
  BY <1>3, <1>4, IssueListingAssumption, FS_Subset
<1>. QED  BY <1>1, <1>2, <1>4, <1>5, FS_CardinalityType

LEMMA PageIs ==
    ASSUME ListShapes, NEW n \in 0..Cardinality(Rest)
    PROVE  /\ Page(n) \subseteq Rest /\ IsFiniteSet(Page(n)) /\ Cardinality(Page(n)) = n
           /\ n = Cardinality(Rest) => Page(n) = Rest
<1>1. IsFiniteSet(Rest) /\ Rest \in SUBSET Nat
  BY IssueTypes
<1>2. IsFiniteSet(Page(n)) /\ Cardinality(Page(n)) = n
  BY <1>1, FirstAre DEF Page
<1>3. Page(n) \in SUBSET Rest
  BY DEF Page
<1>. QED  BY <1>1, <1>2, <1>3, FS_Subset

(* What a page brings was not found before.                                *)
LEMMA PageIsNew ==
    ASSUME ListInv, listing = "running", ~Drifted
    PROVE  /\ Rest \cap found = {}
           /\ ByOffset => /\ cursor <= Cardinality(Here) /\ FoundOf(project) = Passed
                          /\ Rest = Here \ Passed
           /\ ~ByOffset => Rest = {k \in Here : k > cursor}
<1>1. /\ IsFiniteSet(Here) /\ Here \in SUBSET Nat /\ Cardinality(Here) \in Nat /\ Rest \subseteq Here
      /\ cursor \in Nat /\ \A k \in Here : ProjectOf[k] = project
  BY IssueTypes DEF ListInv, ListShapes
<1>2. \A k \in Here : Place(Here, k) \in 1..Cardinality(Here)
  BY <1>1, PlaceIs
<1>3. CASE ByOffset
  <2>1. ByOffsetOK
    BY <1>3 DEF ListInv
  <2>2. FoundOf(project) = Passed /\ cursor <= Cardinality(Here)
    <3>1. CASE total = {}
      <4>1. cursor = 0 /\ FoundOf(project) = {}
        BY <2>1, <3>1 DEF ByOffsetOK
      <4>2. Passed = {}
        BY <1>2, <4>1 DEF Passed
      <4>. QED  BY <1>1, <4>1, <4>2
    <3>2. CASE total # {}
      <4>1. total = {Cardinality(Here)}
        BY <1>3, <3>2 DEF Drifted
      <4>2. ~Shifted
        BY <4>1 DEF Shifted
      <4>. QED  BY <1>1, <2>1, <3>2, <4>2 DEF ByOffsetOK
    <3>. QED  BY <3>1, <3>2
  <2>3. Rest = Here \ Passed
    <3>1. \A k \in Here : Place(Here, k) > cursor <=> ~(Place(Here, k) <= cursor)
      BY <1>1, <1>2
    <3>. QED  BY <1>3, <3>1 DEF Rest, Passed
  <2>4. Rest \cap found = {}
    BY <1>1, <2>2, <2>3 DEF FoundOf
  <2>. QED  BY <1>3, <2>2, <2>3, <2>4
<1>4. CASE ~ByOffset
  <2>1. Rest = {k \in Here : k > cursor}
    BY <1>4 DEF Rest
  <2>2. \A k \in FoundOf(project) : k <= cursor
    BY <1>4 DEF ListInv, ByCursorOK
  <2>3. Rest \cap found = {}
    <3>1. ASSUME NEW k \in Rest, k \in found
          PROVE  FALSE
      <4>1. k \in Here /\ k > cursor
        BY <2>1, <3>1
      <4>2. k \in Nat /\ k \in FoundOf(project)
        BY <1>1, <3>1, <4>1 DEF FoundOf
      <4>3. k <= cursor
        BY <2>2, <4>2
      <4>. QED  BY <1>1, <4>1, <4>2, <4>3
    <3>. QED  BY <3>1
  <2>. QED  BY <1>4, <2>1, <2>3
<1>. QED  BY <1>3, <1>4

(* The first issues, and those of the page after them.                     *)
LEMMA PrefixGrows ==
    ASSUME ListInv, listing = "running", ~Drifted, ByOffset, NEW n \in 0..Cardinality(Rest)
    PROVE  Passed \cup Page(n) = {k \in Here : Place(Here, k) <= cursor + n}
<1>1. /\ IsFiniteSet(Here) /\ Here \in SUBSET Nat /\ Cardinality(Here) \in Nat /\ Rest \subseteq Here
      /\ cursor \in Nat /\ n \in Nat /\ IsFiniteSet(Rest) /\ Rest \in SUBSET Nat
      /\ Cardinality(Rest) \in Nat
  BY IssueTypes DEF ListInv, ListShapes
<1>2. /\ \A k \in Here : Place(Here, k) \in 1..Cardinality(Here)
      /\ \A k \in Rest : Place(Rest, k) \in 1..Cardinality(Rest)
  BY <1>1, PlaceIs
<1>3. cursor \in 0..Cardinality(Here) /\ Rest = Here \ Passed
      /\ Rest = {k \in Here : Place(Here, k) > cursor}
  BY <1>1, PageIsNew DEF Rest
<1>4. \A k \in Rest : Place(Here, k) = cursor + Place(Rest, k)
  <2>1. ASSUME NEW k \in Rest
        PROVE  Place(Here, k) = cursor + Place(Rest, k)
    <3>1. k \in Here /\ Place(Here, k) > cursor
      BY <1>3
    <3>. QED  BY <1>1, <1>3, <3>1, PlaceAfter
  <2>. QED  BY <2>1
<1>5. \A k \in Rest : Place(Here, k) <= cursor + n <=> Place(Rest, k) <= n
  <2>1. ASSUME NEW k \in Rest
        PROVE  Place(Here, k) <= cursor + n <=> Place(Rest, k) <= n
    <3>1. Place(Rest, k) \in Nat /\ Place(Here, k) = cursor + Place(Rest, k)
      BY <1>2, <1>4
    <3>. QED  BY <1>1, <3>1
  <2>. QED  BY <2>1
<1>6. \A k \in Passed : k \in Here /\ Place(Here, k) <= cursor + n
  <2>1. ASSUME NEW k \in Passed
        PROVE  k \in Here /\ Place(Here, k) <= cursor + n
    <3>1. k \in Here /\ Place(Here, k) <= cursor
      BY DEF Passed
    <3>2. Place(Here, k) \in Nat
      BY <1>2, <3>1
    <3>. QED  BY <1>1, <3>1, <3>2
  <2>. QED  BY <2>1
<1>. QED  BY <1>3, <1>5, <1>6 DEF Page

(* A page keeps the invariant.                                             *)
LEMMA UpTo ==
    ASSUME NEW n \in Nat
    PROVE  IsFiniteSet(1..n) /\ Cardinality(1..n) = n
BY FS_Interval

LEMMA OneTwo ==
    IsFiniteSet(1..1) /\ IsFiniteSet(1..2) /\ Cardinality(1..2) = 2
<1>1. \A n \in Nat : IsFiniteSet(1..n) /\ Cardinality(1..n) = n
  BY UpTo
<1>2. 1 \in Nat /\ 2 \in Nat
  OBVIOUS
<1>. QED  BY <1>1, <1>2, Zenon

LEMMA ListedIs ==
    /\ Listed \in SUBSET (1..2) /\ Max(Listed) \in Listed /\ \A p \in Listed : p <= Max(Listed)
    /\ \A p \in Listed : p # Max(Listed) => p + 1 \in Listed
    /\ Limited => Listed = 1..2 /\ Cardinality(Listed) = 2
<1>1. Listed = 1..1 \/ Listed = 1..2
  BY DEF Listed
<1>2. Listed \in SUBSET Nat /\ IsFiniteSet(Listed) /\ Listed # {}
  <2>1. IsFiniteSet(1..1) /\ IsFiniteSet(1..2)
    BY OneTwo
  <2>. QED  BY <1>1, <2>1
<1>3. Max(Listed) \in Listed /\ \A p \in Listed : p <= Max(Listed)
  BY <1>2, MaxIs
<1>4. Cardinality(1..2) = 2
  BY OneTwo
<1>5. Limited => Listed = 1..2
  BY DEF Limited, Listed
<1>. QED  BY <1>1, <1>3, <1>4, <1>5

LEMMA PageKeepsPlain ==
    ASSUME ListInv, NEW a \in Answers, FetchPage(a), ~Drifted
    PROVE  /\ ListShapes' /\ OneWay'
           /\ (found \subseteq issues \cup touched.gone)'
           /\ (\A k \in issues \ touched.come : ProjectOf[k] < project => k \in found)'
           /\ (listing = "listed" => \A p \in Listed : p < project)'
           /\ (listing = "over_budget" => touched.blank)'
           /\ IsFiniteSet(found') /\ Cardinality(found') = Cardinality(found) + a.size
<1> DEFINE n == a.size
<1>0. /\ listing = "running" /\ ListShapes /\ n \in 0..Cardinality(Rest) /\ a.last \in BOOLEAN
      /\ a.last => n = Cardinality(Rest)
      /\ found' = found \cup Page(n)
      /\ issues' = issues /\ server' = server
      /\ touched'.come = touched.come /\ touched'.gone = touched.gone
  <2>1. listing = "running" /\ ListShapes
    BY DEF FetchPage, ListInv
  <2>2. Cardinality(Rest) \in Nat
    BY <2>1, IssueTypes
  <2>3. a.size \in Nat /\ a.size <= Cardinality(Rest) /\ (a.last => a.size = Cardinality(Rest))
        /\ a.last \in BOOLEAN
    BY DEF Answers
  <2>4. touched'.come = touched.come /\ touched'.gone = touched.gone
    BY <2>1 DEF FetchPage, ListShapes
  <2>. QED  BY <2>1, <2>2, <2>3, <2>4 DEF FetchPage
<1>1. Page(n) \subseteq Rest /\ IsFiniteSet(Page(n)) /\ Cardinality(Page(n)) = n
      /\ (n = Cardinality(Rest) => Page(n) = Rest)
  <2> HIDE DEF n
  <2>. QED  BY <1>0, PageIs
<1>2. /\ IsFiniteSet(found) /\ Cardinality(found) \in Nat /\ Rest \subseteq Here /\ Here \subseteq issues
      /\ Here \in SUBSET Nat /\ IsFiniteSet(Here) /\ Cardinality(Here) \in Nat
      /\ Cardinality(Rest) \in Nat /\ cursor \in Nat
  BY <1>0, IssueTypes DEF ListShapes
<1>3. Rest \cap found = {}
  BY <1>0, PageIsNew
<1>4. IsFiniteSet(found') /\ Cardinality(found') = Cardinality(found) + a.size
  <2>1. found \cap Page(n) = {}
    <3> HIDE DEF n
    <3>. QED  BY <1>1, <1>3
  <2>2. Cardinality(found \cap Page(n)) = 0
    BY <2>1, FS_EmptySet
  <2>3. IsFiniteSet(found \cup Page(n)) /\ Cardinality(found \cup Page(n)) = Cardinality(found)
            + Cardinality(Page(n)) - Cardinality(found \cap Page(n))
    <3> HIDE DEF n
    <3>. QED  BY <1>1, <1>2, FS_Union
  <2>4. Cardinality(found \cup Page(n)) = Cardinality(found) + n
    BY <1>0, <1>1, <1>2, <2>2, <2>3
  <2>. QED  BY <1>0, <2>3, <2>4
<1>5. ListShapes'
  <2>1. found' \subseteq IssueKeys
    BY <1>0, <1>1, <1>2 DEF ListShapes
  <2>2. cursor' \in Nat
    <3>1. cursor' = 0 \/ cursor' = NextCursor(n)
      BY DEF FetchPage
    <3>2. NextCursor(n) \in Nat
      <4>1. CASE ByOffset
        BY <1>0, <1>2, <4>1 DEF NextCursor
      <4>2. CASE ~ByOffset
        <5>1. Page(n) \cup {cursor} \in SUBSET Nat /\ IsFiniteSet(Page(n) \cup {cursor})
          <6>1. Page(n) \cup {cursor} \in SUBSET Nat
            BY <1>1, <1>2
          <6>. QED  BY <6>1, <1>1, FS_AddElement
        <5>2. Max(Page(n) \cup {cursor}) \in Page(n) \cup {cursor}
          <6> HIDE DEF n
          <6>. QED  BY <5>1, MaxIs
        <5>. QED  BY <4>2, <5>1, <5>2 DEF NextCursor
      <4>. QED  BY <4>1, <4>2
    <3>. QED  BY <3>1, <3>2
  <2>3. smallest' \in 1..PageSize
    <3>1. smallest \in 1..PageSize /\ PageSize \in Nat
      BY <1>0, IssueListingAssumption DEF ListShapes
    <3>2. smallest' = smallest \/ (smallest' = a.size /\ a.size \in 1..smallest)
      BY DEF FetchPage
    <3>. QED  BY <3>1, <3>2
  <2>4. \A m \in total' : m \in Nat /\ total' = {m}
    <3>1. total' = {} \/ total' = {Cardinality(Here)}
      BY DEF FetchPage
    <3>. QED  BY <1>2, <3>1
  <2>5. pages' \in Nat /\ project' \in Nat \ {0}
    <3>1. pages' = pages + 1 /\ (project' = project \/ project' = project + 1)
      BY DEF FetchPage
    <3>. QED  BY <1>0, <3>1 DEF ListShapes
  <2>6. touched' \in [come : SUBSET IssueKeys, gone : SUBSET IssueKeys, blank : BOOLEAN]
    BY <1>0 DEF FetchPage, ListShapes
  <2>7. listing' \in {"running", "drifted", "too_many", "listed", "failed", "over_budget"}
    BY DEF FetchPage
  <2>8. server' \in Servers /\ issues' \subseteq IssueKeys
    BY <1>0 DEF ListShapes
  <2>. QED  BY <2>1, <2>2, <2>3, <2>4, <2>5, <2>6, <2>7, <2>8 DEF ListShapes
<1>6. OneWay'
  BY <1>0 DEF OneWay, ListInv, ByOffset
<1>7. found' \subseteq issues' \cup touched'.gone
  BY <1>0, <1>1, <1>2 DEF ListInv
<1>8. ASSUME NEW k \in issues' \ touched'.come, ProjectOf[k] < project'
      PROVE  k \in found'
  <2>1. k \in issues /\ k \notin touched.come /\ (ProjectOf[k] < project => k \in found)
    BY <1>0, <1>8 DEF ListInv
  <2>2. ProjectOf[k] \in 1..2 /\ project \in Nat
    BY <1>0, <2>1, IssueTypes DEF ListShapes
  <2>3. CASE ~a.last
    BY <1>0, <1>8, <2>1, <2>3 DEF FetchPage
  <2>4. CASE a.last
    <3>1. project' = project + 1 /\ found' = found \cup Rest
      BY <1>0, <1>1, <2>4 DEF FetchPage
    <3>2. CASE ProjectOf[k] < project
      BY <2>1, <3>1, <3>2
    <3>3. CASE ProjectOf[k] = project
      <4>1. k \in Here
        BY <2>1, <3>3 DEF Here
      <4>2. CASE ByOffset
        <5>1. Rest = Here \ Passed /\ FoundOf(project) = Passed
          BY <1>0, <4>2, PageIsNew
        <5>. QED  BY <3>1, <4>1, <5>1 DEF FoundOf
      <4>3. CASE ~ByOffset
        <5>1. Rest = {j \in Here : j > cursor}
          BY <1>0, <4>3, PageIsNew
        <5>2. k <= cursor => k \in found
          BY <1>0, <2>1, <4>1, <4>3 DEF ListInv, ByCursorOK
        <5>3. k \in Nat
          BY <1>2, <4>1
        <5>. QED  BY <1>2, <3>1, <4>1, <5>1, <5>2, <5>3
      <4>. QED  BY <4>2, <4>3
    <3>. QED  BY <1>8, <2>2, <3>1, <3>2, <3>3
  <2>. QED  BY <1>0, <2>3, <2>4
<1>9. ASSUME listing' = "listed"
      PROVE  \A p \in Listed' : p < project'
  <2>1. a.last /\ project = Max(Listed) /\ project' = project + 1
    BY <1>9 DEF FetchPage
  <2>2. Listed' = Listed
    BY <1>0 DEF Listed
  <2>3. \A p \in Listed : p \in Nat /\ p <= project
    BY <2>1, ListedIs
  <2>. QED  BY <1>0, <2>1, <2>2, <2>3 DEF ListShapes
<1>10. listing' # "over_budget"
  BY DEF FetchPage
<1>. QED  BY <1>4, <1>5, <1>6, <1>7, <1>8, <1>9, <1>10

(* How the rest of the listing's state comes out of a page: of a last one, *)
LEMMA LastPageKeeps ==
    ASSUME ListInv, NEW a \in Answers, FetchPage(a), ~Drifted, a.last, listing' = "running"
    PROVE  /\ (project \in Listed /\ \A k \in found : ProjectOf[k] <= project)'
           /\ (IF ByOffset THEN ByOffsetOK ELSE ByCursorOK)'
<1>0. /\ listing = "running" /\ ListShapes /\ project' = project + 1 /\ cursor' = 0 /\ total' = {}
      /\ server' = server /\ issues' = issues /\ project # Max(Listed)
      /\ found' = found \cup Page(a.size) /\ ListShapes'
      /\ project \in Listed /\ \A k \in found : ProjectOf[k] <= project
  BY PageKeepsPlain DEF FetchPage, ListInv
<1>1. Listed' = Listed /\ (ByOffset <=> ByOffset')
  BY <1>0 DEF Listed, ByOffset
<1>2. project' \in Listed'
  BY <1>0, <1>1, ListedIs
<1>3. \A k \in found' : ProjectOf[k] \in 1..2 /\ ProjectOf[k] <= project
  <2>1. a.size \in 0..Cardinality(Rest)
    <3>1. Cardinality(Rest) \in Nat
      BY <1>0, IssueTypes
    <3>. QED  BY <3>1 DEF Answers
  <2>2. Page(a.size) \subseteq Rest
    BY <1>0, <2>1, PageIs
  <2>3. Rest \subseteq Here /\ \A k \in Here : ProjectOf[k] = project
    BY <1>0, IssueTypes
  <2>4. found' \subseteq IssueKeys
    BY <1>0 DEF ListShapes
  <2>5. \A k \in found' : ProjectOf[k] \in 1..2
    BY <1>0, <2>4, IssueTypes
  <2>6. project \in Nat
    BY <1>0 DEF ListShapes
  <2>7. \A k \in Page(a.size) : ProjectOf[k] = project
    BY <2>2, <2>3
  <2>. QED  BY <1>0, <2>5, <2>6, <2>7
<1>4. \A k \in found' : ProjectOf[k] <= project'
  BY <1>0, <1>3 DEF ListShapes
<1>5. FoundOf(project)' = {}
  <2>1. \A k \in found' : ProjectOf[k] # project + 1
    BY <1>0, <1>3 DEF ListShapes
  <2>. QED  BY <1>0, <2>1 DEF FoundOf
<1>6. CASE ByOffset
  BY <1>0, <1>1, <1>2, <1>4, <1>5, <1>6 DEF ByOffsetOK
<1>7. CASE ~ByOffset
  <2>1. ASSUME NEW k \in Here'
        PROVE  ~(k <= 0)
    <3>1. k \in IssueKeys
      BY <1>0, <2>1 DEF Here, ListShapes
    <3>2. k \in Nat \ {0}
      BY <1>0, <3>1, IssueTypes
    <3>. QED  BY <3>2
  <2>2. ByCursorOK'
    BY <1>0, <1>5, <2>1 DEF ByCursorOK
  <2>. QED  BY <1>1, <1>2, <1>4, <1>7, <2>2
<1>. QED  BY <1>6, <1>7

(* and of one that another follows.                                        *)
LEMMA NextPageKeeps ==
    ASSUME ListInv, NEW a \in Answers, FetchPage(a), ~Drifted, ~a.last, listing' = "running"
    PROVE  /\ (project \in Listed /\ \A k \in found : ProjectOf[k] <= project)'
           /\ (IF ByOffset THEN ByOffsetOK ELSE ByCursorOK)'
<1> DEFINE n == a.size
<1>0. /\ listing = "running" /\ ListShapes /\ project' = project /\ cursor' = NextCursor(n)
      /\ total' = {Cardinality(Here)} /\ n \in 0..Cardinality(Rest)
      /\ server' = server /\ issues' = issues /\ touched'.come = touched.come
      /\ found' = found \cup Page(n)
      /\ project \in Listed /\ \A k \in found : ProjectOf[k] <= project
  <2>1. ListShapes /\ listing = "running"
    BY DEF FetchPage, ListInv
  <2>2. Cardinality(Rest) \in Nat
    BY <2>1, IssueTypes
  <2>3. n \in 0..Cardinality(Rest)
    BY <2>2 DEF Answers
  <2>4. touched'.come = touched.come
    BY <2>1 DEF FetchPage, ListShapes
  <2>. QED  BY <2>1, <2>3, <2>4 DEF FetchPage, ListInv
<1>1. Listed' = Listed /\ (ByOffset <=> ByOffset') /\ Here' = Here
  BY <1>0 DEF Listed, ByOffset, Here
<1>2. /\ Page(n) \subseteq Rest /\ IsFiniteSet(Page(n)) /\ Cardinality(Page(n)) = n
      /\ (n = Cardinality(Rest) => Page(n) = Rest)
  <2> HIDE DEF n
  <2>. QED  BY <1>0, PageIs
<1>3. /\ Rest \subseteq Here /\ \A k \in Here : ProjectOf[k] = project
      /\ Here \in SUBSET Nat /\ Rest \in SUBSET Nat /\ IsFiniteSet(Rest) /\ IsFiniteSet(Here)
      /\ Cardinality(Here) \in Nat /\ Cardinality(Rest) \in Nat /\ cursor \in Nat /\ n \in Nat
      /\ project \in Nat
  BY <1>0, IssueTypes DEF ListShapes
<1>4. (project \in Listed /\ \A k \in found : ProjectOf[k] <= project)'
  <2>1. \A k \in Page(n) : ProjectOf[k] = project
    BY <1>2, <1>3
  <2>. QED  BY <1>0, <1>1, <1>3, <2>1
<1>5. FoundOf(project)' = FoundOf(project) \cup Page(n)
  <2>1. \A k \in Page(n) : ProjectOf[k] = project
    BY <1>2, <1>3
  <2>. QED  BY <1>0, <2>1 DEF FoundOf
<1>6. CASE ByOffset
  <2>1. Passed \cup Page(n) = {k \in Here : Place(Here, k) <= cursor + n}
    <3> HIDE DEF n
    <3>. QED  BY <1>0, <1>6, PrefixGrows
  <2>2. cursor' = cursor + n
    BY <1>0, <1>6 DEF NextCursor
  <2>3. Passed' = {k \in Here : Place(Here, k) <= cursor + n}
    BY <1>1, <2>2 DEF Passed, Place
  <2>4. FoundOf(project)' = Passed'
    BY <1>0, <1>5, <1>6, <2>1, <2>3, PageIsNew
  <2>5. cursor' < Cardinality(Here)
    <3>1. ~(cursor + n >= Cardinality(Here))
      BY <1>6 DEF Answers
    <3>. QED  BY <1>3, <2>2, <3>1
  <2>6. ByOffsetOK'
    BY <1>0, <1>1, <2>4, <2>5 DEF ByOffsetOK
  <2>. QED  BY <1>1, <1>4, <1>6, <2>6
<1>7. CASE ~ByOffset
  <2> DEFINE S == Page(n) \cup {cursor}
  <2>1. S \in SUBSET Nat /\ IsFiniteSet(S) /\ S # {}
    <3>1. S \in SUBSET Nat
      BY <1>2, <1>3
    <3>. QED  BY <1>2, <3>1, FS_AddElement
  <2>2. cursor' = Max(S) /\ Max(S) \in S /\ \A k \in S : k <= Max(S)
    <3>1. cursor' = Max(S)
      BY <1>0, <1>7 DEF NextCursor
    <3>2. Max(S) \in S /\ \A k \in S : k <= Max(S)
      <4> HIDE DEF S
      <4>. QED  BY <2>1, MaxIs
    <3>. QED  BY <3>1, <3>2
  <2>3. ByCursorOK
    BY <1>0, <1>7 DEF ListInv
  <2>4. cursor \in Nat /\ cursor' \in Nat /\ cursor <= cursor'
    BY <1>3, <2>1, <2>2
  <2>5. ASSUME NEW k \in Here \ touched.come, k <= cursor'
        PROVE  k \in found'
    <3>1. k \in Nat
      BY <1>3
    <3>2. CASE k <= cursor
      BY <1>0, <2>3, <3>2 DEF ByCursorOK
    <3>3. CASE k > cursor
      <4>1. k \in Rest
        BY <1>0, <1>7, <3>3, PageIsNew
      <4>2. cursor' # cursor
        BY <2>4, <2>5, <3>1, <3>3
      <4>3. cursor' \in Page(n)
        BY <2>2, <4>2
      <4>4. cursor' \in Rest /\ Place(Rest, cursor') <= n
        BY <4>3 DEF Page
      <4>5. CASE k = cursor'
        BY <1>0, <4>3, <4>5
      <4>6. CASE k < cursor'
        <5>1. Place(Rest, k) < Place(Rest, cursor') /\ Place(Rest, k) \in Nat
              /\ Place(Rest, cursor') \in Nat
          BY <1>3, <4>1, <4>4, <4>6, PlaceIs
        <5>2. Place(Rest, k) <= n
          BY <1>3, <4>4, <5>1
        <5>3. k \in Page(n)
          BY <4>1, <5>2 DEF Page
        <5>. QED  BY <1>0, <5>3
      <4>. QED  BY <2>4, <2>5, <3>1, <4>5, <4>6
    <3>. QED  BY <2>4, <3>1, <3>2, <3>3
  <2>6. ASSUME NEW k \in FoundOf(project)'
        PROVE  k <= cursor'
    <3>1. CASE k \in FoundOf(project)
      <4>1. k <= cursor
        BY <2>3, <3>1 DEF ByCursorOK
      <4>2. k \in Nat
        <5>1. k \in IssueKeys
          BY <1>0, <3>1 DEF FoundOf, ListShapes
        <5>. QED  BY <1>0, <5>1, IssueTypes
      <4>. QED  BY <2>4, <4>1, <4>2
    <3>2. CASE k \in Page(n)
      BY <2>2, <3>2
    <3>. QED  BY <1>5, <2>6, <3>1, <3>2
  <2>7. ByCursorOK'
    BY <1>0, <1>1, <2>5, <2>6 DEF ByCursorOK
  <2>. QED  BY <1>1, <1>4, <1>7, <2>7
<1>. QED  BY <1>6, <1>7

(* What the pages have brought is never less than the smallest each.       *)
LEMMA PaceStays ==
    ASSUME NEW s \in Nat, NEW t \in Nat, NEW n \in Nat, NEW x \in Nat, NEW c \in Nat,
           t <= s, t <= n, s * x <= c
    PROVE  t * (x + 1) <= c + n
<1>1. t * (x + 1) = t * x + t /\ t * x \in Nat /\ s * x \in Nat
  OBVIOUS
<1>2. t * x <= s * x
  <2>1. PICK d \in Nat : s = t + d
    <3>1. s - t \in Nat /\ s = t + (s - t)
      OBVIOUS
    <3>. QED  BY <3>1
  <2>2. s * x = t * x + d * x /\ d * x \in Nat
    BY <2>1
  <2>. QED  BY <1>1, <2>2
<1>. QED  BY <1>1, <1>2

LEMMA PaceKeeps ==
    ASSUME ListInv, NEW a \in Answers, FetchPage(a), ~Drifted, listing' = "running"
    PROVE  Paced'
<1>0. /\ ListShapes /\ ListShapes' /\ Paced /\ server' = server /\ pages' = pages + 1
      /\ Cardinality(found') = Cardinality(found) + a.size /\ Cardinality(found) \in Nat
      /\ a.size \in Nat /\ MaxIssues \in Nat
  <2>1. ListShapes /\ Paced
    BY DEF FetchPage, ListInv
  <2>2. ListShapes' /\ Cardinality(found') = Cardinality(found) + a.size
    BY PageKeepsPlain
  <2>3. Cardinality(found) \in Nat
    BY <2>1, IssueTypes
  <2>. QED  BY <2>1, <2>2, <2>3, IssueListingAssumption DEF FetchPage, Answers
<1>1. /\ project \in Nat \ {0} /\ pages \in Nat /\ smallest \in Nat \ {0} /\ smallest' \in Nat \ {0}
  BY <1>0, IssueListingAssumption DEF ListShapes
<1>2. project' = IF a.last THEN project + 1 ELSE project
  BY DEF FetchPage
<1>3. (project - 1 <= pages)'
  BY <1>0, <1>1, <1>2 DEF Paced
<1>4. (Limited => Cardinality(found) <= MaxIssues)'
  <2>1. Limited => ~(Cardinality(found') > MaxIssues)
    BY DEF FetchPage
  <2>2. Limited' <=> Limited
    BY <1>0 DEF Limited
  <2>. QED  BY <1>0, <2>1, <2>2
<1>5. ASSUME touched'.blank = FALSE
      PROVE  smallest' * (pages' - (project' - 1)) <= Cardinality(found')
  <2>1. touched.blank = FALSE /\ ~(a.size = 0 /\ ~a.last)
    BY <1>0, <1>5 DEF FetchPage, ListShapes
  <2> DEFINE x == pages - (project - 1)
  <2>2. x \in Nat /\ smallest * x <= Cardinality(found)
    BY <1>0, <1>1, <2>1 DEF Paced
  <2>3. CASE a.last
    <3>1. pages' - (project' - 1) = x /\ smallest' = smallest
      BY <1>0, <1>1, <1>2, <2>3 DEF FetchPage
    <3> HIDE DEF x
    <3>2. smallest * x \in Nat
      BY <1>1, <2>2
    <3>. QED  BY <1>0, <2>2, <3>1, <3>2
  <2>4. CASE ~a.last
    <3>1. pages' - (project' - 1) = x + 1
      BY <1>0, <1>1, <1>2, <2>4
    <3>2. smallest' <= smallest /\ smallest' <= a.size
      <4>1. a.size >= 1
        BY <1>0, <2>1, <2>4
      <4>2. smallest' = IF a.size \in 1..smallest THEN a.size ELSE smallest
        BY <2>4 DEF FetchPage
      <4>. QED  BY <1>0, <1>1, <4>1, <4>2
    <3> HIDE DEF x
    <3>3. smallest' * (x + 1) <= Cardinality(found) + a.size
      BY <1>0, <1>1, <2>2, <3>2, PaceStays
    <3>. QED  BY <1>0, <3>1, <3>3
  <2>. QED  BY <2>3, <2>4
<1>. QED  BY <1>3, <1>4, <1>5 DEF Paced

LEMMA FetchKeeps ==
    ASSUME ListInv, NEW a \in Answers, FetchPage(a)
    PROVE  ListInv'
<1>1. CASE Drifted
  <2>1. /\ listing' = "drifted" /\ listing = "running" /\ pages' = pages + 1
        /\ touched' = [touched EXCEPT !.blank = @ \/ (a.size = 0 /\ ~a.last)]
        /\ UNCHANGED <<project, cursor, total, found, smallest, server, issues>>
    BY <1>1 DEF FetchPage
  <2>2. ListShapes /\ a.last \in BOOLEAN
    BY DEF ListInv, Answers
  <2>3. touched'.come = touched.come /\ touched'.gone = touched.gone
        /\ touched' \in [come : SUBSET IssueKeys, gone : SUBSET IssueKeys, blank : BOOLEAN]
    BY <2>1, <2>2 DEF ListShapes
  <2>4. ListShapes'
    BY <2>1, <2>2, <2>3 DEF ListShapes
  <2>5. OneWay'
    BY <2>1, <2>3 DEF ListInv, OneWay, ByOffset
  <2>. QED  BY <2>1, <2>3, <2>4, <2>5 DEF ListInv
<1>2. CASE ~Drifted
  <2>1. /\ ListShapes' /\ OneWay'
        /\ (found \subseteq issues \cup touched.gone)'
        /\ (\A k \in issues \ touched.come : ProjectOf[k] < project => k \in found)'
        /\ (listing = "listed" => \A p \in Listed : p < project)'
        /\ (listing = "over_budget" => touched.blank)'
    BY <1>2, PageKeepsPlain
  <2>2. ASSUME listing' = "running"
        PROVE  /\ (project \in Listed /\ \A k \in found : ProjectOf[k] <= project)'
               /\ (IF ByOffset THEN ByOffsetOK ELSE ByCursorOK)'
               /\ Paced'
    <3>1. CASE a.last
      BY <1>2, <2>2, <3>1, LastPageKeeps, PaceKeeps
    <3>2. CASE ~a.last
      BY <1>2, <2>2, <3>2, NextPageKeeps, PaceKeeps
    <3>. QED  BY <3>1, <3>2
  <2>. QED  BY <2>1, <2>2 DEF ListInv
<1>. QED  BY <1>1, <1>2

(* Too many pages, though none was empty, would be more issues than the    *)
(* most a listing may have.                                                *)
LEMMA BudgetIsEnough ==
    ASSUME NEW M \in Nat, NEW s \in Nat \ {0}, NEW x \in Nat, NEW c \in Nat,
           s * x <= c, c <= M
    PROVE  x <= (M + s - 1) \div s
<1> DEFINE q == (M + s - 1) \div s
<1>1. q \in Nat /\ M + s - 1 < s * q + s /\ s * q \in Nat
  OBVIOUS
<1> HIDE DEF q
<1>2. SUFFICES ASSUME x > q PROVE FALSE
  BY <1>1 DEF q
<1>3. PICK d \in Nat : x = q + 1 + d
  <2>1. x - (q + 1) \in Nat /\ x = q + 1 + (x - (q + 1))
    BY <1>1, <1>2
  <2>. QED  BY <2>1
<1>4. s * x = s * q + s + s * d /\ s * d \in Nat
  BY <1>1, <1>3
<1>. QED  BY <1>1, <1>4

LEMMA OverBudgetKeeps ==
    ASSUME ListInv, OverBudget
    PROVE  ListInv'
<1>1. /\ listing = "running" /\ Limited /\ pages >= Budget /\ listing' = "over_budget" /\ ListShapes
      /\ UNCHANGED <<server, issues, project, cursor, total, found, pages, smallest, touched>>
  BY DEF OverBudget, ListInv
<1>2. touched.blank
  <2>1. SUFFICES ASSUME touched.blank = FALSE PROVE FALSE
    BY <1>1 DEF ListShapes
  <2>2. /\ smallest * (pages - (project - 1)) <= Cardinality(found) /\ project - 1 <= pages
        /\ Cardinality(found) <= MaxIssues /\ project \in Listed
    BY <1>1, <2>1 DEF ListInv, Paced
  <2>3. Cardinality(Listed) = 2 /\ project \in 1..2
    BY <1>1, <2>2, ListedIs
  <2>4. /\ Cardinality(found) \in Nat /\ pages \in Nat /\ MaxIssues \in Nat
        /\ smallest \in Nat \ {0}
    BY <1>1, IssueTypes, IssueListingAssumption DEF ListShapes
  <2> DEFINE x == pages - (project - 1)
             q == (MaxIssues + smallest - 1) \div smallest
  <2>5. x \in Nat
    BY <2>2, <2>3, <2>4
  <2>6. x <= q
    <3> HIDE DEF q
    <3>1. smallest * x <= Cardinality(found)
      BY <2>2
    <3> HIDE DEF x
    <3>. QED  BY <2>2, <2>4, <2>5, <3>1, BudgetIsEnough DEF q
  <2>7. Budget = q + 2
    BY <2>3 DEF Budget
  <2>8. q \in Nat
    BY <2>4
  <2> HIDE DEF q
  <2>. QED  BY <1>1, <2>3, <2>4, <2>6, <2>7, <2>8
<1>3. ListShapes'
  BY <1>1 DEF ListShapes
<1>4. OneWay'
  BY <1>1 DEF ListInv, OneWay, ByOffset
<1>. QED  BY <1>1, <1>2, <1>3, <1>4 DEF ListInv

LEMMA FailureKeeps ==
    ASSUME ListInv, ListingFails
    PROVE  ListInv'
<1>1. /\ listing' = "failed"
      /\ UNCHANGED <<server, issues, project, cursor, total, found, pages, smallest, touched>>
  BY DEF ListingFails
<1>2. ListShapes'
  BY <1>1 DEF ListInv, ListShapes
<1>3. OneWay'
  BY <1>1 DEF ListInv, OneWay, ByOffset
<1>. QED  BY <1>1, <1>2, <1>3 DEF ListInv

(* Issues that come or go at the provider.                                 *)
LEMMA ComingKeeps ==
    ASSUME ListInv, NEW k \in IssueKeys, IssueComes(k)
    PROVE  ListInv'
<1>0. /\ listing = "running" /\ ListShapes /\ OneWay /\ issues' = issues \cup {k}
      /\ UNCHANGED <<server, project, cursor, total, found, pages, smallest, listing>>
      /\ touched' = [touched EXCEPT !.come = @ \cup {k}]
      /\ ~Mixed /\ ByOffset => touched.gone = {}
  BY DEF IssueComes, PagesSame, ListInv
<1>1. /\ touched'.come = touched.come \cup {k} /\ touched'.gone = touched.gone
      /\ touched'.blank = touched.blank
      /\ touched' \in [come : SUBSET IssueKeys, gone : SUBSET IssueKeys, blank : BOOLEAN]
  BY <1>0 DEF ListShapes
<1>2. k \notin issues /\ k \in Nat
  <2>1. \A j \in IssueKeys : j \in Nat
    BY <1>0, IssueTypes
  <2>2. \A j \in issues : ProjectOf[j] = ProjectOf[k] => j < k
    BY DEF IssueComes
  <2>3. k \in issues => k < k
    BY <2>2
  <2>. QED  BY <2>1, <2>3
<1>3. ListShapes'
  BY <1>0, <1>1 DEF ListShapes
<1>4. OneWay'
  BY <1>0, <1>1 DEF OneWay, ByOffset
<1>5. (found \subseteq issues \cup touched.gone)'
  BY <1>0, <1>1 DEF ListInv
<1>6. (\A j \in issues \ touched.come : ProjectOf[j] < project => j \in found)'
  <2>1. issues' \ touched'.come \subseteq issues \ touched.come
    BY <1>0, <1>1
  <2>. QED  BY <1>0, <2>1 DEF ListInv
<1>7. Listed' = Listed /\ (ByOffset' <=> ByOffset) /\ (Limited' <=> Limited)
  BY <1>0 DEF Listed, ByOffset, Limited
<1>8. Paced'
  BY <1>0, <1>1, <1>7 DEF ListInv, Paced
<1>9. /\ IsFiniteSet(Here) /\ Cardinality(Here) \in Nat /\ k \notin Here
      /\ Here' = IF ProjectOf[k] = project THEN Here \cup {k} ELSE Here
  <2>1. IsFiniteSet(Here) /\ Cardinality(Here) \in Nat
    BY <1>0, IssueTypes
  <2>2. Here' = {j \in issues \cup {k} : ProjectOf[j] = project}
    BY <1>0 DEF Here
  <2>. QED  BY <1>2, <2>1, <2>2 DEF Here
<1>10. CASE ByOffset
  <2>1. ByOffsetOK /\ touched.gone = {}
    BY <1>0, <1>10 DEF ListInv, OneWay
  <2>2. FoundOf(project)' = FoundOf(project)
    BY <1>0 DEF FoundOf
  <2>3. CASE total = {}
    BY <1>0, <1>3, <1>4, <1>5, <1>6, <1>7, <1>8, <1>10, <2>1, <2>2, <2>3 DEF ListInv, ByOffsetOK
  <2>4. CASE total # {} /\ ProjectOf[k] # project
    <3>1. Here' = Here
      BY <1>9, <2>4
    <3>2. Passed' = Passed
      BY <1>0, <3>1 DEF Passed
    <3>3. Shifted => Shifted'
      BY <1>0, <1>1, <3>1 DEF Shifted
    <3>4. ByOffsetOK'
      BY <1>0, <2>1, <2>2, <2>4, <3>1, <3>2, <3>3 DEF ByOffsetOK
    <3>. QED  BY <1>0, <1>3, <1>4, <1>5, <1>6, <1>7, <1>8, <1>10, <3>4 DEF ListInv
  <2>5. CASE total # {} /\ ProjectOf[k] = project
    <3>1. Here' = Here \cup {k} /\ Cardinality(Here') = Cardinality(Here) + 1
      <4>1. Here' = Here \cup {k}
        BY <1>9, <2>5
      <4>. QED  BY <1>9, <4>1, FS_AddElement
    <3>2. \A m \in total : m \in Nat /\ m <= Cardinality(Here)
      <4>1. \A m \in total : m \in Nat
        BY <1>0 DEF ListShapes
      <4>2. CASE Shifted
        BY <1>9, <2>1, <4>1, <4>2 DEF Shifted
      <4>3. CASE ~Shifted
        BY <1>9, <2>1, <2>5, <4>3 DEF ByOffsetOK
      <4>. QED  BY <4>2, <4>3
    <3>3. \A m \in total : m < Cardinality(Here) + 1
      BY <1>9, <3>2
    <3>4. Cardinality(Here) + 1 \notin total
      BY <1>9, <3>2
    <3>5. Shifted'
      BY <1>0, <1>1, <3>1, <3>3, <3>4 DEF Shifted
    <3>6. ByOffsetOK'
      BY <1>0, <2>5, <3>5 DEF ByOffsetOK
    <3>. QED  BY <1>0, <1>3, <1>4, <1>5, <1>6, <1>7, <1>8, <1>10, <3>6 DEF ListInv
  <2>. QED  BY <2>3, <2>4, <2>5
<1>11. CASE ~ByOffset
  <2>1. Here' \ touched'.come \subseteq Here \ touched.come
    BY <1>1, <1>9
  <2>2. FoundOf(project)' = FoundOf(project)
    BY <1>0 DEF FoundOf
  <2>3. ByCursorOK
    BY <1>0, <1>11 DEF ListInv
  <2>4. ByCursorOK'
    BY <1>0, <2>1, <2>2, <2>3 DEF ByCursorOK
  <2>. QED  BY <1>0, <1>3, <1>4, <1>5, <1>6, <1>7, <1>8, <1>11, <2>4 DEF ListInv
<1>. QED  BY <1>10, <1>11

LEMMA GoingKeeps ==
    ASSUME ListInv, NEW k \in IssueKeys, IssueGoes(k)
    PROVE  ListInv'
<1>0. /\ listing = "running" /\ ListShapes /\ OneWay /\ issues' = issues \ {k} /\ k \in issues
      /\ UNCHANGED <<server, project, cursor, total, found, pages, smallest, listing>>
      /\ touched' = [touched EXCEPT !.gone = @ \cup {k}]
      /\ ~Mixed /\ ByOffset => touched.come = {}
  BY DEF IssueGoes, PagesSame, ListInv
<1>1. /\ touched'.gone = touched.gone \cup {k} /\ touched'.come = touched.come
      /\ touched'.blank = touched.blank
      /\ touched' \in [come : SUBSET IssueKeys, gone : SUBSET IssueKeys, blank : BOOLEAN]
  BY <1>0 DEF ListShapes
<1>2. ListShapes'
  BY <1>0, <1>1 DEF ListShapes
<1>3. OneWay'
  BY <1>0, <1>1 DEF OneWay, ByOffset
<1>4. (found \subseteq issues \cup touched.gone)'
  BY <1>0, <1>1 DEF ListInv
<1>5. (\A j \in issues \ touched.come : ProjectOf[j] < project => j \in found)'
  <2>1. issues' \ touched'.come \subseteq issues \ touched.come
    BY <1>0, <1>1
  <2>. QED  BY <1>0, <2>1 DEF ListInv
<1>6. Listed' = Listed /\ (ByOffset' <=> ByOffset) /\ (Limited' <=> Limited)
  BY <1>0 DEF Listed, ByOffset, Limited
<1>7. Paced'
  BY <1>0, <1>1, <1>6 DEF ListInv, Paced
<1>8. /\ IsFiniteSet(Here) /\ Cardinality(Here) \in Nat
      /\ Here' = IF ProjectOf[k] = project THEN Here \ {k} ELSE Here
      /\ (ProjectOf[k] = project => k \in Here)
  <2>1. IsFiniteSet(Here) /\ Cardinality(Here) \in Nat
    BY <1>0, IssueTypes
  <2>2. Here' = {j \in issues \ {k} : ProjectOf[j] = project}
    BY <1>0 DEF Here
  <2>. QED  BY <1>0, <2>1, <2>2 DEF Here
<1>9. CASE ByOffset
  <2>1. ByOffsetOK /\ touched.come = {}
    BY <1>0, <1>9 DEF ListInv, OneWay
  <2>2. FoundOf(project)' = FoundOf(project)
    BY <1>0 DEF FoundOf
  <2>3. CASE total = {}
    BY <1>0, <1>2, <1>3, <1>4, <1>5, <1>6, <1>7, <1>9, <2>1, <2>2, <2>3 DEF ListInv, ByOffsetOK
  <2>4. CASE total # {} /\ ProjectOf[k] # project
    <3>1. Here' = Here
      BY <1>8, <2>4
    <3>2. Passed' = Passed
      BY <1>0, <3>1 DEF Passed
    <3>3. Shifted => Shifted'
      BY <1>0, <1>1, <3>1 DEF Shifted
    <3>4. ByOffsetOK'
      BY <1>0, <2>1, <2>2, <2>4, <3>1, <3>2, <3>3 DEF ByOffsetOK
    <3>. QED  BY <1>0, <1>2, <1>3, <1>4, <1>5, <1>6, <1>7, <1>9, <3>4 DEF ListInv
  <2>5. CASE total # {} /\ ProjectOf[k] = project
    <3>1. Cardinality(Here') = Cardinality(Here) - 1
      <4>1. Here' = Here \ {k} /\ k \in Here
        BY <1>8, <2>5
      <4>. QED  BY <1>8, <4>1, FS_RemoveElement
    <3>2. \A m \in total : m \in Nat /\ Cardinality(Here) <= m
      <4>1. \A m \in total : m \in Nat
        BY <1>0 DEF ListShapes
      <4>2. CASE Shifted
        BY <1>8, <2>1, <4>1, <4>2 DEF Shifted
      <4>3. CASE ~Shifted
        BY <1>8, <2>1, <2>5, <4>3 DEF ByOffsetOK
      <4>. QED  BY <4>2, <4>3
    <3>3. \A m \in total : Cardinality(Here) - 1 < m
      BY <1>8, <3>2
    <3>4. Cardinality(Here) - 1 \notin total
      BY <1>8, <3>2
    <3>5. Shifted'
      BY <1>0, <1>1, <3>1, <3>3, <3>4 DEF Shifted
    <3>6. ByOffsetOK'
      BY <1>0, <2>5, <3>5 DEF ByOffsetOK
    <3>. QED  BY <1>0, <1>2, <1>3, <1>4, <1>5, <1>6, <1>7, <1>9, <3>6 DEF ListInv
  <2>. QED  BY <2>3, <2>4, <2>5
<1>10. CASE ~ByOffset
  <2>1. Here' \subseteq Here
    BY <1>8
  <2>2. FoundOf(project)' = FoundOf(project)
    BY <1>0 DEF FoundOf
  <2>3. ByCursorOK
    BY <1>0, <1>10 DEF ListInv
  <2>4. ByCursorOK'
    BY <1>0, <1>1, <2>1, <2>2, <2>3 DEF ByCursorOK
  <2>. QED  BY <1>0, <1>2, <1>3, <1>4, <1>5, <1>6, <1>7, <1>10, <2>4 DEF ListInv
<1>. QED  BY <1>9, <1>10

LEMMA ListingInductive ==
    ASSUME ~Mixed \/ "data_center" \notin Servers
    PROVE  /\ ListInit => ListInv
           /\ ListInv /\ [ListNext]_listVars => ListInv'
<1>1. ASSUME ListInit
      PROVE  ListInv
  <2>1. /\ server \in Servers /\ issues \in SUBSET IssueKeys /\ project = 1 /\ cursor = 0
        /\ total = {} /\ found = {} /\ pages = 0 /\ smallest = PageSize /\ listing = "running"
        /\ touched = [come |-> {}, gone |-> {}, blank |-> FALSE]
    BY <1>1 DEF ListInit
  <2>2. smallest \in 1..PageSize /\ MaxIssues \in Nat
    BY <2>1, IssueListingAssumption
  <2>3. ListShapes
    BY <2>1, <2>2 DEF ListShapes
  <2>4. OneWay
    BY <2>1 DEF OneWay, ByOffset
  <2>5. \A k \in issues : ~(ProjectOf[k] < project)
    <3>1. \A k \in issues : ProjectOf[k] \in 1..2
      BY <2>1, <2>3, IssueTypes
    <3>. QED  BY <2>1, <3>1
  <2>6. project \in Listed
    BY <2>1 DEF Listed
  <2>7. ByOffsetOK
    BY <2>1 DEF ByOffsetOK, FoundOf
  <2>8. ByCursorOK
    <3>1. \A k \in Here : ~(k <= 0)
      <4>1. \A k \in Here : k \in Nat \ {0}
        BY <2>3, IssueTypes DEF ListShapes
      <4>. QED  BY <4>1
    <3>. QED  BY <2>1, <3>1 DEF ByCursorOK, FoundOf
  <2>9. Paced
    <3>1. Cardinality(found) = 0
      BY <2>1, FS_EmptySet
    <3>2. smallest * (pages - (project - 1)) = 0 /\ project - 1 = 0
      BY <2>1, <2>2, IssueListingAssumption
    <3>. QED  BY <2>1, <2>2, <3>1, <3>2 DEF Paced
  <2>. QED  BY <2>1, <2>3, <2>4, <2>5, <2>6, <2>7, <2>8, <2>9 DEF ListInv
<1>2. ASSUME ListInv, [ListNext]_listVars
      PROVE  ListInv'
  <2>1. CASE \E a \in Answers : FetchPage(a)
    BY <1>2, <2>1, FetchKeeps
  <2>2. CASE OverBudget
    BY <1>2, <2>2, OverBudgetKeeps
  <2>3. CASE ListingFails
    BY <1>2, <2>3, FailureKeeps
  <2>4. CASE \E k \in IssueKeys : IssueComes(k) \/ IssueGoes(k)
    BY <1>2, <2>4, ComingKeeps, GoingKeeps
  <2>5. CASE UNCHANGED listVars
    <3>1. ListShapes' /\ OneWay' /\ Here' = Here /\ Listed' = Listed
      BY <1>2, <2>5 DEF ListInv, listVars, ListShapes, OneWay, ByOffset, Here, Listed
    <3>2. /\ ByOffset' <=> ByOffset
          /\ ByOffsetOK => ByOffsetOK'
          /\ ByCursorOK => ByCursorOK'
          /\ Paced => Paced'
      BY <2>5, <3>1 DEF listVars, ByOffset, ByOffsetOK, ByCursorOK, Paced, Limited, Shifted,
            Passed, FoundOf
    <3>. QED  BY <1>2, <2>5, <3>1, <3>2 DEF ListInv, listVars
  <2>. QED  BY <1>2, <2>1, <2>2, <2>3, <2>4, <2>5 DEF ListNext
<1>. QED  BY <1>1, <1>2

LEMMA ListsWhole ==
    ASSUME ListInv
    PROVE  ListedWhole
<1>1. ASSUME listing = "listed", NEW k \in issues \ touched.come, ProjectOf[k] \in Listed
      PROVE  k \in found
  BY <1>1 DEF ListInv
<1>. QED  BY <1>1 DEF ListInv, ListedWhole

-----------------------------------------------------------------------------
(* What a listing that does not raise passes on is what is there, page by  *)
(* page (JiraIssueDocuments.list_documents, get_project_v2_items) and      *)
(* folder by folder (GoogleDriveConnector.list_documents): all that        *)
(* stayed, and nothing that never was; and only an empty page can exhaust  *)
(* the budget of pages.  By an offset this needs that, while it runs,      *)
(* issues only come or only go, as listing_shift shows.                    *)
THEOREM ListingsPassOnWhole ==
    ASSUME ~Mixed \/ "data_center" \notin Servers
    PROVE  ListingsSpec => []PassedOnWhole
<1>1. ListingsInit => ListInv /\ WalkInv
  BY ListingInductive, WalkInductive DEF ListingsInit
<1>2. ListInv /\ WalkInv /\ [ListingsNext]_<<listVars, walkVars>> => (ListInv /\ WalkInv)'
  <2>1. [ListingsNext]_<<listVars, walkVars>> => [ListNext]_listVars /\ [WalkNext]_walkVars
    BY Zenon DEF ListingsNext
  <2>. QED  BY <2>1, ListingInductive, WalkInductive
<1>3. ListInv /\ WalkInv => PassedOnWhole
  BY ListsWhole, WalksWhole DEF PassedOnWhole
<1>. QED  BY <1>1, <1>2, <1>3, PTL DEF ListingsSpec
=============================================================================
