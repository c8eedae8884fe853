------------------------------ MODULE Chunking ------------------------------
(***************************************************************************)
(* How the text of a document is cut into the chunks that are embedded     *)
(* (src/application/chunking.py): in windows that overlap, or, in          *)
(* markdown, along its blocks, where a table that is too long is cut       *)
(* between rows and each piece has the header again.                       *)
(*                                                                         *)
(* A text is a sequence of lines of a kind and a length; a character is    *)
(* known by its line and its place in it, and the last one of a line is    *)
(* the line break.  Blank characters other than line breaks are left out.  *)
(***************************************************************************)
EXTENDS Naturals, SequencesExt

CONSTANTS Lines,         \* records of a kind and a size
          MaxLines,
          Cuts           \* chunk sizes with their overlap

\* A line that is not blank has a character besides its line break.
ASSUME ChunkingAssumption ==
  /\ MaxLines \in Nat
  /\ \A l \in Lines : l.size \in Nat \ {0} /\ (l.size = 1 <=> l.kind = "blank")
  /\ \A c \in Cuts : c.size \in Nat /\ c.overlap \in Nat

VARIABLES document, cut, chunks

chunkingVars == <<document, cut, chunks>>

Documents ==
  {d \in [markdown : BOOLEAN, lines : UNION {[1..n -> Lines] : n \in 1..MaxLines}] :
     \E i \in DOMAIN d.lines : d.lines[i].size > 1}

\* Other settings are refused.
Allowed == {c \in Cuts : c.size > 0 /\ c.overlap < c.size}

ChunkingInit ==
  /\ document \in Documents
  /\ cut \in Allowed
  /\ chunks = <<>>

-----------------------------------------------------------------------------
Break == [line |-> 0, at |-> 1, breaks |-> TRUE]
Line(i) == [k \in 1..document.lines[i].size |->
              [line |-> i, at |-> k, breaks |-> k = document.lines[i].size]]
\* The text of some lines, given by their numbers.
Text(numbers) == FlattenSeq([j \in DOMAIN numbers |-> Line(numbers[j])])

Blank(s) == \A i \in DOMAIN s : s[i].breaks
Stripped(s) == SubSeq(s, 1, Max({i \in DOMAIN s : ~s[i].breaks} \union {0}))
NotBlank(pieces) ==
  FlattenSeq([k \in DOMAIN pieces |-> IF Blank(pieces[k]) THEN <<>> ELSE <<pieces[k]>>])
Fits(s) == Len(s) <= cut.size

\* _chunk_character_windows; blank ones are left out.
Step == cut.size - cut.overlap
Windows(s) ==
  LET last == (Len(s) - cut.size + Step - 1) \div Step
      window(k) == SubSeq(s, k * Step + 1, Min({k * Step + cut.size, Len(s)}))
  IN IF Fits(s) THEN <<s>>
     ELSE NotBlank([k \in 1..last + 1 |-> window(k - 1)])

-----------------------------------------------------------------------------
(* Markdown.                                                               *)

Kind(i) == document.lines[i].kind
RowKinds == {"row", "separator"}

\* Whether a line belongs to the block that is open.
Continues(open, kind) ==
  \/ open = "fence"
  \/ open = "row" /\ kind \in RowKinds
  \/ open = "item" /\ kind \in {"item", "indented"}
  \/ open = "text" /\ kind \in {"text", "indented"}
Opens(kind) ==
  IF kind \in RowKinds THEN "row" ELSE IF kind = "indented" THEN "text" ELSE kind

AddLine(parsed, i) ==
  IF Continues(parsed.open, Kind(i))
  THEN LET n == Len(parsed.blocks) IN
       [blocks |-> [parsed.blocks EXCEPT ![n] = Append(@, i)],
        open |-> IF parsed.open = Kind(i) /\ Kind(i) = "fence" THEN "none"
                 ELSE parsed.open]
  ELSE [blocks |-> IF Kind(i) = "blank" THEN parsed.blocks
                   ELSE Append(parsed.blocks, <<i>>),
        open |-> Opens(Kind(i))]

Numbers == [i \in DOMAIN document.lines |-> i]
\* After the first lines
Parsed[i \in 0..Len(document.lines)] ==
  IF i = 0 THEN [blocks |-> <<>>, open |-> "none"] ELSE AddLine(Parsed[i - 1], i)
Blocks == Parsed[Len(document.lines)].blocks

\* The header of a table, with its separator if it has one.
Headed(table) ==
  IF Len(table) > 1 /\ Kind(table[2]) = "separator" THEN 2 ELSE 1
Prefix(table) == Text(SubSeq(table, 1, Headed(table)))
Data(table)   == SubSeq(table, Headed(table) + 1, Len(table))
RowsFit(table) ==
  Data(table) # <<>> /\ \A i \in ToSet(Data(table)) : Fits(Prefix(table) \o Line(i))

NextPiece(table, i) == Prefix(table) \o Line(i)

AddRow(table, cutting, i) ==
  IF Fits(cutting.current \o Line(i))
  THEN [cutting EXCEPT !.current = @ \o Line(i)]
  ELSE [done |-> Append(cutting.done, Stripped(cutting.current)),
        current |-> NextPiece(table, i)]

SplitTable(table) ==
  LET data == Data(table)
      split[n \in 0..Len(data)] ==
        IF n = 0 THEN [done |-> <<>>, current |-> Prefix(table)]
        ELSE AddRow(table, split[n - 1], data[n])
      end == split[Len(data)]
  IN IF RowsFit(table) THEN Append(end.done, Stripped(end.current))
     ELSE Windows(Text(table))

Pieces(block) ==
  IF Fits(Text(block)) THEN <<Text(block)>>
  ELSE IF Kind(Head(block)) \in RowKinds THEN SplitTable(block)
  ELSE Windows(Text(block))

\* Blocks are put together while they fit; the last piece of one that was
\* cut may be followed by the next block.
AddBlock(packing, block) ==
  LET joined == packing.current
                \o (IF Last(packing.current).breaks THEN <<Break>> ELSE <<Break, Break>>)
                \o Text(block)
      kept == IF packing.current = <<>> THEN packing.packed
              ELSE Append(packing.packed, packing.current)
  IN IF packing.current # <<>> /\ Fits(joined) THEN [packing EXCEPT !.current = joined]
     ELSE [packed |-> kept \o Front(Pieces(block)), current |-> Last(Pieces(block))]

Packed ==
  LET blocks == Blocks
      packing[n \in 0..Len(blocks)] ==
        IF n = 0 THEN [packed |-> <<>>, current |-> <<>>]
        ELSE AddBlock(packing[n - 1], blocks[n])
      end == packing[Len(blocks)]
  IN Append(end.packed, end.current)

-----------------------------------------------------------------------------
Whole == Text(Numbers)

Chunked ==
  IF Fits(Whole) THEN <<Whole>>
  ELSE IF document.markdown THEN Packed ELSE Windows(Whole)

\* chunk_document
ChunkDocument ==
  /\ chunks = <<>>
  /\ chunks' = NotBlank(Chunked)
  /\ UNCHANGED <<document, cut>>

ChunkingNext == ChunkDocument
ChunkingSpec == ChunkingInit /\ [][ChunkingNext]_chunkingVars

-----------------------------------------------------------------------------
\* A run of characters is together in some chunk.
Together(s) == \E c \in ToSet(chunks) : \E k \in 0..Len(c) - Len(s) :
                 SubSeq(c, k + 1, k + Len(s)) = s

(* No chunk is blank or longer than the limit; no character is lost; in a  *)
(* text without structure, what fits into the overlap and one character    *)
(* more is never cut apart; and a row of a table that can be cut between   *)
(* rows is whole and in one chunk with the table's header (chunking.py,    *)
(* chunk_document: "so table rows ... stay intact when possible").         *)
TextKept ==
  chunks # <<>> =>
    /\ \A c \in ToSet(chunks) : Fits(c) /\ ~Blank(c)
    /\ \A x \in ToSet(Whole) : ~x.breaks => Together(<<x>>)
    /\ ~document.markdown =>
         \A k \in 0..Len(Whole) - cut.overlap - 1 :
           LET s == SubSeq(Whole, k + 1, k + cut.overlap + 1) IN
           Blank(s) \/ Together(s)
    /\ document.markdown =>
         \A b \in ToSet(Blocks) :
           Kind(Head(b)) \in RowKinds /\ RowsFit(b) =>
             \A i \in ToSet(Data(b)) : \E c \in ToSet(chunks) :
               ToSet(Stripped(Prefix(b))) \union ToSet(Stripped(Line(i))) \subseteq ToSet(c)
=============================================================================
