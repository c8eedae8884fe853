------------------------- MODULE TestDesign_proofs -------------------------
(***************************************************************************)
(* Test Design drafts: type correctness, what a confirmed draft stands on, *)
(* what becomes of edited cases and of the evidence, and that the server   *)
(* implements the draft whose requests act at once (AtomicDraft), for      *)
(* every number of threads, candidates, texts, types and versions; then    *)
(* the replies of the model, for every scenario, Background and source.    *)
(***************************************************************************)
EXTENDS DraftReplies, FiniteSetTheorems, SequenceTheorems, WellFoundedInduction, TLAPS

Fingerprints == Evidence \union {"none"}

\* A patch as a request carries it.
Patch == [listed : BOOLEAN, list : CandidateLists \union {<<>>},
          editing : BOOLEAN, edits : SUBSET CandidateIds]

(* ReadyIsConfirmed, of any draft.                                         *)
DraftOK(d) ==
  /\ d.status \in Confirmed => d.fingerprint # "none" /\ Selected(d.candidates) # {}
  /\ d.status = "coverage_review" => d.fingerprint = "none"
  /\ d.status = "ready" => d.cases = {}
  /\ d.edited \subseteq d.cases
  /\ d.cases \subseteq Selected(d.candidates)

(* What a request of a kind makes of a draft d, all at once.               *)
ByPatch(d, result) ==
  \E p \in [listed : BOOLEAN, list : {result.candidates},
            editing : BOOLEAN, edits : SUBSET d.cases] :
    Patchable(d, p) /\ result = Patched(d, p)

ByConfirm(d, result) ==
  \E e \in Evidence : Confirmable(d) /\ result = ConfirmedBy(d, e)

ByGenerate(d, result, overwrite) ==
  \E targets \in SUBSET Selected(d.candidates), ids \in SUBSET CandidateIds,
     type \in Types :
    /\ d.status \in Confirmed /\ targets # {}
    /\ result = Generated(d, Overridden(d.candidates, ids, type), targets,
                          overwrite, d.fingerprint)

Made(kind, d, result) ==
  \/ kind = "patch" /\ ByPatch(d, result)
  \/ kind = "confirm" /\ ByConfirm(d, result)
  \/ kind = "generate" /\ ByGenerate(d, result, FALSE)
  \/ kind = "overwrite" /\ ByGenerate(d, result, TRUE)

(* The inductive invariant.  What a request knows is what the stored draft *)
(* says for as long as the draft has the version the request expects; its  *)
(* save is refused ever after.                                             *)
Current(r, d) == r.pc # "free" /\ r.expected = d.version

RequestOK(r, d) ==
  /\ r.pc # "free" => r.expected <= d.version /\ r.expected < MaxVersion
  /\ r.pc = "confirm" /\ Current(r, d) => r.base = d /\ Confirmable(d)
  /\ r.pc \in {"fetch", "load"} =>
       r.more.targets # {} /\ r.kind \in {"generate", "overwrite"}
  /\ r.pc = "fetch" /\ Current(r, d) =>
       d.status \in Confirmed /\ r.fingerprint = d.fingerprint
  /\ r.pc = "load" /\ Current(r, d) => r.evidence = d.fingerprint
  /\ r.pc = "save" /\ Current(r, d) => Made(r.kind, d, r.result)

IInv == TypeOK /\ DraftOK(draft) /\ \A w \in Workers : RequestOK(req[w], draft)

-----------------------------------------------------------------------------
(* Drafts as records.                                                      *)

\* A record with the fields of a draft is one.
LEMMA DraftFields ==
  ASSUME NEW d \in Draft
  PROVE  /\ d.status \in Statuses /\ d.candidates \in CandidateLists
         /\ d.cases \in SUBSET CandidateIds /\ d.edited \in SUBSET CandidateIds
         /\ d.fingerprint \in Fingerprints /\ d.version \in Nat \ {0}
BY DEF Draft, Fingerprints

\* Dropping the cases outside a set leaves the rest of a draft alone.
LEMMA KeepsIs ==
  ASSUME NEW d \in Draft, NEW kept
  PROVE  /\ Keeps(d, kept) \in Draft
         /\ Keeps(d, kept).status = d.status
         /\ Keeps(d, kept).candidates = d.candidates
         /\ Keeps(d, kept).cases = d.cases \intersect kept
         /\ Keeps(d, kept).edited = d.edited \intersect kept
         /\ Keeps(d, kept).fingerprint = d.fingerprint
         /\ Keeps(d, kept).version = d.version
BY DEF Draft, Keeps

\* Another list of candidates, likewise.
LEMMA NewListIs ==
  ASSUME NEW d \in Draft, NEW list \in CandidateLists
  PROVE  LET n == [d EXCEPT !.candidates = list] IN
         /\ n \in Draft
         /\ n.status = d.status /\ n.candidates = list /\ n.cases = d.cases
         /\ n.edited = d.edited /\ n.fingerprint = d.fingerprint
         /\ n.version = d.version
BY DEF Draft

\* A draft that is sent back to review, likewise.
LEMMA DemotedIs ==
  ASSUME NEW d \in Draft
  PROVE  LET n == [d EXCEPT !.status = "coverage_review", !.fingerprint = "none"] IN
         /\ n \in Draft
         /\ n.status = "coverage_review" /\ n.fingerprint = "none"
         /\ n.candidates = d.candidates /\ n.cases = d.cases
         /\ n.edited = d.edited /\ n.version = d.version
BY DEF Draft, Statuses

\* The stored draft differs from what was saved in its version.
LEMMA StoredIs ==
  ASSUME NEW d \in Draft
  PROVE  /\ Stored(d) \in Draft
         /\ Stored(d).status = d.status /\ Stored(d).candidates = d.candidates
         /\ Stored(d).cases = d.cases /\ Stored(d).edited = d.edited
         /\ Stored(d).fingerprint = d.fingerprint
         /\ Stored(d).version = d.version + 1
BY DEF Draft, Stored

\* Saving with the version the draft has changes nothing else.
LEMMA SameVersion ==
  ASSUME NEW d \in Draft
  PROVE  [d EXCEPT !.version = d.version] = d
BY DEF Draft

LEMMA ListFields ==
  ASSUME NEW list \in CandidateLists
  PROVE  /\ DOMAIN list \subseteq CandidateIds
         /\ \A c \in DOMAIN list : list[c] \in Candidate
         /\ Selected(list) \subseteq DOMAIN list
BY DEF CandidateLists, Selected

-----------------------------------------------------------------------------
(* What the rules make of a draft that keeps ReadyIsConfirmed.             *)

\* A list that is shorter, longer or different never leaves a case whose
\* candidate is not selected, nor a confirmed draft without a selection.
LEMMA WithCandidatesOK ==
  ASSUME NEW d \in Draft, DraftOK(d), NEW list \in CandidateLists
  PROVE  LET n == WithCandidates(d, list) IN
         /\ n \in Draft /\ DraftOK(n)
         /\ n.candidates = list /\ n.version = d.version
         /\ n.cases \subseteq d.cases
         /\ n.status \in Confirmed =>
              d.status \in Confirmed /\ n.fingerprint = d.fingerprint
<1> DEFINE old == d.candidates
           new == [d EXCEPT !.candidates = list]
<1>1. /\ new \in Draft
      /\ new.status = d.status /\ new.candidates = list /\ new.cases = d.cases
      /\ new.edited = d.edited /\ new.fingerprint = d.fingerprint
      /\ new.version = d.version
  BY NewListIs
<1> HIDE DEF new
<1>2. old \in CandidateLists /\ DOMAIN old \subseteq CandidateIds
  BY DraftFields, ListFields
<1>3. CASE d.status \in Confirmed /\ TitlesOnly(old, list)
  <2>1. WithCandidates(d, list) = new
    BY <1>3 DEF WithCandidates, new
  <2>2. \A c \in DOMAIN old : old[c].selected = list[c].selected
    BY <1>3 DEF TitlesOnly, Untitled
  <2>3. Selected(list) = Selected(old)
    BY <1>3, <2>2 DEF Selected, TitlesOnly
  <2> QED
    BY <1>1, <2>1, <2>3 DEF DraftOK
<1>4. CASE d.status \in Confirmed /\ ~TitlesOnly(old, list) /\ Narrows(d, list)
  <2> DEFINE kept == SameType(old, list) \intersect Selected(list)
  <2>1. WithCandidates(d, list) = Keeps(new, kept)
    BY <1>4 DEF WithCandidates, new
  <2>2. Selected(list) # {}
    BY <1>4 DEF Narrows
  <2> HIDE DEF kept
  <2>3. Keeps(new, kept) \in Draft /\ Keeps(new, kept).status = d.status
        /\ Keeps(new, kept).candidates = list
        /\ Keeps(new, kept).cases = d.cases \intersect kept
        /\ Keeps(new, kept).edited = d.edited \intersect kept
        /\ Keeps(new, kept).fingerprint = d.fingerprint
        /\ Keeps(new, kept).version = d.version
    BY <1>1, KeepsIs
  <2>4. kept \subseteq Selected(list)
    BY DEF kept
  <2> QED
    BY <1>1, <2>1, <2>2, <2>3, <2>4 DEF DraftOK
<1>5. CASE /\ ~(d.status \in Confirmed /\ TitlesOnly(old, list))
           /\ ~(d.status \in Confirmed /\ Narrows(d, list))
           /\ ~CoverageEqual(old, list)
  <2> DEFINE kept == Unchanged(old, list)
             k == Keeps(new, kept)
             n == [k EXCEPT !.status = "coverage_review", !.fingerprint = "none"]
  <2>1. WithCandidates(d, list) = n
    BY <1>5 DEF WithCandidates, new
  <2>2. kept \subseteq Selected(list)
    BY DEF Unchanged, SameType, Selected
  <2> HIDE DEF kept
  <2>3. k \in Draft /\ k.candidates = list /\ k.cases = d.cases \intersect kept
        /\ k.edited = d.edited \intersect kept /\ k.version = d.version
    BY <1>1, KeepsIs
  <2> HIDE DEF k
  <2>4. /\ n \in Draft
        /\ n.status = "coverage_review" /\ n.fingerprint = "none"
        /\ n.candidates = k.candidates /\ n.cases = k.cases
        /\ n.edited = k.edited /\ n.version = k.version
    BY <2>3, DemotedIs
  <2> HIDE DEF n
  <2> QED
    BY <2>1, <2>2, <2>3, <2>4 DEF DraftOK, Confirmed
<1>6. CASE /\ ~(d.status \in Confirmed /\ TitlesOnly(old, list))
           /\ ~(d.status \in Confirmed /\ Narrows(d, list))
           /\ CoverageEqual(old, list)
  <2> DEFINE kept == SameType(old, list)
             n == Keeps(new, kept)
  <2>1. WithCandidates(d, list) = n
    BY <1>6 DEF WithCandidates, new
  <2>2. \A c \in DOMAIN old : old[c].selected = list[c].selected
    BY <1>6 DEF CoverageEqual, Coverage
  <2>3. Selected(list) = Selected(old)
    BY <1>6, <2>2 DEF Selected, CoverageEqual
  <2> HIDE DEF kept
  <2>4. /\ n \in Draft /\ n.status = d.status /\ n.candidates = list
        /\ n.cases = d.cases \intersect kept
        /\ n.edited = d.edited \intersect kept
        /\ n.fingerprint = d.fingerprint /\ n.version = d.version
    BY <1>1, KeepsIs
  <2> HIDE DEF n
  <2> QED
    BY <1>1, <2>1, <2>3, <2>4 DEF DraftOK
<1> QED
  BY <1>3, <1>4, <1>5, <1>6

\* A patch, with its edits.
LEMMA PatchedOK ==
  ASSUME NEW d \in Draft, DraftOK(d), NEW p \in Patch, Patchable(d, p),
         p.listed => p.list \in CandidateLists
  PROVE  LET n == Patched(d, p) IN
         /\ n \in Draft /\ DraftOK(n)
         /\ n.version = d.version
         /\ p.listed => n.candidates = p.list
         /\ p.editing => p.edits \subseteq d.cases
         /\ n.status \in Confirmed =>
              d.status \in Confirmed /\ n.fingerprint = d.fingerprint
<1> DEFINE l == Listed(d, p)
<1>1. /\ l \in Draft /\ DraftOK(l) /\ l.version = d.version
      /\ p.listed => l.candidates = p.list
      /\ l.cases \subseteq d.cases
      /\ l.status \in Confirmed =>
              d.status \in Confirmed /\ l.fingerprint = d.fingerprint
  <2>1. CASE p.listed
    BY <2>1, WithCandidatesOK DEF Listed
  <2>2. CASE ~p.listed
    BY <2>2 DEF Listed
  <2> QED
    BY <2>1, <2>2
<1> HIDE DEF l
<1>2. CASE ~p.editing
  BY <1>1, <1>2 DEF Patched, l
<1>3. CASE p.editing
  <2> DEFINE n == [l EXCEPT !.edited = @ \union p.edits, !.status = "case_editing"]
  <2>1. l.status \in Confirmed /\ p.edits \subseteq l.cases
    BY <1>3 DEF Patchable, l
  <2>2. Patched(d, p) = n
    BY <1>3 DEF Patched, l
  <2>3. /\ n \in Draft /\ n.status = "case_editing" /\ n.candidates = l.candidates
        /\ n.cases = l.cases /\ n.edited = l.edited \union p.edits
        /\ n.fingerprint = l.fingerprint /\ n.version = l.version
    BY <1>1, <2>1 DEF Draft, Statuses
  <2> HIDE DEF n
  <2> QED
    BY <1>1, <2>1, <2>2, <2>3 DEF DraftOK, Confirmed
<1> QED
  BY <1>2, <1>3

\* A confirmation keeps the cases of the selection, edited or not.
LEMMA ConfirmedByOK ==
  ASSUME NEW d \in Draft, DraftOK(d), NEW e \in Evidence, Confirmable(d)
  PROVE  LET n == ConfirmedBy(d, e) IN
         /\ n \in Draft /\ DraftOK(n)
         /\ n.version = d.version /\ n.edited = d.edited
<1> DEFINE kept == Keeps(d, Selected(d.candidates))
           s == IF kept.cases = {} THEN "ready" ELSE "case_editing"
           n == [kept EXCEPT !.status = s, !.fingerprint = e]
<1>1. /\ kept \in Draft /\ kept.status = d.status
      /\ kept.candidates = d.candidates
      /\ kept.cases = d.cases \intersect Selected(d.candidates)
      /\ kept.edited = d.edited \intersect Selected(d.candidates)
      /\ kept.version = d.version
  BY KeepsIs
<1>2. ConfirmedBy(d, e) = n
  BY DEF ConfirmedBy
<1> HIDE DEF kept
<1>3. s \in Confirmed /\ (s = "ready" => kept.cases = {})
  BY DEF Confirmed
<1> HIDE DEF s
<1>4. /\ n \in Draft /\ n.status = s /\ n.candidates = kept.candidates
      /\ n.cases = kept.cases /\ n.edited = kept.edited
      /\ n.fingerprint = e /\ n.version = kept.version
  BY <1>1, <1>3 DEF Draft, Statuses, Confirmed
<1> HIDE DEF n
<1>5. e # "none" /\ Selected(d.candidates) # {}
  BY TestDesignAssumption DEF Confirmable
<1> QED
  BY <1>1, <1>2, <1>3, <1>4, <1>5 DEF DraftOK, Confirmed

\* The types a request gives change no selection.
LEMMA OverriddenOK ==
  ASSUME NEW list \in CandidateLists, NEW ids, NEW type \in Types
  PROVE  /\ Overridden(list, ids, type) \in CandidateLists
         /\ Selected(Overridden(list, ids, type)) = Selected(list)
<1> DEFINE new == Overridden(list, ids, type)
<1>1. PICK S \in SUBSET CandidateIds : list \in [S -> Candidate]
  BY DEF CandidateLists
<1>2. \A c \in S : /\ [list[c] EXCEPT !.type = type] \in Candidate
                   /\ [list[c] EXCEPT !.type = type].selected = list[c].selected
  BY <1>1 DEF Candidate
<1>3. DOMAIN new = S /\ \A c \in S : new[c].selected = list[c].selected
  BY <1>1, <1>2 DEF Overridden
<1>4. new \in [S -> Candidate]
  BY <1>1, <1>2 DEF Overridden
<1>5. new \in CandidateLists
  BY <1>4 DEF CandidateLists
<1>6. Selected(new) = Selected(list)
  BY <1>1, <1>3 DEF Selected
<1> QED
  BY <1>5, <1>6

\* A generation, of whatever is left to do.
LEMMA GeneratedType ==
  ASSUME NEW d \in Draft, NEW list \in CandidateLists, NEW overwrite \in BOOLEAN,
         NEW e \in Fingerprints, NEW targets \in SUBSET CandidateIds
  PROVE  LET todo == targets \ Skipped(d, targets, overwrite)
             n == Generated(d, list, targets, overwrite, e) IN
         /\ n \in Draft /\ n.version = d.version
         /\ n.candidates = list /\ n.fingerprint = e
         /\ n.cases = d.cases \union todo /\ n.edited = d.edited \ todo
         /\ n.status = IF todo = {} THEN d.status ELSE "case_editing"
<1> DEFINE todo == targets \ Skipped(d, targets, overwrite)
           n == Generated(d, list, targets, overwrite, e)
<1>1. CASE todo = {}
  <2>1. n = [d EXCEPT !.candidates = list, !.fingerprint = e]
    BY <1>1 DEF Generated
  <2>2. [d EXCEPT !.candidates = list, !.fingerprint = e] \in Draft
    BY DEF Draft, Fingerprints
  <2> QED
    BY <1>1, <2>1, <2>2 DEF Draft
<1>2. CASE todo # {}
  <2>1. n = [d EXCEPT !.candidates = list, !.cases = @ \union todo,
                      !.edited = @ \ todo, !.status = "case_editing",
                      !.fingerprint = e]
    BY <1>2 DEF Generated
  <2>2. todo \subseteq CandidateIds
    OBVIOUS
  <2> HIDE DEF todo
  <2>3. [d EXCEPT !.candidates = list, !.cases = @ \union todo,
                  !.edited = @ \ todo, !.status = "case_editing",
                  !.fingerprint = e] \in Draft
    BY <2>2 DEF Draft, Fingerprints, Statuses
  <2>4. /\ n \in Draft /\ n.version = d.version
        /\ n.candidates = list /\ n.fingerprint = e
        /\ n.cases = d.cases \union todo /\ n.edited = d.edited \ todo
        /\ n.status = "case_editing"
    BY <2>1, <2>3 DEF Draft
  <2> QED
    BY <1>2, <2>4 DEF todo
<1> QED
  BY <1>1, <1>2

\* Over the evidence of the draft it keeps what ReadyIsConfirmed says, and an
\* edited case that it is not told to overwrite.
LEMMA GeneratedOK ==
  ASSUME NEW d \in Draft, DraftOK(d), d.status \in Confirmed,
         NEW list \in CandidateLists, Selected(list) = Selected(d.candidates),
         NEW targets \in SUBSET Selected(d.candidates), NEW overwrite \in BOOLEAN
  PROVE  LET n == Generated(d, list, targets, overwrite, d.fingerprint) IN
         /\ n \in Draft /\ DraftOK(n) /\ n.version = d.version
         /\ n.status \in Confirmed /\ n.fingerprint = d.fingerprint
         /\ ~overwrite => d.edited \subseteq n.edited
<1> DEFINE todo == targets \ Skipped(d, targets, overwrite)
           n == Generated(d, list, targets, overwrite, d.fingerprint)
<1>1. targets \in SUBSET CandidateIds /\ d.fingerprint \in Fingerprints
  BY DraftFields, ListFields
<1>2. /\ n \in Draft /\ n.version = d.version
      /\ n.candidates = list /\ n.fingerprint = d.fingerprint
      /\ n.cases = d.cases \union todo /\ n.edited = d.edited \ todo
      /\ n.status = IF todo = {} THEN d.status ELSE "case_editing"
  BY <1>1, GeneratedType
<1>3. ~overwrite => todo \intersect d.edited = {}
  BY DEF Skipped
<1>4. todo \subseteq Selected(d.candidates)
  OBVIOUS
<1> HIDE DEF n, todo
<1> QED
  BY <1>2, <1>3, <1>4 DEF DraftOK, Confirmed, n

-----------------------------------------------------------------------------
(* What is asked for.                                                      *)

\* One candidate's field changes; the list remains one.
LEMMA ListsType ==
  ASSUME NEW list \in CandidateLists
  PROVE  Lists(list) \subseteq CandidateLists
<1>1. PICK S \in SUBSET CandidateIds : list \in [S -> Candidate]
  BY DEF CandidateLists
<1>2. ASSUME NEW c \in S, NEW x \in Texts
      PROVE  [list EXCEPT ![c].title = x] \in [S -> Candidate]
  BY <1>1 DEF Candidate
<1>10. ASSUME NEW c \in S, NEW x \in Texts
      PROVE  [list EXCEPT ![c].coverage = x] \in [S -> Candidate]
  BY <1>1 DEF Candidate
<1>3. ASSUME NEW c \in S, NEW x \in Types
      PROVE  [list EXCEPT ![c].type = x] \in [S -> Candidate]
  BY <1>1 DEF Candidate
<1>4. ASSUME NEW c \in S, NEW x \in BOOLEAN
      PROVE  [list EXCEPT ![c].selected = x] \in [S -> Candidate]
  BY <1>1 DEF Candidate
<1>5. ASSUME NEW c \in S
      PROVE  Restrict(list, DOMAIN list \ {c}) \in CandidateLists
  <2>1. Restrict(list, DOMAIN list \ {c}) \in [S \ {c} -> Candidate]
    BY <1>1 DEF Restrict
  <2> QED
    BY <2>1 DEF CandidateLists
<1>6. [c \in CandidateIds |-> IF c \in DOMAIN list THEN list[c] ELSE Suggested]
        \in CandidateLists
  <2>1. Suggested \in Candidate
    BY TestDesignAssumption DEF Suggested, Candidate
  <2>2. [c \in CandidateIds |-> IF c \in DOMAIN list THEN list[c] ELSE Suggested]
          \in [CandidateIds -> Candidate]
    BY <1>1, <2>1
  <2> QED
    BY <2>2 DEF CandidateLists
<1>7. DOMAIN list = S /\ [S -> Candidate] \subseteq CandidateLists
  BY <1>1 DEF CandidateLists
<1> DEFINE here == S \intersect Movable
           titles == {[list EXCEPT ![c].title = x] : c \in here, x \in Texts}
           texts  == {[list EXCEPT ![c].coverage = x] : c \in here, x \in Texts}
           types  == {[list EXCEPT ![c].type = x] : c \in here, x \in Types}
           boxes  == {[list EXCEPT ![c].selected = x] : c \in S, x \in BOOLEAN}
           fewer  == {Restrict(list, DOMAIN list \ {c}) : c \in here}
           whole  == [c \in CandidateIds |-> IF c \in DOMAIN list THEN list[c] ELSE Suggested]
<1>8. Lists(list) = UNION {titles, texts, types, boxes, fewer, {whole}}
  BY <1>7 DEF Lists
<1>9. /\ titles \subseteq CandidateLists /\ texts \subseteq CandidateLists
      /\ types \subseteq CandidateLists /\ boxes \subseteq CandidateLists
      /\ fewer \subseteq CandidateLists /\ whole \in CandidateLists
  <2>1. ASSUME NEW l \in titles PROVE l \in [S -> Candidate]
    <3>1. PICK c \in here, x \in Texts : l = [list EXCEPT ![c].title = x]
      OBVIOUS
    <3> QED
      BY <3>1, <1>2
  <2>2. ASSUME NEW l \in texts PROVE l \in [S -> Candidate]
    <3>1. PICK c \in here, x \in Texts : l = [list EXCEPT ![c].coverage = x]
      OBVIOUS
    <3> QED
      BY <3>1, <1>10
  <2>3. ASSUME NEW l \in types PROVE l \in [S -> Candidate]
    <3>1. PICK c \in here, x \in Types : l = [list EXCEPT ![c].type = x]
      OBVIOUS
    <3> QED
      BY <3>1, <1>3
  <2>4. ASSUME NEW l \in boxes PROVE l \in [S -> Candidate]
    <3>1. PICK c \in S, x \in BOOLEAN : l = [list EXCEPT ![c].selected = x]
      OBVIOUS
    <3> QED
      BY <3>1, <1>4
  <2> HIDE DEF titles, texts, types, boxes
  <2>5. fewer \subseteq CandidateLists /\ whole \in CandidateLists
    BY <1>5, <1>6
  <2> QED
    BY <1>7, <2>1, <2>2, <2>3, <2>4, <2>5
<1> HIDE DEF titles, texts, types, boxes, fewer, whole
<1> QED
  BY <1>8, <1>9

LEMMA PatchesType ==
  ASSUME NEW d \in Draft, NEW p \in Patches(d)
  PROVE  /\ p \in Patch /\ p.edits \subseteq d.cases
         /\ p.listed => p.list \in CandidateLists
<1>1. Lists(d.candidates) \subseteq CandidateLists /\ d.cases \subseteq CandidateIds
  BY DraftFields, ListsType
<1>2. CASE p \in [listed : {TRUE}, list : Lists(d.candidates), editing : {FALSE}, edits : {{}}]
  BY <1>1, <1>2 DEF Patch
<1>3. CASE p \in [listed : {FALSE}, list : {<<>>}, editing : {TRUE},
                  edits : {{}} \union {{c} : c \in d.cases}]
  BY <1>1, <1>3 DEF Patch
<1> QED
  BY <1>2, <1>3 DEF Patches

-----------------------------------------------------------------------------
(* Requests as records.                                                    *)

LEMMA FreeIs == Free \in Request /\ Free.pc = "free"
BY DEF Free, Request

LEMMA ConfirmingIs ==
  ASSUME NEW expected \in 1..MaxVersion, NEW base \in Draft
  PROVE  Confirming(expected, base) \in Request
BY DEF Confirming, Request

LEMMA FetchingIs ==
  ASSUME NEW kind \in Kinds, NEW expected \in 1..MaxVersion,
         NEW fingerprint \in Fingerprints, NEW more \in More
  PROVE  Fetching(kind, expected, fingerprint, more) \in Request
BY DEF Fetching, Request, Fingerprints

LEMMA LoadingIs ==
  ASSUME NEW kind \in Kinds, NEW expected \in 1..MaxVersion,
         NEW evidence \in Evidence, NEW more \in More
  PROVE  Loading(kind, expected, evidence, more) \in Request
BY DEF Loading, Request

LEMMA SavingIs ==
  ASSUME NEW kind \in Kinds, NEW expected \in 1..MaxVersion, NEW result \in Draft
  PROVE  Saving(kind, expected, result) \in Request
BY DEF Saving, Request

LEMMA RequestFields ==
  ASSUME NEW r \in Request
  PROVE  /\ r.pc \in {"free", "confirm", "fetch", "load", "save"}
         /\ r.pc # "free" => r # Free /\ r.expected \in 1..MaxVersion
         /\ r.pc = "confirm" => r.base \in Draft
         /\ r.pc \in {"fetch", "load"} => r.kind \in Kinds /\ r.more \in More
         /\ r.pc = "fetch" => r.fingerprint \in Fingerprints
         /\ r.pc = "load" => r.evidence \in Evidence
         /\ r.pc = "save" => r.kind \in Kinds /\ r.result \in Draft
BY DEF Request, Free, Fingerprints

-----------------------------------------------------------------------------
(* Every step preserves the inductive invariant.                           *)

\* The suggested draft and no request: the invariant holds at the start.
THEOREM InitOK == Init => IInv
<1> SUFFICES ASSUME Init PROVE IInv
  OBVIOUS
<1>1. Start \in Draft /\ Start.version = 1 /\ DraftOK(Start)
  <2>1. Suggested \in Candidate
    BY TestDesignAssumption DEF Suggested, Candidate
  <2>2. [c \in CandidateIds |-> Suggested] \in CandidateLists
    BY <2>1 DEF CandidateLists
  <2> QED
    BY <2>2 DEF Start, Draft, Statuses, DraftOK, Confirmed
<1>2. TypeOK
  BY <1>1, FreeIs, TestDesignAssumption DEF Init, TypeOK
<1>3. \A w \in Workers : RequestOK(req[w], draft)
  BY FreeIs DEF Init, RequestOK, Current
<1> QED
  BY <1>1, <1>2, <1>3 DEF IInv, Init

\* A step of one request that leaves the draft alone.
LEMMA GotoOK ==
  ASSUME IInv, NEW w \in Workers, NEW r \in Request, RequestOK(r, draft),
         Goto(w, r), draft' = draft, source' = source
  PROVE  IInv'
<1>1. TypeOK'
  BY DEF IInv, TypeOK, Goto
<1>2. ASSUME NEW u \in Workers PROVE RequestOK(req[u], draft)'
  BY DEF IInv, TypeOK, Goto
<1>3. DraftOK(draft)'
  BY DEF IInv
<1> QED
  BY <1>1, <1>2, <1>3 DEF IInv

LEMMA FreeOK == ASSUME NEW d PROVE RequestOK(Free, d)
BY FreeIs DEF RequestOK, Current

\* What every step may assume of its request.
LEMMA Typed ==
  ASSUME IInv, NEW w \in Workers
  PROVE  /\ draft \in Draft /\ DraftOK(draft) /\ draft.version \in 1..MaxVersion
         /\ source \in Evidence
         /\ req[w] \in Request /\ RequestOK(req[w], draft)
BY DraftFields DEF IInv, TypeOK

LEMMA AskPatchOK ==
  ASSUME IInv, NEW w \in Workers, NEW expected, NEW p \in Patches(draft),
         AskPatch(w, expected, p)
  PROVE  IInv'
<1> DEFINE n == Patched(draft, p)  r == Saving("patch", expected, n)
<1>1. draft \in Draft /\ DraftOK(draft) /\ draft.version \in 1..MaxVersion
  BY Typed
<1>2. /\ p \in Patch /\ p.edits \subseteq draft.cases
      /\ p.listed => p.list \in CandidateLists
  BY <1>1, PatchesType
<1>3. expected \in 1..draft.version /\ draft.version < MaxVersion /\ Patchable(draft, p)
  BY DEF AskPatch, Admits
<1>4. n \in Draft /\ (p.listed => n.candidates = p.list)
  BY <1>1, <1>2, <1>3, PatchedOK
<1>5. r \in Request
  BY <1>1, <1>3, <1>4, SavingIs, TestDesignAssumption DEF Kinds
<1>6. ByPatch(draft, n)
  <2> DEFINE q == [listed |-> p.listed, list |-> n.candidates,
                   editing |-> p.editing, edits |-> p.edits]
  <2>1. q \in [listed : BOOLEAN, list : {n.candidates},
               editing : BOOLEAN, edits : SUBSET draft.cases]
    BY <1>2 DEF Patch
  <2>2. /\ q.listed = p.listed /\ q.list = n.candidates
        /\ q.editing = p.editing /\ q.edits = p.edits
    OBVIOUS
  <2> HIDE DEF q
  <2>3. Listed(draft, q) = Listed(draft, p)
    BY <1>4, <2>2, Zenon DEF Listed
  <2>4. Patchable(draft, q) /\ Patched(draft, q) = n
    BY <1>3, <2>2, <2>3 DEF Patchable, Patched
  <2> HIDE DEF n
  <2> QED
    BY <2>1, <2>4 DEF ByPatch
<1>7. r.pc = "save" /\ r.kind = "patch" /\ r.expected = expected /\ r.result = n
  BY DEF Saving
<1>8. draft.version \in Nat /\ expected \in Nat /\ MaxVersion \in Nat
  BY <1>1, <1>3, TestDesignAssumption
<1> HIDE DEF n, r
<1>9. RequestOK(r, draft)
  BY <1>3, <1>6, <1>7, <1>8 DEF RequestOK, Current, Made
<1>10. Goto(w, r) /\ draft' = draft /\ source' = source
  BY DEF AskPatch, r, n
<1> QED
  BY <1>5, <1>9, <1>10, GotoOK

LEMMA AskConfirmOK ==
  ASSUME IInv, NEW w \in Workers, NEW expected, AskConfirm(w, expected)
  PROVE  IInv'
<1> DEFINE r == Confirming(expected, draft)
<1>1. draft \in Draft /\ draft.version \in 1..MaxVersion
  BY Typed
<1>2. /\ expected = draft.version /\ draft.version < MaxVersion
      /\ Confirmable(draft)
  BY DEF AskConfirm, Admits
<1>3. r \in Request
  BY <1>1, <1>2, ConfirmingIs
<1>4. r.pc = "confirm" /\ r.expected = expected /\ r.base = draft
  BY DEF Confirming
<1> HIDE DEF r
<1>5. RequestOK(r, draft)
  BY <1>1, <1>2, <1>4 DEF RequestOK, Current
<1>6. Goto(w, r) /\ draft' = draft /\ source' = source
  BY DEF AskConfirm, r
<1> QED
  BY <1>3, <1>5, <1>6, GotoOK

LEMMA FetchToConfirmOK ==
  ASSUME IInv, NEW w \in Workers, FetchToConfirm(w)
  PROVE  IInv'
<1> DEFINE n == ConfirmedBy(req[w].base, source)
           r == Saving("confirm", req[w].expected, n)
<1>1. /\ draft \in Draft /\ DraftOK(draft) /\ source \in Evidence
      /\ req[w] \in Request /\ RequestOK(req[w], draft) /\ req[w].pc = "confirm"
  BY Typed DEF FetchToConfirm
<1>2. req[w].expected \in 1..MaxVersion /\ req[w].base \in Draft
  BY <1>1, RequestFields
<1>3. n \in Draft
  <2> DEFINE kept == Keeps(req[w].base, Selected(req[w].base.candidates))
             s == IF kept.cases = {} THEN "ready" ELSE "case_editing"
  <2>1. kept \in Draft /\ s \in Statuses
    BY <1>2, KeepsIs DEF Statuses
  <2>2. n = [kept EXCEPT !.status = s, !.fingerprint = source]
    BY DEF ConfirmedBy
  <2> HIDE DEF kept, s
  <2> QED
    BY <1>1, <2>1, <2>2 DEF Draft
<1>4. r \in Request
  BY <1>2, <1>3, SavingIs DEF Kinds
<1>5. /\ r.pc = "save" /\ r.kind = "confirm" /\ r.expected = req[w].expected
      /\ r.result = n
  BY DEF Saving
<1>6. ASSUME req[w].expected = draft.version PROVE ByConfirm(draft, n)
  BY <1>1, <1>6 DEF ByConfirm, RequestOK, Current
<1>7. /\ req[w].expected <= draft.version /\ req[w].expected < MaxVersion
  BY <1>1 DEF RequestOK
<1> HIDE DEF n, r
<1>8. RequestOK(r, draft)
  BY <1>5, <1>6, <1>7 DEF RequestOK, Current, Made
<1>9. Goto(w, r) /\ draft' = draft /\ source' = source
  BY DEF FetchToConfirm, r, n
<1> QED
  BY <1>4, <1>8, <1>9, GotoOK

LEMMA AskGenerateOK ==
  ASSUME IInv, NEW w \in Workers, NEW targets \in Targets(draft),
         NEW types \in Overrides(draft), NEW overwrite \in BOOLEAN,
         AskGenerate(w, draft.version, targets, types, overwrite)
  PROVE  IInv'
<1> DEFINE kind == IF overwrite THEN "overwrite" ELSE "generate"
           more == [targets |-> targets, types |-> types]
           r == Fetching(kind, draft.version, draft.fingerprint, more)
<1>1. /\ draft \in Draft /\ DraftOK(draft) /\ draft.version \in 1..MaxVersion
      /\ draft.candidates \in CandidateLists /\ draft.fingerprint \in Fingerprints
  BY Typed, DraftFields
<1>2. draft.status \in Confirmed /\ draft.version < MaxVersion
  BY DEF AskGenerate, Admits
<1>3. targets # {} /\ targets \subseteq Selected(draft.candidates)
  BY <1>1, <1>2 DEF Targets, DraftOK
<1>4. targets \in SUBSET CandidateIds
  BY <1>1, <1>3, ListFields
<1>5. types \in [ids : SUBSET CandidateIds, type : Types]
  <2>1. (CHOOSE x \in Types : TRUE) \in Types
    BY TestDesignAssumption
  <2>2. DOMAIN draft.candidates \subseteq CandidateIds
    BY <1>1, ListFields
  <2>3. \/ types = [ids |-> {}, type |-> CHOOSE x \in Types : TRUE]
        \/ \E c \in DOMAIN draft.candidates \intersect Movable, t \in Types :
             types = [ids |-> {c}, type |-> t]
    BY DEF Overrides
  <2> QED
    BY <2>1, <2>2, <2>3
<1>6. more \in More
  BY <1>4, <1>5 DEF More
<1>7. kind \in Kinds /\ kind \in {"generate", "overwrite"}
  BY DEF Kinds
<1>8. more.targets # {}
  BY <1>3
<1> HIDE DEF kind, more
<1>9. r \in Request
  BY <1>1, <1>6, <1>7, FetchingIs
<1>10. /\ r.pc = "fetch" /\ r.kind = kind /\ r.expected = draft.version
       /\ r.fingerprint = draft.fingerprint /\ r.more = more
  BY DEF Fetching
<1> HIDE DEF r
<1>11. RequestOK(r, draft)
  BY <1>1, <1>2, <1>7, <1>8, <1>10 DEF RequestOK, Current
<1>12. Goto(w, r) /\ draft' = draft /\ source' = source
  BY DEF AskGenerate, r, more, kind
<1> QED
  BY <1>9, <1>11, <1>12, GotoOK

LEMMA FetchToGenerateOK ==
  ASSUME IInv, NEW w \in Workers, FetchToGenerate(w)
  PROVE  IInv'
<1> DEFINE r == Loading(req[w].kind, req[w].expected, source, req[w].more)
<1>1. /\ draft \in Draft /\ DraftOK(draft) /\ source \in Evidence
      /\ req[w] \in Request /\ RequestOK(req[w], draft) /\ req[w].pc = "fetch"
      /\ SameEvidence(req[w].fingerprint, source)
  BY Typed DEF FetchToGenerate
<1>2. /\ req[w].expected \in 1..MaxVersion /\ req[w].kind \in Kinds
      /\ req[w].more \in More
  BY <1>1, RequestFields
<1>3. r \in Request
  BY <1>1, <1>2, LoadingIs
<1>4. /\ r.pc = "load" /\ r.kind = req[w].kind /\ r.expected = req[w].expected
      /\ r.evidence = source /\ r.more = req[w].more
  BY DEF Loading
<1> HIDE DEF r
<1>5. req[w].expected = draft.version => source = draft.fingerprint
  BY <1>1 DEF RequestOK, Current, DraftOK, SameEvidence
<1>6. RequestOK(r, draft)
  BY <1>1, <1>4, <1>5 DEF RequestOK, Current
<1>7. Goto(w, r) /\ draft' = draft /\ source' = source
  BY DEF FetchToGenerate, r
<1> QED
  BY <1>3, <1>6, <1>7, GotoOK

LEMMA LoadOK ==
  ASSUME IInv, NEW w \in Workers, Load(w)
  PROVE  IInv'
<1> DEFINE q == req[w]
           list == Overridden(draft.candidates, q.more.types.ids, q.more.types.type)
           again == q.kind = "overwrite"
           n == Generated(draft, list, q.more.targets, again, q.evidence)
           r == Saving(q.kind, q.expected, n)
<1>1. /\ draft \in Draft /\ DraftOK(draft) /\ draft.candidates \in CandidateLists
      /\ q \in Request /\ RequestOK(q, draft) /\ q.pc = "load" /\ Loadable(w)
  BY Typed, DraftFields DEF Load
<1>2. /\ q.expected \in 1..MaxVersion /\ q.kind \in Kinds /\ q.more \in More
      /\ q.evidence \in Evidence
  BY <1>1, RequestFields
<1>3. /\ q.more.targets \in SUBSET CandidateIds
      /\ q.more.types.ids \in SUBSET CandidateIds /\ q.more.types.type \in Types
  BY <1>2 DEF More
<1>4. /\ draft.status \in Confirmed
      /\ q.more.targets \in SUBSET Selected(draft.candidates)
  BY <1>1 DEF Loadable
<1>5. list \in CandidateLists
  BY <1>1, <1>3, OverriddenOK
<1>6. n \in Draft
  BY <1>1, <1>2, <1>3, <1>5, GeneratedType DEF Fingerprints
<1>7. Goto(w, r) /\ draft' = draft /\ source' = source
  BY DEF Load, Retyped
<1>8. ASSUME q.expected = draft.version PROVE ByGenerate(draft, n, again)
  <2>1. q.evidence = draft.fingerprint /\ q.more.targets # {}
    BY <1>1, <1>8 DEF RequestOK, Current
  <2> QED
    BY <1>3, <1>4, <2>1 DEF ByGenerate
<1> HIDE DEF n, list
<1>9. r \in Request
  BY <1>2, <1>6, SavingIs
<1>10. /\ r.pc = "save" /\ r.kind = q.kind /\ r.expected = q.expected
       /\ r.result = n
  BY DEF Saving
<1>11. /\ q.kind \in {"generate", "overwrite"}
       /\ q.expected <= draft.version /\ q.expected < MaxVersion
  BY <1>1 DEF RequestOK
<1> HIDE DEF r
<1>12. ASSUME Current(r, draft) PROVE Made(r.kind, draft, r.result)
  <2>1. q.expected = draft.version
    BY <1>10, <1>12 DEF Current
  <2>2. ByGenerate(draft, n, again)
    BY <1>8, <2>1
  <2> QED
    BY <1>10, <1>11, <2>2 DEF Made
<1>13. RequestOK(r, draft)
  BY <1>10, <1>11, <1>12 DEF RequestOK
<1> QED
  BY <1>7, <1>9, <1>13, GotoOK

-----------------------------------------------------------------------------
(* Saving.                                                                 *)

\* What a request makes of a draft keeps ReadyIsConfirmed, the version, the
\* evidence of a draft that stays confirmed and, unless it is a patch or told
\* to overwrite, the edited cases.
LEMMA MadeOK ==
  ASSUME NEW d \in Draft, DraftOK(d), NEW kind, NEW n \in Draft, Made(kind, d, n)
  PROVE  /\ DraftOK(n) /\ n.version = d.version
         /\ d.status \in Confirmed /\ n.status \in Confirmed =>
              n.fingerprint = d.fingerprint
         /\ kind \in {"patch", "overwrite"} \/ d.edited \subseteq n.edited
<1>1. CASE kind = "patch"
  <2>1. PICK p \in [listed : BOOLEAN, list : {n.candidates},
                    editing : BOOLEAN, edits : SUBSET d.cases] :
          Patchable(d, p) /\ n = Patched(d, p)
    BY <1>1 DEF Made, ByPatch
  <2>2. n.candidates \in CandidateLists /\ d.cases \subseteq CandidateIds
    BY DraftFields
  <2>3. p \in Patch /\ p.list \in CandidateLists
    BY <2>2 DEF Patch
  <2> QED
    BY <1>1, <2>1, <2>3, PatchedOK
<1>2. CASE kind = "confirm"
  <2>1. PICK e \in Evidence : Confirmable(d) /\ n = ConfirmedBy(d, e)
    BY <1>2 DEF Made, ByConfirm
  <2>2. d.status \notin Confirmed
    BY <2>1 DEF Confirmable, Confirmed
  <2> QED
    BY <2>1, <2>2, ConfirmedByOK
<1>3. ASSUME NEW overwrite \in BOOLEAN, ByGenerate(d, n, overwrite)
      PROVE  /\ DraftOK(n) /\ n.version = d.version
             /\ n.fingerprint = d.fingerprint
             /\ ~overwrite => d.edited \subseteq n.edited
  <2>1. PICK targets \in SUBSET Selected(d.candidates), ids \in SUBSET CandidateIds,
             type \in Types :
          /\ d.status \in Confirmed
          /\ n = Generated(d, Overridden(d.candidates, ids, type), targets,
                           overwrite, d.fingerprint)
    BY <1>3 DEF ByGenerate
  <2> DEFINE list == Overridden(d.candidates, ids, type)
  <2>2. list \in CandidateLists /\ Selected(list) = Selected(d.candidates)
    BY DraftFields, OverriddenOK
  <2> HIDE DEF list
  <2>3. n = Generated(d, list, targets, overwrite, d.fingerprint)
    BY <2>1 DEF list
  <2> QED
    BY <2>1, <2>2, <2>3, GeneratedOK
<1>4. CASE kind = "generate"
  BY <1>3, <1>4 DEF Made
<1>5. CASE kind = "overwrite"
  BY <1>3, <1>5 DEF Made
<1> QED
  BY <1>1, <1>2, <1>4, <1>5 DEF Made

\* A save that is accepted stores what its request makes of the stored draft.
LEMMA SaveIs ==
  ASSUME IInv, NEW w \in Workers, Save(w)
  PROVE  /\ draft \in Draft /\ DraftOK(draft)
         /\ req[w].pc = "save" /\ req[w].expected = draft.version
         /\ req[w].result \in Draft /\ Made(req[w].kind, draft, req[w].result)
         /\ draft.version < MaxVersion
         /\ draft' = Stored(req[w].result)
<1>1. /\ draft \in Draft /\ DraftOK(draft) /\ draft.version \in 1..MaxVersion
      /\ req[w] \in Request /\ RequestOK(req[w], draft) /\ req[w].pc = "save"
      /\ req[w].expected = draft.version
      /\ draft' = Stored([req[w].result EXCEPT !.version = req[w].expected])
  BY Typed DEF Save, Conflicts
<1>2. req[w].result \in Draft
  BY <1>1, RequestFields
<1>3. Made(req[w].kind, draft, req[w].result) /\ draft.version < MaxVersion
  BY <1>1 DEF RequestOK, Current
<1>4. req[w].result.version = draft.version
  BY <1>1, <1>2, <1>3, MadeOK
<1>5. [req[w].result EXCEPT !.version = req[w].expected] = req[w].result
  BY <1>1, <1>2, <1>4, SameVersion
<1> QED
  BY <1>1, <1>2, <1>3, <1>5

LEMMA SaveOK ==
  ASSUME IInv, NEW w \in Workers, Save(w)
  PROVE  IInv'
<1> DEFINE n == req[w].result
<1>1. /\ draft \in Draft /\ DraftOK(draft) /\ n \in Draft
      /\ Made(req[w].kind, draft, n) /\ draft.version < MaxVersion
      /\ draft' = Stored(n)
  BY SaveIs
<1>2. DraftOK(n) /\ n.version = draft.version
  BY <1>1, MadeOK
<1>3. /\ draft' \in Draft /\ draft'.version = draft.version + 1
      /\ draft'.status = n.status /\ draft'.candidates = n.candidates
      /\ draft'.cases = n.cases /\ draft'.edited = n.edited
      /\ draft'.fingerprint = n.fingerprint
  BY <1>1, <1>2, StoredIs
<1>4. DraftOK(draft')
  BY <1>2, <1>3 DEF DraftOK
<1>5. draft.version \in Nat /\ MaxVersion \in Nat
  BY <1>1, DraftFields, TestDesignAssumption
<1>6. req' = [req EXCEPT ![w] = Free] /\ source' = source
  BY DEF Save, Goto
<1>7. TypeOK'
  <2>1. draft'.version <= MaxVersion
    BY <1>1, <1>3, <1>5
  <2>2. req' \in [Workers -> Request]
    BY <1>6, FreeIs DEF IInv, TypeOK
  <2>3. source' \in Evidence
    BY <1>6 DEF IInv, TypeOK
  <2> QED
    BY <1>3, <2>1, <2>2, <2>3 DEF TypeOK
<1>8. ASSUME NEW u \in Workers PROVE RequestOK(req[u], draft)'
  <2>1. CASE u = w
    <3>1. req'[u] = Free
      BY <1>6, <2>1 DEF IInv, TypeOK
    <3> QED
      BY <3>1, FreeOK
  <2>2. CASE u # w
    <3>1. req'[u] = req[u] /\ req[u] \in Request /\ RequestOK(req[u], draft)
      BY <1>6, <2>2 DEF IInv, TypeOK
    <3>2. req[u].pc # "free" => req[u].expected \in Nat
      BY <3>1, RequestFields, TestDesignAssumption
    <3>3. req[u].pc # "free" =>
            /\ req[u].expected <= draft.version /\ req[u].expected < MaxVersion
      BY <3>1 DEF RequestOK
    <3>4. req[u].pc # "free" =>
            /\ req[u].expected <= draft'.version
            /\ req[u].expected # draft'.version
      BY <1>3, <1>5, <3>2, <3>3
    <3>5. RequestOK(req[u], draft')
      BY <3>1, <3>3, <3>4 DEF RequestOK, Current
    <3> QED
      BY <3>1, <3>5
  <2> QED
    BY <2>1, <2>2
<1> QED
  BY <1>4, <1>7, <1>8 DEF IInv

-----------------------------------------------------------------------------
(* The theorems.                                                           *)

\* A request that ends without a save.
LEMMA GivesUpOK ==
  ASSUME IInv, NEW w \in Workers, Goto(w, Free), UNCHANGED <<draft, source>>
  PROVE  IInv'
BY FreeIs, FreeOK, GotoOK

LEMMA SourceMovesOK == ASSUME IInv, SourceMoves PROVE IInv'
<1>1. draft' = draft /\ req' = req /\ source' \in Evidence
  BY DEF SourceMoves
<1> QED
  BY <1>1 DEF IInv, TypeOK, DraftOK

\* Every action, of any thread, preserves it.
THEOREM StepOK == IInv /\ [Next]_vars => IInv'
<1> SUFFICES ASSUME IInv, [Next]_vars PROVE IInv'
  OBVIOUS
<1>1. ASSUME NEW w \in Workers, NEW p \in Patches(draft), NEW v \in Seen(p.editing),
             AskPatch(w, v, p)
      PROVE  IInv'
  BY <1>1, AskPatchOK
<1>2. ASSUME NEW w \in Workers, AskConfirm(w, draft.version) PROVE IInv'
  BY <1>2, AskConfirmOK
<1>3. ASSUME NEW w \in Workers, NEW t \in Targets(draft), NEW o \in Overrides(draft),
             NEW again \in BOOLEAN, AskGenerate(w, draft.version, t, o, again)
      PROVE  IInv'
  BY <1>3, AskGenerateOK
<1>4. ASSUME NEW w \in Workers, FetchToConfirm(w) PROVE IInv'
  BY <1>4, FetchToConfirmOK
<1>5. ASSUME NEW w \in Workers, FetchToGenerate(w) PROVE IInv'
  BY <1>5, FetchToGenerateOK
<1>6. ASSUME NEW w \in Workers, Load(w) PROVE IInv'
  BY <1>6, LoadOK
<1>7. ASSUME NEW w \in Workers,
             EvidenceChanged(w) \/ NothingToDo(w) \/ Conflict(w) \/ Fails(w)
      PROVE  IInv'
  BY <1>7, GivesUpOK DEF EvidenceChanged, NothingToDo, Conflict, Fails
<1>8. ASSUME NEW w \in Workers, Save(w) PROVE IInv'
  BY <1>8, SaveOK
<1>9. CASE SourceMoves
  BY <1>9, SourceMovesOK
<1>10. CASE UNCHANGED vars
  BY <1>10 DEF vars, IInv, TypeOK
<1> QED
  BY <1>1, <1>2, <1>3, <1>4, <1>5, <1>6, <1>7, <1>8, <1>9, <1>10 DEF Next

\* The inductive invariant holds in every reachable state.
THEOREM Invariance == Spec => []IInv
<1> QED
  BY InitOK, StepOK, PTL DEF Spec

(* Every reachable state is well typed, and no version passes the bound,   *)
(* for every number of threads, candidates, texts, types and versions.     *)
THEOREM TypeCorrect == Spec => []TypeOK
<1>1. IInv => TypeOK
  BY DEF IInv
<1> QED
  BY <1>1, Invariance, PTL

(* A confirmed draft names the evidence and the selection it was confirmed *)
(* over, a ready one has no cases, and every case belongs to a candidate   *)
(* that is selected, however requests of any number of threads interleave: *)
(* TestCoverageDraft never refuses a save (facade.py, models.py).          *)
THEOREM ConfirmedDrafts == Spec => []ReadyIsConfirmed
<1>1. IInv => ReadyIsConfirmed
  BY DEF IInv, DraftOK, ReadyIsConfirmed
<1> QED
  BY <1>1, Invariance, PTL

\* Only Save changes the stored draft.
LEMMA OnlySaves ==
  ASSUME [Next]_vars, draft' # draft
  PROVE  \E w \in Workers : Save(w)
BY DEF Next, vars, AskPatch, AskConfirm, AskGenerate, FetchToConfirm,
       FetchToGenerate, EvidenceChanged, Load, NothingToDo, Conflict, Fails,
       SourceMoves

(* What a user wrote in a case goes only by the save of a patch, or of a   *)
(* generation that asks for it, whose author has seen the version that     *)
(* holds it (generate_cases.py).                                           *)
THEOREM EditsStay == Spec => EditsKept
<1>1. ASSUME IInv, [Next]_vars, NEW c \in draft.edited, c \notin draft'.edited
      PROVE  \E w \in Workers : /\ req[w].pc = "save"
                                /\ req[w].kind \in {"patch", "overwrite"}
                                /\ req[w].expected = draft.version
  <2>1. PICK w \in Workers : Save(w)
    BY <1>1, OnlySaves
  <2>2. /\ draft \in Draft /\ DraftOK(draft)
        /\ req[w].pc = "save" /\ req[w].expected = draft.version
        /\ req[w].result \in Draft /\ Made(req[w].kind, draft, req[w].result)
        /\ draft' = Stored(req[w].result)
    BY <1>1, <2>1, SaveIs
  <2>3. draft'.edited = req[w].result.edited
    BY <2>2, StoredIs
  <2>4. req[w].kind \in {"patch", "overwrite"}
    BY <1>1, <2>2, <2>3, MadeOK
  <2> QED
    BY <2>2, <2>4
<1>2. IInv /\ [Next]_vars =>
        [\A c \in draft.edited :
           \/ c \in draft'.edited
           \/ \E w \in Workers : /\ req[w].pc = "save"
                                 /\ req[w].kind \in {"patch", "overwrite"}
                                 /\ req[w].expected = draft.version]_vars
  BY <1>1
<1> QED
  BY <1>2, Invariance, PTL DEF Spec, EditsKept

(* The evidence a draft was confirmed over stays its evidence until it is  *)
(* sent back to review, although requests fetch it again and the source    *)
(* moves under them (facade.py generate_cases).                            *)
THEOREM EvidenceStays == Spec => EvidencePinned
<1>1. ASSUME IInv, [Next]_vars, draft.status \in Confirmed, draft'.status \in Confirmed
      PROVE  draft'.fingerprint = draft.fingerprint
  <2>1. CASE draft' # draft
    <3>1. PICK w \in Workers : Save(w)
      BY <1>1, <2>1, OnlySaves
    <3>2. /\ draft \in Draft /\ DraftOK(draft) /\ req[w].result \in Draft
          /\ Made(req[w].kind, draft, req[w].result)
          /\ draft' = Stored(req[w].result)
      BY <1>1, <3>1, SaveIs
    <3>3. /\ draft'.status = req[w].result.status
          /\ draft'.fingerprint = req[w].result.fingerprint
      BY <3>2, StoredIs
    <3> QED
      BY <1>1, <3>2, <3>3, MadeOK
  <2>2. CASE draft' = draft
    BY <2>2
  <2> QED
    BY <2>1, <2>2
<1>2. IInv /\ [Next]_vars =>
        [draft.status \in Confirmed /\ draft'.status \in Confirmed
           => draft'.fingerprint = draft.fingerprint]_vars
  BY <1>1
<1> QED
  BY <1>2, Invariance, PTL DEF Spec, EvidencePinned

-----------------------------------------------------------------------------
(* The server implements the atomic draft.  The rules are those of         *)
(* DraftRules on both sides.                                               *)

LEMMA SameRules ==
  ASSUME NEW d, NEW p, NEW e, NEW list, NEW ids, NEW type, NEW targets, NEW overwrite
  PROVE  /\ Atomic!Stored(d) = Stored(d)
         /\ Atomic!Patchable(d, p) = Patchable(d, p)
         /\ Atomic!Patched(d, p) = Patched(d, p)
         /\ Atomic!Confirmable(d) = Confirmable(d)
         /\ Atomic!ConfirmedBy(d, e) = ConfirmedBy(d, e)
         /\ Atomic!Selected(list) = Selected(list)
         /\ Atomic!Confirmed = Confirmed
         /\ Atomic!Overridden(list, ids, type) = Overridden(list, ids, type)
         /\ Atomic!Generated(d, list, targets, overwrite, e)
              = Generated(d, list, targets, overwrite, e)
         /\ Atomic!Start = Start
<1>1. Atomic!Stored(d) = Stored(d) /\ Atomic!Confirmed = Confirmed
  BY DEF Stored, Atomic!Stored, Confirmed, Atomic!Confirmed
<1>2. \A l : Atomic!Selected(l) = Selected(l)
  BY DEF Selected, Atomic!Selected
<1>3. \A x, k : Atomic!Keeps(x, k) = Keeps(x, k)
  BY DEF Keeps, Atomic!Keeps
<1>4. \A x, y : /\ Atomic!CoverageEqual(x, y) = CoverageEqual(x, y)
                /\ Atomic!TitlesOnly(x, y) = TitlesOnly(x, y)
  BY DEF CoverageEqual, Atomic!CoverageEqual, Coverage, Atomic!Coverage,
         TitlesOnly, Atomic!TitlesOnly, Untitled, Atomic!Untitled
<1>5. \A x, y : Atomic!DeselectionOnly(x, y) = DeselectionOnly(x, y)
  BY <1>4 DEF DeselectionOnly, Atomic!DeselectionOnly, Coverage, Atomic!Coverage
<1>6. \A x, l : Atomic!Narrows(x, l) = Narrows(x, l)
  BY <1>2, <1>5 DEF Narrows, Atomic!Narrows
<1>7. \A x, y : /\ Atomic!SameType(x, y) = SameType(x, y)
                /\ Atomic!Unchanged(x, y) = Unchanged(x, y)
  BY DEF SameType, Atomic!SameType, Unchanged, Atomic!Unchanged,
         Coverage, Atomic!Coverage
<1>8. \A x, l : Atomic!WithCandidates(x, l) = WithCandidates(x, l)
  BY <1>1, <1>2, <1>3, <1>4, <1>6, <1>7, Zenon DEF WithCandidates, Atomic!WithCandidates
<1>9. \A x, q : Atomic!Listed(x, q) = Listed(x, q)
  BY <1>8, Zenon DEF Listed, Atomic!Listed
<1>10. /\ Atomic!Patchable(d, p) = Patchable(d, p)
       /\ Atomic!Patched(d, p) = Patched(d, p)
  BY <1>1, <1>9, Zenon DEF Patchable, Atomic!Patchable, Patched, Atomic!Patched
<1>11. /\ Atomic!Confirmable(d) = Confirmable(d)
       /\ Atomic!ConfirmedBy(d, e) = ConfirmedBy(d, e)
  BY <1>2, <1>3, Zenon DEF Confirmable, Atomic!Confirmable, ConfirmedBy, Atomic!ConfirmedBy
<1>12. Atomic!Overridden(list, ids, type) = Overridden(list, ids, type)
  BY DEF Overridden, Atomic!Overridden
<1>13. Atomic!Generated(d, list, targets, overwrite, e)
         = Generated(d, list, targets, overwrite, e)
  BY Zenon DEF Generated, Atomic!Generated, Skipped, Atomic!Skipped
<1>14. Atomic!Start = Start
  BY Zenon DEF Start, Atomic!Start, Suggested, Atomic!Suggested
<1> QED
  BY <1>1, <1>2, <1>10, <1>11, <1>12, <1>13, <1>14

\* A save is one step of the atomic draft.
LEMMA SaveActs ==
  ASSUME IInv, NEW w \in Workers, Save(w)
  PROVE  Atomic!ANext
<1> DEFINE n == req[w].result
<1>1. /\ draft \in Draft /\ DraftOK(draft) /\ n \in Draft
      /\ Made(req[w].kind, draft, n) /\ draft' = Stored(n)
  BY SaveIs
<1>2. /\ draft'.version = draft.version + 1 /\ draft'.candidates = n.candidates
  BY <1>1, MadeOK, StoredIs
<1>3. CASE ByPatch(draft, n)
  <2>1. PICK p \in [listed : BOOLEAN, list : {draft'.candidates},
                    editing : BOOLEAN, edits : SUBSET draft.cases] :
          Patchable(draft, p) /\ n = Patched(draft, p)
    BY <1>2, <1>3 DEF ByPatch
  <2>2. Atomic!Patchable(draft, p) /\ draft' = Atomic!Stored(Atomic!Patched(draft, p))
    BY <1>1, <2>1, SameRules
  <2> QED
    BY <1>2, <2>2 DEF Atomic!ANext, Atomic!APatch
<1>4. CASE ByConfirm(draft, n)
  <2>1. PICK e \in Evidence : Confirmable(draft) /\ n = ConfirmedBy(draft, e)
    BY <1>4 DEF ByConfirm
  <2>2. /\ Atomic!Confirmable(draft)
        /\ draft' = Atomic!Stored(Atomic!ConfirmedBy(draft, e))
    BY <1>1, <2>1, SameRules
  <2> QED
    BY <1>2, <2>2 DEF Atomic!ANext, Atomic!AConfirm
<1>5. ASSUME NEW overwrite \in BOOLEAN, ByGenerate(draft, n, overwrite)
      PROVE  Atomic!ANext
  <2>1. PICK targets \in SUBSET Selected(draft.candidates),
             ids \in SUBSET CandidateIds, type \in Types :
          /\ draft.status \in Confirmed /\ targets # {}
          /\ n = Generated(draft, Overridden(draft.candidates, ids, type), targets,
                           overwrite, draft.fingerprint)
    BY <1>5 DEF ByGenerate
  <2>2. /\ targets \in SUBSET Atomic!Selected(draft.candidates)
        /\ draft.status \in Atomic!Confirmed
        /\ draft' = Atomic!Stored(Atomic!Generated(draft,
                      Atomic!Overridden(draft.candidates, ids, type), targets,
                      overwrite, draft.fingerprint))
    BY <1>1, <2>1, SameRules
  <2>3. Atomic!AGenerate
    BY <2>1, <2>2 DEF Atomic!AGenerate
  <2> QED
    BY <1>2, <2>3 DEF Atomic!ANext
<1> QED
  BY <1>1, <1>3, <1>4, <1>5 DEF Made

(* Test Design implements the atomic draft: for every number of requests   *)
(* and however their reads, fetches and saves interleave, each one that is *)
(* accepted acts on the draft it replaces, all at once; no save is lost    *)
(* and none is built on an older draft (sql_store.py update).              *)
THEOREM Refinement == Spec => ActsAtomically
<1>1. Init => Atomic!AInit
  BY SameRules DEF Init, Atomic!AInit
<1>2. IInv /\ [Next]_vars => [Atomic!ANext]_draft
  BY OnlySaves, SaveActs
<1> QED
  BY <1>1, <1>2, Invariance, PTL DEF Spec, ActsAtomically, Atomic!AtomicSpec

-----------------------------------------------------------------------------
(* What becomes of the replies of the model.                               *)

(* Among numbers up to a bound there is a greatest.                        *)
LEMMA Longest ==
  ASSUME NEW S \in SUBSET Nat, S # {}, NEW bound \in Nat, \A k \in S : k <= bound
  PROVE  \E m \in S : \A k \in S : k <= m
<1> DEFINE rest == {bound - k : k \in S}
<1>1. \A x, y \in Nat : <<x, y>> \in OpToRel(<, Nat) <=> x < y
  BY Zenon DEF OpToRel
<1>2. PICK R : IsWellFoundedOn(R, Nat) /\ \A x, y \in Nat : <<x, y>> \in R <=> x < y
  BY <1>1, NatLessThanWellFounded, Zenon
<1>3. rest \subseteq Nat /\ rest # {}
  <2>1. \A k \in S : k \in Nat /\ k <= bound /\ bound - k \in Nat
    OBVIOUS
  <2> QED
    BY <2>1
<1>4. PICK r \in rest : \A q \in rest : ~ (<<q, r>> \in R)
  <2> HIDE DEF rest
  <2>1. IsWellFoundedOn(R, Nat)
    BY <1>2
  <2> QED
    BY <1>3, <2>1, WFMin, Zenon
<1>5. \A q \in rest : r <= q
  <2> HIDE DEF rest
  <2>1. \A q \in rest : q \in Nat /\ ~ (q < r)
    BY <1>2, <1>3, <1>4
  <2> QED
    BY <1>3, <2>1
<1>6. PICK m \in S : r = bound - m
  OBVIOUS
<1>7. \A k \in S : bound - k \in rest /\ k \in Nat
  OBVIOUS
<1> HIDE DEF rest
<1> QED
  BY <1>5, <1>6, <1>7

(* The first steps that two sequences have in common: LongestCommonPrefix  *)
(* of the two is a start of each.                                          *)
LEMMA CommonSteps ==
  ASSUME NEW S, NEW s \in Seq(S), NEW t \in Seq(S)
  PROVE  LET n == Len(LongestCommonPrefix({s, t})) IN
         /\ n \in Nat /\ n <= Len(s) /\ n <= Len(t)
         /\ SubSeq(s, 1, n) = SubSeq(t, 1, n)
<1> DEFINE common == CommonPrefixes({s, t})
           lengths == {Len(u) : u \in common}
<1>1. \A u \in common : /\ u \in Seq(S) /\ Len(u) <= Len(s) /\ Len(u) <= Len(t)
                        /\ SubSeq(s, 1, Len(u)) = u /\ SubSeq(t, 1, Len(u)) = u
  <2> SUFFICES ASSUME NEW u \in common
               PROVE  /\ u \in Seq(S) /\ Len(u) <= Len(s) /\ Len(u) <= Len(t)
                      /\ SubSeq(s, 1, Len(u)) = u /\ SubSeq(t, 1, Len(u)) = u
    OBVIOUS
  <2>1. PICK v \in {s, t} : \E l \in 0..Len(v) : u = SubSeq(v, 1, l)
    BY DEF CommonPrefixes, Prefixes
  <2>2. IsPrefix(u, s) /\ IsPrefix(u, t)
    BY DEF CommonPrefixes
  <2>3. u \in Seq(S)
    BY <2>1
  <2>4. SubSeq(u, 1, Len(u)) = u
    BY <2>3
  <2> QED
    BY <2>2, <2>3, <2>4 DEF IsPrefix
<1>2. <<>> \in common
  <2>1. SubSeq(s, 1, 0) = <<>> /\ SubSeq(t, 1, 0) = <<>> /\ 0 \in 0..Len(s)
    OBVIOUS
  <2>2. <<>> \in Prefixes(s)
    BY <2>1 DEF Prefixes
  <2>3. IsPrefix(<<>>, s) /\ IsPrefix(<<>>, t)
    BY <2>1 DEF IsPrefix
  <2> QED
    BY <2>2, <2>3 DEF CommonPrefixes
<1>3. PICK m \in lengths : \A k \in lengths : k <= m
  <2>1. \A u \in common : Len(u) \in Nat /\ Len(u) <= Len(s)
    <3> HIDE DEF common
    <3> QED
      BY <1>1
  <2>2. lengths \in SUBSET Nat /\ (\A k \in lengths : k <= Len(s)) /\ lengths # {}
    <3> HIDE DEF common
    <3> QED
      BY <1>2, <2>1
  <2>3. Len(s) \in Nat
    OBVIOUS
  <2> HIDE DEF lengths
  <2> QED
    BY <2>2, <2>3, Longest
<1>4. \E u \in common : \A v \in common : Len(v) <= Len(u)
  <2> HIDE DEF common
  <2> QED
    BY <1>3
<1>5. LongestCommonPrefix({s, t}) \in common
  BY <1>4 DEF LongestCommonPrefix
<1> DEFINE p == LongestCommonPrefix({s, t})
<1>6. p \in common
  BY <1>5
<1> HIDE DEF common, p
<1>7. /\ p \in Seq(S) /\ Len(p) <= Len(s) /\ Len(p) <= Len(t)
      /\ SubSeq(s, 1, Len(p)) = p /\ SubSeq(t, 1, Len(p)) = p
  BY <1>1, <1>6
<1>8. Len(p) \in Nat
  BY <1>7
<1> QED
  BY <1>7, <1>8 DEF p

(* No step of the Background has a placeholder.                            *)
PlainSteps == \A i \in DOMAIN background : Uses[background[i]] = {}

(* The invariant of the replies: what a case and the Background are, that  *)
(* the history covers the cases, and the two properties.                   *)
IsFunction(f) == f = [c \in DOMAIN f |-> f[c]]
RepliesShape ==
  /\ background \in Seq(Steps)
  /\ IsFunction(cases) /\ \A c \in DOMAIN cases : IsScenario(cases[c])
  /\ DOMAIN cases \subseteq DOMAIN wrote /\ DOMAIN cases \subseteq DOMAIN runs
  /\ IsFunction(wrote) /\ IsFunction(runs)
RepliesInv == RepliesShape /\ PlainSteps /\ ScenariosMeanTheSame /\ CitesEvidence

\* The empty case is one too.
LEMMA WrittenIs ==
  ASSUME NEW s \in Written
  PROVE  IsScenario(s)
<1>1. CASE s \in Scenarios
  BY <1>1, RepliesAssumption
<1>2. CASE s = NoGherkin
  <2>1. <<>> \in Seq(Steps)
    OBVIOUS
  <2> QED
    BY <1>2, <2>1 DEF NoGherkin, IsScenario
<1> QED
  BY <1>1, <1>2 DEF Written

(* A sequence is its first elements and the rest.                          *)
LEMMA HeadAndRest ==
  ASSUME NEW S, NEW s \in Seq(S), NEW n \in Nat, n <= Len(s)
  PROVE  s = SubSeq(s, 1, n) \o SubSeq(s, n + 1, Len(s))
<1> DEFINE a == SubSeq(s, 1, n)
           b == SubSeq(s, n + 1, Len(s))
<1>1. /\ a \in Seq(S) /\ Len(a) = n /\ \A i \in 1..n : a[i] = s[i]
      /\ b \in Seq(S) /\ Len(b) = Len(s) - n
      /\ \A i \in 1..(Len(s) - n) : b[i] = s[n + i]
  OBVIOUS
<1> HIDE DEF a, b
<1>2. a \o b \in Seq(S) /\ Len(a \o b) = Len(s)
  <2>1. a \o b \in Seq(S) /\ Len(a \o b) = Len(a) + Len(b)
    BY <1>1, ConcatProperties
  <2> QED
    BY <1>1, <2>1
<1>3. ASSUME NEW i \in 1..Len(s)
      PROVE  (a \o b)[i] = s[i]
  <2>1. CASE i <= n
    <3>1. i \in 1..n /\ i \in 1..Len(a)
      BY <1>1, <2>1
    <3> QED
      BY <1>1, <3>1
  <2>2. CASE i > n
    <3>1. i - n \in 1..(Len(s) - n) /\ n + (i - n) = i
      BY <2>2
    <3>2. (a \o b)[i] = b[i - n]
      BY <1>1, <2>2
    <3> QED
      BY <1>1, <3>1, <3>2
  <2>3. i <= n \/ i > n
    OBVIOUS
  <2> QED
    BY <2>1, <2>2, <2>3, Zenon
<1>4. s = a \o b
  <2> DEFINE c == a \o b
  <2>1. c \in Seq(S) /\ Len(c) = Len(s) /\ \A i \in 1..Len(s) : c[i] = s[i]
    BY <1>2, <1>3
  <2> HIDE DEF c
  <2>2. s = c
    BY <2>1
  <2> QED
    BY <2>2 DEF c
<1> QED
  BY <1>4 DEF a, b

(* Of a scenario that starts like the Background, what is left and what    *)
(* was taken off make up what it was.                                      *)
LEMMA StripIs ==
  ASSUME NEW s, IsScenario(s), NEW shared \in Seq(Steps)
  PROVE  /\ IsScenario(Strip(s, shared)) /\ Strip(s, shared).table = s.table
         /\ \E n \in 0..Len(shared) :
              s.steps = SubSeq(shared, 1, n) \o Strip(s, shared).steps
         /\ (\A i \in DOMAIN shared : Uses[shared[i]] = {}) =>
              Used(Strip(s, shared)) = Used(s)
<1> DEFINE n == Len(LongestCommonPrefix({s.steps, shared}))
           t == Strip(s, shared)
<1>1. /\ s.steps \in Seq(Steps)
      /\ n \in Nat /\ n <= Len(s.steps) /\ n <= Len(shared)
      /\ SubSeq(s.steps, 1, n) = SubSeq(shared, 1, n)
  BY CommonSteps DEF IsScenario
<1>2. t = IF n = Len(s.steps) THEN s
          ELSE [s EXCEPT !.steps = SubSeq(s.steps, n + 1, Len(s.steps))]
  BY DEF Strip
<1> HIDE DEF n, t
<1>3. CASE n = Len(s.steps)
  <2>1. SubSeq(shared, 1, 0) = <<>>
    OBVIOUS
  <2>2. s.steps = SubSeq(shared, 1, 0) \o s.steps
    BY <1>1, <2>1
  <2>3. t = s /\ 0 \in 0..Len(shared)
    BY <1>2, <1>3
  <2> QED
    BY <2>2, <2>3 DEF t
<1>4. CASE n # Len(s.steps)
  <2> DEFINE rest == SubSeq(s.steps, n + 1, Len(s.steps))
  <2>1. /\ rest \in Seq(Steps) /\ Len(rest) = Len(s.steps) - n
        /\ \A i \in 1..Len(rest) : rest[i] = s.steps[n + i]
    BY <1>1
  <2>2. t = [s EXCEPT !.steps = rest]
    BY <1>2, <1>4
  <2>3. t = [steps |-> rest, table |-> s.table]
    BY <2>2 DEF IsScenario
  <2>4. s.steps = SubSeq(s.steps, 1, n) \o rest
    BY <1>1, HeadAndRest
  <2> HIDE DEF rest
  <2>5. IsScenario(t) /\ t.table = s.table /\ t.steps = rest
    BY <2>1, <2>3 DEF IsScenario
  <2>6. n \in 0..Len(shared) /\ s.steps = SubSeq(shared, 1, n) \o t.steps
    BY <1>1, <2>4, <2>5
  <2>7. ASSUME \A i \in DOMAIN shared : Uses[shared[i]] = {}
        PROVE  Used(t) = Used(s)
    <3>1. \A i \in 1..n : Uses[s.steps[i]] = {}
      <4>1. \A i \in 1..n : /\ SubSeq(s.steps, 1, n)[i] = s.steps[i]
                            /\ SubSeq(shared, 1, n)[i] = shared[i]
        <5>1. \A u \in Seq(Steps) : n <= Len(u) => \A i \in 1..n : SubSeq(u, 1, n)[i] = u[i]
          BY <1>1
        <5> QED
          BY <1>1, <5>1
      <4>2. \A i \in 1..n : i \in DOMAIN shared /\ s.steps[i] = shared[i]
        BY <1>1, <4>1
      <4> QED
        BY <2>7, <4>2
    <3>2. ASSUME NEW i \in DOMAIN s.steps, i \notin 1..n
          PROVE  i - n \in DOMAIN rest /\ rest[i - n] = s.steps[i]
      <4>1. i \in Nat /\ i > n /\ i <= Len(s.steps)
        BY <1>1, <3>2
      <4>2. i - n \in 1..Len(rest) /\ n + (i - n) = i
        BY <1>1, <2>1, <4>1
      <4> QED
        BY <2>1, <4>2
    <3>3. ASSUME NEW i \in DOMAIN rest
          PROVE  n + i \in DOMAIN s.steps /\ rest[i] = s.steps[n + i]
      <4>1. i \in 1..(Len(s.steps) - n) /\ i \in 1..Len(rest)
        BY <2>1
      <4>2. n + i \in 1..Len(s.steps)
        BY <1>1, <4>1
      <4> QED
        BY <1>1, <2>1, <4>1, <4>2
    <3>4. \A x : x \in Used(t) => x \in Used(s)
      BY <2>5, <3>3 DEF Used
    <3>5. ASSUME NEW x \in Used(s)
          PROVE  x \in Used(t)
      <4>1. PICK i \in DOMAIN s.steps : x \in Uses[s.steps[i]]
        BY DEF Used
      <4>2. i \notin 1..n
        BY <3>1, <4>1
      <4>3. i - n \in DOMAIN rest /\ rest[i - n] = s.steps[i]
        BY <3>2, <4>2
      <4> QED
        BY <2>5, <4>1, <4>3 DEF Used
    <3> QED
      BY <3>4, <3>5
  <2> QED
    BY <2>5, <2>6, <2>7 DEF t
<1> QED
  BY <1>3, <1>4

(* What is stored of the replies has Examples only if some step reads them.*)
LEMMA SettledIs ==
  ASSUME NEW T, NEW reply \in [T -> Written],
         NEW retry, retry = <<>> \/ retry \in [{c \in T : Problem(reply[c])} -> Written]
  PROVE  \A c \in T : /\ IsScenario(Settled(reply, retry)[c])
                      /\ Settled(reply, retry)[c].table # {} =>
                            Used(Settled(reply, retry)[c]) # {}
<1> DEFINE merged == [c \in DOMAIN reply |-> IF c \in DOMAIN retry THEN retry[c] ELSE reply[c]]
           settled == Settled(reply, retry)
<1>1. DOMAIN reply = T /\ \A c \in T : IsScenario(reply[c])
  BY WrittenIs
<1>2. \A c \in T : IsScenario(merged[c])
  BY <1>1, WrittenIs
<1>3. ASSUME NEW s, IsScenario(s)
      PROVE  IsScenario(DropUnused(s)) /\ (DropUnused(s).table # {} => Used(DropUnused(s)) # {})
  BY <1>3 DEF IsScenario, DropUnused
<1>4. CASE \E c \in DOMAIN reply : Problem(reply[c])
  <2>1. settled = [c \in DOMAIN reply |-> DropUnused(merged[c])]
    BY <1>4 DEF Settled
  <2> HIDE DEF merged, settled
  <2> QED
    BY <1>1, <1>2, <1>3, <2>1 DEF settled
<1>5. CASE ~ \E c \in DOMAIN reply : Problem(reply[c])
  <2>1. settled = reply
    BY <1>5, Zenon DEF Settled
  <2> QED
    BY <1>1, <1>5, <2>1 DEF Problem
<1> QED
  BY <1>4, <1>5

\* What counts one is one.
LEMMA OneOf ==
  ASSUME NEW S, IsFiniteSet(S), Single(S)
  PROVE  \E x : S = {x}
  BY FS_Singleton DEF Single

(* A candidate's sources are of the evidence, and each was cited or could  *)
(* be no other: whatever Resolve tries gives one source of the bundle.     *)
LEMMA SuggestCites ==
  ASSUME Suggest
  PROVE  CitesEvidence'
<1>1. /\ bundle' \subseteq Pairs /\ IsFiniteSet(bundle')
      /\ refs' = UNION {Resolve(p) : p \in cited'}
  BY RepliesAssumption, FS_Subset DEF Suggest, References
<1>2. ASSUME NEW p, NEW r \in Resolve(p)
      PROVE  /\ r \in bundle'
             /\ \/ p[2] = r[2]
                \/ bundle' = {r}
                \/ p[2] = Ticket /\ \A q \in bundle' : Fold[q[1]] = Fold[r[1]] => q = r
  <2> DEFINE sameType == {q \in bundle' : Fold[q[1]] = Fold[p[1]]}
             sameId == {q \in bundle' : q[2] = p[2]}
  <2>1. IsFiniteSet(sameType)
    BY <1>1, FS_Subset
  <2>2. CASE p \in bundle'
    <3>1. r = p
      BY <1>2, <2>2 DEF Resolve
    <3> QED
      BY <2>2, <3>1
  <2>3. CASE r \in sameId
    BY <2>3
  <2>4. CASE r \in bundle' /\ Single(bundle')
    <3>1. PICK x : bundle' = {x}
      BY <1>1, <2>4, OneOf
    <3> QED
      BY <2>4, <3>1
  <2>5. CASE r \in sameType /\ p[2] = Ticket /\ Single(sameType)
    <3>1. PICK x : sameType = {x}
      BY <2>1, <2>5, OneOf
    <3>2. r \in bundle' /\ Fold[r[1]] = Fold[p[1]]
      BY <2>5
    <3>3. ASSUME NEW q \in bundle', Fold[q[1]] = Fold[r[1]]
          PROVE  q = r
      <4>1. q \in sameType /\ r \in sameType
        BY <2>5, <3>2, <3>3
      <4> QED
        BY <3>1, <4>1
    <3> QED
      BY <2>5, <3>2, <3>3
  <2>6. \/ p \in bundle'
        \/ r \in sameId
        \/ r \in bundle' /\ Single(bundle')
        \/ r \in sameType /\ p[2] = Ticket /\ Single(sameType)
    BY <1>2 DEF Resolve
  <2> QED
    BY <2>2, <2>3, <2>4, <2>5, <2>6
<1>3. ASSUME NEW p \in cited', p \in bundle'
      PROVE  p \in refs'
  <2>1. Resolve(p) = {p}
    BY <1>3 DEF Resolve
  <2> QED
    BY <1>1, <2>1
<1>4. ASSUME NEW r \in refs'
      PROVE  /\ r \in bundle'
             /\ \/ \E p \in cited' : p[2] = r[2]
                \/ bundle' = {r}
                \/ /\ \E p \in cited' : p[2] = Ticket
                   /\ \A q \in bundle' : Fold[q[1]] = Fold[r[1]] => q = r
  <2>1. PICK p \in cited' : r \in Resolve(p)
    BY <1>1
  <2> QED
    BY <1>2, <2>1
<1> QED
  BY <1>3, <1>4 DEF CitesEvidence

(* A generation leaves every scenario with the steps it was written with.  *)
LEMMA GenerateKeeps ==
  ASSUME RepliesShape, ScenariosMeanTheSame, PlainBackgrounds, PlainSteps, Generate
  PROVE  RepliesShape' /\ ScenariosMeanTheSame'
<1>1. PICK targets \in (SUBSET Ids) \ {{}}, given \in Backgrounds :
        \E reply \in [targets -> Written] :
          \E retry \in {<<>>} \union [{c \in targets : Problem(reply[c])} -> Written] :
            Store(targets, Settled(reply, retry), given)
  BY DEF Generate
<1>15. PICK reply \in [targets -> Written] :
        \E retry \in {<<>>} \union [{c \in targets : Problem(reply[c])} -> Written] :
          Store(targets, Settled(reply, retry), given)
  BY <1>1
<1>16. PICK retry \in {<<>>} \union [{c \in targets : Problem(reply[c])} -> Written] :
         Store(targets, Settled(reply, retry), given)
  BY <1>15
<1> DEFINE settled == Settled(reply, retry)
           retained == Retained(targets)
           shared == Shared(given, retained)
           new == [c \in targets |-> Strip(settled[c], shared)]
           kept == [c \in targets |-> settled[c].steps]
           ran == [c \in targets |-> Run(background', new[c])]
<1>2. \A c \in targets : /\ IsScenario(settled[c])
                         /\ settled[c].table # {} => Used(settled[c]) # {}
  <2>1. retry = <<>> \/ retry \in [{c \in targets : Problem(reply[c])} -> Written]
    BY <1>16
  <2> QED
    BY <2>1, SettledIs
<1>3. /\ cases' = Over(new, retained)
      /\ background' = IF \E c \in DOMAIN cases' : Cucumber(cases'[c]) THEN shared ELSE <<>>
      /\ edited' = edited \ targets
      /\ wrote' = Over(kept, wrote)
      /\ runs' = Over(ran, runs)
  BY <1>16 DEF Store
<1>4. /\ DOMAIN retained = DOMAIN cases \ targets
      /\ \A c \in DOMAIN retained : retained[c] = cases[c]
  BY DEF Retained
<1>5. /\ DOMAIN new = targets /\ DOMAIN kept = targets /\ DOMAIN ran = targets
      /\ \A c \in targets : /\ new[c] = Strip(settled[c], shared)
                            /\ kept[c] = settled[c].steps
                            /\ ran[c] = Run(background', new[c])
  OBVIOUS
<1>6. /\ shared \in Seq(Steps)
      /\ \A i \in DOMAIN shared : Uses[shared[i]] = {}
      /\ (\E c \in DOMAIN retained : Cucumber(retained[c])) => shared = background
  BY RepliesAssumption DEF Shared, RepliesShape, PlainBackgrounds, PlainSteps
<1> HIDE DEF settled, retained, shared, new, kept, ran
<1>7. /\ DOMAIN cases' = targets \union DOMAIN retained /\ IsFunction(cases')
      /\ \A c \in targets : cases'[c] = new[c]
      /\ \A c \in DOMAIN retained : c \notin targets /\ cases'[c] = cases[c]
  <2>1. /\ DOMAIN Over(new, retained) = DOMAIN new \union DOMAIN retained
        /\ IsFunction(Over(new, retained))
        /\ \A c \in DOMAIN new : Over(new, retained)[c] = new[c]
        /\ \A c \in DOMAIN retained : c \notin DOMAIN new => Over(new, retained)[c] = retained[c]
    BY DEF Over, IsFunction
  <2> QED
    BY <1>3, <1>4, <1>5, <2>1
<1>8. /\ DOMAIN wrote' = targets \union DOMAIN wrote /\ IsFunction(wrote')
      /\ \A c \in targets : wrote'[c] = kept[c]
      /\ \A c \in DOMAIN wrote : c \notin targets => wrote'[c] = wrote[c]
  <2>1. /\ DOMAIN Over(kept, wrote) = DOMAIN kept \union DOMAIN wrote
        /\ IsFunction(Over(kept, wrote))
        /\ \A c \in DOMAIN kept : Over(kept, wrote)[c] = kept[c]
        /\ \A c \in DOMAIN wrote : c \notin DOMAIN kept => Over(kept, wrote)[c] = wrote[c]
    BY DEF Over, IsFunction
  <2> QED
    BY <1>3, <1>5, <2>1
<1>9. /\ DOMAIN runs' = targets \union DOMAIN runs /\ IsFunction(runs')
      /\ \A c \in targets : runs'[c] = ran[c]
      /\ \A c \in DOMAIN runs : c \notin targets => runs'[c] = runs[c]
  <2>1. /\ DOMAIN Over(ran, runs) = DOMAIN ran \union DOMAIN runs
        /\ IsFunction(Over(ran, runs))
        /\ \A c \in DOMAIN ran : Over(ran, runs)[c] = ran[c]
        /\ \A c \in DOMAIN runs : c \notin DOMAIN ran => Over(ran, runs)[c] = runs[c]
    BY DEF Over, IsFunction
  <2> QED
    BY <1>3, <1>5, <2>1
<1>10. ASSUME NEW c \in targets
       PROVE  /\ IsScenario(new[c])
              /\ new[c].table # {} => Used(new[c]) # {}
              /\ \E n \in 0..Len(shared) :
                   kept[c] = SubSeq(shared, 1, n) \o new[c].steps
  <2>1. IsScenario(settled[c]) /\ (settled[c].table # {} => Used(settled[c]) # {})
    BY <1>2
  <2>2. new[c] = Strip(settled[c], shared) /\ kept[c] = settled[c].steps
    BY <1>5
  <2>3. /\ IsScenario(Strip(settled[c], shared))
        /\ Strip(settled[c], shared).table = settled[c].table
        /\ \E n \in 0..Len(shared) :
             settled[c].steps = SubSeq(shared, 1, n) \o Strip(settled[c], shared).steps
        /\ Used(Strip(settled[c], shared)) = Used(settled[c])
    BY <1>6, <2>1, StripIs
  <2> QED
    BY <2>1, <2>2, <2>3
<1>11. \A c \in DOMAIN cases' : IsScenario(cases'[c])
  BY <1>4, <1>7, <1>10 DEF RepliesShape
<1>12. RepliesShape'
  <2>1. <<>> \in Seq(Steps)
    OBVIOUS
  <2>2. background' \in Seq(Steps)
    BY <1>3, <1>6, <2>1
  <2> QED
    BY <1>4, <1>7, <1>8, <1>9, <1>11, <2>2 DEF RepliesShape
<1>13. ASSUME NEW c \in DOMAIN cases', Cucumber(cases'[c])
       PROVE  /\ Run(background', cases'[c]) = runs'[c]
              /\ \E n \in 0..Len(background') :
                   wrote'[c] = SubSeq(background', 1, n) \o cases'[c].steps
              /\ c \notin edited' /\ cases'[c].table # {} => Used(cases'[c]) # {}
  <2>1. background' = shared
    BY <1>3, <1>13
  <2>2. CASE c \in targets
    <3>1. /\ cases'[c] = new[c] /\ wrote'[c] = kept[c]
          /\ runs'[c] = Run(background', new[c])
      BY <1>5, <1>7, <1>8, <1>9, <2>2
    <3>2. /\ new[c].table # {} => Used(new[c]) # {}
          /\ \E n \in 0..Len(shared) : kept[c] = SubSeq(shared, 1, n) \o new[c].steps
      BY <1>10, <2>2
    <3> QED
      BY <2>1, <3>1, <3>2
  <2>3. CASE c \notin targets
    <3>1. c \in DOMAIN retained /\ c \in DOMAIN cases /\ cases'[c] = cases[c] /\ retained[c] = cases[c]
      BY <1>4, <1>7, <2>3
    <3>2. Cucumber(cases[c]) /\ shared = background
      BY <1>6, <1>13, <3>1
    <3>3. runs'[c] = runs[c] /\ wrote'[c] = wrote[c] /\ (c \in edited <=> c \in edited')
      BY <1>3, <1>8, <1>9, <2>3, <3>1 DEF RepliesShape
    <3> QED
      BY <2>1, <3>1, <3>2, <3>3 DEF ScenariosMeanTheSame
  <2> QED
    BY <2>2, <2>3
<1>14. ScenariosMeanTheSame'
  BY <1>13 DEF ScenariosMeanTheSame
<1> QED
  BY <1>12, <1>14

(* The Background is none, as it was, or one that was given.               *)
LEMMA PlainKept ==
  ASSUME RepliesInv, PlainBackgrounds, RepliesNext
  PROVE  PlainSteps'
<1>1. \A b : b \in Backgrounds \/ b = <<>> \/ b = background =>
        \A i \in DOMAIN b : Uses[b[i]] = {}
  BY DEF RepliesInv, PlainBackgrounds, PlainSteps
<1>2. \A given, retained : given \in Backgrounds =>
        Shared(given, retained) \in Backgrounds \/ Shared(given, retained) = background
  BY DEF Shared
<1>3. background' \in Backgrounds \/ background' = <<>> \/ background' = background
  <2>1. CASE Generate
    <3>1. PICK given \in Backgrounds :
            \E targets, reply, retry : Store(targets, Settled(reply, retry), given)
      BY <2>1 DEF Generate
    <3> QED
      BY <1>2, <3>1 DEF Store
  <2>2. CASE ~Generate
    BY <2>2 DEF RepliesNext, Suggest, Confirm, EditCase, EditBackground, Deselect, suggestVars
  <2> QED
    BY <2>1, <2>2
<1> QED
  BY <1>1, <1>3 DEF PlainSteps

\* A case begins with none of the Background's steps.
LEMMA NoneTaken ==
  ASSUME NEW b \in Seq(Steps), NEW s, IsScenario(s)
  PROVE  \E n \in 0..Len(b) : s.steps = SubSeq(b, 1, n) \o s.steps
<1>1. SubSeq(b, 1, 0) = <<>> /\ 0 \in 0..Len(b)
  OBVIOUS
<1>2. s.steps = <<>> \o s.steps
  BY DEF IsScenario
<1> QED
  BY <1>1, <1>2

(* A user's case is as the user wrote it, the others stay.                 *)
LEMMA EditCaseKeeps ==
  ASSUME RepliesShape, ScenariosMeanTheSame, EditCase
  PROVE  RepliesShape' /\ ScenariosMeanTheSame'
<1>1. PICK c \in DOMAIN cases, s \in Written :
        /\ cases' = [cases EXCEPT ![c] = s]
        /\ edited' = edited \union {c}
        /\ wrote' = [wrote EXCEPT ![c] = s.steps]
        /\ runs' = [runs EXCEPT ![c] = Run(background, s)]
  BY DEF EditCase
<1>2. IsScenario(s) /\ background' = background
  BY WrittenIs DEF EditCase
<1>3. /\ DOMAIN cases' = DOMAIN cases /\ DOMAIN wrote' = DOMAIN wrote
      /\ DOMAIN runs' = DOMAIN runs /\ c \in DOMAIN wrote /\ c \in DOMAIN runs
      /\ cases'[c] = s /\ wrote'[c] = s.steps /\ runs'[c] = Run(background, s)
      /\ c \in edited'
      /\ \A d \in DOMAIN cases : d # c =>
           /\ cases'[d] = cases[d] /\ wrote'[d] = wrote[d] /\ runs'[d] = runs[d]
           /\ d \notin edited' => d \notin edited
  BY <1>1 DEF RepliesShape
<1>4. IsFunction(cases') /\ IsFunction(wrote') /\ IsFunction(runs')
  BY <1>1 DEF RepliesShape, IsFunction
<1>5. RepliesShape'
  BY <1>2, <1>3, <1>4 DEF RepliesShape
<1>6. ASSUME NEW d \in DOMAIN cases', Cucumber(cases'[d])
      PROVE  /\ Run(background', cases'[d]) = runs'[d]
             /\ \E n \in 0..Len(background') :
                  wrote'[d] = SubSeq(background', 1, n) \o cases'[d].steps
             /\ d \notin edited' /\ cases'[d].table # {} => Used(cases'[d]) # {}
  <2>1. CASE d = c
    <3>1. \E n \in 0..Len(background) : s.steps = SubSeq(background, 1, n) \o s.steps
      BY <1>2, NoneTaken DEF RepliesShape
    <3> QED
      BY <1>2, <1>3, <2>1, <3>1
  <2>2. CASE d # c
    BY <1>2, <1>3, <1>6, <2>2 DEF ScenariosMeanTheSame
  <2> QED
    BY <2>1, <2>2
<1> QED
  BY <1>5, <1>6 DEF ScenariosMeanTheSame

(* Under another Background every case is taken for written as it is.      *)
LEMMA EditBackgroundKeeps ==
  ASSUME RepliesShape, ScenariosMeanTheSame, EditBackground
  PROVE  RepliesShape' /\ ScenariosMeanTheSame'
<1>1. /\ background' \in Seq(Steps) /\ cases' = cases /\ edited' = edited
      /\ wrote' = [c \in DOMAIN cases |-> cases[c].steps]
      /\ runs' = [c \in DOMAIN cases |-> Run(background', cases[c])]
  BY RepliesAssumption DEF EditBackground, suggestVars
<1>2. /\ DOMAIN wrote' = DOMAIN cases /\ DOMAIN runs' = DOMAIN cases
      /\ IsFunction(wrote') /\ IsFunction(runs')
      /\ \A c \in DOMAIN cases : /\ wrote'[c] = cases[c].steps
                                 /\ runs'[c] = Run(background', cases[c])
  BY <1>1 DEF IsFunction
<1>3. RepliesShape'
  BY <1>1, <1>2 DEF RepliesShape
<1>4. ASSUME NEW c \in DOMAIN cases', Cucumber(cases'[c])
      PROVE  /\ Run(background', cases'[c]) = runs'[c]
             /\ \E n \in 0..Len(background') :
                  wrote'[c] = SubSeq(background', 1, n) \o cases'[c].steps
             /\ c \notin edited' /\ cases'[c].table # {} => Used(cases'[c]) # {}
  <2>1. IsScenario(cases[c])
    BY <1>1 DEF RepliesShape
  <2>2. \E n \in 0..Len(background') :
          cases[c].steps = SubSeq(background', 1, n) \o cases[c].steps
    BY <1>1, <2>1, NoneTaken
  <2> QED
    BY <1>1, <1>2, <1>4, <2>2 DEF ScenariosMeanTheSame
<1> QED
  BY <1>3, <1>4 DEF ScenariosMeanTheSame

\* Dropping a case changes no other one, nor the Background.
LEMMA DeselectKeeps ==
  ASSUME RepliesShape, ScenariosMeanTheSame, Deselect
  PROVE  RepliesShape' /\ ScenariosMeanTheSame'
<1>1. PICK c \in DOMAIN cases :
        /\ cases' = Retained({c}) /\ edited' = edited \ {c}
        /\ wrote' = [i \in DOMAIN cases' |-> wrote[i]]
        /\ runs' = [i \in DOMAIN cases' |-> runs[i]]
  BY DEF Deselect
<1>2. background' = background
  BY DEF Deselect
<1>3. DOMAIN cases' = DOMAIN cases \ {c}
  BY <1>1 DEF Retained
<1>4. /\ DOMAIN wrote' = DOMAIN cases' /\ DOMAIN runs' = DOMAIN cases'
      /\ IsFunction(cases') /\ IsFunction(wrote') /\ IsFunction(runs')
      /\ \A i \in DOMAIN cases' : /\ cases'[i] = cases[i] /\ wrote'[i] = wrote[i]
                                  /\ runs'[i] = runs[i] /\ (i \notin edited' => i \notin edited)
  BY <1>1 DEF Retained, IsFunction
<1> QED
  BY <1>2, <1>3, <1>4 DEF RepliesShape, ScenariosMeanTheSame

\* A confirmation clears the Background only when there are no cases.
LEMMA ConfirmKeeps ==
  ASSUME RepliesShape, ScenariosMeanTheSame, Confirm
  PROVE  RepliesShape' /\ ScenariosMeanTheSame'
<1>1. /\ cases' = cases /\ edited' = edited /\ wrote' = wrote /\ runs' = runs
      /\ background' = IF cases = <<>> THEN <<>> ELSE background
  BY DEF Confirm
<1>2. CASE cases = <<>>
  <2>1. DOMAIN cases = {} /\ <<>> \in Seq(Steps)
    BY <1>2
  <2> QED
    BY <1>1, <2>1 DEF RepliesShape, ScenariosMeanTheSame
<1>3. CASE cases # <<>>
  <2>1. background' = background
    BY <1>1, <1>3
  <2> QED
    BY <1>1, <2>1 DEF RepliesShape, ScenariosMeanTheSame
<1> QED
  BY <1>2, <1>3

(* Every step keeps the invariant of the replies.                          *)
LEMMA RepliesStep ==
  ASSUME RepliesInv, PlainBackgrounds, [RepliesNext]_repliesVars
  PROVE  RepliesInv'
<1>1. CASE RepliesNext
  <2>1. PlainSteps'
    BY <1>1, PlainKept
  <2>2. RepliesShape' /\ ScenariosMeanTheSame'
    <3>1. CASE Suggest
      BY <3>1 DEF Suggest, RepliesInv, RepliesShape, ScenariosMeanTheSame
    <3> QED
      BY <1>1, <3>1, GenerateKeeps, EditCaseKeeps, EditBackgroundKeeps, DeselectKeeps,
         ConfirmKeeps DEF RepliesNext, RepliesInv
  <2>3. CitesEvidence'
    <3>1. CASE Suggest
      BY <3>1, SuggestCites
    <3>2. CASE Confirm
      BY <3>2 DEF Confirm, CitesEvidence
    <3>3. CASE UNCHANGED suggestVars
      BY <3>3 DEF suggestVars, RepliesInv, CitesEvidence
    <3> QED
      BY <1>1, <3>1, <3>2, <3>3 DEF RepliesNext, Generate, EditCase, EditBackground, Deselect
  <2> QED
    BY <2>1, <2>2, <2>3 DEF RepliesInv
<1>2. CASE UNCHANGED repliesVars
  BY <1>2 DEF repliesVars, suggestVars, RepliesInv, RepliesShape, PlainSteps,
              ScenariosMeanTheSame, CitesEvidence
<1> QED
  BY <1>1, <1>2

\* And it holds at the start.
LEMMA RepliesStart ==
  ASSUME RepliesInit
  PROVE  RepliesInv
<1>1. <<>> \in Seq(Steps) /\ DOMAIN <<>> = {} /\ IsFunction(<<>>)
  BY DEF IsFunction
<1> QED
  BY <1>1 DEF RepliesInit, RepliesInv, RepliesShape, PlainSteps, ScenariosMeanTheSame,
              CitesEvidence

(* The two parts of Test Design keep their own invariants.                 *)
LEMMA DesignIsBoth ==
  DesignSpec => Spec /\ RepliesSpec
<1>1. DesignInit => Init /\ RepliesInit
  BY DEF DesignInit
<1>2. [DesignNext]_<<vars, repliesVars>> => [Next]_vars /\ [RepliesNext]_repliesVars
  BY DEF DesignNext
<1> QED
  BY <1>1, <1>2, PTL DEF DesignSpec, Spec, RepliesSpec

(* What users and the model wrote stays as it was written: no save of a    *)
(* request drops an edit its author has not seen (EditsStay), and however  *)
(* often cases are generated, edited and dropped under one Background,     *)
(* each scenario keeps its steps in their order, runs the same ones, and   *)
(* has Examples only if a step reads them (generate_cases.py), as long as  *)
(* no Background that is given has a placeholder.                          *)
THEOREM ScenariosKeepMeaning ==
  ASSUME PlainBackgrounds
  PROVE  DesignSpec => WritingKept
<1>1. RepliesInit => RepliesInv
  BY RepliesStart
<1>2. RepliesInv /\ [RepliesNext]_repliesVars => RepliesInv'
  BY RepliesStep
<1>3. RepliesInv => ScenariosMeanTheSame
  BY DEF RepliesInv
<1> QED
  BY <1>1, <1>2, <1>3, DesignIsBoth, EditsStay, PTL DEF RepliesSpec, WritingKept

(* Cases stand on the evidence they were confirmed over (EvidenceStays),   *)
(* and every candidate cites sources of the evidence it was suggested      *)
(* from: those that the model cited rightly, and others only where no      *)
(* other could be meant (suggest_tests.py), whatever sources and citations *)
(* there are.                                                              *)
THEOREM CandidatesCite ==
  DesignSpec => EvidenceHeld
<1>1. RepliesInit => CitesEvidence
  BY RepliesStart DEF RepliesInv
<1>2. CitesEvidence /\ [RepliesNext]_repliesVars => CitesEvidence'
  <2> SUFFICES ASSUME CitesEvidence, [RepliesNext]_repliesVars
               PROVE  CitesEvidence'
    OBVIOUS
  <2>1. CASE Suggest
    BY <2>1, SuggestCites
  <2>2. CASE Confirm
    BY <2>2 DEF Confirm, CitesEvidence
  <2>3. CASE UNCHANGED suggestVars
    BY <2>3 DEF suggestVars, CitesEvidence
  <2> QED
    BY <2>1, <2>2, <2>3 DEF RepliesNext, Generate, EditCase, EditBackground, Deselect,
                            repliesVars
<1> QED
  BY <1>1, <1>2, DesignIsBoth, EvidenceStays, PTL DEF RepliesSpec, EvidenceHeld
=============================================================================
