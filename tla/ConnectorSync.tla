---------------------------- MODULE ConnectorSync ----------------------------
(***************************************************************************)
(* Connector synchronization: SyncConnectorDocuments lists the documents a *)
(* provider holds, compares each with its catalog row and skips, rewrites  *)
(* metadata or re-ingests it; afterwards it removes the rows of documents  *)
(* that were not listed.  Changing the selection and disconnecting purge   *)
(* rows too.                                                               *)
(*                                                                         *)
(* The provider goes on changing while a run works from the listing it     *)
(* took and from the catalog snapshot it read, any store call may fail, and *)
(* the process may die between two calls.  One action is one call of the   *)
(* provider, the catalog or the vector store.  The order of a listing is   *)
(* left open.  The lexical mirror is the subject of DocumentLifecycle.     *)
(***************************************************************************)
EXTENDS Integers, FiniteSets

CONSTANTS
    Docs,          \* source ids the provider may hold
    Roots,         \* what a selection is made of: repositories, projects, folders
    RootOf,        \* root of each source id
    FileRoots,     \* Drive roots that are exact files, purged when dropped
    Runs,          \* request threads that sync or purge
    Kind,          \* which connector
    Formats,       \* content formats; a rename can change the format
    Changes,       \* which changes the provider makes
    MaxEdits,      \* how many of them in a behaviour
    MaxSelections, \* how many times selection or connection change
    MaxFaults,     \* how many failures and crashes
    Legacy,        \* documents with a row from before fingerprints
    Overlap        \* may two requests run at the same time?

None     == 0
Stamp    == 1..(MaxEdits + 1)     \* revisions and texts, numbered by change
Profile  == {1, 2}                \* chunker and embedding settings

ASSUME ConstantAssumption ==
    /\ RootOf \in [Docs -> Roots] /\ FileRoots \subseteq Roots /\ None \notin Roots
    /\ Kind \in {"drive", "github", "jira"}
    /\ Changes \subseteq {"edit", "revert", "touch", "retype", "remove", "add", "restore"}
    /\ Legacy \subseteq Docs /\ Overlap \in BOOLEAN /\ Formats # {} /\ None \notin Formats
    /\ MaxEdits \in Nat /\ MaxSelections \in Nat /\ MaxFaults \in Nat

VARIABLES
    remote,      \* what the provider holds
    edits,       \* number of provider changes
    row,         \* catalog rows
    chunks,      \* searchable chunks of each source
    connected,   \* is there a grant?
    selection,   \* roots saved on the grant
    selections,  \* number of changes of grant and selection
    profile,     \* processing profile this process is configured with
    faults,      \* number of failures and crashes
    pc,          \* next call of each request
    listing,     \* what its run listed
    snap,        \* the catalog rows its run read
    todo,        \* documents its run has not looked at, or that it may purge
    cur,         \* document it works on
    source,      \* text it fetched
    forced,      \* has it decided to ingest again whatever the text is?
    failed,      \* does its run have a failed outcome?
    doomed       \* rows it is removing

provider == <<remote, edits>>
grant    == <<connected, selection, selections>>
stores   == <<row, chunks>>
control  == <<pc, listing, snap, todo, cur, source, forced, failed, doomed>>
vars     == <<provider, grant, stores, profile, faults, control>>

(***************************************************************************)
(* Data.  The listed revision is part of the metadata of every connector,  *)
(* so it stands for the metadata and its fingerprint; a provider hash is   *)
(* the hash of the text.                                                   *)
(***************************************************************************)
Listed == [text : Stamp, fmt : Formats, rev : Stamp]
NoDoc  == [text |-> None, fmt |-> None, rev |-> None]

\* The four fingerprints of a row; None is NULL, unknown.
Prints   == [text : Stamp \cup {None}, meta : Stamp \cup {None},
             prof : Profile \cup {None}, hash : Stamp \cup {None}]
NoPrints == [text |-> None, meta |-> None, prof |-> None, hash |-> None]

Row   == [status : {"pending", "ready", "failed", "degraded"},
          rev : Stamp, fmt : Formats \cup {None}, prints : Prints]
NoRow == [status |-> "none", rev |-> None, fmt |-> None, prints |-> NoPrints]
MkRow(status, rev, fmt, prints) ==
    [status |-> status, rev |-> rev, fmt |-> fmt, prints |-> prints]

\* Chunks of one source: their text, the format they were cut under, the
\* format and revision in their metadata, the profile that made them, and
\* whether they are all there.
Chunk    == [text : Stamp, cut : Formats, fmt : Formats, rev : Stamp,
             prof : Profile \cup {None}, whole : BOOLEAN]
NoChunks == [text |-> None, cut |-> None, fmt |-> None, rev |-> None,
             prof |-> None, whole |-> FALSE]

\* GitHub declares the blob hash as revision, Drive a version, Jira a time.
Revision(text, n) == IF Kind = "github" THEN text ELSE n
ProviderHash(l)   == IF Kind = "jira" THEN None ELSE l.text
\* Only Drive rebuilds metadata without fetching; only Drive downloads the
\* current bytes rather than the listed blob or the listed issue.
Describes == Kind = "drive"
Pinned    == Kind # "drive"

FirstFormat == CHOOSE f \in Formats : TRUE
FirstListed == [text |-> 1, fmt |-> FirstFormat, rev |-> 1]
LegacyRow   == MkRow("ready", 1, FirstFormat, NoPrints)
LegacyChunk == [text |-> 1, cut |-> FirstFormat, fmt |-> FirstFormat, rev |-> 1,
                prof |-> None, whole |-> TRUE]

Nothing == [d \in {} |-> NoDoc]

Init ==
    /\ remote = [d \in Docs |-> FirstListed] /\ edits = 0
    /\ row = [d \in Docs |-> IF d \in Legacy THEN LegacyRow ELSE NoRow]
    /\ chunks = [d \in Docs |-> IF d \in Legacy THEN LegacyChunk ELSE NoChunks]
    /\ connected = TRUE /\ selection = Roots /\ selections = 0
    /\ profile = 1 /\ faults = 0
    /\ pc = [p \in Runs |-> "idle"]
    /\ listing = [p \in Runs |-> Nothing]
    /\ snap = [p \in Runs |-> [d \in Docs |-> NoRow]]
    /\ todo = [p \in Runs |-> {}]
    /\ cur = [p \in Runs |-> None]
    /\ source = [p \in Runs |-> None]
    /\ forced = [p \in Runs |-> FALSE]
    /\ failed = [p \in Runs |-> FALSE]
    /\ doomed = [p \in Runs |-> {}]

Fault == faults < MaxFaults /\ faults' = faults + 1
Quiet == \A p \in Runs : pc[p] = "idle"

Goto(p, label) == pc' = [pc EXCEPT ![p] = label]
Continue(p, label) ==
    /\ Goto(p, label)
    /\ UNCHANGED <<listing, snap, todo, cur, source, forced, failed, doomed>>
\* The outcome of the current document is FAILED; the run goes on.
FailedOutcome(p) ==
    /\ Goto(p, "pick") /\ failed' = [failed EXCEPT ![p] = TRUE]
    /\ UNCHANGED <<listing, snap, todo, cur, source, forced, doomed>>
\* The request returns or an error aborts it.
Finish(p) ==
    /\ Goto(p, "idle")
    /\ listing' = [listing EXCEPT ![p] = Nothing]
    /\ snap' = [snap EXCEPT ![p] = [d \in Docs |-> NoRow]]
    /\ todo' = [todo EXCEPT ![p] = {}]
    /\ cur' = [cur EXCEPT ![p] = None]
    /\ source' = [source EXCEPT ![p] = None]
    /\ forced' = [forced EXCEPT ![p] = FALSE]
    /\ failed' = [failed EXCEPT ![p] = FALSE]
    /\ doomed' = [doomed EXCEPT ![p] = {}]

\* A catalog write that continues at label, or fails and aborts the request.
Upsert(p, new, label) ==
    /\ \/ row' = [row EXCEPT ![cur[p]] = new] /\ Continue(p, label) /\ UNCHANGED faults
       \/ Fault /\ Finish(p) /\ UNCHANGED row
    /\ UNCHANGED <<provider, grant, chunks, profile>>

(***************************************************************************)
(* The provider.                                                           *)
(***************************************************************************)
Change(d, text, fmt) ==
    /\ edits < MaxEdits
    /\ edits' = edits + 1
    /\ remote' = [remote EXCEPT ![d] = [text |-> text, fmt |-> fmt,
                                       rev |-> Revision(text, edits + 2)]]
    /\ UNCHANGED <<grant, stores, profile, faults, control>>

Fresh == edits + 2
Earlier(d) == {t \in 1..(edits + 1) : t # remote[d].text}

Edit(d) ==
    /\ remote[d] # NoDoc
    /\ \/ "edit" \in Changes /\ Change(d, Fresh, remote[d].fmt)
       \/ "revert" \in Changes /\ \E t \in Earlier(d) : Change(d, t, remote[d].fmt)

\* A rename, a move or a field outside the text; a file name decides the format.
Touch(d) ==
    /\ remote[d] # NoDoc /\ Kind # "github"
    /\ \/ "touch" \in Changes /\ Change(d, remote[d].text, remote[d].fmt)
       \/ /\ "retype" \in Changes /\ Kind = "drive"
          /\ \E f \in Formats \ {remote[d].fmt} : Change(d, remote[d].text, f)

Add(d) ==
    /\ remote[d] = NoDoc
    /\ \/ "add" \in Changes /\ Change(d, Fresh, FirstFormat)
       \/ "restore" \in Changes /\ \E t \in Earlier(d) : Change(d, t, FirstFormat)

Remove(d) ==
    /\ remote[d] # NoDoc /\ "remove" \in Changes /\ edits < MaxEdits
    /\ edits' = edits + 1
    /\ remote' = [remote EXCEPT ![d] = NoDoc]
    /\ UNCHANGED <<grant, stores, profile, faults, control>>

Provider == \E d \in Docs : Edit(d) \/ Touch(d) \/ Add(d) \/ Remove(d)

(***************************************************************************)
(* execute: list completely, then read the catalog once.                   *)
(***************************************************************************)
List(p) ==
    /\ pc[p] = "idle" /\ connected /\ selection # {}
    /\ (Overlap \/ Quiet)
    /\ LET found == {d \in Docs : remote[d] # NoDoc /\ RootOf[d] \in selection}
       IN /\ listing' = [listing EXCEPT ![p] = [d \in found |-> remote[d]]]
          /\ todo' = [todo EXCEPT ![p] = found]
    /\ Goto(p, "catalog")
    /\ UNCHANGED <<provider, grant, stores, profile, faults, snap, cur, source, forced,
                   failed, doomed>>

ReadCatalog(p) ==
    /\ pc[p] = "catalog"
    /\ snap' = [snap EXCEPT ![p] = row]
    /\ Goto(p, "pick")
    /\ UNCHANGED <<provider, grant, stores, profile, faults, listing, todo, cur, source,
                   forced, failed, doomed>>

Ready(r)          == r.status = "ready"
CurrentProfile(r) == Ready(r) /\ r.prints.prof = profile

Unchanged(r, l) ==
    /\ Ready(r) /\ r.prints.prof \in {profile, None}
    /\ r.rev = l.rev

HashMatches(r, l) ==
    /\ Describes /\ CurrentProfile(r)
    /\ ProviderHash(l) # None /\ r.prints.hash = ProviderHash(l)
    /\ r.prints.text # None

\* _sync_one up to its first call; a row of unknown profile adopts this one.
Take(p, d) ==
    /\ pc[p] = "pick" /\ d \in todo[p]
    /\ todo' = [todo EXCEPT ![p] = @ \ {d}]
    /\ cur' = [cur EXCEPT ![p] = d]
    /\ source' = [source EXCEPT ![p] = None]
    /\ forced' = [forced EXCEPT ![p] = FALSE]
    /\ LET r == snap[p][d]
           l == listing[p][d]
       IN \/ Unchanged(r, l) /\ r.prints.prof # None /\ Goto(p, "pick")
          \/ Unchanged(r, l) /\ r.prints.prof = None /\ Goto(p, "adopt")
          \/ ~Unchanged(r, l) /\ HashMatches(r, l) /\ Goto(p, "probe")
          \/ ~Unchanged(r, l) /\ ~HashMatches(r, l) /\ Goto(p, "fetch")
    /\ UNCHANGED <<provider, grant, stores, profile, faults, listing, snap, failed, doomed>>

Before(p) == snap[p][cur[p]]
Sought(p) == listing[p][cur[p]]

Adopt(p) ==
    /\ pc[p] = "adopt"
    /\ LET r == Before(p)
       IN Upsert(p, MkRow(r.status, r.rev, r.fmt,
                          [text |-> r.prints.text, meta |-> r.prints.meta,
                           prof |-> profile, hash |-> r.prints.hash]), "pick")

(***************************************************************************)
(* Equal provider hashes: rebuild the metadata from the listing and the    *)
(* stored chunks, without fetching.                                        *)
(***************************************************************************)
Describable(p) == Sought(p).fmt = chunks[cur[p]].fmt /\ Sought(p).fmt = Before(p).fmt

Reingest(p, label) ==
    /\ forced' = [forced EXCEPT ![p] = TRUE]
    /\ Goto(p, label)
    /\ UNCHANGED <<listing, snap, todo, cur, source, failed, doomed>>

Probe(p) ==
    /\ pc[p] = "probe"
    /\ LET stored == chunks[cur[p]]
       IN \/ stored = NoChunks /\ Reingest(p, "fetch") /\ UNCHANGED faults
          \/ /\ stored # NoChunks
             /\ Continue(p, IF Describable(p) THEN "rewrite" ELSE "fetch")
             /\ UNCHANGED faults
          \/ Fault /\ FailedOutcome(p)
    /\ UNCHANGED <<provider, grant, stores, profile>>

(***************************************************************************)
(* Fetch.  Without a pinned blob or issue it returns what the provider     *)
(* holds now, under the format the listed name gives.                      *)
(***************************************************************************)
Available(p) == Pinned \/ remote[cur[p]] # NoDoc
\* Mutant of Fetched: the listed path is read at its head, not the listed blob.
Fetched_Head(p) == IF remote[cur[p]] = NoDoc THEN Sought(p).text ELSE remote[cur[p]].text
Fetched(p) == IF Pinned THEN Sought(p).text ELSE remote[cur[p]].text

\* Mutant of SameContent: the format of the row is not compared.
SameContent_AnyFormat(p, text) ==
    /\ ~forced[p] /\ CurrentProfile(Before(p)) /\ Before(p).prints.text = text

SameContent(p, text) ==
    /\ ~forced[p] /\ CurrentProfile(Before(p))
    /\ Before(p).prints.text = text /\ Before(p).fmt = Sought(p).fmt

Fetch(p) ==
    /\ pc[p] = "fetch" /\ Available(p)
    /\ source' = [source EXCEPT ![p] = Fetched(p)]
    /\ Goto(p, IF SameContent(p, Fetched(p)) THEN "rewrite" ELSE "pending")
    /\ UNCHANGED <<provider, grant, stores, profile, faults, listing, snap, todo, cur,
                   forced, failed, doomed>>

\* The document cannot be read.  Only a document without a row gets one.
FetchFails(p) ==
    /\ pc[p] = "fetch"
    /\ IF Available(p) THEN Fault ELSE UNCHANGED faults
    /\ IF Before(p) = NoRow
       THEN row' = [row EXCEPT ![cur[p]] = MkRow("failed", Sought(p).rev, None, NoPrints)]
       ELSE UNCHANGED row
    /\ FailedOutcome(p)
    /\ UNCHANGED <<provider, grant, chunks, profile>>

\* Rejected credentials, an outage, or a failed write of that row end the run;
\* so does an ingest pipeline that cannot be built.
Abort(p) ==
    /\ pc[p] \in {"fetch", "pending"} /\ Fault /\ Finish(p)
    /\ UNCHANGED <<provider, grant, stores, profile>>

(***************************************************************************)
(* Same content: rewrite the metadata of the chunks, then advance the row, *)
(* unless the store did not hold exactly the chunks of the row.            *)
(***************************************************************************)
\* Mutant of Rewritten: any number of rewritten chunks will do.
Rewritten_AnyCount(p) == chunks[cur[p]] # NoChunks
Rewritten(p) == chunks[cur[p]] # NoChunks /\ chunks[cur[p]].whole

Rewrite(p) ==
    /\ pc[p] = "rewrite"
    /\ LET d == cur[p]
           old == chunks[d]
           new == [text |-> old.text, cut |-> old.cut, fmt |-> Sought(p).fmt,
                   rev |-> Sought(p).rev, prof |-> old.prof, whole |-> old.whole]
       IN IF Before(p).prints.meta = Sought(p).rev
          THEN Continue(p, "advance") /\ UNCHANGED <<chunks, faults>>
          ELSE \/ /\ chunks' = [chunks EXCEPT ![d] = IF old = NoChunks THEN old ELSE new]
                  /\ IF Rewritten(p) THEN Continue(p, "advance")
                     ELSE Reingest(p, IF source[p] = None THEN "fetch" ELSE "pending")
                  /\ UNCHANGED faults
               \* The store restores what it held, or fails to and holds a part.
               \/ /\ Fault /\ FailedOutcome(p)
                  /\ \/ UNCHANGED chunks
                     \/ old # NoChunks /\ chunks' = [chunks EXCEPT ![d] = NoChunks]
                     \/ /\ old # NoChunks
                        /\ chunks' = [chunks EXCEPT ![d] =
                              [text |-> old.text, cut |-> old.cut, fmt |-> old.fmt,
                               rev |-> old.rev, prof |-> old.prof, whole |-> FALSE]]
    /\ UNCHANGED <<provider, grant, row, profile>>

Advance(p) ==
    /\ pc[p] = "advance"
    /\ LET l == Sought(p)
           text == IF source[p] = None THEN Before(p).prints.text ELSE source[p]
       IN Upsert(p, MkRow("ready", l.rev, l.fmt,
                          [text |-> text, meta |-> l.rev, prof |-> profile,
                           hash |-> ProviderHash(l)]), "pick")

(***************************************************************************)
(* Ingest: a pending row that keeps the previous fingerprints, the chunks  *)
(* deleted and written again, then the ready row.                          *)
(***************************************************************************)
WritePending(p) ==
    /\ pc[p] = "pending"
    /\ Upsert(p, MkRow("pending", Sought(p).rev, Sought(p).fmt, Before(p).prints), "embed")

\* Chunking or embedding: a typed failure has touched nothing, an unknown
\* one marks the document degraded and ends the run.
Embed(p) ==
    /\ pc[p] = "embed"
    /\ \/ Continue(p, "vecDelete") /\ UNCHANGED faults
       \/ Fault /\ Continue(p, "restore")
       \/ Fault /\ Continue(p, "degradeRaise")
    /\ UNCHANGED <<provider, grant, stores, profile>>

VecDelete(p) ==
    /\ pc[p] = "vecDelete"
    /\ \/ /\ chunks' = [chunks EXCEPT ![cur[p]] = NoChunks]
          /\ Continue(p, "vecUpsert")
          /\ UNCHANGED faults
       \/ Fault /\ Continue(p, "degrade") /\ UNCHANGED chunks
    /\ UNCHANGED <<provider, grant, row, profile>>

VecUpsert(p) ==
    /\ pc[p] = "vecUpsert"
    /\ LET l == Sought(p)
           Made(whole) == [text |-> source[p], cut |-> l.fmt, fmt |-> l.fmt,
                           rev |-> l.rev, prof |-> profile, whole |-> whole]
       IN \/ /\ chunks' = [chunks EXCEPT ![cur[p]] = Made(TRUE)]
             /\ Continue(p, "ready")
             /\ UNCHANGED faults
          \/ /\ Fault /\ Continue(p, "degrade")
             /\ \/ UNCHANGED chunks
                \/ chunks' = [chunks EXCEPT ![cur[p]] = Made(FALSE)]
    /\ UNCHANGED <<provider, grant, row, profile>>

\* Mutant of ReadyRow: the fingerprints of the previous row stay.
ReadyRow_OldPrints(p) == MkRow("ready", Sought(p).rev, Sought(p).fmt, Before(p).prints)
ReadyRow(p) ==
    MkRow("ready", Sought(p).rev, Sought(p).fmt,
          [text |-> source[p], meta |-> Sought(p).rev, prof |-> profile,
           hash |-> ProviderHash(Sought(p))])

WriteReady(p) == pc[p] = "ready" /\ Upsert(p, ReadyRow(p), "pick")

\* A row that records a failed ingest: the document failed, the run goes on.
RecordFailure(p, new) ==
    /\ \/ /\ row' = [row EXCEPT ![cur[p]] = new]
          /\ FailedOutcome(p)
          /\ UNCHANGED faults
       \/ Fault /\ Finish(p) /\ UNCHANGED row
    /\ UNCHANGED <<provider, grant, chunks, profile>>

Stranded(p, status) ==
    MkRow(status, Sought(p).rev, Sought(p).fmt, Before(p).prints)

Restore(p) ==
    /\ pc[p] = "restore"
    /\ RecordFailure(p, IF Before(p) # NoRow THEN Before(p) ELSE Stranded(p, "failed"))

\* Mutant of Degrade: the row of before comes back although chunks are gone.
Degrade_Restores(p) ==
    /\ pc[p] = "degrade"
    /\ RecordFailure(p, IF Before(p) # NoRow THEN Before(p) ELSE Stranded(p, "failed"))

Degrade(p) == pc[p] = "degrade" /\ RecordFailure(p, Stranded(p, "degraded"))

DegradeRaise(p) ==
    /\ pc[p] = "degradeRaise"
    /\ \/ row' = [row EXCEPT ![cur[p]] = Stranded(p, "degraded")] /\ UNCHANGED faults
       \/ Fault /\ UNCHANGED row
    /\ Finish(p)
    /\ UNCHANGED <<provider, grant, chunks, profile>>

(***************************************************************************)
(* _reconcile: rows the snapshot holds and the listing does not.  After a  *)
(* failure only rows of a scope nothing was listed in.  Drive ids carry no *)
(* scope.                                                                  *)
(***************************************************************************)
Scope(d) == IF Kind = "drive" THEN None ELSE RootOf[d]

\* Mutant of Missing: failures of the run are not taken into account.
Missing_AnyOutcome(p) ==
    {d \in Docs : snap[p][d] # NoRow /\ d \notin DOMAIN listing[p]}

Missing(p) ==
    LET listed == DOMAIN listing[p]
        scopes == {Scope(d) : d \in listed} \ {None}
    IN {d \in Docs : /\ snap[p][d] # NoRow /\ d \notin listed
                     /\ ~failed[p] \/ Scope(d) \notin scopes}

Reconcile(p) ==
    /\ pc[p] = "pick" /\ todo[p] = {}
    /\ doomed' = [doomed EXCEPT ![p] = Missing(p)]
    /\ Goto(p, "remove")
    /\ UNCHANGED <<provider, grant, stores, profile, faults, listing, snap, todo, cur,
                   source, forced, failed>>

Chosen(p, d) ==
    /\ cur' = [cur EXCEPT ![p] = d]
    /\ UNCHANGED <<listing, snap, todo, source, forced, failed, doomed>>

\* Chunks first, then the row; an error aborts the request.
RemoveChunks(p, d) ==
    /\ pc[p] = "remove" /\ d \in doomed[p]
    /\ \/ /\ chunks' = [chunks EXCEPT ![d] = NoChunks]
          /\ Goto(p, "removeRow") /\ Chosen(p, d)
          /\ UNCHANGED faults
       \/ Fault /\ Finish(p) /\ UNCHANGED chunks
    /\ UNCHANGED <<provider, grant, row, profile>>

RemoveRow(p) ==
    /\ pc[p] = "removeRow"
    /\ \/ /\ row' = [row EXCEPT ![cur[p]] = NoRow]
          /\ doomed' = [doomed EXCEPT ![p] = @ \ {cur[p]}]
          /\ Goto(p, "remove")
          /\ UNCHANGED <<faults, listing, snap, todo, cur, source, forced, failed>>
       \/ Fault /\ Finish(p) /\ UNCHANGED row
    /\ UNCHANGED <<provider, grant, chunks, profile>>

Removed(p) ==
    /\ pc[p] = "remove" /\ doomed[p] = {} /\ Finish(p)
    /\ UNCHANGED <<provider, grant, stores, profile, faults>>

(***************************************************************************)
(* Selection and connection: saved first, then the rows of what was        *)
(* dropped are purged.  A dropped Drive folder is left to the next sync.   *)
(***************************************************************************)
Purge(p, roots) ==
    /\ todo' = [todo EXCEPT ![p] = {d \in Docs : RootOf[d] \in roots}]
    /\ Goto(p, "purge")
    /\ UNCHANGED <<provider, stores, profile, faults, listing, snap, cur, source, forced,
                   failed, doomed>>

MayPurge(p) ==
    /\ pc[p] = "idle" /\ (Overlap \/ Quiet)
    /\ connected /\ selections < MaxSelections

Select(p, new) ==
    /\ MayPurge(p) /\ new # selection
    /\ selection' = new /\ selections' = selections + 1
    /\ Purge(p, IF Kind # "drive" THEN selection \ new
                ELSE IF new = {} THEN Roots
                ELSE (selection \ new) \cap FileRoots)
    /\ UNCHANGED connected

Disconnect(p) ==
    /\ MayPurge(p)
    /\ connected' = FALSE /\ selection' = {} /\ selections' = selections + 1
    /\ Purge(p, Roots)

Connect ==
    /\ ~connected
    /\ connected' = TRUE
    /\ UNCHANGED <<provider, stores, profile, faults, control, selection, selections>>

\* Purging reads the catalog of that moment.
PurgeRows(p) ==
    /\ pc[p] = "purge"
    /\ doomed' = [doomed EXCEPT ![p] = {d \in todo[p] : row[d] # NoRow}]
    /\ todo' = [todo EXCEPT ![p] = {}]
    /\ Goto(p, "remove")
    /\ UNCHANGED <<provider, grant, stores, profile, faults, listing, snap, cur, source,
                   forced, failed>>

\* The process dies and starts again, perhaps with other chunker settings.
Restart ==
    /\ Fault
    /\ profile' \in Profile
    /\ pc' = [p \in Runs |-> "idle"]
    /\ listing' = [p \in Runs |-> Nothing]
    /\ snap' = [p \in Runs |-> [d \in Docs |-> NoRow]]
    /\ todo' = [p \in Runs |-> {}]
    /\ cur' = [p \in Runs |-> None]
    /\ source' = [p \in Runs |-> None]
    /\ forced' = [p \in Runs |-> FALSE]
    /\ failed' = [p \in Runs |-> FALSE]
    /\ doomed' = [p \in Runs |-> {}]
    /\ UNCHANGED <<provider, grant, stores>>

Call(p) ==
    \/ ReadCatalog(p) \/ \E d \in Docs : Take(p, d) \/ RemoveChunks(p, d)
    \/ Adopt(p) \/ Probe(p) \/ Fetch(p) \/ FetchFails(p) \/ Abort(p)
    \/ Rewrite(p) \/ Advance(p)
    \/ WritePending(p) \/ Embed(p) \/ VecDelete(p) \/ VecUpsert(p) \/ WriteReady(p)
    \/ Restore(p) \/ Degrade(p) \/ DegradeRaise(p)
    \/ Reconcile(p) \/ RemoveRow(p) \/ Removed(p) \/ PurgeRows(p)

Request(p) == List(p) \/ Disconnect(p) \/ \E new \in SUBSET Roots : Select(p, new)

Next == Provider \/ Connect \/ Restart \/ \E p \in Runs : Request(p) \/ Call(p)

Spec == Init /\ [][Next]_vars

(***************************************************************************)
(* The pool runs every request it took.  Nothing schedules a sync, so that *)
(* one is asked for again and again is an assumption about the operator.   *)
(***************************************************************************)
RepeatedSync ==
    /\ \A p \in Runs : WF_vars(Call(p))
    /\ SF_vars(\E p \in Runs : List(p))
RepeatedSpec == Spec /\ RepeatedSync

(***************************************************************************)
(* Properties.                                                             *)
(***************************************************************************)
Labels == {"idle", "catalog", "pick", "adopt", "probe", "fetch", "rewrite", "advance",
           "pending", "embed", "vecDelete", "vecUpsert", "ready", "restore", "degrade",
           "degradeRaise", "remove", "removeRow", "purge"}

Listings == UNION {[found -> Listed] : found \in SUBSET Docs}

TypeOK ==
    /\ remote \in [Docs -> Listed \cup {NoDoc}] /\ edits \in 0..MaxEdits
    /\ row \in [Docs -> Row \cup {NoRow}]
    /\ chunks \in [Docs -> Chunk \cup {NoChunks}]
    /\ connected \in BOOLEAN /\ selection \in SUBSET Roots
    /\ selections \in 0..MaxSelections
    /\ profile \in Profile /\ faults \in 0..MaxFaults
    /\ pc \in [Runs -> Labels]
    /\ listing \in [Runs -> Listings]
    /\ snap \in [Runs -> [Docs -> Row \cup {NoRow}]]
    /\ todo \in [Runs -> SUBSET Docs] /\ doomed \in [Runs -> SUBSET Docs]
    /\ cur \in [Runs -> Docs \cup {None}]
    /\ source \in [Runs -> Stamp \cup {None}]
    /\ forced \in [Runs -> BOOLEAN] /\ failed \in [Runs -> BOOLEAN]

\* Skipping is sound: chunks searchable under a ready row that is at the
\* provider's revision are cut from the text and under the format the
\* provider holds.  Unchanged skips such a row for good.
ReadyIsCurrent ==
    \A d \in Docs :
        Ready(row[d]) /\ row[d].rev = remote[d].rev /\ chunks[d] # NoChunks =>
            /\ chunks[d].text = remote[d].text
            /\ chunks[d].cut = remote[d].fmt

\* A ready row never claims settings its chunks were not made under, except
\* for chunks whose settings were never known.
ProfileHonest ==
    \A d \in Docs :
        Ready(row[d]) /\ chunks[d] # NoChunks => chunks[d].prof \in {row[d].prints.prof, None}

\* Nothing stays searchable that no row, or a failed one, accounts for.
NothingHidden ==
    \A d \in Docs : row[d] = NoRow \/ row[d].status = "failed" => chunks[d] = NoChunks

\* A run with a failed outcome removes no row from a root it listed:
\* failures must not look like remote deletes.
FailuresKeepRows ==
    [][\A p \in Runs, d \in Docs :
         row[d] # NoRow /\ row'[d] = NoRow /\ pc[p] = "removeRow" /\ failed[p] =>
             \A e \in DOMAIN listing[p] : RootOf[e] # RootOf[d]]_vars

Wanted(d) == connected /\ RootOf[d] \in selection /\ remote[d] # NoDoc

Replicated(d) ==
    IF Wanted(d)
    THEN /\ Ready(row[d]) /\ row[d].rev = remote[d].rev
         /\ row[d].prints.prof = profile
         /\ chunks[d].text = remote[d].text /\ chunks[d].cut = remote[d].fmt
         /\ chunks[d].rev = remote[d].rev /\ chunks[d].whole
         /\ chunks[d].prof \in {profile, None}
    ELSE connected /\ selection # {} => row[d] = NoRow /\ chunks[d] = NoChunks

\* A ready row at the provider's revision whose chunks are gone: Unchanged
\* skips it although there is nothing left to search.
Emptied(d) == Ready(row[d]) /\ row[d].rev = remote[d].rev /\ chunks[d] = NoChunks

\* Repeated syncs bring catalog and vector store to what the provider holds
\* under the selection, with one exception: a document that is selected again
\* after its removal stopped between the chunks and the row stays without
\* chunks, because an unchanged row is skipped (_sync_one).  Nothing else
\* leaves such a row: only a removal takes the chunks of one; the provider may
\* return to its revision, and an ingest that failed early puts it back.
Converges ==
    /\ \A d \in Docs :
        <>[](Replicated(d) \/ (Wanted(d) /\ Emptied(d) /\ row[d].prints.prof = profile))
    /\ [][\A d \in Docs : ~Emptied(d) /\ Emptied(d)' =>
            \/ remote' # remote
            \/ \E p \in Runs : pc'[p] = "removeRow" /\ cur'[p] = d
            \/ \E p \in Runs : pc[p] = "restore"]_vars
=============================================================================
