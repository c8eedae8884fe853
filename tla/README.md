# Kernector: TLA+ models, checks and proofs

Kernector is a knowledge assistant for software teams: it ingests uploaded files
and what Google Drive, GitHub and Jira hold, answers questions over them, designs
test cases from issues, and lets its chat agent run tools that change the outside
world once a person has approved them. Python (`application/`, `composition/`,
`domain/`, `infrastructure/`, `packs/`, `presentation/`), with a Next.js client
(`web/`).

There is hardly any concurrent *code* in it and a great deal of concurrency: HTTP
handlers are synchronous functions in a thread pool, every multi-store operation is
a sequence of calls without a transaction, and providers and models answer late. The
models here are about those sequences: what is left behind when one stops half way,
and what two of them do to each other.

| file | what it is |
| --- | --- |
| `DocumentLifecycle` | an uploaded document over catalog, vector store, lexical mirror and blob store |
| `DocumentLifecycle_proofs` | type correctness, consistency of the four stores, that deletes hold, and what becomes of a text (`Chunking`, `Retrieval`), proved |
| `ConnectorSync` | one synchronization run with Drive, GitHub or Jira, and what selections purge |
| `ConnectorSync_proofs` | that ready rows are honest and current, nothing is left hidden, failures delete nothing, proved |
| `IssueListing`, `DriveWalk` | how connectors list, page by page and folder by folder, while the provider changes |
| `JiraCloud`, `JiraDataCenter`, `GitHubGrant`, `DriveGrant` | the stored grants: consent, renewal, pickers, selection, disconnect |
| `Connections` | the hub: the four connections side by side |
| `Connections_proofs` | that tokens are sent once, live grants kept, selections are of the account and every row is accounted for, proved |
| `ToolApproval` | human approval of high-impact tools in chat |
| `ToolApproval_proofs` | that only approved calls run, each once, and that approvals can be resumed, proved |
| `ChatTurns` | the routing of a conversation's turns, with the question the server remembers |
| `DraftRules` | the pure rules of a Test Design draft: patch, confirm, generate, store |
| `AtomicDraft` | abstract: every accepted request is one atomic step of the draft |
| `TestDesign` | the requests as the server runs them, shown to implement `AtomicDraft` |
| `CaseReplies` | what becomes of the model's replies: cited sources, Background, steps, Examples |
| `DraftReplies` | the draft and the replies side by side |
| `TestDesign_proofs` | the refinement, that ready drafts are confirmed, edits stay, scenarios keep their meaning and candidates cite their evidence, proved |
| `TestExports` | export of a draft to Xray and to Drive, by a button or an approved tool |
| `McpCalls` | tool calls through the MCP server, on drafts that others edit |
| `ToolCalls_proofs` | of `TestExports`, `McpCalls`, `ChatTurns` and `Evaluation`: every key is accounted for and no test made twice, calls and exports are what was agreed to or asked for, an evaluation passes on evidence only, proved |
| `TestFileRules`, `XrayFiles` | Xray tests created from, updated from and pulled to test files |
| `XrayFiles_proofs` | that no test is created twice, results admit every write and are true, and keys have one owner, proved |
| `ChunkStore`, `PathLocks` | the inside of the chunk store; the locks of the upload blobs |
| `Stores_proofs` | that replacements are whole or undone, cached ids current, blobs have one thread each, operators of a workspace agree, and listings pass on what is there, proved |
| `Chunking`, `Retrieval` | how a text is cut; what a question finds and cites |
| `KnowledgeFlow` | what feeds the stores and what reads them: `IssueListing` beside `DriveWalk`, `Chunking` beside `Retrieval` |
| `Projects` | projects, associations and components with their versions |
| `KnowledgeEval`, `JudgeGate` | the offline evaluation and the judge's gate |
| `Evaluation` | both together |
| `MC*`, `*.cfg` | instances for TLC |

Run a check with `tlc -workers 2 -config doc_serial.cfg MCDocumentLifecycle`, a proof
with `tlapm DocumentLifecycle_proofs.tla`. `PROJECT.json` maps every definition to the
source lines it models and lists runs, mutants, hazards, findings and theorems.

## 1. Inventory

Components, the state each keeps, its operations, what is hard about it and what makes
it correct. *Modelled* means every operation that changes state is an action; *partly*
says what is missing in section 7.

**Uploaded documents** (`application/manage_documents.py`,
`composition/documents.py`; modelled). State: a SQLite row (status, name, media type,
error sentinel), chunks in Chroma, a BM25 copy of them in memory, the original bytes.
Operations: create, replace, delete, download. Hard: four stores and no transaction;
any write may fail or be the last before a crash; readers combine row and bytes. Correct
if a ready row describes exactly the searchable chunks, nothing searchable is invisible
in the catalog, bytes are never older than the row they are served under, deletes hold,
and retrying a delete removes everything.

**Connector synchronization** (`application/sync_connector.py` and the adapters in
`infrastructure/connectors/`; partly). State: catalog rows with four fingerprints,
chunks. One run lists, compares, skips / rewrites metadata / re-ingests each document,
then removes what was not listed. Hard: the provider moves between two pages of a
listing, between listing and download, and before the next listing; decisions come from a
snapshot of the catalog; failures must not look like deletes. Correct if a listing that
does not raise is whole, a skipped row is current, and repeated runs reach what the
provider holds.

**OAuth grants and token rotation** and **connector selection, connect, disconnect**
(`composition/jira/`, `composition/github/`, `composition/google_drive/`,
`infrastructure/connectors/*/oauth.py`; partly). State: one stored grant per provider with
its tokens, site or account and selection; callback states; the rows synchronized under
it. Operations: start and complete consent, pick, select, renew, synchronize, disconnect,
delete. Hard: one-time refresh tokens sent by several requests; a save based on a snapshot
from before a slow call; purges that fail after the grant is gone. Correct if no
refresh token is used twice, a live grant is not marked broken, what is selected
belongs to who is connected, and no row outlives the choice it came from.

**Tool approval in chat** (`application/decide_tool_approval.py`,
`infrastructure/agents/langgraph_tool_agent.py`,
`composition/chat/short_term_memory.py`; modelled). State: a ledger of decisions,
stored arguments, approvals by conversation, bound tools by conversation, all in
process memory, and LangGraph checkpoints. Hard: a resumed node starts over; approve and
its retries; decisions sent in the wrong conversation; the tool fails after its
approval; the cards survive a restart and the state does not. Correct if a tool runs
only for an approved call, once, and every decision takes effect.

**Chat routing and grounded asks** (`application/turn_routing.py`,
`composition/chat/`, `application/retrieve_knowledge.py`, `application/hybrid_fusion.py`;
partly). State: the question back that the server remembers for a conversation. Hard: a
turn that was stopped goes on in the server; a yes may meet a question that is not the
last one. Correct if exports start only when asked for, and answers stand on evidence.

**Test Design drafts** (`composition/test_design/facade.py`,
`packs/software_delivery/test_design/`, `infrastructure/workspace_store/sql_store.py`;
partly). State: one versioned record per draft. Operations: patch, confirm, generate
(with a language model in the middle), suggest, export. Hard: evidence and draft are
read long before the save; sequences of edits across four statuses; scenarios that share
one Background. Correct if each accepted request acts on the draft it replaces, ready
drafts are confirmed ones, and users' writing is neither overwritten unseen nor changed
in meaning.

**Xray and Drive export** (`packs/software_delivery/tools/create_xray_tests.py`,
`export_test_cases_google_drive.py`, `composition/xray_export/`,
`infrastructure/connectors/xray/batch.py`; partly). State: tests outside, a receipt per
draft, a folder per conversation. Hard: creation cannot be repeated safely; the receipt is
written after it, by compare and swap with a bounded number of tries. Correct if no key
that was told is lost, no test is created twice, and what goes out is what was confirmed.

**Xray tests from and to files** (`packs/software_delivery/tools/*_files.py`,
`packs/software_delivery/test_files/`; modelled). State: none of its own; it relates the
caller's files and the tests in Jira. Hard: requests in the middle of a call are refused or
lost; keys are matched from four places. Correct if results admit every write, a key has
one owner and nothing is created twice.

**MCP server** (`presentation/mcp/app.py`, `composition/mcp/`; partly). State: none but the
drafts it shares. Hard: an approval that comes a round later must be for the same call; a
tool makes several requests on a draft that others edit.

**Ingestion** (`application/ingest_knowledge.py`, `application/chunking.py`), **chunk
stores** (`infrastructure/vectorstore/`, `infrastructure/lexical/bm25.py`), **SQL catalog
and blobs** (`infrastructure/catalog/`, `infrastructure/documents/`; all partly). State:
rows of Chroma, the mirror, a process-wide cache of ordered ids, a table of path locks.
Hard: a replacement is a delete and a write; its repair may fail; listings fill the cache
while it is invalidated; the lock table drops entries when it is full.

**Project intelligence** (`application/project/`, `infrastructure/project/sql_store.py`;
partly). State: versioned associations and components. Hard: a record that is removed and
made again must not satisfy a request that read the old one.

**Evaluation** (`application/evaluate_knowledge.py`, `evaluate_rag.py`,
`composition/evaluate.py`; partly). State: what a run has observed. Hard: what it judges may
lie about itself; lost verdicts. Correct if it passes only on evidence.

**Test-file parsers and writers** (partly): their effect on keys, kinds and definitions.

**Not modelled**: web client session, providers and prompts, settings, observability and
feedback, command line and HTTP presentation, web user interface (section 7).

### How they interact

```
 browser tabs ──HTTP──> routes ──> use cases ──> catalog rows ── blobs (path locks)
 MCP clients ──────────────┤         │     └──> chunk store ─> BM25 mirror, id cache
                           │         ├──> grants ──> providers (list, fetch)
                           │         └──> workspace store (drafts, receipts, folders)
                           └─> chat router ─> agent ── checkpoints, ledger, approvals
                                                └─ approved tool ──> Xray / Drive export
```

Uploads and connectors write the same kinds of rows and chunks under disjoint ids, so
`DocumentLifecycle` and `ConnectorSync` need no composition. `TestDesign` composes
`DraftRules` with server threads and refines `AtomicDraft`; `McpCalls` takes each request on
a draft as one step because `TestDesign` shows that it acts as one. `TestExports` composes
the button, the approved tool, the draft, the receipt and the folder. `XrayFiles` extends
the pure `TestFileRules`. The grant modules take a synchronization as one step over the
rows: its inside is `ConnectorSync`, which in turn takes a listing as one observation:
its inside is `IssueListing` and `DriveWalk`.

`Connections`, `KnowledgeFlow`, `DraftReplies`, `MCTestExports` and `MCStores` put several
modules into one run. They share no state, so a variable `which` chooses at the start which of them
moves, and the others stay where they are: a run asks each module's question of each
module's whole state space and no product of them is explored.

## 2. The modules and the code

### DocumentLifecycle

| state | in the code |
| --- | --- |
| `row` | the row of `SourceCatalog`: status, the upload its name and type describe, the missing-bytes sentinel |
| `vec`, `lex` | which upload each chunk position holds in Chroma and in BM25 |
| `blob` | which upload's original bytes are on disk |
| `pc`, `op`, `outcome`, `stored` | where a request stands in `create`, `replace` or `delete`, and its local variables |
| `reading` | a download between its read of the row and its read of the bytes |

One action is one store call with the bookkeeping up to the next. `VecUpsert` overwrites
positions and leaves higher ones, as record ids derive from the chunk index; that is why
chunk counts matter (`ChunkCount`, long uploads followed by short ones). A failed
upsert restores what was there, or leaves any part of the positions it was writing when
the restore fails too. `Crash` empties every request and rebuilds the mirror from the
vector store, as the start of the process does. `FailIngest` and `RestorePrevious` carry the
distinction the code makes between failures before and after the first mutation.

An upload is a number: name, media type, text and bytes of one payload travel together,
and later requests have larger numbers. Left out: size limits and extraction (a refused
upload changes nothing).

### ConnectorSync

One action is one call of the provider, the catalog or the vector store. `remote` is what
the provider holds, changing under `Edit`, `Touch`, `Add`, `Remove`. A run takes
`listing` and then `snap`, the catalog, and decides from these only. `Take` is
`_sync_one` up to its first call; `Probe` / `Rewrite` / `Advance` the metadata path;
`WritePending` ... `WriteReady`, `Restore`, `Degrade` the ingest with its failures;
`Reconcile`, `RemoveChunks`, `RemoveRow` the removal; `Select`, `Disconnect`, `Connect`,
`PurgeRows` the grant. `Kind` chooses the connector: whether the listed revision is the
content (`github`), whether hashes are listed, whether a fetch returns the listed or the
current text. `Restart` may come back with other chunker or embedding settings. `Legacy`
documents have a row from before fingerprints.

Abstractions: the order of a listing is open and a listing is one observation; metadata
stands behind the listed revision; a provider hash is the text; a mismatch of chunk
counts is `whole = FALSE`. Left out: rows without connector ids, the Drive command line
(which does not reconcile), project items of GitHub (as Jira's issues), the lexical
mirror (its order of writes is in `DocumentLifecycle`).

### IssueListing, DriveWalk

`FetchPage` takes one page: by a cursor over what is left (`cloud`, and the items of a
GitHub project) or by an offset with the total of the page before (`data_center`,
`Drifted`); `Budget` is the bound on pages derived from the smallest page seen. `IssueComes`
and `IssueGoes` are people at work between pages. With `Mixed = FALSE` the issues of one
listing by offset only come or only go; `listing_shift` shows what both at once do.
`DriveWalk` is the queue of folders, the set of visited ones, the pages of the folder at its
head, and then the chosen files one by one (`LookAt`). Folders do not move.

### The four connections

| state | in the code |
| --- | --- |
| `grant` (`state` of Data Center) | the record of the connection store: tokens as the number of the pair they came with, site or account, selection, reauthentication flag |
| `states`, `stale` | issued callback states, and those past their time to live |
| `req` (`step`) | what a request took along at its start and where it stands |
| `docs`, `rows` | the provider's rows of the catalog with their chunks |
| `pairs`, `consents`, `spent`, `expired`, `revoked`, `dead` | what Atlassian, GitHub or Google know of their tokens |
| `history` | for the properties: lost answers, failed purges, counters |

A request is `Begin`, its calls, and its save; between them others run. `JiraCloud`:
`Rotates`, `Sent` and the four outcomes of a rotation are the refresh under the lock of the
grant, with a second look at the stored pair (`SendsSnapshot`, `TakesPair`);
`CallRefused` the retry and the mark for reauthentication, for a dead token and, after
`PermissionLost`, for a working one: the client maps 403 like 401; `SaveConnection` with
`ReconnectedKeepsKeys` what a reconnect keeps; `ChecksSite`, `ChecksProjects` the
validations of a selection; `PurgeRows` and `PurgeFails` the removal of rows. `GitHubGrant` renews
outside the lock with the token of its snapshot and stores over whatever is there
(`StoreRenewed`). `JiraDataCenter` has its token in the environment and learns that the
server behind the address is another one (`Store`, `ConnectionState`). `DriveGrant` keeps its
refresh token, validates what is selected against the account, and drops the root of a
document that is deleted (`DropRoot`).

Assumptions: the pickers and listings of a connection overlap everything; requests that
change it come one at a time, in their steps, which nothing in the server enforces
(observations 8 to 11 say what can happen beside it). An access token issued during a request outlives it. Two Jira sites have one
project each; an environment preset names a second GitHub repository.

### ToolApproval

`ledger`, `pending_args`, `owned`, `tools` are the four process-local maps; `thread` the
checkpointer; `req` what each server thread is doing. `Ask` is `LangGraphToolAgent.run`;
`ModelAnswers`, `ModelCalls` what the model can reply; `CallUnknown`, `CallInterrupts`,
`CallRejected`, `CallApproved`, `ToolRuns`, `ToolFails`, `NodeEnds` one pass of
`call_tools` over its calls; `ReadLedger`, `Record`, `NotFound`, `Replays`, `Accepts`,
`Invoke` the decision; `ClearThread` deleting a conversation; `Restart` the end of the
process. What LangGraph does (values given to a resume are stored with the thread and
the interrupted node runs again from its start with all of them) is external, modelled
from how the agent relies on it. `CheckpointTuple` has no `interrupts` attribute, so
`Interrupts` is empty and the branch that uses it is dead, as in the code.

`fresh`, `home`, `shown`, `approved`, `cancelled`, `runs`, `ranHere` record what users and
the outside saw. Abstractions: argument values; ids are unique, as the provider's are;
tools without approval change nothing and are left out.

`Serial = TRUE` says a client sends one request per conversation and approval at a time.
That is what the busy flag of the approval card gives one tab. The server does not
enforce it; what holds without it is said below.

### ChatTurns

A question is the record of what the patterns of the workflow probes find in it (`Queries`);
which words those are is left out. `Classify` is the router over the probes' signals,
`ByCues` what decides without one, `ContextAfter` what the server remembers when a turn
was routed. A turn takes the steps of `_execute_routed`: `Ask` reads the context, `Probe` lets the
probes look at the draft of then (`Finds` is what they would say of each draft), `Remember`
replaces the context or drops it, and only then is an answer worked out and delivered:
`Clarified` a question back, `StartExport` and `Finish` an export or an answer, `HandOff` a
button for Test Design, which starts nothing. Before each of these the turn can fail
(`TurnFails`) or its user can stop waiting while the server goes on (`Stop`). `question` is what
was last put to the user, `context` what the server takes a yes for, `unheard` says the answer
that puts the context's question has not reached anybody; `drafted` is how far the
conversation's draft has come (`DraftMoves`). One conversation, one turn awaited at a time.

### DraftRules, AtomicDraft, TestDesign, CaseReplies, DraftReplies

`DraftRules` holds the pure part: `Patched`, `ConfirmedBy`, `Generated` and `Stored` turn a
draft into the next one, with the demotions, skips and resets of the facade and the use
case. `TestDesign` runs them as requests do: read, fetch evidence, read again, ask a model,
save with the version the author has seen; `Conflicts` is the compare and swap of
`VersionedWorkspaceStore.update`. `AtomicDraft` says the same rules applied atomically to
the stored draft.

Abstractions: a candidate is its title, coverage, type and selection; a case is the id of
its candidate; limits and the order of candidates are left out. One change per request,
to candidates in `Movable` (all may be selected or deselected). Patches that combine a list
with edited cases are not tried.

`CaseReplies` is what the facade leaves to the use cases: which cited sources of a suggested
candidate survive (`Suggest`), and how the Gherkin of several replies is brought under one
Background, with unused Examples stripped and a second try for a broken one (`Generate`,
`EditCase`, `EditBackground`, `Deselect`). Keywords and titles are left out. The Backgrounds
of the run have no placeholders (`PlainBackgrounds`; observation 14 says what happens
otherwise). `DraftReplies` puts the two beside each other: a property of what was written, or
of the evidence, has a part in either.

### TestExports

One action is one get, one compare and swap, or one call of Xray or Drive. `PressXray`,
`AskXray` / `ApproveXray` are the two doors; `Load`, `ReadSchema`, `Create`, `Reject`,
`LoseAnswer`, `FinishCreating` the batch with its cached metadata and its one retry of a
rejected create, where a rejection may have made the test (`denied`: Cloud answers errors and
the test); `ReadReceipt`, `WriteReceipt` the append with `Tries` attempts and room
for `MaxKeys` keys; `PressDrive`, `ChooseFolder`, `FindFolder`, `SaveFolder`, `Upload` the
Drive file. `Restart` ends every run that is at work. The layout of the file is left out
except for which version of the draft is in it.

### McpCalls

`Invoke` is the gate of `presentation/mcp/app.py`: unknown or not allowed, allowed
without approval, approved inside the call (`Elicited`), or sent back with a question whose
answer comes with the next round and is bound to the arguments (`Binding`). `Get`, `Patch`,
`Confirm`, `Generate` are what the two Test Design tools do with a draft, whose users go on
typing (`TypeTitle`). Reading tools, transports and schemas are left out.

### TestFileRules, XrayFiles

`TestFileRules` is pure: the matching of scenarios and tests by tag, bare key and summary,
who owns a key, the changes of an update, the plan of a pull. `XrayFiles` runs a plan one
request at a time (`jira` is a function on the keys there are, `run.owned` what the files
named when the call read them): each may succeed, be rejected, be refused for credentials (the call
stops) or be lost with or without its effect. A create that Cloud answers with errors is
rejected whether or not it made the test (`MakesAnyway`; `denied` keeps those tests), and it is
tried again once when its metadata came from the cache (`TryAgain`). `Mutations` is the order of the requests of
one update on Server and on Cloud. The caller writes keys into its files between calls.

Assumptions: every call sends all files, a pull asks for one format, one call at a time,
authors rename in Jira only between calls. A definition is one of two bodies; components,
link types, preconditions and outlines are left out.

### ChunkStore, PathLocks, Chunking, Retrieval

`ChunkStore` opens what `DocumentLifecycle` calls one upsert: `Delete`, `Write`, and after a
failure `Recover`, `Restore` or `RecoveryFails`; then `Invalidate` the cache, `WriteMirror`,
`Return`. `UpdateMetadata` and `Reindex` rewrite rows, where Chroma merges promoted keys. A
listing reads ids, keeps them in the cache and reads its page (`FetchIds`, `KeepIds`,
`ReadPage`); `Evict` is the cache at its limit. `PathLocks` is the table of locks with its
references and its trimming. `Chunking` cuts a text of lines with a kind and a length,
character by character known by its line and place, in windows or along the blocks of
markdown: `Parsed` is the state after so many lines, `Blocks` what it ends with, `AddRow` and
`AddBlock` one turn of the loops over rows and blocks. `Retrieval` is one search: channels, normalization, fusion, cuts, and whether
the reply may use the model's words. `sorted` is `InOrder`, the place of an element being the
number of those before it. Scores are integers; which of equals a store leaves out is open.

### Projects

Every operation is one transaction that names the versions its author has seen; `Read` is
somebody looking at a record, `retired` the version an association had when it was removed.
Scopes have directories nested one below the other, 0 the whole scope. `Resolved` is the
resolution of a document to components. Coverage reports are left out, and there is no
deletion of projects in the code.

### KnowledgeEval, JudgeGate, Evaluation

`KnowledgeEval` loads a suite (`ValidSuite`), runs its cases in order and derives the exit
code; what is evaluated may answer anything and say anything about itself (`Responses`), and
the recorder behind it keeps what was retrieved. `JudgeGate` scores each observed case on
each metric, loses any verdict, and holds means, majorities, pass rates and the baseline
against each other; `torn` is an observation that did not fit what was retrieved
(`observation_integrity`, whose checks are `Intact` of `KnowledgeEval`) and fails the gate.
Scores are twentieths, and `Sum` counts them one by one. The means that a report only prints
are left out, as is the judge's prompt. `Evaluation` lets the two parts move on their own:
the command runs the suite first and takes from the judge only how it ended, which
`KnowledgeEval` has as any outcome.

## 3. Runs

| run | asks | bounds |
| --- | --- | --- |
| `documents_one_at_a_time` | `ReadyIsWhole`, `NothingHidden`, `MirrorInSync`, `NoStaleBytes`, `StaysDeleted`: requests on a document not overlapping, readers overlapping | 1 document, 2 writers, 1 reader, 3 uploads (long, short, long), 3 faults |
| `documents_delete_retried` | `DeleteConverges`, requests overlapping | 2 uploads, 1 fault |
| `sync_drive` | `ReadyIsCurrent`, `ProfileHonest`, `NothingHidden`, `Converges` | 1 file, 2 folders, 2 changes, 2 faults or restarts, 2 changes of selection or grant, a legacy row |
| `sync_github` | `ReadyIsCurrent` with content hashes, `FailuresKeepRows` | 2 files, 2 changes that may return to earlier text, 1 fault, 1 change of selection |
| `approvals_one_at_a_time` | `RunsWereApproved`, `OneRunPerApproval`, `Resumable`, `DecisionTakesEffect` | 2 conversations, 2 approvals, 1 call per message, 1 restart |
| `approvals_two_calls` | violation of `OneRunPerApproval` | 1 conversation, 1 message with 2 calls |
| `test_design_drafts` | `ReadyIsConfirmed`, `WritingKept`, `EvidenceHeld`, and `ActsAtomically`, the refinement of `AtomicDraft` | 2 candidates, 2 texts, 2 types, 2 evidences, 2 threads, versions up to 6; replies: 2 cases, 4 scenarios, 2 Backgrounds, 4 sources |
| `xray_files` | `NeverTwice`, `WritesAccounted`, `UpdatedMatches`, `OwnersDistinct` | 2 files of 2 scenarios, 3 keys, 5 starts, 3 calls, 1 fault, 1 edit, Server and Cloud |
| `connections` | `NoReplay`, `LiveGrantKept`, `ScopeOfAccount`, `RowsAccounted` | Jira Cloud: 2 requests at once, 4 in all, 2 sites, 3 token pairs, 2 states, 1 trouble; GitHub: 4 requests, 2 repositories, 1 board; Data Center, Drive: 5 requests; Drive 2 accounts, 2 tokens, 2 files, 2 folders |
| `exports` | `EveryKeyAccounted`, `NothingCreatedTwice`, `ExportsAsConfirmed`, `ExportsWereAskedFor`, `DoneAsAgreed`, `JudgedOnEvidence` | 2 runs, 2 tests, 2 versions, 4 issues, receipts of 3; 2 turns at once; 2 MCP requests, 3 versions; 3 suites; 4 cases and 2 metrics |
| `stores` | `WholeOrNothing`, `CacheCurrent`, `OneThreadPerPath`, `OperatorsAgree`, `EvidenceKept`, `PassedOnWhole` | chunk store: 2 sources of 2 chunks, 3 writes, 2 failures, 1 listing; locks: 3 threads, 3 paths, a table of 2; 2 projects, 2 scopes, 2 components; 3 chunks, 1 search; 5 issues, pages of 2, 2 changes; 3 folders, 2 files, 1 move; texts of 4 lines, chunks of 6 with overlap 0 and 2 |
| `listing_shift` | violation of `ListedWhole` | 5 issues, pages of 2, 2 changes, one of each kind |

Why the bounds are enough (section 5 says for which properties the proofs remove them).
*Documents*: documents share nothing but the thread pool, so
one is enough; what goes wrong takes at most two uploads after a first one and a fault in
each, and a shorter text after a longer one. *Sync*: a
skip can be wrong only through (listing, change, fetch, change back, listing), four
observations of one file; removal and failures need a second one (`sync_github`). Two changes
of selection take a file out of scope and back while its removal stands half done.
*Approvals*: a second conversation is needed for decisions sent to the wrong place, a
second approval for the one after; both ids may come from any conversation and a restart
may separate any two steps. *Drafts*: two threads are all that can race for one version;
five saves reach confirmed, generated, edited, demoted and confirmed again; two cases are
all that a Background joins. *Xray files*: three calls are create, write back or edit, and
create or update again; three keys are two tests and a new one. *Connections*: three pairs
are the first one, a renewal and a reconnect; four requests are a connect, a selection
and two that overlap on them. *Exports*: two runs race for one receipt, four tests are two
runs of two, and three keys make the receipt overflow; two turns are one that goes on after
its user has left and one that comes after. *Stores*: three threads and three paths are the
least for which a lock can be dropped and made again while somebody waits for it; a text of
four lines is a heading of a table, its rule and two rows; an offset steps over an issue
after two changes.

`CHECK_DEADLOCK FALSE` stands in `sync_drive`, `sync_github`, `xray_files`, `connections`,
`exports`, `stores` and `listing_shift`: there the bounded number of calls, requests, writes
or pages is used up, or a run of an evaluation or of a listing is over, and nothing can
happen any more. Every other run checks deadlock.

Every property of a passing run has a mutant in `PROJECT.json`: the definition of the code
it would catch, changed the way a plausible bug would (the operators named
`X_Something` stand beside `X` for that).

### Fairness

* `DocumentLifecycle!RetrySpec`: weak fairness of each request's next store call (the
  pool runs what it took), strong fairness of `Delete`: an operator who wants a document
  gone asks again whenever the document is free. The failure message of delete says to.
* `ConnectorSync!RepeatedSpec`: weak fairness of each run's next call, strong fairness of
  starting a sync. Nothing in the code schedules a sync; that one is asked for again and
  again is an assumption about the operator, and the property says what it buys.
* `ToolApproval!FairSpec`: weak fairness of each server thread. Users are not fair: nobody
  has to decide. `DecisionTakesEffect` speaks of accepted decisions and excludes the end
  of the process, which forgets them.

The other modules state safety only: their requests end because the code has no loop
without a bound, which is what the guards say.

Symmetry is used in `test_design_drafts` (threads and evidences), `connections` (requests
of Jira Cloud, and its sites together with their projects) and `exports` (runs of an export and turns of the chat, which have the same names), with
safety properties only.

## 4. What the checks show

Holds within the bounds:

* **Uploads.** When requests on one document do not overlap, a ready row describes exactly
  the chunks that are searchable, through every failure and crash (`ReadyIsWhole`); nothing
  searchable is missing from the catalog or failed in it (`NothingHidden`); the mirror
  agrees with the vector store between requests (`MirrorInSync`); no download pairs a
  row with older bytes (`NoStaleBytes`); deleted documents stay so (`StaysDeleted`).
  However requests overlap, a delete that is retried wins (`DeleteConverges`).
* **Sync.** Chunks behind a row at the provider's revision are cut from the provider's text
  and under its format (`ReadyIsCurrent`, Drive without returns to earlier bytes); a ready
  row never claims settings its chunks were not made under (`ProfileHonest`); repeated syncs
  of Drive reach what Drive holds for each file (`Converges`), with one exception: a removal that took the chunks
  of a file and stopped before its row leaves a ready row that is skipped if the file is
  selected again (observation 4). `Converges` excepts a ready row at the provider's revision without
  chunks, and says where one comes from: a removal that is under way, the provider returning to the
  revision of a row that a removal left, or an early failure that puts such a row back. A listing by cursor that does not raise
  has every issue that stayed, one by offset too if issues only come or only go, and a walk
  of folders every file that stayed in place (`PassedOnWhole`).
* **Connections.** Jira Cloud's one-time refresh tokens are sent twice only when the answer
  to the first was lost (`NoReplay`); a grant that works is not marked broken by a request
  of its own consent (`LiveGrantKept`), except when Jira denies the call for want of a permission,
  and then only after that request renewed the pair once or could not (observation 8); what is
  selected is on the selected site and readable by the connected account
  (`ScopeOfAccount`); when nothing is under way and no purge failed, every row is accounted
  for by the connection and selection that stand (`RowsAccounted`).
* **Approvals.** One request at a time, one call per message (finding 1 is about two):
  tools run only when approved in the conversation that asked (`RunsWereApproved`), at most
  once, also after lost answers, failures, restarts (`OneRunPerApproval`); outstanding
  approvals can be resumed (`Resumable`); accepted decisions take effect
  (`DecisionTakesEffect`). An export starts only on a clear wish or on a yes to the question
  last put, or to one whose answer was stopped, failed or is still to come (`ExportsWereAskedFor`,
  observation 13). What MCP calls do was agreed to, and no title typed by
  anyone is undone by them (`DoneAsAgreed`).
* **Drafts.** The server's requests implement atomic ones (`ActsAtomically`); the fingerprint
  moves only with a confirmation, and candidates cite what they were suggested from
  (`EvidenceHeld`); edits go only by someone who has seen them, and scenarios run the steps
  they were written with however others come and go (`WritingKept`); ready drafts are
  confirmed and cases belong to selected candidates (`ReadyIsConfirmed`), so that the checks
  in the constructor of `TestCoverageDraft` never refuse a save.
* **Exports.** Keys that were told are in the receipt (`EveryKeyAccounted`), no run creates a
  test twice (`NothingCreatedTwice`) but through the one retry of a first create that Cloud
  answered with errors though it made the test (observation 17), a button exports the version its user looks at and
  approved arguments are never refused (`ExportsAsConfirmed`). Test files: results admit every
  write (`WritesAccounted`) but those of such creates, "updated" is true and nothing of the old kind stays
  (`UpdatedMatches`), a key has one owner (`OwnersDistinct`), a scenario whose test exists
  is not created again (`NeverTwice`), except by that retry and never a third time.
* **Stores.** A replacement of chunks is whole or undone (`WholeOrNothing`), and a text loses
  nothing when it is cut, not even table headers (`EvidenceKept`); what a listing takes from the cache is in
  Chroma (`CacheCurrent`); blobs have one thread each (`OneThreadPerPath`); project operators
  agree on what they read, share and place (`OperatorsAgree`); better evidence comes first
  (`EvidenceKept`).
* **Evaluation.** A run that passes rests on evidence, whatever the system under test says
  and however many verdicts are lost (`JudgedOnEvidence`).

Findings (each a run of its own; the quoted lines are in `PROJECT.json`):

1. `approvals_two_calls`: a resumed node starts over, so that the approval of the second
   call of a message runs the first call again.
2. `listing_shift`: Data Center pages are compared by their total only. One issue deleted
   and one created between two pages hide a third one from the listing, which does not
   raise, so that the sync removes its document.

### Observations

Met while modelling; most are outside what the code claims, and the properties above say
under which condition they do not happen.

Documents and sync:

1. Two overlapping replaces can leave the bytes of the older upload under the row of the
   newer one, and a download serves them (`manage_documents.py:470-472` thinks of this
   case); their chunks can mix; a delete that races a create brings the row back.
2. The md5 stored with a Drive row is that of the listing, the text that of a later
   download. When the file changes in between and then returns to the listed bytes, the
   other text stays indexed under a current row (`adr/0012:47`).
3. Drive ids carry no scope, so that a run with failures removes rows that
   `sync_connector.py:80-81` says are left alone.
4. A removal that stops between chunks and row leaves a ready row without chunks, and a
   file that is listed again at the same revision, because it is back or selected again, is
   skipped for ever: `sync_connector.py:190-194` compares the row only, while
   `sync_connector.py:63-64` says that missing stored chunks fall back to ingesting again.
   `Converges` excepts this case, which `sync_drive` reaches.
5. A sync in flight when the provider is disconnected writes its document again after the
   purge (`composition/jira/cloud.py:833`, and the others).
6. Two syncs of one connector at once: the slower one writes older text over newer;
   `ARCHITECTURE.md:268` takes this out of scope.
7. A Drive file that moves from a folder not yet walked to one already walked is missed, and
   the sync deletes its row. `ARCHITECTURE.md:248-249` says Drive only adds and updates,
   while `composition/google_drive/sync.py` reconciles. `README.md:314-315` says
   disconnecting Drive leaves indexed documents in place while
   `composition/google_drive/connection.py` purges them. Jira Cloud's budget of pages also
   counts empty ones.

Connections:

8. Jira Cloud: after a lost refresh answer the consumed token is sent again later
   (`README.md:465` says it is never reused); a request that outlives its renewed token marks
   a grant that could be renewed; `_mark_reauth` also wipes a newer grant; a 403 is mapped
   like a 401 (`jira/client.py:213-214`), so that listing projects, saving a selection or a sync
   without the permission renews a pair that works and then wipes it
   (`composition/jira/cloud.py:296-313`); saving a project
   selection does not look at the site again; a reconnect with another account keeps the
   connector id and leaves the rows of the old site; a callback with `access_denied`
   leaves its state usable.
9. GitHub: two renewals that overlap make the loser mark the grant; pickers mark it at the
   first refusal without a renewal; a reconnect replaces the record with one without
   connector id, so that rows under the old id survive; a sync writes back the selection of
   its start; a repository that was cleared is selected again by the next sync when a
   preset names one; a second fetch after a renewal sends the consumed token
   (`AuthRetryingGitHubIssueReader` keeps it); a disconnect during a sync meets an `assert`.
10. Data Center: a call refused after a disconnect makes a blank state again.
11. Drive: a reconnect with another account drops the selection and leaves its rows to the
    next complete sync; keeping the scope ignores an account address that was not verified
    (`history.unproved`); `mark_drive_reauth` also marks a newer grant; a selection saved
    across a callback could come under another account. For every provider the grant is
    cleared before the purge, so that a failed purge cannot be retried by disconnecting.

Chat, drafts and exports:

12. Two approves that overlap both run the tool, and a reject that races an approve is told
    nothing was changed; a question asked while an approved tool runs restarts the thread
    under it.
13. A turn that raises for two issue locators keeps the open question of an export; a yes
    whose run fails has already cleared it. The context is set before its question is
    delivered (`tool_augmented_ask.py:321-323`): when that answer is stopped or fails, the next
    yes starts the export of a question nobody saw.
14. `packs/software_delivery/README.md:443-445` says changed coverage clears the generated
    cases; the code keeps those of unchanged candidates. A batch generated while another
    Cucumber case is retained loses the Background its reply came with, as does a retried
    reply (`generate_cases.py:257-262`); deselecting the last Cucumber case leaves the Background.
    Nothing refuses a placeholder in a Background, and repeated steps are taken off after
    the Examples were checked (`generate_cases.py:263-265`): a case may be left with Examples
    that none of its own steps reads (TLC finds it when a Background reads a column).
15. The count on the Xray card is that of the draft when it was asked; the approved tool
    loads the draft again. The count on the Drive card is of selected titles while the file
    holds ready cases only. The cap of 1 MiB can reject an export that was approved. Tests
    created before an unclear answer, a crash or a failed append can be in no receipt; the
    button raises although they exist, the chat's recorder only logs.
16. MCP: a retry that was answered can be sent again and runs again; a confirm of a confirmed
    draft bumps its version; a confirm that fails leaves the patched selection.
17. Xray Cloud: a create answered with `errors` counts as rejected also when its data hold the
    test it made (`cloud.py:389-390`; the update makes the distinction). No result names that
    test, and `batch.py:35-39` may make it a second time with fresh metadata. `NeverTwice`,
    `NothingCreatedTwice` and `WritesAccounted` except what these creates made. A pull of both
    formats in one call can give one key two owners; sending only some files can give two
    scenarios one key; two create calls at once can both create.

Stores and evaluation:

18. A listing that overlaps a write can leave a stale entry in the cache of ids (with
    `Overlap = TRUE`, `CacheCurrent` does not hold), and so does a recovery that fails.
19. No operation makes an association "rejected". Splitting a suggested scope into components
    first leaves its confirmation without a whole-scope default.
20. Ask cases with expected sources do not check `hit_at_k`; a grounded case with empty gold
    passes without a citation; an offline report that cannot be written exits 1 though no
    case failed. A lost low verdict raises the mean, so that losing one can turn a failing
    gate into a passing one, as long as the majority and the pass rate hold.

## 5. What is proved

TLAPS checks these for every value of the constants. The assumptions are those the modules
name, and TLC evaluates each of them on a run: types of the bounds (`BoundsAssumption`,
`ExportsAssumption`, `ChunkStoreAssumption`, `ProjectsAssumption`, `JiraCloudAssumption`,
`ConnectionsAssumption`), that threads are finitely many (`PathLocksAssumption`), and so
are issues and folders, that issues are numbered in the order of creation and a page asks
for one at least (`IssueListingAssumption`), that a file is no folder
(`DriveWalkAssumption`), that a line that is not blank has a character besides its line
break (`ChunkingAssumption`), that chunks and scores are integers and both are finitely many
(`RetrievalAssumption`), that the judge's scores, floor and means are between 0 and 1, the cases
finitely many and half of them at least have to pass (`EvaluationAssumption`:
`RagJudgeThresholds`, `RagJudgeBaseline` and the judge's parser refuse other numbers,
`DEFAULT_PASS_RATE_FLOOR` is 0.5 and the command has no other), that keys and paths are
distinct, other issues are no tests and there are no other kinds of test
(`RulesAssumption`), that files and tests start as parser and Xray make them, each key with
one owner and each test with the definition of its kind (`StartsAssumption`), that scenarios and
Backgrounds are sequences of steps and sources finitely many (`RepliesAssumption`), that there is
something to choose from (`Texts # {}`, `Types # {}` in `TestDesignAssumption`), and that
the values for "none" are none of the others (`NoneAssumption`, `"none" \notin Evidence`).
A condition on how requests may overlap is part of the theorem that needs it. The proofs
have no bound on documents, threads, requests, tests, sources, cases, issues, pages or
faults; counters that a guard bounds stay bounded by the constant, whatever it is.

| theorem | states | when |
| --- | --- | --- |
| `DocumentLifecycle_proofs`: `ReadyRowsAreWhole`, `NothingIsHidden`, `MirrorAgrees`, `BytesAreFresh`, `DeletedForGood` | the five safety properties of `documents_one_at_a_time` | `~Overlap` |
| `ConnectorSync_proofs`: `NothingLeftHidden`, `ProfilesHonest` | `NothingHidden`, `ProfileHonest` | `~Overlap` |
| `SkippingIsSound` | `ReadyIsCurrent` | `~Overlap`; Drive: `Steady` |
| `FailuresNoDeletes` | `FailuresKeepRows` | `~Overlap`; not Drive |
| `ToolApproval_proofs`: `OnlyApprovedToolsRun` | `RunsWereApproved` | always |
| `ApprovalRunsOnce`, `OutstandingResumes` | `OneRunPerApproval`, `Resumable` | `Serial`, `MaxCalls <= 1` |
| `TestDesign_proofs`: `ConfirmedDrafts`, `Refinement` | `ReadyIsConfirmed`, `ActsAtomically` | always |
| `ScenariosKeepMeaning` | `WritingKept` | `PlainBackgrounds` |
| `CandidatesCite` | `EvidenceHeld` | always |
| `EditsStay`, `EvidenceStays` | their parts about the draft, `EditsKept` and `EvidencePinned` | always |
| `Connections_proofs`: `SentOnce`, `LiveGrants` | `NoReplay`, `LiveGrantKept` (of `JiraCloud`) | always |
| `RowsHaveAccount`, `ScopeIsOfAccount` | `RowsAccounted`, `ScopeOfAccount` (of the four connections) | always |
| `SelectedOnSite`, `RowsHaveOwner` | their Jira parts, `SelectionOnSite` and `RowsOwned` | always |
| `Stores_proofs`: `ReplacedWhole`, `OneThreadAtABlob` | `WholeOrNothing`, `OneThreadPerPath` | always |
| `CachedIdsCurrent` | `CacheCurrent` | `~Overlap` |
| `ProjectsAgree` | `OperatorsAgree` | always |
| `ListingsPassOnWhole` | `PassedOnWhole` | by an offset: `~Mixed` |
| `DocumentLifecycle_proofs`: `EvidenceIsKept` | `EvidenceKept` | always |
| `ToolCalls_proofs`: `KeysAccounted`, `CreatedOnce`, `ConfirmedVersion` | `EveryKeyAccounted`, `NothingCreatedTwice`, `ExportsAsConfirmed` | always |
| `DoesAsAgreed` | `DoneAsAgreed` | some text and type |
| `AskedExports` | `ExportsWereAskedFor` | always |
| `EvaluationOnEvidence` | `JudgedOnEvidence` | always |
| `XrayFiles_proofs`: `XrayNeverTwice`, `XrayWritesAccounted` | `NeverTwice`, `WritesAccounted` | always |
| `XrayUpdatedMatches`, `XrayOwnersDistinct` | `UpdatedMatches`, `OwnersDistinct` | always |

Besides these, `TypeCorrect` is proved for `DocumentLifecycle`, `ConnectorSync`,
`ToolApproval`, `TestDesign` and `JiraCloud` (in `Connections_proofs`).

The conditions are not there for the proofs: each excludes a behaviour that section 4
describes and TLC finds. Without `~Overlap` the observations 1, 5, 6 and 18 happen; with two
calls in one message, finding 1; with tabs that decide at once, observation 12. `Steady` says
that no Drive file returns to bytes it had (`Changes` has neither "revert" nor "restore"),
which observation 2 is about; with `Mixed`, finding 2; a run with failures
over Drive is observation 3.

### The arguments

**`DocumentLifecycle_proofs`.** `TypeOK` is not inductive: a request that writes a row needs
to know that its document and upload exist. `TInv` adds that (`OpOK`), that no row is newer
than the last upload (`RowsOK`) and that a reader knows its document. `IInv` then says what
the stores hold *at each step* of a request: between requests every document is `Intact`;
during one, `UploadProgress` and `DeleteProgress` say for each label of `pc` which of the four
stores is already new, empty or still that of the previous row (so that the previous row may
be restored exactly where the code does); `ReadersOK` says bytes only become newer, or
vanish, under a reader between its two reads. `Exclusive` is where `~Overlap` enters. One
lemma per action shows what it does to its own document (`Local`); the frame lemmas show it
leaves the others alone. `DeletedForGood` also needs that a replace began with a row
(`ReplacesKnown`): then every write of a row by an upload finds one, so that a document
without a row can only be left alone. It says nothing of a replace that was under way when
its document was deleted: `~Overlap` excludes it, and in the code it can bring the row back.

**`ConnectorSync_proofs`**, in two layers. `LInv` (types and `LocalOK`) holds with any
overlap: it is about what one run has taken along, so that a row about to be rewritten is
the one the snapshot had, a fetched text belongs to the listed document, and a run with
failures never picks a document of a root that it listed. `IInv` adds the shared stores when
runs do not overlap (`Solo`): `Agree` relates the provider, row and chunks of one document,
and `SharedOK` says for each label of `pc` what is still missing between them. Its part
`Vouches` is why a skip is sound: a ready row at the provider's revision was written after a
fetch that could only return the text of that revision. For Drive the
stored hash is that of the listing and the text that of a later download; they agree for a
row that is skipped because texts only get newer (`Forward`).

**`ToolApproval_proofs`**, in two layers too. `IInv` follows the approval on its way, for any
number of threads and tabs: a decision a request carries (`OkDecision`), an answer stored
with a thread or taken by a node (`OkAnswers`) is for an id that was handed out, and an
"approve" for a call of the conversation was sent; the calls a thread or a node holds
were asked for in its conversation (`OkCalls`); a running tool stands at an approved call.
These parts are stated over explicit values of the variables they read, so that one lemma
(`Later`) shows once that they survive every step, as ids only get handed out and approvals
only grow. `SInv` is about one request at a time: the request in a conversation is alone
(`Alone`), a thread waits for the one call whose card is out (`Waits`, `OwnedHome`), an answer
under way is fixed by the ledger (`AnswersFixed`, `RanFixed`), and a call that has run is
`Spent`: its arguments are gone, no conversation owns it, and no request stands at it again.

**`TestDesign_proofs`.** A request carries a draft it has read, evidence it has fetched and a
result it has computed, while others save. `RequestOK` says what this is worth: nothing, unless
the version it expects is still the stored one (`Current`); if so, its result is what the
rules make of the stored draft (`Made`). A save that passes the compare and swap is then the
atomic step of `AtomicDraft`, every other step stutters, and `DraftOK` (ready drafts are
confirmed over evidence, cases belong to selected candidates) is preserved by the rules,
operator by operator.

*Replies.* An invariant of its own, `RepliesInv`: cases and Background are made of steps, the
Background has no placeholder, and the two properties. `Strip` is what it rests on: of the
longest common prefix of a scenario and the Background nothing is known but that it is a
start of both (`CommonSteps`, by the greatest of finitely many lengths), and that is enough
for the rest and what was taken off to make up the scenario, with the same placeholders
(`StripIs`). A second try and dropping tables leave Examples only where a step reads them
(`SettledIs`). A case that stays keeps its Background because `Shared` keeps it as long as a
Cucumber case is retained (`GenerateKeeps`). For sources, each way in which `Resolve` guesses
gives the one source it may mean (`SuggestCites`). `PlainBackgrounds` excludes the last part
of observation 14.

**`Connections_proofs`.** *Jira Cloud.* Rotations run one at a time under the lock of the
grant (`Alone`), and `LocalOK` says what each request holds: a pair that it is about to send
under the lock is the stored one, and was not sent before unless an answer was lost
(`LossKnown`). Changes of the connection keep the site, projects and id together (`SameHome`),
and a row belongs to the stored grant or to a purge that is under way (`Accounted`).
`LiveGrantKept` needs `PInv` besides: pairs are ordered by consent and issue (`NotAfter`), a
request only moves to later pairs and the stored grant is never behind one (`TokensOK`), so
that a request that gives up with a dead pair found the stored one dead too. `AgainInv` is
about refusals: a request that renews a second time holds a pair that was refused, which then works
no more and never will again (`RefusedForGood`), unless a permission was lost, which is for good
too (`BarredForGood`); so the exception of the property is used for a lost permission only.

*The other three.* In each, what a change took along at its start still stands when it saves
(`GhTaken`, `DrTaken`, `DcTaken`), because changes of a connection do not overlap
(`GhSoleWriter`; the other two have one step at a time). On that rests what the rows are of
(`GhRowsKept`, `DrRowsKept`, `DcRowsKept`): of the stored selection, of a purge that still has
to remove them or, for GitHub, of a synchronization that is about to store the scope it wrote
them under. GitHub needs the last because the environment fills in what is not selected:
between the rows and the save, a row may be of no stored selection. For Drive, rows of a
selection given up wait for the next listing (`Covered`). *The hub* moves one connection and
leaves the others, so each keeps the invariant of its own module.

**`Stores_proofs`.** `WInv` relates the rows of Chroma to the batch of the writer and its
snapshot, label by label (`ReplacementOK`): partial writes stay inside the ids of the batch,
so that the recovery can clear exactly them. `CInv` adds the cache: what it holds of a source
is what Chroma holds, or what it will hold again if the write under way is undone
(`CachedOK`), and a listing's ids are current while it keeps them (`ReadersOK`). `LInv` is
about the locks of the blobs: whoever waits, works or is about to release has its path in the
table with the same lock (`UsersOK`), and an entry counts its users (`CountOK`), so that an
entry without users is nobody's. When no room could be made every entry has a user, and that
bounds the table (`Outgrown`). `ProjectsInv`: a version goes on from where a removed record
stopped (`Counted`), so that what somebody has read is there as it was, or has a later
version, or is gone and its key has retired a version as late (`AssociationSeen`; a component
gets an id that was never read, `ComponentSeen`). `Placed` says the components of a project
have no member in common, none is empty, and their scopes are associated; that the document's
deepest directory decides, and there is one, is a lemma about `Resolved`, which needs the
greatest of some bounded numbers (`Greatest`, by the library's least element of a well-founded
order).

*Listings.* `ListInv` says where a page starts: by a cursor all issues up to it were found but
those that came meanwhile, and none after it (`ByCursorOK`); by an offset the first `cursor`
issues of the project were, and no other of its issues, or the number of matches differs from the
one of the first page for good, as issues only come or only go (`ByOffsetOK`, `Shifted`), so that the
next page stops the listing. The lemmas before it are about the place of a number in a finite set: how
many are placed first (`FirstAre`), and how places go on behind them (`PlaceAfter`). `Paced`
counts: the smallest page times the pages behind is at most what was found, hence
the budget is only exhausted after an empty page (`BudgetIsEnough`). `WalkInv` says a visited folder
has its files in the list and its folders visited or queued, but for the one whose pages are still
coming (`Entered`); an empty queue then makes the visited folders closed, and `Reached`
is within every closed set.

**`ToolCalls_proofs`.** *MCP.* `RequestOK` says a request that may run has an approved call, and
relates the draft it has seen to the stored one: after its patch, as long as nobody else
saved, the selection and titles are those its caller saw (versions only grow, `Moved`).

*Chat.* Only one turn is waited for, and while it works its answer out the context is empty or
`unheard` (`ChatInv`), so that a delivered answer makes the context and the question last put
the same. A query that the probes route to an export, on whatever draft they will see, raised
the signal of that export and no other (`ExportSignal`), hence it asked for it and nothing else
(`WasAsked`); `Sound` carries that along the steps of the turn.

*Exports.* `Local` says of each run, by its label, which tests in Xray are its
own, which of its keys are in the receipt and what its snapshot of the receipt is worth; a
compare and swap on an unchanged version makes the snapshot exact, so that the append loses
no key of another run. `Receipts` says the keys are those of answered creations, each once.
The lemmas before it are about the receipt as a sequence: leaving out duplicates keeps
the first of each, appending and cutting to `MaxKeys` keeps all or leaves a full receipt.

*The judge.* `JudgeInv` says a case that was not observed has no
verdict and the report is what `Gate` makes of the verdicts. The hard part is that a better
verdict never fails the gate, which could be wrong because the mean is over what was scored:
a lost verdict that had been the best adds one to the number of scores (`ScoredWithBest`) and
`Best` to their sum (`MeanWithBest`, by counting the twentieths), and no bound is above
`Best`. *The suite.* `EvalInv` says a case that was answered badly has a failing result,
results that do not fail are scored exactly where the case names sources (`Fits`, which needs
that the suite was valid), and a code of zero comes from a full list of results without a
failure. `ChecksAreSound` and `TopIs` are about what the checks are worth: an answer that
passes cites only what its own retrieval returned, and what counts as found stands among the
first `k` hits.

**`XrayFiles_proofs`.** None of the four properties is inductive: each speaks of results, and
what makes them true was decided when the plan was made. First come lemmas about the plans,
for any number of files and scenarios. `FlattenIs` and `MatchScenariosIs`, `UpdateMatchesIs`
give the equations of the recursive functions (the least index where they fail does not
exist, `Smallest`); on them rest that a plan creates for a story and a summary once
(`CreatePlanIs`), that no test is matched for two scenarios (`MatchedOnce`), that keys put
into files stay distinct (`AssignedOnce`), also those of a pull (`PulledOnce`). Then `Inv`:

* `ShapeInv`: what files, tests and entries are (a `.cfg` could give a test two definitions);
* `AccountInv`: while a request waits, what was written, but for `denied`, is named by a settled entry or is the
  test whose mutations are under way; the error that ends the call then names that one. It also
  needs that a refusal for credentials raises only if nothing is named (`Wrote`);
* `CreateInv`: what is still planned has a story and summary that only the call's own tests
  have, and what its own refused first try made, and no other planned creation has. This is what one creation must not take away
  from the next;
* `UpdateInv`: an entry that is still planned has the changes that its test still needs, and
  is the only one about that test; for the entry under way `Reached` says by kind, direction
  and request counter what the mutations so far have made of it, so that the last one makes
  it say what the scenario says, and at no counter does a test keep the definition of the
  other kind;
* `NoResidue` and `OwnersDistinct` themselves.

`NeverTwice` compares with the keys the files named when the call read them (`run.owned`): a
write-back while the call runs may replace a key, whose test then has no scenario any more.

**`EvidenceIsKept`** (in `DocumentLifecycle_proofs`). Both halves compute everything in one step, so
that the invariants are little more than the properties; the work is in what the operators
return, for every input. A recursive function is a `CHOOSE` and has its equations only if
something satisfies them: `Folded` shows that for any step function, by the least place at
which no function is defined that far, and is used for parsing, rows and blocks alike.

*Cutting.* `FlattenIs` and `JoinIs` give the elements of a text put together from lines.
`WindowOver` is the arithmetic of the windows: some window starts no later than a given run and
ends no earlier, if the run fits into the overlap and one character more (the last
window that starts early enough, or the last one), hence `WindowsKeep`. Then, loop by loop,
what is never given up again: every line so far that is not blank is in a block
(`AddLineIs`, with that the lines of a block of rows are rows); every row so far is in a
piece together with the header (`AddRowIs`: what is cut off at the end of a piece is line breaks only);
every block so far is in a full chunk or in the one being put together, and none of them is
too long (`AddBlockIs`). `PiecesAre` joins them for a block, `ChunkedKept` for the text.

*Ranking.* `InOrderIs`: under a strict total order the counts of predecessors are
distinct and leave no gap, so that each place has its element. Ties are broken by key,
which makes `Precedes` one. `FusedIs` is the point: a chunk that beats another in both channels has the
larger share in each channel the other is in, and a share in a channel the other is not in
only adds, so its fused score is larger, also when a span is zero or a channel has one hit. The sets of
candidates are closed under "beats" (`BestHasBetter`), and neither cutting the list nor
dropping what is below the threshold opens that up again (`CutFirst`, `RelevantFirst`).

### Only model-checked

* All liveness: `DeleteConverges`, `Converges`, `DecisionTakesEffect`. Out of the prover's
  reach. `Converges` is checked for Drive, with one file; not for GitHub and Jira, whose
  removals and skips are the same code and have the same exception.

Every invariant and every action property of a passing run is proved, and so is the
refinement, under the conditions in the table.

## 6. Plan

What is modelled is what this project means to model, and what the prover can reach of it is
proved. What follows depends on the code:

1. With a lock around the chunk store or the synchronization, `~Overlap` can go from the theorems
   about them, and the two hazards below get a property.
2. With pages of Data Center that are compared by more than their total, `Mixed` can go.

## 7. Not covered

### Hazards without a property

Two hazards in `PROJECT.json` have no property, because the code does not guard against
them: overlapping uploads of one document (observation 1; readers, retried deletes and
everything without overlap are covered) and a sync in flight at a disconnect (observation 5).

### Left out of what is modelled

* Sync and connections: the counts of the last synchronization, e-mail addresses and labels
  shown in the hub; the Drive command line; legacy rows without connector ids; two changes of
  one connection at once.
* Ingestion and stores: extraction of text from office files, embeddings, the tokens of
  BM25, filters on metadata, digests, schema migrations.
* Test Design: limits on sizes, evidence that a client supplies, keywords and layout of
  Gherkin. Exports: the layout of the Markdown file.
* Chat and MCP: which words the patterns match, transports, schemas, reading tools.
* Projects: coverage reports. Evaluation: values of means that are only printed, the
  judge's prompt. Test files: the grammar of the two formats, which is about characters.

### Not modelled

* **Web client session** (`web/lib/session/`): conversations in local storage shared by tabs.
  Local storage has no transactions, every read-modify-write of two tabs can interleave, and
  the code claims no more than that the last writer wins. That one tab sends one decision at
  a time is used in `ToolApproval`.
* **Providers and prompts**: one request, one answer or one error, which is how the models
  see them.
* **Settings, observability and feedback**: parsing, wiring, log records and single-row
  inserts. That settings change between restarts is an action of `ConnectorSync`.
* **Command line and HTTP presentation**: marshalling; routes that decide anything are
  mapped with the components they call.
* **Web user interface**: rendering, styling and generated API types.
