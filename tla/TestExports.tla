---------------------------- MODULE TestExports ----------------------------
(***************************************************************************)
(* Exporting the tests of one Test Design draft: to Xray, where every call *)
(* creates new tests (create_xray_tests.py, connectors/xray/batch.py) and  *)
(* the keys go to a receipt beside the draft (receipt_store.py), and to    *)
(* Google Drive, as one Markdown file in a folder remembered per           *)
(* conversation (export_test_cases_google_drive.py, destination_store.py). *)
(* Either starts with a button of the draft (facade.py), which is its own  *)
(* approval, or in the chat, where a card shows the prepared call and the  *)
(* tool runs when it is approved (agent.py, prepare.py).  Requests run on  *)
(* server threads; every get and compare-and-swap of the versioned store   *)
(* is one step.                                                            *)
(***************************************************************************)
EXTENDS Naturals, SequencesExt

CONSTANTS Runs,          \* export requests, each used once
          Tests,         \* the candidates of the draft, by their position
          Cucumber,      \* those of the Cucumber type; the others are manual
          Folders, Home, \* Drive folders; Home is My Drive's root
          MaxVersion, MaxIssues, MaxKeys

ASSUME ExportsAssumption ==
  /\ Tests \subseteq Nat /\ Cucumber \subseteq Tests
  /\ Home \in Folders
  /\ {MaxVersion, MaxIssues, MaxKeys} \subseteq Nat \ {0}

VARIABLES draft,         \* the stored draft: its version and its tests
          issues,        \* the tests Xray holds, in the order of creation, and
                         \* whether the answer to a create denied that it made one
          receipt,       \* the receipt's record, version 0 when there is none
          destination,   \* the conversation's folder, likewise
          uploads,       \* the files Drive holds
          runs

vars == <<draft, issues, receipt, destination, uploads, runs>>

Cases == {"none", "available", "insufficient_evidence"}
Test  == [selected : BOOLEAN, case : Cases]

Init ==
  /\ draft = [version |-> 1,
              tests |-> [t \in Tests |-> [selected |-> TRUE, case |-> "available"]]]
  /\ issues = <<>>
  /\ receipt = [version |-> 0, keys |-> <<>>]
  /\ destination = [version |-> 0, folder |-> Home]
  /\ uploads = {}
  /\ runs = [r \in Runs |-> [pc |-> "idle"]]

Goto(r, s) == runs' = [runs EXCEPT ![r] = s]
Fail(r)    == Goto(r, [pc |-> "failed"])

-----------------------------------------------------------------------------
(* The draft.                                                              *)

Chosen(d)   == {t \in Tests : d.tests[t].selected}
Exportable(d) == {t \in Chosen(d) : d.tests[t].case = "available"}

\* Any edit that leaves the draft valid: a case belongs to a selected test.
EditDraft ==
  /\ draft.version < MaxVersion
  /\ \E t \in Tests, k \in Test :
       /\ k # draft.tests[t]
       /\ k.selected \/ k.case = "none"
       /\ draft' = [version |-> draft.version + 1,
                    tests |-> [draft.tests EXCEPT ![t] = k]]
  /\ UNCHANGED <<issues, receipt, destination, uploads, runs>>

-----------------------------------------------------------------------------
(* Creating tests in Xray.  A run knows the version of the draft that was  *)
(* confirmed and the one it exports; while it creates, the tests left, the *)
(* keys so far, whether the metadata came from the cache and whether a     *)
(* create was rejected.                                                    *)

Loading(via, asked, held) ==
  [pc |-> "load", via |-> via, asked |-> asked, held |-> held]
Planned(s, d) ==
  [pc |-> "schema", via |-> s.via, asked |-> s.asked, of |-> d.version,
   todo |-> Exportable(d)]
Creating(s, todo, keys, cached, rejected) ==
  [pc |-> "create", via |-> s.via, asked |-> s.asked, of |-> s.of,
   todo |-> todo, keys |-> keys, cached |-> cached, rejected |-> rejected]
Recording(via, keys, tries) ==
  [pc |-> "read", via |-> via, keys |-> keys, tries |-> tries]
Answered(keys, recorded) ==
  [pc |-> "answered", keys |-> keys, recorded |-> recorded]

\* export_to_xray: the version the user looks at must still be the draft's.
PressXray(r, seen) ==
  /\ runs[r].pc = "idle"
  /\ IF seen = draft.version THEN Goto(r, Loading("button", seen, draft))
                             ELSE Fail(r)
  /\ UNCHANGED <<draft, issues, receipt, destination, uploads>>

\* prepare_xray_export_call: the card shows how many tests there are.
AskXray(r) ==
  /\ runs[r].pc = "idle"
  /\ IF Exportable(draft) # {}
     THEN Goto(r, [pc |-> "xray card", asked |-> draft.version])
     ELSE Fail(r)
  /\ UNCHANGED <<draft, issues, receipt, destination, uploads>>

ApproveXray(r) ==
  /\ runs[r].pc = "xray card"
  /\ Goto(r, Loading("chat", runs[r].asked, draft))
  /\ UNCHANGED <<draft, issues, receipt, destination, uploads>>

\* The tool's draft: the one the button's request has read, or, in the chat,
\* the stored one, whatever it is by now.
LoadDraft_Stored(s) == draft
LoadDraft(s) == IF s.via = "button" THEN s.held ELSE draft

Load(r) ==
  LET s == runs[r]  d == LoadDraft(s) IN
  /\ s.pc = "load"
  /\ IF Exportable(d) # {} THEN Goto(r, Planned(s, d)) ELSE Fail(r)
  /\ UNCHANGED <<draft, issues, receipt, destination, uploads>>

\* The schema, from the process-wide cache or discovered now; it may lack a
\* kind, or Xray may not answer.
ReadSchema(r, kinds, cached) ==
  LET s == runs[r] IN
  /\ s.pc = "schema"
  /\ IF s.todo \subseteq kinds
     THEN Goto(r, Creating(s, s.todo, <<>>, cached, FALSE))
     ELSE Fail(r)
  /\ UNCHANGED <<draft, issues, receipt, destination, uploads>>
XrayDown(r) ==
  /\ runs[r].pc = "schema"
  /\ Fail(r)
  /\ UNCHANGED <<draft, issues, receipt, destination, uploads>>

\* create_each, in the order of the candidates: a test is created, rejected,
\* or the answer is unclear, and then it may have been created.
Due(s, t) == s.pc = "create" /\ t \in s.todo /\ \A u \in s.todo : t <= u
NewIssue(r, t, denied) ==
  Append(issues, [run |-> r, test |-> t, via |-> runs[r].via, denied |-> denied,
                  asked |-> runs[r].asked, of |-> runs[r].of])

Create(r, t) ==
  LET s == runs[r] IN
  /\ Due(s, t)
  /\ Len(issues) < MaxIssues
  /\ issues' = NewIssue(r, t, FALSE)
  /\ Goto(r, Creating(s, s.todo \ {t}, Append(s.keys, Len(issues')), s.cached,
                      s.rejected))
  /\ UNCHANGED <<draft, receipt, destination, uploads>>

\* The first create of a run is tried once more with fresh metadata.
AfterRejection(s, t) ==
  IF s.cached /\ s.keys = <<>> /\ ~s.rejected
  THEN Creating(s, s.todo, s.keys, FALSE, s.rejected)
  ELSE Creating(s, s.todo \ {t}, s.keys, s.cached, TRUE)

\* Any errors in Cloud's answer are a rejection, also beside the test it made.
Reject(r, t) ==
  /\ Due(runs[r], t)
  /\ \/ issues' = issues
     \/ Len(issues) < MaxIssues /\ issues' = NewIssue(r, t, TRUE)
  /\ Goto(r, AfterRejection(runs[r], t))
  /\ UNCHANGED <<draft, receipt, destination, uploads>>

\* The batch stops at an unclear answer, and counts what is left as failed.
Unclear_Rejected(s, t) == AfterRejection(s, t)
Unclear(s, t) ==
  IF s.keys = <<>> THEN [pc |-> "failed"]
                   ELSE Recording(s.via, s.keys, 0)

LoseAnswer(r, t) ==
  /\ Due(runs[r], t)
  /\ \/ issues' = issues
     \/ Len(issues) < MaxIssues /\ issues' = NewIssue(r, t, FALSE)
  /\ Goto(r, Unclear(runs[r], t))
  /\ UNCHANGED <<draft, receipt, destination, uploads>>

FinishCreating(r) ==
  LET s == runs[r] IN
  /\ s.pc = "create" /\ s.todo = {}
  /\ IF s.keys = <<>> THEN Fail(r) ELSE Goto(r, Recording(s.via, s.keys, 0))
  /\ UNCHANGED <<draft, issues, receipt, destination, uploads>>

-----------------------------------------------------------------------------
(* append of the receipt: read, merge, compare and swap, three times.      *)

Tries == 3

Newest(keys) == IF Len(keys) <= MaxKeys THEN keys
                ELSE SubSeq(keys, Len(keys) - MaxKeys + 1, Len(keys))

\* dict.fromkeys: each key once, in the order of its first place.
Firsts(keys) == {i \in DOMAIN keys : \A j \in 1..(i - 1) : keys[j] # keys[i]}
Distinct(keys) ==
  [n \in 1..Cardinality(Firsts(keys)) |->
     keys[CHOOSE i \in Firsts(keys) :
            Cardinality({j \in Firsts(keys) : j <= i}) = n]]

Merged_Overwriting(previous, keys) == Newest(keys)
Merged(previous, keys) == Newest(Distinct(previous \o keys))

\* The tests exist: the chat's recorder only logs a failure, the button's
\* request raises it.
NotRecorded(s) ==
  IF s.via = "chat" THEN Answered(s.keys, FALSE) ELSE [pc |-> "failed"]

ReadReceipt(r) ==
  LET s == runs[r] IN
  /\ s.pc = "read"
  /\ Goto(r, [pc |-> "swap", via |-> s.via, keys |-> s.keys, tries |-> s.tries,
              seen |-> receipt])
  /\ UNCHANGED <<draft, issues, receipt, destination, uploads>>

WriteReceipt(r) ==
  LET s == runs[r] IN
  /\ s.pc = "swap"
  /\ IF receipt.version = s.seen.version
     THEN /\ receipt' = [version |-> receipt.version + 1,
                         keys |-> Merged(s.seen.keys, s.keys)]
          /\ Goto(r, Answered(s.keys, TRUE))
     ELSE /\ UNCHANGED receipt
          /\ Goto(r, IF s.tries + 1 < Tries
                     THEN Recording(s.via, s.keys, s.tries + 1)
                     ELSE NotRecorded(s))
  /\ UNCHANGED <<draft, issues, destination, uploads>>

StoreFails(r) ==
  /\ runs[r].pc \in {"read", "swap"}
  /\ Goto(r, NotRecorded(runs[r]))
  /\ UNCHANGED <<draft, issues, receipt, destination, uploads>>

-----------------------------------------------------------------------------
(* Limits, the draft's own (test_design/limits.py) and those the export    *)
(* checks again (limits.py, _parse_request).  Only where a draft is at all *)
(* of its limits can the second check refuse what the first let through.   *)

DraftLimit ==
  [ticket |-> 160, tests |-> 40, title |-> 200, preconditions |-> 40,
   precondition |-> 2000, steps |-> 40, step |-> 500, results |-> 40,
   result |-> 2000, gherkin |-> 8000, feature |-> 200, background |-> 8000]

ExportLimit ==
  [ticket |-> 200, tests |-> 50, title |-> 200, preconditions |-> 40,
   precondition |-> 2000, steps |-> 40, step |-> 2000, results |-> 40,
   result |-> 2000, gherkin |-> 8000, feature |-> 200, background |-> 8000]

Accepted(size) ==
  \A f \in DOMAIN DraftLimit :
    (IF size = "full" THEN DraftLimit[f] ELSE 1) <= ExportLimit[f]

-----------------------------------------------------------------------------
(* Writing the Drive file: the cases of the selected tests that have one,  *)
(* or only the titles when none has.                                       *)

Content(d) ==
  IF Exportable(d) = {} THEN [titles |-> Chosen(d), cases |-> {}]
                        ELSE [titles |-> Exportable(d), cases |-> Exportable(d)]

File(folder, d, size) == [folder |-> folder, content |-> Content(d), size |-> size]
Saving(file, upload, again) ==
  [pc |-> "find", file |-> file, upload |-> upload, again |-> again]
Uploading(file) == [pc |-> "upload", file |-> file]

\* export_to_google_drive remembers the folder before it uploads.
PressDrive(r, folder, size) ==
  /\ runs[r].pc = "idle"
  /\ IF Chosen(draft) # {} THEN Goto(r, Saving(File(folder, draft, size), TRUE, FALSE))
                             ELSE Fail(r)
  /\ UNCHANGED <<draft, issues, receipt, destination, uploads>>

\* set_export_destination only remembers it.
ChooseFolder(r, folder) ==
  /\ runs[r].pc = "idle"
  /\ Goto(r, Saving([folder |-> folder], FALSE, FALSE))
  /\ UNCHANGED <<draft, issues, receipt, destination, uploads>>

\* upsert: get, then create or update; a create that finds a record gets it
\* and updates it, an update that finds another version gives up.
FindFolder(r) ==
  /\ runs[r].pc = "find"
  /\ Goto(r, [pc |-> "save", file |-> runs[r].file, upload |-> runs[r].upload,
              again |-> runs[r].again, seen |-> destination.version])
  /\ UNCHANGED <<draft, issues, receipt, destination, uploads>>

SaveFolder(r) ==
  LET s == runs[r] IN
  /\ s.pc = "save"
  /\ IF destination.version = s.seen
     THEN /\ destination' = [version |-> s.seen + 1, folder |-> s.file.folder]
          /\ Goto(r, IF s.upload THEN Uploading(s.file) ELSE [pc |-> "done"])
     ELSE /\ UNCHANGED destination
          /\ Goto(r, IF s.seen = 0 THEN Saving(s.file, s.upload, TRUE)
                                   ELSE [pc |-> "failed"])
  /\ UNCHANGED <<draft, issues, receipt, uploads>>

\* prepare_drive_export_call: the whole call is fixed when the card is shown.
AskDrive(r, size) ==
  /\ runs[r].pc = "idle"
  /\ IF Chosen(draft) # {}
     THEN Goto(r, [pc |-> "drive card", file |-> File(destination.folder, draft, size)])
     ELSE Fail(r)
  /\ UNCHANGED <<draft, issues, receipt, destination, uploads>>

ApproveDrive(r) ==
  /\ runs[r].pc = "drive card"
  /\ Goto(r, Uploading(runs[r].file))
  /\ UNCHANGED <<draft, issues, receipt, destination, uploads>>

RejectCard(r) ==
  /\ runs[r].pc \in {"xray card", "drive card"}
  /\ Goto(r, [pc |-> "cancelled"])
  /\ UNCHANGED <<draft, issues, receipt, destination, uploads>>

\* The tool checks its arguments, renders, and uploads with the grant of now.
\* Uploads are not repeated; an unclear answer may have left a file.
Upload(r, outcome) ==
  LET s == runs[r] IN
  /\ s.pc = "upload"
  /\ IF ~Accepted(s.file.size)
     THEN outcome = "refused" /\ Goto(r, [pc |-> "refused"])
     ELSE /\ outcome \in {"uploaded", "no grant", "too large", "unclear"}
          /\ outcome = "too large" => s.file.size = "full"
          /\ Goto(r, [pc |-> IF outcome = "uploaded" THEN "done" ELSE "failed"])
  /\ \/ outcome \in {"uploaded", "unclear"} /\ uploads' = uploads \union {s.file}
     \/ outcome # "uploaded" /\ UNCHANGED uploads
  /\ UNCHANGED <<draft, issues, receipt, destination>>

\* The server stops: what its threads were doing is gone.
AtWork == {"load", "schema", "create", "read", "swap", "find", "save", "upload"}
Restart ==
  /\ \E r \in Runs : runs[r].pc \in AtWork
  /\ runs' = [r \in Runs |-> IF runs[r].pc \in AtWork THEN [pc |-> "lost"]
                                                     ELSE runs[r]]
  /\ UNCHANGED <<draft, issues, receipt, destination, uploads>>

-----------------------------------------------------------------------------
Xray(r) ==
  \/ \E seen \in {draft.version, draft.version - 1} \ {0} : PressXray(r, seen)
  \/ AskXray(r)
  \/ ApproveXray(r)
  \/ Load(r)
  \/ \E kinds \in {Tests, Tests \ Cucumber}, cached \in BOOLEAN :
       ReadSchema(r, kinds, cached)
  \/ XrayDown(r)
  \/ \E t \in Tests : Create(r, t) \/ Reject(r, t) \/ LoseAnswer(r, t)
  \/ FinishCreating(r)
  \/ ReadReceipt(r)
  \/ WriteReceipt(r)
  \/ StoreFails(r)

Drive(r) ==
  \/ \E folder \in Folders, size \in {"small", "full"} : PressDrive(r, folder, size)
  \/ \E folder \in Folders : ChooseFolder(r, folder)
  \/ FindFolder(r)
  \/ SaveFolder(r)
  \/ \E size \in {"small", "full"} : AskDrive(r, size)
  \/ ApproveDrive(r)
  \/ \E outcome \in {"uploaded", "no grant", "too large", "unclear", "refused"} :
       Upload(r, outcome)

Next ==
  \/ EditDraft
  \/ \E r \in Runs : Xray(r) \/ Drive(r) \/ RejectCard(r)
  \/ Restart

Spec == Init /\ [][Next]_vars

-----------------------------------------------------------------------------
(* Every key a caller was told of is in the draft's receipt, unless newer  *)
(* keys have pushed it out or the chat's recorder could not write it, and  *)
(* the receipt names each of this draft's tests at most once               *)
(* (receipt_store.py append, beside another export at the same time).      *)
EveryKeyAccounted ==
  /\ \A r \in Runs : runs[r].pc = "answered" /\ runs[r].recorded =>
       \/ ToSet(runs[r].keys) \subseteq ToSet(receipt.keys)
       \/ Len(receipt.keys) = MaxKeys
  /\ ToSet(receipt.keys) \subseteq 1..Len(issues)
  /\ IsInjective(receipt.keys)

(* One run creates at most one Xray test per case, also when an answer is  *)
(* lost (batch.py: nothing is blindly retried), with one exception: when   *)
(* the first create of a run was answered with errors though it made the   *)
(* test (cloud.py _create), it counts as rejected, and its one retry with  *)
(* fresh metadata may make a second, never a third.                        *)
FirstOf(i) == \A h \in 1..(i - 1) : issues[h].run # issues[i].run
NothingCreatedTwice ==
  \A i, j \in 1..Len(issues) :
    issues[i].run = issues[j].run /\ issues[i].test = issues[j].test /\ i < j =>
      issues[i].denied /\ FirstOf(i)

(* A button exports the version of the draft its user looks at, though the *)
(* draft may change while Xray is asked (facade.py export_to_xray), and a  *)
(* Drive export that was pressed or approved is never refused for its      *)
(* arguments: what the limits of a draft let through, those of the export  *)
(* accept (limits.py, twice).                                              *)
ExportsAsConfirmed ==
  /\ \A i \in 1..Len(issues) :
       issues[i].via = "button" => issues[i].of = issues[i].asked
  /\ \A r \in Runs : runs[r].pc # "refused"
=============================================================================
