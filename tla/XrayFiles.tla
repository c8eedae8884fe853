------------------------------ MODULE XrayFiles -------------------------------
(***************************************************************************)
(* Test files and Xray tests kept in step by four tools of the software    *)
(* delivery pack: create_xray_tests_from_files, write_xray_keys_to_files,  *)
(* update_xray_tests_from_files and pull_xray_tests_to_files, over the     *)
(* Server and Cloud clients of src/infrastructure/connectors/xray.         *)
(*                                                                         *)
(* A call plans from what it reads (TestFileRules) and then writes to Jira *)
(* one request at a time.  A request may be refused, refused for           *)
(* credentials, or lost with or without its effect.  The tools return      *)
(* results; the caller decides what to write into its files.               *)
(***************************************************************************)
EXTENDS TestFileRules

CONSTANTS NewPath,      \* where a pull proposes a new file
          Starts,       \* initial [files, jira] pairs
          Edits,        \* what an author may make of a scenario's body
          MaxCalls, MaxFaults, MaxEdits   \* bounds of the model

ASSUME StartsAssumption ==
  /\ \A s \in Starts :
       /\ AreFiles(s.files) /\ OneOwner(s.files)
       /\ AreTests(s.jira) /\ \A k \in DOMAIN s.jira : Clean(s.jira[k])
  /\ \A d \in Edits : IsBody(d)

VARIABLES files,        \* the caller's files
          jira,         \* the tests in Jira
          run,          \* the tool call in progress, or the last one
          known,        \* keys the caller was told: <<path, summary>> -> key
          touched,      \* history: the tests this call wrote to, but for those
          denied,       \* a create of it made whose answer held errors
          budget        \* calls, faults and edits so far

vars == <<deployment, files, jira, run, known, touched, denied, budget>>
NoKeys == [id \in {} |-> None]

\* owned is what the files named when the call read them, step the next
\* request of a Cloud update, one of several, or of a create: its second is
\* the retry of a first one that was refused.
Run(kind, phase, entries, owned) ==
  [kind |-> kind, phase |-> phase, entries |-> entries, owned |-> owned, step |-> 1]

Init ==
  /\ deployment \in {"server", "cloud"}
  /\ \E s \in Starts : files = s.files /\ jira = s.jira
  /\ run = Run("none", "done", <<>>, {})
  /\ known = NoKeys
  /\ touched = {} /\ denied = {}
  /\ budget = [calls |-> 0, faults |-> 0, edits |-> 0]

Spend(what, max) ==
  budget[what] < max /\ budget' = [budget EXCEPT ![what] = @ + 1]
Fault == Spend("faults", MaxFaults)
NoFault == UNCHANGED budget

-----------------------------------------------------------------------------
(* A call: the whole plan is made from one reading of Jira.                 *)

Begin(kind, entries) ==
  /\ run.phase # "running"
  /\ Spend("calls", MaxCalls)
  /\ run' = Run(kind, "running", entries, Tagged(files))
  /\ touched' = {} /\ denied' = {}
  /\ UNCHANGED <<deployment, files, jira, known>>

CreateCall ==
  /\ DistinctIdentities(Untagged(files))
  /\ Untagged(files) # <<>>
  /\ Begin("create", CreatePlan(jira, files))
UpdateCall ==
  /\ DistinctIdentities(All(files))
  /\ Begin("update", UpdatePlan(jira, files))

Planned == {"WOULD_CREATE", "WOULD_UPDATE"}
Waiting == {i \in DOMAIN run.entries : run.entries[i].status \in Planned}
Current1 == CHOOSE i \in Waiting : \A j \in Waiting : i <= j
Entry1 == run.entries[Current1]

\* The entry is settled and the run goes on, or stops: nothing more is tried.
Settled(status, key, reason) ==
  [run.entries EXCEPT ![Current1].status = status, ![Current1].key = key,
                      ![Current1].reason = reason]
NotAttempted(entries) ==
  [i \in DOMAIN entries |->
     IF entries[i].status \in Planned
       THEN [entries[i] EXCEPT !.status = "ERROR", !.reason = "not_attempted"]
       ELSE entries[i]]
GoOn(status, key, reason) ==
  run' = [run EXCEPT !.entries = Settled(status, key, reason), !.step = 1]
Stop(key, reason) ==
  run' = [run EXCEPT !.entries = NotAttempted(Settled("ERROR", key, reason)), !.step = 1]
\* The tool raises: its caller sees an error and no results.
Raise == run' = [run EXCEPT !.phase = "raised"]

\* Credentials refused: raise as long as nothing was written.
Wrote == \E i \in DOMAIN run.entries :
           \/ run.kind = "create" /\ run.entries[i].status = "CREATED"
           \/ run.kind = "update" /\ run.entries[i].status = "UPDATED"
AuthFailed == IF Wrote THEN Stop(Entry1.key, "auth_failed") ELSE Raise

Running(kind) == run.phase = "running" /\ run.kind = kind /\ Waiting # {}
Kept == UNCHANGED <<deployment, files, known>>
SameJira == UNCHANGED <<jira, touched, denied>>

\* The call returns; the keys its caller may write are those of tests that
\* were created or found.
Returning == run.phase = "running" /\ Waiting = {}
Told == {i \in DOMAIN run.entries :
           \/ run.entries[i].status \in {"CREATED", "EXISTS_UNTAGGED"}
           \/ run.entries[i].reason = "link_not_confirmed"}
Identity(i) == <<run.entries[i].x.path, run.entries[i].x.summary>>
Reported ==
  [id \in {Identity(i) : i \in Told} |->
     run.entries[CHOOSE i \in Told : Identity(i) = id].key]

Return ==
  /\ Returning
  /\ run' = [run EXCEPT !.phase = "done"]
  /\ known' = IF run.kind = "create" THEN Reported ELSE known
  /\ UNCHANGED <<deployment, files, jira, touched, denied, budget>>

-----------------------------------------------------------------------------
(* One create request.                                                      *)

NewTest(x, links) ==
  Test(x.summary, links, x.def.kind,
       IF x.def.kind = "manual" THEN x.def.text ELSE "",
       IF x.def.kind = "cucumber" THEN x.def.text ELSE "")
Unused == Keys \ DOMAIN jira
FreshKey == CHOOSE k \in Unused : TRUE
Makes(links) ==
  /\ Unused # {}
  /\ jira' = [k \in DOMAIN jira \union {FreshKey} |->
                IF k = FreshKey THEN NewTest(Entry1.x, links) ELSE jira[k]]
Adds(links) ==
  /\ Makes(links)
  /\ touched' = touched \union {FreshKey} /\ UNCHANGED denied

CreateOk ==
  /\ Running("create")
  /\ Adds({Entry1.story})
  /\ GoOn("CREATED", FreshKey, None)
  /\ Kept /\ NoFault
\* Cloud answers with warnings: the test exists, its link may not.
CreateUnlinked ==
  /\ Running("create") /\ deployment = "cloud"
  /\ \E links \in {{}, {Entry1.story}} : Adds(links)
  /\ Stop(FreshKey, "link_not_confirmed")
  /\ Kept /\ Fault
\* Any errors in a Cloud answer are a refusal, also beside the test it made.
MakesAnyway ==
  /\ deployment = "cloud"
  /\ \E links \in {{}, {Entry1.story}} : Makes(links)
  /\ denied' = denied \union {FreshKey} /\ UNCHANGED touched
\* The first refusal of an entry is tried again, once, with metadata fetched
\* anew, when those it used came from the cache.
TryAgain == run.step = 1 /\ run' = [run EXCEPT !.step = 2]
CreateRejected ==
  /\ Running("create")
  /\ SameJira \/ MakesAnyway
  /\ TryAgain \/ GoOn("ERROR", None, "rejected")
  /\ Kept /\ Fault
\* Server: a required field has no value, and no create is sent.
CreateNeedsFields ==
  /\ Running("create") /\ deployment = "server"
  /\ GoOn("ERROR", None, "required_fields")
  /\ Kept /\ Fault /\ SameJira
CreateAuth ==
  /\ Running("create")
  /\ AuthFailed
  /\ Kept /\ Fault /\ SameJira
\* No usable answer: the test may have been created.
LostCreate == Stop(None, "outcome_unknown")
CreateLost ==
  /\ Running("create")
  /\ LostCreate
  /\ Adds({Entry1.story}) \/ SameJira
  /\ Kept /\ Fault

-----------------------------------------------------------------------------
(* One update.  Server: one PUT.  Cloud: mutations in their fixed order.    *)

Key1 == Entry1.key
Writes(test) ==
  /\ jira' = [jira EXCEPT ![Key1] = test]
  /\ touched' = touched \union {Key1} /\ UNCHANGED denied
KindChanges == "kind" \in Entry1.changes

\* update_body: the changed fields only; a new kind clears the old definition.
Put(t, e) ==
  LET redefined == e.changes \intersect {"kind", "definition"} # {}
      to == e.x.def.kind
      drop == "kind" \in e.changes
  IN Test(e.x.summary,
          IF "story_link" \in e.changes THEN t.links \union {e.story} ELSE t.links,
          to,
          CASE to = "manual" /\ redefined -> e.x.def.text
            [] to # "manual" /\ drop      -> ""
            [] OTHER                      -> t.steps,
          CASE to = "cucumber" /\ redefined -> e.x.def.text
            [] to # "cucumber" /\ drop      -> ""
            [] OTHER                        -> t.gherkin)
PutTest == Writes(Put(jira[Key1], Entry1))

\* mutations: steps are added one by one, here two of them.
\* Mutant of Mutations: the type changes before the old definition is cleared.
MutationsTypeFirst(e) ==
  LET to == e.x.def.kind  drop == "kind" \in e.changes IN
  CASE drop /\ to = "cucumber"  -> <<"updateTestType", "removeAllSteps", "gherkin">>
    [] drop /\ to = "manual"    -> <<"updateTestType", "clearGherkin", "addStep", "addStep">>
    [] ~drop /\ to = "cucumber" -> <<"gherkin">>
    [] OTHER                    -> <<"removeAllSteps", "addStep", "addStep">>
Mutations(e) ==
  LET to == e.x.def.kind  drop == "kind" \in e.changes IN
  CASE drop /\ to = "cucumber"  -> <<"removeAllSteps", "updateTestType", "gherkin">>
    [] drop /\ to = "manual"    -> <<"clearGherkin", "updateTestType", "addStep", "addStep">>
    [] ~drop /\ to = "cucumber" -> <<"gherkin">>
    [] OTHER                    -> <<"removeAllSteps", "addStep", "addStep">>
Mutated(t, m, e) ==
  CASE m = "removeAllSteps" -> [t EXCEPT !.steps = ""]
    [] m = "clearGherkin"   -> [t EXCEPT !.gherkin = ""]
    [] m = "updateTestType" -> [t EXCEPT !.kind = e.x.def.kind]
    [] m = "gherkin"        -> [t EXCEPT !.gherkin = e.x.def.text]
    [] OTHER -> [t EXCEPT !.steps = IF t.steps = "" THEN "half" ELSE e.x.def.text]
Plan1 == IF deployment = "server" THEN <<"put">> ELSE Mutations(Entry1)
Request1 == Plan1[run.step]
Send == IF deployment = "server" THEN PutTest
        ELSE Writes(Mutated(jira[Key1], Request1, Entry1))
First1 == run.step = 1
Last1 == run.step = Len(Plan1)

UpdateSent ==
  /\ Running("update")
  /\ Send
  /\ IF Last1 THEN GoOn("UPDATED", Key1, None)
              ELSE run' = [run EXCEPT !.step = @ + 1]
  /\ Kept /\ NoFault
\* The read-back after a change of kind fails.
UpdateNotConfirmed ==
  /\ Running("update") /\ Last1 /\ KindChanges
  /\ Send
  /\ Stop(Key1, "not_confirmed")
  /\ Kept /\ Fault
\* Refused before anything was written.
UpdateRejected ==
  /\ Running("update") /\ First1
  /\ GoOn("ERROR", Key1, "rejected")
  /\ Kept /\ Fault /\ SameJira
UpdateAuth ==
  /\ Running("update") /\ First1
  /\ AuthFailed
  /\ Kept /\ Fault /\ SameJira
\* Any other failure; after the first mutation every failure is one of these.
\* Mutant of Uncertain: a lost answer is taken for a refusal.
UncertainAsRejected == GoOn("ERROR", Key1, "rejected")
Uncertain == Stop(Key1, IF First1 THEN "outcome_unknown" ELSE "partially_applied")
UpdateUncertain ==
  /\ Running("update")
  /\ Uncertain
  /\ Send \/ SameJira
  /\ Kept /\ Fault

-----------------------------------------------------------------------------
(* The tools that change files, and the people who do.                      *)

\* write_xray_keys_to_files with some of the keys the caller was told.
WriteKeys ==
  \E ids \in SUBSET DOMAIN known :
    LET keys == [id \in ids |-> known[id]] IN
    /\ ids # {}
    /\ CanAssign(files, keys)
    /\ files' = Rewritten(files, keys)
    /\ files' # files
    /\ UNCHANGED <<deployment, jira, run, known, touched, denied, budget>>

Remote == DOMAIN jira
Pull(fmt) ==
  LET plan == PullPlan(jira, files, fmt, NewPath, Remote) IN
  /\ run.phase # "running"
  /\ Spend("calls", MaxCalls)
  /\ PullApplies(files, plan)
  /\ files' = Applied(jira, files, fmt, plan)
  /\ files' # files
  /\ UNCHANGED <<deployment, jira, run, known, touched, denied>>
PullCall == \E fmt \in {"robot", "feature"} : Pull(fmt)

\* Authors edit bodies; somebody edits a test in Jira, between calls.
EditFile ==
  \E p \in ToSet(Paths) : \E n \in DOMAIN files[p].sc : \E def \in Edits :
    /\ def # files[p].sc[n].def
    /\ files' = [files EXCEPT ![p].sc[n].def = def]
    /\ Spend("edits", MaxEdits)
    /\ UNCHANGED <<deployment, jira, run, known, touched, denied>>
EditTest ==
  \E k \in Remote :
    /\ run.phase # "running"
    /\ jira' = [jira EXCEPT ![k].summary = "edited"]
    /\ jira[k].summary # "edited"
    /\ Spend("edits", MaxEdits)
    /\ UNCHANGED <<deployment, files, run, known, touched, denied>>

Create == CreateCall \/ CreateOk \/ CreateUnlinked \/ CreateRejected \/ CreateNeedsFields
          \/ CreateAuth \/ CreateLost
Update == UpdateCall \/ UpdateSent \/ UpdateNotConfirmed \/ UpdateRejected \/ UpdateAuth
          \/ UpdateUncertain
Next == Create \/ Update \/ Return \/ WriteKeys \/ PullCall \/ EditFile \/ EditTest
Spec == Init /\ [][Next]_vars

-----------------------------------------------------------------------------
(* No test is created for a story that already has one with this summary,   *)
(* unless a scenario of the call owns that one: not when an earlier answer  *)
(* was lost, not for the same scenario in two files                         *)
(* (test_files/matching.py _match, create_xray_tests_from_files.py _create).*)
(* There is one exception, which the code makes: a create that Cloud        *)
(* answered with errors though it made the test is taken for refused, and   *)
(* its one retry (batch.py create_each) may make a second test, no third.   *)
Refused == IF run.step = 2 THEN denied ELSE {}
NeverTwice ==
  [][\A k \in DOMAIN jira' \ DOMAIN jira : \A s \in jira'[k].links :
       SameSummary(jira, s, jira'[k].summary) \subseteq run.owned \union Refused]_vars

(* The results name every test the call wrote to: as created or updated, or *)
(* as an error that says the outcome is not known.  An error that says      *)
(* nothing was written is about a test that was not, and a call that raises *)
(* wrote nothing at all (_create, _update, cloud.py _mutate).  That is so   *)
(* of all but the tests in denied: those that a Cloud create made though    *)
(* its answer held errors (cloud.py _create) no result has to name.         *)
Open == {"outcome_unknown", "partially_applied", "not_confirmed", "link_not_confirmed"}
Admits(e, k) ==
  \/ e.status \in {"CREATED", "UPDATED"} /\ e.key = k
  \/ e.reason \in Open /\ (e.key = k \/ (e.key = None /\ jira[k].summary = e.x.summary))
WritesAccounted ==
  /\ run.phase = "raised" => touched = {}
  /\ Returning => \A k \in touched : \E i \in DOMAIN run.entries :
                    Admits(run.entries[i], k)

(* A manual test has no Gherkin and a Cucumber test no steps, also after an *)
(* update that failed half way: the old definition is cleared before the    *)
(* type changes (cloud_update.py mutations, server_update.py update_body).  *)
NoResidue == \A k \in Remote : Clean(jira[k])

AsUpdated ==
  run.kind = "update" /\ Returning =>
    \A i \in DOMAIN run.entries :
      run.entries[i].status \in {"UPDATED", "SKIPPED"} =>
        /\ Changes(jira[run.entries[i].key], run.entries[i].x, run.entries[i].story) = {}
        /\ \A j \in DOMAIN run.entries \ {i} : run.entries[j].status = "UPDATED" =>
             run.entries[j].key # run.entries[i].key

(* A result says UPDATED or SKIPPED only if the test now says what the      *)
(* scenario said, and no run updates a test for two scenarios (xray_diff.py *)
(* diff_test, matching.py match_for_update); of the old definition of a     *)
(* test nothing is left, also when an update failed half way.               *)
UpdatedMatches == AsUpdated /\ NoResidue

(* No two scenarios end with the same Xray key, whatever is pulled, written *)
(* back or created (key_ownership.py assign_keys, pull_parent.py            *)
(* known_xray_keys, _mark_remote_ambiguous).                                *)
OwnersDistinct == OneOwner(files)
=============================================================================
