--------------------------- MODULE TestFileRules ----------------------------
(***************************************************************************)
(* How the scenarios of .robot and .feature files are matched with Xray    *)
(* tests: src/packs/software_delivery/test_files/{matching, key_ownership, *)
(* pull_parent, pull_target, xray_diff, pull_apply}.py and the plan phases *)
(* of the three tools that use them.  Everything here is a function of the *)
(* parsed files and of what Jira says; nothing is written.                 *)
(*                                                                         *)
(* files[p] is [format, story, sc]: the story of the file and its          *)
(* scenarios in line order, each [summary, local, bare, tag, def] with the *)
(* story of its own tag, its bare issue keys, its Xray key and the body.   *)
(* jira is a function on the keys of the tests there are; issues that are  *)
(* not tests never change.                                                 *)
(***************************************************************************)
EXTENDS Naturals, Sequences, FiniteSets, SequencesExt

CONSTANTS Paths,        \* file paths, as a sequence: the order of a call
          Keys,         \* keys Xray can give to tests
          Issues,       \* the type of every other issue key: see Kind
          Creatable,    \* kinds of test the Xray project can create
          None

VARIABLE deployment     \* "server" or "cloud": the Xray of the project

\* A call refuses to name a file twice; Xray has no other kinds of test.
ASSUME RulesAssumption ==
  /\ IsFiniteSet(Keys) /\ None \notin Keys
  /\ None \notin {"assertion_without_action", "unsupported",
                  "jira_fields_unsupported", "field_not_editable"}
  /\ Paths \in Seq(ToSet(Paths))
  /\ \A i, j \in DOMAIN Paths : Paths[i] = Paths[j] => i = j
  /\ \A k \in DOMAIN Issues : Issues[k] \in {"story", "other"}
  /\ Creatable \subseteq {"manual", "cucumber"}

Body(kind, text) == [kind |-> kind, text |-> text]
Scenario(summary, local, bare, tag, def) ==
  [summary |-> summary, local |-> local, bare |-> bare, tag |-> tag, def |-> def]
\* A test: its links to stories, and its two definitions, either may be empty.
Test(summary, links, kind, steps, gherkin) ==
  [summary |-> summary, links |-> links, kind |-> kind, steps |-> steps,
   gherkin |-> gherkin]

\* What the files and Jira look like.  A test has the definition of its kind
\* only, and a file is a list of scenarios.
IsBody(d) == d = Body(d.kind, d.text) /\ d.kind \in {"manual", "cucumber", "broken"}
IsScenario(s) == s = Scenario(s.summary, s.local, s.bare, s.tag, s.def) /\ IsBody(s.def)
IsTest(t) ==
  t = Test(t.summary, t.links, t.kind, t.steps, t.gherkin) /\ t.kind \in {"manual", "cucumber"}
Clean(t) == IF t.kind = "manual" THEN t.gherkin = "" ELSE t.steps = ""
IsFile(f) ==
  /\ f = [format |-> f.format, story |-> f.story, sc |-> f.sc]
  /\ f.sc \in Seq(ToSet(f.sc))
  /\ \A n \in DOMAIN f.sc : IsScenario(f.sc[n])
AreFiles(files) == DOMAIN files = ToSet(Paths) /\ \A p \in DOMAIN files : IsFile(files[p])
AreTests(jira) == DOMAIN jira \subseteq Keys /\ \A k \in DOMAIN jira : IsTest(jira[k])
OneOwner(files) ==
  \A p, q \in DOMAIN files : \A n \in DOMAIN files[p].sc, m \in DOMAIN files[q].sc :
    files[p].sc[n].tag = files[q].sc[m].tag /\ files[p].sc[n].tag # None => p = q /\ n = m

\* A scenario with its place, its file's format and its effective story.
At(files, p, n) ==
  LET f == files[p]  s == f.sc[n] IN
  [path |-> p, n |-> n, format |-> f.format, summary |-> s.summary,
   local |-> s.local, story |-> IF s.local = None THEN f.story ELSE s.local,
   bare |-> s.bare, tag |-> s.tag, def |-> s.def]
InFile(files, p) == [n \in 1..Len(files[p].sc) |-> At(files, p, n)]
All(files) == FlattenSeq([i \in 1..Len(Paths) |-> InFile(files, Paths[i])])
Untagged(files) ==
  FlattenSeq([i \in 1..Len(All(files)) |->
                IF All(files)[i].tag = None THEN <<All(files)[i]>> ELSE <<>>])
Tagged(files) == {x.tag : x \in ToSet(All(files))} \ {None}

\* No two of these scenarios share path::summary.
DistinctIdentities(list) ==
  \A i, j \in 1..Len(list) :
    list[i].path = list[j].path /\ list[i].summary = list[j].summary => i = j

(* What Jira says of a key.  Only Server answers that an issue is missing;  *)
(* Cloud leaves a key no search returns unresolved.                         *)
Kind(jira, k) ==
  LET absent == IF deployment = "server" THEN "missing" ELSE "unresolved" IN
  CASE k \in DOMAIN jira   -> "test"
    [] k \in DOMAIN Issues -> Issues[k]
    [] OTHER               -> absent
Unknown(jira, k) == Kind(jira, k) \in {"missing", "unresolved"}
UnknownReason(jira, k) ==
  IF Kind(jira, k) = "missing" THEN "issue_not_found" ELSE "issue_unresolved"

First(list, default) == IF list = <<>> THEN default ELSE list[1]
BareTests(jira, x) == {k \in ToSet(x.bare) : Kind(jira, k) = "test"}
BareUnknown(jira, x) == SelectSeq(x.bare, LAMBDA k : Unknown(jira, k))

\* The parent story and what is wrong with it; keys in skip are tests.
StoryOf(jira, x, skip) ==
  LET bare   == SelectSeq(x.bare, LAMBDA k : k \notin skip)
      chosen == IF x.format # "robot" THEN x.story
                ELSE IF x.local # None THEN x.local ELSE First(bare, x.story)
  IN [key |-> chosen,
      problem |-> CASE chosen = None                       -> "no_story"
                    [] Kind(jira, chosen) = "missing"      -> "story_not_found"
                    [] Kind(jira, chosen) = "unresolved"   -> "story_unresolved"
                    [] Kind(jira, chosen) # "story"        -> "not_a_story"
                    [] OTHER                               -> None]
StoryStatus(problem) ==
  IF problem = "story_unresolved" THEN "ERROR" ELSE "NO_STORY"

LinkedTests(jira, s) == {k \in DOMAIN jira : s \in jira[k].links}
SameSummary(jira, s, summary) ==
  {k \in LinkedTests(jira, s) : jira[k].summary = summary}

-----------------------------------------------------------------------------
(* create_xray_tests_from_files: the plan for the untagged scenarios.       *)

Entry(x, status, key, story, reason) ==
  [x |-> x, status |-> status, key |-> key, story |-> story, reason |-> reason,
   changes |-> {}]

BodyProblem(def) ==
  CASE def.kind = "broken"         -> "assertion_without_action"
    [] def.kind \notin Creatable   -> "unsupported"
    [] OTHER                       -> None

\* One scenario; claims = [tagged, matched, planned] of the run so far.
CreateMatch(jira, x, claims) ==
  LET unknown == BareUnknown(jira, x)
      tests   == BareTests(jira, x)
      story   == StoryOf(jira, x, {})
      same    == SameSummary(jira, story.key, x.summary) \ claims.tagged
      free    == same \ claims.matched
  IN CASE unknown # <<>> ->
            Entry(x, "ERROR", unknown[1], None, UnknownReason(jira, unknown[1]))
       [] unknown = <<>> /\ Cardinality(tests) > 1 ->
            Entry(x, "AMBIGUOUS", None, None, "multiple_tests")
       [] unknown = <<>> /\ Cardinality(tests) = 1 ->
            LET k == CHOOSE k \in tests : TRUE IN
            IF k \in claims.tagged \union claims.matched
              THEN Entry(x, "ERROR", k, None, "test_key_claimed")
              ELSE Entry(x, "EXISTS_UNTAGGED", k, None, None)
       [] unknown = <<>> /\ tests = {} /\ story.problem # None ->
            Entry(x, StoryStatus(story.problem), None, story.key, story.problem)
       [] OTHER ->
            CASE Cardinality(free) > 1 ->
                   Entry(x, "AMBIGUOUS", None, story.key, "multiple_tests")
              [] Cardinality(free) = 1 ->
                   Entry(x, "EXISTS_UNTAGGED", CHOOSE k \in free : TRUE,
                         story.key, None)
              [] free = {} /\ (same # {} \/ <<story.key, x.summary>> \in claims.planned) ->
                   Entry(x, "AMBIGUOUS", None, story.key, "repeated_in_run")
              [] OTHER -> Entry(x, "CREATE", None, story.key, None)

\* What the run has claimed so far: the keys the files name, those of the
\* tests found, and what is to be created.
\* Mutant of Claims: a scenario about to be created is not remembered.
ClaimsMatchesOnly(files, earlier) ==
  [tagged  |-> Tagged(files),
   matched |-> {e.key : e \in {f \in earlier : f.status = "EXISTS_UNTAGGED"}},
   planned |-> {}]
Claims(files, earlier) ==
  [tagged  |-> Tagged(files),
   matched |-> {e.key : e \in {f \in earlier : f.status = "EXISTS_UNTAGGED"}},
   planned |-> {<<e.story, e.x.summary>> : e \in {f \in earlier : f.status = "CREATE"}}]

MatchScenarios(jira, files) ==
  LET list == Untagged(files)
      match[i \in 1..Len(list)] ==
        CreateMatch(jira, list[i], Claims(files, {match[j] : j \in 1..(i - 1)}))
  IN match

\* A scenario to create whose body cannot be built is an error of the plan.
CreatePlan(jira, files) ==
  LET built(e) ==
        IF e.status # "CREATE" THEN e
        ELSE IF BodyProblem(e.x.def) = None THEN [e EXCEPT !.status = "WOULD_CREATE"]
        ELSE [e EXCEPT !.status = "ERROR", !.reason = BodyProblem(e.x.def)]
      matches == MatchScenarios(jira, files)
  IN [i \in 1..Len(matches) |-> built(matches[i])]

-----------------------------------------------------------------------------
(* update_xray_tests_from_files: every scenario, tagged or not.             *)

ExplicitKeys(jira, x) == IF x.tag # None THEN {x.tag} ELSE BareTests(jira, x)
Claimants(jira, files, k) ==
  {i \in 1..Len(All(files)) : k \in ExplicitKeys(jira, All(files)[i])}

\* The scenario names its test: by tag, or by its one bare key.
Named(jira, files, x, k) ==
  LET story == StoryOf(jira, x, BareTests(jira, x)) IN
  IF Cardinality(Claimants(jira, files, k)) > 1
    THEN Entry(x, "ERROR", k, None, "test_key_claimed")
    ELSE Entry(x, "MATCHED", k, IF story.problem = None THEN story.key ELSE None, None)

\* It names none: by the summary, among tests nobody names or took.
BySummary(jira, files, x, taken) ==
  LET story == StoryOf(jira, x, {})
      same  == SameSummary(jira, story.key, x.summary)
      free  == {k \in same \ taken : Claimants(jira, files, k) = {}}
  IN CASE story.problem # None -> Entry(x, "ERROR", None, story.key, story.problem)
       [] story.problem = None /\ Cardinality(free) > 1 ->
            Entry(x, "ERROR", None, story.key, "ambiguous")
       [] story.problem = None /\ Cardinality(free) = 1 ->
            Entry(x, "MATCHED", CHOOSE k \in free : TRUE, story.key, None)
       [] OTHER -> Entry(x, "ERROR", None, story.key,
                         IF same = {} THEN "not_found" ELSE "test_key_claimed")

UpdateMatch(jira, files, x, taken) ==
  LET unknown == BareUnknown(jira, x)
      tests   == BareTests(jira, x)
  IN CASE x.tag # None /\ Kind(jira, x.tag) = "test" -> Named(jira, files, x, x.tag)
       [] x.tag # None /\ Unknown(jira, x.tag) ->
            Entry(x, "ERROR", x.tag, None, UnknownReason(jira, x.tag))
       [] x.tag # None /\ Kind(jira, x.tag) \in {"story", "other"} ->
            Entry(x, "ERROR", x.tag, None, "not_a_test")
       [] x.tag = None /\ unknown # <<>> ->
            Entry(x, "ERROR", unknown[1], None, UnknownReason(jira, unknown[1]))
       [] x.tag = None /\ unknown = <<>> /\ Cardinality(tests) > 1 ->
            Entry(x, "ERROR", None, None, "ambiguous")
       [] x.tag = None /\ unknown = <<>> /\ Cardinality(tests) = 1 ->
            Named(jira, files, x, CHOOSE k \in tests : TRUE)
       [] OTHER -> BySummary(jira, files, x, taken)

\* Of the scenarios before this one: the tests taken by their summary.
Taken(jira, earlier) ==
  {e.key : e \in {f \in earlier : f.status = "MATCHED" /\ ExplicitKeys(jira, f.x) = {}}}
UpdateMatches(jira, files) ==
  LET all == All(files)
      match[i \in 1..Len(all)] ==
        UpdateMatch(jira, files, all[i], Taken(jira, {match[j] : j \in 1..(i - 1)}))
  IN match

(* diff_test and _blocked.  The definition of the test's kind is compared;  *)
(* the other one is not looked at.                                          *)
Current(t) == IF t.kind = "manual" THEN t.steps ELSE t.gherkin
Changes(t, x, story) ==
  (IF t.summary # x.summary THEN {"summary"} ELSE {})
  \union (IF t.kind # x.def.kind THEN {"kind"}
          ELSE IF Current(t) # x.def.text THEN {"definition"} ELSE {})
  \union (IF story # None /\ story \notin t.links THEN {"story_link"} ELSE {})
Blocked(changes) ==
  CASE deployment = "cloud" /\ changes \intersect {"summary", "story_link"} # {}
         -> "jira_fields_unsupported"
    [] "kind" \in changes /\ ~({"manual", "cucumber"} \subseteq Creatable)
         -> "field_not_editable"
    [] OTHER -> None

UpdateEntry(jira, e) ==
  LET t == jira[e.key]  c == Changes(t, e.x, e.story) IN
  IF e.status # "MATCHED" THEN e
  ELSE CASE e.x.def.kind = "broken" ->
              [e EXCEPT !.status = "ERROR", !.reason = "assertion_without_action"]
         [] e.x.def.kind # "broken" /\ c = {} -> [e EXCEPT !.status = "SKIPPED"]
         [] OTHER ->
              [e EXCEPT !.status = IF Blocked(c) = None THEN "WOULD_UPDATE" ELSE "ERROR",
                        !.reason = Blocked(c), !.changes = c]
UpdatePlan(jira, files) ==
  LET matches == UpdateMatches(jira, files)
  IN [i \in 1..Len(matches) |-> UpdateEntry(jira, matches[i])]

-----------------------------------------------------------------------------
(* write_xray_keys_to_files: keys is a function from <<path, summary>>.     *)

FinalKey(x, keys) ==
  IF <<x.path, x.summary>> \in DOMAIN keys THEN keys[<<x.path, x.summary>>] ELSE x.tag
UsedAsOtherTag(files, x, k) ==
  \/ \E p \in ToSet(Paths) : files[p].story = k
  \/ k \in {x.local, x.story}
  \/ \E y \in ToSet(All(files)) \ {x} : k = y.local \/ Contains(y.bare, k)
\* Mutant of CanAssign: the keys other scenarios end with are not compared.
CanAssignOverlooksOwners(files, keys) ==
  /\ DistinctIdentities(All(files))
  /\ \A x \in ToSet(All(files)) : <<x.path, x.summary>> \in DOMAIN keys =>
       ~UsedAsOtherTag(files, x, FinalKey(x, keys))
CanAssign(files, keys) ==
  LET all == All(files)
      final(i) == FinalKey(all[i], keys)
      mapped == {x \in ToSet(all) : <<x.path, x.summary>> \in DOMAIN keys}
  IN /\ DistinctIdentities(all)
     /\ DOMAIN keys \subseteq {<<x.path, x.summary>> : x \in ToSet(all)}
     /\ \A i, j \in 1..Len(all) : final(i) = final(j) /\ final(i) # None => i = j
     /\ \A x \in mapped : ~UsedAsOtherTag(files, x, FinalKey(x, keys))

\* The marker replaces older ones, and bare copies of the key are removed.
Retag(p, s, keys) ==
  LET k == FinalKey([path |-> p, summary |-> s.summary, tag |-> s.tag], keys) IN
  IF <<p, s.summary>> \in DOMAIN keys
    THEN [s EXCEPT !.tag = k, !.bare = SelectSeq(s.bare, LAMBDA b : b # k)]
    ELSE s
Rewritten(files, keys) ==
  [p \in DOMAIN files |->
     [files[p] EXCEPT !.sc = [n \in 1..Len(files[p].sc) |->
                                Retag(p, files[p].sc[n], keys)]]]

-----------------------------------------------------------------------------
(* pull_xray_tests_to_files: one test, for one format.                      *)

FormatFiles(files, fmt) == {p \in ToSet(Paths) : files[p].format = fmt}
\* A robot file without a story of its own has that of its first scenario
\* with one.
FileStory(files, p) ==
  LET own == SelectSeq(files[p].sc, LAMBDA s : s.local # None) IN
  IF files[p].story # None \/ files[p].format # "robot" THEN files[p].story
  ELSE IF own = <<>> THEN None ELSE own[1].local
LocalMatches(files, fmt, story, summary) ==
  {x \in ToSet(All(files)) :
     x.format = fmt /\ x.summary = summary /\ x.story = story}

\* resolve_parent: the one story among the links, or why there is none.
ParentStory(links) ==
  LET ofType(type) == {s \in links : s \in DOMAIN Issues /\ Issues[s] = type} IN
  CASE links = {}                         -> [status |-> "SKIP_NO_STORY", key |-> None]
    [] Cardinality(ofType("story")) > 1   -> [status |-> "STORY_AMBIGUOUS", key |-> None]
    [] Cardinality(ofType("story")) = 1   ->
         [status |-> "ok", key |-> CHOOSE s \in ofType("story") : TRUE]
    [] OTHER                              -> [status |-> "STORY_NOT_QUALIFYING", key |-> None]

Pulled(k, status, path, story, summary) ==
  [key |-> k, status |-> status, path |-> path, story |-> story, summary |-> summary]

\* New files are named by a template; a name that is taken collides.
PlanPull(jira, files, fmt, NewPath, k) ==
  LET t       == jira[k]
      parent  == ParentStory(t.links)
      local   == LocalMatches(files, fmt, parent.key, t.summary)
      x       == CHOOSE y \in local : TRUE
      targets == {p \in FormatFiles(files, fmt) : FileStory(files, p) = parent.key}
      result(status, path) == Pulled(k, status, path, parent.key, t.summary)
  IN CASE k \in Tagged(files)        -> result("SKIP_KNOWN", None)
       [] k \notin Tagged(files) /\ parent.status # "ok" -> result(parent.status, None)
       [] OTHER ->
            CASE Cardinality(local) > 1 -> result("LOCAL_AMBIGUOUS", None)
              [] Cardinality(local) = 1 /\ x.tag # None -> result("KEY_CONFLICT", x.path)
              [] Cardinality(local) = 1 /\ x.tag = None -> result("BACKFILL_TAG", x.path)
              [] local = {} /\ Cardinality(targets) > 1 -> result("TARGET_AMBIGUOUS", None)
              [] local = {} /\ Cardinality(targets) = 1 ->
                   result("ADD", CHOOSE p \in targets : TRUE)
              [] OTHER -> IF NewPath \in DOMAIN files /\ files[NewPath].sc # <<>>
                            THEN result("PATH_COLLISION", NewPath)
                            ELSE result("NEW_FILE", NewPath)

Actionable == {"ADD", "BACKFILL_TAG", "NEW_FILE"}
PullPlan(jira, files, fmt, NewPath, remote) ==
  LET plan == {PlanPull(jira, files, fmt, NewPath, k) : k \in remote}
      twins(r) == {q \in plan : /\ q.status \in Actionable
                                /\ q.story = r.story /\ q.summary = r.summary}
  IN {IF r.status \in Actionable /\ Cardinality(twins(r)) > 1
        THEN [r EXCEPT !.status = "REMOTE_AMBIGUOUS"] ELSE r : r \in plan}

(* What the caller's files say once it applies the proposals.  A test with  *)
(* nothing in it becomes a scenario to flesh out; an added robot scenario   *)
(* carries its story when its file has none.                                *)
PulledDef(t) ==
  Body(t.kind, IF t.kind = "manual" /\ t.steps = "" THEN "todo" ELSE Current(t))
Rendered(jira, r, local) ==
  Scenario(r.summary, local, <<>>, r.key, PulledDef(jira[r.key]))
NewIn(plan, p) == {r \in plan : r.status \in {"ADD", "NEW_FILE"} /\ r.path = p}
Backfills(plan) == {r \in plan : r.status = "BACKFILL_TAG"}

\* The checks after the edits; a failure raises and proposes nothing.
PullApplies(files, plan) ==
  /\ \A r \in Backfills(plan) :
       Cardinality({n \in DOMAIN files[r.path].sc : files[r.path].sc[n].summary = r.summary}) = 1
  /\ \A r \in plan : r.status = "ADD" =>
       \A n \in DOMAIN files[r.path].sc : files[r.path].sc[n].summary # r.summary
Applied(jira, files, fmt, plan) ==
  LET keyOf(id) == (CHOOSE r \in Backfills(plan) : <<r.path, r.summary>> = id).key
      tags == [id \in {<<r.path, r.summary>> : r \in Backfills(plan)} |-> keyOf(id)]
      local(p, r) == IF r.status = "ADD" /\ fmt = "robot" /\ files[p].story = None
                       THEN r.story ELSE None
      added(p) == LET new == SetToSeq(NewIn(plan, p)) IN
                  [i \in 1..Len(new) |-> Rendered(jira, new[i], local(p, new[i]))]
      fresh(p) == \E r \in NewIn(plan, p) : r.status = "NEW_FILE"
      base == Rewritten(files, tags)
  IN [p \in DOMAIN files |->
        [format |-> IF fresh(p) THEN fmt ELSE files[p].format,
         story  |-> IF fresh(p) THEN (CHOOSE r \in NewIn(plan, p) : TRUE).story
                    ELSE files[p].story,
         sc     |-> base[p].sc \o added(p)]]
=============================================================================
