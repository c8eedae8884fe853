----------------------------- MODULE MCXrayFiles ------------------------------
EXTENDS XrayFiles

CONSTANTS k1, k2, k3, S, X, gone, robot1, feature1, new1

MCPaths == <<robot1, feature1, new1>>
MCIssues == S :> "story" @@ X :> "other"
MCEdits == {Body("manual", "b"), Body("cucumber", "b")}

File(fmt, story, sc) == [format |-> fmt, story |-> story, sc |-> sc]
Files(robot, feature) ==
  robot1 :> robot @@ feature1 :> feature @@ new1 :> File("robot", None, <<>>)
Jira(a, b) ==
  LET there == {k \in {k1, k2} : (k = k1 /\ a # None) \/ (k = k2 /\ b # None)}
  IN [k \in there |-> IF k = k1 THEN a ELSE b]
Plain(summary, def) == Scenario(summary, None, <<>>, None, def)
M == Body("manual", "a")
C == Body("cucumber", "a")
ManualTest(summary, links) == Test(summary, links, "manual", "b", "")
CucumberTest(summary, links) == Test(summary, links, "cucumber", "", "b")

MCStarts == {
  \* nothing exists; one scenario in both formats
  [files |-> Files(File("robot", S, <<Plain("login", M), Plain("logout", Body("broken", "a"))>>),
                   File("feature", S, <<Plain("login", C)>>)),
   jira |-> Jira(None, None)],
  \* a test exists: named by a bare key, by its summary, by a tag
  [files |-> Files(File("robot", None, <<Scenario("login", S, <<k1>>, None, M)>>),
                   File("feature", S, <<Plain("login", C), Plain("logout", C)>>)),
   jira |-> Jira(ManualTest("login", {S}), None)],
  [files |-> Files(File("robot", S, <<Scenario("login", None, <<>>, k1, C)>>),
                   File("feature", S, <<Plain("logout", M)>>)),
   jira |-> Jira(ManualTest("login", {S}), CucumberTest("logout", {S}))],
  \* twins in Jira, an issue that is no story, a key that does not exist
  [files |-> Files(File("robot", S, <<Scenario("login", None, <<X>>, None, M)>>),
                   File("feature", S, <<Plain("login", M)>>)),
   jira |-> Jira(ManualTest("login", {S}), CucumberTest("login", {S}))],
  [files |-> Files(File("robot", None, <<Plain("login", M), Scenario("logout", S, <<>>, None, C)>>),
                   File("feature", S, <<Scenario("logout", None, <<gone>>, None, C)>>)),
   jira |-> Jira(ManualTest("logout", {S}), ManualTest("other", {}))] }
=============================================================================
