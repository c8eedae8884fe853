---------------------------- MODULE IssueListing ----------------------------
(***************************************************************************)
(* How a connector lists the issues of what is selected, page by page,     *)
(* while people go on working: Jira Cloud and the items of a GitHub        *)
(* project by a cursor, Jira Data Center by an offset                      *)
(* (src/infrastructure/connectors/jira/issue_documents.py, client.py,      *)
(* data_center.py, src/infrastructure/connectors/github/client.py).  What  *)
(* is not listed is afterwards deleted here (ConnectorSync), so a list     *)
(* that is short must never pass for a whole one.                          *)
(***************************************************************************)
EXTENDS Naturals, FiniteSets, FiniteSetsExt

CONSTANTS IssueKeys,     \* integers, in the order of creation
          ProjectOf,     \* the project of each, 1 or 2
          Servers, MaxIssues, PageSize,
          MaxChanges,
          Mixed          \* whether issues may come and go in one listing by offset

\* A page asks for something.
ASSUME IssueListingAssumption ==
  /\ IssueKeys \subseteq Nat \ {0} /\ IsFiniteSet(IssueKeys)
  /\ ProjectOf \in [IssueKeys -> 1..2] /\ Servers \subseteq {"cloud", "data_center", "github"}
  /\ MaxIssues \in Nat /\ PageSize \in Nat \ {0}

VARIABLES server, issues, project, cursor, total, found, pages, smallest,
          listing,       \* how the listing stands
          touched        \* issues that came or went meanwhile, and whether a page
                         \* with a next one was empty; for the property

listVars == <<server, issues, project, cursor, total, found, pages, smallest,
              listing, touched>>

ListInit ==
  /\ server \in Servers /\ issues \in SUBSET IssueKeys
  /\ project = 1 /\ cursor = 0 /\ total = {}
  /\ found = {} /\ pages = 0 /\ smallest = PageSize
  /\ listing = "running" /\ touched = [come |-> {}, gone |-> {}, blank |-> FALSE]

ByOffset == server = "data_center"
Limited  == server # "github"
Listed == IF server = "github" THEN 1..1 ELSE 1..2

-----------------------------------------------------------------------------
Here == {k \in issues : ProjectOf[k] = project}
Place(S, k) == Cardinality({j \in S : j <= k})

\* What a server still has to give, in the order of keys.
Rest == IF ByOffset THEN {k \in Here : Place(Here, k) > cursor}
                    ELSE {k \in Here : k > cursor}
Page(n) == {k \in Rest : Place(Rest, k) <= n}

\* Where the next page starts.
NextCursor(n) == IF ByOffset THEN cursor + n ELSE Max(Page(n) \union {cursor})

\* A server may give less than is asked for; with a cursor it may say only on
\* an empty page that there is no more, and Jira Cloud may give an empty page
\* and yet another token.
Answers ==
  {a \in [size : 0..PageSize, last : BOOLEAN] :
     /\ a.size <= Cardinality(Rest)
     /\ a.size = 0 => server = "cloud" \/ (Rest = {} /\ a.last)
     /\ a.last => a.size = Cardinality(Rest)
     /\ ByOffset => (a.last <=> cursor + a.size >= Cardinality(Here))}

\* _page_budget: for the smallest page so far.
Budget == ((MaxIssues + smallest - 1) \div smallest) + Cardinality(Listed)

Drifted_Never == FALSE
\* The number of matches has changed since the project's first page.
Drifted == ByOffset /\ total \notin {{}, {Cardinality(Here)}}

FetchPage(a) ==
  /\ listing = "running"
  /\ Limited => pages < Budget
  /\ pages' = pages + 1
  /\ touched' = [touched EXCEPT !.blank = @ \/ (a.size = 0 /\ ~a.last)]
  /\ IF Drifted
     THEN /\ listing' = "drifted"
          /\ UNCHANGED <<project, cursor, total, found, smallest>>
     ELSE /\ found' = found \union Page(a.size)
          /\ smallest' = IF ~a.last /\ a.size \in 1..smallest THEN a.size ELSE smallest
          /\ listing' = IF Limited /\ Cardinality(found') > MaxIssues THEN "too_many"
                        ELSE IF a.last /\ project = Max(Listed) THEN "listed"
                        ELSE "running"
          /\ IF a.last THEN project' = project + 1 /\ cursor' = 0 /\ total' = {}
             ELSE /\ cursor' = NextCursor(a.size)
                  /\ total' = {Cardinality(Here)}
                  /\ UNCHANGED project
  /\ UNCHANGED <<server, issues>>

OverBudget ==
  /\ listing = "running" /\ Limited /\ pages >= Budget
  /\ listing' = "over_budget"
  /\ UNCHANGED <<server, issues, project, cursor, total, found, pages, smallest,
                 touched>>

\* A request fails, or the limit on requests is met: the listing raises.
ListingFails ==
  /\ listing = "running"
  /\ listing' = "failed"
  /\ UNCHANGED <<server, issues, project, cursor, total, found, pages, smallest,
                 touched>>

-----------------------------------------------------------------------------
(* Meanwhile, at the provider; a moved issue goes with its old key and     *)
(* comes with a new one.                                                   *)

Happens == Cardinality(touched.come) + Cardinality(touched.gone) < MaxChanges
PagesSame == UNCHANGED <<server, project, cursor, total, found, pages, smallest, listing>>

IssueComes(k) ==
  /\ listing = "running" /\ Happens
  /\ ~Mixed /\ ByOffset => touched.gone = {}
  /\ \A j \in issues \union touched.gone : ProjectOf[j] = ProjectOf[k] => j < k
  /\ issues' = issues \union {k}
  /\ touched' = [touched EXCEPT !.come = @ \union {k}]
  /\ PagesSame

IssueGoes(k) ==
  /\ listing = "running" /\ Happens
  /\ ~Mixed /\ ByOffset => touched.come = {}
  /\ k \in issues
  /\ issues' = issues \ {k}
  /\ touched' = [touched EXCEPT !.gone = @ \union {k}]
  /\ PagesSame

ListNext ==
  \/ \E a \in Answers : FetchPage(a)
  \/ OverBudget \/ ListingFails
  \/ \E k \in IssueKeys : IssueComes(k) \/ IssueGoes(k)

ListSpec == ListInit /\ [][ListNext]_listVars

-----------------------------------------------------------------------------
(* A listing that does not raise has every issue that was there all the    *)
(* time, and none that never was; and it gives up for too many pages only  *)
(* when some were empty, however small the server makes them               *)
(* ("Incomplete listings must raise from the connector so reconcile never  *)
(* runs on a short list", sync_connector.py).                              *)
ListedWhole ==
  /\ listing = "listed" =>
       /\ {k \in issues \ touched.come : ProjectOf[k] \in Listed} \subseteq found
       /\ found \subseteq issues \union touched.gone
  /\ listing = "over_budget" => touched.blank
=============================================================================
