----------------------------- MODULE Connections -----------------------------
(***************************************************************************)
(* The four OAuth and token connections of the hub.  They share no state:  *)
(* in a behaviour one of them moves, chosen at its start, and the other    *)
(* three stay as they are.                                                 *)
(***************************************************************************)
EXTENDS JiraCloud

CONSTANTS
    Repos, Boards,      \* GitHub: what the picker offers
    Preset, PresetId,   \* GitHub: the selection and connector id of the environment
    DcKeys,             \* Data Center: project keys
    Accounts,           \* Drive: the Google accounts of the person
    Files, Folders,     \* Drive: what they hold
    Inside, Readable,   \* Drive: the files below a folder, the items of an account
    MaxTokens,          \* Drive: bound on the consents
    GitHubRequests, DcRequests, DriveRequests   \* bounds on the requests started

VARIABLES which, ghGrant, ghStates, ghReq, ghRows, issued, ghSpent, dead, ghHistory,
          dcState, dcStep, dcRows, server, tokenOk, dcHistory,
          drGrant, drStates, drStep, browsing, drRows, drDead, drHistory

Selections == [repo : Repos \cup {None}, board : Boards \cup {None}]

\* The records of the other three stores
GitHubGrants == [access : Nat, refresh : Nat, reauth : BOOLEAN, sel : Selections, id : Nat]
DcStates == [id : Nat, server : Sites \cup {None}, keys : SUBSET DcKeys, rejected : BOOLEAN]
DriveGrants == [account : Accounts, token : Nat, reauth : BOOLEAN, exports : BOOLEAN,
                email : Accounts \cup {None}, folders : SUBSET Folders, files : SUBSET Files]

ASSUME ConnectionsAssumption ==
    /\ Preset \in Selections /\ PresetId \in (Nat \ {0}) \cup {None}
    /\ \A d \in Folders : Inside[d] \in SUBSET Files
    /\ None \notin Repos \cup Boards \cup Accounts
    /\ None \notin {"connect", "list", "fetch", "select", "sync", "disconnect"}
    /\ None \notin GitHubGrants \cup DcStates \cup DriveGrants
    /\ MaxTokens \in Nat
    /\ GitHubRequests \in Nat /\ DcRequests \in Nat /\ DriveRequests \in Nat

GitHub == INSTANCE GitHubGrant
    WITH grant <- ghGrant, states <- ghStates, req <- ghReq, rows <- ghRows, issued <- issued, spent <- ghSpent,
         dead <- dead, history <- ghHistory, MaxRequests <- GitHubRequests

DataCenter == INSTANCE JiraDataCenter
    WITH state <- dcState, step <- dcStep, rows <- dcRows, history <- dcHistory,
         Servers <- Sites, Keys <- DcKeys, MaxRequests <- DcRequests

Drive == INSTANCE DriveGrant
    WITH grant <- drGrant, states <- drStates, step <- drStep, browsing <- browsing,
         rows <- drRows, dead <- drDead, history <- drHistory,
         Has <- Readable, MaxRequests <- DriveRequests

ghVars == <<ghGrant, ghStates, ghReq, ghRows, issued, ghSpent, dead, ghHistory>>
dcVars == <<dcState, dcStep, dcRows, server, tokenOk, dcHistory>>
drVars == <<drGrant, drStates, drStep, browsing, drRows, drDead, drHistory>>

HubInit ==
    /\ which \in {"jira", "github", "dc", "drive"}
    /\ Init /\ GitHub!Init /\ Drive!Init
    /\ IF which = "dc" THEN DataCenter!Init
       ELSE /\ dcState = None /\ dcStep = [at |-> "idle"] /\ dcRows = {}
            /\ server = None /\ tokenOk = TRUE
            /\ dcHistory = [started |-> 0, troubles |-> 0, ids |-> 0, unpurged |-> FALSE]

HubNext ==
    \/ /\ which = "jira" /\ Next
       /\ UNCHANGED <<which, ghVars, dcVars, drVars>>
    \/ /\ which = "github" /\ GitHub!Next
       /\ UNCHANGED <<which, vars, dcVars, drVars>>
    \/ /\ which = "dc" /\ DataCenter!Next
       /\ UNCHANGED <<which, vars, ghVars, drVars>>
    \/ /\ which = "drive" /\ Drive!Next
       /\ UNCHANGED <<which, vars, ghVars, dcVars>>

HubSpec == HubInit /\ [][HubNext]_<<which, vars, ghVars, dcVars, drVars>>

-----------------------------------------------------------------------------
\* No document without a selection that accounts for it, whichever connection
\* it came from: as the four modules state it
RowsAccounted ==
    RowsOwned /\ GitHub!RowsInScope /\ DataCenter!RowsOfServer /\ Drive!DriveRowsSelected

\* What is selected belongs to the connected account, or to its site
ScopeOfAccount == SelectionOnSite /\ Drive!SelectionReadable
=============================================================================
