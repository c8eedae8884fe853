----------------------------- MODULE GitHubGrant -----------------------------
(***************************************************************************)
(* The GitHub connection of the hub: the stored user grant with its        *)
(* selection, the requests that use it and the rows synchronized under it  *)
(* (composition/github/{connection,selection,sync}.py and                  *)
(* infrastructure/connectors/github/oauth.py).                             *)
(*                                                                         *)
(* Unlike Jira's, a token renewal here runs outside the store's lock: the  *)
(* token of the request's snapshot is sent, and the answer is written over *)
(* whatever is stored by then.  Token pairs are numbered as GitHub issues  *)
(* them; a refresh token has one use.                                      *)
(***************************************************************************)
EXTENDS Integers, FiniteSets, Sequences

CONSTANTS
    Requests,      \* the requests that may be under way together
    Repos,         \* repositories of the picker
    Boards,        \* ProjectV2 boards of the picker
    Preset,        \* the repository and board of the environment settings
    PresetId,      \* the connector id of the environment settings, or None
    None,          \* Python's None
    MaxPairs,      \* bound on the token pairs GitHub issues
    MaxTroubles,   \* bound on failed calls and failed purges
    MaxRequests    \* bound on the requests started

VARIABLES
    grant,      \* the stored GitHubOAuthConnection, or None
    states,     \* whether an issued state token waits for its callback
    req,        \* what each request holds between its steps
    rows,       \* the GitHub rows of the catalog and the vector store
    issued,     \* GitHub: the number of token pairs issued
    spent,      \* GitHub: the refresh tokens already used
    dead,       \* GitHub: the access tokens that ran out or were revoked
    history     \* counters, and whether a purge failed or a grant was replaced

vars == <<grant, states, req, rows, issued, spent, dead, history>>
github == <<states, issued, spent, dead>>

Idle == [op |-> None, at |-> "idle"]
Connected == grant # None

Selection(repo, board) == [repo |-> repo, board |-> board]
Parts(sel) == {sel.repo, sel.board} \ {None}
Row(id, part) == [id |-> id, part |-> part]

Init ==
    /\ grant = None /\ states = FALSE /\ rows = {} /\ issued = 0 /\ spent = {} /\ dead = {}
    /\ req = [p \in Requests |-> Idle]
    /\ history = [started |-> 0, troubles |-> 0, ids |-> 0, unpurged |-> FALSE,
                  replaced |-> FALSE]

Trouble == /\ history.troubles < MaxTroubles
           /\ history' = [history EXCEPT !.troubles = @ + 1]

\* Requests that change the connection do not overlap; the pickers and the
\* issue reader of Test Design overlap everything.
Readers == {"list", "fetch"}
MayStart(p, op) ==
    /\ req[p] = Idle /\ history.started < MaxRequests
    /\ op \in Readers \/ \A q \in Requests : req[q].op \in Readers \cup {None}

Started == history' = [history EXCEPT !.started = @ + 1]
End(p) == req' = [req EXCEPT ![p] = Idle]
Goto(p, at) == req' = [req EXCEPT ![p].at = at]

-----------------------------------------------------------------------------
(* coalesce_text over the selection: what is not stored comes from the     *)
(* environment, for the status and for a synchronization alike.            *)

Coalesced(sel) ==
    Selection(IF sel.repo # None THEN sel.repo ELSE Preset.repo,
              IF sel.board # None THEN sel.board ELSE Preset.board)

ConnectionState ==
    CASE grant = None -> "disconnected"
      [] grant # None /\ grant.reauth -> "reauthorization_required"
      [] grant # None /\ ~grant.reauth /\ Parts(Coalesced(grant.sel)) = {} -> "setup_required"
      [] OTHER -> "ready"

\* with_connector_id: an id that is there stays; the environment's goes first
WithId(id) == IF id # 0 THEN id ELSE IF PresetId # None THEN PresetId ELSE history.ids + 1
Minted(id) == id = 0 /\ PresetId = None

\* GitHubOAuthConnectionStore: the file is written whole under its lock, or removed
Store(g) == grant' = g

\* mark_github_reauth: nothing is marked after a disconnect
Reauth == IF Connected THEN [grant EXCEPT !.reauth = TRUE] ELSE None

-----------------------------------------------------------------------------
(* A callback replaces the whole connection.                               *)

IssuedState == states' = TRUE
ConsumedState == states /\ states' = FALSE

StartOauth ==
    /\ ~states /\ issued < MaxPairs
    /\ IssuedState
    /\ UNCHANGED <<grant, req, rows, issued, spent, dead, history>>

\* Its time is over: it is refused when it comes, and swept at the next issue
StateTimesOut ==
    /\ states /\ states' = FALSE
    /\ UNCHANGED <<grant, req, rows, issued, spent, dead, history>>

\* The state has one use; then the code is exchanged
Callback(p) ==
    /\ MayStart(p, "connect") /\ issued < MaxPairs
    /\ ConsumedState
    /\ issued' = issued + 1
    /\ history' = [history EXCEPT !.started = @ + 1]
    /\ req' = [req EXCEPT ![p] = [op |-> "connect", at |-> "save", pair |-> issued + 1]]
    /\ UNCHANGED <<grant, rows, spent, dead>>

\* An error came back, or the code cannot be exchanged; a denied consent
\* changes nothing
CallbackFails(p) ==
    /\ MayStart(p, "connect") /\ history.troubles < MaxTroubles
    /\ ConsumedState
    /\ history' = [history EXCEPT !.started = @ + 1, !.troubles = @ + 1]
    /\ UNCHANGED <<grant, req, rows, issued, spent, dead>>

SaveConnection(p) ==
    /\ req[p].op = "connect" /\ req[p].at = "save"
    /\ Store([access |-> req[p].pair, refresh |-> req[p].pair, reauth |-> FALSE,
              sel |-> Preset, id |-> 0])
    /\ history' = [history EXCEPT !.replaced = @ \/ Connected]
    /\ End(p)
    /\ UNCHANGED <<rows, github>>

-----------------------------------------------------------------------------
(* Requests under the grant start from a snapshot (require_github_grant).  *)

Snapshot(op, arg) ==
    [op |-> op, arg |-> arg, at |-> "call", access |-> grant.access,
     refresh |-> grant.refresh, sel |-> grant.sel, id |-> grant.id, again |-> FALSE]

Begin(p, op, arg) ==
    /\ MayStart(p, op) /\ Connected /\ ~grant.reauth /\ Started
    /\ req' = [req EXCEPT ![p] = Snapshot(op, arg)]
    /\ UNCHANGED <<grant, rows, github>>

ListRepositories(p) == Begin(p, "list", None)
FetchIssue(p) == Begin(p, "fetch", None)

\* put_github_selection; a cleared selection needs no call
PutSelection(p) ==
    \E repo \in Repos \cup {None}, board \in Boards \cup {None} :
        Begin(p, "select", Selection(repo, board))

\* sync_github_oauth: the connector id is stored first, then the scope is read
SyncGitHub(p) ==
    /\ MayStart(p, "sync") /\ Connected /\ ~grant.reauth
    /\ Store([grant EXCEPT !.id = WithId(@)])
    /\ history' = [history EXCEPT !.started = @ + 1,
                                  !.ids = @ + IF Minted(grant.id) THEN 1 ELSE 0]
    /\ req' = IF Parts(Coalesced(grant.sel)) = {} THEN req
              ELSE [req EXCEPT ![p] = [Snapshot("sync", None) EXCEPT
                      !.sel = Coalesced(grant.sel), !.id = WithId(grant.id)]]
    /\ UNCHANGED <<rows, github>>

\* disconnect_github_oauth: the snapshot's access token is revoked first
Disconnect(p) ==
    /\ MayStart(p, "disconnect") /\ Connected /\ Started
    /\ dead' = dead \cup {grant.access}
    /\ req' = [req EXCEPT ![p] = [Snapshot("disconnect", None) EXCEPT !.at = "save"]]
    /\ UNCHANGED <<grant, states, rows, issued, spent>>

-----------------------------------------------------------------------------
(* The call.  The pickers mark the grant at the first refusal; the reader  *)
(* and the synchronization renew once.                                     *)

Calling(p) == req[p].at = "call"
Asks(p) == ~(req[p].op = "select" /\ Parts(req[p].arg) = {})

Refused(p) ==
    /\ Calling(p) /\ Asks(p) /\ req[p].access \in dead
    /\ IF req[p].op \in {"list", "select"} \/ req[p].again
         THEN Store(Reauth) /\ End(p)
         ELSE Goto(p, "renew") /\ UNCHANGED grant
    /\ UNCHANGED <<rows, github, history>>

CallFails(p) ==
    /\ Calling(p) /\ Asks(p) /\ Trouble /\ End(p)
    /\ UNCHANGED <<grant, rows, github>>

Reads(p) ==
    /\ Calling(p) /\ req[p].access \notin dead /\ req[p].op \in Readers
    /\ End(p)
    /\ UNCHANGED <<grant, rows, github, history>>

ChecksSelection(p) ==
    /\ Calling(p) /\ req[p].op = "select"
    /\ ~Asks(p) \/ req[p].access \notin dead
    /\ Goto(p, "save")
    /\ UNCHANGED <<grant, rows, github, history>>

\* _run_github_oauth_sync, reconciling the rows of its connector id
Synchronizes(p) ==
    /\ Calling(p) /\ req[p].access \notin dead /\ req[p].op = "sync"
    /\ rows' = {r \in rows : r.id # req[p].id} \cup {Row(req[p].id, x) : x \in Parts(req[p].sel)}
    /\ Goto(p, "save")
    /\ UNCHANGED <<grant, github, history>>

\* _refresh_github_grant_access_token and the same lines of the synchronization
RenewRefused(p) ==
    /\ req[p].at = "renew" /\ req[p].refresh \in spent
    /\ Store(Reauth)
    /\ End(p)
    /\ UNCHANGED <<rows, github, history>>

\* No answer is taken for a refusal; the token may be used up by it
RenewLost(p) ==
    /\ req[p].at = "renew" /\ req[p].refresh \notin spent /\ Trouble
    /\ spent' \in {spent, spent \cup {req[p].refresh}}
    /\ Store(Reauth)
    /\ End(p)
    /\ UNCHANGED <<states, rows, issued, dead>>

Renew(p) ==
    /\ req[p].at = "renew" /\ req[p].refresh \notin spent /\ issued < MaxPairs
    /\ spent' = spent \cup {req[p].refresh}
    /\ issued' = issued + 1
    /\ req' = [req EXCEPT ![p].at = "store", ![p].access = issued + 1, ![p].refresh = issued + 1]
    /\ UNCHANGED <<grant, states, rows, dead, history>>

\* The new pair, and in a synchronization the selection of its start as well
StoreRenewed(p) ==
    /\ req[p].at = "store"
    /\ Store(IF ~Connected THEN None
             ELSE [grant EXCEPT !.access = req[p].access, !.refresh = req[p].refresh,
                                !.reauth = FALSE,
                                !.sel = IF req[p].op = "sync" THEN req[p].sel ELSE @])
    /\ req' = [req EXCEPT ![p].at = "call", ![p].again = TRUE]
    /\ UNCHANGED <<rows, github, history>>

-----------------------------------------------------------------------------
(* Saving, and removing the rows a change leaves without a scope.          *)

Saving(p, op) == req[p].at = "save" /\ req[p].op = op

\* purge_github_connector_docs: without an id every GitHub row is in scope;
\* a board that changes drops the issues of every board.
InConnector(id) == {r \in rows : id = 0 \/ r.id = id}

Dropped(old, new, id) ==
    {r \in InConnector(id) :
        \/ old.repo # None /\ old.repo # new.repo /\ r.part = old.repo
        \/ old.board # None /\ old.board # new.board /\ r.part \in Boards}

PurgeOr(p, gone) ==
    req' = [req EXCEPT ![p] = IF gone = {} THEN Idle
                              ELSE [op |-> req[p].op, at |-> "purge", rows |-> gone]]

SaveSelection(p) ==
    /\ Saving(p, "select")
    /\ IF Connected /\ ~grant.reauth
         THEN /\ Store([grant EXCEPT !.sel = req[p].arg, !.id = WithId(@)])
              /\ history' = [history EXCEPT !.ids = @ + IF Minted(grant.id) THEN 1 ELSE 0]
              /\ PurgeOr(p, Dropped(req[p].sel, req[p].arg, WithId(grant.id)))
         ELSE End(p) /\ UNCHANGED <<grant, history>>
    /\ UNCHANGED <<rows, github>>

\* The counts of a synchronization are saved with the selection of its start
SaveSync(p) ==
    /\ Saving(p, "sync")
    /\ Store(IF Connected THEN [grant EXCEPT !.sel = req[p].sel] ELSE None)
    /\ End(p)
    /\ UNCHANGED <<rows, github, history>>

SaveDisconnect(p) ==
    /\ Saving(p, "disconnect")
    /\ Store(None)
    /\ PurgeOr(p, InConnector(req[p].id))
    /\ UNCHANGED <<rows, github, history>>

PurgeRows(p) ==
    /\ req[p].at = "purge"
    /\ rows' = rows \ req[p].rows
    /\ End(p)
    /\ UNCHANGED <<grant, github, history>>

PurgeFails(p) ==
    /\ req[p].at = "purge" /\ history.troubles < MaxTroubles
    /\ history' = [history EXCEPT !.troubles = @ + 1, !.unpurged = TRUE]
    /\ \E kept \in SUBSET req[p].rows : kept # {} /\ rows' = rows \ (req[p].rows \ kept)
    /\ End(p)
    /\ UNCHANGED <<grant, github>>

TokenDies ==
    /\ \E a \in 1..issued \ dead :
        /\ \A p \in Requests : "again" \in DOMAIN req[p] /\ req[p].again => req[p].access # a
        /\ dead' = dead \cup {a}
    /\ UNCHANGED <<grant, states, req, rows, issued, spent, history>>

Next ==
    \/ TokenDies \/ StartOauth \/ StateTimesOut
    \/ \E p \in Requests :
        \/ Callback(p) \/ CallbackFails(p) \/ SaveConnection(p) \/ ListRepositories(p) \/ FetchIssue(p)
        \/ PutSelection(p) \/ SyncGitHub(p) \/ Disconnect(p)
        \/ Refused(p) \/ CallFails(p) \/ Reads(p) \/ ChecksSelection(p) \/ Synchronizes(p)
        \/ RenewRefused(p) \/ RenewLost(p) \/ Renew(p) \/ StoreRenewed(p)
        \/ SaveSelection(p) \/ SaveSync(p) \/ SaveDisconnect(p)
        \/ PurgeRows(p) \/ PurgeFails(p)

Spec == Init /\ [][Next]_vars

-----------------------------------------------------------------------------
\* With no request under way, no purge that failed and no reconnect over a
\* stored grant, the GitHub rows are of the stored connector and of its
\* selection: none outlives the choice it came from, or a disconnect.
RowsInScope ==
    (\A p \in Requests : req[p] = Idle) /\ ~history.unpurged /\ ~history.replaced =>
        \A r \in rows : Connected /\ r.id = grant.id /\ r.part \in Parts(grant.sel)
=============================================================================
