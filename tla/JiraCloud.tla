------------------------------ MODULE JiraCloud ------------------------------
(***************************************************************************)
(* The Jira Cloud connection of the hub: one stored Atlassian grant, the   *)
(* requests that use it, and the documents synchronized under it           *)
(* (composition/jira/cloud.py, infrastructure/connectors/jira/oauth.py).   *)
(*                                                                         *)
(* A token pair is a generation: pair g holds access token g and refresh   *)
(* token g; 0 stands for None.  Atlassian gives a refresh token one use.   *)
(* Every change of the stored grant is one step: the store re-reads,       *)
(* applies and writes under an exclusive file lock, and a rotation sends   *)
(* its refresh inside that lock.  A load takes no lock, so between a       *)
(* request's load and its save other requests may run.                     *)
(***************************************************************************)
EXTENDS Integers, FiniteSets, Sequences

CONSTANTS
    Requests,      \* the requests that may be under way together
    Sites,         \* Atlassian sites (cloud ids)
    Has,           \* Has[s]: the project keys that exist on site s
    None,          \* Python's None
    MaxPairs,      \* bound on the token pairs Atlassian issues
    MaxStates,     \* bound on the callback states issued
    MaxTroubles,   \* bound on lost answers, failures and withdrawn access
    MaxRequests    \* bound on the requests started

ASSUME JiraCloudAssumption ==
    /\ MaxPairs \in Nat /\ MaxStates \in Nat
    /\ MaxTroubles \in Nat /\ MaxRequests \in Nat
    /\ \A s \in Sites : Has[s] \in SUBSET UNION {Has[t] : t \in Sites}

Keys == UNION {Has[s] : s \in Sites}

\* A stored JiraOAuthConnection: the tokens, whether they run out, the mark,
\* the selection and the id of the connector
Connections == [access : Nat, refresh : Nat, timed : BOOLEAN, reauth : BOOLEAN,
                site : Sites \cup {None}, keys : SUBSET Keys, id : Nat]

ASSUME NoneAssumption ==
    /\ None \notin Sites \cup Connections
    /\ None \notin {"connect", "sites", "projects", "site", "select", "sync", "disconnect"}

VARIABLES
    grant,      \* the stored JiraOAuthConnection, or None
    states,     \* the unconsumed callback states of the state store
    stale,      \* the states among them that are past their time to live
    req,        \* what each request holds between its steps
    docs,       \* the Jira rows of the catalog and the vector store
    pairs,      \* Atlassian: the consent each issued pair came from
    spent,      \* Atlassian: the refresh tokens already used
    expired,    \* Atlassian: the access tokens that ran out
    consents,   \* Atlassian: what each consent may reach, in order
    revoked,    \* Atlassian: the consents the user withdrew
    history     \* what happened: replays, lost answers, failures, counters,
                \* and whether Atlassian denies calls to tokens that work

vars == <<grant, states, stale, req, docs, pairs, spent, expired, consents,
          revoked, history>>

atlassian == <<pairs, spent, expired, consents, revoked>>

Idle == [op |-> None, at |-> "idle"]

-----------------------------------------------------------------------------
(* Atlassian, as the gateway of the hub meets it.                          *)

Works(a) == a # 0 /\ a \notin expired /\ pairs[a] \notin revoked
Refreshable(r) == r # 0 /\ r \notin spent /\ pairs[r] \notin revoked
Reach(a) == consents[pairs[a]]

-----------------------------------------------------------------------------
(* The stored grant.                                                       *)

Connected == grant # None

WithoutTokens(g) ==
    [g EXCEPT !.access = 0, !.refresh = 0, !.timed = FALSE, !.reauth = TRUE]

\* _connection_from_payload: a record with neither token nor mark reads as None
Stored(g) == IF g # None /\ g.access = 0 /\ ~g.reauth THEN None ELSE g

\* JiraOAuthConnectionStore: the file is written whole under its lock, or removed
Store(g) == grant' = Stored(g)

\* _mark_reauth: nothing is marked after a disconnect
Unauthorized == IF Connected THEN WithoutTokens(grant) ELSE None

ConnectionState(g) ==
    CASE g = None -> "disconnected"
      [] g # None /\ g.reauth -> "reauthorization_required"
      [] g # None /\ ~g.reauth /\ g.site = None -> "site_selection_required"
      [] g # None /\ ~g.reauth /\ g.site # None /\ g.keys = {} -> "setup_required"
      [] OTHER -> "ready"

\* _require_grant, _require_site and the selection check of a sync
Admits(op) ==
    LET state == ConnectionState(grant)
    IN  CASE op \in {"sites", "site"} -> state \notin {"disconnected", "reauthorization_required"}
          [] op \in {"projects", "select"} -> state \in {"setup_required", "ready"}
          [] op = "sync" -> state = "ready"
          [] op = "disconnect" -> Connected

-----------------------------------------------------------------------------
Init ==
    /\ grant = None /\ states = {} /\ stale = {} /\ docs = {}
    /\ req = [p \in Requests |-> Idle]
    /\ pairs = <<>> /\ spent = {} /\ expired = {} /\ consents = <<>> /\ revoked = {}
    /\ history = [replayed |-> {}, lost |-> {}, unpurged |-> FALSE, barred |-> FALSE,
                  troubles |-> 0, started |-> 0, issued |-> 0]

Trouble == /\ history.troubles < MaxTroubles
           /\ history' = [history EXCEPT !.troubles = @ + 1]

\* Requests that change the connection do not overlap each other; the two
\* listings overlap everything (one person, one browser).
Listings == {"sites", "projects"}
MayStart(p, op) ==
    /\ req[p] = Idle
    /\ history.started < MaxRequests
    /\ op \in Listings \/ \A q \in Requests : req[q].op \in Listings \cup {None}

Started == history' = [history EXCEPT !.started = @ + 1]

End(p) == req' = [req EXCEPT ![p] = Idle]
Goto(p, at) == req' = [req EXCEPT ![p].at = at]

-----------------------------------------------------------------------------
(* Connecting: the browser goes out with a state and comes back with it.   *)

Issued(s) == (states \ stale) \cup {s}

StartOauth ==
    /\ history.issued < MaxStates
    /\ states' = Issued(history.issued + 1)
    /\ stale' = {}
    /\ history' = [history EXCEPT !.issued = @ + 1]
    /\ UNCHANGED <<grant, req, docs, atlassian>>

StateTimesOut ==
    /\ \E s \in states \ stale : stale' = stale \cup {s}
    /\ UNCHANGED <<grant, states, req, docs, atlassian, history>>

Consumed(s) == states \ {s}

\* complete_jira_oauth up to the exchange; any number may be presented again
Callback(p) ==
    /\ MayStart(p, "connect")
    /\ \E s \in 1..history.issued :
        IF s \in states
          THEN /\ states' = Consumed(s) /\ Started
               /\ stale' = stale \ {s}
               /\ req' = [req EXCEPT ![p] = IF s \in stale THEN Idle
                              ELSE [op |-> "connect", at |-> "exchange"]]
          ELSE UNCHANGED <<states, stale, req, history>>
    /\ UNCHANGED <<grant, docs, atlassian>>

\* exchange_code and accessible-resources: a consent of this person, here
\* with the sites it reaches; no site at all stores nothing.
Exchange(p) ==
    /\ req[p].op = "connect" /\ req[p].at = "exchange"
    /\ Len(pairs) < MaxPairs
    /\ \E sites \in SUBSET Sites, timed \in BOOLEAN :
        /\ consents' = Append(consents, sites)
        /\ pairs' = Append(pairs, Len(consents) + 1)
        /\ req' = [req EXCEPT ![p] = IF sites = {} THEN Idle
                     ELSE [op |-> "connect", at |-> "save", pair |-> Len(pairs) + 1,
                           timed |-> timed, sites |-> sites]]
    /\ UNCHANGED <<grant, states, stale, docs, spent, expired, revoked, history>>

ExchangeFails(p) ==
    /\ req[p].op = "connect" /\ req[p].at = "exchange"
    /\ Trouble /\ End(p)
    /\ UNCHANGED <<grant, states, stale, docs, atlassian>>

OnlySite(sites) == IF Cardinality(sites) = 1 THEN CHOOSE s \in sites : TRUE ELSE None

Pair(pair, timed) == [access |-> pair, refresh |-> pair, timed |-> timed, reauth |-> FALSE,
                      site |-> None, keys |-> {}, id |-> 0]

\* Mutant of Reconnected: the selection survives although the site changes
ReconnectedKeepsKeys(g, pair, timed, sites, fresh) ==
    [Pair(pair, timed) EXCEPT !.site = IF g # None /\ g.site \in sites THEN g.site ELSE OnlySite(sites),
                              !.keys = IF g # None THEN g.keys ELSE {},
                              !.id = IF g # None THEN g.id ELSE fresh]

\* The grant a callback stores over the existing one
Reconnected(g, pair, timed, sites, fresh) ==
    LET kept == g # None /\ g.site \in sites
    IN  [Pair(pair, timed) EXCEPT !.site = IF kept THEN g.site ELSE OnlySite(sites),
                                  !.keys = IF kept THEN g.keys ELSE {},
                                  !.id = IF g # None THEN g.id ELSE fresh]

SaveConnection(p) ==
    /\ req[p].op = "connect" /\ req[p].at = "save"
    /\ Store(Reconnected(grant, req[p].pair, req[p].timed, req[p].sites, Len(consents)))
    /\ End(p)
    /\ UNCHANGED <<states, stale, docs, atlassian, history>>

-----------------------------------------------------------------------------
(* Requests that call Jira with the stored token.                          *)

\* The token of a timed pair that ran out is renewed before the call
FirstStep(g) == IF g.timed /\ g.access \in expired THEN "renew" ELSE "call"

Begin(p, op, arg) ==
    /\ MayStart(p, op) /\ Admits(op) /\ Started
    /\ req' = [req EXCEPT ![p] =
                 [op |-> op, arg |-> arg, snap |-> grant, access |-> grant.access,
                  refresh |-> grant.refresh, again |-> FALSE,
                  at |-> IF op = "disconnect" \/ (op = "select" /\ arg = {})
                           THEN "save" ELSE FirstStep(grant)]]
    /\ UNCHANGED <<grant, states, stale, docs, atlassian>>

ListSites(p) == Begin(p, "sites", None)
ListProjects(p) == Begin(p, "projects", None)
PutSite(p) == \E s \in Sites : Begin(p, "site", s)
PutSelection(p) == \E keys \in SUBSET Keys : Begin(p, "select", keys)
SyncJira(p) == Begin(p, "sync", None)
Disconnect(p) == Begin(p, "disconnect", None)

\* Mutant of Sends: no look at what another request stored meanwhile
SendsSnapshot(g, r) == {r}

\* The refresh token a rotation sends: none if the stored pair is another one
Sends(g, r) == IF g.refresh # r /\ g.access # 0 THEN {} ELSE {g.refresh}

TakesPair(p, a, r) ==
    req' = [req EXCEPT ![p].access = a, ![p].refresh = r,
                       ![p].again = (@ \/ req[p].at = "renew_again"), ![p].at = "call"]

Renewing(p) == req[p].at \in {"renew", "renew_again"}

\* _rotate: the stored grant is gone, marked, or holds another pair
RotateNotNeeded(p) ==
    /\ Renewing(p)
    /\ IF Connected /\ ~grant.reauth
         THEN Sends(grant, req[p].refresh) = {} /\ TakesPair(p, grant.access, grant.refresh)
         ELSE End(p)
    /\ UNCHANGED <<grant, states, stale, docs, atlassian, history>>

Rotates(p) == /\ Renewing(p) /\ Connected /\ ~grant.reauth
              /\ Sends(grant, req[p].refresh) # {}

Sent(p) == CHOOSE r \in Sends(grant, req[p].refresh) : TRUE

\* The refresh token is missing, or Atlassian refuses it (invalid_grant)
RotateRefused(p) ==
    /\ Rotates(p) /\ ~Refreshable(Sent(p))
    /\ Store(WithoutTokens(grant))
    /\ history' = [history EXCEPT !.replayed = @ \cup ({Sent(p)} \cap spent)]
    /\ End(p)
    /\ UNCHANGED <<states, stale, docs, atlassian>>

RotateOk(p) ==
    /\ Rotates(p) /\ Refreshable(Sent(p)) /\ Len(pairs) < MaxPairs
    /\ \E timed \in BOOLEAN : Store(
         [grant EXCEPT !.access = Len(pairs) + 1, !.refresh = Len(pairs) + 1, !.timed = timed])
    /\ pairs' = Append(pairs, pairs[Sent(p)])
    /\ spent' = spent \cup {Sent(p)}
    /\ TakesPair(p, Len(pairs) + 1, Len(pairs) + 1)
    /\ UNCHANGED <<states, stale, docs, expired, consents, revoked, history>>

\* The answer carries no refresh token: nothing to renew with is left
RotateWithoutRefresh(p) ==
    /\ Rotates(p) /\ Refreshable(Sent(p)) /\ Trouble
    /\ spent' = spent \cup {Sent(p)}
    /\ Store(WithoutTokens(grant))
    /\ End(p)
    /\ UNCHANGED <<states, stale, docs, pairs, expired, consents, revoked>>

\* The request, or its answer, is lost: the token may be used up all the same
RotateLost(p) ==
    /\ Rotates(p) /\ Refreshable(Sent(p)) /\ history.troubles < MaxTroubles
    /\ \E arrived \in BOOLEAN :
        LET gone == IF arrived THEN {Sent(p)} ELSE {}
        IN  /\ spent' = spent \cup gone
            /\ history' = [history EXCEPT !.troubles = @ + 1, !.lost = @ \cup gone]
    /\ End(p)
    /\ UNCHANGED <<grant, states, stale, docs, pairs, expired, consents, revoked>>

-----------------------------------------------------------------------------
(* The call itself, once the request holds an access token.                *)

Calling(p) == req[p].at = "call"

\* 401, or 403, which may also mean that the person lacks a permission; the
\* client and the gateway map both to the same error
CallRefused(p) ==
    /\ Calling(p) /\ (~Works(req[p].access) \/ history.barred)
    /\ IF req[p].again
         THEN /\ Store(Unauthorized)
              /\ End(p)
         ELSE Goto(p, "renew_again") /\ UNCHANGED grant
    /\ UNCHANGED <<states, stale, docs, atlassian, history>>

CallFails(p) ==
    /\ Calling(p) /\ Trouble /\ End(p)
    /\ UNCHANGED <<grant, states, stale, docs, atlassian>>

Lists(p) ==
    /\ Calling(p) /\ Works(req[p].access) /\ req[p].op \in Listings
    /\ End(p)
    /\ UNCHANGED <<grant, states, stale, docs, atlassian, history>>

ChecksSite(p) ==
    /\ Calling(p) /\ Works(req[p].access) /\ req[p].op = "site"
    /\ IF req[p].arg \in Reach(req[p].access) THEN Goto(p, "save") ELSE End(p)
    /\ UNCHANGED <<grant, states, stale, docs, atlassian, history>>

ChecksProjects(p) ==
    /\ Calling(p) /\ Works(req[p].access) /\ req[p].op = "select"
    /\ IF req[p].snap.site \in Reach(req[p].access) /\ req[p].arg \subseteq Has[req[p].snap.site]
         THEN Goto(p, "save") ELSE End(p)
    /\ UNCHANGED <<grant, states, stale, docs, atlassian, history>>

Row(id, site, key) == [id |-> id, site |-> site, key |-> key]

\* The rows after a synchronization of one site, for one connector
Synced(g) ==
    {d \in docs : d.id # g.id \/ d.site # g.site} \cup {Row(g.id, g.site, k) : k \in g.keys}

\* _run of sync_jira_oauth: a site out of reach marks the grant
Synchronizes(p) ==
    /\ Calling(p) /\ Works(req[p].access) /\ req[p].op = "sync"
    /\ IF req[p].snap.site \in Reach(req[p].access)
         THEN docs' = Synced(req[p].snap) /\ UNCHANGED grant
         ELSE /\ Store(Unauthorized)
              /\ UNCHANGED docs
    /\ End(p)
    /\ UNCHANGED <<states, stale, atlassian, history>>

-----------------------------------------------------------------------------
(* Saving what was checked, and removing the rows it leaves without owner. *)

PurgeOr(p, rows) ==
    req' = [req EXCEPT ![p] = IF rows = {} THEN Idle
                              ELSE [op |-> req[p].op, at |-> "purge", rows |-> rows]]

OfConnector(id) == {Row(id, s, k) : s \in Sites, k \in Keys}

Saving(p, op) == req[p].at = "save" /\ req[p].op = op

SaveSite(p) ==
    /\ Saving(p, "site")
    /\ LET snap == req[p].snap  site == req[p].arg
       IN  IF Connected
             THEN /\ Store([grant EXCEPT !.site = site,
                                         !.keys = IF grant.site = site THEN @ ELSE {}])
                  /\ PurgeOr(p, IF snap.site \in Sites \ {site} THEN OfConnector(snap.id) ELSE {})
             ELSE End(p) /\ UNCHANGED grant
    /\ UNCHANGED <<states, stale, docs, atlassian, history>>

SaveSelection(p) ==
    /\ Saving(p, "select")
    /\ LET snap == req[p].snap
       IN  IF Connected /\ ~grant.reauth
             THEN /\ Store([grant EXCEPT !.keys = req[p].arg])
                  /\ PurgeOr(p, {Row(snap.id, snap.site, k) : k \in snap.keys \ req[p].arg})
             ELSE End(p) /\ UNCHANGED grant
    /\ UNCHANGED <<states, stale, docs, atlassian, history>>

SaveDisconnect(p) ==
    /\ Saving(p, "disconnect")
    /\ Store(None)
    /\ PurgeOr(p, OfConnector(req[p].snap.id))
    /\ UNCHANGED <<states, stale, docs, atlassian, history>>

PurgeRows(p) ==
    /\ req[p].at = "purge"
    /\ docs' = docs \ req[p].rows
    /\ End(p)
    /\ UNCHANGED <<grant, states, stale, atlassian, history>>

\* A store error ends the purge at some row; the grant is already changed
PurgeFails(p) ==
    /\ req[p].at = "purge" /\ docs \cap req[p].rows # {}
    /\ history.troubles < MaxTroubles
    /\ history' = [history EXCEPT !.troubles = @ + 1, !.unpurged = TRUE]
    /\ \E rows \in SUBSET (docs \cap req[p].rows) :
        rows # docs \cap req[p].rows /\ docs' = docs \ rows
    /\ End(p)
    /\ UNCHANGED <<grant, states, stale, atlassian>>

-----------------------------------------------------------------------------
(* Time and the person at Atlassian.  A pair that was issued during a      *)
(* request outlives it (an access token lives an hour); one that nobody    *)
(* holds any more expires unseen.                                          *)

Held(a) == \/ Connected /\ grant.access = a
           \/ \E p \in Requests : "snap" \in DOMAIN req[p] /\ a \in {req[p].snap.access, req[p].access}

TokenExpires ==
    /\ \E a \in 1..Len(pairs) \ expired :
        /\ Held(a)
        /\ \A p \in Requests : "snap" \in DOMAIN req[p] => a <= req[p].snap.access
        /\ expired' = expired \cup {a}
    /\ UNCHANGED <<grant, states, stale, req, docs, pairs, spent, consents, revoked, history>>

ConsentWithdrawn ==
    /\ Trouble
    /\ \E c \in 1..Len(consents) \ revoked : revoked' = revoked \cup {c}
    /\ UNCHANGED <<grant, states, stale, req, docs, pairs, spent, expired, consents>>

PermissionLost ==
    /\ ~history.barred /\ history.troubles < MaxTroubles
    /\ history' = [history EXCEPT !.troubles = @ + 1, !.barred = TRUE]
    /\ UNCHANGED <<grant, states, stale, req, docs, atlassian>>

SiteLost ==
    /\ Trouble
    /\ \E c \in 1..Len(consents) : \E s \in consents[c] :
        consents' = [consents EXCEPT ![c] = @ \ {s}]
    /\ UNCHANGED <<grant, states, stale, req, docs, pairs, spent, expired, revoked>>

Steps(p) ==
    \/ Callback(p) \/ Exchange(p) \/ ExchangeFails(p) \/ SaveConnection(p)
    \/ ListSites(p) \/ ListProjects(p) \/ PutSite(p) \/ PutSelection(p)
    \/ SyncJira(p) \/ Disconnect(p)
    \/ RotateNotNeeded(p) \/ RotateRefused(p) \/ RotateOk(p)
    \/ RotateWithoutRefresh(p) \/ RotateLost(p)
    \/ CallRefused(p) \/ CallFails(p) \/ Lists(p) \/ ChecksSite(p)
    \/ ChecksProjects(p) \/ Synchronizes(p)
    \/ SaveSite(p) \/ SaveSelection(p) \/ SaveDisconnect(p)
    \/ PurgeRows(p) \/ PurgeFails(p)

World == StateTimesOut \/ TokenExpires \/ ConsentWithdrawn \/ PermissionLost \/ SiteLost

Next == StartOauth \/ World \/ \E p \in Requests : Steps(p)

Spec == Init /\ [][Next]_vars

-----------------------------------------------------------------------------
\* Every variable holds what the code and Atlassian can put there.
TypeOK ==
    /\ Connected => /\ grant.access \in 0..Len(pairs) /\ grant.refresh \in 0..Len(pairs)
                    /\ grant.site \in Sites \cup {None} /\ grant.keys \subseteq Keys
                    /\ grant.id \in 1..Len(consents)
                    /\ grant.timed \in BOOLEAN /\ grant.reauth = (grant.access = 0)
    /\ stale \subseteq states /\ states \subseteq 1..history.issued
    /\ docs \subseteq UNION {OfConnector(i) : i \in 1..Len(consents)}
    /\ spent \cup expired \subseteq 1..Len(pairs) /\ revoked \subseteq 1..Len(consents)

\* A refresh token is sent a second time only when the answer to the first
\* was lost: requests that renew at the same time share one rotation (_rotate).
NoReplay == history.replayed \subseteq history.lost

\* A grant loses its tokens only when they are of no use any more, when the
\* selected site left its reach, or through a request that began under an
\* earlier consent; or when Atlassian denies a call for want of a permission,
\* which looks like a dead token, and then only after the refused request has
\* renewed the pair once or could not (_rotate, _mark_reauth).
LiveGrantKept ==
    [][\A p \in Requests :
          LET wiped == Connected /\ ~grant.reauth /\ grant' # None /\ grant'.reauth
              own == req[p] # Idle /\ req[p].op # "connect" /\ req'[p] = Idle
                     /\ pairs[req[p].snap.access] = pairs[grant.access]
          IN  wiped /\ own =>
                \/ /\ ~Works(grant.access)
                   /\ ~Refreshable(grant.refresh) \/ grant.refresh \in spent'
                \/ req[p].op = "sync" /\ req[p].snap.site \notin Reach(req[p].access)
                \/ history.barred /\ (req[p].again \/ req[p].at = "renew_again")]_vars

\* The selected projects exist on the selected site, whatever was selected,
\* switched and reconnected before (complete_jira_oauth, put_jira_site).
SelectionOnSite ==
    Connected /\ grant.site # None => grant.keys \subseteq Has[grant.site]

\* With no request under way and no purge that failed, every Jira row belongs
\* to the stored connection: nothing outlives a disconnect, and no reconnect
\* or lost token separates rows from the record that can still remove them.
RowsOwned ==
    (\A p \in Requests : req[p] = Idle) /\ ~history.unpurged =>
        \A d \in docs : Connected /\ d.id = grant.id
=============================================================================
