---------------------------- MODULE JiraDataCenter ---------------------------
(***************************************************************************)
(* The Jira Data Center connection: the token is in the environment, so    *)
(* what is stored is the identity of the server, the selected projects and *)
(* whether the token was refused (composition/jira/data_center.py,         *)
(* infrastructure/connectors/jira/data_center_state.py).  Requests run one *)
(* at a time; the server behind the configured address may become another  *)
(* one, and the token may stop working and work again.                     *)
(***************************************************************************)
EXTENDS Integers, FiniteSets

CONSTANTS
    Servers,      \* the server identities behind the configured address
    Keys,         \* project keys; every server has them all
    None,         \* Python's None
    MaxRequests,  \* bound on the requests
    MaxTroubles   \* bound on failed calls and failed purges

VARIABLES
    state,     \* the stored JiraDataCenterState, or None
    step,      \* what the running request does next
    rows,      \* the Jira rows of the catalog and the vector store
    server,    \* who answers at the configured address
    tokenOk,   \* whether it accepts the token
    history    \* counters, and whether a purge failed

vars == <<state, step, rows, server, tokenOk, history>>

Blank == [id |-> 0, server |-> None, keys |-> {}, rejected |-> FALSE]
Idle == [at |-> "idle"]
Row(id, s, k) == [id |-> id, server |-> s, key |-> k]

\* `current or JiraDataCenterState()`
Current == IF state = None THEN Blank ELSE state

Init ==
    /\ state = None /\ step = Idle /\ rows = {}
    /\ server \in Servers /\ tokenOk \in BOOLEAN
    /\ history = [started |-> 0, troubles |-> 0, ids |-> 0, unpurged |-> FALSE]

Trouble == /\ history.troubles < MaxTroubles
           /\ history' = [history EXCEPT !.troubles = @ + 1]

MayStart == step = Idle /\ history.started < MaxRequests
Started == history' = [history EXCEPT !.started = @ + 1]

\* JiraDataCenterStateStore: the file is written whole, or removed
Store(s) == state' = s

ConnectionState ==
    IF Current.rejected THEN "reauthorization_required"
    ELSE IF Current.keys = {} THEN "setup_required" ELSE "ready"

\* authenticated_call: a refusal is recorded, a success takes it back
Refusal == Store([Current EXCEPT !.rejected = TRUE])
Accepted == IF state # None THEN [state EXCEPT !.rejected = FALSE] ELSE None

-----------------------------------------------------------------------------
ListProjects ==
    /\ MayStart /\ Started
    /\ IF tokenOk THEN Store(Accepted) ELSE Refusal
    /\ UNCHANGED <<step, rows, server, tokenOk>>

\* put_selection: the identity of the server is read unless all is deselected
PutSelection ==
    /\ MayStart /\ Started
    /\ \E keys \in SUBSET Keys :
        IF keys # {} /\ ~tokenOk
          THEN Refusal /\ UNCHANGED step
          ELSE /\ Store(IF keys = {} THEN state ELSE Accepted)
               /\ step' = [at |-> "select", previous |-> Current, keys |-> keys,
                           server |-> IF keys = {} THEN Current.server ELSE server]
    /\ UNCHANGED <<rows, server, tokenOk>>

WithId == IF Current.id # 0 THEN Current.id ELSE history.ids + 1

\* What a saved selection leaves without owner
Dropped(previous, to, keys) ==
    {r \in rows : /\ r.id = previous.id /\ previous.server # None
                  /\ \/ to # None /\ previous.server # to
                     \/ r.server = previous.server /\ r.key \in previous.keys \ keys}

PurgeOr(gone) == step' = IF gone = {} THEN Idle ELSE [at |-> "purge", rows |-> gone]

SaveSelection ==
    /\ step.at = "select"
    /\ Store([Current EXCEPT !.id = WithId, !.server = step.server, !.keys = step.keys])
    /\ history' = [history EXCEPT !.ids = @ + IF Current.id = 0 THEN 1 ELSE 0]
    /\ PurgeOr(Dropped(step.previous, step.server, step.keys))
    /\ UNCHANGED <<rows, server, tokenOk>>

\* sync, up to the identity check
SyncStarts ==
    /\ MayStart /\ Started /\ state # None /\ Current.keys # {}
    /\ IF ~tokenOk THEN Refusal /\ UNCHANGED step
       ELSE IF state.server # server
         THEN /\ Store([state EXCEPT !.server = server, !.keys = {}, !.rejected = FALSE])
              /\ PurgeOr({r \in rows : r.id = state.id})
         ELSE Store(Accepted) /\ step' = [at |-> "sync", taken |-> state]
    /\ UNCHANGED <<rows, server, tokenOk>>

\* The synchronization itself (ConnectorSync has its inside)
SyncRuns ==
    /\ step.at = "sync"
    /\ step' = Idle
    /\ IF tokenOk
         THEN /\ rows' = {r \in rows : r.id # step.taken.id \/ r.server # step.taken.server}
                         \cup {Row(step.taken.id, step.taken.server, k) : k \in step.taken.keys}
              /\ Store(Accepted)
         ELSE Refusal /\ UNCHANGED rows
    /\ UNCHANGED <<server, tokenOk, history>>

SyncFails ==
    /\ step.at = "sync" /\ Trouble
    /\ step' = Idle
    /\ UNCHANGED <<state, rows, server, tokenOk>>

Disconnect ==
    /\ MayStart /\ Started /\ state # None
    /\ Store(None)
    /\ PurgeOr({r \in rows : r.id = state.id})
    /\ UNCHANGED <<rows, server, tokenOk>>

PurgeRows ==
    /\ step.at = "purge"
    /\ rows' = rows \ step.rows /\ step' = Idle
    /\ UNCHANGED <<state, server, tokenOk, history>>

PurgeFails ==
    /\ step.at = "purge" /\ history.troubles < MaxTroubles
    /\ history' = [history EXCEPT !.troubles = @ + 1, !.unpurged = TRUE]
    /\ \E kept \in SUBSET step.rows : kept # {} /\ rows' = rows \ (step.rows \ kept)
    /\ step' = Idle
    /\ UNCHANGED <<state, server, tokenOk>>

ServerChanges ==
    /\ step = Idle /\ \E s \in Servers \ {server} : server' = s
    /\ UNCHANGED <<state, step, rows, tokenOk, history>>

TokenChanges ==
    /\ tokenOk' = ~tokenOk
    /\ UNCHANGED <<state, step, rows, server, history>>

Next ==
    \/ ListProjects \/ PutSelection \/ SaveSelection \/ SyncStarts \/ SyncRuns \/ SyncFails
    \/ Disconnect \/ PurgeRows \/ PurgeFails \/ ServerChanges \/ TokenChanges

Spec == Init /\ [][Next]_vars

-----------------------------------------------------------------------------
\* With no request under way and no purge that failed, the rows are of the
\* stored connector, of the server it knows and of the projects it selects:
\* documents of one server never stand beside a selection of another.
RowsOfServer ==
    step = Idle /\ ~history.unpurged =>
        \A r \in rows : /\ state # None /\ r.id = state.id
                        /\ r.server = state.server /\ r.key \in state.keys
=============================================================================
