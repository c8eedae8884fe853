----------------------------- MODULE DriveGrant ------------------------------
(***************************************************************************)
(* The Google Drive connection of the hub: the stored user grant with its  *)
(* selected folders and files, the requests that use it and the rows       *)
(* synchronized under it (composition/google_drive/{connection,selection,  *)
(* sync}.py and infrastructure/connectors/google_drive/oauth.py).          *)
(*                                                                         *)
(* The refresh token of a grant never rotates; every consent issues a new  *)
(* one.  Requests that change the connection run one at a time, in their   *)
(* steps; the pickers overlap everything.                                  *)
(***************************************************************************)
EXTENDS Integers, FiniteSets

CONSTANTS
    Accounts,     \* Google accounts of the person
    Files,        \* Drive files
    Folders,      \* Drive folders
    Inside,       \* the files below each folder
    Has,          \* the folders and files each account can read
    None,         \* Python's None
    MaxTokens,    \* bound on the consents
    MaxTroubles,  \* bound on failed calls and failed purges
    MaxRequests   \* bound on the requests started

VARIABLES
    grant,     \* the stored GoogleOAuthConnection, or None
    states,    \* whether an issued state token waits for its callback
    step,      \* what the running change does next
    browsing,  \* the tokens that pickers under way took along
    rows,      \* the Drive rows of the catalog and the vector store
    dead,      \* Google: the refresh tokens it refuses
    history    \* counters, and what the properties tell apart

vars == <<grant, states, step, browsing, rows, dead, history>>

Idle == [at |-> "idle"]
Usable == IF grant = None THEN FALSE ELSE ~grant.reauth
Selected(g) == IF g = None THEN {} ELSE g.folders \cup g.files
Listing(folders, files) == files \cup UNION {Inside[d] : d \in folders}

\* google_drive_status
ConnectionState ==
    IF grant = None THEN "disconnected"
    ELSE IF grant.reauth THEN "reauthorization_required"
    ELSE IF Selected(grant) = {} THEN "setup_required" ELSE "ready"

Init ==
    /\ grant = None /\ states = FALSE /\ step = Idle /\ browsing = {}
    /\ rows = {} /\ dead = {}
    /\ history = [started |-> 0, troubles |-> 0, tokens |-> 0, unpurged |-> FALSE,
                  unproved |-> FALSE, waiting |-> {}]

Trouble == history.troubles < MaxTroubles
Troubled == [history EXCEPT !.troubles = @ + 1]
MayStart == step = Idle /\ history.started < MaxRequests
Started == [history EXCEPT !.started = @ + 1]

\* GoogleOAuthConnectionStore: the file is written whole under its lock, or removed
Store(g) == grant' = g

\* mark_drive_reauth: whatever grant is stored by now
Marked == IF grant = None THEN None ELSE [grant EXCEPT !.reauth = TRUE]

-----------------------------------------------------------------------------
Issued == states' = TRUE
Consumed == states /\ states' = FALSE

StartOauth ==
    /\ step = Idle /\ ~states /\ history.tokens < MaxTokens
    /\ Issued
    /\ UNCHANGED <<grant, step, browsing, rows, dead, history>>

\* Its time is over: it is refused when it comes, and swept at the next issue
StateTimesOut ==
    /\ states /\ states' = FALSE
    /\ UNCHANGED <<grant, step, browsing, rows, dead, history>>

\* The callback: the state token has one use, but a denied consent keeps it
Callback ==
    /\ MayStart /\ Consumed
    /\ step' = [at |-> "exchange"] /\ history' = Started
    /\ UNCHANGED <<grant, browsing, rows, dead>>

\* The code is exchanged and the account's address is asked for
Exchange ==
    /\ step.at = "exchange"
    /\ \E account \in Accounts, answered \in BOOLEAN, writes \in BOOLEAN :
        step' = [at |-> "connect", account |-> account, token |-> history.tokens + 1,
                 email |-> IF answered THEN account ELSE None, exports |-> writes]
    /\ history' = [history EXCEPT !.tokens = @ + 1]
    /\ UNCHANGED <<grant, states, browsing, rows, dead>>

ExchangeFails ==
    /\ step.at = "exchange" /\ Trouble
    /\ step' = Idle /\ history' = Troubled
    /\ UNCHANGED <<grant, states, browsing, rows, dead>>

KeepsScope(existing, email) ==
    IF existing = None \/ email = None THEN FALSE ELSE existing.email = email

\* _next of the callback: the selection outlives a reconnect of its account
Reconnected(existing, s) ==
    LET keep == KeepsScope(existing, s.email) IN
    [account |-> s.account, token |-> s.token, reauth |-> FALSE, exports |-> s.exports,
     email |-> IF s.email = None /\ existing # None THEN existing.email ELSE s.email,
     folders |-> IF keep THEN existing.folders ELSE {},
     files |-> IF keep THEN existing.files ELSE {}]

\* No row is removed here: those of a dropped selection wait for the next sync
SaveConnection ==
    /\ step.at = "connect"
    /\ Store(Reconnected(grant, step))
    /\ history' = [history EXCEPT
                     !.unproved = @ \/ step.email = None,
                     !.waiting = @ \cup (IF Selected(grant') = {} THEN rows ELSE {})]
    /\ step' = Idle
    /\ UNCHANGED <<states, browsing, rows, dead>>

-----------------------------------------------------------------------------
\* A request of a picker takes the token along
Calls == /\ history.started < MaxRequests
         /\ browsing' = browsing \cup {grant.token} /\ history' = Started
         /\ UNCHANGED <<grant, states, step, rows, dead>>

Browse == Usable /\ Calls

\* A grant that may not write refuses here, unchanged
CreateFolder == (IF Usable THEN grant.exports ELSE FALSE) /\ Calls

\* Google answers; a refusal marks the grant
BrowseAnswered ==
    \E token \in browsing :
        /\ browsing' = browsing \ {token}
        /\ Store(IF token \in dead THEN Marked ELSE grant)
        /\ UNCHANGED <<states, step, rows, dead, history>>

\* put_google_drive_selection takes the grant and the files it will replace
PutSelection ==
    /\ MayStart /\ Usable
    /\ \E folders \in SUBSET Folders, files \in SUBSET Files :
        step' = [at |-> "validate", account |-> grant.account, token |-> grant.token,
                 folders |-> folders, files |-> files, previous |-> grant.files]
    /\ history' = Started
    /\ UNCHANGED <<grant, states, browsing, rows, dead>>

\* Every item is looked up, unless there is none; a refused token wins over
\* an item that cannot be read
Validate ==
    /\ step.at = "validate"
    /\ LET items == step.folders \cup step.files
       IN IF items # {} /\ step.token \in dead
            THEN Store(Marked) /\ step' = Idle
            ELSE /\ step' = IF items \subseteq Has[step.account]
                              THEN [step EXCEPT !.at = "save"] ELSE Idle
                 /\ UNCHANGED grant
    /\ UNCHANGED <<states, browsing, rows, dead, history>>

Purge(gone) == IF gone = {} THEN Idle ELSE [at |-> "purge", gone |-> gone]

\* Mutant of Dropped: an emptied selection drops its files only
Dropped_FilesOnly(s) == rows \cap (s.previous \ s.files)

\* What a saved selection removes at once: everything, or the files given up
Dropped(s) ==
    IF s.folders \cup s.files = {} THEN rows ELSE rows \cap (s.previous \ s.files)

\* _apply: the grant may have gone or been refused since it was taken
SaveSelection ==
    /\ step.at = "save"
    /\ IF ~Usable THEN step' = Idle /\ UNCHANGED <<grant, history>>
       ELSE /\ Store([grant EXCEPT !.folders = step.folders, !.files = step.files])
            /\ step' = Purge(Dropped(step))
            /\ history' = [history EXCEPT !.waiting =
                  IF step.folders \cup step.files = {} THEN {}
                  ELSE @ \cup (rows \cap Listing(grant.folders, {}))]
    /\ UNCHANGED <<states, browsing, rows, dead>>

PurgeRows ==
    /\ step.at = "purge"
    /\ rows' = rows \ step.gone /\ step' = Idle
    /\ UNCHANGED <<grant, states, browsing, dead, history>>

PurgeFails ==
    /\ step.at = "purge" /\ Trouble
    /\ \E kept \in SUBSET step.gone : kept # {} /\ rows' = rows \ (step.gone \ kept)
    /\ step' = Idle /\ history' = [Troubled EXCEPT !.unpurged = TRUE]
    /\ UNCHANGED <<grant, states, browsing, dead>>

-----------------------------------------------------------------------------
\* sync_google_drive_oauth takes the selection
SyncStarts ==
    /\ MayStart /\ Usable /\ Selected(grant) # {}
    /\ step' = [at |-> "sync", account |-> grant.account, token |-> grant.token,
                folders |-> grant.folders, files |-> grant.files]
    /\ history' = Started
    /\ UNCHANGED <<grant, states, browsing, rows, dead>>

\* The synchronization (ConnectorSync has its inside): a complete listing
\* decides which rows stay, a document that fails keeps what it had
SyncRuns ==
    /\ step.at = "sync" /\ step.token \notin dead
    /\ step.folders \cup step.files \subseteq Has[step.account]
    /\ LET listed == Listing(step.folders, step.files)
       IN \E failed \in SUBSET listed :
            /\ failed # {} => Trouble
            /\ rows' = (rows \cap listed) \cup (listed \ failed)
            /\ history' = [history EXCEPT !.waiting = {}, !.unpurged = FALSE,
                             !.troubles = @ + IF failed = {} THEN 0 ELSE 1]
    /\ step' = Idle
    /\ UNCHANGED <<grant, states, browsing, dead>>

\* A refused token marks the grant; a root that cannot be read stops the run
SyncStops ==
    /\ step.at = "sync"
    /\ \/ step.token \in dead /\ Store(Marked)
       \/ /\ ~(step.folders \cup step.files \subseteq Has[step.account])
          /\ UNCHANGED grant
    /\ step' = Idle
    /\ UNCHANGED <<states, browsing, rows, dead, history>>

\* disconnect: Google may not hear of the revocation
Disconnect ==
    /\ MayStart /\ grant # None
    /\ Store(None) /\ dead' \in {dead, dead \cup {grant.token}}
    /\ step' = Purge(rows)
    /\ history' = [Started EXCEPT !.waiting = {}, !.unproved = FALSE]
    /\ UNCHANGED <<states, browsing, rows>>

\* A document is deleted in the hub: its row goes, then its root
DocumentDeleted ==
    /\ MayStart /\ history' = Started
    /\ \E f \in rows : rows' = rows \ {f} /\ step' = [at |-> "drop", file |-> f]
    /\ UNCHANGED <<grant, states, browsing, dead>>

DropRoot ==
    /\ step.at = "drop"
    /\ Store(IF grant = None THEN None ELSE [grant EXCEPT !.files = @ \ {step.file}])
    /\ step' = Idle
    /\ UNCHANGED <<states, browsing, rows, dead, history>>

\* The tokens somebody here holds: others are refused unseen
Held == browsing \cup (IF grant = None THEN {} ELSE {grant.token})
                 \cup (IF "token" \in DOMAIN step THEN {step.token} ELSE {})

TokenDies ==
    /\ \E token \in Held \ dead : dead' = dead \cup {token}
    /\ UNCHANGED <<grant, states, step, browsing, rows, history>>

Next ==
    \/ StartOauth \/ StateTimesOut \/ Callback \/ Exchange \/ ExchangeFails \/ SaveConnection
    \/ Browse \/ CreateFolder \/ BrowseAnswered \/ PutSelection \/ Validate \/ SaveSelection
    \/ PurgeRows \/ PurgeFails \/ SyncStarts \/ SyncRuns \/ SyncStops
    \/ Disconnect \/ DocumentDeleted \/ DropRoot \/ TokenDies

Spec == Init /\ [][Next]_vars

-----------------------------------------------------------------------------
\* With no change under way and no purge that failed since the last complete
\* listing, every Drive row is of a selected file, below a selected folder, or
\* waits for the next listing: it was below a folder given up, or came with a
\* selection that a reconnect reset.  A disconnected hub has none.
DriveRowsSelected ==
    step = Idle /\ ~history.unpurged =>
        CASE ConnectionState = "disconnected"   -> rows = {}
          [] ConnectionState = "setup_required" -> rows \subseteq history.waiting
          [] OTHER -> rows \subseteq Listing(grant.folders, grant.files) \cup history.waiting

\* While every account proved its address, the connected account can read what
\* is selected: reconnecting with another account does not inherit a selection.
SelectionReadable ==
    grant # None /\ ~history.unproved => Selected(grant) \subseteq Has[grant.account]
=============================================================================
