-------------------------- MODULE Connections_proofs --------------------------
(***************************************************************************)
(* The connections of the hub, for every number of requests, sites, token  *)
(* pairs, selections and troubles.  Of Jira Cloud: type correctness, the   *)
(* single use of refresh tokens, the selection against the selected site,  *)
(* the rows against the record that can remove them, and that no request   *)
(* takes a usable grant away.  Of GitHub, Google Drive and Data Center:    *)
(* the rows against the stored selection.  Together: every row has a       *)
(* record that accounts for it, and every selection an account.            *)
(***************************************************************************)
EXTENDS Connections, SequenceTheorems, FiniteSetTheorems, TLAPS

-----------------------------------------------------------------------------
(* Jira Cloud.                                                             *)


(* The requests that change the connection.                                *)
Changes == {"site", "select", "sync", "disconnect"}
Exclusive == Changes \cup {"connect"}

(* What a stored grant can be with n pairs issued under m consents.        *)
Grants(n, m) ==
    {g \in Connections : /\ g.access \in 0..n /\ g.refresh \in 0..n /\ g.id \in 1..m
                         /\ g.reauth = (g.access = 0)}

Rows(m) == UNION {OfConnector(i) : i \in 1..m}

(* What a request holds: nothing, a code to exchange, the answer to it, a  *)
(* snapshot of the grant with a token pair, or the rows it still has to    *)
(* remove.                                                                 *)
Exchanging == [op |-> "connect", at |-> "exchange"]
Connecting(n) == [op : {"connect"}, at : {"save"}, pair : 1..n, timed : BOOLEAN,
                  sites : SUBSET Sites]
Arguments == Sites \cup {None} \cup SUBSET Keys
Begun(n, m) == [op : Listings \cup Changes, arg : Arguments, snap : Grants(n, m),
                access : 0..n, refresh : 0..n, again : BOOLEAN,
                at : {"renew", "renew_again", "call", "save"}]
Purging(m) == [op : Changes, at : {"purge"}, rows : SUBSET Rows(m)]

Shapes(n, m) == {Idle, Exchanging} \cup Connecting(n) \cup Begun(n, m) \cup Purging(m)

Histories == [replayed : SUBSET Nat, lost : SUBSET Nat, unpurged : BOOLEAN,
              barred : BOOLEAN, troubles : Nat, started : Nat, issued : Nat]

Types ==
    /\ pairs \in Seq(Nat) /\ consents \in Seq(SUBSET Sites)
    /\ Len(pairs) # 0 => Len(consents) # 0
    /\ grant \in Grants(Len(pairs), Len(consents)) \cup {None}
    /\ req \in [Requests -> Shapes(Len(pairs), Len(consents))]
    /\ docs \subseteq Rows(Len(consents))
    /\ spent \subseteq 1..Len(pairs) /\ expired \subseteq 1..Len(pairs)
    /\ revoked \subseteq 1..Len(consents)
    /\ stale \subseteq states /\ states \subseteq 1..history.issued
    /\ history \in Histories

(* While a change is under way, every other request is a listing.          *)
Alone(f) ==
    \A p, q \in Requests :
        p # q /\ f[p].op \in Exclusive => f[q].op \in Listings \cup {None}

(* The pair a callback is about to store is nobody's yet.                  *)
FreshPair(r, g, used) ==
    r.op = "connect" /\ r.at = "save" =>
        r.pair \notin used /\ (g # None => g.refresh # r.pair)

(* The site, the selection and the id of the stored grant are those a      *)
(* change read when it began: nobody else touches them meanwhile.          *)
AtHome(r, g) ==
    r.op \in Changes /\ r.at # "purge" =>
        g # None /\ g.site = r.snap.site /\ g.keys = r.snap.keys /\ g.id = r.snap.id

(* What was checked when the request began, or by its call to Jira.        *)
Checked(r) ==
    r.at # "purge" =>
        /\ r.op = "site" => r.arg \in Sites
        /\ r.op \in {"select", "sync"} => r.snap.site \in Sites
        /\ r.op = "select" => r.arg \in SUBSET Keys
        /\ r.op = "select" /\ r.at = "save" => r.arg = {} \/ r.arg \subseteq Has[r.snap.site]

LocalOK(r, g, used) == FreshPair(r, g, used) /\ AtHome(r, g) /\ Checked(r)

(* A stored refresh token is used already only if the answer was lost.     *)
LossKnown(g, used, lost) ==
    g # None /\ g.access # 0 /\ g.refresh \in used => g.refresh \in lost

Owns(g, d) == g # None /\ d.id = g.id

(* A row belongs to the stored grant, or a purge under way removes it.     *)
Accounted(d, g, f) ==
    Owns(g, d) \/ \E p \in Requests : f[p].at = "purge" /\ d \in f[p].rows

RowsKept == ~history.unpurged => \A d \in docs : Accounted(d, grant, req)

LInv == Alone(req) /\ \A p \in Requests : LocalOK(req[p], grant, spent)

IInv ==
    /\ Types /\ LInv
    /\ LossKnown(grant, spent, history.lost) /\ NoReplay
    /\ SelectionOnSite /\ RowsKept

(* Only one request moves.                                                 *)
Moves(p) == req' = [req EXCEPT ![p] = req'[p]]

(* The stored grant stays, but for its tokens.                             *)
SameHome(g, h) ==
    /\ g = None => h = None
    /\ g # None => h # None /\ h.site = g.site /\ h.keys = g.keys /\ h.id = g.id

-----------------------------------------------------------------------------
(* Data.                                                                   *)

LEMMA NoneIs ==
  /\ None \notin Sites /\ None \notin Connections
  /\ None \notin Listings \cup Exclusive
  /\ Listings \cap Exclusive = {}
BY NoneAssumption DEF Listings, Exclusive, Changes

LEMMA GrantFields ==
  ASSUME NEW n \in Nat, NEW m \in Nat, NEW g \in Grants(n, m)
  PROVE  /\ g # None /\ g \in Connections
         /\ g.access \in 0..n /\ g.refresh \in 0..n /\ g.id \in 1..m
         /\ g.reauth = (g.access = 0) /\ g.timed \in BOOLEAN
         /\ g.site \in Sites \cup {None} /\ g.keys \in SUBSET Keys
<1>1. g \in Connections /\ g.access \in 0..n /\ g.refresh \in 0..n /\ g.id \in 1..m
      /\ g.reauth = (g.access = 0)
  BY DEF Grants
<1>2. g # None
  BY <1>1, NoneIs
<1>3. g.timed \in BOOLEAN /\ g.site \in Sites \cup {None} /\ g.keys \in SUBSET Keys
  BY <1>1 DEF Connections
<1>. QED  BY <1>1, <1>2, <1>3

LEMMA GrantGrows ==
  ASSUME NEW n \in Nat, NEW m \in Nat, NEW i \in Nat, NEW j \in Nat, n <= i, m <= j
  PROVE  Grants(n, m) \subseteq Grants(i, j)
BY DEF Grants

LEMMA RowsGrow ==
  ASSUME NEW m \in Nat, NEW j \in Nat, m <= j
  PROVE  Rows(m) \subseteq Rows(j)
BY DEF Rows

LEMMA RowOf ==
  ASSUME NEW m \in Nat, NEW i \in 1..m
  PROVE  /\ OfConnector(i) \subseteq Rows(m)
         /\ \A s \in Sites, k \in Keys : Row(i, s, k) \in OfConnector(i) /\ Row(i, s, k).id = i
BY DEF Rows, OfConnector, Row

LEMMA RowIsOf ==
  ASSUME NEW m \in Nat, NEW d \in Rows(m)
  PROVE  d \in OfConnector(d.id)
<1>1. PICK i \in 1..m : d \in OfConnector(i)
  BY DEF Rows
<1>2. PICK s \in Sites, k \in Keys : d = Row(i, s, k)
  BY <1>1 DEF OfConnector
<1>3. d.id = i
  BY <1>2 DEF Row
<1>. QED  BY <1>1, <1>3

\* A grant with tokens or the mark is stored as it is.
LEMMA StoredIs ==
  ASSUME NEW n \in Nat, NEW m \in Nat, NEW g \in Grants(n, m)
  PROVE  Stored(g) = g
<1>1. g.reauth = (g.access = 0)
  BY GrantFields
<1>. QED  BY <1>1 DEF Stored

LEMMA StoredNone == Stored(None) = None
BY DEF Stored

LEMMA WithoutTokensIs ==
  ASSUME NEW n \in Nat, NEW m \in Nat, NEW g \in Grants(n, m)
  PROVE  /\ WithoutTokens(g) \in Grants(n, m) /\ Stored(WithoutTokens(g)) = WithoutTokens(g)
         /\ WithoutTokens(g).access = 0 /\ WithoutTokens(g).refresh = 0
         /\ SameHome(g, WithoutTokens(g))
<1>. DEFINE h == WithoutTokens(g)
<1>1. g \in Connections /\ g # None /\ g.id \in 1..m
  BY GrantFields
<1>2. h \in Connections
  BY <1>1 DEF WithoutTokens, Connections
<1>3. /\ h.access = 0 /\ h.refresh = 0 /\ h.reauth = TRUE
      /\ h.site = g.site /\ h.keys = g.keys /\ h.id = g.id
  BY <1>1 DEF WithoutTokens, Connections
<1>6. h.reauth = (h.access = 0)
  BY <1>3, Zenon
<1>7. 0 \in 0..n
  OBVIOUS
<1>8. h.access \in 0..n /\ h.refresh \in 0..n /\ h.id \in 1..m
  BY <1>1, <1>3, <1>7
<1>4. h \in Grants(n, m)
  BY <1>2, <1>6, <1>8 DEF Grants
<1>5. h # None
  BY <1>4, GrantFields
<1>. QED  BY <1>1, <1>3, <1>4, <1>5, StoredIs DEF SameHome

\* The forms of a request, by what it does next.
LEMMA ShapeOf ==
  ASSUME NEW n \in Nat, NEW m \in Nat, NEW r \in Shapes(n, m)
  PROVE  /\ r.op \in Listings \cup Exclusive \cup {None}
         /\ r.at = "purge" => r \in Purging(m)
         /\ r.at \in {"renew", "renew_again", "call"} => r \in Begun(n, m)
         /\ r.at = "save" /\ r.op = "connect" => r \in Connecting(n)
         /\ r.at = "save" /\ r.op # "connect" => r \in Begun(n, m)
<1>1. CASE r = Idle
  BY <1>1 DEF Idle
<1>2. CASE r = Exchanging
  BY <1>2 DEF Exchanging, Exclusive
<1>3. CASE r \in Connecting(n)
  BY <1>3 DEF Connecting, Exclusive
<1>4. CASE r \in Begun(n, m)
  <2>1. r.op \in Listings \cup Changes /\ r.at \in {"renew", "renew_again", "call", "save"}
    BY <1>4 DEF Begun
  <2>2. r.op # "connect"
    BY <2>1 DEF Listings, Changes
  <2>. QED  BY <1>4, <2>1, <2>2 DEF Exclusive
<1>5. CASE r \in Purging(m)
  BY <1>5 DEF Purging, Exclusive
<1>. QED  BY <1>1, <1>2, <1>3, <1>4, <1>5 DEF Shapes

LEMMA BegunFields ==
  ASSUME NEW n \in Nat, NEW m \in Nat, NEW r \in Begun(n, m)
  PROVE  /\ r.op \in Listings \cup Changes /\ r.op # "connect" /\ r.arg \in Arguments
         /\ r.snap \in Grants(n, m) /\ r.access \in 0..n /\ r.refresh \in 0..n
         /\ r.at \in {"renew", "renew_again", "call", "save"} /\ r.at # "purge"
<1>1. /\ r.op \in Listings \cup Changes /\ r.arg \in Arguments
      /\ r.snap \in Grants(n, m) /\ r.access \in 0..n /\ r.refresh \in 0..n
      /\ r.at \in {"renew", "renew_again", "call", "save"}
  BY DEF Begun
<1>. QED  BY <1>1 DEF Listings, Changes

LEMMA ConnectingFields ==
  ASSUME NEW n \in Nat, NEW r \in Connecting(n)
  PROVE  /\ r.op = "connect" /\ r.at = "save" /\ r.pair \in 1..n /\ r.timed \in BOOLEAN
         /\ r.sites \in SUBSET Sites
BY DEF Connecting

LEMMA PurgingFields ==
  ASSUME NEW m \in Nat, NEW r \in Purging(m)
  PROVE  r.op \in Changes /\ r.at = "purge" /\ r.rows \in SUBSET Rows(m)
BY DEF Purging

LEMMA ShapesGrow ==
  ASSUME NEW n \in Nat, NEW m \in Nat, NEW i \in Nat, NEW j \in Nat, n <= i, m <= j
  PROVE  Shapes(n, m) \subseteq Shapes(i, j)
<1>1. Grants(n, m) \subseteq Grants(i, j) /\ Rows(m) \subseteq Rows(j)
  BY GrantGrows, RowsGrow
<1>2. Connecting(n) \subseteq Connecting(i)
  BY DEF Connecting
<1>3. Begun(n, m) \subseteq Begun(i, j)
  BY <1>1 DEF Begun
<1>4. Purging(m) \subseteq Purging(j)
  BY <1>1 DEF Purging
<1>. QED  BY <1>2, <1>3, <1>4 DEF Shapes

LEMMA IdleIs ==
  ASSUME NEW n \in Nat, NEW m \in Nat
  PROVE  /\ Idle \in Shapes(n, m) /\ Idle.op = None /\ Idle.at # "purge"
         /\ \A g, used : LocalOK(Idle, g, used)
<1>1. Idle.op = None /\ Idle.at = "idle"
  BY DEF Idle
<1>2. None \notin Changes /\ None # "connect" /\ None # "site" /\ None # "select" /\ None # "sync"
  BY NoneIs DEF Exclusive, Changes
<1>. QED  BY <1>1, <1>2 DEF Shapes, LocalOK, FreshPair, AtHome, Checked

LEMMA SentIs ==
  ASSUME NEW p, Rotates(p)
  PROVE  Sent(p) = grant.refresh
<1>1. Sends(grant, req[p].refresh) = {grant.refresh}
  BY DEF Rotates, Sends
<1>. QED  BY <1>1 DEF Sent

-----------------------------------------------------------------------------
(* What the step of one request leaves of what the others rely on.         *)

LEMMA MoveTypes ==
  ASSUME Types, NEW p \in Requests, Moves(p), Len(pairs') \in Nat, Len(consents') \in Nat,
         Len(pairs) <= Len(pairs'), Len(consents) <= Len(consents'),
         req'[p] \in Shapes(Len(pairs'), Len(consents'))
  PROVE  /\ req' \in [Requests -> Shapes(Len(pairs'), Len(consents'))]
         /\ \A q \in Requests \ {p} : req'[q] = req[q]
<1>1. Len(pairs) \in Nat /\ Len(consents) \in Nat
  BY LenProperties DEF Types
<1>2. Shapes(Len(pairs), Len(consents)) \subseteq Shapes(Len(pairs'), Len(consents'))
  BY <1>1, ShapesGrow
<1>3. req \in [Requests -> Shapes(Len(pairs'), Len(consents'))]
  BY <1>2 DEF Types
<1>. QED  BY <1>3 DEF Moves

\* The tokens of a stored grant change; all else about it stays.
Rotated(n) ==
    /\ SameHome(grant, grant')
    /\ grant # None => grant'.refresh \in {0, grant.refresh, n + 1}
    /\ spent' \subseteq spent \cup (IF grant = None THEN {} ELSE {grant.refresh})

LEMMA MoveLocals ==
  ASSUME Types, LInv, NEW p \in Requests,
         req' \in [Requests -> Shapes(Len(pairs'), Len(consents'))],
         \A q \in Requests \ {p} : req'[q] = req[q],
         LocalOK(req'[p], grant', spent'),
         Rotated(Len(pairs)) \/ req[p].op \in Exclusive,
         \/ req'[p].op \in {req[p].op, None}
         \/ req'[p].op \in Listings
         \/ \A q \in Requests : req[q].op \in Listings \cup {None}
  PROVE  LInv'
<1>0. /\ \A q \in Requests : req[q] \in Shapes(Len(pairs), Len(consents))
      /\ Len(pairs) \in Nat /\ Len(consents) \in Nat
  BY LenProperties DEF Types
<1>1. Alone(req')
  BY NoneIs DEF LInv, Alone
<1>2. ASSUME NEW q \in Requests \ {p}
      PROVE  LocalOK(req[q], grant', spent')
  <2>1. LocalOK(req[q], grant, spent)
    BY DEF LInv
  <2>2. CASE req[p].op \in Exclusive
    <3>1. req[q].op \in Listings \cup {None}
      BY <2>2 DEF LInv, Alone
    <3>2. req[q].op # "connect" /\ req[q].op \notin Changes
      BY <3>1, NoneIs DEF Exclusive
    <3>. QED  BY <2>1, <3>2 DEF LocalOK, FreshPair, AtHome, Checked
  <2>3. CASE Rotated(Len(pairs))
    <3>1. AtHome(req[q], grant')
      BY <2>1, <2>3 DEF LocalOK, AtHome, Rotated, SameHome
    <3>2. ASSUME req[q].op = "connect", req[q].at = "save"
          PROVE  req[q].pair \notin spent' /\ (grant' # None => grant'.refresh # req[q].pair)
      <4>1. req[q] \in Connecting(Len(pairs))
        BY <3>2, <1>0, ShapeOf
      <4>2. req[q].pair \in 1..Len(pairs)
        BY <4>1, <1>0, ConnectingFields
      <4>3. req[q].pair \notin spent /\ (grant # None => grant.refresh # req[q].pair)
        BY <3>2, <2>1 DEF LocalOK, FreshPair
      <4>4. req[q].pair # 0 /\ req[q].pair # Len(pairs) + 1
        BY <4>2, <1>0
      <4>. QED  BY <2>3, <4>3, <4>4 DEF Rotated, SameHome
    <3>. QED  BY <2>1, <3>1, <3>2 DEF LocalOK, FreshPair
  <2>. QED  BY <2>2, <2>3
<1>3. \A q \in Requests : LocalOK(req'[q], grant', spent')
  BY <1>2
<1>. QED  BY <1>1, <1>3 DEF LInv, Alone

LEMMA MoveHome ==
  ASSUME IInv, NEW p \in Requests,
         \A q \in Requests \ {p} : req'[q] = req[q],
         req[p].at # "purge", SameHome(grant, grant'),
         \A d \in docs' : d \in docs \/ Owns(grant', d),
         history'.unpurged = history.unpurged
  PROVE  SelectionOnSite' /\ RowsKept'
<1>1. SelectionOnSite'
  BY DEF IInv, SelectionOnSite, Connected, SameHome
<1>2. ASSUME ~history'.unpurged, NEW d \in docs'
      PROVE  Accounted(d, grant', req')
  <2>1. CASE Owns(grant', d)
    BY <2>1 DEF Accounted
  <2>2. CASE d \in docs
    <3>1. Accounted(d, grant, req)
      BY <1>2, <2>2 DEF IInv, RowsKept
    <3>2. CASE Owns(grant, d)
      BY <3>2 DEF Accounted, Owns, SameHome
    <3>3. CASE \E q \in Requests : req[q].at = "purge" /\ d \in req[q].rows
      <4>1. PICK q \in Requests : req[q].at = "purge" /\ d \in req[q].rows
        BY <3>3
      <4>2. req'[q] = req[q]
        BY <4>1
      <4>. QED  BY <4>1, <4>2 DEF Accounted
    <3>. QED  BY <3>1, <3>2, <3>3 DEF Accounted
  <2>. QED  BY <1>2, <2>1, <2>2
<1>. QED  BY <1>1, <1>2 DEF RowsKept

\* A step that touches neither the grant nor the rows nor Atlassian.
LEMMA QuietStep ==
  ASSUME IInv, NEW p \in Requests, Moves(p),
         UNCHANGED <<grant, docs, atlassian>>,
         history' \in Histories, history'.replayed = history.replayed,
         history'.lost = history.lost, history'.unpurged = history.unpurged,
         stale' \subseteq states', states' \subseteq 1..history'.issued,
         req[p].at # "purge",
         req'[p] \in Shapes(Len(pairs), Len(consents)), LocalOK(req'[p], grant, spent),
         \/ req'[p].op \in {req[p].op, None}
         \/ req'[p].op \in Listings
         \/ \A q \in Requests : req[q].op \in Listings \cup {None}
  PROVE  IInv'
<1>1. Len(pairs) \in Nat /\ Len(consents) \in Nat /\ pairs' = pairs /\ consents' = consents
      /\ spent' = spent /\ grant' = grant /\ docs' = docs
  BY LenProperties DEF IInv, Types, atlassian
<1>2. /\ req' \in [Requests -> Shapes(Len(pairs'), Len(consents'))]
      /\ \A q \in Requests \ {p} : req'[q] = req[q]
  BY <1>1, MoveTypes DEF IInv
<1>3. Types'
  BY <1>1, <1>2 DEF IInv, Types, atlassian
<1>4. SameHome(grant, grant') /\ Rotated(Len(pairs))
  BY <1>1 DEF SameHome, Rotated
<1>5. LInv'
  BY <1>1, <1>2, <1>4, MoveLocals DEF IInv
<1>6. SelectionOnSite' /\ RowsKept'
  BY <1>1, <1>2, <1>4, MoveHome
<1>7. LossKnown(grant', spent', history'.lost) /\ NoReplay'
  BY <1>1 DEF IInv, NoReplay
<1>. QED  BY <1>3, <1>5, <1>6, <1>7 DEF IInv

\* A step that changes the tokens of the stored grant, and maybe adds rows
\* of its own connector; the request goes on or ends.
LEMMA TokenStep ==
  ASSUME IInv, NEW p \in Requests, Moves(p), Rotated(Len(pairs)),
         consents' = consents, UNCHANGED <<states, stale, expired, revoked>>,
         pairs' \in Seq(Nat), Len(pairs) <= Len(pairs'), Len(pairs') # 0 => Len(consents) # 0,
         spent' \subseteq 1..Len(pairs'),
         grant' \in Grants(Len(pairs'), Len(consents)) \cup {None},
         docs' \subseteq Rows(Len(consents)),
         \A d \in docs' : d \in docs \/ Owns(grant', d),
         history' \in Histories, history'.unpurged = history.unpurged,
         history'.issued = history.issued,
         LossKnown(grant', spent', history'.lost), NoReplay',
         req[p].at # "purge",
         req'[p] \in Shapes(Len(pairs'), Len(consents)), LocalOK(req'[p], grant', spent'),
         req'[p].op \in {req[p].op, None}
  PROVE  IInv'
<1>1. /\ Len(pairs) \in Nat /\ Len(consents) \in Nat /\ Len(pairs') \in Nat
      /\ Len(consents') = Len(consents) /\ Len(consents) <= Len(consents')
  BY LenProperties DEF IInv, Types
<1>2. /\ req' \in [Requests -> Shapes(Len(pairs'), Len(consents'))]
      /\ \A q \in Requests \ {p} : req'[q] = req[q]
  BY <1>1, MoveTypes DEF IInv
<1>3. expired' \subseteq 1..Len(pairs')
  BY <1>1 DEF IInv, Types
<1>4. Types'
  BY <1>1, <1>2, <1>3 DEF IInv, Types
<1>5. LInv'
  BY <1>1, <1>2, MoveLocals DEF IInv
<1>6. SameHome(grant, grant')
  BY DEF Rotated
<1>7. SelectionOnSite' /\ RowsKept'
  BY <1>2, <1>6, MoveHome
<1>. QED  BY <1>4, <1>5, <1>7 DEF IInv

LEMMA ReadsGrant ==
  ASSUME IInv
  PROVE  /\ Len(pairs) \in Nat /\ Len(consents) \in Nat
         /\ grant # None => grant \in Grants(Len(pairs), Len(consents))
BY LenProperties DEF IInv, Types

LEMMA Reads ==
  ASSUME IInv, NEW p \in Requests
  PROVE  /\ Len(pairs) \in Nat /\ Len(consents) \in Nat
         /\ req[p] \in Shapes(Len(pairs), Len(consents)) /\ LocalOK(req[p], grant, spent)
         /\ grant # None => grant \in Grants(Len(pairs), Len(consents))
         /\ history \in Histories /\ DOMAIN req = Requests
         /\ pairs \in Seq(Nat) /\ consents \in Seq(SUBSET Sites)
BY LenProperties DEF IInv, Types, LInv

LEMMA EndMoves ==
  ASSUME IInv, NEW p \in Requests, End(p)
  PROVE  Moves(p) /\ req'[p] = Idle
BY Reads DEF End, Moves

\* A request ends.
LEMMA EndQuiet ==
  ASSUME IInv, NEW p \in Requests, End(p), req[p].at # "purge",
         UNCHANGED <<grant, states, stale, docs, atlassian>>,
         history' \in Histories, history'.replayed = history.replayed,
         history'.lost = history.lost, history'.unpurged = history.unpurged,
         history'.issued = history.issued
  PROVE  IInv'
<1>1. Moves(p) /\ req'[p] = Idle
  BY EndMoves
<1>2. Len(pairs) \in Nat /\ Len(consents) \in Nat
  BY Reads
<1>3. /\ req'[p] \in Shapes(Len(pairs), Len(consents)) /\ LocalOK(req'[p], grant, spent)
      /\ req'[p].op = None
  BY <1>1, <1>2, IdleIs
<1>4. stale' \subseteq states' /\ states' \subseteq 1..history'.issued
  BY DEF IInv, Types
<1>. QED  BY <1>1, <1>3, <1>4, QuietStep

LEMMA TroubleIs ==
  ASSUME IInv, Trouble
  PROVE  /\ history' \in Histories /\ history'.replayed = history.replayed
         /\ history'.lost = history.lost /\ history'.unpurged = history.unpurged
         /\ history'.issued = history.issued
<1>1. history \in Histories
  BY DEF IInv, Types
<1>. QED  BY <1>1 DEF Trouble, Histories

LEMMA StartedIs ==
  ASSUME IInv, Started
  PROVE  /\ history' \in Histories /\ history'.replayed = history.replayed
         /\ history'.lost = history.lost /\ history'.unpurged = history.unpurged
         /\ history'.issued = history.issued
<1>1. history \in Histories
  BY DEF IInv, Types
<1>. QED  BY <1>1 DEF Started, Histories

-----------------------------------------------------------------------------
(* Connecting.                                                             *)

LEMMA OpeningPreserved ==
  ASSUME IInv, StartOauth
  PROVE  IInv'
<1>1. history \in Histories /\ history.issued \in Nat /\ stale \subseteq states
      /\ states \subseteq 1..history.issued
  BY DEF IInv, Types, Histories
<1>2. /\ history' \in Histories /\ history'.issued = history.issued + 1
      /\ history'.replayed = history.replayed /\ history'.lost = history.lost
      /\ history'.unpurged = history.unpurged
  BY <1>1 DEF StartOauth, Histories
<1>3. stale' \subseteq states' /\ states' \subseteq 1..history'.issued
  BY <1>1, <1>2 DEF StartOauth, Issued
<1>4. UNCHANGED <<grant, req, docs, pairs, spent, expired, consents, revoked>>
  BY DEF StartOauth, atlassian
<1>5. Types'
  BY <1>2, <1>3, <1>4 DEF IInv, Types
<1>6. LInv' /\ LossKnown(grant', spent', history'.lost) /\ NoReplay'
      /\ SelectionOnSite' /\ RowsKept'
  BY <1>2, <1>4 DEF IInv, LInv, NoReplay, SelectionOnSite, Connected, RowsKept
<1>. QED  BY <1>5, <1>6 DEF IInv

LEMMA CallbackPreserved ==
  ASSUME IInv, NEW p \in Requests, Callback(p)
  PROVE  IInv'
<1>1. PICK s \in 1..history.issued :
        IF s \in states
          THEN /\ states' = Consumed(s) /\ Started
               /\ stale' = stale \ {s}
               /\ req' = [req EXCEPT ![p] = IF s \in stale THEN Idle
                              ELSE [op |-> "connect", at |-> "exchange"]]
          ELSE UNCHANGED <<states, stale, req, history>>
  BY DEF Callback
<1>2. /\ req[p] = Idle /\ \A q \in Requests : req[q].op \in Listings \cup {None}
      /\ UNCHANGED <<grant, docs, atlassian>>
  BY DEF Callback, MayStart, Listings
<1>3. CASE s \notin states
  <2>1. UNCHANGED <<states, stale, req, history, grant, docs, pairs, spent, expired,
                    consents, revoked>>
    BY <1>1, <1>2, <1>3 DEF atlassian
  <2>. QED  BY <2>1 DEF IInv, Types, LInv, NoReplay, SelectionOnSite, Connected, RowsKept
<1>4. CASE s \in states
  <2>1. /\ states' = states \ {s} /\ stale' = stale \ {s} /\ Started
        /\ req' = [req EXCEPT ![p] = IF s \in stale THEN Idle ELSE Exchanging]
    BY <1>1, <1>4 DEF Consumed, Exchanging
  <2>2. Moves(p) /\ req'[p] \in {Idle, Exchanging}
    BY <2>1, Reads DEF Moves
  <2>3. /\ history' \in Histories /\ history'.replayed = history.replayed
        /\ history'.lost = history.lost /\ history'.unpurged = history.unpurged
        /\ history'.issued = history.issued
    BY <2>1, StartedIs
  <2>4. stale' \subseteq states' /\ states' \subseteq 1..history'.issued
    BY <2>1, <2>3 DEF IInv, Types
  <2>5. req'[p] \in Shapes(Len(pairs), Len(consents)) /\ LocalOK(req'[p], grant, spent)
    <3>1. LocalOK(Exchanging, grant, spent)
      BY DEF Exchanging, LocalOK, FreshPair, AtHome, Checked, Changes
    <3>2. LocalOK(Idle, grant, spent)
      BY Reads, IdleIs
    <3>. QED  BY <2>2, <3>1, <3>2 DEF Shapes
  <2>6. req[p].at # "purge"
    BY <1>2 DEF Idle
  <2>. QED  BY <1>2, <2>2, <2>3, <2>4, <2>5, <2>6, QuietStep
<1>. QED  BY <1>3, <1>4

LEMMA ExchangeFailsPreserved ==
  ASSUME IInv, NEW p \in Requests, ExchangeFails(p)
  PROVE  IInv'
BY TroubleIs, EndQuiet DEF ExchangeFails

LEMMA ExchangePreserved ==
  ASSUME IInv, NEW p \in Requests, Exchange(p)
  PROVE  IInv'
<1>. DEFINE n == Len(pairs)  m == Len(consents)
<1>0. /\ n \in Nat /\ m \in Nat /\ pairs \in Seq(Nat) /\ consents \in Seq(SUBSET Sites)
  BY Reads
<1>1. PICK sites \in SUBSET Sites, timed \in BOOLEAN :
        /\ consents' = Append(consents, sites)
        /\ pairs' = Append(pairs, Len(consents) + 1)
        /\ req' = [req EXCEPT ![p] = IF sites = {} THEN Idle
                     ELSE [op |-> "connect", at |-> "save", pair |-> Len(pairs) + 1,
                           timed |-> timed, sites |-> sites]]
  BY DEF Exchange
<1>. DEFINE r == [op |-> "connect", at |-> "save", pair |-> n + 1,
                  timed |-> timed, sites |-> sites]
<1>2. /\ req[p].op = "connect" /\ req[p].at = "exchange"
      /\ UNCHANGED <<grant, states, stale, docs, spent, expired, revoked, history>>
  BY DEF Exchange
<1>3. pairs' \in Seq(Nat) /\ Len(pairs') = n + 1
  BY <1>0, <1>1, AppendProperties
<1>4. consents' \in Seq(SUBSET Sites) /\ Len(consents') = m + 1
  BY <1>0, <1>1, AppendProperties
<1>5. Moves(p) /\ req'[p] \in {Idle, r}
  BY <1>1, Reads DEF Moves
<1>6. r \in Connecting(n + 1) /\ r.op = "connect" /\ r.at = "save" /\ r.pair = n + 1
  BY <1>0 DEF Connecting
<1>. HIDE DEF r
<1>7. LocalOK(r, grant, spent)
  <2>1. r.op \notin Changes /\ r.op # "site" /\ r.op # "select" /\ r.op # "sync"
    BY <1>6 DEF Changes
  <2>2. n + 1 \notin spent
    BY <1>0 DEF IInv, Types
  <2>3. grant # None => grant.refresh # n + 1
    BY <1>0, Reads, GrantFields
  <2>. QED  BY <1>6, <2>1, <2>2, <2>3 DEF LocalOK, FreshPair, AtHome, Checked
<1>8. req'[p] \in Shapes(Len(pairs'), Len(consents')) /\ LocalOK(req'[p], grant', spent')
  <2>1. req'[p] \in Shapes(n + 1, m + 1)
    BY <1>5, <1>6 DEF Shapes
  <2>2. LocalOK(req'[p], grant, spent)
    BY <1>0, <1>5, <1>7, IdleIs
  <2>. QED  BY <1>2, <1>3, <1>4, <2>1, <2>2
<1>9. /\ Len(pairs') \in Nat /\ Len(consents') \in Nat
      /\ n <= Len(pairs') /\ m <= Len(consents')
  BY <1>0, <1>3, <1>4
<1>10. /\ req' \in [Requests -> Shapes(Len(pairs'), Len(consents'))]
       /\ \A q \in Requests \ {p} : req'[q] = req[q]
  BY <1>5, <1>8, <1>9, MoveTypes DEF IInv
<1>11. Types'
  <2>1. Grants(n, m) \subseteq Grants(Len(pairs'), Len(consents'))
        /\ Rows(m) \subseteq Rows(Len(consents'))
    BY <1>0, <1>9, GrantGrows, RowsGrow
  <2>2. /\ spent' \subseteq 1..Len(pairs') /\ expired' \subseteq 1..Len(pairs')
        /\ revoked' \subseteq 1..Len(consents')
    BY <1>0, <1>2, <1>9 DEF IInv, Types
  <2>3. /\ grant' \in Grants(Len(pairs'), Len(consents')) \cup {None}
        /\ docs' \subseteq Rows(Len(consents'))
        /\ stale' \subseteq states' /\ states' \subseteq 1..history'.issued
        /\ history' \in Histories
    BY <1>2, <2>1 DEF IInv, Types
  <2>4. Len(consents') # 0
    BY <1>0, <1>4
  <2>. QED  BY <1>3, <1>4, <1>10, <2>2, <2>3, <2>4 DEF Types
<1>12. req'[p].op \in {req[p].op, None}
  BY <1>2, <1>5, <1>6, <1>0, IdleIs
<1>13. SameHome(grant, grant') /\ Rotated(n)
  BY <1>2 DEF SameHome, Rotated
<1>14. LInv'
  BY <1>8, <1>10, <1>12, <1>13, MoveLocals DEF IInv
<1>15. SelectionOnSite' /\ RowsKept'
  BY <1>2, <1>10, <1>13, MoveHome
<1>. QED  BY <1>2, <1>11, <1>14, <1>15 DEF IInv, NoReplay

-----------------------------------------------------------------------------
(* Saving.                                                                 *)

\* The step that saves what a change decided: the rows it leaves without
\* owner are the rows it goes on to purge.
LEMMA SaveStep ==
  ASSUME IInv, NEW p \in Requests, Moves(p),
         req[p].op \in Exclusive, req[p].at = "save",
         UNCHANGED <<states, stale, docs, atlassian, history>>,
         grant' \in Grants(Len(pairs), Len(consents)) \cup {None},
         LossKnown(grant', spent, history.lost), SelectionOnSite',
         req'[p] \in Shapes(Len(pairs), Len(consents)), LocalOK(req'[p], grant', spent),
         req'[p].op \in {req[p].op, None},
         \A d \in docs : Owns(grant, d) =>
            Owns(grant', d) \/ (req'[p].at = "purge" /\ d \in req'[p].rows)
  PROVE  IInv'
<1>1. Len(pairs) \in Nat /\ Len(consents) \in Nat /\ pairs' = pairs /\ consents' = consents
      /\ spent' = spent /\ docs' = docs /\ history' = history
  BY Reads DEF atlassian
<1>2. /\ req' \in [Requests -> Shapes(Len(pairs'), Len(consents'))]
      /\ \A q \in Requests \ {p} : req'[q] = req[q]
  BY <1>1, MoveTypes DEF IInv
<1>3. Types'
  BY <1>1, <1>2 DEF IInv, Types, atlassian
<1>4. LInv'
  BY <1>1, <1>2, MoveLocals DEF IInv
<1>5. ASSUME ~history.unpurged, NEW d \in docs
      PROVE  Accounted(d, grant', req')
  <2>1. Accounted(d, grant, req)
    BY <1>5 DEF IInv, RowsKept
  <2>2. CASE Owns(grant, d)
    BY <2>2 DEF Accounted
  <2>3. CASE \E q \in Requests : req[q].at = "purge" /\ d \in req[q].rows
    <3>1. PICK q \in Requests : req[q].at = "purge" /\ d \in req[q].rows
      BY <2>3
    <3>2. req'[q] = req[q]
      BY <3>1, <1>2
    <3>. QED  BY <3>1, <3>2 DEF Accounted
  <2>. QED  BY <2>1, <2>2, <2>3 DEF Accounted
<1>6. RowsKept'
  BY <1>1, <1>5 DEF RowsKept
<1>7. NoReplay' /\ LossKnown(grant', spent', history'.lost)
  BY <1>1 DEF IInv, NoReplay
<1>. QED  BY <1>3, <1>4, <1>6, <1>7 DEF IInv

LEMMA PurgeOrIs ==
  ASSUME IInv, NEW p \in Requests, req[p].op \in Changes,
         NEW rows \in SUBSET Rows(Len(consents)), PurgeOr(p, rows)
  PROVE  /\ Moves(p) /\ req'[p] \in Shapes(Len(pairs), Len(consents))
         /\ \A g, used : LocalOK(req'[p], g, used)
         /\ req'[p].op \in {req[p].op, None}
         /\ \A d \in rows : req'[p].at = "purge" /\ d \in req'[p].rows
<1>. DEFINE r == [op |-> req[p].op, at |-> "purge", rows |-> rows]
<1>1. Moves(p) /\ req'[p] = IF rows = {} THEN Idle ELSE r
  BY Reads DEF PurgeOr, Moves
<1>2. r \in Purging(Len(consents)) /\ r.op = req[p].op /\ r.at = "purge" /\ r.rows = rows
  BY DEF Purging
<1>. HIDE DEF r
<1>3. req[p].op # "connect"
  BY DEF Changes
<1>4. \A g, used : LocalOK(r, g, used)
  BY <1>2, <1>3 DEF LocalOK, FreshPair, AtHome, Checked
<1>5. CASE rows = {}
  BY <1>1, <1>5, Reads, IdleIs
<1>6. CASE rows # {}
  BY <1>1, <1>2, <1>4, <1>6 DEF Shapes
<1>. QED  BY <1>1, <1>5, <1>6

LEMMA SaveConnectionPreserved ==
  ASSUME IInv, NEW p \in Requests, SaveConnection(p)
  PROVE  IInv'
<1>. DEFINE n == Len(pairs)  m == Len(consents)  r == req[p]
            h == Reconnected(grant, r.pair, r.timed, r.sites, m)
<1>0. /\ n \in Nat /\ m \in Nat /\ r \in Shapes(n, m) /\ LocalOK(r, grant, spent)
      /\ grant # None => grant \in Grants(n, m)
  BY Reads
<1>1. /\ r.op = "connect" /\ r.at = "save" /\ grant' = Stored(h) /\ End(p)
      /\ UNCHANGED <<states, stale, docs, atlassian, history>>
  BY DEF SaveConnection, Store
<1>2. r \in Connecting(n)
  BY <1>0, <1>1, ShapeOf
<1>3. r.pair \in 1..n /\ r.timed \in BOOLEAN /\ r.sites \in SUBSET Sites
  BY <1>0, <1>2, ConnectingFields
<1>4. m \in 1..m
  <2>1. n # 0
    BY <1>0, <1>3
  <2>. QED  BY <1>0, <2>1 DEF IInv, Types
<1>5. OnlySite(r.sites) \in Sites \cup {None}
  <2>1. CASE Cardinality(r.sites) = 1
    <3>1. r.sites # {}
      BY <2>1, FS_EmptySet
    <3>. QED  BY <1>3, <2>1, <3>1 DEF OnlySite
  <2>. QED  BY <2>1 DEF OnlySite
<1>6. grant # None => /\ grant.site \in Sites \cup {None} /\ grant.keys \in SUBSET Keys
                      /\ grant.id \in 1..m /\ grant.refresh \in 0..n
  BY <1>0, GrantFields
<1>7. /\ h \in Connections
      /\ h.access = r.pair /\ h.refresh = r.pair /\ h.reauth = FALSE
      /\ h.id = IF grant # None THEN grant.id ELSE m
      /\ h.site = IF grant # None /\ grant.site \in r.sites THEN grant.site ELSE OnlySite(r.sites)
      /\ h.keys = IF grant # None /\ grant.site \in r.sites THEN grant.keys ELSE {}
  <2>1. Pair(r.pair, r.timed) \in Connections
    BY <1>0, <1>3, NoneIs DEF Pair, Connections
  <2>2. /\ Pair(r.pair, r.timed).access = r.pair /\ Pair(r.pair, r.timed).refresh = r.pair
        /\ Pair(r.pair, r.timed).reauth = FALSE
    BY DEF Pair
  <2>. DEFINE kept == grant # None /\ grant.site \in r.sites
              site == IF kept THEN grant.site ELSE OnlySite(r.sites)
              keys == IF kept THEN grant.keys ELSE {}
              id == IF grant # None THEN grant.id ELSE m
              was == Pair(r.pair, r.timed)
  <2>3. site \in Sites \cup {None} /\ keys \in SUBSET Keys /\ id \in Nat
    BY <1>0, <1>4, <1>5, <1>6
  <2>4. h = [was EXCEPT !.site = site, !.keys = keys, !.id = id]
    BY DEF Reconnected
  <2>. HIDE DEF was, h, site, keys, id
  <2>5. /\ h \in Connections /\ h.access = was.access /\ h.refresh = was.refresh
        /\ h.reauth = was.reauth /\ h.site = site /\ h.keys = keys /\ h.id = id
    <3>1. was \in Connections
      BY <2>1 DEF was
    <3>. QED  BY <3>1, <2>3, <2>4 DEF Connections
  <2>. QED  BY <2>2, <2>5 DEF was, site, keys, id
<1>. HIDE DEF h
<1>8. h \in Grants(n, m)
  <2>1. h.access # 0
    BY <1>0, <1>3, <1>7
  <2>2. h.reauth = (h.access = 0)
    BY <1>7, <2>1, Zenon
  <2>3. h.access \in 0..n /\ h.refresh \in 0..n
    BY <1>0, <1>3, <1>7
  <2>4. h.id \in 1..m
    BY <1>4, <1>6, <1>7
  <2>. QED  BY <1>7, <2>2, <2>3, <2>4 DEF Grants
<1>9. grant' = h
  BY <1>0, <1>1, <1>8, StoredIs
<1>10. LossKnown(h, spent, history.lost)
  BY <1>0, <1>1, <1>7 DEF LocalOK, FreshPair, LossKnown
<1>11. SelectionOnSite'
  BY <1>3, <1>6, <1>7, <1>9, NoneIs DEF IInv, SelectionOnSite, Connected
<1>12. /\ Moves(p) /\ req'[p] = Idle /\ Idle \in Shapes(n, m) /\ Idle.op = None
       /\ LocalOK(Idle, grant', spent)
  BY <1>0, <1>1, EndMoves, IdleIs
<1>13. \A d \in docs : Owns(grant, d) => Owns(grant', d)
  BY <1>0, <1>7, <1>8, <1>9, GrantFields DEF Owns
<1>14. req[p].op \in Exclusive /\ req[p].at = "save"
  BY <1>1 DEF Exclusive
<1>. QED  BY <1>1, <1>8, <1>9, <1>10, <1>11, <1>12, <1>13, <1>14, SaveStep

\* What a change holds between its call and its save.
LEMMA SavingIs ==
  ASSUME IInv, NEW p \in Requests, NEW op \in Changes, Saving(p, op)
  PROVE  /\ req[p] \in Begun(Len(pairs), Len(consents)) /\ req[p].op = op
         /\ req[p].at = "save" /\ req[p].op \in Exclusive /\ req[p].at # "purge"
         /\ req[p].snap \in Grants(Len(pairs), Len(consents))
         /\ req[p].snap.id \in 1..Len(consents) /\ req[p].snap.keys \in SUBSET Keys
         /\ grant \in Grants(Len(pairs), Len(consents)) /\ grant # None
         /\ grant.site = req[p].snap.site /\ grant.keys = req[p].snap.keys
         /\ grant.id = req[p].snap.id
         /\ Checked(req[p])
<1>1. /\ req[p].op = op /\ req[p].at = "save" /\ req[p].op # "connect"
      /\ req[p].op \in Exclusive
  BY DEF Saving, Changes, Exclusive
<1>2. req[p] \in Begun(Len(pairs), Len(consents))
  BY <1>1, Reads, ShapeOf
<1>3. /\ req[p].snap \in Grants(Len(pairs), Len(consents))
      /\ req[p].snap.id \in 1..Len(consents) /\ req[p].snap.keys \in SUBSET Keys
  BY <1>2, Reads, BegunFields, GrantFields
<1>4. AtHome(req[p], grant) /\ Checked(req[p])
  BY Reads DEF LocalOK
<1>5. /\ grant # None
      /\ grant.site = req[p].snap.site /\ grant.keys = req[p].snap.keys
      /\ grant.id = req[p].snap.id
  BY <1>1, <1>4 DEF AtHome
<1>. QED  BY <1>1, <1>2, <1>3, <1>4, <1>5, Reads

Selecting(g, site, keys) == [g EXCEPT !.site = site, !.keys = keys]

\* A change of the selection leaves the tokens alone.
LEMMA SelectionChange ==
  ASSUME IInv, grant # None, NEW site \in Sites \cup {None}, NEW keys \in SUBSET Keys,
         NEW h, h = Selecting(grant, site, keys)
  PROVE  /\ h \in Grants(Len(pairs), Len(consents)) /\ Stored(h) = h /\ h # None
         /\ LossKnown(h, spent, history.lost)
         /\ h.site = site /\ h.keys = keys /\ h.id = grant.id
<1>1. Len(pairs) \in Nat /\ Len(consents) \in Nat
      /\ grant \in Grants(Len(pairs), Len(consents))
  BY ReadsGrant
<1>2. /\ grant \in Connections /\ grant.access \in 0..Len(pairs)
      /\ grant.refresh \in 0..Len(pairs) /\ grant.id \in 1..Len(consents)
      /\ grant.reauth = (grant.access = 0)
  BY <1>1, GrantFields
<1>3. /\ h \in Connections /\ h.access = grant.access /\ h.refresh = grant.refresh
      /\ h.reauth = grant.reauth /\ h.site = site /\ h.keys = keys /\ h.id = grant.id
  BY <1>2 DEF Connections, Selecting
<1>6. h.reauth = (h.access = 0)
  BY <1>2, <1>3
<1>4. h \in Grants(Len(pairs), Len(consents))
  BY <1>2, <1>3, <1>6 DEF Grants
<1>5. LossKnown(h, spent, history.lost)
  BY <1>3 DEF IInv, LossKnown
<1>. QED  BY <1>1, <1>3, <1>4, <1>5, GrantFields, StoredIs

LEMMA EndSave ==
  ASSUME IInv, NEW p \in Requests, req[p].at = "save", End(p), grant' = grant,
         UNCHANGED <<states, stale, docs, atlassian, history>>
  PROVE  IInv'
<1>1. history \in Histories
  BY Reads
<1>. QED  BY <1>1, EndQuiet

LEMMA SaveSitePreserved ==
  ASSUME IInv, NEW p \in Requests, SaveSite(p)
  PROVE  IInv'
<1>. DEFINE snap == req[p].snap  site == req[p].arg
            keys == IF grant.site = site THEN grant.keys ELSE {}
            h == [grant EXCEPT !.site = site, !.keys = keys]
            rows == IF snap.site \in Sites \ {site} THEN OfConnector(snap.id) ELSE {}
<1>1. /\ Saving(p, "site") /\ "site" \in Changes
      /\ UNCHANGED <<states, stale, docs, atlassian, history>>
  BY DEF SaveSite, Changes
<1>2. /\ req[p].at = "save" /\ req[p].op \in Exclusive /\ req[p].op = "site"
      /\ snap.id \in 1..Len(consents)
      /\ grant \in Grants(Len(pairs), Len(consents)) /\ grant # None /\ Checked(req[p])
  BY <1>1, SavingIs
<1>3. grant' = Stored(h) /\ PurgeOr(p, rows)
  BY <1>2 DEF SaveSite, Connected, Store
<1>4. site \in Sites /\ keys \in SUBSET Keys
  BY <1>2, Reads, GrantFields DEF Checked
<1>5. rows \in SUBSET Rows(Len(consents))
  BY <1>2, Reads, RowOf
<1>10. h = Selecting(grant, site, keys)
  BY DEF Selecting
<1>. HIDE DEF h, rows
<1>6. /\ h \in Grants(Len(pairs), Len(consents)) /\ Stored(h) = h /\ h # None
      /\ LossKnown(h, spent, history.lost)
      /\ h.site = site /\ h.keys = keys /\ h.id = grant.id
  BY <1>2, <1>4, <1>10, SelectionChange
<1>7. SelectionOnSite'
  BY <1>2, <1>3, <1>4, <1>6, NoneIs DEF IInv, SelectionOnSite, Connected
<1>8. /\ Moves(p) /\ req'[p] \in Shapes(Len(pairs), Len(consents))
      /\ LocalOK(req'[p], grant', spent) /\ req'[p].op \in {req[p].op, None}
  BY <1>1, <1>2, <1>3, <1>5, PurgeOrIs
<1>9. \A d \in docs : Owns(grant, d) => Owns(grant', d)
  BY <1>3, <1>6 DEF Owns
<1>. QED  BY <1>1, <1>2, <1>3, <1>6, <1>7, <1>8, <1>9, SaveStep

LEMMA SaveSelectionPreserved ==
  ASSUME IInv, NEW p \in Requests, SaveSelection(p)
  PROVE  IInv'
<1>. DEFINE snap == req[p].snap  keys == req[p].arg
            h == [grant EXCEPT !.keys = keys]
            rows == {Row(snap.id, snap.site, k) : k \in snap.keys \ keys}
<1>1. /\ Saving(p, "select") /\ "select" \in Changes
      /\ UNCHANGED <<states, stale, docs, atlassian, history>>
  BY DEF SaveSelection, Changes
<1>2. /\ req[p].at = "save" /\ req[p].op \in Exclusive /\ req[p].op = "select"
      /\ req[p].at # "purge" /\ snap.id \in 1..Len(consents) /\ snap.keys \in SUBSET Keys
      /\ grant \in Grants(Len(pairs), Len(consents)) /\ grant # None /\ Checked(req[p])
      /\ grant.site = snap.site
  BY <1>1, SavingIs
<1>3. CASE grant.reauth
  <2>1. End(p) /\ grant' = grant
    BY <1>3 DEF SaveSelection, Connected
  <2>. QED  BY <1>1, <1>2, <2>1, EndSave
<1>4. CASE ~grant.reauth
  <2>1. grant' = Stored(h) /\ PurgeOr(p, rows)
    BY <1>2, <1>4 DEF SaveSelection, Connected, Store
  <2>2. /\ snap.site \in Sites /\ keys \in SUBSET Keys
        /\ keys = {} \/ keys \subseteq Has[snap.site]
    BY <1>2 DEF Checked
  <2>3. rows \in SUBSET Rows(Len(consents))
    BY <1>2, <2>2, Reads, RowOf
  <2>4. h = Selecting(grant, grant.site, keys)
    BY <1>2, Reads, GrantFields DEF Connections, Selecting
  <2>5. grant.site \in Sites \cup {None}
    BY <1>2, <2>2
  <2>. HIDE DEF h, rows
  <2>6. /\ h \in Grants(Len(pairs), Len(consents)) /\ Stored(h) = h /\ h # None
        /\ LossKnown(h, spent, history.lost)
        /\ h.site = grant.site /\ h.keys = keys /\ h.id = grant.id
    BY <1>2, <2>2, <2>4, <2>5, SelectionChange
  <2>7. SelectionOnSite'
    BY <1>2, <2>1, <2>2, <2>6 DEF SelectionOnSite, Connected
  <2>8. /\ Moves(p) /\ req'[p] \in Shapes(Len(pairs), Len(consents))
        /\ LocalOK(req'[p], grant', spent) /\ req'[p].op \in {req[p].op, None}
    BY <1>1, <1>2, <2>1, <2>3, PurgeOrIs
  <2>9. \A d \in docs : Owns(grant, d) => Owns(grant', d)
    BY <2>1, <2>6 DEF Owns
  <2>. QED  BY <1>1, <1>2, <2>1, <2>6, <2>7, <2>8, <2>9, SaveStep
<1>. QED  BY <1>3, <1>4

LEMMA SaveDisconnectPreserved ==
  ASSUME IInv, NEW p \in Requests, SaveDisconnect(p)
  PROVE  IInv'
<1>. DEFINE rows == OfConnector(req[p].snap.id)
<1>1. /\ Saving(p, "disconnect") /\ "disconnect" \in Changes
      /\ UNCHANGED <<states, stale, docs, atlassian, history>>
      /\ grant' = None /\ PurgeOr(p, rows)
  BY StoredNone DEF SaveDisconnect, Changes, Store
<1>2. /\ req[p].at = "save" /\ req[p].op \in Exclusive /\ req[p].op = "disconnect"
      /\ req[p].snap.id \in 1..Len(consents) /\ grant # None
      /\ grant.id = req[p].snap.id
  BY <1>1, SavingIs
<1>3. rows \in SUBSET Rows(Len(consents))
  BY <1>2, Reads, RowOf
<1>4. SelectionOnSite' /\ LossKnown(grant', spent, history.lost)
  BY <1>1 DEF SelectionOnSite, Connected, LossKnown
<1>5. \A d \in docs : Owns(grant, d) => d \in rows
  BY <1>2, Reads, RowIsOf DEF IInv, Types, Owns
<1>. HIDE DEF rows
<1>6. /\ Moves(p) /\ req'[p] \in Shapes(Len(pairs), Len(consents))
      /\ LocalOK(req'[p], grant', spent) /\ req'[p].op \in {req[p].op, None}
      /\ \A d \in rows : req'[p].at = "purge" /\ d \in req'[p].rows
  BY <1>1, <1>2, <1>3, PurgeOrIs
<1>. QED  BY <1>1, <1>2, <1>4, <1>5, <1>6, SaveStep

\* The end of a purge: its rows are gone, or the failure is on record.
LEMMA PurgeStep ==
  ASSUME IInv, NEW p \in Requests, req[p].at = "purge", End(p),
         UNCHANGED <<grant, states, stale, atlassian>>, docs' \subseteq docs,
         history' \in Histories, history'.replayed = history.replayed,
         history'.lost = history.lost, history'.issued = history.issued,
         history.unpurged => history'.unpurged,
         history'.unpurged \/ docs' \cap req[p].rows = {}
  PROVE  IInv'
<1>1. Len(pairs) \in Nat /\ Len(consents) \in Nat /\ pairs' = pairs /\ consents' = consents
      /\ spent' = spent /\ grant' = grant
  BY Reads DEF atlassian
<1>2. Moves(p) /\ req'[p] = Idle /\ Idle \in Shapes(Len(pairs), Len(consents))
      /\ LocalOK(Idle, grant, spent) /\ Idle.op = None
  BY <1>1, EndMoves, IdleIs
<1>3. /\ req' \in [Requests -> Shapes(Len(pairs'), Len(consents'))]
      /\ \A q \in Requests \ {p} : req'[q] = req[q]
  BY <1>1, <1>2, MoveTypes DEF IInv
<1>4. Types'
  BY <1>1, <1>3 DEF IInv, Types, atlassian
<1>5. Rotated(Len(pairs))
  BY <1>1 DEF Rotated, SameHome
<1>6. LInv'
  BY <1>1, <1>2, <1>3, <1>5, MoveLocals DEF IInv
<1>7. ASSUME ~history'.unpurged, NEW d \in docs'
      PROVE  Accounted(d, grant', req')
  <2>1. Accounted(d, grant, req) /\ d \notin req[p].rows
    BY <1>7 DEF IInv, RowsKept
  <2>2. CASE Owns(grant, d)
    BY <1>1, <2>2 DEF Accounted
  <2>3. CASE \E q \in Requests : req[q].at = "purge" /\ d \in req[q].rows
    <3>1. PICK q \in Requests : req[q].at = "purge" /\ d \in req[q].rows
      BY <2>3
    <3>2. req'[q] = req[q]
      BY <2>1, <3>1, <1>3
    <3>. QED  BY <3>1, <3>2 DEF Accounted
  <2>. QED  BY <2>1, <2>2, <2>3 DEF Accounted
<1>8. RowsKept'
  BY <1>7 DEF RowsKept
<1>9. NoReplay' /\ LossKnown(grant', spent', history'.lost) /\ SelectionOnSite'
  BY <1>1 DEF IInv, NoReplay, SelectionOnSite, Connected
<1>. QED  BY <1>4, <1>6, <1>8, <1>9 DEF IInv

LEMMA PurgeRowsPreserved ==
  ASSUME IInv, NEW p \in Requests, PurgeRows(p)
  PROVE  IInv'
<1>1. history \in Histories
  BY Reads
<1>. QED  BY <1>1, PurgeStep DEF PurgeRows

LEMMA PurgeFailsPreserved ==
  ASSUME IInv, NEW p \in Requests, PurgeFails(p)
  PROVE  IInv'
<1>1. history \in Histories
  BY Reads
<1>. DEFINE yes == TRUE  h == [history EXCEPT !.troubles = history.troubles + 1]
<1>2. history' = [h EXCEPT !.unpurged = yes] /\ yes \in BOOLEAN
  BY DEF PurgeFails
<1>6. /\ h \in Histories /\ h.replayed = history.replayed
      /\ h.lost = history.lost /\ h.issued = history.issued
  BY <1>1 DEF Histories
<1>. HIDE DEF yes, h
<1>3. /\ history' \in Histories /\ history'.replayed = history.replayed
      /\ history'.lost = history.lost /\ history'.issued = history.issued
      /\ history'.unpurged = yes
  BY <1>2, <1>6 DEF Histories
<1>4. req[p].at = "purge" /\ End(p) /\ UNCHANGED <<grant, states, stale, atlassian>>
      /\ docs' \subseteq docs
  BY DEF PurgeFails
<1>5. history'.unpurged
  BY <1>3 DEF yes
<1>. QED  BY <1>3, <1>4, <1>5, PurgeStep

-----------------------------------------------------------------------------
(* Requests that call Jira.                                                *)

LEMMA AdmitsIs ==
  ASSUME IInv, NEW op \in Listings \cup Changes, Admits(op)
  PROVE  /\ grant # None
         /\ op \in {"select", "sync"} => grant.site \in Sites
<1>1. grant = None => ConnectionState(grant) = "disconnected"
  BY DEF ConnectionState
<1>2. grant # None /\ ~grant.reauth /\ grant.site = None =>
        ConnectionState(grant) = "site_selection_required"
  BY DEF ConnectionState
<1>3. grant # None /\ grant.reauth => ConnectionState(grant) = "reauthorization_required"
  BY DEF ConnectionState
<1>4. grant # None
  BY <1>1 DEF Admits, Connected, Listings, Changes
<1>5. grant.site \in Sites \cup {None}
  BY <1>4, ReadsGrant, GrantFields
<1>6. ASSUME op \in {"select", "sync"}
      PROVE  ConnectionState(grant) \in {"setup_required", "ready"}
  <2>1. CASE op = "select"
    BY <2>1 DEF Admits
  <2>2. CASE op = "sync"
    BY <2>2 DEF Admits
  <2>. QED  BY <1>6, <2>1, <2>2
<1>7. ASSUME op \in {"select", "sync"}
      PROVE  grant.site # None
  <2>1. ConnectionState(grant) # "reauthorization_required"
        /\ ConnectionState(grant) # "site_selection_required"
    BY <1>6, <1>7
  <2>. QED  BY <1>2, <1>3, <1>4, <2>1
<1>. QED  BY <1>4, <1>5, <1>7

LEMMA BeginPreserved ==
  ASSUME IInv, NEW p \in Requests, NEW op \in Listings \cup Changes, NEW arg \in Arguments,
         op = "site" => arg \in Sites, op = "select" => arg \in SUBSET Keys,
         Begin(p, op, arg)
  PROVE  IInv'
<1>. DEFINE at == IF op = "disconnect" \/ (op = "select" /\ arg = {})
                    THEN "save" ELSE FirstStep(grant)
            r == [op |-> op, arg |-> arg, snap |-> grant, access |-> grant.access,
                  refresh |-> grant.refresh, again |-> FALSE, at |-> at]
            n == Len(pairs)  m == Len(consents)
<1>1. /\ n \in Nat /\ m \in Nat /\ history \in Histories
      /\ grant # None => grant \in Grants(n, m)
  BY Reads
<1>2. /\ MayStart(p, op) /\ Admits(op) /\ Started /\ req' = [req EXCEPT ![p] = r]
      /\ UNCHANGED <<grant, states, stale, docs, atlassian>>
  BY DEF Begin
<1>3. /\ grant # None /\ grant \in Grants(n, m)
      /\ op \in {"select", "sync"} => grant.site \in Sites
  BY <1>1, <1>2, AdmitsIs
<1>4. grant.access \in 0..n /\ grant.refresh \in 0..n
  BY <1>1, <1>3, GrantFields
<1>5. /\ at \in {"renew", "renew_again", "call", "save"} /\ at # "purge"
      /\ at = "save" /\ op = "select" => arg = {}
  BY DEF FirstStep
<1>. HIDE DEF at
<1>6. /\ r \in Begun(n, m) /\ r.op = op /\ r.arg = arg /\ r.snap = grant /\ r.at = at
  BY <1>3, <1>4, <1>5 DEF Begun
<1>7. Moves(p) /\ req'[p] = r
  BY <1>2, Reads DEF Moves
<1>. HIDE DEF r
<1>8. LocalOK(r, grant, spent)
  <2>1. r.op # "connect"
    BY <1>6 DEF Listings, Changes
  <2>2. AtHome(r, grant)
    BY <1>3, <1>6 DEF AtHome
  <2>3. Checked(r)
    BY <1>3, <1>5, <1>6 DEF Checked
  <2>. QED  BY <2>1, <2>2, <2>3 DEF LocalOK, FreshPair
<1>9. /\ req[p] = Idle
      /\ op \in Listings \/ \A q \in Requests : req[q].op \in Listings \cup {None}
  BY <1>2 DEF MayStart
<1>10. req[p].at # "purge"
  BY <1>9 DEF Idle
<1>11. r \in Shapes(n, m)
  BY <1>6 DEF Shapes
<1>12. stale' \subseteq states' /\ states' \subseteq 1..history'.issued
  BY <1>2, StartedIs DEF IInv, Types
<1>. QED  BY <1>2, <1>6, <1>7, <1>8, <1>9, <1>10, <1>11, <1>12, StartedIs, QuietStep

LEMMA BeginsPreserved ==
  ASSUME IInv, NEW p \in Requests,
         \/ ListSites(p) \/ ListProjects(p) \/ PutSite(p) \/ PutSelection(p)
         \/ SyncJira(p) \/ Disconnect(p)
  PROVE  IInv'
<1>0. /\ {"sites", "projects", "site", "select", "sync", "disconnect"} \subseteq Listings \cup Changes
      /\ None \in Arguments
  BY DEF Listings, Changes, Arguments
<1>1. CASE ListSites(p)
  BY <1>0, <1>1, BeginPreserved DEF ListSites
<1>2. CASE ListProjects(p)
  BY <1>0, <1>2, BeginPreserved DEF ListProjects
<1>3. CASE PutSite(p)
  <2>1. PICK s \in Sites : Begin(p, "site", s)
    BY <1>3 DEF PutSite
  <2>2. s \in Arguments
    BY DEF Arguments
  <2>. QED  BY <1>0, <2>1, <2>2, BeginPreserved
<1>4. CASE PutSelection(p)
  <2>1. PICK keys \in SUBSET Keys : Begin(p, "select", keys)
    BY <1>4 DEF PutSelection
  <2>2. keys \in Arguments
    BY DEF Arguments
  <2>. QED  BY <1>0, <2>1, <2>2, BeginPreserved
<1>5. CASE SyncJira(p)
  BY <1>0, <1>5, BeginPreserved DEF SyncJira
<1>6. CASE Disconnect(p)
  BY <1>0, <1>6, BeginPreserved DEF Disconnect
<1>. QED  BY <1>1, <1>2, <1>3, <1>4, <1>5, <1>6

-----------------------------------------------------------------------------
(* The rotation of a token pair.                                           *)

LEMMA RotatesIs ==
  ASSUME IInv, NEW p \in Requests, Rotates(p)
  PROVE  /\ grant \in Grants(Len(pairs), Len(consents)) /\ grant # None
         /\ grant.access # 0 /\ Sent(p) = grant.refresh
         /\ grant.refresh \in 0..Len(pairs) /\ req[p].at # "purge"
<1>1. grant # None /\ ~grant.reauth /\ req[p].at # "purge"
  BY DEF Rotates, Connected, Renewing
<1>2. grant \in Grants(Len(pairs), Len(consents))
  BY <1>1, ReadsGrant
<1>3. grant.reauth = (grant.access = 0) /\ grant.refresh \in 0..Len(pairs)
  BY <1>2, ReadsGrant, GrantFields
<1>. QED  BY <1>1, <1>2, <1>3, SentIs

\* A request that takes the stored pair, or a new one, goes on to its call.
LEMMA TakesPairIs ==
  ASSUME IInv, NEW p \in Requests, Renewing(p), NEW n \in Nat, Len(pairs) <= n,
         NEW a \in 0..n, NEW r \in 0..n, TakesPair(p, a, r)
  PROVE  /\ Moves(p) /\ req'[p] \in Shapes(n, Len(consents))
         /\ \A g : SameHome(grant, g) => \A used : LocalOK(req'[p], g, used)
         /\ req'[p].op = req[p].op
<1>1. req[p].at \in {"renew", "renew_again"} /\ Len(pairs) \in Nat /\ Len(consents) \in Nat
      /\ LocalOK(req[p], grant, spent)
  BY Reads DEF Renewing
<1>2. req[p] \in Begun(Len(pairs), Len(consents)) /\ req[p].op # "connect"
  BY <1>1, Reads, ShapeOf, BegunFields
<1>3. req[p] \in Begun(n, Len(consents))
  <2>1. Grants(Len(pairs), Len(consents)) \subseteq Grants(n, Len(consents))
    BY <1>1, GrantGrows
  <2>2. 0..Len(pairs) \subseteq 0..n
    BY <1>1
  <2>. QED  BY <1>2, <2>1, <2>2 DEF Begun
<1>. DEFINE again == req[p].again \/ req[p].at = "renew_again"
<1>4. /\ Moves(p)
      /\ req'[p] = [req[p] EXCEPT !.access = a, !.refresh = r, !.again = again, !.at = "call"]
  BY Reads DEF TakesPair, Moves
<1>5. again \in BOOLEAN
  OBVIOUS
<1>. HIDE DEF again
<1>6. req'[p] \in Begun(n, Len(consents))
  BY <1>3, <1>4, <1>5 DEF Begun
<1>7. /\ req'[p].op = req[p].op /\ req'[p].arg = req[p].arg /\ req'[p].snap = req[p].snap
      /\ req'[p].at = "call"
  BY <1>3, <1>4 DEF Begun
<1>8. ASSUME NEW g, SameHome(grant, g), NEW used
      PROVE  LocalOK(req'[p], g, used)
  <2>1. req[p].at # "purge"
    BY <1>1
  <2>2. AtHome(req'[p], g)
    BY <1>1, <1>7, <1>8, <2>1 DEF LocalOK, AtHome, SameHome
  <2>3. Checked(req'[p])
    BY <1>1, <1>7, <2>1 DEF LocalOK, Checked
  <2>. QED  BY <1>2, <1>7, <2>2, <2>3 DEF LocalOK, FreshPair
<1>. QED  BY <1>4, <1>6, <1>7, <1>8 DEF Shapes

LEMMA RotateNotNeededPreserved ==
  ASSUME IInv, NEW p \in Requests, RotateNotNeeded(p)
  PROVE  IInv'
<1>1. /\ Renewing(p) /\ UNCHANGED <<grant, states, stale, docs, atlassian, history>>
      /\ req[p].at # "purge" /\ history \in Histories
  BY Reads DEF RotateNotNeeded, Renewing
<1>2. CASE Connected /\ ~grant.reauth
  <2>1. TakesPair(p, grant.access, grant.refresh)
    BY <1>2 DEF RotateNotNeeded
  <2>2. grant.access \in 0..Len(pairs) /\ grant.refresh \in 0..Len(pairs)
        /\ Len(pairs) \in Nat /\ Len(pairs) <= Len(pairs)
    BY <1>2, ReadsGrant, GrantFields DEF Connected
  <2>3. SameHome(grant, grant)
    BY DEF SameHome
  <2>4. /\ Moves(p) /\ req'[p] \in Shapes(Len(pairs), Len(consents))
        /\ LocalOK(req'[p], grant, spent) /\ req'[p].op = req[p].op
    BY <1>1, <2>1, <2>2, <2>3, TakesPairIs
  <2>5. stale' \subseteq states' /\ states' \subseteq 1..history'.issued
    BY <1>1 DEF IInv, Types
  <2>. QED  BY <1>1, <2>4, <2>5, QuietStep
<1>3. CASE ~(Connected /\ ~grant.reauth)
  BY <1>1, <1>3, EndQuiet DEF RotateNotNeeded
<1>. QED  BY <1>2, <1>3

\* A step that takes the tokens out of the stored grant and ends its request.
LEMMA WipeStep ==
  ASSUME IInv, NEW p \in Requests, grant # None, grant' = WithoutTokens(grant), End(p),
         req[p].at # "purge", UNCHANGED <<states, stale, docs, pairs, expired, consents, revoked>>,
         spent' \subseteq spent \cup {grant.refresh}, spent' \subseteq 1..Len(pairs),
         history' \in Histories, history'.unpurged = history.unpurged,
         history'.issued = history.issued, NoReplay'
  PROVE  IInv'
<1>1. /\ Len(pairs) \in Nat /\ Len(consents) \in Nat
      /\ grant \in Grants(Len(pairs), Len(consents)) /\ Len(pairs) <= Len(pairs)
  BY ReadsGrant
<1>2. /\ grant' \in Grants(Len(pairs), Len(consents))
      /\ grant'.access = 0 /\ grant'.refresh = 0 /\ SameHome(grant, grant')
  BY <1>1, WithoutTokensIs
<1>3. Rotated(Len(pairs))
  BY <1>2 DEF Rotated
<1>4. LossKnown(grant', spent', history'.lost)
  BY <1>2 DEF LossKnown
<1>5. /\ Moves(p) /\ req'[p] = Idle /\ Idle \in Shapes(Len(pairs), Len(consents))
      /\ LocalOK(Idle, grant', spent') /\ Idle.op = None
  BY <1>1, EndMoves, IdleIs
<1>6. /\ pairs' \in Seq(Nat)
      /\ Len(pairs') # 0 => Len(consents) # 0
      /\ docs' \subseteq Rows(Len(consents))
  BY DEF IInv, Types
<1>7. /\ Len(pairs) <= Len(pairs') /\ consents' = consents
      /\ grant' \in Grants(Len(pairs'), Len(consents)) \cup {None}
      /\ spent' \subseteq 1..Len(pairs')
      /\ req'[p] \in Shapes(Len(pairs'), Len(consents)) /\ LocalOK(req'[p], grant', spent')
      /\ req'[p].op \in {req[p].op, None}
  BY <1>1, <1>2, <1>5
<1>8. \A d \in docs' : d \in docs \/ Owns(grant', d)
  OBVIOUS
<1>9. UNCHANGED <<states, stale, expired, revoked>> /\ Moves(p)
  BY <1>5
<1>. QED  BY <1>3, <1>4, <1>6, <1>7, <1>8, <1>9, TokenStep

LEMMA RotateRefusedPreserved ==
  ASSUME IInv, NEW p \in Requests, RotateRefused(p)
  PROVE  IInv'
<1>1. /\ Rotates(p) /\ grant' = Stored(WithoutTokens(grant)) /\ End(p)
      /\ history' = [history EXCEPT !.replayed = @ \cup ({Sent(p)} \cap spent)]
      /\ UNCHANGED <<states, stale, docs, pairs, spent, expired, consents, revoked>>
  BY DEF RotateRefused, Store, atlassian
<1>2. /\ grant \in Grants(Len(pairs), Len(consents)) /\ grant # None /\ grant.access # 0
      /\ Sent(p) = grant.refresh /\ grant.refresh \in 0..Len(pairs) /\ req[p].at # "purge"
      /\ Len(pairs) \in Nat /\ Len(consents) \in Nat /\ history \in Histories
  BY <1>1, RotatesIs, Reads
<1>3. grant' = WithoutTokens(grant)
  BY <1>1, <1>2, WithoutTokensIs
<1>. DEFINE sent == {Sent(p)} \cap spent
<1>4. sent \in SUBSET Nat /\ sent \subseteq history.lost
  BY <1>2 DEF IInv, LossKnown
<1>. HIDE DEF sent
<1>5. history' = [history EXCEPT !.replayed = @ \cup sent]
  BY <1>1 DEF sent
<1>6. /\ history' \in Histories /\ history'.replayed = history.replayed \cup sent
      /\ history'.lost = history.lost /\ history'.unpurged = history.unpurged
      /\ history'.issued = history.issued
  BY <1>2, <1>4, <1>5 DEF Histories
<1>7. NoReplay'
  BY <1>4, <1>6 DEF IInv, NoReplay
<1>8. spent' \subseteq spent \cup {grant.refresh} /\ spent' \subseteq 1..Len(pairs)
  BY <1>1 DEF IInv, Types
<1>. QED  BY <1>1, <1>2, <1>3, <1>6, <1>7, <1>8, WipeStep

LEMMA RotateWithoutRefreshPreserved ==
  ASSUME IInv, NEW p \in Requests, RotateWithoutRefresh(p)
  PROVE  IInv'
<1>1. /\ Rotates(p) /\ Refreshable(Sent(p)) /\ Trouble
      /\ spent' = spent \cup {Sent(p)} /\ grant' = Stored(WithoutTokens(grant)) /\ End(p)
      /\ UNCHANGED <<states, stale, docs, pairs, expired, consents, revoked>>
  BY DEF RotateWithoutRefresh, Store
<1>2. /\ grant \in Grants(Len(pairs), Len(consents)) /\ grant # None
      /\ Sent(p) = grant.refresh /\ grant.refresh \in 0..Len(pairs) /\ req[p].at # "purge"
      /\ Len(pairs) \in Nat /\ Len(consents) \in Nat
  BY <1>1, RotatesIs, Reads
<1>3. grant' = WithoutTokens(grant)
  BY <1>1, <1>2, WithoutTokensIs
<1>4. grant.refresh \in 1..Len(pairs)
  BY <1>1, <1>2 DEF Refreshable
<1>5. spent' \subseteq spent \cup {grant.refresh} /\ spent' \subseteq 1..Len(pairs)
  BY <1>1, <1>2, <1>4 DEF IInv, Types
<1>6. /\ history' \in Histories /\ history'.replayed = history.replayed
      /\ history'.lost = history.lost /\ history'.unpurged = history.unpurged
      /\ history'.issued = history.issued
  BY <1>1, TroubleIs
<1>7. NoReplay'
  BY <1>6 DEF IInv, NoReplay
<1>. QED  BY <1>1, <1>2, <1>3, <1>5, <1>6, <1>7, WipeStep

Renewed(g, pair, timed) == [g EXCEPT !.access = pair, !.refresh = pair, !.timed = timed]

LEMMA RenewedIs ==
  ASSUME NEW g \in Connections, NEW pair \in Nat, NEW timed \in BOOLEAN
  PROVE  /\ Renewed(g, pair, timed) \in Connections
         /\ Renewed(g, pair, timed).access = pair /\ Renewed(g, pair, timed).refresh = pair
         /\ Renewed(g, pair, timed).site = g.site /\ Renewed(g, pair, timed).keys = g.keys
         /\ Renewed(g, pair, timed).id = g.id /\ Renewed(g, pair, timed).reauth = g.reauth
BY DEF Renewed, Connections

LEMMA RotateOkPreserved ==
  ASSUME IInv, NEW p \in Requests, RotateOk(p)
  PROVE  IInv'
<1>. DEFINE n == Len(pairs)  m == Len(consents)
<1>1. PICK timed \in BOOLEAN : grant' = Stored(Renewed(grant, n + 1, timed))
  BY DEF RotateOk, Store, Renewed
<1>. DEFINE h == Renewed(grant, n + 1, timed)
<1>17. grant' = Stored(h)
  BY <1>1
<1>2. /\ Rotates(p) /\ Renewing(p) /\ Refreshable(Sent(p))
      /\ pairs' = Append(pairs, pairs[Sent(p)]) /\ spent' = spent \cup {Sent(p)}
      /\ TakesPair(p, n + 1, n + 1)
      /\ UNCHANGED <<states, stale, docs, expired, consents, revoked, history>>
  BY DEF RotateOk, Rotates
<1>3. /\ grant \in Grants(n, m) /\ grant # None /\ grant.access # 0
      /\ Sent(p) = grant.refresh /\ grant.refresh \in 0..n /\ req[p].at # "purge"
      /\ n \in Nat /\ m \in Nat /\ history \in Histories /\ pairs \in Seq(Nat)
  BY <1>2, RotatesIs, Reads
<1>4. grant.refresh \in 1..n
  BY <1>2, <1>3 DEF Refreshable
<1>5. pairs' \in Seq(Nat) /\ Len(pairs') = n + 1
  <2>1. pairs[Sent(p)] \in Nat
    BY <1>3, <1>4, ElementOfSeq
  <2>. QED  BY <1>2, <1>3, <2>1, AppendProperties
<1>6. /\ h \in Grants(n + 1, m) /\ h.access = n + 1 /\ h.refresh = n + 1
      /\ h.site = grant.site /\ h.keys = grant.keys /\ h.id = grant.id
  <2>1. /\ grant \in Connections /\ grant.id \in 1..m /\ grant.reauth = (grant.access = 0)
        /\ grant.reauth \in BOOLEAN
    BY <1>3, GrantFields DEF Connections
  <2>2. /\ h \in Connections /\ h.access = n + 1 /\ h.refresh = n + 1
        /\ h.site = grant.site /\ h.keys = grant.keys /\ h.id = grant.id
        /\ h.reauth = grant.reauth
    <3>1. n + 1 \in Nat
      BY <1>3
    <3>. QED  BY <2>1, <3>1, RenewedIs
  <2>. HIDE DEF h
  <2>3. h.access # 0 /\ h.access \in 0..(n + 1) /\ h.refresh \in 0..(n + 1)
    BY <1>3, <2>2
  <2>4. h.reauth = (h.access = 0)
    <3>1. (grant.access = 0) = (h.access = 0)
      BY <1>3, <2>3
    <3>. QED  BY <2>1, <2>2, <3>1
  <2>. QED  BY <2>1, <2>2, <2>3, <2>4 DEF Grants
<1>. HIDE DEF h
<1>7. grant' = h
  <2>1. n + 1 \in Nat
    BY <1>3
  <2>2. Stored(h) = h
    BY <1>3, <1>6, <2>1, StoredIs
  <2>. QED  BY <1>17, <2>2
<1>8. SameHome(grant, grant')
  <2>1. n + 1 \in Nat
    BY <1>3
  <2>2. h # None
    BY <1>3, <1>6, <2>1, GrantFields
  <2>. QED  BY <1>3, <1>6, <1>7, <2>2 DEF SameHome
<1>9. Rotated(n)
  <2>1. grant'.refresh = n + 1
    BY <1>6, <1>7
  <2>. QED  BY <1>2, <1>3, <1>8, <2>1 DEF Rotated
<1>10. spent' \subseteq 1..Len(pairs') /\ n + 1 \notin spent'
  <2>1. spent \subseteq 1..n
    BY DEF IInv, Types
  <2>2. spent' = spent \cup {grant.refresh}
    BY <1>2, <1>3
  <2>3. spent' \subseteq 1..n
    BY <1>4, <2>1, <2>2
  <2>. QED  BY <1>3, <1>5, <2>3
<1>11. LossKnown(grant', spent', history'.lost)
  BY <1>6, <1>7, <1>10 DEF LossKnown
<1>12. NoReplay' /\ docs' \subseteq Rows(m)
  BY <1>2 DEF IInv, NoReplay, Types
<1>13. /\ Moves(p) /\ req'[p] \in Shapes(n + 1, m)
       /\ \A used : LocalOK(req'[p], grant', used) /\ req'[p].op = req[p].op
  <2>1. n + 1 \in Nat /\ n <= n + 1 /\ n + 1 \in 0..(n + 1)
    BY <1>3
  <2>. QED  BY <1>2, <1>8, <2>1, TakesPairIs
<1>14. Len(pairs') # 0 => m # 0
  BY <1>3, <1>4 DEF IInv, Types
<1>15. /\ Len(pairs) <= Len(pairs') /\ grant' \in Grants(Len(pairs'), m) \cup {None}
       /\ req'[p] \in Shapes(Len(pairs'), m) /\ LocalOK(req'[p], grant', spent')
       /\ req'[p].op \in {req[p].op, None}
       /\ \A d \in docs' : d \in docs \/ Owns(grant', d)
  BY <1>2, <1>3, <1>5, <1>6, <1>7, <1>13
<1>16. /\ history' \in Histories /\ history'.unpurged = history.unpurged
       /\ history'.issued = history.issued
       /\ consents' = consents /\ UNCHANGED <<states, stale, expired, revoked>>
  BY <1>2, <1>3
<1>. QED  BY <1>3, <1>5, <1>9, <1>10, <1>11, <1>12, <1>13, <1>14, <1>15, <1>16, TokenStep

LEMMA RotateLostPreserved ==
  ASSUME IInv, NEW p \in Requests, RotateLost(p)
  PROVE  IInv'
<1>1. PICK arrived \in BOOLEAN :
        LET gone == IF arrived THEN {Sent(p)} ELSE {}
        IN  /\ spent' = spent \cup gone
            /\ history' = [history EXCEPT !.troubles = @ + 1, !.lost = @ \cup gone]
  BY DEF RotateLost
<1>. DEFINE gone == IF arrived THEN {Sent(p)} ELSE {}
            counted == [history EXCEPT !.troubles = history.troubles + 1]
<1>2. /\ Rotates(p) /\ Refreshable(Sent(p)) /\ End(p)
      /\ UNCHANGED <<grant, states, stale, docs, pairs, expired, consents, revoked>>
      /\ spent' = spent \cup gone /\ history' = [counted EXCEPT !.lost = @ \cup gone]
  BY <1>1 DEF RotateLost
<1>3. /\ grant \in Grants(Len(pairs), Len(consents)) /\ grant # None
      /\ Sent(p) = grant.refresh /\ grant.refresh \in 0..Len(pairs) /\ req[p].at # "purge"
      /\ Len(pairs) \in Nat /\ Len(consents) \in Nat /\ history \in Histories
  BY <1>2, RotatesIs, Reads
<1>4. grant.refresh \in 1..Len(pairs)
  BY <1>2, <1>3 DEF Refreshable
<1>5. gone \subseteq {grant.refresh} /\ gone \in SUBSET Nat
  BY <1>3, <1>4
<1>6. /\ counted \in Histories /\ counted.replayed = history.replayed
      /\ counted.lost = history.lost /\ counted.unpurged = history.unpurged
      /\ counted.issued = history.issued
  BY <1>3 DEF Histories
<1>. HIDE DEF gone, counted
<1>7. /\ history' \in Histories /\ history'.replayed = history.replayed
      /\ history'.lost = history.lost \cup gone /\ history'.unpurged = history.unpurged
      /\ history'.issued = history.issued
  BY <1>2, <1>5, <1>6 DEF Histories
<1>8. NoReplay'
  BY <1>7 DEF IInv, NoReplay
<1>9. LossKnown(grant', spent', history'.lost)
  BY <1>2, <1>7 DEF IInv, LossKnown
<1>10. Rotated(Len(pairs))
  BY <1>2, <1>3, <1>5 DEF Rotated, SameHome
<1>11. /\ Moves(p) /\ req'[p] = Idle /\ Idle \in Shapes(Len(pairs), Len(consents))
       /\ LocalOK(Idle, grant', spent') /\ Idle.op = None
  BY <1>2, <1>3, EndMoves, IdleIs
<1>12. spent' \subseteq 1..Len(pairs)
  BY <1>2, <1>4, <1>5 DEF IInv, Types
<1>13. /\ pairs' \in Seq(Nat) /\ Len(pairs) <= Len(pairs')
       /\ Len(pairs') # 0 => Len(consents) # 0
       /\ docs' \subseteq Rows(Len(consents))
  BY <1>2, <1>3 DEF IInv, Types
<1>14. /\ spent' \subseteq 1..Len(pairs') /\ consents' = consents
       /\ grant' \in Grants(Len(pairs'), Len(consents)) \cup {None}
       /\ req'[p] \in Shapes(Len(pairs'), Len(consents)) /\ LocalOK(req'[p], grant', spent')
       /\ req'[p].op \in {req[p].op, None}
       /\ \A d \in docs' : d \in docs \/ Owns(grant', d)
       /\ UNCHANGED <<states, stale, expired, revoked>>
  BY <1>2, <1>3, <1>11, <1>12
<1>. QED  BY <1>3, <1>7, <1>8, <1>9, <1>10, <1>11, <1>13, <1>14, TokenStep

-----------------------------------------------------------------------------
(* The call to Jira.                                                       *)

LEMMA CallingIs ==
  ASSUME IInv, NEW p \in Requests, Calling(p)
  PROVE  /\ req[p].at = "call" /\ req[p].at # "purge"
         /\ req[p] \in Begun(Len(pairs), Len(consents)) /\ req[p].op # "connect"
         /\ LocalOK(req[p], grant, spent) /\ history \in Histories
<1>1. req[p].at = "call"
  BY DEF Calling
<1>2. req[p] \in Begun(Len(pairs), Len(consents))
  BY <1>1, Reads, ShapeOf
<1>. QED  BY <1>1, <1>2, Reads, BegunFields

\* The request goes on: to a second renewal, or to save what was checked.
LEMMA GotoQuiet ==
  ASSUME IInv, NEW p \in Requests, Calling(p), NEW at \in {"renew_again", "save"},
         Goto(p, at), UNCHANGED <<grant, states, stale, docs, atlassian, history>>,
         at = "save" /\ req[p].op = "select" => req[p].arg \subseteq Has[req[p].snap.site]
  PROVE  IInv'
<1>1. /\ req[p].at = "call" /\ req[p].at # "purge"
      /\ req[p] \in Begun(Len(pairs), Len(consents)) /\ req[p].op # "connect"
      /\ LocalOK(req[p], grant, spent) /\ history \in Histories
  BY CallingIs
<1>2. Moves(p) /\ req'[p] = [req[p] EXCEPT !.at = at]
  BY Reads DEF Goto, Moves
<1>3. /\ req'[p] \in Begun(Len(pairs), Len(consents)) /\ req'[p].at = at
      /\ req'[p].op = req[p].op /\ req'[p].arg = req[p].arg /\ req'[p].snap = req[p].snap
  BY <1>1, <1>2 DEF Begun
<1>4. LocalOK(req'[p], grant, spent)
  <2>1. AtHome(req'[p], grant)
    BY <1>1, <1>3 DEF LocalOK, AtHome
  <2>2. Checked(req'[p])
    BY <1>1, <1>3 DEF LocalOK, Checked
  <2>. QED  BY <1>1, <1>3, <2>1, <2>2 DEF LocalOK, FreshPair
<1>5. req'[p] \in Shapes(Len(pairs), Len(consents))
  BY <1>3 DEF Shapes
<1>6. stale' \subseteq states' /\ states' \subseteq 1..history'.issued
  BY DEF IInv, Types
<1>. QED  BY <1>1, <1>2, <1>3, <1>4, <1>5, <1>6, QuietStep

\* Atlassian refuses the stored token: the grant is marked, the request ends.
LEMMA UnauthorizedStep ==
  ASSUME IInv, NEW p \in Requests, Calling(p), Store(Unauthorized), End(p),
         UNCHANGED <<states, stale, docs, atlassian, history>>
  PROVE  IInv'
<1>1. req[p].at # "purge" /\ history \in Histories
  BY CallingIs
<1>2. CASE grant = None
  <2>1. grant' = grant
    BY <1>2, StoredNone DEF Store, Unauthorized, Connected
  <2>. QED  BY <1>1, <2>1, EndQuiet
<1>3. CASE grant # None
  <2>1. grant' = WithoutTokens(grant)
    BY <1>3, ReadsGrant, WithoutTokensIs DEF Store, Unauthorized, Connected
  <2>2. /\ UNCHANGED <<states, stale, docs, pairs, expired, consents, revoked>>
        /\ spent' \subseteq spent \cup {grant.refresh} /\ spent' \subseteq 1..Len(pairs)
    BY DEF IInv, Types, atlassian
  <2>3. NoReplay'
    BY DEF IInv, NoReplay
  <2>. QED  BY <1>1, <1>3, <2>1, <2>2, <2>3, WipeStep
<1>. QED  BY <1>2, <1>3

LEMMA CallRefusedPreserved ==
  ASSUME IInv, NEW p \in Requests, CallRefused(p)
  PROVE  IInv'
<1>1. Calling(p) /\ UNCHANGED <<states, stale, docs, atlassian, history>>
  BY DEF CallRefused
<1>2. CASE req[p].again
  BY <1>1, <1>2, UnauthorizedStep DEF CallRefused
<1>3. CASE ~req[p].again
  <2>1. Goto(p, "renew_again") /\ grant' = grant
    BY <1>3 DEF CallRefused
  <2>. QED  BY <1>1, <2>1, GotoQuiet
<1>. QED  BY <1>2, <1>3

LEMMA CallEnds ==
  ASSUME IInv, NEW p \in Requests, Calling(p), End(p),
         UNCHANGED <<grant, states, stale, docs, atlassian, history>>
  PROVE  IInv'
BY CallingIs, EndQuiet

LEMMA CallFailsPreserved ==
  ASSUME IInv, NEW p \in Requests, CallFails(p)
  PROVE  IInv'
BY CallingIs, TroubleIs, EndQuiet DEF CallFails

LEMMA ListsPreserved ==
  ASSUME IInv, NEW p \in Requests, Lists(p)
  PROVE  IInv'
BY CallEnds DEF Lists

LEMMA ChecksSitePreserved ==
  ASSUME IInv, NEW p \in Requests, ChecksSite(p)
  PROVE  IInv'
<1>1. /\ Calling(p) /\ UNCHANGED <<grant, states, stale, docs, atlassian, history>>
      /\ Goto(p, "save") \/ End(p)
  BY DEF ChecksSite
<1>2. CASE Goto(p, "save")
  <2>1. req[p].op # "select"
    BY DEF ChecksSite
  <2>. QED  BY <1>1, <1>2, <2>1, GotoQuiet
<1>. QED  BY <1>1, <1>2, CallEnds

LEMMA ChecksProjectsPreserved ==
  ASSUME IInv, NEW p \in Requests, ChecksProjects(p)
  PROVE  IInv'
<1>1. Calling(p) /\ UNCHANGED <<grant, states, stale, docs, atlassian, history>>
  BY DEF ChecksProjects
<1>2. \/ Goto(p, "save") /\ req[p].arg \subseteq Has[req[p].snap.site]
      \/ End(p)
  BY DEF ChecksProjects
<1>. QED  BY <1>1, <1>2, GotoQuiet, CallEnds

\* A synchronization adds rows of its own connector.
LEMMA SynchronizesPreserved ==
  ASSUME IInv, NEW p \in Requests, Synchronizes(p)
  PROVE  IInv'
<1>. DEFINE snap == req[p].snap
<1>1. /\ Calling(p) /\ End(p) /\ req[p].op = "sync"
      /\ UNCHANGED <<states, stale, atlassian, history>>
  BY DEF Synchronizes
<1>2. CASE snap.site \notin Reach(req[p].access)
  BY <1>1, <1>2, UnauthorizedStep DEF Synchronizes
<1>3. CASE snap.site \in Reach(req[p].access)
  <2>1. docs' = Synced(snap) /\ grant' = grant
    BY <1>3 DEF Synchronizes
  <2>2. /\ req[p].at = "call" /\ req[p].at # "purge"
        /\ req[p] \in Begun(Len(pairs), Len(consents))
        /\ LocalOK(req[p], grant, spent) /\ history \in Histories
        /\ Len(pairs) \in Nat /\ Len(consents) \in Nat
    BY <1>1, CallingIs, Reads
  <2>3. /\ snap.id \in 1..Len(consents) /\ snap.keys \in SUBSET Keys
    BY <2>2, BegunFields, GrantFields
  <2>4. snap.site \in Sites /\ grant # None /\ grant.id = snap.id
    BY <1>1, <2>2 DEF LocalOK, AtHome, Checked, Changes
  <2>5. \A d \in docs' : d \in docs \/ (d \in OfConnector(snap.id) /\ d.id = snap.id)
    <3>1. \A k \in snap.keys : Row(snap.id, snap.site, k) \in OfConnector(snap.id)
                               /\ Row(snap.id, snap.site, k).id = snap.id
      BY <2>2, <2>3, <2>4, RowOf
    <3>. QED  BY <2>1, <3>1 DEF Synced
  <2>6. docs' \subseteq Rows(Len(consents))
    BY <2>2, <2>3, <2>5, RowOf DEF IInv, Types
  <2>7. \A d \in docs' : d \in docs \/ Owns(grant', d)
    BY <2>1, <2>4, <2>5 DEF Owns
  <2>8. Rotated(Len(pairs))
    BY <1>1, <2>1 DEF Rotated, SameHome, atlassian
  <2>9. /\ Moves(p) /\ req'[p] = Idle /\ Idle \in Shapes(Len(pairs), Len(consents))
        /\ LocalOK(Idle, grant', spent') /\ Idle.op = None
    BY <1>1, <2>2, EndMoves, IdleIs
  <2>10. /\ pairs' = pairs /\ consents' = consents /\ spent' = spent
         /\ UNCHANGED <<states, stale, expired, revoked>> /\ history' = history
    BY <1>1 DEF atlassian
  <2>11. /\ pairs' \in Seq(Nat) /\ Len(pairs) <= Len(pairs')
         /\ Len(pairs') # 0 => Len(consents) # 0
         /\ spent' \subseteq 1..Len(pairs')
         /\ grant' \in Grants(Len(pairs'), Len(consents)) \cup {None}
         /\ LossKnown(grant', spent', history'.lost) /\ NoReplay'
    BY <2>1, <2>2, <2>10 DEF IInv, Types, NoReplay
  <2>12. /\ req'[p] \in Shapes(Len(pairs'), Len(consents)) /\ LocalOK(req'[p], grant', spent')
         /\ req'[p].op \in {req[p].op, None} /\ history' \in Histories
         /\ history'.unpurged = history.unpurged /\ history'.issued = history.issued
    BY <2>2, <2>9, <2>10
  <2>. QED  BY <2>2, <2>6, <2>7, <2>8, <2>9, <2>10, <2>11, <2>12, TokenStep
<1>. QED  BY <1>2, <1>3

-----------------------------------------------------------------------------
(* Time, and the person at Atlassian.                                      *)

LEMMA WorldPreserved ==
  ASSUME IInv, World
  PROVE  IInv'
<1>0. /\ Len(pairs) \in Nat /\ Len(consents) \in Nat /\ history \in Histories
      /\ consents \in Seq(SUBSET Sites)
  BY ReadsGrant DEF IInv, Types
<1>1. /\ UNCHANGED <<grant, states, req, docs, pairs, spent>>
      /\ stale' \subseteq states'
      /\ expired' \subseteq 1..Len(pairs) /\ revoked' \subseteq 1..Len(consents)
      /\ consents' \in Seq(SUBSET Sites) /\ Len(consents') = Len(consents)
      /\ history' \in Histories /\ history'.replayed = history.replayed
      /\ history'.lost = history.lost /\ history'.unpurged = history.unpurged
      /\ history'.issued = history.issued
  <2>0. /\ stale \subseteq states /\ expired \subseteq 1..Len(pairs)
        /\ revoked \subseteq 1..Len(consents)
    BY DEF IInv, Types
  <2>1. CASE StateTimesOut
    BY <1>0, <2>0, <2>1 DEF StateTimesOut, atlassian
  <2>2. CASE TokenExpires
    BY <1>0, <2>0, <2>2 DEF TokenExpires
  <2>3. CASE ConsentWithdrawn
    <3>1. Trouble
      BY <2>3 DEF ConsentWithdrawn
    <3>. QED  BY <1>0, <2>0, <2>3, <3>1, TroubleIs DEF ConsentWithdrawn
  <2>4. CASE SiteLost
    <3>1. /\ Trouble
          /\ UNCHANGED <<grant, states, stale, req, docs, pairs, spent, expired, revoked>>
      BY <2>4 DEF SiteLost
    <3>2. PICK c \in 1..Len(consents) : \E s \in consents[c] :
            consents' = [consents EXCEPT ![c] = @ \ {s}]
      BY <2>4 DEF SiteLost
    <3>3. PICK s \in consents[c] : consents' = [consents EXCEPT ![c] = consents[c] \ {s}]
      BY <3>2
    <3>4. consents[c] \ {s} \in SUBSET Sites
      BY <1>0, ElementOfSeq
    <3>5. consents' \in Seq(SUBSET Sites) /\ Len(consents') = Len(consents)
      BY <1>0, <3>3, <3>4, ExceptSeq
    <3>. QED  BY <2>0, <3>1, <3>5, TroubleIs
  <2>5. CASE PermissionLost
    <3>. DEFINE k == history.troubles + 1
                h == [history EXCEPT !.troubles = k, !.barred = TRUE]
    <3>0. k \in Nat
      BY <1>0 DEF Histories
    <3>2. history' = h /\ UNCHANGED <<grant, states, stale, req, docs, atlassian>>
      BY <2>5 DEF PermissionLost
    <3>. HIDE DEF k
    <3>1. /\ h \in Histories /\ h.replayed = history.replayed /\ h.lost = history.lost
          /\ h.unpurged = history.unpurged /\ h.issued = history.issued
      BY <1>0, <3>0 DEF Histories
    <3>. HIDE DEF h
    <3>. QED  BY <1>0, <2>0, <3>1, <3>2 DEF atlassian
  <2>. QED  BY <2>1, <2>2, <2>3, <2>4, <2>5 DEF World
<1>2. Types'
  BY <1>1 DEF IInv, Types
<1>3. LInv' /\ LossKnown(grant', spent', history'.lost) /\ NoReplay'
      /\ SelectionOnSite' /\ RowsKept'
  BY <1>1 DEF IInv, LInv, NoReplay, SelectionOnSite, Connected, RowsKept
<1>. QED  BY <1>2, <1>3 DEF IInv

-----------------------------------------------------------------------------
LEMMA InitIInv == Init => IInv
<1>. SUFFICES ASSUME Init PROVE IInv
  OBVIOUS
<1>1. /\ grant = None /\ states = {} /\ stale = {} /\ docs = {} /\ spent = {}
      /\ expired = {} /\ revoked = {} /\ pairs = <<>> /\ consents = <<>>
      /\ req = [p \in Requests |-> Idle]
  BY DEF Init
<1>2. /\ history \in Histories /\ history.replayed = {} /\ history.lost = {}
  BY DEF Init, Histories
<1>3. /\ pairs \in Seq(Nat) /\ consents \in Seq(SUBSET Sites)
      /\ Len(pairs) = 0 /\ Len(consents) = 0
  BY <1>1, EmptySeq
<1>4. \A p \in Requests : req[p] = Idle
  BY <1>1
<1>5. Idle \in Shapes(0, 0) /\ Idle.op = None /\ LocalOK(Idle, grant, spent)
  BY IdleIs
<1>6. Types
  BY <1>1, <1>2, <1>3, <1>5 DEF Types
<1>7. LInv
  BY <1>4, <1>5, NoneIs DEF LInv, Alone
<1>8. LossKnown(grant, spent, history.lost) /\ NoReplay /\ SelectionOnSite /\ RowsKept
  BY <1>1, <1>2 DEF LossKnown, NoReplay, SelectionOnSite, Connected, RowsKept
<1>. QED  BY <1>6, <1>7, <1>8 DEF IInv

LEMMA NextPreserves == IInv /\ [Next]_vars => IInv'
<1>. SUFFICES ASSUME IInv, [Next]_vars PROVE IInv'
  OBVIOUS
<1>1. CASE StartOauth
  BY <1>1, OpeningPreserved
<1>2. CASE World
  BY <1>2, WorldPreserved
<1>3. CASE \E p \in Requests : Steps(p)
  <2>1. PICK p \in Requests : Steps(p)
    BY <1>3
  <2>2. CASE Callback(p) \/ Exchange(p) \/ ExchangeFails(p) \/ SaveConnection(p)
    BY <2>2, CallbackPreserved, ExchangePreserved, ExchangeFailsPreserved,
       SaveConnectionPreserved
  <2>3. CASE ListSites(p) \/ ListProjects(p) \/ PutSite(p) \/ PutSelection(p)
             \/ SyncJira(p) \/ Disconnect(p)
    BY <2>3, BeginsPreserved
  <2>4. CASE RotateNotNeeded(p) \/ RotateRefused(p) \/ RotateOk(p)
             \/ RotateWithoutRefresh(p) \/ RotateLost(p)
    BY <2>4, RotateNotNeededPreserved, RotateRefusedPreserved, RotateOkPreserved,
       RotateWithoutRefreshPreserved, RotateLostPreserved
  <2>5. CASE CallRefused(p) \/ CallFails(p) \/ Lists(p) \/ ChecksSite(p)
             \/ ChecksProjects(p) \/ Synchronizes(p)
    BY <2>5, CallRefusedPreserved, CallFailsPreserved, ListsPreserved,
       ChecksSitePreserved, ChecksProjectsPreserved, SynchronizesPreserved
  <2>6. CASE SaveSite(p) \/ SaveSelection(p) \/ SaveDisconnect(p)
             \/ PurgeRows(p) \/ PurgeFails(p)
    BY <2>6, SaveSitePreserved, SaveSelectionPreserved, SaveDisconnectPreserved,
       PurgeRowsPreserved, PurgeFailsPreserved
  <2>. QED  BY <2>1, <2>2, <2>3, <2>4, <2>5, <2>6 DEF Steps
<1>4. CASE UNCHANGED vars
  BY <1>4 DEF vars, IInv, Types, LInv, NoReplay, SelectionOnSite, Connected, RowsKept
<1>. QED  BY <1>1, <1>2, <1>3, <1>4 DEF Next

LEMMA InvariantHolds == Spec => []IInv
BY InitIInv, NextPreserves, PTL DEF Spec

\* Every variable holds what the code and Atlassian can put there, and a
\* stored grant is marked exactly when it has no tokens left (oauth.py
\* _connection_from_payload, cloud.py _without_tokens).
THEOREM TypeCorrect == Spec => []TypeOK
<1>1. IInv => TypeOK
  <2>. SUFFICES ASSUME IInv PROVE TypeOK
    OBVIOUS
  <2>1. Connected => /\ grant.access \in 0..Len(pairs) /\ grant.refresh \in 0..Len(pairs)
                     /\ grant.site \in Sites \cup {None} /\ grant.keys \subseteq Keys
                     /\ grant.id \in 1..Len(consents)
                     /\ grant.timed \in BOOLEAN /\ grant.reauth = (grant.access = 0)
    BY ReadsGrant, GrantFields DEF Connected
  <2>. QED  BY <2>1 DEF IInv, Types, TypeOK, Rows
<1>. QED  BY <1>1, InvariantHolds, PTL

\* However many requests find the same pair dead together, a refresh token is
\* sent a second time only after the answer to the first was lost: the look at
\* the stored pair inside the lock is enough (cloud.py _rotate).
THEOREM SentOnce == Spec => []NoReplay
<1>1. IInv => NoReplay
  BY DEF IInv
<1>. QED  BY <1>1, InvariantHolds, PTL

\* The selected projects exist on the selected site, whatever was selected,
\* switched and reconnected before (cloud.py complete_jira_oauth,
\* put_jira_site, put_jira_selection).
THEOREM SelectedOnSite == Spec => []SelectionOnSite
<1>1. IInv => SelectionOnSite
  BY DEF IInv
<1>. QED  BY <1>1, InvariantHolds, PTL

\* With no request under way and no failed purge, every Jira row belongs to
\* the stored connection, which can still remove it (cloud.py
\* disconnect_jira_oauth, complete_jira_oauth, _purge_jira_docs).
THEOREM RowsHaveOwner == Spec => []RowsOwned
<1>1. IInv => RowsOwned
  <2>. SUFFICES ASSUME IInv, \A p \in Requests : req[p] = Idle, ~history.unpurged,
                       NEW d \in docs
                PROVE  Connected /\ d.id = grant.id
    BY DEF RowsOwned
  <2>1. Accounted(d, grant, req)
    BY DEF IInv, RowsKept
  <2>2. \A p \in Requests : req[p].at # "purge"
    BY DEF Idle
  <2>. QED  BY <2>1, <2>2 DEF Accounted, Owns, Connected
<1>. QED  BY <1>1, InvariantHolds, PTL

-----------------------------------------------------------------------------
(* No request takes a usable grant away: the tokens a request goes through *)
(* follow one another in the order of their issue.                         *)

(* Pair b was issued to a later consent than a, or to the same and not     *)
(* before a: the stored grant only ever moves on to such a pair.           *)
NotAfter(P, a, b) == P[a] < P[b] \/ (P[a] = P[b] /\ a <= b)

(* A request goes from the pair of its snapshot to later ones; no pair     *)
(* that its consent was given after that snapshot runs out under it.       *)
TokensOK(r, g, P, out) ==
    r.access # 0 =>
      /\ r.snap.access \in 1..Len(P) /\ r.access \in 1..Len(P)
      /\ NotAfter(P, r.snap.access, r.access)
      /\ g # None /\ g.access # 0 => NotAfter(P, r.access, g.access)
      /\ \A e \in out : P[e] = P[r.snap.access] => e <= r.snap.access
      /\ r.again => r.access # r.snap.access

CallOK(r, g, P, out, gone) ==
    r.op \in Listings \cup Changes /\ r.at # "purge" =>
      /\ r.refresh = r.access /\ TokensOK(r, g, P, out)
      /\ r.access = 0 => r.snap.access = 0 /\ r.op = "disconnect"
      /\ r.op = "disconnect" => r.at = "save"
      /\ r.at = "renew" => r.access \in out \/ P[r.access] \in gone

(* The pair a callback is about to store is the only one of its consent,   *)
(* which is the newest.                                                    *)
NewConsent(r, P) ==
    r.op = "connect" /\ r.at = "save" => \A a \in 1..Len(P) \ {r.pair} : P[a] < P[r.pair]

GrantOK(g, P, out) ==
    g # None =>
      /\ g.refresh = g.access
      /\ g.access # 0 => \A e \in out : P[e] = P[g.access] => e <= g.access

PInv ==
    /\ \A a \in 1..Len(pairs) : pairs[a] \in 1..Len(consents)
    /\ GrantOK(grant, pairs, expired)
    /\ \A p \in Requests :
         CallOK(req[p], grant, pairs, expired, revoked) /\ NewConsent(req[p], pairs)

(* The stored grant keeps its pair, or loses it.                           *)
Tame(g, h) ==
    \/ h = None
    \/ h.access = 0 /\ h.refresh = 0
    \/ g # None /\ h.access = g.access /\ h.refresh = g.refresh

LEMMA NotAfterTransitive ==
  ASSUME NEW P \in Seq(Nat), NEW a \in 1..Len(P), NEW b \in 1..Len(P), NEW c \in 1..Len(P),
         NotAfter(P, a, b), NotAfter(P, b, c)
  PROVE  NotAfter(P, a, c)
<1>1. P[a] \in Nat /\ P[b] \in Nat /\ P[c] \in Nat
  BY ElementOfSeq
<1>. QED  BY <1>1 DEF NotAfter

LEMMA PairAdded ==
  ASSUME NEW P \in Seq(Nat), NEW x \in Nat, NEW Q, Q = Append(P, x)
  PROVE  /\ Q \in Seq(Nat) /\ Len(Q) = Len(P) + 1 /\ Len(P) \in Nat
         /\ Q[Len(P) + 1] = x /\ \A a \in 1..Len(P) : Q[a] = P[a]
BY AppendProperties, LenProperties

\* What the invariant says of a request that holds no pair: nothing.
LEMMA HoldsNoPair ==
  ASSUME NEW r, \/ r.op = None
                \/ r.at = "purge"
                \/ r.op = "connect" /\ r.at = "exchange"
  PROVE  \A g, P, out, gone : CallOK(r, g, P, out, gone) /\ NewConsent(r, P)
<1>1. None \notin Listings \cup Changes /\ None # "connect"
  BY NoneIs DEF Exclusive
<1>2. "connect" \notin Listings \cup Changes
  BY DEF Listings, Changes
<1>. QED  BY <1>1, <1>2 DEF CallOK, NewConsent

LEMMA PairsMove ==
  ASSUME IInv, PInv, NEW p \in Requests, Moves(p),
         UNCHANGED <<pairs, expired, revoked, consents>>, Tame(grant, grant'),
         CallOK(req'[p], grant', pairs, expired, revoked), NewConsent(req'[p], pairs)
  PROVE  PInv'
<1>1. \A q \in Requests \ {p} : req'[q] = req[q]
  BY Reads DEF Moves
<1>2. GrantOK(grant', pairs, expired)
  BY DEF PInv, GrantOK, Tame
<1>3. ASSUME NEW q \in Requests \ {p}
      PROVE  CallOK(req[q], grant', pairs, expired, revoked) /\ NewConsent(req[q], pairs)
  <2>1. CallOK(req[q], grant, pairs, expired, revoked) /\ NewConsent(req[q], pairs)
    BY DEF PInv
  <2>2. grant' # None /\ grant'.access # 0 => grant # None /\ grant'.access = grant.access
    BY DEF Tame
  <2>. QED  BY <2>1, <2>2 DEF CallOK, TokensOK
<1>. QED  BY <1>1, <1>2, <1>3 DEF PInv

LEMMA PairsEnd ==
  ASSUME IInv, PInv, NEW p \in Requests, End(p),
         UNCHANGED <<pairs, expired, revoked, consents>>, Tame(grant, grant')
  PROVE  PInv'
<1>1. Moves(p) /\ req'[p].op = None
  BY EndMoves DEF Idle
<1>. QED  BY <1>1, HoldsNoPair, PairsMove

LEMMA TameIs ==
  ASSUME IInv, grant' \in {grant, Stored(grant), None}
               \/ (grant # None /\ grant' = Stored(WithoutTokens(grant)))
  PROVE  Tame(grant, grant')
<1>1. grant # None => Stored(grant) = grant
  BY ReadsGrant, StoredIs
<1>2. Stored(None) = None
  BY StoredNone
<1>3. ASSUME grant # None, grant' = Stored(WithoutTokens(grant)) PROVE Tame(grant, grant')
  BY <1>3, ReadsGrant, WithoutTokensIs DEF Tame
<1>. QED  BY <1>1, <1>2, <1>3 DEF Tame

LEMMA UnauthorizedTame ==
  ASSUME IInv, Store(Unauthorized)
  PROVE  Tame(grant, grant')
<1>1. grant' = Stored(IF grant # None THEN WithoutTokens(grant) ELSE None)
  BY DEF Store, Unauthorized, Connected
<1>. QED  BY <1>1, TameIs, StoredNone

\* A request that calls Jira, or is about to renew its pair.
LEMMA HoldsPair ==
  ASSUME IInv, PInv, NEW p \in Requests, req[p].at \in {"renew", "renew_again", "call"}
  PROVE  /\ req[p] \in Begun(Len(pairs), Len(consents)) /\ req[p].op # "connect"
         /\ req[p].op \in Listings \cup Changes /\ req[p].op # "disconnect"
         /\ req[p].access \in 1..Len(pairs) /\ req[p].snap.access \in 1..Len(pairs)
         /\ req[p].refresh = req[p].access
         /\ CallOK(req[p], grant, pairs, expired, revoked)
         /\ TokensOK(req[p], grant, pairs, expired)
<1>1. /\ req[p] \in Begun(Len(pairs), Len(consents)) /\ req[p].op # "connect"
      /\ req[p].op \in Listings \cup Changes /\ req[p].at # "purge"
  BY Reads, ShapeOf, BegunFields
<1>2. CallOK(req[p], grant, pairs, expired, revoked)
  BY DEF PInv
<1>3. /\ req[p].op # "disconnect" /\ req[p].access # 0 /\ req[p].refresh = req[p].access
      /\ TokensOK(req[p], grant, pairs, expired)
  BY <1>1, <1>2 DEF CallOK
<1>. QED  BY <1>1, <1>2, <1>3 DEF TokensOK

\* A pair that Atlassian refuses has run out, or its consent is withdrawn.
LEMMA RefusedIs ==
  ASSUME NEW a, ~Works(a), a # 0
  PROVE  a \in expired \/ pairs[a] \in revoked
BY DEF Works

LEMMA PairsGoto ==
  ASSUME IInv, PInv, NEW p \in Requests, Calling(p), NEW at \in {"renew_again", "save"}, Goto(p, at),
         UNCHANGED <<grant, pairs, expired, revoked, consents>>
  PROVE  PInv'
<1>1. /\ req[p] \in Begun(Len(pairs), Len(consents)) /\ req[p].op # "connect"
      /\ req[p].op \in Listings \cup Changes /\ req[p].op # "disconnect"
      /\ req[p].access \in 1..Len(pairs) /\ req[p].at # "purge"
      /\ CallOK(req[p], grant, pairs, expired, revoked)
  BY HoldsPair DEF Calling
<1>2. Moves(p) /\ req'[p] = [req[p] EXCEPT !.at = at]
  BY Reads DEF Goto, Moves
<1>3. /\ req'[p].op = req[p].op /\ req'[p].snap = req[p].snap /\ req'[p].access = req[p].access
      /\ req'[p].refresh = req[p].refresh /\ req'[p].again = req[p].again /\ req'[p].at = at
  BY <1>1, <1>2 DEF Begun
<1>5. CallOK(req'[p], grant, pairs, expired, revoked)
  <2>1. /\ req[p].refresh = req[p].access /\ TokensOK(req[p], grant, pairs, expired)
        /\ req[p].access = 0 => req[p].snap.access = 0 /\ req[p].op = "disconnect"
    BY <1>1 DEF CallOK
  <2>2. TokensOK(req'[p], grant, pairs, expired)
    BY <1>3, <2>1 DEF TokensOK
  <2>. QED  BY <1>1, <1>3, <2>1, <2>2 DEF CallOK
<1>6. NewConsent(req'[p], pairs)
  BY <1>1, <1>3 DEF NewConsent
<1>7. Tame(grant, grant')
  BY TameIs
<1>. QED  BY <1>2, <1>5, <1>6, <1>7, PairsMove

LEMMA AdmitsPair ==
  ASSUME IInv, NEW op \in Listings \cup Changes, Admits(op), op # "disconnect"
  PROVE  grant # None /\ grant.access # 0
<1>1. grant # None
  BY AdmitsIs
<1>2. grant.reauth = (grant.access = 0)
  BY <1>1, ReadsGrant, GrantFields
<1>3. ~grant.reauth
  <2>. SUFFICES ASSUME grant.reauth PROVE FALSE
    OBVIOUS
  <2>1. ConnectionState(grant) = "reauthorization_required"
    BY <1>1 DEF ConnectionState
  <2>2. CASE op \in {"sites", "site"}
    BY <2>1, <2>2 DEF Admits
  <2>3. CASE op \in {"projects", "select"}
    BY <2>1, <2>3 DEF Admits
  <2>4. CASE op = "sync"
    BY <2>1, <2>4 DEF Admits
  <2>. QED  BY <2>2, <2>3, <2>4 DEF Listings, Changes
<1>. QED  BY <1>1, <1>2, <1>3

LEMMA PairsBegin ==
  ASSUME IInv, PInv, NEW p \in Requests, NEW op \in Listings \cup Changes, NEW arg,
         Begin(p, op, arg)
  PROVE  PInv'
<1>. DEFINE at == IF op = "disconnect" \/ (op = "select" /\ arg = {})
                    THEN "save" ELSE FirstStep(grant)
            r == [op |-> op, arg |-> arg, snap |-> grant, access |-> grant.access,
                  refresh |-> grant.refresh, again |-> FALSE, at |-> at]
            n == Len(pairs)
<1>1. /\ Admits(op) /\ req' = [req EXCEPT ![p] = r]
      /\ UNCHANGED <<grant, pairs, expired, revoked, consents>>
  BY DEF Begin, atlassian
<1>2. /\ grant # None /\ grant.access \in 0..n /\ n \in Nat /\ pairs \in Seq(Nat)
      /\ op # "disconnect" => grant.access # 0
  BY <1>1, Reads, AdmitsIs, AdmitsPair, GrantFields
<1>3. /\ at \in {"save", "renew", "call"} /\ (op = "disconnect" => at = "save")
      /\ at = "renew" => grant.access \in expired
  BY DEF FirstStep
<1>. HIDE DEF at
<1>4. /\ r.op = op /\ r.snap = grant /\ r.access = grant.access /\ r.refresh = grant.refresh
      /\ r.again = FALSE /\ r.at = at /\ op # "connect"
  BY DEF Listings, Changes
<1>5. Moves(p) /\ req'[p] = r
  BY <1>1, Reads DEF Moves
<1>. HIDE DEF r
<1>6. GrantOK(grant, pairs, expired)
  BY DEF PInv
<1>7. ASSUME grant.access # 0
      PROVE  NotAfter(pairs, grant.access, grant.access)
  BY <1>2, <1>7 DEF NotAfter
<1>8. TokensOK(r, grant, pairs, expired)
  BY <1>2, <1>4, <1>6, <1>7 DEF TokensOK, GrantOK
<1>9. CallOK(r, grant, pairs, expired, revoked)
  BY <1>2, <1>3, <1>4, <1>6, <1>8 DEF CallOK, GrantOK
<1>10. NewConsent(r, pairs)
  BY <1>4 DEF NewConsent
<1>11. Tame(grant, grant')
  BY <1>1, TameIs
<1>. QED  BY <1>1, <1>5, <1>9, <1>10, <1>11, PairsMove

\* A request that takes the stored pair goes on to a later one.
LEMMA PairsTake ==
  ASSUME IInv, PInv, NEW p \in Requests, Renewing(p), grant # None, grant.access # 0,
         grant.refresh # req[p].refresh, TakesPair(p, grant.access, grant.refresh),
         UNCHANGED <<grant, pairs, expired, revoked, consents>>
  PROVE  PInv'
<1>. DEFINE a == grant.access  s == req[p].snap.access  b == req[p].access
<1>1. /\ req[p] \in Begun(Len(pairs), Len(consents)) /\ req[p].op # "connect"
      /\ req[p].op \in Listings \cup Changes /\ req[p].op # "disconnect"
      /\ b \in 1..Len(pairs) /\ s \in 1..Len(pairs) /\ req[p].refresh = b
      /\ TokensOK(req[p], grant, pairs, expired)
  BY HoldsPair DEF Renewing
<1>2. /\ Len(pairs) \in Nat /\ pairs \in Seq(Nat) /\ a \in 1..Len(pairs) /\ grant.refresh = a
  BY Reads, GrantFields DEF PInv, GrantOK
<1>3. NotAfter(pairs, s, b) /\ NotAfter(pairs, b, a) /\ a # b
  BY <1>1, <1>2 DEF TokensOK
<1>4. NotAfter(pairs, s, a)
  BY <1>1, <1>2, <1>3, NotAfterTransitive
<1>5. a # s
  <2>1. pairs[a] \in Nat /\ pairs[b] \in Nat
    BY <1>1, <1>2, ElementOfSeq
  <2>. QED  BY <1>1, <1>2, <1>3, <2>1 DEF NotAfter
<1>. DEFINE again == req[p].again \/ req[p].at = "renew_again"
<1>6. /\ Moves(p)
      /\ req'[p] = [req[p] EXCEPT !.access = a, !.refresh = a, !.again = again, !.at = "call"]
  BY <1>2, Reads DEF TakesPair, Moves
<1>. HIDE DEF again
<1>7. /\ req'[p].op = req[p].op /\ req'[p].snap = req[p].snap
      /\ req'[p].access = a /\ req'[p].refresh = a /\ req'[p].at = "call"
  BY <1>1, <1>6 DEF Begun
<1>8. NotAfter(pairs, a, a)
  BY <1>2 DEF NotAfter
<1>9. TokensOK(req'[p], grant, pairs, expired)
  BY <1>1, <1>2, <1>4, <1>5, <1>7, <1>8 DEF TokensOK
<1>10. CallOK(req'[p], grant, pairs, expired, revoked)
  BY <1>1, <1>2, <1>7, <1>9 DEF CallOK
<1>11. NewConsent(req'[p], pairs)
  BY <1>1, <1>7 DEF NewConsent
<1>12. Tame(grant, grant')
  BY TameIs
<1>. QED  BY <1>6, <1>10, <1>11, <1>12, PairsMove

\* A callback stores a pair of a new consent, later than everybody's.
LEMMA PairsSaveConnection ==
  ASSUME IInv, PInv, NEW p \in Requests, SaveConnection(p)
  PROVE  PInv'
<1>. DEFINE n == Len(pairs)  a == req[p].pair
            g == Reconnected(grant, req[p].pair, req[p].timed, req[p].sites, Len(consents))
<1>1. /\ req[p].op = "connect" /\ req[p].at = "save" /\ grant' = Stored(g) /\ End(p)
      /\ UNCHANGED <<pairs, expired, revoked, consents>>
  BY DEF SaveConnection, Store, atlassian
<1>2. /\ n \in Nat /\ pairs \in Seq(Nat) /\ a \in 1..n
      /\ expired \subseteq 1..n
  BY <1>1, Reads, ShapeOf, ConnectingFields DEF IInv, Types
<1>3. g.access = a /\ g.refresh = a
  BY DEF Reconnected, Pair
<1>. HIDE DEF g
<1>4. grant' = g
  BY <1>1, <1>2, <1>3 DEF Stored
<1>5. \A b \in 1..n \ {a} : pairs[b] < pairs[a]
  BY <1>1 DEF PInv, NewConsent
<1>6. \A b \in 1..n : pairs[b] \in Nat
  BY <1>2, ElementOfSeq
<1>7. GrantOK(grant', pairs, expired)
  BY <1>2, <1>3, <1>4, <1>5, <1>6 DEF GrantOK
<1>8. Moves(p) /\ req'[p].op = None
  BY <1>1, EndMoves DEF Idle
<1>9. \A q \in Requests \ {p} : req'[q] = req[q]
  BY <1>8, Reads DEF Moves
<1>10. CallOK(req'[p], grant', pairs, expired, revoked) /\ NewConsent(req'[p], pairs)
  BY <1>8, HoldsNoPair
<1>11. ASSUME NEW q \in Requests \ {p}
       PROVE  CallOK(req[q], grant', pairs, expired, revoked) /\ NewConsent(req[q], pairs)
  <2>1. CallOK(req[q], grant, pairs, expired, revoked) /\ NewConsent(req[q], pairs)
    BY DEF PInv
  <2>2. \A b \in 1..n : NotAfter(pairs, b, a)
    BY <1>2, <1>5 DEF NotAfter
  <2>. QED  BY <1>3, <1>4, <2>1, <2>2 DEF CallOK, TokensOK
<1>. QED  BY <1>1, <1>7, <1>9, <1>10, <1>11 DEF PInv

\* What is known of pairs stays when one is added.
LEMMA PairsAdded ==
  ASSUME IInv, NEW r, NEW g, NEW Q, NEW x \in Nat, Q = Append(pairs, x),
         CallOK(r, g, pairs, expired, revoked),
         g # None => g \in Grants(Len(pairs), Len(consents))
  PROVE  CallOK(r, g, Q, expired, revoked)
<1>1. /\ Len(pairs) \in Nat /\ pairs \in Seq(Nat) /\ expired \subseteq 1..Len(pairs)
      /\ Len(consents) \in Nat
  BY ReadsGrant DEF IInv, Types
<1>2. Len(Q) = Len(pairs) + 1 /\ \A a \in 1..Len(pairs) : Q[a] = pairs[a]
  BY <1>1, PairAdded
<1>3. g # None /\ g.access # 0 => g.access \in 1..Len(pairs)
  BY <1>1, GrantFields
<1>4. TokensOK(r, g, pairs, expired) => TokensOK(r, g, Q, expired)
  BY <1>1, <1>2, <1>3 DEF TokensOK, NotAfter
<1>5. TokensOK(r, g, pairs, expired) /\ r.access # 0 => r.access \in 1..Len(pairs)
  BY DEF TokensOK
<1>. QED  BY <1>2, <1>4, <1>5 DEF CallOK

LEMMA PairsExchange ==
  ASSUME IInv, PInv, NEW p \in Requests, Exchange(p)
  PROVE  PInv'
<1>. DEFINE n == Len(pairs)  m == Len(consents)
<1>0. /\ n \in Nat /\ m \in Nat /\ pairs \in Seq(Nat) /\ consents \in Seq(SUBSET Sites)
      /\ expired \subseteq 1..n
  BY Reads DEF IInv, Types
<1>1. PICK sites \in SUBSET Sites, timed \in BOOLEAN :
        /\ consents' = Append(consents, sites)
        /\ pairs' = Append(pairs, Len(consents) + 1)
        /\ req' = [req EXCEPT ![p] = IF sites = {} THEN Idle
                     ELSE [op |-> "connect", at |-> "save", pair |-> Len(pairs) + 1,
                           timed |-> timed, sites |-> sites]]
  BY DEF Exchange
<1>. DEFINE r == [op |-> "connect", at |-> "save", pair |-> n + 1,
                  timed |-> timed, sites |-> sites]
<1>2. /\ req[p].op = "connect" /\ req[p].at = "exchange"
      /\ UNCHANGED <<grant, expired, revoked>>
  BY DEF Exchange
<1>3. /\ Len(pairs') = n + 1 /\ pairs'[n + 1] = m + 1
      /\ \A a \in 1..n : pairs'[a] = pairs[a]
  BY <1>0, <1>1, PairAdded
<1>4. Len(consents') = m + 1
  BY <1>0, <1>1, AppendProperties
<1>5. Moves(p) /\ req'[p] \in {Idle, r}
  BY <1>1, Reads DEF Moves
<1>6. r.op = "connect" /\ r.at = "save" /\ r.pair = n + 1
  OBVIOUS
<1>. HIDE DEF r
<1>7. \A a \in 1..n : pairs[a] \in 1..m
  BY DEF PInv
<1>8. \A a \in 1..Len(pairs') : pairs'[a] \in 1..Len(consents')
  BY <1>0, <1>3, <1>4, <1>7
<1>9. GrantOK(grant', pairs', expired')
  <2>1. grant # None => grant.access \in 0..n
    BY <1>0, Reads, GrantFields
  <2>. QED  BY <1>0, <1>2, <1>3, <2>1 DEF PInv, GrantOK
<1>10. CallOK(req'[p], grant', pairs', expired', revoked') /\ NewConsent(req'[p], pairs')
  <2>1. NewConsent(r, pairs')
    BY <1>0, <1>3, <1>6, <1>7 DEF NewConsent
  <2>2. CallOK(r, grant', pairs', expired', revoked')
    BY <1>6 DEF CallOK, Listings, Changes
  <2>3. Idle.op = None
    BY DEF Idle
  <2>. QED  BY <1>5, <2>1, <2>2, <2>3, HoldsNoPair
<1>11. ASSUME NEW q \in Requests \ {p}
       PROVE  CallOK(req'[q], grant', pairs', expired', revoked') /\ NewConsent(req'[q], pairs')
  <2>1. req'[q] = req[q]
    BY <1>5, Reads DEF Moves
  <2>2. req[q].op # "connect"
    <3>1. req[q].op \in Listings \cup {None}
      BY <1>2 DEF IInv, LInv, Alone, Exclusive
    <3>. QED  BY <3>1, NoneIs DEF Listings, Exclusive
  <2>3. CallOK(req[q], grant, pairs, expired, revoked)
    BY DEF PInv
  <2>4. grant # None => grant \in Grants(n, m)
    BY Reads
  <2>5. m + 1 \in Nat /\ pairs' = Append(pairs, m + 1)
    BY <1>0, <1>1
  <2>6. CallOK(req[q], grant, pairs', expired, revoked)
    BY <2>3, <2>4, <2>5, PairsAdded
  <2>. QED  BY <1>2, <2>1, <2>2, <2>6 DEF NewConsent
<1>. QED  BY <1>8, <1>9, <1>10, <1>11 DEF PInv

LEMMA PairsRotateOk ==
  ASSUME IInv, PInv, NEW p \in Requests, RotateOk(p)
  PROVE  PInv'
<1>. DEFINE n == Len(pairs)  m == Len(consents)  x == pairs[grant.refresh]
<1>1. PICK timed \in BOOLEAN : grant' = Stored(Renewed(grant, n + 1, timed))
  BY DEF RotateOk, Store, Renewed
<1>2. /\ Rotates(p) /\ Renewing(p) /\ Refreshable(Sent(p))
      /\ pairs' = Append(pairs, pairs[Sent(p)])
      /\ TakesPair(p, n + 1, n + 1)
      /\ UNCHANGED <<expired, consents, revoked>>
  BY DEF RotateOk, Rotates
<1>3. /\ grant \in Grants(n, m) /\ grant # None /\ grant.access # 0
      /\ Sent(p) = grant.refresh /\ grant.refresh \in 0..n
      /\ n \in Nat /\ m \in Nat /\ pairs \in Seq(Nat) /\ expired \subseteq 1..n
  BY <1>2, RotatesIs, Reads DEF IInv, Types
<1>4. grant.refresh = grant.access /\ grant.refresh \in 1..n
  BY <1>2, <1>3 DEF Refreshable, PInv, GrantOK
<1>5. x \in Nat /\ x \in 1..m
  BY <1>3, <1>4, ElementOfSeq DEF PInv
<1>6. /\ pairs' = Append(pairs, x) /\ Len(pairs') = n + 1 /\ pairs'[n + 1] = x
      /\ pairs' \in Seq(Nat) /\ \A a \in 1..n : pairs'[a] = pairs[a]
  BY <1>2, <1>3, <1>5, PairAdded
<1>. DEFINE h == Renewed(grant, n + 1, timed)
<1>7. h.access = n + 1 /\ h.refresh = n + 1 /\ h # None
  <2>1. grant \in Connections /\ n + 1 \in Nat
    BY <1>3, GrantFields
  <2>. QED  BY <2>1, RenewedIs, NoneIs
<1>8. grant' = Stored(h)
  BY <1>1
<1>. HIDE DEF h
<1>9. grant' = h
  BY <1>3, <1>7, <1>8 DEF Stored
<1>10. \A a \in 1..Len(pairs') : pairs'[a] \in 1..Len(consents')
  BY <1>2, <1>3, <1>5, <1>6 DEF PInv
<1>11. GrantOK(grant', pairs', expired')
  BY <1>2, <1>3, <1>7, <1>9 DEF GrantOK
\* Whatever was not after the pair that is sent is not after the new one.
<1>12. ASSUME NEW a \in 1..n, NotAfter(pairs, a, grant.access)
       PROVE  NotAfter(pairs', a, n + 1)
  BY <1>3, <1>4, <1>6, <1>12 DEF NotAfter
<1>13. ASSUME NEW r, CallOK(r, grant, pairs, expired, revoked)
       PROVE  CallOK(r, grant', pairs', expired', revoked')
  <2>1. CallOK(r, grant, pairs', expired, revoked)
    BY <1>3, <1>5, <1>6, <1>13, PairsAdded
  <2>2. TokensOK(r, grant, pairs, expired) /\ r.access # 0 => NotAfter(pairs', r.access, n + 1)
    BY <1>3, <1>12 DEF TokensOK
  <2>3. TokensOK(r, grant, pairs, expired) /\ TokensOK(r, grant, pairs', expired)
          => TokensOK(r, grant', pairs', expired)
    BY <1>7, <1>9, <2>2 DEF TokensOK
  <2>. QED  BY <1>2, <1>13, <2>1, <2>3 DEF CallOK
<1>14. ASSUME NEW q \in Requests
       PROVE  NewConsent(req[q], pairs')
  <2>. SUFFICES ASSUME req[q].op = "connect", req[q].at = "save", NEW a \in 1..n + 1 \ {req[q].pair}
                PROVE  pairs'[a] < pairs'[req[q].pair]
    BY <1>6 DEF NewConsent
  <2>1. req[q].pair \in 1..n
    BY <1>3, Reads, ShapeOf, ConnectingFields
  <2>2. \A b \in 1..n \ {req[q].pair} : pairs[b] < pairs[req[q].pair]
    BY DEF PInv, NewConsent
  <2>3. grant.refresh # req[q].pair
    BY <1>3 DEF IInv, LInv, LocalOK, FreshPair
  <2>4. CASE a \in 1..n
    BY <1>6, <2>1, <2>2, <2>4
  <2>5. CASE a = n + 1
    BY <1>4, <1>6, <2>1, <2>2, <2>3, <2>5
  <2>. QED  BY <1>3, <2>4, <2>5
<1>. DEFINE s == req[p].snap.access  b == req[p].access
<1>15. /\ req[p] \in Begun(n, m) /\ req[p].op # "connect"
       /\ req[p].op \in Listings \cup Changes /\ req[p].op # "disconnect"
       /\ b \in 1..n /\ s \in 1..n
       /\ CallOK(req[p], grant', pairs', expired', revoked')
  BY <1>2, <1>13, HoldsPair DEF Renewing
<1>. DEFINE again == req[p].again \/ req[p].at = "renew_again"
<1>16. /\ Moves(p)
       /\ req'[p] = [req[p] EXCEPT !.access = n + 1, !.refresh = n + 1, !.again = again, !.at = "call"]
  BY <1>2, Reads DEF TakesPair, Moves
<1>. HIDE DEF again
<1>17. /\ req'[p].op = req[p].op /\ req'[p].snap = req[p].snap
       /\ req'[p].access = n + 1 /\ req'[p].refresh = n + 1 /\ req'[p].at = "call"
  BY <1>15, <1>16 DEF Begun
<1>18. TokensOK(req'[p], grant', pairs', expired')
  <2>1. TokensOK(req[p], grant', pairs', expired')
    BY <1>2, <1>15 DEF CallOK, Renewing
  <2>2. NotAfter(pairs', s, b) /\ NotAfter(pairs', b, n + 1)
    BY <1>3, <1>7, <1>9, <1>15, <2>1 DEF TokensOK
  <2>3. /\ s \in 1..Len(pairs') /\ b \in 1..Len(pairs') /\ n + 1 \in 1..Len(pairs')
        /\ s # n + 1
    BY <1>3, <1>6, <1>15
  <2>4. NotAfter(pairs', s, n + 1) /\ NotAfter(pairs', n + 1, n + 1)
    <3>1. NotAfter(pairs', s, n + 1)
      BY <1>6, <2>2, <2>3, NotAfterTransitive
    <3>2. NotAfter(pairs', n + 1, n + 1)
      BY <1>3 DEF NotAfter
    <3>. QED  BY <3>1, <3>2
  <2>5. \A e \in expired' : pairs'[e] = pairs'[s] => e <= s
    BY <1>3, <1>15, <2>1 DEF TokensOK
  <2>. QED  BY <1>7, <1>9, <1>17, <2>3, <2>4, <2>5 DEF TokensOK
<1>19. CallOK(req'[p], grant', pairs', expired', revoked') /\ NewConsent(req'[p], pairs')
  BY <1>3, <1>15, <1>17, <1>18 DEF CallOK, NewConsent
<1>20. \A q \in Requests \ {p} : req'[q] = req[q]
  BY <1>16, Reads DEF Moves
<1>21. \A q \in Requests \ {p} : CallOK(req[q], grant', pairs', expired', revoked')
  BY <1>13 DEF PInv
<1>. QED  BY <1>10, <1>11, <1>14, <1>19, <1>20, <1>21 DEF PInv

\* The requests that hold a snapshot of the grant.
LEMMA BegunOf ==
  ASSUME NEW n \in Nat, NEW m \in Nat, NEW r \in Shapes(n, m)
  PROVE  /\ "snap" \in DOMAIN r => r \in Begun(n, m)
         /\ r.op \in Listings \cup Changes /\ r.at # "purge" => r \in Begun(n, m) /\ "snap" \in DOMAIN r
<1>1. CASE r = Idle
  BY <1>1, NoneIs DEF Idle, Exclusive
<1>2. CASE r = Exchanging
  BY <1>2 DEF Exchanging, Listings, Changes
<1>3. CASE r \in Connecting(n)
  BY <1>3 DEF Connecting, Listings, Changes
<1>4. CASE r \in Begun(n, m)
  BY <1>4 DEF Begun
<1>5. CASE r \in Purging(m)
  BY <1>5 DEF Purging
<1>. QED  BY <1>1, <1>2, <1>3, <1>4, <1>5 DEF Shapes

LEMMA PairsStay ==
  ASSUME IInv, PInv, UNCHANGED <<grant, req, pairs, expired, revoked, consents>>
  PROVE  PInv'
BY DEF PInv

\* A pair runs out: of the stored consent, none later than the stored pair.
LEMMA PairsExpire ==
  ASSUME IInv, PInv, TokenExpires
  PROVE  PInv'
<1>. DEFINE n == Len(pairs)  m == Len(consents)
<1>1. PICK a \in 1..n \ expired :
        /\ Held(a)
        /\ \A p \in Requests : "snap" \in DOMAIN req[p] => a <= req[p].snap.access
        /\ expired' = expired \cup {a}
  BY DEF TokenExpires
<1>2. UNCHANGED <<grant, req, pairs, revoked, consents>>
  BY DEF TokenExpires
<1>3. /\ n \in Nat /\ m \in Nat /\ pairs \in Seq(Nat)
      /\ grant # None => grant.access \in 0..n
      /\ \A p \in Requests : req[p] \in Shapes(n, m)
  BY ReadsGrant, GrantFields DEF IInv, Types
<1>4. ASSUME NEW p \in Requests
      PROVE  CallOK(req[p], grant, pairs, expired', revoked) /\ NewConsent(req[p], pairs)
  <2>1. CallOK(req[p], grant, pairs, expired, revoked) /\ NewConsent(req[p], pairs)
    BY DEF PInv
  <2>2. req[p].op \in Listings \cup Changes /\ req[p].at # "purge" => a <= req[p].snap.access
    BY <1>1, <1>3, BegunOf
  <2>. QED  BY <1>1, <2>1, <2>2 DEF CallOK, TokensOK
<1>5. ASSUME grant # None, grant.access # 0, pairs[a] = pairs[grant.access]
      PROVE  a <= grant.access
  <2>1. CASE grant.access = a
    BY <1>3, <2>1
  <2>2. ASSUME NEW p \in Requests, "snap" \in DOMAIN req[p], a \in {req[p].snap.access, req[p].access}
        PROVE  a <= grant.access
    <3>1. req[p] \in Begun(n, m) /\ CallOK(req[p], grant, pairs, expired, revoked)
      BY <1>3, <2>2, BegunOf DEF PInv
    <3>2. req[p].op \in Listings \cup Changes /\ req[p].at # "purge"
      BY <1>3, <3>1, BegunFields
    <3>3. req[p].access # 0 /\ TokensOK(req[p], grant, pairs, expired)
      BY <1>3, <2>2, <3>1, <3>2 DEF CallOK
    <3>4. /\ req[p].snap.access \in 1..n /\ req[p].access \in 1..n /\ grant.access \in 1..n
          /\ NotAfter(pairs, req[p].snap.access, req[p].access)
          /\ NotAfter(pairs, req[p].access, grant.access)
      BY <1>3, <1>5, <3>3 DEF TokensOK
    <3>5. NotAfter(pairs, req[p].snap.access, grant.access)
      BY <1>3, <3>4, NotAfterTransitive
    <3>6. NotAfter(pairs, a, grant.access)
      BY <2>2, <3>4, <3>5
    <3>7. pairs[grant.access] \in Nat
      BY <1>3, <3>4, ElementOfSeq
    <3>. QED  BY <1>5, <3>6, <3>7 DEF NotAfter
  <2>. QED  BY <1>1, <2>1, <2>2 DEF Held
<1>6. GrantOK(grant, pairs, expired')
  BY <1>1, <1>5 DEF PInv, GrantOK
<1>. QED  BY <1>2, <1>4, <1>6 DEF PInv

LEMMA PairsWorld ==
  ASSUME IInv, PInv, World
  PROVE  PInv'
<1>1. CASE StateTimesOut
  BY <1>1, PairsStay DEF StateTimesOut, atlassian
<1>2. CASE TokenExpires
  BY <1>2, PairsExpire
<1>3. CASE ConsentWithdrawn
  <2>1. revoked \subseteq revoked' /\ UNCHANGED <<grant, req, pairs, expired, consents>>
    BY <1>3 DEF ConsentWithdrawn
  <2>2. \A p \in Requests : CallOK(req[p], grant, pairs, expired, revoked')
    BY <2>1 DEF PInv, CallOK
  <2>. QED  BY <2>1, <2>2 DEF PInv
<1>4. CASE SiteLost
  <2>1. UNCHANGED <<grant, req, pairs, expired, revoked>>
    BY <1>4 DEF SiteLost
  <2>2. PICK c \in 1..Len(consents) : \E s \in consents[c] :
          consents' = [consents EXCEPT ![c] = @ \ {s}]
    BY <1>4 DEF SiteLost
  <2>3. PICK s \in consents[c] : consents' = [consents EXCEPT ![c] = @ \ {s}]
    BY <2>2
  <2>4. Len(consents') = Len(consents)
    <3>1. consents \in Seq(SUBSET Sites) /\ consents[c] \ {s} \in SUBSET Sites
      BY <2>2, ElementOfSeq DEF IInv, Types
    <3>2. consents' = [consents EXCEPT ![c] = consents[c] \ {s}]
      BY <2>3
    <3>. QED  BY <3>1, <3>2, ExceptSeq
  <2>. QED  BY <2>1, <2>4 DEF PInv
<1>5. CASE PermissionLost
  BY <1>5, PairsStay DEF PermissionLost, atlassian
<1>. QED  BY <1>1, <1>2, <1>3, <1>4, <1>5 DEF World

\* The other steps of one request end it, or leave it without a pair.
LEMMA PairsCallback ==
  ASSUME IInv, PInv, NEW p \in Requests, Callback(p)
  PROVE  PInv'
<1>1. UNCHANGED <<grant, pairs, expired, revoked, consents>>
  BY DEF Callback, atlassian
<1>2. CASE req' = req
  BY <1>1, <1>2, PairsStay
<1>3. CASE req' # req
  <2>1. PICK s \in 1..history.issued :
          req' = [req EXCEPT ![p] = IF s \in stale THEN Idle
                              ELSE [op |-> "connect", at |-> "exchange"]]
    BY <1>3 DEF Callback
  <2>2. /\ Moves(p)
        /\ req'[p] = IF s \in stale THEN Idle ELSE [op |-> "connect", at |-> "exchange"]
    BY <2>1, Reads DEF Moves
  <2>3. req'[p].op = None \/ (req'[p].op = "connect" /\ req'[p].at = "exchange")
    BY <2>2 DEF Idle
  <2>4. Tame(grant, grant')
    BY <1>1, TameIs
  <2>. QED  BY <1>1, <2>2, <2>3, <2>4, HoldsNoPair, PairsMove
<1>. QED  BY <1>2, <1>3

LEMMA PairsPurgeOr ==
  ASSUME IInv, PInv, NEW p \in Requests, NEW rows, PurgeOr(p, rows),
         UNCHANGED <<pairs, expired, revoked, consents>>, Tame(grant, grant')
  PROVE  PInv'
<1>1. /\ Moves(p)
      /\ req'[p] = IF rows = {} THEN Idle
                   ELSE [op |-> req[p].op, at |-> "purge", rows |-> rows]
  BY Reads DEF PurgeOr, Moves
<1>2. req'[p].op = None \/ req'[p].at = "purge"
  BY <1>1 DEF Idle
<1>. QED  BY <1>1, <1>2, HoldsNoPair, PairsMove

LEMMA PairsSave ==
  ASSUME IInv, PInv, NEW p \in Requests, SaveSite(p) \/ SaveSelection(p) \/ SaveDisconnect(p)
  PROVE  PInv'
<1>1. UNCHANGED <<pairs, expired, revoked, consents>>
  BY DEF SaveSite, SaveSelection, SaveDisconnect, atlassian
<1>2. CASE SaveSite(p)
  <2>. DEFINE keys == IF grant.site = req[p].arg THEN grant.keys ELSE {}
              h == [grant EXCEPT !.site = req[p].arg, !.keys = keys]
              rows == IF req[p].snap.site \in Sites \ {req[p].arg} THEN OfConnector(req[p].snap.id) ELSE {}
  <2>1. Saving(p, "site") /\ "site" \in Changes
    BY <1>2 DEF SaveSite, Changes
  <2>2. grant # None /\ grant \in Grants(Len(pairs), Len(consents))
    BY <2>1, SavingIs
  <2>3. grant' = Stored(h) /\ PurgeOr(p, rows)
    BY <1>2, <2>2 DEF SaveSite, Connected, Store
  <2>4. h.access = grant.access /\ h.refresh = grant.refresh
    BY <2>2 DEF Grants, Connections
  <2>. HIDE DEF h, rows
  <2>5. Tame(grant, grant')
    BY <2>2, <2>3, <2>4 DEF Tame, Stored
  <2>. QED  BY <1>1, <2>3, <2>5, PairsPurgeOr
<1>3. CASE SaveSelection(p)
  <2>. DEFINE h == [grant EXCEPT !.keys = req[p].arg]
              rows == {Row(req[p].snap.id, req[p].snap.site, k) : k \in req[p].snap.keys \ req[p].arg}
  <2>1. Saving(p, "select") /\ "select" \in Changes
    BY <1>3 DEF SaveSelection, Changes
  <2>2. grant # None /\ grant \in Grants(Len(pairs), Len(consents))
    BY <2>1, SavingIs
  <2>3. CASE grant.reauth
    <3>1. End(p) /\ grant' = grant
      BY <1>3, <2>3 DEF SaveSelection, Connected
    <3>. QED  BY <1>1, <3>1, TameIs, PairsEnd
  <2>4. CASE ~grant.reauth
    <3>1. grant' = Stored(h) /\ PurgeOr(p, rows)
      BY <1>3, <2>2, <2>4 DEF SaveSelection, Connected, Store
    <3>2. h.access = grant.access /\ h.refresh = grant.refresh
      BY <2>2 DEF Grants, Connections
    <3>. HIDE DEF h, rows
    <3>3. Tame(grant, grant')
      BY <2>2, <3>1, <3>2 DEF Tame, Stored
    <3>. QED  BY <1>1, <3>1, <3>3, PairsPurgeOr
  <2>. QED  BY <2>3, <2>4
<1>4. CASE SaveDisconnect(p)
  <2>1. grant' = None /\ PurgeOr(p, OfConnector(req[p].snap.id))
    BY <1>4, StoredNone DEF SaveDisconnect, Store
  <2>2. Tame(grant, grant')
    BY <2>1 DEF Tame
  <2>. QED  BY <1>1, <2>1, <2>2, PairsPurgeOr
<1>. QED  BY <1>2, <1>3, <1>4

LEMMA PairsEnds ==
  ASSUME IInv, PInv, NEW p \in Requests,
         \/ ExchangeFails(p) \/ CallFails(p) \/ Lists(p)
         \/ PurgeRows(p) \/ PurgeFails(p) \/ Synchronizes(p)
  PROVE  PInv'
<1>1. End(p) /\ UNCHANGED <<pairs, expired, revoked, consents>>
  BY DEF ExchangeFails, CallFails, Lists, PurgeRows, PurgeFails, Synchronizes, atlassian
<1>2. grant' = grant \/ Store(Unauthorized)
  BY DEF ExchangeFails, CallFails, Lists, PurgeRows, PurgeFails, Synchronizes
<1>3. Tame(grant, grant')
  BY <1>2, TameIs, UnauthorizedTame
<1>. QED  BY <1>1, <1>3, PairsEnd

LEMMA PairsRotate ==
  ASSUME IInv, PInv, NEW p \in Requests,
         \/ RotateNotNeeded(p) \/ RotateRefused(p) \/ RotateOk(p)
         \/ RotateWithoutRefresh(p) \/ RotateLost(p)
  PROVE  PInv'
<1>1. CASE RotateNotNeeded(p)
  <2>1. Renewing(p) /\ UNCHANGED <<grant, pairs, expired, revoked, consents>>
    BY <1>1 DEF RotateNotNeeded, atlassian
  <2>2. CASE Connected /\ ~grant.reauth
    <3>1. Sends(grant, req[p].refresh) = {} /\ TakesPair(p, grant.access, grant.refresh)
      BY <1>1, <2>2 DEF RotateNotNeeded
    <3>2. grant.refresh # req[p].refresh /\ grant.access # 0
      BY <3>1 DEF Sends
    <3>. QED  BY <2>1, <2>2, <3>1, <3>2, PairsTake DEF Connected
  <2>3. CASE ~(Connected /\ ~grant.reauth)
    <3>1. End(p)
      BY <1>1, <2>3 DEF RotateNotNeeded
    <3>. QED  BY <2>1, <3>1, TameIs, PairsEnd
  <2>. QED  BY <2>2, <2>3
<1>2. CASE RotateRefused(p) \/ RotateWithoutRefresh(p)
  <2>1. /\ End(p) /\ UNCHANGED <<pairs, expired, revoked, consents>>
        /\ Rotates(p) /\ grant' = Stored(WithoutTokens(grant))
    BY <1>2 DEF RotateRefused, RotateWithoutRefresh, Store, atlassian
  <2>2. Tame(grant, grant')
    BY <2>1, TameIs DEF Rotates, Connected
  <2>. QED  BY <2>1, <2>2, PairsEnd
<1>3. CASE RotateOk(p)
  BY <1>3, PairsRotateOk
<1>4. CASE RotateLost(p)
  <2>1. End(p) /\ UNCHANGED <<grant, pairs, expired, revoked, consents>>
    BY <1>4 DEF RotateLost
  <2>. QED  BY <2>1, TameIs, PairsEnd
<1>. QED  BY <1>1, <1>2, <1>3, <1>4

LEMMA PairsCall ==
  ASSUME IInv, PInv, NEW p \in Requests, CallRefused(p) \/ ChecksSite(p) \/ ChecksProjects(p)
  PROVE  PInv'
<1>1. Calling(p) /\ UNCHANGED <<pairs, expired, revoked, consents>>
  BY DEF CallRefused, ChecksSite, ChecksProjects, atlassian
<1>2. CASE CallRefused(p)
  <2>1. CASE req[p].again
    <3>1. End(p) /\ Store(Unauthorized)
      BY <1>2, <2>1 DEF CallRefused
    <3>. QED  BY <1>1, <3>1, UnauthorizedTame, PairsEnd
  <2>2. CASE ~req[p].again
    <3>1. Goto(p, "renew_again") /\ grant' = grant
      BY <1>2, <2>2 DEF CallRefused
    <3>. QED  BY <1>1, <3>1, PairsGoto
  <2>. QED  BY <2>1, <2>2
<1>3. CASE ChecksSite(p) \/ ChecksProjects(p)
  <2>1. (End(p) \/ Goto(p, "save")) /\ grant' = grant
    BY <1>3 DEF ChecksSite, ChecksProjects
  <2>2. CASE End(p)
    BY <1>1, <2>1, <2>2, TameIs, PairsEnd
  <2>3. CASE Goto(p, "save")
    BY <1>1, <2>1, <2>3, PairsGoto
  <2>. QED  BY <2>1, <2>2, <2>3
<1>. QED  BY <1>2, <1>3

LEMMA PairsBegins ==
  ASSUME IInv, PInv, NEW p \in Requests,
         \/ ListSites(p) \/ ListProjects(p) \/ PutSite(p) \/ PutSelection(p)
         \/ SyncJira(p) \/ Disconnect(p)
  PROVE  PInv'
<1>1. \E op \in Listings \cup Changes : \E arg : Begin(p, op, arg)
  BY DEF ListSites, ListProjects, PutSite, PutSelection, SyncJira, Disconnect, Listings, Changes
<1>. QED  BY <1>1, PairsBegin

LEMMA PairsInit == Init => PInv
<1>. SUFFICES ASSUME Init PROVE PInv
  OBVIOUS
<1>1. /\ grant = None /\ pairs = <<>> /\ Len(pairs) = 0
      /\ \A p \in Requests : req[p] = Idle
  BY DEF Init
<1>2. \A p \in Requests : CallOK(req[p], grant, pairs, expired, revoked) /\ NewConsent(req[p], pairs)
  <2>1. Idle.op = None
    BY DEF Idle
  <2>. QED  BY <1>1, <2>1, HoldsNoPair
<1>. QED  BY <1>1, <1>2 DEF PInv, GrantOK

LEMMA PairsPreserved == IInv /\ PInv /\ [Next]_vars => PInv'
<1>. SUFFICES ASSUME IInv, PInv, [Next]_vars PROVE PInv'
  OBVIOUS
<1>1. CASE StartOauth \/ UNCHANGED vars
  BY <1>1, PairsStay DEF StartOauth, vars, atlassian
<1>2. CASE World
  BY <1>2, PairsWorld
<1>3. ASSUME NEW p \in Requests, Steps(p) PROVE PInv'
  BY <1>3, PairsCallback, PairsExchange, PairsEnds, PairsSaveConnection, PairsBegins, PairsRotate,
     PairsCall, PairsSave DEF Steps
<1>. QED  BY <1>1, <1>2, <1>3 DEF Next

(* A request that renews after a refusal holds a pair that is refused still, *)
(* unless it was denied a permission.                                       *)
Denied(p) == history.barred /\ (req[p].again \/ req[p].at = "renew_again")
AgainInv ==
    \A p \in Requests :
      req[p].at = "renew_again" => ~Works(req[p].access) \/ history.barred

\* Only a refusal sends a request to renew its pair once more.
LEMMA SentAgain ==
  ASSUME IInv, PInv, NEW p \in Requests, Steps(p), NEW q \in Requests,
         req'[q].at = "renew_again"
  PROVE  \/ req'[q] = req[q]
         \/ CallRefused(q) /\ req'[q].access = req[q].access
<1>1. CASE q # p
  <2>1. req'[q] = req[q]
    BY <1>1, Reads DEF Steps, Callback, Exchange, ExchangeFails, SaveConnection, End, Goto,
       ListSites, ListProjects, PutSite, PutSelection, SyncJira, Disconnect, Begin,
       RotateNotNeeded, TakesPair, RotateRefused, RotateOk, RotateWithoutRefresh, RotateLost,
       CallRefused, CallFails, Lists, ChecksSite, ChecksProjects, Synchronizes, SaveSite,
       SaveSelection, SaveDisconnect, PurgeOr, PurgeRows, PurgeFails
  <2>. QED  BY <2>1
<1>2. CASE q = p /\ req' # req
  <2>0. Idle.at # "renew_again" /\ DOMAIN req = Requests
    BY Reads DEF Idle
  <2>1. ~End(p)
    BY <1>2, <2>0 DEF End
  <2>2. ~\E rows : PurgeOr(p, rows)
    BY <1>2, <2>0 DEF PurgeOr
  <2>3. ~\E op, arg : Begin(p, op, arg)
    BY <1>2, <2>0 DEF Begin, FirstStep
  <2>4. ASSUME Renewing(p) \/ Calling(p)
        PROVE  req[p] \in Begun(Len(pairs), Len(consents))
    BY <2>4, HoldsPair DEF Renewing, Calling
  <2>5. ASSUME NEW a, NEW r, Renewing(p), TakesPair(p, a, r)
        PROVE  FALSE
    <3>. DEFINE again == req[p].again \/ req[p].at = "renew_again"
    <3>1. req'[p] = [req[p] EXCEPT !.access = a, !.refresh = r, !.again = again, !.at = "call"]
      BY <2>0, <2>5 DEF TakesPair
    <3>. HIDE DEF again
    <3>2. req'[p].at = "call"
      BY <2>4, <2>5, <3>1 DEF Begun
    <3>. QED  BY <1>2, <3>2
  <2>6. ASSUME Calling(p), Goto(p, "save")
        PROVE  FALSE
    <3>1. req'[p] = [req[p] EXCEPT !.at = "save"]
      BY <2>0, <2>6 DEF Goto
    <3>2. req'[p].at = "save"
      BY <2>4, <2>6, <3>1 DEF Begun
    <3>. QED  BY <1>2, <3>2
  <2>7. CASE Callback(p) \/ Exchange(p) \/ ExchangeFails(p) \/ SaveConnection(p)
    BY <1>2, <2>0, <2>1, <2>7 DEF Callback, Exchange, ExchangeFails, SaveConnection
  <2>8. CASE \/ ListSites(p) \/ ListProjects(p) \/ PutSite(p) \/ PutSelection(p)
             \/ SyncJira(p) \/ Disconnect(p)
    BY <2>3, <2>8 DEF ListSites, ListProjects, PutSite, PutSelection, SyncJira, Disconnect
  <2>9. CASE \/ RotateNotNeeded(p) \/ RotateRefused(p) \/ RotateOk(p)
             \/ RotateWithoutRefresh(p) \/ RotateLost(p)
    BY <2>1, <2>5, <2>9 DEF RotateNotNeeded, RotateRefused, RotateOk, Rotates,
       RotateWithoutRefresh, RotateLost
  <2>10. CASE CallFails(p) \/ Lists(p) \/ ChecksSite(p) \/ ChecksProjects(p) \/ Synchronizes(p)
    BY <2>1, <2>6, <2>10 DEF CallFails, Lists, ChecksSite, ChecksProjects, Synchronizes
  <2>11. CASE SaveSite(p) \/ SaveSelection(p) \/ SaveDisconnect(p) \/ PurgeRows(p) \/ PurgeFails(p)
    BY <2>1, <2>2, <2>11 DEF SaveSite, SaveSelection, SaveDisconnect, PurgeRows, PurgeFails
  <2>12. CASE CallRefused(p)
    <3>1. req'[p] = [req[p] EXCEPT !.at = "renew_again"]
      BY <2>0, <2>1, <2>12 DEF CallRefused, Goto
    <3>2. req'[p].access = req[p].access
      BY <2>4, <2>12, <3>1 DEF CallRefused, Begun
    <3>. QED  BY <1>2, <2>12, <3>2
  <2>. QED  BY <2>7, <2>8, <2>9, <2>10, <2>11, <2>12 DEF Steps
<1>. QED  BY <1>1, <1>2

\* What Atlassian refuses once it refuses from then on.
LEMMA RefusedForGood ==
  ASSUME IInv, [Next]_vars, NEW a \in 1..Len(pairs), ~Works(a)
  PROVE  ~(a # 0 /\ a \notin expired' /\ pairs'[a] \notin revoked')
<1>1. Len(pairs) \in Nat /\ pairs \in Seq(Nat)
  BY ReadsGrant DEF IInv, Types
<1>2. a \in expired \/ pairs[a] \in revoked
  BY <1>1, RefusedIs
<1>3. expired \subseteq expired' /\ revoked \subseteq revoked' /\ pairs'[a] = pairs[a]
  <2>1. CASE StartOauth \/ UNCHANGED vars
    BY <2>1 DEF StartOauth, vars, atlassian
  <2>2. CASE World
    BY <2>2 DEF World, StateTimesOut, TokenExpires, ConsentWithdrawn, PermissionLost, SiteLost,
       atlassian
  <2>3. ASSUME NEW p \in Requests, Steps(p)
        PROVE  /\ expired' = expired /\ revoked' = revoked
               /\ pairs' = pairs \/ Exchange(p) \/ RotateOk(p)
    BY <2>3 DEF Steps, Callback, Exchange, ExchangeFails, SaveConnection, ListSites,
       ListProjects, PutSite, PutSelection, SyncJira, Disconnect, Begin, RotateNotNeeded,
       RotateRefused, RotateOk, RotateWithoutRefresh, RotateLost, CallRefused, CallFails, Lists,
       ChecksSite, ChecksProjects, Synchronizes, SaveSite, SaveSelection, SaveDisconnect,
       PurgeRows, PurgeFails, atlassian
  <2>4. ASSUME NEW p \in Requests, Exchange(p)
        PROVE  pairs'[a] = pairs[a]
    <3>1. pairs' = Append(pairs, Len(consents) + 1) /\ Len(consents) + 1 \in Nat
      BY <2>4, Reads DEF Exchange
    <3>. QED  BY <1>1, <3>1, PairAdded
  <2>5. ASSUME NEW p \in Requests, RotateOk(p)
        PROVE  pairs'[a] = pairs[a]
    <3>1. /\ pairs' = Append(pairs, pairs[Sent(p)]) /\ Rotates(p) /\ Refreshable(Sent(p))
      BY <2>5 DEF RotateOk
    <3>2. Sent(p) \in 1..Len(pairs)
      BY <1>1, <3>1, RotatesIs, Reads DEF Refreshable
    <3>3. pairs[Sent(p)] \in Nat
      BY <1>1, <3>2, ElementOfSeq
    <3>. QED  BY <1>1, <3>1, <3>3, PairAdded
  <2>. QED  BY <2>1, <2>2, <2>3, <2>4, <2>5 DEF Next
<1>. QED  BY <1>2, <1>3

\* A permission once lost stays lost.
LEMMA BarredForGood ==
  ASSUME IInv, [Next]_vars, history.barred
  PROVE  history'.barred
<1>1. history \in Histories
  BY DEF IInv, Types
<1>2. CASE StartOauth \/ World \/ UNCHANGED vars
  BY <1>1, <1>2 DEF StartOauth, World, StateTimesOut, TokenExpires, ConsentWithdrawn,
     PermissionLost, SiteLost, Trouble, vars, Histories
<1>3. ASSUME NEW p \in Requests, Steps(p)
      PROVE  history'.barred
  BY <1>1, <1>3 DEF Steps, Callback, Exchange, ExchangeFails, SaveConnection, ListSites,
     ListProjects, PutSite, PutSelection, SyncJira, Disconnect, Begin, RotateNotNeeded,
     RotateRefused, RotateOk, RotateWithoutRefresh, RotateLost, CallRefused, CallFails, Lists,
     ChecksSite, ChecksProjects, Synchronizes, SaveSite, SaveSelection, SaveDisconnect,
     PurgeRows, PurgeFails, Trouble, Started, Histories
<1>. QED  BY <1>2, <1>3 DEF Next

LEMMA AgainPreserved == IInv /\ PInv /\ AgainInv /\ [Next]_vars => AgainInv'
<1>. SUFFICES ASSUME IInv, PInv, AgainInv, [Next]_vars, NEW q \in Requests,
                     req'[q].at = "renew_again"
              PROVE  (~Works(req[q].access))' \/ history'.barred
  BY DEF AgainInv
<1>1. \/ req'[q] = req[q]
      \/ CallRefused(q) /\ req'[q].access = req[q].access
  <2>1. CASE StartOauth \/ World \/ UNCHANGED vars
    BY <2>1 DEF StartOauth, World, StateTimesOut, TokenExpires, ConsentWithdrawn,
       PermissionLost, SiteLost, vars
  <2>2. ASSUME NEW p \in Requests, Steps(p)
        PROVE  \/ req'[q] = req[q]
               \/ CallRefused(q) /\ req'[q].access = req[q].access
    BY <2>2, SentAgain
  <2>. QED  BY <2>1, <2>2 DEF Next
<1>2. /\ req[q].access \in 1..Len(pairs)
      /\ ~Works(req[q].access) \/ history.barred
  <2>1. CASE req'[q] = req[q]
    BY <2>1, HoldsPair DEF AgainInv
  <2>2. CASE CallRefused(q)
    BY <2>2, HoldsPair DEF CallRefused, Calling
  <2>. QED  BY <1>1, <2>1, <2>2
<1>3. req'[q].access = req[q].access
  BY <1>1
<1>4. CASE history.barred
  BY <1>4, BarredForGood
<1>5. CASE ~Works(req[q].access)
  <2>1. PICK a \in 1..Len(pairs) : a = req[q].access
    BY <1>2
  <2>2. ~(a # 0 /\ a \notin expired' /\ pairs'[a] \notin revoked')
    BY <1>5, <2>1, RefusedForGood
  <2>. QED  BY <1>3, <2>1, <2>2 DEF Works
<1>. QED  BY <1>2, <1>4, <1>5

\* A rotation sends the refresh token of the pair the request holds, and of
\* no other: the stored pair is that one, and it works no more, or the
\* request was denied a permission.
LEMMA RotatedPair ==
  ASSUME IInv, PInv, AgainInv, NEW p \in Requests, Rotates(p)
  PROVE  /\ Sent(p) = grant.refresh /\ grant.refresh = grant.access
         /\ grant.access # 0
         /\ ~Works(grant.access) \/ Denied(p)
<1>1. /\ Renewing(p) /\ grant # None /\ ~grant.reauth /\ Sends(grant, req[p].refresh) # {}
      /\ Sent(p) = grant.refresh
  BY SentIs DEF Rotates, Connected
<1>2. grant.access # 0 /\ grant.refresh = grant.access
  BY <1>1, ReadsGrant, GrantFields DEF PInv, GrantOK
<1>3. grant.refresh = req[p].refresh
  BY <1>1, <1>2 DEF Sends
<1>4. /\ req[p].refresh = req[p].access
      /\ ~Works(req[p].access) \/ Denied(p)
  <2>1. /\ req[p].op \in Listings \cup Changes /\ req[p].at # "purge"
        /\ req[p].refresh = req[p].access
        /\ CallOK(req[p], grant, pairs, expired, revoked)
    BY <1>1, HoldsPair DEF Renewing
  <2>2. CASE req[p].at = "renew"
    <3>1. req[p].access \in expired \/ pairs[req[p].access] \in revoked
      BY <2>1, <2>2 DEF CallOK
    <3>. QED  BY <2>1, <3>1 DEF Works
  <2>3. CASE req[p].at = "renew_again"
    BY <2>1, <2>3 DEF AgainInv, Denied
  <2>. QED  BY <1>1, <2>1, <2>2, <2>3 DEF Renewing
<1>. QED  BY <1>1, <1>2, <1>3, <1>4

\* A second refusal of a request that already went on to a later pair of the
\* stored consent: that consent is withdrawn.
LEMMA RefusedAgain ==
  ASSUME IInv, PInv, NEW p \in Requests, Calling(p), ~Works(req[p].access), req[p].again,
         grant # None, ~grant.reauth, pairs[req[p].snap.access] = pairs[grant.access]
  PROVE  ~Works(grant.access) /\ ~Refreshable(grant.refresh)
<1>. DEFINE s == req[p].snap.access  b == req[p].access  a == grant.access
<1>1. /\ b \in 1..Len(pairs) /\ s \in 1..Len(pairs) /\ TokensOK(req[p], grant, pairs, expired)
  BY HoldsPair DEF Calling
<1>2. /\ Len(pairs) \in Nat /\ pairs \in Seq(Nat) /\ expired \subseteq 1..Len(pairs)
      /\ a \in 1..Len(pairs) /\ grant.refresh = a
  <2>1. /\ Len(pairs) \in Nat /\ Len(consents) \in Nat
        /\ grant \in Grants(Len(pairs), Len(consents))
    BY ReadsGrant
  <2>2. a # 0 /\ a \in 0..Len(pairs)
    <3>1. grant.reauth = (grant.access = 0) /\ a \in 0..Len(pairs)
      BY <2>1, GrantFields
    <3>2. grant.access # 0
      BY <3>1
    <3>. QED  BY <3>1, <3>2
  <2>3. pairs \in Seq(Nat) /\ expired \subseteq 1..Len(pairs) /\ grant.refresh = a
    BY DEF IInv, Types, PInv, GrantOK
  <2>. QED  BY <2>1, <2>2, <2>3
<1>3. /\ NotAfter(pairs, s, b) /\ NotAfter(pairs, b, a) /\ b # s
      /\ \A e \in expired : pairs[e] = pairs[s] => e <= s
  BY <1>1, <1>2 DEF TokensOK
<1>4. pairs[a] \in Nat /\ pairs[b] \in Nat /\ pairs[s] \in Nat
  BY <1>1, <1>2, ElementOfSeq
<1>5. pairs[b] = pairs[s] /\ s < b
  BY <1>1, <1>3, <1>4 DEF NotAfter
<1>6. b \notin expired
  BY <1>1, <1>3, <1>5
<1>7. pairs[b] \in revoked
  <2>1. b # 0
    BY <1>1, <1>2
  <2>. QED  BY <1>6, <2>1, RefusedIs
<1>. QED  BY <1>2, <1>5, <1>7 DEF Works, Refreshable

\* The steps that take the tokens of a grant away end their own request.
LEMMA WipedBy ==
  ASSUME IInv, PInv, AgainInv, NEW p \in Requests, Steps(p),
         grant # None, ~grant.reauth, grant' # None, grant'.reauth,
         req[p].op # "connect", req'[p] = Idle, pairs[req[p].snap.access] = pairs[grant.access]
  PROVE  \/ /\ ~Works(grant.access)
            /\ ~Refreshable(grant.refresh) \/ grant.refresh \in spent'
         \/ req[p].op = "sync" /\ req[p].snap.site \notin Reach(req[p].access)
         \/ Denied(p)
<1>1. grant' # grant
  OBVIOUS
<1>2. CASE \/ Callback(p) \/ Exchange(p) \/ ExchangeFails(p) \/ SaveConnection(p)
           \/ CallFails(p) \/ Lists(p) \/ ChecksSite(p) \/ ChecksProjects(p)
           \/ PurgeRows(p) \/ PurgeFails(p) \/ RotateNotNeeded(p) \/ RotateLost(p)
  BY <1>1, <1>2 DEF Callback, Exchange, ExchangeFails, SaveConnection, CallFails, Lists,
     ChecksSite, ChecksProjects, PurgeRows, PurgeFails, RotateNotNeeded, RotateLost
<1>3. CASE \/ ListSites(p) \/ ListProjects(p) \/ PutSite(p) \/ PutSelection(p)
           \/ SyncJira(p) \/ Disconnect(p)
  BY <1>1, <1>3 DEF ListSites, ListProjects, PutSite, PutSelection, SyncJira, Disconnect, Begin
<1>4. CASE RotateRefused(p)
  BY <1>4, RotatedPair DEF RotateRefused
<1>5. CASE RotateWithoutRefresh(p)
  BY <1>5, RotatedPair DEF RotateWithoutRefresh
<1>6. CASE RotateOk(p)
  <2>1. Rotates(p) /\ Renewing(p) /\ TakesPair(p, Len(pairs) + 1, Len(pairs) + 1)
    BY <1>6 DEF RotateOk, Rotates
  <2>2. req[p] \in Begun(Len(pairs), Len(consents))
    BY <2>1, HoldsPair DEF Renewing
  <2>. DEFINE again == req[p].again \/ req[p].at = "renew_again"
  <2>3. req'[p] = [req[p] EXCEPT !.access = Len(pairs) + 1, !.refresh = Len(pairs) + 1,
                                 !.again = again, !.at = "call"]
    BY <2>1, Reads DEF TakesPair
  <2>. HIDE DEF again
  <2>4. req'[p].at = "call" /\ Idle.at = "idle"
    BY <2>2, <2>3 DEF Begun, Idle
  <2>. QED  BY <2>4
<1>7. CASE CallRefused(p)
  <2>1. /\ Calling(p) /\ req[p].again
        /\ ~Works(req[p].access) \/ history.barred
    BY <1>1, <1>7 DEF CallRefused
  <2>2. CASE ~Works(req[p].access)
    BY <2>1, <2>2, RefusedAgain
  <2>. QED  BY <2>1, <2>2 DEF Denied
<1>8. CASE Synchronizes(p)
  BY <1>1, <1>8 DEF Synchronizes
<1>9. CASE SaveSite(p)
  <2>. DEFINE h == [grant EXCEPT !.site = req[p].arg,
                                 !.keys = IF grant.site = req[p].arg THEN @ ELSE {}]
  <2>1. grant' = Stored(h) /\ grant \in Connections
    BY <1>9, ReadsGrant, GrantFields DEF SaveSite, Store, Connected
  <2>2. h.reauth = grant.reauth
    BY <2>1 DEF Connections
  <2>. HIDE DEF h
  <2>. QED  BY <2>1, <2>2 DEF Stored
<1>10. CASE SaveSelection(p)
  <2>. DEFINE h == [grant EXCEPT !.keys = req[p].arg]
  <2>1. grant' = Stored(h) /\ grant \in Connections
    BY <1>10, ReadsGrant, GrantFields DEF SaveSelection, Store, Connected
  <2>2. h.reauth = grant.reauth
    BY <2>1 DEF Connections
  <2>. HIDE DEF h
  <2>. QED  BY <2>1, <2>2 DEF Stored
<1>11. CASE SaveDisconnect(p)
  BY <1>11, StoredNone DEF SaveDisconnect, Store
<1>. QED  BY <1>2, <1>3, <1>4, <1>5, <1>6, <1>7, <1>8, <1>9, <1>10, <1>11 DEF Steps

\* Nobody but a request that moves can come to an end.
LEMMA OnlyTheMoverEnds ==
  ASSUME IInv, NEW p \in Requests, Steps(p), NEW q \in Requests, req[q] # Idle, req'[q] = Idle
  PROVE  q = p
<1>1. req'[q] = req[q] \/ q = p
  BY Reads DEF Steps, Callback, Exchange, ExchangeFails, SaveConnection, End, Goto, ListSites,
     ListProjects, PutSite, PutSelection, SyncJira, Disconnect, Begin, RotateNotNeeded, TakesPair,
     RotateRefused, RotateOk, RotateWithoutRefresh, RotateLost, CallRefused, CallFails, Lists,
     ChecksSite, ChecksProjects, Synchronizes, SaveSite, SaveSelection, SaveDisconnect, PurgeOr,
     PurgeRows, PurgeFails
<1>. QED  BY <1>1

(* No request takes the tokens of a usable grant of its own consent away:  *)
(* it does so only when the stored pair works no more and cannot be        *)
(* renewed, or when the selected site left its reach (_rotate,             *)
(* _mark_reauth).  A call denied for want of a permission is taken for     *)
(* that (client.py, 403 as 401), but never at once: the refused request    *)
(* has renewed the pair, or could not.                                     *)
THEOREM LiveGrants == Spec => LiveGrantKept
<1>. DEFINE wiped == Connected /\ ~grant.reauth /\ grant' # None /\ grant'.reauth
            own(p) == req[p] # Idle /\ req[p].op # "connect" /\ req'[p] = Idle
                      /\ pairs[req[p].snap.access] = pairs[grant.access]
            A == \A p \in Requests :
                   wiped /\ own(p) =>
                     \/ /\ ~Works(grant.access)
                        /\ ~Refreshable(grant.refresh) \/ grant.refresh \in spent'
                     \/ req[p].op = "sync" /\ req[p].snap.site \notin Reach(req[p].access)
                     \/ Denied(p)
<1>1. IInv /\ PInv /\ AgainInv /\ [Next]_vars => A
  <2>. SUFFICES ASSUME IInv, PInv, AgainInv, [Next]_vars, NEW p \in Requests, wiped, own(p)
                PROVE  \/ /\ ~Works(grant.access)
                          /\ ~Refreshable(grant.refresh) \/ grant.refresh \in spent'
                       \/ req[p].op = "sync" /\ req[p].snap.site \notin Reach(req[p].access)
                       \/ Denied(p)
    OBVIOUS
  <2>1. CASE StartOauth \/ World \/ UNCHANGED vars
    BY <2>1 DEF StartOauth, World, StateTimesOut, TokenExpires, ConsentWithdrawn,
       PermissionLost, SiteLost, vars
  <2>2. ASSUME NEW q \in Requests, Steps(q)
        PROVE  q = p
    BY <2>2, OnlyTheMoverEnds
  <2>3. CASE Steps(p)
    BY <2>3, WipedBy DEF Connected
  <2>. QED  BY <2>1, <2>2, <2>3 DEF Next
<1>2. Spec => []PInv
  BY InvariantHolds, PairsInit, PairsPreserved, PTL DEF Spec
<1>3. Init => AgainInv
  BY DEF Init, AgainInv, Idle
<1>4. Spec => []AgainInv
  BY <1>2, <1>3, InvariantHolds, AgainPreserved, PTL DEF Spec
<1>5. A => \A p \in Requests :
             wiped /\ own(p) =>
               \/ /\ ~Works(grant.access)
                  /\ ~Refreshable(grant.refresh) \/ grant.refresh \in spent'
               \/ req[p].op = "sync" /\ req[p].snap.site \notin Reach(req[p].access)
               \/ history.barred /\ (req[p].again \/ req[p].at = "renew_again")
  BY DEF Denied
<1>. QED  BY <1>1, <1>2, <1>4, <1>5, InvariantHolds, PTL DEF Spec, LiveGrantKept

-----------------------------------------------------------------------------
(* GitHub.                                                                 *)

GhHistories == [started : Nat, troubles : Nat, ids : Nat, unpurged : BOOLEAN,
                replaced : BOOLEAN]
GhDocs == [id : Nat, part : Repos \cup Boards]

Writers == {"connect", "select", "sync", "disconnect"}

GhStill == [op : {None}, at : {"idle"}]
GhConnecting == [op : {"connect"}, at : {"save"}, pair : Nat]
GhReading == [op : {"list", "fetch"}, arg : {None}, at : {"call", "renew", "store"},
              access : Nat, refresh : Nat, sel : Selections, id : Nat, again : BOOLEAN]
GhSelecting == [op : {"select"}, arg : Selections, at : {"call", "save"},
                access : Nat, refresh : Nat, sel : Selections, id : Nat, again : BOOLEAN]
GhSyncing == [op : {"sync"}, arg : {None}, at : {"call", "renew", "store", "save"},
              access : Nat, refresh : Nat, sel : Selections, id : Nat, again : BOOLEAN]
GhDropping == [op : {"disconnect"}, arg : {None}, at : {"save"},
               access : Nat, refresh : Nat, sel : Selections, id : Nat, again : BOOLEAN]
GhPurging == [op : {"select", "disconnect"}, at : {"purge"}, rows : SUBSET GhDocs]
GhReqs == GhStill \cup GhConnecting \cup GhReading \cup GhSelecting \cup GhSyncing
            \cup GhDropping \cup GhPurging

(* What a request under way took along still stands: nobody else changes   *)
(* the connector and its selection.                                        *)
GhTaken(s, g) ==
    /\ s \in GhSyncing => /\ g # None /\ g.id = s.id /\ s.id # 0
                          /\ GitHub!Parts(g.sel) \subseteq GitHub!Parts(s.sel)
    /\ s \in GhSelecting \cup GhDropping => g # None /\ g.sel = s.sel /\ g.id = s.id

(* A row is accounted for by the stored selection, by a purge that still   *)
(* has to remove it, or by the synchronization that is about to store the  *)
(* scope it wrote the row under.                                           *)
InScope(r, g) == g # None /\ r.id = g.id /\ r.id # 0 /\ r.part \in GitHub!Parts(g.sel)
Answers(s, r) ==
    \/ s \in GhPurging /\ r \in s.rows
    \/ s \in GhSyncing /\ s.at = "save" /\ r.id = s.id /\ r.part \in GitHub!Parts(s.sel)

GhRowsKept(rows, reqs, g) ==
    \A r \in rows : InScope(r, g) \/ \E p \in Requests : Answers(reqs[p], r)

GhSoleWriter(reqs) ==
    \A p, q \in Requests : reqs[p].op \in Writers /\ reqs[q].op \in Writers => p = q

GhClean(h) == ~h.unpurged /\ ~h.replaced

GhInv ==
    /\ ghGrant \in GitHubGrants \cup {None} /\ ghReq \in [Requests -> GhReqs]
    /\ ghHistory \in GhHistories /\ ghRows \subseteq GhDocs /\ issued \in Nat
    /\ GhSoleWriter(ghReq)
    /\ \A p \in Requests : GhTaken(ghReq[p], ghGrant)
    /\ GhClean(ghHistory) => GhRowsKept(ghRows, ghReq, ghGrant)

(* The connector and its selection stay, whatever becomes of the tokens.   *)
GhSame(g, h) ==
    /\ g = None => h = None
    /\ g # None => h # None /\ h.sel = g.sel /\ h.id = g.id

\* What a request is says what it may do next.
LEMMA GhShape ==
  ASSUME NEW s \in GhReqs
  PROVE  /\ s.op = None <=> s \in GhStill
         /\ s.op = "connect" <=> s \in GhConnecting
         /\ s.op \in {"list", "fetch"} <=> s \in GhReading
         /\ s.op = "sync" <=> s \in GhSyncing
         /\ s.op = "select" /\ s.at # "purge" <=> s \in GhSelecting
         /\ s.op = "disconnect" /\ s.at # "purge" <=> s \in GhDropping
         /\ s.at = "purge" <=> s \in GhPurging
         /\ s \in GhPurging => s.op \in {"select", "disconnect"}
         /\ s = GitHub!Idle => s \in GhStill
<1>0. None \notin {"connect", "list", "fetch", "select", "sync", "disconnect"}
  BY ConnectionsAssumption
<1>1. s \in GhStill => s.op = None /\ s.at = "idle"
  BY DEF GhStill
<1>2. s \in GhConnecting => s.op = "connect" /\ s.at = "save"
  BY DEF GhConnecting
<1>3. s \in GhReading => s.op \in {"list", "fetch"} /\ s.at \in {"call", "renew", "store"}
  BY DEF GhReading
<1>4. s \in GhSelecting => s.op = "select" /\ s.at \in {"call", "save"}
  BY DEF GhSelecting
<1>5. s \in GhSyncing => s.op = "sync" /\ s.at \in {"call", "renew", "store", "save"}
  BY DEF GhSyncing
<1>6. s \in GhDropping => s.op = "disconnect" /\ s.at = "save"
  BY DEF GhDropping
<1>7. s \in GhPurging => s.op \in {"select", "disconnect"} /\ s.at = "purge"
  BY DEF GhPurging
<1>8. \/ s \in GhStill \/ s \in GhConnecting \/ s \in GhReading \/ s \in GhSelecting
      \/ s \in GhSyncing \/ s \in GhDropping \/ s \in GhPurging
  BY DEF GhReqs
<1>9. s = GitHub!Idle => s.op = None
  BY DEF GitHub!Idle
<1>. HIDE DEF GhReqs
<1>. QED  BY <1>0, <1>1, <1>2, <1>3, <1>4, <1>5, <1>6, <1>7, <1>8, <1>9

LEMMA GhIdleIs ==
  /\ GitHub!Idle \in GhReqs /\ GitHub!Idle.op \notin Writers
  /\ \A g : GhTaken(GitHub!Idle, g)
  /\ \A r : ~Answers(GitHub!Idle, r)
<1>1. GitHub!Idle \in GhStill /\ GitHub!Idle.op = None
  BY DEF GitHub!Idle, GhStill
<1>2. GitHub!Idle \in GhReqs
  BY <1>1 DEF GhReqs
<1>3. None \notin {"connect", "list", "fetch", "select", "sync", "disconnect"}
  BY ConnectionsAssumption
<1>4. /\ GitHub!Idle \notin GhSyncing /\ GitHub!Idle \notin GhSelecting
      /\ GitHub!Idle \notin GhDropping /\ GitHub!Idle \notin GhPurging
  BY <1>1, <1>3 DEF GhSyncing, GhSelecting, GhDropping, GhPurging
<1>. QED  BY <1>1, <1>2, <1>3, <1>4 DEF Writers, GhTaken, Answers

\* Only those that change the connection take something along that it must keep.
LEMMA GhReader ==
  ASSUME NEW s \in GhReqs, s.op \notin Writers, NEW g
  PROVE  GhTaken(s, g) /\ \A r : ~Answers(s, r)
<1>1. /\ s \notin GhSyncing /\ s \notin GhSelecting /\ s \notin GhDropping
      /\ s \notin GhPurging
  BY GhShape DEF Writers
<1>. QED  BY <1>1 DEF GhTaken, Answers

LEMMA GhTakenSame ==
  ASSUME NEW s, NEW g, NEW h, GhTaken(s, g), GhSame(g, h)
  PROVE  GhTaken(s, h)
BY DEF GhTaken, GhSame

\* One request moves; what is left to show is its own part.
LEMMA GhMove ==
  ASSUME GhInv, NEW p \in Requests, NEW n \in GhReqs, ghReq' = [ghReq EXCEPT ![p] = n],
         ghGrant' \in GitHubGrants \cup {None}, ghRows' \subseteq GhDocs,
         ghHistory' \in GhHistories, issued' \in Nat,
         n.op \in Writers => ghReq[p].op = n.op \/ \A q \in Requests : ghReq[q].op \notin Writers,
         GhTaken(n, ghGrant'),
         GhSame(ghGrant, ghGrant') \/ \A q \in Requests \ {p} : ghReq[q].op \notin Writers,
         GhClean(ghHistory') =>
           \A r \in ghRows' : \/ InScope(r, ghGrant') \/ Answers(n, r)
                              \/ \E q \in Requests \ {p} : Answers(ghReq[q], r)
  PROVE  GhInv'
<1>1. /\ ghReq \in [Requests -> GhReqs] /\ GhSoleWriter(ghReq)
      /\ \A q \in Requests : GhTaken(ghReq[q], ghGrant)
  BY DEF GhInv
<1>2. /\ ghReq' \in [Requests -> GhReqs] /\ ghReq'[p] = n
      /\ \A q \in Requests \ {p} : ghReq'[q] = ghReq[q]
  BY <1>1
<1>3. GhSoleWriter(ghReq')
  BY <1>1, <1>2 DEF GhSoleWriter
<1>4. ASSUME NEW q \in Requests PROVE GhTaken(ghReq'[q], ghGrant')
  <2>1. CASE q = p
    BY <1>2, <2>1
  <2>2. CASE q # p /\ GhSame(ghGrant, ghGrant')
    BY <1>1, <1>2, <2>2, GhTakenSame
  <2>3. CASE q # p /\ ghReq[q].op \notin Writers
    BY <1>1, <1>2, <2>3, GhReader
  <2>. QED  BY <2>1, <2>2, <2>3
<1>5. GhClean(ghHistory') => GhRowsKept(ghRows', ghReq', ghGrant')
  BY <1>2 DEF GhRowsKept
<1>. QED  BY <1>2, <1>3, <1>4, <1>5 DEF GhInv

\* A step that leaves the connector, its selection and the rows.
LEMMA GhQuiet ==
  ASSUME GhInv, NEW p \in Requests, NEW n \in GhReqs, ghReq' = [ghReq EXCEPT ![p] = n],
         ghGrant' \in GitHubGrants \cup {None}, GhSame(ghGrant, ghGrant'),
         ghRows' = ghRows, ghHistory' \in GhHistories, issued' \in Nat,
         GhClean(ghHistory') => GhClean(ghHistory),
         n.op \in Writers => ghReq[p].op = n.op \/ \A q \in Requests : ghReq[q].op \notin Writers,
         GhTaken(n, ghGrant'),
         ghReq[p].at # "purge", ghReq[p].op # "sync" \/ ghReq[p].at # "save"
  PROVE  GhInv'
<1>1. ghReq \in [Requests -> GhReqs] /\ ghRows \subseteq GhDocs
  BY DEF GhInv
<1>2. \A r : ~Answers(ghReq[p], r)
  BY <1>1, GhShape DEF Answers
<1>3. ASSUME GhClean(ghHistory'), NEW r \in ghRows'
      PROVE  InScope(r, ghGrant') \/ \E q \in Requests \ {p} : Answers(ghReq[q], r)
  <2>1. InScope(r, ghGrant) \/ \E q \in Requests : Answers(ghReq[q], r)
    BY <1>3 DEF GhInv, GhRowsKept
  <2>2. InScope(r, ghGrant) => InScope(r, ghGrant')
    BY DEF InScope, GhSame
  <2>. QED  BY <1>2, <2>1, <2>2
<1>. QED  BY <1>1, <1>3, GhMove

LEMMA GhUnmoved ==
  ASSUME GhInv, UNCHANGED <<ghGrant, ghReq, ghRows>>, ghHistory' \in GhHistories,
         issued' \in Nat, GhClean(ghHistory') => GhClean(ghHistory)
  PROVE  GhInv'
BY DEF GhInv

LEMMA GhCounts ==
  ASSUME ghHistory \in GhHistories,
         ghHistory' = ghHistory \/ GitHub!Started \/ GitHub!Trouble
  PROVE  ghHistory' \in GhHistories /\ (GhClean(ghHistory') => GhClean(ghHistory))
BY DEF GitHub!Started, GitHub!Trouble, GhHistories, GhClean

LEMMA GhAlone ==
  ASSUME GhInv, NEW p \in Requests, NEW op, GitHub!MayStart(p, op)
  PROVE  /\ ghReq[p] = GitHub!Idle
         /\ op \in {"list", "fetch"} \/ \A q \in Requests : ghReq[q].op \notin Writers
BY ConnectionsAssumption DEF GitHub!MayStart, GitHub!Readers, Writers

LEMMA GhReads ==
  ASSUME GhInv
  PROVE  /\ ghGrant \in GitHubGrants \cup {None} /\ ghReq \in [Requests -> GhReqs]
         /\ ghHistory \in GhHistories /\ ghRows \subseteq GhDocs /\ issued \in Nat
         /\ ghHistory.ids \in Nat
         /\ GhSoleWriter(ghReq) /\ \A q \in Requests : GhTaken(ghReq[q], ghGrant)
         /\ GhClean(ghHistory) => GhRowsKept(ghRows, ghReq, ghGrant)
BY DEF GhInv, GhHistories

LEMMA GhNone == None \notin GitHubGrants /\ None \notin Repos \cup Boards
BY ConnectionsAssumption

\* Marked, or renewed: the connector and its selection stay.
LEMMA GhMarked ==
  ASSUME ghGrant \in GitHubGrants \cup {None}, GitHub!Store(GitHub!Reauth)
  PROVE  ghGrant' \in GitHubGrants \cup {None} /\ GhSame(ghGrant, ghGrant')
<1>1. CASE ghGrant = None
  BY <1>1 DEF GitHub!Store, GitHub!Reauth, GitHub!Connected, GhSame
<1>2. CASE ghGrant # None
  <2>. DEFINE yes == TRUE  h == [ghGrant EXCEPT !.reauth = yes]
  <2>1. ghGrant' = h /\ ghGrant \in GitHubGrants /\ yes \in BOOLEAN
    BY <1>2 DEF GitHub!Store, GitHub!Reauth, GitHub!Connected
  <2>. HIDE DEF yes
  <2>2. h \in GitHubGrants /\ h.sel = ghGrant.sel /\ h.id = ghGrant.id
    BY <2>1 DEF GitHubGrants
  <2>. HIDE DEF h
  <2>. QED  BY <1>2, <2>1, <2>2, GhNone DEF GhSame
<1>. QED  BY <1>1, <1>2

\* The request takes the stored connection along.
LEMMA GhSnapshotIs ==
  ASSUME ghGrant \in GitHubGrants, NEW op, NEW arg
  PROVE  /\ op \in {"list", "fetch"} /\ arg = None => GitHub!Snapshot(op, arg) \in GhReading
         /\ op = "select" /\ arg \in Selections => GitHub!Snapshot(op, arg) \in GhSelecting
         /\ op = "sync" /\ arg = None => GitHub!Snapshot(op, arg) \in GhSyncing
         /\ GitHub!Snapshot(op, arg).op = op
         /\ GitHub!Snapshot(op, arg).sel = ghGrant.sel
         /\ GitHub!Snapshot(op, arg).id = ghGrant.id
<1>. DEFINE no == FALSE
            s == [op |-> op, arg |-> arg, at |-> "call", access |-> ghGrant.access,
                  refresh |-> ghGrant.refresh, sel |-> ghGrant.sel, id |-> ghGrant.id,
                  again |-> no]
<1>1. GitHub!Snapshot(op, arg) = s /\ no \in BOOLEAN
  BY DEF GitHub!Snapshot
<1>2. /\ ghGrant.access \in Nat /\ ghGrant.refresh \in Nat /\ ghGrant.sel \in Selections
      /\ ghGrant.id \in Nat
  BY DEF GitHubGrants
<1>. HIDE DEF no
<1>3. /\ op \in {"list", "fetch"} /\ arg = None => s \in GhReading
      /\ op = "select" /\ arg \in Selections => s \in GhSelecting
      /\ op = "sync" /\ arg = None => s \in GhSyncing
      /\ s.op = op /\ s.sel = ghGrant.sel /\ s.id = ghGrant.id
  BY <1>1, <1>2 DEF GhReading, GhSelecting, GhSyncing
<1>. HIDE DEF s
<1>. QED  BY <1>1, <1>3, Zenon

-----------------------------------------------------------------------------
(* The steps.                                                              *)

\* The state token's issue and timeout, and an access token that runs out.
LEMMA GhOutside ==
  ASSUME GhInv, GitHub!TokenDies \/ GitHub!StartOauth \/ GitHub!StateTimesOut
  PROVE  GhInv'
<1>1. UNCHANGED <<ghGrant, ghReq, ghRows, issued, ghHistory>>
  BY DEF GitHub!TokenDies, GitHub!StartOauth, GitHub!StateTimesOut
<1>. QED  BY <1>1, GhReads, GhUnmoved

\* A consent in one process; no other request changes the connection.
LEMMA GhCallback ==
  ASSUME GhInv, NEW p \in Requests, GitHub!Callback(p)
  PROVE  GhInv'
<1>. DEFINE n == [op |-> "connect", at |-> "save", pair |-> issued + 1]
            h == [ghHistory EXCEPT !.started = ghHistory.started + 1]
<1>1. /\ GitHub!MayStart(p, "connect") /\ ghReq' = [ghReq EXCEPT ![p] = n]
      /\ UNCHANGED <<ghGrant, ghRows>> /\ issued' = issued + 1 /\ ghHistory' = h
  BY DEF GitHub!Callback
<1>2. h \in GhHistories /\ (GhClean(h) => GhClean(ghHistory))
  BY GhReads DEF GhHistories, GhClean
<1>3. n \in GhConnecting
  BY GhReads DEF GhConnecting
<1>4. n \in GhReqs
  BY <1>3 DEF GhReqs
<1>5. GhTaken(n, ghGrant)
  BY <1>3, <1>4, GhShape DEF GhTaken
<1>6. /\ \A q \in Requests : ghReq[q].op \notin Writers
      /\ ghReq[p].at # "purge" /\ ghReq[p].op # "sync"
  BY <1>1, GhAlone, ConnectionsAssumption DEF GitHub!Idle
<1>7. GhSame(ghGrant, ghGrant')
  BY <1>1 DEF GhSame
<1>8. issued' \in Nat /\ ghGrant' \in GitHubGrants \cup {None}
  BY <1>1, GhReads
<1>. HIDE DEF n, h
<1>. QED  BY <1>1, <1>2, <1>4, <1>5, <1>6, <1>7, <1>8, GhQuiet

LEMMA GhCallbackFails ==
  ASSUME GhInv, NEW p \in Requests, GitHub!CallbackFails(p)
  PROVE  GhInv'
<1>. DEFINE k == [ghHistory EXCEPT !.started = ghHistory.started + 1]
            h == [k EXCEPT !.troubles = ghHistory.troubles + 1]
<1>1. UNCHANGED <<ghGrant, ghReq, ghRows, issued>> /\ ghHistory' = h
  BY DEF GitHub!CallbackFails
<1>0. ghHistory.troubles + 1 \in Nat
  BY GhReads DEF GhHistories
<1>3. k \in GhHistories /\ (GhClean(k) => GhClean(ghHistory))
  BY GhReads DEF GhHistories, GhClean
<1>. HIDE DEF k
<1>2. h \in GhHistories /\ (GhClean(h) => GhClean(ghHistory))
  BY <1>0, <1>3 DEF GhHistories, GhClean
<1>. HIDE DEF h
<1>. QED  BY <1>1, <1>2, GhReads, GhUnmoved

\* A connection over nothing finds no rows; over a stored one it is noted.
LEMMA GhSaveConnection ==
  ASSUME GhInv, NEW p \in Requests, GitHub!SaveConnection(p)
  PROVE  GhInv'
<1>. DEFINE no == FALSE
            g == [access |-> ghReq[p].pair, refresh |-> ghReq[p].pair, reauth |-> no,
                  sel |-> Preset, id |-> 0]
            yes == ghHistory.replaced \/ GitHub!Connected
            h == [ghHistory EXCEPT !.replaced = yes]
<1>1. /\ ghReq[p].op = "connect" /\ ghGrant' = g /\ ghHistory' = h
      /\ ghReq' = [ghReq EXCEPT ![p] = GitHub!Idle] /\ UNCHANGED <<ghRows, issued>>
      /\ no \in BOOLEAN
  BY DEF GitHub!SaveConnection, GitHub!Store, GitHub!End, GitHub!github
<1>2. ghReq[p] \in GhConnecting
  BY <1>1, GhReads, GhShape
<1>3. yes \in BOOLEAN /\ (~yes => ghGrant = None /\ ~ghHistory.replaced)
  BY GhReads DEF GhHistories, GitHub!Connected
<1>. HIDE DEF no, yes
<1>4. g \in GitHubGrants
  BY <1>1, <1>2, ConnectionsAssumption DEF GitHubGrants, GhConnecting
<1>5. h \in GhHistories /\ h.replaced = yes /\ h.unpurged = ghHistory.unpurged
  BY <1>3, GhReads DEF GhHistories
<1>6. \A q \in Requests \ {p} : ghReq[q].op \notin Writers
  BY <1>1, GhReads DEF GhSoleWriter, Writers
<1>. HIDE DEF g, h
<1>7. ASSUME GhClean(ghHistory'), NEW r \in ghRows' PROVE FALSE
  <2>1. ghGrant = None /\ GhClean(ghHistory)
    BY <1>1, <1>3, <1>5, <1>7 DEF GhClean
  <2>2. \E q \in Requests : Answers(ghReq[q], r)
    BY <1>1, <1>7, <2>1, GhReads DEF GhRowsKept, InScope
  <2>3. ~Answers(ghReq[p], r)
    BY <1>1, GhReads, GhShape DEF Answers
  <2>. QED  BY <1>6, <2>2, <2>3, GhReads, GhReader
<1>. QED  BY <1>1, <1>4, <1>5, <1>6, <1>7, GhReads, GhIdleIs, GhMove

\* Requests under the grant start from its snapshot.
LEMMA GhBegins ==
  ASSUME GhInv, NEW p \in Requests, NEW op, NEW arg, GitHub!Begin(p, op, arg),
         \/ op \in {"list", "fetch"} /\ arg = None
         \/ op = "select" /\ arg \in Selections
  PROVE  GhInv'
<1>. DEFINE n == GitHub!Snapshot(op, arg)
<1>1. /\ GitHub!MayStart(p, op) /\ ghGrant # None /\ GitHub!Started
      /\ ghReq' = [ghReq EXCEPT ![p] = n] /\ UNCHANGED <<ghGrant, ghRows, issued>>
  BY DEF GitHub!Begin, GitHub!Connected, GitHub!github
<1>2. /\ ghGrant \in GitHubGrants /\ (n \in GhReading \/ n \in GhSelecting)
      /\ n.op = op /\ n.sel = ghGrant.sel /\ n.id = ghGrant.id
  <2>1. ghGrant \in GitHubGrants
    BY <1>1, GhReads
  <2>2. /\ op \in {"list", "fetch"} /\ arg = None => n \in GhReading
        /\ op = "select" /\ arg \in Selections => n \in GhSelecting
        /\ n.op = op /\ n.sel = ghGrant.sel /\ n.id = ghGrant.id
    BY <2>1, GhSnapshotIs
  <2>. HIDE DEF n
  <2>. QED  BY <2>1, <2>2
<1>. HIDE DEF n
<1>3. n \in GhReqs
  BY <1>2 DEF GhReqs
<1>4. GhTaken(n, ghGrant)
  BY <1>1, <1>2, <1>3, GhShape DEF GhTaken
<1>5. /\ op \in {"list", "fetch"} \/ \A q \in Requests : ghReq[q].op \notin Writers
      /\ ghReq[p].at # "purge" /\ ghReq[p].op # "sync"
  BY <1>1, GhAlone, ConnectionsAssumption DEF GitHub!Idle
<1>6. GhSame(ghGrant, ghGrant')
  BY <1>1 DEF GhSame
<1>7. ghHistory' \in GhHistories /\ (GhClean(ghHistory') => GhClean(ghHistory))
  BY <1>1, GhReads, GhCounts
<1>8. n.op \in Writers => \A q \in Requests : ghReq[q].op \notin Writers
  BY <1>2, <1>5 DEF Writers
<1>. QED  BY <1>1, <1>3, <1>4, <1>5, <1>6, <1>7, <1>8, GhReads, GhQuiet

LEMMA GhRequestsBegin ==
  ASSUME GhInv, NEW p \in Requests,
         GitHub!ListRepositories(p) \/ GitHub!FetchIssue(p) \/ GitHub!PutSelection(p)
  PROVE  GhInv'
<1>1. CASE GitHub!ListRepositories(p) \/ GitHub!FetchIssue(p)
  BY <1>1, GhBegins DEF GitHub!ListRepositories, GitHub!FetchIssue
<1>2. CASE GitHub!PutSelection(p)
  <2>1. PICK repo \in Repos \cup {None}, board \in Boards \cup {None} :
          GitHub!Begin(p, "select", GitHub!Selection(repo, board))
    BY <1>2 DEF GitHub!PutSelection
  <2>2. GitHub!Selection(repo, board) \in Selections
    BY DEF GitHub!Selection, Selections
  <2>. QED  BY <2>1, <2>2, GhBegins
<1>. QED  BY <1>1, <1>2

\* What a step finds by where the request is.
LEMMA GhAt ==
  ASSUME NEW s \in GhReqs
  PROVE  /\ s.at = "call" => s \in GhReading \/ s \in GhSelecting \/ s \in GhSyncing
         /\ s.at \in {"renew", "store"} => s \in GhReading \/ s \in GhSyncing
<1>1. /\ s \in GhStill => s.at = "idle"
      /\ s \in GhConnecting => s.at = "save"
      /\ s \in GhDropping => s.at = "save"
      /\ s \in GhSelecting => s.at \in {"call", "save"}
      /\ s \in GhPurging => s.at = "purge"
  BY DEF GhStill, GhConnecting, GhDropping, GhSelecting, GhPurging
<1>2. \/ s \in GhStill \/ s \in GhConnecting \/ s \in GhReading \/ s \in GhSelecting
      \/ s \in GhSyncing \/ s \in GhDropping \/ s \in GhPurging
  BY DEF GhReqs
<1>. QED  BY <1>1, <1>2

LEMMA GhGoto ==
  ASSUME NEW s, NEW at \in {"call", "renew", "store", "save"}
  PROVE  /\ s \in GhReading /\ at # "save" => [s EXCEPT !.at = at] \in GhReading
         /\ s \in GhSelecting /\ at \in {"call", "save"} => [s EXCEPT !.at = at] \in GhSelecting
         /\ s \in GhSyncing => [s EXCEPT !.at = at] \in GhSyncing
         /\ s \in GhReading \/ s \in GhSelecting \/ s \in GhSyncing =>
              /\ [s EXCEPT !.at = at].op = s.op /\ [s EXCEPT !.at = at].at = at
              /\ [s EXCEPT !.at = at].sel = s.sel /\ [s EXCEPT !.at = at].id = s.id
BY DEF GhReading, GhSelecting, GhSyncing

\* The request ends and leaves the connector, its selection and the rows.
LEMMA GhEnds ==
  ASSUME GhInv, NEW p \in Requests, ghReq' = [ghReq EXCEPT ![p] = GitHub!Idle],
         ghGrant' \in GitHubGrants \cup {None}, GhSame(ghGrant, ghGrant'),
         ghRows' = ghRows, issued' = issued,
         ghHistory' \in GhHistories, GhClean(ghHistory') => GhClean(ghHistory),
         ghReq[p].at \in {"call", "renew"}
  PROVE  GhInv'
BY GhIdleIs, GhReads, GhQuiet

\* A request goes on and keeps what it took along.
LEMMA GhGoesOn ==
  ASSUME GhInv, NEW p \in Requests, NEW n \in GhReqs, ghReq' = [ghReq EXCEPT ![p] = n],
         ghGrant' \in GitHubGrants \cup {None}, GhSame(ghGrant, ghGrant'),
         ghRows' = ghRows, issued' \in Nat, ghHistory' = ghHistory,
         ghReq[p].at \in {"call", "renew", "store"},
         n.op = ghReq[p].op, n.sel = ghReq[p].sel, n.id = ghReq[p].id, n.at # "purge"
  PROVE  GhInv'
<1>1. ghReq[p] \in GhReqs /\ GhTaken(ghReq[p], ghGrant)
  BY GhReads
<1>2. GhTaken(n, ghGrant)
  <2>1. n \in GhSyncing => ghReq[p] \in GhSyncing
    BY <1>1, GhShape
  <2>2. n \in GhSelecting \/ n \in GhDropping => ghReq[p] \in GhSelecting \/ ghReq[p] \in GhDropping
    BY <1>1, GhShape
  <2>. QED  BY <1>1, <2>1, <2>2 DEF GhTaken
<1>3. GhTaken(n, ghGrant')
  BY <1>2, GhTakenSame
<1>. QED  BY <1>3, GhReads, GhQuiet

\* A refusal marks the grant or has the token renewed.
LEMMA GhRefused ==
  ASSUME GhInv, NEW p \in Requests, GitHub!Refused(p)
  PROVE  GhInv'
<1>1. ghReq[p].at = "call" /\ UNCHANGED <<ghRows, issued, ghHistory>>
  BY DEF GitHub!Refused, GitHub!Calling, GitHub!github
<1>2. CASE GitHub!Store(GitHub!Reauth) /\ GitHub!End(p)
  <2>1. ghGrant' \in GitHubGrants \cup {None} /\ GhSame(ghGrant, ghGrant')
    BY <1>2, GhReads, GhMarked
  <2>2. ghReq' = [ghReq EXCEPT ![p] = GitHub!Idle]
    BY <1>2 DEF GitHub!End
  <2>. QED  BY <1>1, <2>1, <2>2, GhReads, GhEnds
<1>3. CASE ghReq[p].op \notin {"list", "select"} /\ GitHub!Goto(p, "renew") /\ UNCHANGED ghGrant
  <2>. DEFINE n == [ghReq[p] EXCEPT !.at = "renew"]
  <2>1. /\ ghReq' = [ghReq EXCEPT ![p] = n] /\ ghReq[p] \in GhReqs
        /\ ghGrant' \in GitHubGrants \cup {None} /\ GhSame(ghGrant, ghGrant')
    BY <1>3, GhReads DEF GitHub!Goto, GhSame
  <2>2. ghReq[p] \in GhReading \/ ghReq[p] \in GhSyncing
    BY <1>1, <1>3, <2>1, GhAt, GhShape
  <2>3. /\ n \in GhReading \/ n \in GhSyncing
        /\ n.op = ghReq[p].op /\ n.sel = ghReq[p].sel /\ n.id = ghReq[p].id /\ n.at = "renew"
    BY <2>2, GhGoto
  <2>. HIDE DEF n
  <2>4. n \in GhReqs
    BY <2>3 DEF GhReqs
  <2>. QED  BY <1>1, <2>1, <2>3, <2>4, GhReads, GhGoesOn
<1>. QED  BY <1>2, <1>3 DEF GitHub!Refused

LEMMA GhCallFails ==
  ASSUME GhInv, NEW p \in Requests, GitHub!CallFails(p)
  PROVE  GhInv'
<1>1. /\ ghReq[p].at = "call" /\ UNCHANGED <<ghGrant, ghRows, issued>>
      /\ GitHub!Trouble /\ ghReq' = [ghReq EXCEPT ![p] = GitHub!Idle]
  BY DEF GitHub!CallFails, GitHub!Calling, GitHub!End, GitHub!github
<1>2. ghHistory' \in GhHistories /\ (GhClean(ghHistory') => GhClean(ghHistory))
  BY <1>1, GhReads, GhCounts
<1>3. ghGrant' \in GitHubGrants \cup {None} /\ GhSame(ghGrant, ghGrant')
  BY <1>1, GhReads DEF GhSame
<1>. QED  BY <1>1, <1>2, <1>3, GhEnds

LEMMA GhAnswered ==
  ASSUME GhInv, NEW p \in Requests, GitHub!Reads(p)
  PROVE  GhInv'
<1>1. /\ ghReq[p].at = "call" /\ UNCHANGED <<ghGrant, ghRows, issued, ghHistory>>
      /\ ghReq' = [ghReq EXCEPT ![p] = GitHub!Idle]
  BY DEF GitHub!Reads, GitHub!Calling, GitHub!End, GitHub!github
<1>2. ghGrant' \in GitHubGrants \cup {None} /\ GhSame(ghGrant, ghGrant')
  BY <1>1, GhReads DEF GhSame
<1>. QED  BY <1>1, <1>2, GhReads, GhEnds

LEMMA GhChecksSelection ==
  ASSUME GhInv, NEW p \in Requests, GitHub!ChecksSelection(p)
  PROVE  GhInv'
<1>. DEFINE n == [ghReq[p] EXCEPT !.at = "save"]
<1>1. /\ ghReq[p].at = "call" /\ ghReq[p].op = "select"
      /\ UNCHANGED <<ghGrant, ghRows, issued, ghHistory>> /\ ghReq' = [ghReq EXCEPT ![p] = n]
  BY DEF GitHub!ChecksSelection, GitHub!Calling, GitHub!Goto, GitHub!github
<1>2. ghReq[p] \in GhSelecting
  BY <1>1, GhReads, GhShape
<1>3. /\ n \in GhSelecting
      /\ n.op = ghReq[p].op /\ n.sel = ghReq[p].sel /\ n.id = ghReq[p].id /\ n.at = "save"
  BY <1>2, GhGoto
<1>. HIDE DEF n
<1>4. n \in GhReqs
  BY <1>3 DEF GhReqs
<1>5. ghGrant' \in GitHubGrants \cup {None} /\ GhSame(ghGrant, ghGrant')
  BY <1>1, GhReads DEF GhSame
<1>. QED  BY <1>1, <1>3, <1>4, <1>5, GhReads, GhGoesOn

LEMMA GhRenewEnds ==
  ASSUME GhInv, NEW p \in Requests, GitHub!RenewRefused(p) \/ GitHub!RenewLost(p)
  PROVE  GhInv'
<1>1. /\ ghReq[p].at = "renew" /\ UNCHANGED <<ghRows, issued>>
      /\ GitHub!Store(GitHub!Reauth) /\ ghReq' = [ghReq EXCEPT ![p] = GitHub!Idle]
      /\ ghHistory' = ghHistory \/ GitHub!Trouble
  BY DEF GitHub!RenewRefused, GitHub!RenewLost, GitHub!End, GitHub!github
<1>2. ghHistory' \in GhHistories /\ (GhClean(ghHistory') => GhClean(ghHistory))
  BY <1>1, GhReads, GhCounts
<1>3. ghGrant' \in GitHubGrants \cup {None} /\ GhSame(ghGrant, ghGrant')
  BY <1>1, GhReads, GhMarked
<1>. QED  BY <1>1, <1>2, <1>3, GhEnds

LEMMA GhRenew ==
  ASSUME GhInv, NEW p \in Requests, GitHub!Renew(p)
  PROVE  GhInv'
<1>. DEFINE a == [ghReq[p] EXCEPT !.at = "store"]
            b == [a EXCEPT !.access = issued + 1]
            n == [b EXCEPT !.refresh = issued + 1]
<1>1. /\ ghReq[p].at = "renew" /\ UNCHANGED <<ghGrant, ghRows, ghHistory>>
      /\ issued' = issued + 1 /\ ghReq' = [ghReq EXCEPT ![p] = n]
  BY DEF GitHub!Renew
<1>2. ghReq[p] \in GhReading \/ ghReq[p] \in GhSyncing
  BY <1>1, GhReads, GhAt
<1>3. /\ a \in GhReading \/ a \in GhSyncing
      /\ a.op = ghReq[p].op /\ a.sel = ghReq[p].sel /\ a.id = ghReq[p].id /\ a.at = "store"
  BY <1>2, GhGoto
<1>4. issued + 1 \in Nat
  BY GhReads
<1>. HIDE DEF a
<1>5. /\ n \in GhReading \/ n \in GhSyncing
      /\ n.op = a.op /\ n.sel = a.sel /\ n.id = a.id /\ n.at = "store"
  BY <1>3, <1>4 DEF GhReading, GhSyncing
<1>. HIDE DEF n
<1>6. n \in GhReqs
  BY <1>5 DEF GhReqs
<1>7. ghGrant' \in GitHubGrants \cup {None} /\ GhSame(ghGrant, ghGrant')
  BY <1>1, GhReads DEF GhSame
<1>. QED  BY <1>1, <1>3, <1>4, <1>5, <1>6, <1>7, GhGoesOn

\* A renewal answers over whatever is stored by then; in a synchronization
\* with the scope it started from, which holds the stored one.
LEMMA GhStoreRenewed ==
  ASSUME GhInv, NEW p \in Requests, GitHub!StoreRenewed(p)
  PROVE  GhInv'
<1>. DEFINE s == ghReq[p]
            yes == TRUE
            a == [s EXCEPT !.at = "call"]
            n == [a EXCEPT !.again = yes]
<1>1. /\ s.at = "store" /\ UNCHANGED <<ghRows, issued, ghHistory>>
      /\ ghReq' = [ghReq EXCEPT ![p] = n] /\ yes \in BOOLEAN
  BY DEF GitHub!StoreRenewed, GitHub!github
<1>2. s \in GhReqs /\ (s \in GhReading \/ s \in GhSyncing)
  BY <1>1, GhReads, GhAt
<1>. HIDE DEF yes
<1>3. /\ s \in GhReading => a \in GhReading
      /\ s \in GhSyncing => a \in GhSyncing
      /\ a.op = s.op /\ a.sel = s.sel /\ a.id = s.id /\ a.at = "call"
  BY <1>2, GhGoto
<1>. HIDE DEF a
<1>4. /\ s \in GhReading => n \in GhReading
      /\ s \in GhSyncing => n \in GhSyncing
      /\ n.op = s.op /\ n.sel = s.sel /\ n.id = s.id /\ n.at = "call"
  BY <1>1, <1>2, <1>3 DEF GhReading, GhSyncing
<1>. HIDE DEF n
<1>5. n \in GhReqs
  BY <1>2, <1>4 DEF GhReqs
<1>6. s.access \in Nat /\ s.refresh \in Nat /\ s.sel \in Selections
  BY <1>2 DEF GhReading, GhSyncing
<1>7. CASE ghGrant = None
  <2>1. ghGrant' = None
    BY <1>7 DEF GitHub!StoreRenewed, GitHub!Store, GitHub!Connected
  <2>. QED  BY <1>1, <1>4, <1>5, <1>7, <2>1, GhReads, GhGoesOn DEF GhSame
<1>8. CASE ghGrant # None
  <2>. DEFINE no == FALSE
              sel == IF s.op = "sync" THEN s.sel ELSE ghGrant.sel
              g1 == [ghGrant EXCEPT !.access = s.access]
              g2 == [g1 EXCEPT !.refresh = s.refresh]
              g3 == [g2 EXCEPT !.reauth = no]
              g == [g3 EXCEPT !.sel = sel]
  <2>1. ghGrant' = g /\ no \in BOOLEAN /\ ghGrant \in GitHubGrants
    BY <1>8, GhReads DEF GitHub!StoreRenewed, GitHub!Store, GitHub!Connected, GitHubGrants
  <2>2. sel \in Selections
    BY <1>6, <2>1 DEF GitHubGrants
  <2>. HIDE DEF no, sel
  <2>3. g1 \in GitHubGrants /\ g1.id = ghGrant.id
    BY <1>6, <2>1 DEF GitHubGrants
  <2>. HIDE DEF g1
  <2>4. g2 \in GitHubGrants /\ g2.id = ghGrant.id
    BY <1>6, <2>3 DEF GitHubGrants
  <2>. HIDE DEF g2
  <2>5. g3 \in GitHubGrants /\ g3.id = ghGrant.id
    BY <2>1, <2>4 DEF GitHubGrants
  <2>. HIDE DEF g3
  <2>6. g \in GitHubGrants /\ g.id = ghGrant.id /\ g.sel = sel
    BY <2>2, <2>5 DEF GitHubGrants
  <2>. HIDE DEF g
  <2>7. CASE s \in GhReading
    <3>1. s.op # "sync"
      BY <1>2, <2>7, GhShape
    <3>2. GhSame(ghGrant, ghGrant')
      BY <1>8, <2>1, <2>6, <3>1, GhNone DEF GhSame, sel
    <3>. QED  BY <1>1, <1>4, <1>5, <2>1, <2>6, <3>2, GhReads, GhGoesOn
  <2>8. CASE s \in GhSyncing
    <3>1. s.op = "sync" /\ sel = s.sel
      BY <1>2, <2>8, GhShape DEF sel
    <3>2. /\ ghGrant.id = s.id /\ s.id # 0
          /\ GitHub!Parts(ghGrant.sel) \subseteq GitHub!Parts(s.sel)
      BY <2>8, GhReads DEF GhTaken
    <3>3. GhTaken(n, g)
      <4>1. n \in GhSyncing /\ n \notin GhSelecting /\ n \notin GhDropping
        BY <1>4, <1>5, <2>8, <3>1, GhShape
      <4>. QED  BY <1>4, <2>6, <3>1, <3>2, <4>1, GhNone DEF GhTaken
    <3>4. \A q \in Requests \ {p} : ghReq[q].op \notin Writers
      BY <3>1, GhReads DEF GhSoleWriter, Writers
    <3>5. \A r : ~Answers(s, r)
      BY <1>1, <1>2, GhShape DEF Answers
    <3>6. \A r : InScope(r, ghGrant) => InScope(r, g)
      BY <1>8, <2>6, <3>1, <3>2, GhNone DEF InScope
    <3>7. ASSUME GhClean(ghHistory'), NEW r \in ghRows'
          PROVE  InScope(r, g) \/ \E q \in Requests \ {p} : Answers(ghReq[q], r)
      BY <1>1, <3>5, <3>6, <3>7, GhReads DEF GhRowsKept
    <3>. QED  BY <1>1, <1>4, <1>5, <2>1, <2>6, <3>3, <3>4, <3>7, GhReads, GhMove
  <2>. QED  BY <1>2, <2>7, <2>8
<1>. QED  BY <1>7, <1>8

\* What a synchronization reads by is never less than what is stored.
LEMMA GhCoalesced ==
  ASSUME NEW sel \in Selections
  PROVE  /\ GitHub!Coalesced(sel) \in Selections
         /\ GitHub!Parts(sel) \subseteq GitHub!Parts(GitHub!Coalesced(sel))
<1>1. Preset.repo \in Repos \cup {None} /\ Preset.board \in Boards \cup {None}
  BY ConnectionsAssumption DEF Selections
<1>. QED  BY <1>1 DEF GitHub!Coalesced, GitHub!Selection, GitHub!Parts, Selections

LEMMA GhWithId ==
  ASSUME GhInv, NEW id \in Nat
  PROVE  /\ GitHub!WithId(id) \in Nat \ {0}
         /\ id # 0 => GitHub!WithId(id) = id
<1>1. PresetId # None => PresetId \in Nat \ {0}
  BY ConnectionsAssumption
<1>. QED  BY <1>1, GhReads DEF GitHub!WithId

\* The connector id is stored before the scope is read.
LEMMA GhSyncStarts ==
  ASSUME GhInv, NEW p \in Requests, GitHub!SyncGitHub(p)
  PROVE  GhInv'
<1>. DEFINE id == GitHub!WithId(ghGrant.id)
            g == [ghGrant EXCEPT !.id = id]
            minted == IF GitHub!Minted(ghGrant.id) THEN 1 ELSE 0
            k == [ghHistory EXCEPT !.started = ghHistory.started + 1]
            h == [k EXCEPT !.ids = ghHistory.ids + minted]
            b == GitHub!Snapshot("sync", None)
            c == [b EXCEPT !.sel = GitHub!Coalesced(ghGrant.sel)]
            n == [c EXCEPT !.id = id]
<1>1. /\ GitHub!MayStart(p, "sync") /\ ghGrant # None /\ ghGrant' = g /\ ghHistory' = h
      /\ UNCHANGED <<ghRows, issued>>
      /\ ghReq' = ghReq \/ ghReq' = [ghReq EXCEPT ![p] = n]
  BY DEF GitHub!SyncGitHub, GitHub!Connected, GitHub!Store, GitHub!github
<1>2. /\ ghGrant \in GitHubGrants /\ ghGrant.id \in Nat /\ ghGrant.sel \in Selections
      /\ minted \in Nat
  BY <1>1, GhReads DEF GitHubGrants
<1>3. id \in Nat \ {0} /\ (ghGrant.id # 0 => id = ghGrant.id)
  BY <1>2, GhWithId
<1>4. b \in GhSyncing /\ b.op = "sync"
  BY <1>2, GhSnapshotIs
<1>5. /\ GitHub!Coalesced(ghGrant.sel) \in Selections
      /\ GitHub!Parts(ghGrant.sel) \subseteq GitHub!Parts(GitHub!Coalesced(ghGrant.sel))
  BY <1>2, GhCoalesced
<1>. HIDE DEF id, minted, b
<1>6. g \in GitHubGrants /\ g.id = id /\ g.sel = ghGrant.sel
  BY <1>2, <1>3 DEF GitHubGrants
<1>7. c \in GhSyncing /\ c.sel = GitHub!Coalesced(ghGrant.sel) /\ c.op = "sync"
  BY <1>4, <1>5 DEF GhSyncing
<1>. HIDE DEF c
<1>8. /\ n \in GhSyncing /\ n.id = id /\ n.op = "sync"
      /\ n.sel = GitHub!Coalesced(ghGrant.sel)
  BY <1>3, <1>7 DEF GhSyncing
<1>9. k \in GhHistories /\ (GhClean(k) => GhClean(ghHistory)) /\ k.ids = ghHistory.ids
  BY GhReads DEF GhHistories, GhClean
<1>. HIDE DEF g, n, k
<1>10. h \in GhHistories /\ (GhClean(h) => GhClean(ghHistory))
  <2>1. ghHistory.ids + minted \in Nat
    BY <1>2, GhReads
  <2>. HIDE DEF minted
  <2>2. /\ h \in GhHistories
        /\ h.unpurged = k.unpurged /\ h.replaced = k.replaced
    BY <1>9, <2>1 DEF GhHistories
  <2>. QED  BY <1>9, <2>2 DEF GhClean
<1>. HIDE DEF h
<1>11. \A r : InScope(r, ghGrant) => InScope(r, g)
  BY <1>1, <1>3, <1>6, GhNone DEF InScope
<1>12. /\ ghReq[p] = GitHub!Idle /\ ghReq \in [Requests -> GhReqs]
       /\ \A q \in Requests : ghReq[q].op \notin Writers
  BY <1>1, GhAlone, GhReads
<1>13. n \in GhReqs
  BY <1>8 DEF GhReqs
<1>14. GhTaken(n, g)
  <2>1. n \notin GhSelecting /\ n \notin GhDropping
    BY <1>8, <1>13, GhShape
  <2>. QED  BY <1>3, <1>5, <1>6, <1>8, <2>1, GhNone DEF GhTaken
<1>15. ASSUME GhClean(ghHistory'), NEW r \in ghRows'
       PROVE  InScope(r, g)
  <2>1. InScope(r, ghGrant) \/ \E q \in Requests : Answers(ghReq[q], r)
    BY <1>1, <1>10, <1>15, GhReads DEF GhRowsKept
  <2>. QED  BY <1>11, <1>12, <2>1, GhReader
<1>16. CASE ghReq' = [ghReq EXCEPT ![p] = n]
  BY <1>1, <1>6, <1>10, <1>12, <1>13, <1>14, <1>15, <1>16, GhReads, GhMove
<1>17. CASE ghReq' = ghReq
  <2>1. ghReq' = [ghReq EXCEPT ![p] = GitHub!Idle]
    BY <1>12, <1>17
  <2>. QED  BY <1>1, <1>6, <1>10, <1>12, <1>15, <2>1, GhIdleIs, GhReads, GhMove
<1>. QED  BY <1>1, <1>16, <1>17

\* A disconnect takes the stored connection along.
LEMMA GhDisconnects ==
  ASSUME GhInv, NEW p \in Requests, GitHub!Disconnect(p)
  PROVE  GhInv'
<1>. DEFINE b == GitHub!Snapshot("disconnect", None)
            n == [b EXCEPT !.at = "save"]
<1>1. /\ GitHub!MayStart(p, "disconnect") /\ ghGrant # None /\ GitHub!Started
      /\ ghReq' = [ghReq EXCEPT ![p] = n] /\ UNCHANGED <<ghGrant, ghRows, issued>>
  BY DEF GitHub!Disconnect, GitHub!Connected
<1>2. ghGrant \in GitHubGrants
  BY <1>1, GhReads
<1>3. /\ n \in GhDropping /\ n.op = "disconnect" /\ n.at = "save"
      /\ n.sel = ghGrant.sel /\ n.id = ghGrant.id
  <2>. DEFINE no == FALSE
              d == [op |-> "disconnect", arg |-> None, at |-> "call", access |-> ghGrant.access,
                    refresh |-> ghGrant.refresh, sel |-> ghGrant.sel, id |-> ghGrant.id,
                    again |-> no]
  <2>1. b = d /\ no \in BOOLEAN
    BY DEF GitHub!Snapshot
  <2>2. /\ ghGrant.access \in Nat /\ ghGrant.refresh \in Nat
        /\ ghGrant.sel \in Selections /\ ghGrant.id \in Nat
    BY <1>2 DEF GitHubGrants
  <2>. HIDE DEF no, b
  <2>. QED  BY <2>1, <2>2 DEF GhDropping
<1>. HIDE DEF n
<1>4. n \in GhReqs
  BY <1>3 DEF GhReqs
<1>5. GhTaken(n, ghGrant)
  BY <1>1, <1>3, <1>4, GhShape DEF GhTaken
<1>6. /\ \A q \in Requests : ghReq[q].op \notin Writers
      /\ ghReq[p].at # "purge" /\ ghReq[p].op # "sync"
  BY <1>1, GhAlone, ConnectionsAssumption DEF GitHub!Idle
<1>7. ghHistory' \in GhHistories /\ (GhClean(ghHistory') => GhClean(ghHistory))
  BY <1>1, GhReads, GhCounts
<1>8. GhSame(ghGrant, ghGrant')
  BY <1>1 DEF GhSame
<1>. QED  BY <1>1, <1>4, <1>5, <1>6, <1>7, <1>8, GhReads, GhQuiet

\* What the synchronization writes is of its scope; the rows of its connector
\* from before are gone.
LEMMA GhSynchronizes ==
  ASSUME GhInv, NEW p \in Requests, GitHub!Synchronizes(p)
  PROVE  GhInv'
<1>. DEFINE s == ghReq[p]
            n == [s EXCEPT !.at = "save"]
            old == {r \in ghRows : r.id # s.id}
            new == {GitHub!Row(s.id, x) : x \in GitHub!Parts(s.sel)}
<1>1. /\ s.at = "call" /\ s.op = "sync" /\ ghRows' = old \cup new
      /\ ghReq' = [ghReq EXCEPT ![p] = n] /\ UNCHANGED <<ghGrant, issued, ghHistory>>
  BY DEF GitHub!Synchronizes, GitHub!Calling, GitHub!Goto, GitHub!github
<1>2. s \in GhReqs /\ s \in GhSyncing
  BY <1>1, GhReads, GhShape
<1>3. n \in GhSyncing /\ n.op = "sync" /\ n.at = "save" /\ n.sel = s.sel /\ n.id = s.id
  BY <1>1, <1>2, GhGoto
<1>4. s.id \in Nat /\ s.sel \in Selections
  BY <1>2 DEF GhSyncing
<1>5. new \subseteq GhDocs /\ \A r \in new : r.id = s.id /\ r.part \in GitHub!Parts(s.sel)
  BY <1>4 DEF GitHub!Row, GitHub!Parts, GhDocs, Selections
<1>6. ghGrant # None /\ ghGrant.id = s.id
  BY <1>2, GhReads DEF GhTaken
<1>7. \A q \in Requests \ {p} : ghReq[q].op \notin Writers
  BY <1>1, GhReads DEF GhSoleWriter, Writers
<1>. HIDE DEF n, new
<1>8. n \in GhReqs
  BY <1>3 DEF GhReqs
<1>9. GhTaken(n, ghGrant)
  <2>1. n \notin GhSelecting /\ n \notin GhDropping
    BY <1>3, <1>8, GhShape
  <2>. QED  BY <1>2, <1>3, <2>1, GhReads DEF GhTaken
<1>10. ASSUME GhClean(ghHistory'), NEW r \in ghRows'
       PROVE  Answers(n, r)
  <2>1. CASE r \in new
    BY <1>3, <1>5, <2>1 DEF Answers
  <2>2. CASE r \in old
    <3>1. InScope(r, ghGrant) \/ \E q \in Requests : Answers(ghReq[q], r)
      BY <1>1, <1>10, <2>2, GhReads DEF GhRowsKept
    <3>2. ~InScope(r, ghGrant)
      BY <1>6, <2>2 DEF InScope
    <3>3. ~Answers(s, r)
      BY <1>1, <1>2, GhShape DEF Answers
    <3>. QED  BY <1>7, <3>1, <3>2, <3>3, GhReader, GhReads
  <2>. QED  BY <1>1, <1>10, <2>1, <2>2
<1>11. ghRows' \subseteq GhDocs
  BY <1>1, <1>5, GhReads
<1>12. ghGrant' \in GitHubGrants \cup {None} /\ GhTaken(n, ghGrant')
  BY <1>1, <1>9, GhReads
<1>. QED  BY <1>1, <1>3, <1>7, <1>8, <1>10, <1>11, <1>12, GhReads, GhMove

\* The counts are saved with the scope the rows were written under.
LEMMA GhSaveSync ==
  ASSUME GhInv, NEW p \in Requests, GitHub!SaveSync(p)
  PROVE  GhInv'
<1>. DEFINE s == ghReq[p]
            g == [ghGrant EXCEPT !.sel = s.sel]
<1>1. /\ s.at = "save" /\ s.op = "sync" /\ ghReq' = [ghReq EXCEPT ![p] = GitHub!Idle]
      /\ UNCHANGED <<ghRows, issued, ghHistory>>
      /\ ghGrant' = IF ghGrant # None THEN g ELSE None
  BY DEF GitHub!SaveSync, GitHub!Saving, GitHub!Store, GitHub!Connected, GitHub!End, GitHub!github
<1>2. s \in GhReqs /\ s \in GhSyncing
  BY <1>1, GhReads, GhShape
<1>3. /\ ghGrant \in GitHubGrants /\ ghGrant.id = s.id /\ s.id # 0 /\ ghGrant # None
      /\ GitHub!Parts(ghGrant.sel) \subseteq GitHub!Parts(s.sel)
  BY <1>2, GhReads DEF GhTaken
<1>4. s.sel \in Selections
  BY <1>2 DEF GhSyncing
<1>5. ghGrant' = g /\ g \in GitHubGrants /\ g.id = s.id /\ g.sel = s.sel
  BY <1>1, <1>3, <1>4 DEF GitHubGrants
<1>6. \A q \in Requests \ {p} : ghReq[q].op \notin Writers
  BY <1>1, GhReads DEF GhSoleWriter, Writers
<1>. HIDE DEF g
<1>7. ASSUME GhClean(ghHistory'), NEW r \in ghRows'
      PROVE  InScope(r, g)
  <2>1. InScope(r, ghGrant) \/ \E q \in Requests : Answers(ghReq[q], r)
    BY <1>1, <1>7, GhReads DEF GhRowsKept
  <2>2. InScope(r, ghGrant) => InScope(r, g)
    BY <1>3, <1>5, GhNone DEF InScope
  <2>3. Answers(s, r) => InScope(r, g)
    <3>1. s \notin GhPurging
      BY <1>1, <1>2, GhShape
    <3>. QED  BY <1>3, <1>5, <3>1, GhNone DEF InScope, Answers
  <2>. QED  BY <1>6, <2>1, <2>2, <2>3, GhReader, GhReads
<1>. QED  BY <1>1, <1>5, <1>6, <1>7, GhIdleIs, GhReads, GhMove

\* A purge is due for what a change leaves without a scope.
LEMMA GhPurgeOr ==
  ASSUME NEW p \in Requests, NEW gone \in SUBSET GhDocs, GitHub!PurgeOr(p, gone),
         ghReq[p].op \in {"select", "disconnect"}
  PROVE  \E n \in GhReqs :
           /\ ghReq' = [ghReq EXCEPT ![p] = n]
           /\ n.op \in Writers => n.op = ghReq[p].op
           /\ \A g : GhTaken(n, g)
           /\ \A r \in gone : Answers(n, r)
<1>. DEFINE n == [op |-> ghReq[p].op, at |-> "purge", rows |-> gone]
<1>1. CASE gone = {}
  <2>1. ghReq' = [ghReq EXCEPT ![p] = GitHub!Idle]
    BY <1>1 DEF GitHub!PurgeOr
  <2>. QED  BY <1>1, <2>1, GhIdleIs
<1>2. CASE gone # {}
  <2>1. ghReq' = [ghReq EXCEPT ![p] = n]
    BY <1>2 DEF GitHub!PurgeOr
  <2>2. n \in GhPurging /\ n.op = ghReq[p].op /\ n.at = "purge" /\ n.rows = gone
    BY DEF GhPurging
  <2>. HIDE DEF n
  <2>3. n \in GhReqs
    BY <2>2 DEF GhReqs
  <2>4. \A g : GhTaken(n, g)
    BY <2>2, <2>3, GhShape DEF GhTaken
  <2>5. \A r \in gone : Answers(n, r)
    BY <2>2 DEF Answers
  <2>. QED  BY <2>1, <2>2, <2>3, <2>4, <2>5
<1>. QED  BY <1>1, <1>2

\* A row of the old selection is in the new one or among those to purge.
LEMMA GhDropped ==
  ASSUME NEW old \in Selections, NEW new \in Selections, NEW id, id # 0,
         NEW r \in ghRows, r.id = id, r.part \in GitHub!Parts(old),
         r.part \notin GitHub!Parts(new)
  PROVE  r \in GitHub!Dropped(old, new, id)
<1>1. r.part # None /\ (r.part = old.repo \/ r.part = old.board)
  BY DEF GitHub!Parts
<1>2. r.part # new.repo /\ r.part # new.board
  BY <1>1 DEF GitHub!Parts
<1>3. r.part = old.board => r.part \in Boards
  BY <1>1 DEF Selections
<1>. QED  BY <1>1, <1>2, <1>3 DEF GitHub!Dropped, GitHub!InConnector

LEMMA GhSaveSelection ==
  ASSUME GhInv, NEW p \in Requests, GitHub!SaveSelection(p)
  PROVE  GhInv'
<1>. DEFINE s == ghReq[p]
<1>1. /\ s.at = "save" /\ s.op = "select" /\ UNCHANGED <<ghRows, issued>>
  BY DEF GitHub!SaveSelection, GitHub!Saving, GitHub!github
<1>2. s \in GhReqs /\ s \in GhSelecting
  BY <1>1, GhReads, GhShape
<1>3. ghGrant \in GitHubGrants /\ ghGrant.id = s.id /\ ghGrant.sel = s.sel /\ ghGrant # None
  BY <1>2, GhReads DEF GhTaken
<1>4. s.arg \in Selections
  BY <1>2 DEF GhSelecting
<1>5. ghGrant.id \in Nat /\ s.sel \in Selections
  BY <1>3 DEF GitHubGrants
<1>6. CASE GitHub!End(p) /\ UNCHANGED <<ghGrant, ghHistory>>
  <2>1. ghReq' = [ghReq EXCEPT ![p] = GitHub!Idle] /\ GhSame(ghGrant, ghGrant')
    BY <1>6 DEF GitHub!End, GhSame
  <2>. QED  BY <1>1, <1>6, <2>1, GhIdleIs, GhReads, GhQuiet
<1>7. CASE ~ghGrant.reauth
  <2>. DEFINE id == GitHub!WithId(ghGrant.id)
              a == [ghGrant EXCEPT !.sel = s.arg]
              g == [a EXCEPT !.id = id]
              minted == IF GitHub!Minted(ghGrant.id) THEN 1 ELSE 0
              h == [ghHistory EXCEPT !.ids = ghHistory.ids + minted]
              gone == GitHub!Dropped(s.sel, s.arg, id)
  <2>1. ghGrant' = g /\ ghHistory' = h /\ GitHub!PurgeOr(p, gone)
    BY <1>3, <1>7 DEF GitHub!SaveSelection, GitHub!Connected, GitHub!Store
  <2>2. id \in Nat \ {0} /\ (ghGrant.id # 0 => id = ghGrant.id) /\ minted \in Nat
    BY <1>5, GhWithId
  <2>. HIDE DEF id, minted
  <2>3. a \in GitHubGrants /\ a.sel = s.arg
    BY <1>3, <1>4 DEF GitHubGrants
  <2>. HIDE DEF a
  <2>4. g \in GitHubGrants /\ g.sel = s.arg /\ g.id = id
    BY <2>2, <2>3 DEF GitHubGrants
  <2>5. h \in GhHistories /\ (GhClean(h) => GhClean(ghHistory))
    BY <2>2, GhReads DEF GhHistories, GhClean
  <2>6. gone \in SUBSET GhDocs
    BY GhReads DEF GitHub!Dropped, GitHub!InConnector
  <2>. HIDE DEF g, h
  <2>7. PICK n \in GhReqs :
          /\ ghReq' = [ghReq EXCEPT ![p] = n]
          /\ n.op \in Writers => n.op = s.op
          /\ \A x : GhTaken(n, x)
          /\ \A r \in gone : Answers(n, r)
    BY <1>1, <2>1, <2>6, GhPurgeOr
  <2>8. \A q \in Requests \ {p} : ghReq[q].op \notin Writers
    BY <1>1, GhReads DEF GhSoleWriter, Writers
  <2>9. ASSUME GhClean(ghHistory'), NEW r \in ghRows'
        PROVE  InScope(r, g) \/ Answers(n, r)
    <3>1. InScope(r, ghGrant) \/ \E q \in Requests : Answers(ghReq[q], r)
      BY <1>1, <2>1, <2>5, <2>9, GhReads DEF GhRowsKept
    <3>2. ~Answers(s, r)
      BY <1>1, <1>2, GhShape DEF Answers
    <3>3. r.id = ghGrant.id /\ r.id # 0 /\ r.part \in GitHub!Parts(s.sel)
      BY <1>3, <2>8, <3>1, <3>2, GhReader, GhReads DEF InScope
    <3>4. r.id = id /\ id # 0 /\ r \in ghRows
      BY <1>1, <2>2, <2>9, <3>3
    <3>5. r.part \in GitHub!Parts(s.arg) \/ r \in gone
      BY <1>4, <1>5, <3>3, <3>4, GhDropped
    <3>. HIDE DEF gone
    <3>. QED  BY <2>4, <2>7, <3>4, <3>5, GhNone DEF InScope
  <2>10. GhTaken(n, ghGrant') /\ ghHistory' \in GhHistories
    BY <2>1, <2>5, <2>7
  <2>11. ghGrant' \in GitHubGrants \cup {None} /\ ghRows' \subseteq GhDocs /\ issued' \in Nat
    BY <1>1, <2>1, <2>4, GhReads
  <2>12. n.op \in Writers => ghReq[p].op = n.op
    BY <2>7
  <2>13. GhClean(ghHistory') =>
           \A r \in ghRows' : \/ InScope(r, ghGrant') \/ Answers(n, r)
                              \/ \E q \in Requests \ {p} : Answers(ghReq[q], r)
    BY <2>1, <2>9
  <2>14. ghReq' = [ghReq EXCEPT ![p] = n]
    BY <2>7
  <2>. QED  BY <2>8, <2>10, <2>11, <2>12, <2>13, <2>14, GhMove
<1>. QED  BY <1>3, <1>6, <1>7 DEF GitHub!SaveSelection, GitHub!Connected

LEMMA GhSaveDisconnect ==
  ASSUME GhInv, NEW p \in Requests, GitHub!SaveDisconnect(p)
  PROVE  GhInv'
<1>. DEFINE s == ghReq[p]
            gone == GitHub!InConnector(s.id)
<1>1. /\ s.at = "save" /\ s.op = "disconnect" /\ UNCHANGED <<ghRows, issued, ghHistory>>
      /\ ghGrant' = None /\ GitHub!PurgeOr(p, gone)
  BY DEF GitHub!SaveDisconnect, GitHub!Saving, GitHub!Store, GitHub!github
<1>2. s \in GhReqs /\ s \in GhDropping
  BY <1>1, GhReads, GhShape
<1>3. ghGrant.id = s.id /\ ghGrant # None
  BY <1>2, GhReads DEF GhTaken
<1>4. gone \in SUBSET GhDocs
  BY GhReads DEF GitHub!InConnector
<1>5. PICK n \in GhReqs :
        /\ ghReq' = [ghReq EXCEPT ![p] = n]
        /\ n.op \in Writers => n.op = s.op
        /\ \A x : GhTaken(n, x)
        /\ \A r \in gone : Answers(n, r)
  BY <1>1, <1>4, GhPurgeOr
<1>6. \A q \in Requests \ {p} : ghReq[q].op \notin Writers
  BY <1>1, GhReads DEF GhSoleWriter, Writers
<1>7. ASSUME GhClean(ghHistory'), NEW r \in ghRows'
      PROVE  Answers(n, r)
  <2>1. InScope(r, ghGrant) \/ \E q \in Requests : Answers(ghReq[q], r)
    BY <1>1, <1>7, GhReads DEF GhRowsKept
  <2>2. ~Answers(s, r)
    BY <1>1, <1>2, GhShape DEF Answers
  <2>3. r.id = s.id /\ r \in ghRows
    BY <1>1, <1>3, <1>6, <1>7, <2>1, <2>2, GhReader, GhReads DEF InScope
  <2>. QED  BY <1>5, <2>3 DEF GitHub!InConnector
<1>. QED  BY <1>1, <1>5, <1>6, <1>7, GhReads, GhMove

\* A purge removes what it took along, or leaves some of it, which is noted.
LEMMA GhPurges ==
  ASSUME GhInv, NEW p \in Requests, GitHub!PurgeRows(p) \/ GitHub!PurgeFails(p)
  PROVE  GhInv'
<1>. DEFINE s == ghReq[p]
<1>1. /\ s.at = "purge" /\ UNCHANGED <<ghGrant, issued>>
      /\ ghReq' = [ghReq EXCEPT ![p] = GitHub!Idle] /\ ghRows' \subseteq ghRows
  BY DEF GitHub!PurgeRows, GitHub!PurgeFails, GitHub!End, GitHub!github
<1>2. s \in GhReqs /\ s \in GhPurging
  BY <1>1, GhReads, GhShape
<1>3. GhSame(ghGrant, ghGrant') /\ ghRows' \subseteq GhDocs
  BY <1>1, GhReads DEF GhSame
<1>4. CASE GitHub!PurgeRows(p)
  <2>1. ghRows' = ghRows \ s.rows /\ ghHistory' = ghHistory
    BY <1>4 DEF GitHub!PurgeRows
  <2>2. ASSUME GhClean(ghHistory'), NEW r \in ghRows'
        PROVE  InScope(r, ghGrant) \/ \E q \in Requests \ {p} : Answers(ghReq[q], r)
    <3>1. InScope(r, ghGrant) \/ \E q \in Requests : Answers(ghReq[q], r)
      BY <2>1, <2>2, GhReads DEF GhRowsKept
    <3>2. s.op # "sync"
      BY <1>2 DEF GhPurging
    <3>3. ~Answers(s, r)
      BY <1>2, <2>1, <2>2, <3>2, GhShape DEF Answers
    <3>. QED  BY <3>1, <3>3
  <2>. QED  BY <1>1, <1>3, <2>1, <2>2, GhIdleIs, GhReads, GhMove
<1>5. CASE GitHub!PurgeFails(p)
  <2>. DEFINE yes == TRUE
              k == [ghHistory EXCEPT !.troubles = ghHistory.troubles + 1]
              h == [k EXCEPT !.unpurged = yes]
  <2>1. ghHistory' = h /\ yes \in BOOLEAN /\ yes
    BY <1>5 DEF GitHub!PurgeFails
  <2>2. k \in GhHistories
    BY GhReads DEF GhHistories
  <2>. HIDE DEF yes, k
  <2>3. h \in GhHistories /\ h.unpurged = yes
    BY <2>1, <2>2 DEF GhHistories
  <2>. HIDE DEF h
  <2>4. ~GhClean(ghHistory')
    BY <2>1, <2>3 DEF GhClean
  <2>. QED  BY <1>1, <1>3, <2>1, <2>3, <2>4, GhIdleIs, GhReads, GhMove
<1>. QED  BY <1>4, <1>5

LEMMA GhInit == GitHub!Init => GhInv
<1>. SUFFICES ASSUME GitHub!Init PROVE GhInv
  OBVIOUS
<1>1. /\ ghGrant = None /\ ghRows = {} /\ issued = 0
      /\ ghReq = [p \in Requests |-> GitHub!Idle]
      /\ ghHistory = [started |-> 0, troubles |-> 0, ids |-> 0, unpurged |-> FALSE,
                      replaced |-> FALSE]
  BY DEF GitHub!Init
<1>2. \A p \in Requests : ghReq[p] = GitHub!Idle
  BY <1>1
<1>3. ghReq \in [Requests -> GhReqs]
  BY <1>1, GhIdleIs
<1>. QED  BY <1>1, <1>2, <1>3, GhIdleIs DEF GhInv, GhHistories, GhRowsKept, GhSoleWriter

LEMMA GhPreserved == GhInv /\ GitHub!Next => GhInv'
BY GhOutside, GhCallback, GhCallbackFails, GhSaveConnection, GhRequestsBegin, GhSyncStarts,
   GhDisconnects, GhRefused, GhCallFails, GhAnswered, GhChecksSelection, GhSynchronizes,
   GhRenewEnds, GhRenew, GhStoreRenewed, GhSaveSelection, GhSaveSync, GhSaveDisconnect,
   GhPurges
   DEF GitHub!Next

LEMMA GhScope == GhInv => GitHub!RowsInScope
<1>. SUFFICES ASSUME GhInv, \A p \in Requests : ghReq[p] = GitHub!Idle,
                     ~ghHistory.unpurged, ~ghHistory.replaced, NEW r \in ghRows
              PROVE  ghGrant # None /\ r.id = ghGrant.id /\ r.part \in GitHub!Parts(ghGrant.sel)
  BY DEF GitHub!RowsInScope, GitHub!Connected
<1>1. InScope(r, ghGrant) \/ \E q \in Requests : Answers(ghReq[q], r)
  BY GhReads DEF GhRowsKept, GhClean
<1>. QED  BY <1>1, GhIdleIs DEF InScope

-----------------------------------------------------------------------------
(* Google Drive.                                                           *)

DrHistories == [started : Nat, troubles : Nat, tokens : Nat, unpurged : BOOLEAN,
                unproved : BOOLEAN, waiting : SUBSET Files]

DrStill == [at : {"idle", "exchange"}]
DrConnecting == [at : {"connect"}, account : Accounts, token : Nat,
                 email : Accounts \cup {None}, exports : BOOLEAN]
DrChoosing == [at : {"validate", "save"}, account : Accounts, token : Nat,
               folders : SUBSET Folders, files : SUBSET Files, previous : SUBSET Files]
DrSyncing == [at : {"sync"}, account : Accounts, token : Nat,
              folders : SUBSET Folders, files : SUBSET Files]
DrPurging == [at : {"purge"}, gone : SUBSET Files]
DrDropping == [at : {"drop"}, file : Files]
DrSteps == DrStill \cup DrConnecting \cup DrChoosing \cup DrSyncing \cup DrPurging \cup DrDropping

(* The grant stays, but for the mark and the token.                        *)
SameUser(g, h) ==
    /\ g = None => h = None
    /\ g # None => /\ h # None /\ h.account = g.account /\ h.email = g.email
                   /\ h.folders = g.folders /\ h.files = g.files

(* An account that proved its address is the one that can read what is     *)
(* selected.                                                               *)
DrProved(g) == g # None => g.email = g.account /\ g.folders \cup g.files \subseteq Readable[g.account]

(* What a request under way took along still stands, as nobody else        *)
(* changes it.                                                             *)
DrTaken(s, g, rows) ==
    /\ s.at = "connect" => s.email \in {s.account, None}
    /\ s.at \in {"validate", "save", "sync"} => g # None /\ g.account = s.account
    /\ s.at \in {"validate", "save"} => g.files = s.previous
    /\ s.at = "save" => s.folders \cup s.files \subseteq Readable[s.account]
    /\ s.at = "sync" => g.folders = s.folders /\ g.files = s.files
    /\ s.at = "drop" => s.file \notin rows

Covered(f, g, waiting) ==
    g # None /\ (f \in g.files \/ (\E d \in g.folders : f \in Inside[d]) \/ f \in waiting)

(* The rows are of the stored selection or wait for the next listing, but  *)
(* for those that a purge under way still has to remove.                   *)
DrRowsKept(rows, s, g, waiting) ==
    \A f \in rows : (s.at = "purge" => f \notin s.gone) => Covered(f, g, waiting)

DrInv ==
    /\ drGrant \in DriveGrants \cup {None} /\ drStep \in DrSteps
    /\ drHistory \in DrHistories /\ drRows \subseteq Files
    /\ ~drHistory.unproved => DrProved(drGrant)
    /\ DrTaken(drStep, drGrant, drRows)
    /\ ~drHistory.unpurged => DrRowsKept(drRows, drStep, drGrant, drHistory.waiting)

LEMMA DrNone == None \notin DriveGrants /\ None \notin Accounts
BY ConnectionsAssumption

LEMMA DrListing ==
  ASSUME NEW folders, NEW files, NEW f
  PROVE  f \in Drive!Listing(folders, files) <=> f \in files \/ \E d \in folders : f \in Inside[d]
BY DEF Drive!Listing

LEMMA DrShape ==
  ASSUME NEW s \in DrSteps
  PROVE  /\ s.at = "connect" => s \in DrConnecting
         /\ s.at \in {"validate", "save"} => s \in DrChoosing
         /\ s.at = "sync" => s \in DrSyncing
         /\ s.at = "purge" => s \in DrPurging
         /\ s.at = "drop" => s \in DrDropping
         /\ s = Drive!Idle => s.at = "idle"
BY DEF DrSteps, DrStill, DrConnecting, DrChoosing, DrSyncing, DrPurging, DrDropping, Drive!Idle

LEMMA DrIdleIs ==
  ASSUME NEW s, s = Drive!Idle \/ s = [at |-> "exchange"]
  PROVE  s \in DrSteps /\ s.at # "purge" /\ \A g, rows : DrTaken(s, g, rows)
<1>1. s \in DrStill /\ s.at \in {"idle", "exchange"}
  BY DEF Drive!Idle, DrStill
<1>. QED  BY <1>1 DEF DrSteps, DrTaken

LEMMA DrMarked ==
  ASSUME drGrant \in DriveGrants \cup {None}, drGrant' = drGrant \/ Drive!Store(Drive!Marked)
  PROVE  drGrant' \in DriveGrants \cup {None} /\ SameUser(drGrant, drGrant')
<1>1. CASE drGrant' = drGrant
  BY <1>1 DEF SameUser
<1>2. CASE drGrant = None /\ Drive!Store(Drive!Marked)
  BY <1>2 DEF Drive!Store, Drive!Marked, SameUser
<1>3. CASE drGrant # None /\ Drive!Store(Drive!Marked)
  <2>. DEFINE yes == TRUE  h == [drGrant EXCEPT !.reauth = yes]
  <2>1. drGrant' = h /\ drGrant \in DriveGrants /\ yes \in BOOLEAN
    BY <1>3 DEF Drive!Store, Drive!Marked
  <2>. HIDE DEF yes
  <2>2. /\ h \in DriveGrants /\ h.account = drGrant.account /\ h.email = drGrant.email
        /\ h.folders = drGrant.folders /\ h.files = drGrant.files
    BY <2>1 DEF DriveGrants
  <2>. HIDE DEF h
  <2>. QED  BY <1>3, <2>1, <2>2, DrNone DEF SameUser
<1>. QED  BY <1>1, <1>2, <1>3

LEMMA DrCounts ==
  ASSUME drHistory \in DrHistories, drHistory' \in {drHistory, Drive!Started, Drive!Troubled}
  PROVE  /\ drHistory' \in DrHistories /\ drHistory'.unpurged = drHistory.unpurged
         /\ drHistory'.unproved = drHistory.unproved /\ drHistory'.waiting = drHistory.waiting
BY DEF Drive!Started, Drive!Troubled, DrHistories

\* A step that leaves the selection and the rows.
LEMMA DrStay ==
  ASSUME DrInv, drGrant' \in DriveGrants \cup {None}, SameUser(drGrant, drGrant'),
         drRows' = drRows, drHistory' \in DrHistories,
         drHistory'.unpurged = drHistory.unpurged, drHistory'.unproved = drHistory.unproved,
         drHistory'.waiting = drHistory.waiting,
         \/ drStep' = drStep
         \/ /\ drStep.at # "purge" /\ drStep'.at # "purge" /\ drStep' \in DrSteps
            /\ DrTaken(drStep', drGrant, drRows)
  PROVE  DrInv'
<1>1. /\ drRows \subseteq Files /\ drStep \in DrSteps
      /\ ~drHistory.unproved => DrProved(drGrant)
      /\ DrTaken(drStep, drGrant, drRows)
      /\ ~drHistory.unpurged => DrRowsKept(drRows, drStep, drGrant, drHistory.waiting)
  BY DEF DrInv
<1>2. ~drHistory'.unproved => DrProved(drGrant')
  BY <1>1 DEF DrProved, SameUser
<1>3. drStep' \in DrSteps /\ DrTaken(drStep', drGrant', drRows')
  BY <1>1 DEF DrTaken, SameUser
<1>4. ASSUME ~drHistory'.unpurged
      PROVE  DrRowsKept(drRows', drStep', drGrant', drHistory'.waiting)
  <2>1. DrRowsKept(drRows, drStep, drGrant, drHistory.waiting)
    BY <1>1, <1>4
  <2>2. \A f : Covered(f, drGrant, drHistory.waiting) => Covered(f, drGrant', drHistory.waiting)
    BY DEF Covered, SameUser
  <2>. QED  BY <2>1, <2>2 DEF DrRowsKept
<1>. QED  BY <1>1, <1>2, <1>3, <1>4 DEF DrInv

\* What the steps start from.
LEMMA DrReads ==
  ASSUME DrInv
  PROVE  /\ drGrant \in DriveGrants \cup {None} /\ drStep \in DrSteps
         /\ drHistory \in DrHistories /\ drRows \subseteq Files
         /\ drHistory.waiting \in SUBSET Files /\ drHistory.tokens \in Nat
         /\ drHistory.troubles \in Nat
         /\ drGrant # None =>
              /\ drGrant \in DriveGrants /\ drGrant.account \in Accounts
              /\ drGrant.token \in Nat /\ drGrant.email \in Accounts \cup {None}
              /\ drGrant.folders \in SUBSET Folders /\ drGrant.files \in SUBSET Files
         /\ DrTaken(drStep, drGrant, drRows)
         /\ ~drHistory.unproved => DrProved(drGrant)
         /\ ~drHistory.unpurged => DrRowsKept(drRows, drStep, drGrant, drHistory.waiting)
<1>1. /\ drGrant \in DriveGrants \cup {None} /\ drStep \in DrSteps
      /\ drHistory \in DrHistories /\ drRows \subseteq Files
      /\ DrTaken(drStep, drGrant, drRows)
      /\ ~drHistory.unproved => DrProved(drGrant)
      /\ ~drHistory.unpurged => DrRowsKept(drRows, drStep, drGrant, drHistory.waiting)
  BY DEF DrInv
<1>. QED  BY <1>1 DEF DriveGrants, DrHistories

\* Consents and pickers: the change under way goes on, or ends.
LEMMA DrQuiet ==
  ASSUME DrInv,
         \/ Drive!StartOauth \/ Drive!StateTimesOut \/ Drive!Callback \/ Drive!ExchangeFails
         \/ Drive!Browse \/ Drive!CreateFolder \/ Drive!BrowseAnswered \/ Drive!SyncStops
         \/ Drive!TokenDies
  PROVE  DrInv'
<1>1. /\ drRows' = drRows /\ drHistory' \in {drHistory, Drive!Started, Drive!Troubled}
      /\ drGrant' = drGrant \/ Drive!Store(Drive!Marked)
  BY DEF Drive!StartOauth, Drive!StateTimesOut, Drive!Callback, Drive!ExchangeFails,
     Drive!Browse, Drive!CreateFolder, Drive!Calls, Drive!BrowseAnswered, Drive!SyncStops,
     Drive!TokenDies, Drive!Store
<1>2. \/ drStep' = drStep
      \/ /\ drStep = Drive!Idle \/ drStep.at \in {"exchange", "sync"}
         /\ drStep' = Drive!Idle \/ drStep' = [at |-> "exchange"]
  BY DEF Drive!StartOauth, Drive!StateTimesOut, Drive!Callback, Drive!ExchangeFails,
     Drive!Browse, Drive!CreateFolder, Drive!Calls, Drive!BrowseAnswered, Drive!SyncStops,
     Drive!TokenDies, Drive!MayStart
<1>3. \/ drStep' = drStep
      \/ /\ drStep.at # "purge" /\ drStep'.at # "purge" /\ drStep' \in DrSteps
         /\ DrTaken(drStep', drGrant, drRows)
  BY <1>2, DrReads, DrShape, DrIdleIs
<1>. QED  BY <1>1, <1>3, DrReads, DrMarked, DrCounts, DrStay

LEMMA DrExchange ==
  ASSUME DrInv, Drive!Exchange
  PROVE  DrInv'
<1>1. PICK account \in Accounts, answered \in BOOLEAN, writes \in BOOLEAN :
        drStep' = [at |-> "connect", account |-> account, token |-> drHistory.tokens + 1,
                   email |-> IF answered THEN account ELSE None, exports |-> writes]
  BY DEF Drive!Exchange
<1>2. /\ drStep.at = "exchange" /\ drHistory' = [drHistory EXCEPT !.tokens = @ + 1]
      /\ UNCHANGED <<drGrant, drRows>>
  BY DEF Drive!Exchange
<1>3. /\ drHistory' \in DrHistories /\ drHistory'.unpurged = drHistory.unpurged
      /\ drHistory'.unproved = drHistory.unproved /\ drHistory'.waiting = drHistory.waiting
  BY <1>2, DrReads DEF DrHistories
<1>. DEFINE email == IF answered THEN account ELSE None  token == drHistory.tokens + 1
<1>4. email \in {account, None} /\ token \in Nat
  BY DrReads
<1>. HIDE DEF email, token
<1>5. drStep' \in DrConnecting
  BY <1>1, <1>4 DEF DrConnecting, email, token
<1>6. drStep'.at = "connect" /\ drStep'.email = email /\ drStep'.account = account
  BY <1>1 DEF email
<1>7. drStep' \in DrSteps /\ drStep'.at # "purge" /\ DrTaken(drStep', drGrant, drRows)
  BY <1>4, <1>5, <1>6 DEF DrSteps, DrTaken
<1>. QED  BY <1>2, <1>3, <1>7, DrReads, DrMarked, DrStay

\* What a callback stores, and what it says of the selection.
LEMMA DrReconnected ==
  ASSUME DrInv, drStep.at = "connect", NEW h, h = Drive!Reconnected(drGrant, drStep)
  PROVE  /\ h \in DriveGrants /\ h.account = drStep.account
         /\ \/ h.folders = {} /\ h.files = {}
            \/ /\ drGrant # None /\ drStep.email # None /\ drGrant.email = drStep.email
               /\ h.folders = drGrant.folders /\ h.files = drGrant.files
         /\ drStep.email # None => h.email = drStep.email
<1>. DEFINE keep == Drive!KeepsScope(drGrant, drStep.email)
            email == IF drStep.email = None /\ drGrant # None THEN drGrant.email ELSE drStep.email
            folders == IF keep THEN drGrant.folders ELSE {}
            files == IF keep THEN drGrant.files ELSE {}
            no == FALSE
<1>1. h = [account |-> drStep.account, token |-> drStep.token, reauth |-> no,
           exports |-> drStep.exports, email |-> email, folders |-> folders, files |-> files]
  BY DEF Drive!Reconnected
<1>2. /\ drStep.account \in Accounts /\ drStep.token \in Nat /\ drStep.exports \in BOOLEAN
      /\ drStep.email \in Accounts \cup {None}
  BY DrReads, DrShape DEF DrConnecting
<1>3. keep => drGrant # None /\ drStep.email # None /\ drGrant.email = drStep.email
  BY DEF Drive!KeepsScope
<1>4. email \in Accounts \cup {None} /\ (drStep.email # None => email = drStep.email)
  BY <1>2, DrReads
<1>5. /\ folders \in SUBSET Folders /\ files \in SUBSET Files
      /\ \/ folders = {} /\ files = {}
         \/ keep /\ folders = drGrant.folders /\ files = drGrant.files
  BY <1>3, DrReads
<1>6. no \in BOOLEAN
  OBVIOUS
<1>. HIDE DEF keep, email, folders, files, no
<1>7. h \in DriveGrants
  BY <1>1, <1>2, <1>4, <1>5, <1>6 DEF DriveGrants
<1>. QED  BY <1>1, <1>3, <1>4, <1>5, <1>7

LEMMA DrSaveConnection ==
  ASSUME DrInv, Drive!SaveConnection
  PROVE  DrInv'
<1>. DEFINE h == Drive!Reconnected(drGrant, drStep)
            unproved == drHistory.unproved \/ drStep.email = None
            waiting == drHistory.waiting \cup (IF Drive!Selected(drGrant') = {} THEN drRows ELSE {})
<1>1. /\ drStep.at = "connect" /\ drGrant' = h /\ drStep' = Drive!Idle /\ drRows' = drRows
      /\ drHistory' = [drHistory EXCEPT !.unproved = unproved, !.waiting = waiting]
  BY DEF Drive!SaveConnection, Drive!Store
<1>2. waiting \in SUBSET Files
  BY DrReads
<1>3. unproved \in BOOLEAN /\ (~unproved => ~drHistory.unproved /\ drStep.email # None)
  OBVIOUS
<1>. HIDE DEF h, unproved
<1>4. drHistory' \in DrHistories /\ drHistory'.unpurged = drHistory.unpurged
      /\ drHistory'.unproved = unproved /\ drHistory'.waiting = waiting
  <2>. HIDE DEF waiting
  <2>. QED  BY <1>1, <1>2, <1>3, DrReads DEF DrHistories
<1>5. /\ h \in DriveGrants /\ h # None /\ h.account = drStep.account
      /\ \/ h.folders = {} /\ h.files = {}
         \/ /\ drGrant # None /\ drStep.email # None /\ drGrant.email = drStep.email
            /\ h.folders = drGrant.folders /\ h.files = drGrant.files
      /\ drStep.email # None => h.email = drStep.email
  BY <1>1, DrReconnected, DrNone DEF h
<1>6. drStep.email # None => drStep.email = drStep.account
  BY <1>1, DrReads DEF DrTaken
<1>7. ~unproved => DrProved(h)
  BY <1>3, <1>5, <1>6, DrReads DEF DrProved
<1>8. h.folders \cup h.files = {} => waiting = drHistory.waiting \cup drRows
  BY <1>1, <1>5 DEF Drive!Selected
<1>9. drHistory.waiting \subseteq waiting
  OBVIOUS
<1>. HIDE DEF waiting
<1>10. ASSUME ~drHistory.unpurged, NEW f \in drRows
       PROVE  Covered(f, h, waiting)
  <2>1. Covered(f, drGrant, drHistory.waiting)
    BY <1>1, <1>10, DrReads DEF DrRowsKept
  <2>. QED  BY <1>5, <1>8, <1>9, <2>1 DEF Covered
<1>11. drStep' \in DrSteps /\ \A g, rows : DrTaken(drStep', g, rows)
  BY <1>1, DrIdleIs
<1>. QED  BY <1>1, <1>4, <1>5, <1>7, <1>10, <1>11, DrReads DEF DrInv, DrRowsKept

LEMMA DrPutSelection ==
  ASSUME DrInv, Drive!PutSelection
  PROVE  DrInv'
<1>1. PICK folders \in SUBSET Folders, files \in SUBSET Files :
        drStep' = [at |-> "validate", account |-> drGrant.account, token |-> drGrant.token,
                   folders |-> folders, files |-> files, previous |-> drGrant.files]
  BY DEF Drive!PutSelection
<1>2. /\ drStep = Drive!Idle /\ drHistory' = Drive!Started /\ UNCHANGED <<drGrant, drRows>>
      /\ drGrant # None
  BY DEF Drive!PutSelection, Drive!MayStart, Drive!Usable
<1>3. drStep' \in DrChoosing
  BY <1>1, <1>2, DrReads DEF DrChoosing
<1>4. drStep' \in DrSteps /\ drStep'.at # "purge" /\ DrTaken(drStep', drGrant, drRows)
  BY <1>1, <1>2, <1>3 DEF DrSteps, DrTaken
<1>5. drStep.at # "purge"
  BY <1>2, DrReads, DrShape
<1>. QED  BY <1>2, <1>4, <1>5, DrReads, DrMarked, DrCounts, DrStay

LEMMA DrValidate ==
  ASSUME DrInv, Drive!Validate
  PROVE  DrInv'
<1>. DEFINE s == drStep  items == s.folders \cup s.files  t == [s EXCEPT !.at = "save"]
<1>1. /\ s.at = "validate" /\ UNCHANGED <<drRows, drHistory>>
      /\ drGrant' = drGrant \/ Drive!Store(Drive!Marked)
      /\ drStep' = Drive!Idle \/ (items \subseteq Readable[s.account] /\ drStep' = t)
  BY DEF Drive!Validate
<1>2. s \in DrChoosing /\ DrTaken(s, drGrant, drRows)
  BY <1>1, DrReads, DrShape
<1>3. /\ t \in DrChoosing /\ t.at = "save" /\ t.account = s.account /\ t.folders = s.folders
      /\ t.files = s.files /\ t.previous = s.previous
  BY <1>2 DEF DrChoosing
<1>. HIDE DEF t
<1>4. items \subseteq Readable[s.account] =>
        t \in DrSteps /\ t.at # "purge" /\ DrTaken(t, drGrant, drRows)
  BY <1>1, <1>2, <1>3 DEF DrSteps, DrTaken
<1>. QED  BY <1>1, <1>4, DrIdleIs, DrReads, DrMarked, DrCounts, DrStay

\* A new selection, and a purge of the rows it has no place for.
LEMMA DrRescope ==
  ASSUME DrInv, drStep.at # "purge", drGrant' \in DriveGrants \cup {None}, drRows' = drRows,
         drHistory' \in DrHistories, drHistory'.unpurged = drHistory.unpurged,
         ~drHistory'.unproved => DrProved(drGrant'),
         NEW gone \in SUBSET drRows, drStep' = Drive!Purge(gone),
         \A f \in drRows \ gone :
            Covered(f, drGrant, drHistory.waiting) => Covered(f, drGrant', drHistory'.waiting)
  PROVE  DrInv'
<1>1. \A f \in drRows \ gone : ~drHistory.unpurged => Covered(f, drGrant', drHistory'.waiting)
  BY DrReads DEF DrRowsKept
<1>2. CASE gone = {}
  <2>1. drStep' \in DrSteps /\ drStep'.at # "purge" /\ DrTaken(drStep', drGrant', drRows')
    BY <1>2, DrIdleIs DEF Drive!Purge
  <2>. QED  BY <1>1, <1>2, <2>1, DrReads DEF DrInv, DrRowsKept
<1>3. CASE gone # {}
  <2>1. drStep' = [at |-> "purge", gone |-> gone]
    BY <1>3 DEF Drive!Purge
  <2>2. drStep' \in DrPurging /\ drStep'.at = "purge" /\ drStep'.gone = gone
    BY <2>1, DrReads DEF DrPurging
  <2>3. drStep' \in DrSteps /\ DrTaken(drStep', drGrant', drRows')
    BY <2>2 DEF DrSteps, DrTaken
  <2>. QED  BY <1>1, <2>2, <2>3, DrReads DEF DrInv, DrRowsKept
<1>. QED  BY <1>2, <1>3

LEMMA DrSaveSelection ==
  ASSUME DrInv, Drive!SaveSelection
  PROVE  DrInv'
<1>. DEFINE s == drStep  g == drGrant  w == drHistory.waiting
<1>1. s.at = "save" /\ drRows' = drRows
  BY DEF Drive!SaveSelection
<1>2. /\ s \in DrChoosing /\ s.folders \in SUBSET Folders /\ s.files \in SUBSET Files
      /\ g # None /\ g.account = s.account /\ g.files = s.previous
      /\ s.folders \cup s.files \subseteq Readable[s.account]
  BY <1>1, DrReads, DrShape DEF DrTaken, DrChoosing
<1>3. CASE ~Drive!Usable
  <2>1. drStep' = Drive!Idle /\ UNCHANGED <<drGrant, drHistory>>
    BY <1>3 DEF Drive!SaveSelection
  <2>. QED  BY <1>1, <2>1, DrIdleIs, DrReads, DrMarked, DrCounts, DrStay
<1>4. CASE Drive!Usable
  <2>. DEFINE h == [g EXCEPT !.folders = s.folders, !.files = s.files]
              gone == Drive!Dropped(s)
              waiting == IF s.folders \cup s.files = {} THEN {}
                         ELSE w \cup (drRows \cap Drive!Listing(g.folders, {}))
  <2>1. /\ drGrant' = h /\ drStep' = Drive!Purge(gone)
        /\ drHistory' = [drHistory EXCEPT !.waiting = waiting]
    BY <1>4 DEF Drive!SaveSelection, Drive!Store
  <2>2. gone \in SUBSET drRows /\ waiting \in SUBSET Files
    BY <1>1, DrReads DEF Drive!Dropped
  <2>3. /\ h \in DriveGrants /\ h.folders = s.folders /\ h.files = s.files
        /\ h.account = g.account /\ h.email = g.email
    BY <1>2, DrReads DEF DriveGrants
  <2>4. ASSUME NEW f \in drRows \ gone, Covered(f, g, w)
        PROVE  f \in h.files \/ (\E d \in h.folders : f \in Inside[d]) \/ f \in waiting
    <3>1. s.folders \cup s.files # {} /\ f \notin s.previous \ s.files
      BY <2>4 DEF Drive!Dropped
    <3>2. f \in g.files \/ f \in Drive!Listing(g.folders, {}) \/ f \in w
      BY <2>4, DrListing DEF Covered
    <3>. QED  BY <1>2, <2>3, <2>4, <3>1, <3>2
  <2>. HIDE DEF h, gone, waiting
  <2>5. /\ drHistory' \in DrHistories /\ drHistory'.unpurged = drHistory.unpurged
        /\ drHistory'.unproved = drHistory.unproved /\ drHistory'.waiting = waiting
    BY <2>1, <2>2, DrReads DEF DrHistories
  <2>6. h # None
    BY <2>3, DrNone
  <2>7. ~drHistory.unproved => DrProved(h)
    BY <1>2, <2>3, DrReads DEF DrProved
  <2>8. \A f \in drRows \ gone : Covered(f, g, w) => Covered(f, h, waiting)
    BY <2>4, <2>6 DEF Covered
  <2>. QED  BY <1>1, <2>1, <2>2, <2>3, <2>5, <2>7, <2>8, DrRescope
<1>. QED  BY <1>3, <1>4

LEMMA DrDisconnect ==
  ASSUME DrInv, Drive!Disconnect
  PROVE  DrInv'
<1>. DEFINE no == FALSE  h == [drHistory EXCEPT !.started = drHistory.started + 1]
<1>1. /\ drStep = Drive!Idle /\ drGrant' = None /\ drStep' = Drive!Purge(drRows)
      /\ drRows' = drRows /\ drHistory' = [h EXCEPT !.waiting = {}, !.unproved = no]
  BY DEF Drive!Disconnect, Drive!MayStart, Drive!Store, Drive!Started
<1>2. h \in DrHistories /\ h.unpurged = drHistory.unpurged /\ no \in BOOLEAN
  BY DrReads DEF DrHistories
<1>. HIDE DEF no, h
<1>3. drHistory' \in DrHistories /\ drHistory'.unpurged = drHistory.unpurged
  BY <1>1, <1>2 DEF DrHistories
<1>4. drStep.at # "purge"
  BY <1>1, DrReads, DrShape
<1>5. DrProved(drGrant')
  BY <1>1 DEF DrProved
<1>. QED  BY <1>1, <1>3, <1>4, <1>5, DrReads, DrRescope

LEMMA DrPurges ==
  ASSUME DrInv, Drive!PurgeRows \/ Drive!PurgeFails
  PROVE  DrInv'
<1>1. drStep.at = "purge" /\ drStep' = Drive!Idle /\ UNCHANGED drGrant
  BY DEF Drive!PurgeRows, Drive!PurgeFails
<1>2. /\ drRows' \subseteq drRows /\ drHistory' \in DrHistories
      /\ drHistory'.unproved = drHistory.unproved /\ drHistory'.waiting = drHistory.waiting
      /\ ~drHistory'.unpurged => ~drHistory.unpurged /\ drRows' = drRows \ drStep.gone
  <2>1. CASE Drive!PurgeRows
    BY <2>1, DrReads DEF Drive!PurgeRows
  <2>2. CASE Drive!PurgeFails
    <3>. DEFINE yes == TRUE  h == [drHistory EXCEPT !.troubles = drHistory.troubles + 1]
    <3>1. drHistory' = [h EXCEPT !.unpurged = yes] /\ yes \in BOOLEAN
      BY <2>2 DEF Drive!PurgeFails, Drive!Troubled
    <3>2. /\ h \in DrHistories /\ h.unproved = drHistory.unproved
          /\ h.waiting = drHistory.waiting
      BY DrReads DEF DrHistories
    <3>. HIDE DEF yes, h
    <3>3. /\ drHistory' \in DrHistories /\ drHistory'.unpurged = yes
          /\ drHistory'.unproved = drHistory.unproved /\ drHistory'.waiting = drHistory.waiting
      BY <3>1, <3>2 DEF DrHistories
    <3>4. PICK kept \in SUBSET drStep.gone : drRows' = drRows \ (drStep.gone \ kept)
      BY <2>2 DEF Drive!PurgeFails
    <3>5. drHistory'.unpurged
      BY <3>3 DEF yes
    <3>. QED  BY <3>3, <3>4, <3>5
  <2>. QED  BY <2>1, <2>2
<1>3. drStep' \in DrSteps /\ drStep'.at # "purge" /\ DrTaken(drStep', drGrant', drRows')
  BY <1>1, DrIdleIs
<1>4. ~drHistory'.unpurged => DrRowsKept(drRows', drStep', drGrant', drHistory'.waiting)
  BY <1>1, <1>2, DrReads DEF DrRowsKept
<1>. QED  BY <1>1, <1>2, <1>3, <1>4, DrReads DEF DrInv

LEMMA DrSyncStarts ==
  ASSUME DrInv, Drive!SyncStarts
  PROVE  DrInv'
<1>1. /\ drStep = Drive!Idle /\ drHistory' = Drive!Started /\ UNCHANGED <<drGrant, drRows>>
      /\ drGrant # None
      /\ drStep' = [at |-> "sync", account |-> drGrant.account, token |-> drGrant.token,
                    folders |-> drGrant.folders, files |-> drGrant.files]
  BY DEF Drive!SyncStarts, Drive!MayStart, Drive!Usable
<1>2. drStep' \in DrSyncing
  BY <1>1, DrReads DEF DrSyncing
<1>3. drStep' \in DrSteps /\ drStep'.at # "purge" /\ DrTaken(drStep', drGrant, drRows)
  BY <1>1, <1>2 DEF DrSteps, DrTaken
<1>4. drStep.at # "purge"
  BY <1>1, DrReads, DrShape
<1>. QED  BY <1>1, <1>3, <1>4, DrReads, DrMarked, DrCounts, DrStay

LEMMA DrSyncRuns ==
  ASSUME DrInv, Drive!SyncRuns
  PROVE  DrInv'
<1>. DEFINE listed == Drive!Listing(drStep.folders, drStep.files)
<1>1. /\ drStep.at = "sync" /\ drStep' = Drive!Idle /\ UNCHANGED drGrant
  BY DEF Drive!SyncRuns
<1>2. PICK failed \in SUBSET listed :
        /\ drRows' = (drRows \cap listed) \cup (listed \ failed)
        /\ drHistory' = [drHistory EXCEPT !.waiting = {}, !.unpurged = FALSE,
                           !.troubles = @ + IF failed = {} THEN 0 ELSE 1]
  BY DEF Drive!SyncRuns
<1>3. /\ drStep.folders \in SUBSET Folders /\ drStep.files \in SUBSET Files
      /\ drGrant # None /\ drGrant.folders = drStep.folders /\ drGrant.files = drStep.files
  BY <1>1, DrReads, DrShape DEF DrTaken, DrSyncing
<1>4. /\ listed \subseteq Files
      /\ \A f \in listed : f \in drGrant.files \/ \E d \in drGrant.folders : f \in Inside[d]
  BY <1>3, DrListing, ConnectionsAssumption
<1>. HIDE DEF listed
<1>. DEFINE no == FALSE  more == IF failed = {} THEN 0 ELSE 1
            troubles == drHistory.troubles + more
<1>5. troubles \in Nat /\ no \in BOOLEAN
  BY DrReads
<1>6. drHistory' = [drHistory EXCEPT !.waiting = {}, !.unpurged = no, !.troubles = troubles]
  BY <1>2
<1>. HIDE DEF no, troubles
<1>8. /\ drHistory' \in DrHistories /\ drHistory'.unproved = drHistory.unproved
  BY <1>5, <1>6, DrReads DEF DrHistories
<1>9. drRows' \subseteq listed
  BY <1>2
<1>10. drStep' \in DrSteps /\ drStep'.at # "purge" /\ DrTaken(drStep', drGrant', drRows')
  BY <1>1, DrIdleIs
<1>11. DrRowsKept(drRows', drStep', drGrant', drHistory'.waiting)
  BY <1>1, <1>3, <1>4, <1>9 DEF DrRowsKept, Covered
<1>. QED  BY <1>1, <1>4, <1>8, <1>9, <1>10, <1>11, DrReads DEF DrInv

LEMMA DrDocumentDeleted ==
  ASSUME DrInv, Drive!DocumentDeleted
  PROVE  DrInv'
<1>1. PICK f \in drRows : drRows' = drRows \ {f} /\ drStep' = [at |-> "drop", file |-> f]
  BY DEF Drive!DocumentDeleted
<1>2. /\ drStep = Drive!Idle /\ drHistory' = Drive!Started /\ UNCHANGED drGrant
  BY DEF Drive!DocumentDeleted, Drive!MayStart
<1>3. /\ drHistory' \in DrHistories /\ drHistory'.unpurged = drHistory.unpurged
      /\ drHistory'.unproved = drHistory.unproved /\ drHistory'.waiting = drHistory.waiting
  BY <1>2, DrReads, DrCounts
<1>4. drStep' \in DrDropping
  BY <1>1, DrReads DEF DrDropping
<1>5. drStep' \in DrSteps /\ drStep'.at # "purge" /\ DrTaken(drStep', drGrant', drRows')
  BY <1>1, <1>4 DEF DrSteps, DrTaken
<1>6. drStep.at # "purge"
  BY <1>2, DrReads, DrShape
<1>7. ~drHistory'.unpurged => DrRowsKept(drRows', drStep', drGrant', drHistory'.waiting)
  BY <1>1, <1>2, <1>3, <1>6, DrReads DEF DrRowsKept
<1>. QED  BY <1>1, <1>2, <1>3, <1>5, <1>7, DrReads DEF DrInv

LEMMA DrDropRoot ==
  ASSUME DrInv, Drive!DropRoot
  PROVE  DrInv'
<1>1. /\ drStep.at = "drop" /\ drStep' = Drive!Idle /\ UNCHANGED <<drRows, drHistory>>
      /\ drGrant' = IF drGrant = None THEN None
                    ELSE [drGrant EXCEPT !.files = @ \ {drStep.file}]
  BY DEF Drive!DropRoot, Drive!Store
<1>2. CASE drGrant = None
  BY <1>1, <1>2, DrIdleIs, DrReads, DrMarked, DrCounts, DrStay
<1>3. CASE drGrant # None
  <2>. DEFINE h == [drGrant EXCEPT !.files = drGrant.files \ {drStep.file}]
  <2>1. drGrant' = h
    BY <1>1, <1>3
  <2>2. /\ h \in DriveGrants /\ h.account = drGrant.account /\ h.email = drGrant.email
        /\ h.folders = drGrant.folders /\ h.files = drGrant.files \ {drStep.file}
    BY <1>3, DrReads DEF DriveGrants
  <2>. HIDE DEF h
  <2>3. h # None /\ drStep.file \notin drRows
    BY <1>1, <2>2, DrNone, DrReads DEF DrTaken
  <2>4. ~drHistory.unproved => DrProved(h)
    BY <1>3, <2>2, DrReads DEF DrProved
  <2>5. \A f \in drRows : Covered(f, drGrant, drHistory.waiting) => Covered(f, h, drHistory.waiting)
    BY <2>2, <2>3 DEF Covered
  <2>6. drStep' = Drive!Purge({})
    BY <1>1 DEF Drive!Purge
  <2>. QED  BY <1>1, <2>1, <2>2, <2>4, <2>5, <2>6, DrReads, DrRescope
<1>. QED  BY <1>2, <1>3

LEMMA DrInit == Drive!Init => DrInv
<1>. SUFFICES ASSUME Drive!Init PROVE DrInv
  OBVIOUS
<1>1. /\ drGrant = None /\ drStep = Drive!Idle /\ drRows = {}
      /\ drHistory = [started |-> 0, troubles |-> 0, tokens |-> 0, unpurged |-> FALSE,
                      unproved |-> FALSE, waiting |-> {}]
  BY DEF Drive!Init
<1>2. drStep \in DrSteps /\ DrTaken(drStep, drGrant, drRows)
  BY <1>1, DrIdleIs
<1>. QED  BY <1>1, <1>2 DEF DrInv, DrHistories, DrRowsKept, DrProved

LEMMA DrPreserved == DrInv /\ Drive!Next => DrInv'
BY DrQuiet, DrExchange, DrSaveConnection, DrPutSelection, DrValidate, DrSaveSelection,
   DrDisconnect, DrPurges, DrSyncStarts, DrSyncRuns, DrDocumentDeleted, DrDropRoot
   DEF Drive!Next

LEMMA DrScope == DrInv => Drive!SelectionReadable /\ Drive!DriveRowsSelected
<1>. SUFFICES ASSUME DrInv PROVE Drive!SelectionReadable /\ Drive!DriveRowsSelected
  OBVIOUS
<1>1. Drive!SelectionReadable
  BY DrReads DEF Drive!SelectionReadable, Drive!Selected, DrProved
<1>2. ASSUME drStep = Drive!Idle, ~drHistory.unpurged
      PROVE  /\ drGrant = None => drRows = {}
             /\ drGrant # None =>
                  drRows \subseteq Drive!Listing(drGrant.folders, drGrant.files) \cup drHistory.waiting
  <2>1. drStep.at = "idle"
    BY <1>2, DrReads, DrShape
  <2>2. \A f \in drRows : Covered(f, drGrant, drHistory.waiting)
    BY <1>2, <2>1, DrReads DEF DrRowsKept
  <2>. QED  BY <2>2, DrListing DEF Covered
<1>3. /\ Drive!ConnectionState = "disconnected" => drGrant = None
      /\ drGrant = None => Drive!ConnectionState = "disconnected"
      /\ Drive!ConnectionState = "setup_required" =>
           drGrant # None /\ Drive!Listing(drGrant.folders, drGrant.files) = {}
  BY DEF Drive!ConnectionState, Drive!Selected, Drive!Listing
<1>4. Drive!DriveRowsSelected
  BY <1>2, <1>3 DEF Drive!DriveRowsSelected
<1>. QED  BY <1>1, <1>4

-----------------------------------------------------------------------------
(* Jira Data Center.                                                       *)

DcHistories == [started : Nat, troubles : Nat, ids : Nat, unpurged : BOOLEAN]
DcDocs == [id : Nat, server : Sites \cup {None}, key : DcKeys]

DcIdle == [at |-> "idle"]
DcSelecting == [at : {"select"}, previous : DcStates, keys : SUBSET DcKeys,
                server : Sites \cup {None}]
DcSyncing == [at : {"sync"}, taken : DcStates]
DcPurging == [at : {"purge"}, rows : SUBSET DcDocs]
DcSteps == {DcIdle} \cup DcSelecting \cup DcSyncing \cup DcPurging

(* The stored identity and selection, whatever is known of the token.      *)
SameScope(s, t) == s.id = t.id /\ s.server = t.server /\ s.keys = t.keys

(* A selection names its connector and its server.                         *)
Named(s) == s.keys # {} => s.id # 0 /\ s.server # None

(* What a request under way took along still stands, as nobody else        *)
(* changes it.                                                             *)
DcTaken(step, c) ==
    /\ step.at = "select" =>
         /\ SameScope(step.previous, c)
         /\ IF step.keys = {} THEN step.server = c.server ELSE step.server # None
    /\ step.at = "sync" => SameScope(step.taken, c) /\ step.taken.keys # {}

OfState(r, s) == r.id = s.id /\ r.server = s.server /\ r.key \in s.keys

(* The rows are those of the stored selection, but for those that a purge  *)
(* under way still has to remove.                                          *)
DcRowsKept(rows, step, c) ==
    \A r \in rows : (step.at = "purge" => r \notin step.rows) => OfState(r, c)

DcInv ==
    /\ dcState \in DcStates \cup {None} /\ server \in Sites
    /\ dcStep \in DcSteps /\ dcHistory \in DcHistories /\ dcRows \subseteq DcDocs
    /\ Named(DataCenter!Current) /\ DcTaken(dcStep, DataCenter!Current)
    /\ ~dcHistory.unpurged => DcRowsKept(dcRows, dcStep, DataCenter!Current)

LEMMA DcNone == None \notin DcStates /\ None \notin Sites
BY ConnectionsAssumption, NoneAssumption

LEMMA DcCurrent ==
  ASSUME dcState \in DcStates \cup {None}
  PROVE  /\ DataCenter!Current \in DcStates
         /\ dcState # None => DataCenter!Current = dcState
         /\ dcState = None => DataCenter!Current.keys = {} /\ DataCenter!Current.id = 0
<1>1. /\ DataCenter!Blank \in DcStates
      /\ DataCenter!Blank.keys = {} /\ DataCenter!Blank.id = 0
  BY DEF DataCenter!Blank, DcStates
<1>. QED  BY <1>1 DEF DataCenter!Current

\* The next state as Current reads it.
LEMMA DcCurrentNext ==
  ASSUME dcState' \in DcStates \cup {None}
  PROVE  /\ DataCenter!Current' \in DcStates
         /\ dcState' # None => DataCenter!Current' = dcState'
         /\ dcState' = None => DataCenter!Current'.keys = {} /\ DataCenter!Current'.id = 0
<1>1. /\ DataCenter!Blank \in DcStates
      /\ DataCenter!Blank.keys = {} /\ DataCenter!Blank.id = 0
  BY DEF DataCenter!Blank, DcStates
<1>2. DataCenter!Current' = IF dcState' = None THEN DataCenter!Blank ELSE dcState'
  BY DEF DataCenter!Current, DataCenter!Blank
<1>. QED  BY <1>1, <1>2

LEMMA DcSame ==
  ASSUME dcState \in DcStates \cup {None}, dcState' = dcState
  PROVE  DataCenter!Current' = DataCenter!Current
BY DEF DataCenter!Current, DataCenter!Blank

\* What the token is found to be leaves identity and selection alone.
LEMMA DcAnswered ==
  ASSUME dcState \in DcStates \cup {None},
         DataCenter!Refusal \/ DataCenter!Store(DataCenter!Accepted)
  PROVE  /\ dcState' \in DcStates \cup {None}
         /\ SameScope(DataCenter!Current', DataCenter!Current)
<1>. DEFINE c == DataCenter!Current
<1>0. c \in DcStates
  BY DcCurrent
<1>1. CASE DataCenter!Refusal
  <2>. DEFINE d == [c EXCEPT !.rejected = TRUE]
  <2>1. dcState' = d
    BY <1>1 DEF DataCenter!Refusal, DataCenter!Store
  <2>2. d \in DcStates /\ d.id = c.id /\ d.server = c.server /\ d.keys = c.keys
    BY <1>0 DEF DcStates
  <2>. HIDE DEF c, d
  <2>3. DataCenter!Current' = d
    BY <2>1, <2>2, DcCurrentNext, DcNone
  <2>. QED  BY <2>1, <2>2, <2>3 DEF SameScope, c
<1>2. CASE DataCenter!Store(DataCenter!Accepted) /\ dcState = None
  <2>1. dcState' = dcState
    BY <1>2 DEF DataCenter!Accepted, DataCenter!Store
  <2>. QED  BY <2>1, DcSame DEF SameScope
<1>3. CASE DataCenter!Store(DataCenter!Accepted) /\ dcState # None
  <2>. DEFINE d == [dcState EXCEPT !.rejected = FALSE]
  <2>1. dcState' = d /\ dcState \in DcStates /\ c = dcState
    BY <1>3, DcCurrent DEF DataCenter!Accepted, DataCenter!Store
  <2>2. d \in DcStates /\ d.id = c.id /\ d.server = c.server /\ d.keys = c.keys
    BY <2>1 DEF DcStates
  <2>. HIDE DEF c, d
  <2>3. DataCenter!Current' = d
    BY <2>1, <2>2, DcCurrentNext, DcNone
  <2>. QED  BY <2>1, <2>2, <2>3 DEF SameScope, c
<1>. QED  BY <1>1, <1>2, <1>3

LEMMA DcCounts ==
  ASSUME dcHistory \in DcHistories, DataCenter!Started \/ DataCenter!Trouble
  PROVE  dcHistory' \in DcHistories /\ dcHistory'.unpurged = dcHistory.unpurged
BY DEF DataCenter!Started, DataCenter!Trouble, DcHistories

\* A step that leaves the scope and the rows.
LEMMA DcStay ==
  ASSUME DcInv, dcState' \in DcStates \cup {None}, server' \in Sites,
         SameScope(DataCenter!Current', DataCenter!Current), dcRows' = dcRows,
         dcHistory' \in DcHistories, dcHistory'.unpurged = dcHistory.unpurged,
         \/ dcStep' = dcStep
         \/ /\ dcStep.at # "purge" /\ dcStep'.at # "purge" /\ dcStep' \in DcSteps
            /\ DcTaken(dcStep', DataCenter!Current)
  PROVE  DcInv'
<1>. DEFINE c == DataCenter!Current  d == DataCenter!Current'
<1>1. /\ Named(c) /\ DcTaken(dcStep, c) /\ dcStep \in DcSteps /\ dcRows \subseteq DcDocs
      /\ ~dcHistory.unpurged => DcRowsKept(dcRows, dcStep, c)
  BY DEF DcInv
<1>2. d.id = c.id /\ d.server = c.server /\ d.keys = c.keys
  BY DEF SameScope
<1>. HIDE DEF c, d
<1>3. Named(d) /\ DcTaken(dcStep', d) /\ dcStep' \in DcSteps
  BY <1>1, <1>2 DEF Named, DcTaken, SameScope, c
<1>4. ~dcHistory'.unpurged => DcRowsKept(dcRows', dcStep', d)
  BY <1>1, <1>2 DEF DcRowsKept, OfState
<1>. QED  BY <1>1, <1>3, <1>4 DEF DcInv, d

LEMMA DcIdleIs ==
  ASSUME NEW s, s = DcIdle
  PROVE  s \in DcSteps /\ s.at = "idle" /\ \A c : DcTaken(s, c)
BY DEF DcIdle, DcSteps, DcTaken

LEMMA DcShape ==
  ASSUME NEW s \in DcSteps
  PROVE  /\ s.at = "select" => s \in DcSelecting
         /\ s.at = "sync" => s \in DcSyncing
         /\ s.at = "purge" => s \in DcPurging
         /\ s = DataCenter!Idle => s.at = "idle"
BY DEF DcSteps, DcIdle, DcSelecting, DcSyncing, DcPurging, DataCenter!Idle

LEMMA DcListProjects ==
  ASSUME DcInv, DataCenter!ListProjects
  PROVE  DcInv'
<1>1. /\ DataCenter!Started /\ UNCHANGED <<dcStep, dcRows, server>>
      /\ DataCenter!Refusal \/ DataCenter!Store(DataCenter!Accepted)
  BY DEF DataCenter!ListProjects
<1>2. dcState \in DcStates \cup {None} /\ dcHistory \in DcHistories /\ server \in Sites
  BY DEF DcInv
<1>. QED  BY <1>1, <1>2, DcAnswered, DcCounts, DcStay

LEMMA DcPutSelection ==
  ASSUME DcInv, DataCenter!PutSelection
  PROVE  DcInv'
<1>. DEFINE c == DataCenter!Current
<1>1. /\ DataCenter!Started /\ UNCHANGED <<dcRows, server>> /\ dcStep = DataCenter!Idle
  BY DEF DataCenter!PutSelection, DataCenter!MayStart
<1>2. /\ dcState \in DcStates \cup {None} /\ dcHistory \in DcHistories /\ server \in Sites
      /\ dcStep \in DcSteps
  BY DEF DcInv
<1>3. dcStep.at # "purge"
  BY <1>1, <1>2, DcShape
<1>4. PICK keys \in SUBSET DcKeys :
        IF keys # {} /\ ~tokenOk
          THEN DataCenter!Refusal /\ UNCHANGED dcStep
          ELSE /\ DataCenter!Store(IF keys = {} THEN dcState ELSE DataCenter!Accepted)
               /\ dcStep' = [at |-> "select", previous |-> c, keys |-> keys,
                             server |-> IF keys = {} THEN c.server ELSE server]
  BY DEF DataCenter!PutSelection
<1>5. c \in DcStates /\ c.server \in Sites \cup {None}
  BY <1>2, DcCurrent DEF DcStates
<1>6. CASE keys # {} /\ ~tokenOk
  BY <1>1, <1>2, <1>4, <1>6, DcAnswered, DcCounts, DcStay
<1>7. CASE ~(keys # {} /\ ~tokenOk)
  <2>. DEFINE srv == IF keys = {} THEN c.server ELSE server
              s == [at |-> "select", previous |-> c, keys |-> keys, server |-> srv]
  <2>1. srv \in Sites \cup {None} /\ (IF keys = {} THEN srv = c.server ELSE srv # None)
    BY <1>2, <1>5, DcNone
  <2>2. dcStep' = s
    BY <1>4, <1>7
  <2>. HIDE DEF srv, c
  <2>3. s \in DcSelecting /\ s.at = "select" /\ s.previous = c /\ s.keys = keys /\ s.server = srv
    BY <1>5, <2>1 DEF DcSelecting
  <2>. HIDE DEF s
  <2>4. s \in DcSteps /\ s.at # "purge" /\ DcTaken(s, c)
    BY <2>1, <2>3 DEF DcSteps, DcTaken, SameScope
  <2>5. dcState' = dcState \/ DataCenter!Store(DataCenter!Accepted)
    BY <1>4, <1>7 DEF DataCenter!Store
  <2>6. dcState' \in DcStates \cup {None} /\ SameScope(DataCenter!Current', DataCenter!Current)
    BY <1>2, <2>5, DcSame, DcAnswered DEF SameScope
  <2>. QED  BY <1>1, <1>2, <1>3, <2>2, <2>4, <2>6, DcCounts, DcStay DEF c
<1>. QED  BY <1>6, <1>7

\* A new scope, and a purge of the rows it has no place for.
LEMMA DcRescope ==
  ASSUME DcInv, dcState' \in DcStates \cup {None}, server' \in Sites, dcRows' = dcRows,
         dcHistory' \in DcHistories, dcHistory'.unpurged = dcHistory.unpurged,
         Named(DataCenter!Current'), dcStep.at # "purge",
         NEW gone \in SUBSET dcRows, DataCenter!PurgeOr(gone),
         \A r \in dcRows \ gone :
            OfState(r, DataCenter!Current) => OfState(r, DataCenter!Current')
  PROVE  DcInv'
<1>. DEFINE d == DataCenter!Current'
<1>1. dcRows \subseteq DcDocs /\ (~dcHistory.unpurged => DcRowsKept(dcRows, dcStep, DataCenter!Current))
  BY DEF DcInv
<1>2. dcStep' = IF gone = {} THEN DcIdle ELSE [at |-> "purge", rows |-> gone]
  BY DEF DataCenter!PurgeOr, DataCenter!Idle, DcIdle
<1>3. \A r \in dcRows \ gone : ~dcHistory.unpurged => OfState(r, d)
  BY <1>1 DEF DcRowsKept
<1>. HIDE DEF d
<1>4. CASE gone = {}
  <2>1. dcStep' \in DcSteps /\ dcStep'.at = "idle" /\ DcTaken(dcStep', d)
    BY <1>2, <1>4, DcIdleIs
  <2>. QED  BY <1>1, <1>3, <1>4, <2>1 DEF DcInv, DcRowsKept, d
<1>5. CASE gone # {}
  <2>1. dcStep' \in DcPurging /\ dcStep'.at = "purge" /\ dcStep'.rows = gone
    BY <1>1, <1>2, <1>5 DEF DcPurging
  <2>2. dcStep' \in DcSteps /\ DcTaken(dcStep', d)
    BY <2>1 DEF DcSteps, DcTaken
  <2>. QED  BY <1>1, <1>3, <2>1, <2>2 DEF DcInv, DcRowsKept, d
<1>. QED  BY <1>4, <1>5

LEMMA DcSaveSelection ==
  ASSUME DcInv, DataCenter!SaveSelection
  PROVE  DcInv'
<1>. DEFINE c == DataCenter!Current  s == dcStep  i == DataCenter!WithId
            d == [c EXCEPT !.id = i, !.server = s.server, !.keys = s.keys]
            gone == DataCenter!Dropped(s.previous, s.server, s.keys)
<1>1. /\ s.at = "select" /\ dcState' = d /\ DataCenter!PurgeOr(gone)
      /\ UNCHANGED <<dcRows, server>>
      /\ dcHistory' = [dcHistory EXCEPT !.ids = @ + IF c.id = 0 THEN 1 ELSE 0]
  BY DEF DataCenter!SaveSelection, DataCenter!Store
<1>2. /\ dcHistory \in DcHistories /\ s \in DcSteps /\ server \in Sites
      /\ Named(c) /\ DcTaken(s, c) /\ dcState \in DcStates \cup {None}
  BY DEF DcInv
<1>3. c \in DcStates /\ c.id \in Nat /\ c.server \in Sites \cup {None} /\ c.keys \in SUBSET DcKeys
  BY <1>2, DcCurrent DEF DcStates
<1>4. s.keys \in SUBSET DcKeys /\ s.server \in Sites \cup {None}
  BY <1>1, <1>2, DcShape DEF DcSelecting
<1>5. dcHistory' \in DcHistories /\ dcHistory'.unpurged = dcHistory.unpurged
  BY <1>1, <1>2, <1>3 DEF DcHistories
<1>6. i \in Nat /\ i # 0 /\ (c.id # 0 => i = c.id)
  BY <1>2, <1>3 DEF DataCenter!WithId, DcHistories
<1>7. /\ SameScope(s.previous, c)
      /\ IF s.keys = {} THEN s.server = c.server ELSE s.server # None
  BY <1>1, <1>2 DEF DcTaken
<1>8. gone = {r \in dcRows : /\ r.id = c.id /\ c.server # None
                             /\ \/ s.server # None /\ c.server # s.server
                                \/ r.server = c.server /\ r.key \in c.keys \ s.keys}
  BY <1>7 DEF DataCenter!Dropped, SameScope
<1>. HIDE DEF c, i, gone
<1>9. d \in DcStates /\ d.id = i /\ d.server = s.server /\ d.keys = s.keys
  BY <1>3, <1>4, <1>6 DEF DcStates
<1>. HIDE DEF d
<1>10. DataCenter!Current' = d
  BY <1>1, <1>9, DcCurrentNext, DcNone
<1>11. Named(d)
  BY <1>6, <1>7, <1>9 DEF Named
<1>12. gone \in SUBSET dcRows
  BY <1>8
<1>13. ASSUME NEW r \in dcRows \ gone, OfState(r, c)
       PROVE  OfState(r, d)
  <2>1. /\ r.id = c.id /\ r.server = c.server /\ r.key \in c.keys
        /\ c.id # 0 /\ c.server # None
    BY <1>2, <1>13 DEF OfState, Named
  <2>2. ~(s.server # None /\ c.server # s.server) /\ r.key \in s.keys
    BY <1>8, <1>13, <2>1
  <2>3. s.server = c.server
    BY <1>7, <2>2
  <2>. QED  BY <1>6, <1>9, <2>1, <2>2, <2>3 DEF OfState
<1>. QED  BY <1>1, <1>2, <1>5, <1>9, <1>10, <1>11, <1>12, <1>13, DcRescope DEF c

LEMMA DcSyncStarts ==
  ASSUME DcInv, DataCenter!SyncStarts
  PROVE  DcInv'
<1>. DEFINE c == DataCenter!Current
<1>1. /\ DataCenter!Started /\ UNCHANGED <<dcRows, server>> /\ dcStep = DataCenter!Idle
      /\ dcState # None /\ c.keys # {}
  BY DEF DataCenter!SyncStarts, DataCenter!MayStart
<1>2. /\ dcState \in DcStates /\ dcState \in DcStates \cup {None} /\ dcHistory \in DcHistories
      /\ server \in Sites /\ dcStep \in DcSteps
  BY <1>1 DEF DcInv
<1>3. dcStep.at # "purge" /\ c = dcState
  BY <1>1, <1>2, DcShape, DcCurrent
<1>4. CASE ~tokenOk
  <2>1. DataCenter!Refusal /\ dcStep' = dcStep
    BY <1>4 DEF DataCenter!SyncStarts
  <2>. QED  BY <1>1, <1>2, <2>1, DcAnswered, DcCounts, DcStay
<1>5. CASE tokenOk /\ dcState.server # server
  <2>. DEFINE d == [dcState EXCEPT !.server = server, !.keys = {}, !.rejected = FALSE]
              gone == {r \in dcRows : r.id = dcState.id}
  <2>1. dcState' = d /\ DataCenter!PurgeOr(gone)
    BY <1>5 DEF DataCenter!SyncStarts, DataCenter!Store
  <2>2. d \in DcStates /\ d.keys = {}
    BY <1>2 DEF DcStates
  <2>3. gone \in SUBSET dcRows /\ \A r \in dcRows \ gone : ~OfState(r, c)
    BY <1>3 DEF OfState
  <2>. HIDE DEF d, gone, c
  <2>4. DataCenter!Current' = d /\ Named(d)
    BY <2>1, <2>2, DcCurrentNext, DcNone DEF Named
  <2>. QED  BY <1>1, <1>2, <1>3, <2>1, <2>2, <2>3, <2>4, DcCounts, DcRescope DEF c
<1>6. CASE tokenOk /\ dcState.server = server
  <2>. DEFINE s == [at |-> "sync", taken |-> dcState]
  <2>1. DataCenter!Store(DataCenter!Accepted) /\ dcStep' = s
    BY <1>6 DEF DataCenter!SyncStarts
  <2>2. s \in DcSteps /\ s.at # "purge"
    BY <1>2 DEF DcSteps, DcSyncing
  <2>3. DcTaken(s, c)
    BY <1>1, <1>3 DEF DcTaken, SameScope
  <2>. HIDE DEF s
  <2>. QED  BY <1>1, <1>2, <1>3, <2>1, <2>2, <2>3, DcAnswered, DcCounts, DcStay
<1>. QED  BY <1>4, <1>5, <1>6

LEMMA DcSyncRuns ==
  ASSUME DcInv, DataCenter!SyncRuns
  PROVE  DcInv'
<1>. DEFINE c == DataCenter!Current  d == DataCenter!Current'  t == dcStep.taken
<1>1. /\ dcStep.at = "sync" /\ dcStep' = DcIdle /\ UNCHANGED <<server, dcHistory>>
      /\ DataCenter!Refusal \/ DataCenter!Store(DataCenter!Accepted)
  BY DEF DataCenter!SyncRuns, DataCenter!Idle, DcIdle
<1>2. /\ dcState \in DcStates \cup {None} /\ dcHistory \in DcHistories /\ server \in Sites
      /\ dcStep \in DcSteps /\ dcRows \subseteq DcDocs /\ DcTaken(dcStep, c) /\ Named(c)
      /\ ~dcHistory.unpurged => DcRowsKept(dcRows, dcStep, c)
  BY DEF DcInv
<1>3. dcState' \in DcStates \cup {None} /\ d.id = c.id /\ d.server = c.server /\ d.keys = c.keys
  BY <1>1, <1>2, DcAnswered DEF SameScope
<1>4. dcStep' \in DcSteps /\ dcStep'.at = "idle" /\ DcTaken(dcStep', DataCenter!Current)
  BY <1>1, DcIdleIs
<1>5. CASE ~tokenOk
  <2>1. dcRows' = dcRows
    BY <1>5 DEF DataCenter!SyncRuns
  <2>2. SameScope(DataCenter!Current', DataCenter!Current)
    BY <1>3 DEF SameScope
  <2>. QED  BY <1>1, <1>2, <1>3, <1>4, <2>1, <2>2, DcStay
<1>6. CASE tokenOk
  <2>1. dcRows' = {r \in dcRows : r.id # t.id \/ r.server # t.server}
                    \cup {DataCenter!Row(t.id, t.server, k) : k \in t.keys}
    BY <1>6 DEF DataCenter!SyncRuns
  <2>2. t \in DcStates /\ t.id = c.id /\ t.server = c.server /\ t.keys = c.keys
    BY <1>1, <1>2, DcShape DEF DcTaken, SameScope, DcSyncing
  <2>3. \A k \in t.keys : /\ DataCenter!Row(t.id, t.server, k) \in DcDocs
                          /\ OfState(DataCenter!Row(t.id, t.server, k), c)
    BY <2>2 DEF DataCenter!Row, DcDocs, OfState, DcStates
  <2>4. dcRows' \subseteq DcDocs
    BY <1>2, <2>1, <2>3
  <2>5. ~dcHistory.unpurged => \A r \in dcRows' : OfState(r, c)
    <3>1. ~dcHistory.unpurged => \A r \in dcRows : OfState(r, c)
      BY <1>1, <1>2 DEF DcRowsKept
    <3>2. ~dcHistory.unpurged => \A r \in dcRows : ~(r.id # t.id \/ r.server # t.server)
      BY <2>2, <3>1 DEF OfState
    <3>. QED  BY <2>1, <2>3, <3>2
  <2>. HIDE DEF c, d
  <2>6. Named(d) /\ DcTaken(dcStep', d) /\ (~dcHistory'.unpurged => DcRowsKept(dcRows', dcStep', d))
    BY <1>1, <1>2, <1>3, <1>4, <2>5, DcIdleIs DEF Named, DcRowsKept, OfState
  <2>. QED  BY <1>1, <1>2, <1>3, <1>4, <2>4, <2>6 DEF DcInv, d
<1>. QED  BY <1>5, <1>6

LEMMA DcSyncFails ==
  ASSUME DcInv, DataCenter!SyncFails
  PROVE  DcInv'
<1>1. /\ dcStep.at = "sync" /\ dcStep' = DcIdle /\ UNCHANGED <<dcState, dcRows, server>>
      /\ DataCenter!Trouble
  BY DEF DataCenter!SyncFails, DataCenter!Idle, DcIdle
<1>2. dcState \in DcStates \cup {None} /\ dcHistory \in DcHistories /\ server \in Sites
  BY DEF DcInv
<1>3. dcStep' \in DcSteps /\ dcStep'.at # "purge" /\ DcTaken(dcStep', DataCenter!Current)
  BY <1>1, DcIdleIs
<1>4. SameScope(DataCenter!Current', DataCenter!Current)
  BY <1>1, <1>2, DcSame DEF SameScope
<1>. QED  BY <1>1, <1>2, <1>3, <1>4, DcCounts, DcStay

LEMMA DcDisconnect ==
  ASSUME DcInv, DataCenter!Disconnect
  PROVE  DcInv'
<1>. DEFINE gone == {r \in dcRows : r.id = dcState.id}
<1>1. /\ DataCenter!Started /\ UNCHANGED <<dcRows, server>> /\ dcStep = DataCenter!Idle
      /\ dcState # None /\ dcState' = None /\ DataCenter!PurgeOr(gone)
  BY DEF DataCenter!Disconnect, DataCenter!MayStart, DataCenter!Store
<1>2. /\ dcState \in DcStates \cup {None} /\ dcHistory \in DcHistories /\ server \in Sites
      /\ dcStep \in DcSteps
  BY DEF DcInv
<1>3. dcStep.at # "purge" /\ DataCenter!Current = dcState
  BY <1>1, <1>2, DcShape, DcCurrent
<1>4. gone \in SUBSET dcRows /\ \A r \in dcRows \ gone : ~OfState(r, DataCenter!Current)
  BY <1>3 DEF OfState
<1>5. Named(DataCenter!Current')
  BY <1>1, DcCurrentNext DEF Named
<1>. HIDE DEF gone
<1>. QED  BY <1>1, <1>2, <1>3, <1>4, <1>5, DcCounts, DcRescope

\* The end of a purge.
LEMMA DcPurges ==
  ASSUME DcInv, DataCenter!PurgeRows \/ DataCenter!PurgeFails
  PROVE  DcInv'
<1>. DEFINE c == DataCenter!Current
<1>1. /\ dcStep.at = "purge" /\ dcStep' = DcIdle /\ UNCHANGED <<dcState, server>>
  BY DEF DataCenter!PurgeRows, DataCenter!PurgeFails, DataCenter!Idle, DcIdle
<1>2. /\ dcState \in DcStates \cup {None} /\ dcHistory \in DcHistories /\ server \in Sites
      /\ dcRows \subseteq DcDocs /\ Named(c)
      /\ ~dcHistory.unpurged => DcRowsKept(dcRows, dcStep, c)
  BY DEF DcInv
<1>3. /\ dcRows' \subseteq dcRows /\ dcHistory' \in DcHistories
      /\ ~dcHistory'.unpurged => ~dcHistory.unpurged /\ dcRows' = dcRows \ dcStep.rows
  <2>1. CASE DataCenter!PurgeRows
    BY <1>2, <2>1 DEF DataCenter!PurgeRows
  <2>2. CASE DataCenter!PurgeFails
    <3>. DEFINE yes == TRUE  h == [dcHistory EXCEPT !.troubles = dcHistory.troubles + 1]
    <3>3. dcHistory' = [h EXCEPT !.unpurged = yes] /\ yes \in BOOLEAN
      BY <2>2 DEF DataCenter!PurgeFails
    <3>4. h \in DcHistories
      BY <1>2 DEF DcHistories
    <3>. HIDE DEF yes, h
    <3>5. dcHistory' \in DcHistories /\ dcHistory'.unpurged = yes
      BY <3>3, <3>4 DEF DcHistories
    <3>1. dcHistory' \in DcHistories /\ dcHistory'.unpurged
      BY <3>5 DEF yes
    <3>2. PICK kept \in SUBSET dcStep.rows : dcRows' = dcRows \ (dcStep.rows \ kept)
      BY <2>2 DEF DataCenter!PurgeFails
    <3>. QED  BY <3>1, <3>2
  <2>. QED  BY <2>1, <2>2
<1>4. dcStep' \in DcSteps /\ dcStep'.at = "idle" /\ DcTaken(dcStep', c)
  BY <1>1, DcIdleIs
<1>5. ~dcHistory'.unpurged => DcRowsKept(dcRows', dcStep', c)
  BY <1>1, <1>2, <1>3 DEF DcRowsKept
<1>6. DataCenter!Current' = c
  BY <1>1, <1>2, DcSame
<1>. HIDE DEF c
<1>. QED  BY <1>1, <1>2, <1>3, <1>4, <1>5, <1>6 DEF DcInv

LEMMA DcWorld ==
  ASSUME DcInv, DataCenter!ServerChanges \/ DataCenter!TokenChanges
  PROVE  DcInv'
<1>1. UNCHANGED <<dcState, dcStep, dcRows, dcHistory>> /\ server' \in Sites
  BY DEF DcInv, DataCenter!ServerChanges, DataCenter!TokenChanges
<1>2. dcState \in DcStates \cup {None} /\ dcHistory \in DcHistories
  BY DEF DcInv
<1>3. SameScope(DataCenter!Current', DataCenter!Current)
  BY <1>1, <1>2, DcSame DEF SameScope
<1>. QED  BY <1>1, <1>2, <1>3, DcStay

LEMMA DcInit == DataCenter!Init => DcInv
<1>. SUFFICES ASSUME DataCenter!Init PROVE DcInv
  OBVIOUS
<1>1. /\ dcState = None /\ dcStep = DcIdle /\ dcRows = {} /\ server \in Sites
      /\ dcHistory = [started |-> 0, troubles |-> 0, ids |-> 0, unpurged |-> FALSE]
  BY DEF DataCenter!Init, DataCenter!Idle, DcIdle
<1>2. dcStep \in DcSteps /\ DcTaken(dcStep, DataCenter!Current)
  BY <1>1, DcIdleIs
<1>3. Named(DataCenter!Current)
  BY <1>1, DcCurrent DEF Named
<1>. QED  BY <1>1, <1>2, <1>3 DEF DcInv, DcHistories, DcRowsKept

LEMMA DcPreserved == DcInv /\ DataCenter!Next => DcInv'
BY DcListProjects, DcPutSelection, DcSaveSelection, DcSyncStarts, DcSyncRuns, DcSyncFails,
   DcDisconnect, DcPurges, DcWorld DEF DataCenter!Next

LEMMA DcRowsOfServer == DcInv => DataCenter!RowsOfServer
<1>. SUFFICES ASSUME DcInv, dcStep = DataCenter!Idle, ~dcHistory.unpurged, NEW r \in dcRows
              PROVE  /\ dcState # None /\ r.id = dcState.id
                     /\ r.server = dcState.server /\ r.key \in dcState.keys
  BY DEF DataCenter!RowsOfServer
<1>1. dcStep.at = "idle"
  BY DcShape DEF DcInv
<1>2. OfState(r, DataCenter!Current) /\ dcState \in DcStates \cup {None}
  BY <1>1 DEF DcInv, DcRowsKept
<1>. QED  BY <1>2, DcCurrent DEF OfState

-----------------------------------------------------------------------------
(* The hub: whichever connection moves, it moves as its own module says,   *)
(* and the others stay.                                                    *)

LEMMA HubIsJira == HubSpec => Spec
<1>1. HubInit => Init
  BY DEF HubInit
<1>2. [HubNext]_<<which, vars, ghVars, dcVars, drVars>> => [Next]_vars
  BY DEF HubNext
<1>. QED  BY <1>1, <1>2, PTL DEF HubSpec, Spec

LEMMA HubIsGitHub == HubSpec => []GhInv
<1>1. HubInit => GhInv
  BY GhInit DEF HubInit
<1>2. GhInv /\ [HubNext]_<<which, vars, ghVars, dcVars, drVars>> => GhInv'
  <2>1. ASSUME GhInv, UNCHANGED ghVars PROVE GhInv'
    BY <2>1, GhReads, GhUnmoved DEF ghVars
  <2>. QED  BY <2>1, GhPreserved DEF HubNext
<1>. QED  BY <1>1, <1>2, PTL DEF HubSpec

LEMMA HubIsDrive == HubSpec => []DrInv
<1>1. HubInit => DrInv
  BY DrInit DEF HubInit
<1>2. DrInv /\ [HubNext]_<<which, vars, ghVars, dcVars, drVars>> => DrInv'
  <2>1. ASSUME DrInv, UNCHANGED drVars PROVE DrInv'
    BY <2>1 DEF drVars, DrInv
  <2>. QED  BY <2>1, DrPreserved DEF HubNext
<1>. QED  BY <1>1, <1>2, PTL DEF HubSpec

(* A server is known only where Data Center is the connection that moves.  *)
DcHub == IF which = "dc" THEN DcInv ELSE dcRows = {}

LEMMA HubIsDataCenter == HubSpec => []DcHub
<1>1. HubInit => DcHub
  BY DcInit DEF HubInit, DcHub
<1>2. DcHub /\ [HubNext]_<<which, vars, ghVars, dcVars, drVars>> => DcHub'
  <2>. SUFFICES ASSUME DcHub, [HubNext]_<<which, vars, ghVars, dcVars, drVars>>
                PROVE  DcHub'
    OBVIOUS
  <2>1. ASSUME UNCHANGED <<which, dcVars>> PROVE DcHub'
    <3>1. DcInv => DcInv'
      BY <2>1 DEF dcVars, DcInv, DataCenter!Current, DataCenter!Blank
    <3>. QED  BY <2>1, <3>1 DEF dcVars, DcHub
  <2>2. CASE which = "dc" /\ DataCenter!Next /\ UNCHANGED which
    BY <2>2, DcPreserved DEF DcHub
  <2>. QED  BY <2>1, <2>2 DEF HubNext
<1>. QED  BY <1>1, <1>2, PTL DEF HubSpec

\* No document outlives the choice it came from: with no change under way and
\* no purge that failed, the rows of each of the four connections are of its
\* stored record, of its server and of its selection (composition/jira/cloud.py
\* _purge_jira_docs, jira/data_center.py, composition/github/selection.py
\* purge_github_connector_docs, composition/google_drive/selection.py).
THEOREM RowsHaveAccount == HubSpec => []RowsAccounted
<1>1. Spec => []RowsOwned
  BY RowsHaveOwner
<1>2. RowsOwned /\ GhInv /\ DrInv /\ DcHub => RowsAccounted
  <2>1. DcHub => DataCenter!RowsOfServer
    BY DcRowsOfServer DEF DcHub, DataCenter!RowsOfServer
  <2>. QED  BY <2>1, GhScope, DrScope DEF RowsAccounted
<1>. QED  BY <1>1, <1>2, HubIsJira, HubIsGitHub, HubIsDrive, HubIsDataCenter, PTL

\* What is selected is on the selected site, or can be read by the connected
\* account, whatever was connected, selected and reconnected before
\* (composition/jira/cloud.py complete_jira_oauth, composition/google_drive/connection.py).
THEOREM ScopeIsOfAccount == HubSpec => []ScopeOfAccount
<1>1. Spec => []SelectionOnSite
  BY SelectedOnSite
<1>2. SelectionOnSite /\ DrInv => ScopeOfAccount
  BY DrScope DEF ScopeOfAccount
<1>. QED  BY <1>1, <1>2, HubIsJira, HubIsDrive, PTL
=============================================================================
