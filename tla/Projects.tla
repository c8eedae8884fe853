------------------------------ MODULE Projects ------------------------------
(***************************************************************************)
(* Projects, the source scopes associated with them and the components     *)
(* those scopes' directories belong to (src/application/project,           *)
(* src/infrastructure/project/sql_store.py).  Every write is one immediate *)
(* transaction and names the version of each record it changes, which its  *)
(* author has read some time before; so every operation is one step, and   *)
(* the only thing that can be old is what somebody has read.  Directories  *)
(* of a scope are nested, 0 the whole scope; roles, names and evidence are *)
(* left out, and with them the checks of a request that read nothing else. *)
(***************************************************************************)
EXTENDS Naturals, FiniteSets, Functions

CONSTANTS Projects, Scopes,
          Forming,       \* scopes of a kind that forms components
          MaxDepth,      \* directories are 0..MaxDepth
          MaxVersion, MaxComponents,
          MaxRetired     \* how many associations are ever removed

ASSUME ProjectsAssumption == MaxDepth \in Nat /\ MaxVersion \in Nat /\ MaxComponents \in Nat

VARIABLES projects,      \* those that were created
          associations,  \* (project, scope) to its association
          retired,       \* (project, scope) to the version it had when removed
          components,    \* ids to components
          ids,           \* how many component ids have been given out
          view           \* a record somebody has read

projectVars == <<projects, associations, retired, components, ids, view>>

ProjectsInit ==
  /\ projects = {} /\ associations = <<>> /\ retired = <<>>
  /\ components = <<>> /\ ids = 0 /\ view = [kind |-> "none"]

\* The records with one of them written.
Put(f, k, record) == [x \in DOMAIN f \union {k} |-> IF x = k THEN record ELSE f[x]]

\* A project_id that is taken, or a slug, is refused.
Created(p) == projects \union {p}

CreateProject(p) ==
  /\ p \notin projects
  /\ projects' = Created(p)
  /\ UNCHANGED <<associations, retired, components, ids, view>>

\* GET of a project shows each record with its version; one is kept.
Read ==
  /\ view.kind = "none"
  /\ \/ \E k \in DOMAIN associations :
          view' = [kind |-> "association", key |-> k, record |-> associations[k]]
     \/ \E c \in DOMAIN components :
          view' = [kind |-> "component", key |-> c, record |-> components[c]]
  /\ UNCHANGED <<projects, associations, retired, components, ids>>

-----------------------------------------------------------------------------
(* Associations.  acknowledged is what the caller says it knows to share   *)
(* the scope; it is not stored.  The record keeps whom it named rightly,   *)
(* which only properties read.                                             *)

Confirmed(p, s) ==
  <<p, s>> \in DOMAIN associations /\ associations[<<p, s>>].state = "confirmed"
Sharing(p, s) == {q \in projects \ {p} : Confirmed(q, s)}

Association(state, version, acknowledged) ==
  [state |-> state, version |-> version, acknowledged |-> acknowledged]

\* A scope that was removed goes on counting where it stopped.
Retired(p, s) == IF <<p, s>> \in DOMAIN retired THEN retired[<<p, s>>] ELSE 0
FirstVersion_One(p, s) == 1
FirstVersion(p, s) == Retired(p, s) + 1

Associated(p, s, state, acknowledged) ==
  Put(associations, <<p, s>>, Association(state, FirstVersion(p, s), acknowledged))
Replaced(p, s, state, acknowledged) ==
  [associations EXCEPT
     ![<<p, s>>] = Association(state, associations[<<p, s>>].version + 1, acknowledged)]
Removed(p, s) == Restrict(associations, DOMAIN associations \ {<<p, s>>})

Component(p, members, version) == [project |-> p, members |-> members, version |-> version]
Added(f, p, members) == Put(f, ids + 1, Component(p, members, 1))
OfProject(p) == {c \in DOMAIN components : components[c].project = p}

\* ensure_default_component: the whole scope, unless some part of it is placed.
EnsureDefault(p, s) ==
  IF /\ s \in Forming
     /\ \A c \in OfProject(p) : \A m \in components[c].members : m[1] # s
  THEN /\ ids < MaxComponents
       /\ ids' = ids + 1
       /\ components' = Added(components, p, {<<s, 0>>})
  ELSE UNCHANGED <<components, ids>>

AssociateSource(p, s, acknowledged) ==
  /\ p \in projects /\ <<p, s>> \notin DOMAIN associations
  /\ Sharing(p, s) \subseteq acknowledged
  /\ FirstVersion(p, s) <= MaxVersion
  /\ associations' =
       Associated(p, s, "confirmed", acknowledged \intersect Sharing(p, s))
  /\ EnsureDefault(p, s)
  /\ UNCHANGED <<projects, retired, view>>

\* From a suggestion; nothing makes an association rejected.
ConfirmAssociation(p, s, expected, acknowledged) ==
  /\ <<p, s>> \in DOMAIN associations
  /\ associations[<<p, s>>].version = expected /\ expected < MaxVersion
  /\ associations[<<p, s>>].state = "suggested"
  /\ Sharing(p, s) \subseteq acknowledged
  /\ associations' = Replaced(p, s, "confirmed", acknowledged \intersect Sharing(p, s))
  /\ EnsureDefault(p, s)
  /\ UNCHANGED <<projects, retired, view>>

\* remove_scope_members: the scope leaves its components, empty ones go.
WithoutScope(p, s) ==
  LET left(c) == {m \in components[c].members : m[1] # s}
      gone    == {c \in OfProject(p) : left(c) = {}} IN
  [c \in DOMAIN components \ gone |->
     IF c \in OfProject(p) /\ left(c) # components[c].members
     THEN Component(p, left(c), components[c].version + 1)
     ELSE components[c]]

RemoveAssociation(p, s, expected) ==
  /\ <<p, s>> \in DOMAIN associations
  /\ associations[<<p, s>>].version = expected
  /\ Cardinality(DOMAIN retired \union {<<p, s>>}) <= MaxRetired
  /\ associations' = Removed(p, s)
  /\ retired' = Put(retired, <<p, s>>, expected)
  /\ components' = WithoutScope(p, s)
  /\ UNCHANGED <<projects, ids, view>>

\* Evidence links scopes; a confirmed scope suggests those it links to.
SuggestAssociations(links) ==
  LET new == {k \in projects \X Scopes :
                /\ k \notin DOMAIN associations
                /\ \E link \in links : link[2] = k[2] /\ Confirmed(k[1], link[1])} IN
  /\ new # {} /\ \A k \in new : FirstVersion(k[1], k[2]) <= MaxVersion
  /\ associations' =
       [k \in new \union DOMAIN associations |->
          IF k \in new THEN Association("suggested", FirstVersion(k[1], k[2]), {})
          ELSE associations[k]]
  /\ UNCHANGED <<projects, retired, components, ids, view>>

-----------------------------------------------------------------------------
(* Components.                                                             *)

At(c, version) == c \in DOMAIN components /\ components[c].version = version
Owners(p, m) == {c \in OfProject(p) : m \in components[c].members}
Updated(f, c, members) ==
  Put(f, c, Component(components[c].project, members, components[c].version + 1))
Deleted(cs) == Restrict(components, DOMAIN components \ cs)

\* A member moves from its owner, which must be named with its version.
AssignComponent(c, expected, m, source, sourceExpected) ==
  LET p == components[c].project  owners == Owners(p, m)
      left == components[source].members \ {m} IN
  /\ At(c, expected)
  /\ <<p, m[1]>> \in DOMAIN associations
  /\ c \notin owners
  /\ owners # {} => source \in owners /\ At(source, sourceExpected)
  /\ components' =
       Updated(IF owners = {} THEN components
               ELSE IF left = {} THEN Deleted({source})
               ELSE Updated(components, source, left),
               c, components[c].members \union {m})
  /\ UNCHANGED <<projects, associations, retired, ids, view>>

\* A directory under one of the members, that no component has, by itself.
SplitComponent(c, expected, s, depth) ==
  /\ At(c, expected)
  /\ \E d \in 0..depth - 1 : <<s, d>> \in components[c].members
  /\ Owners(components[c].project, <<s, depth>>) = {}
  /\ ids < MaxComponents
  /\ ids' = ids + 1
  /\ components' =
       Added(Updated(components, c, components[c].members),
             components[c].project, {<<s, depth>>})
  /\ UNCHANGED <<projects, associations, retired, view>>

\* All into the first; every one at the version its author has read.
MergeComponents(first, cs, expected) ==
  /\ first \in cs /\ cs \subseteq OfProject(components[first].project)
  /\ Cardinality(cs) >= 2
  /\ \A c \in cs : At(c, expected[c])
  /\ components' =
       Updated(Deleted(cs), first, UNION {components[c].members : c \in cs})
  /\ UNCHANGED <<projects, associations, retired, ids, view>>

\* _resolve_in_project: a document belongs to the component with the deepest
\* directory over its own, the document's being d.
Above(c, s, d) == {m[2] : m \in {k \in components[c].members : k[1] = s /\ k[2] <= d}}
Resolved(p, s, d) ==
  LET depths == UNION {Above(c, s, d) : c \in OfProject(p)} IN
  {c \in OfProject(p) : \E depth \in Above(c, s, d) : \A e \in depths : e <= depth}

ProjectsNext ==
  \/ \E p \in Projects : CreateProject(p)
  \/ Read
  \/ \E p \in Projects, s \in Scopes : \E acknowledged \in SUBSET (Projects \ {p}) :
       \/ AssociateSource(p, s, acknowledged)
       \/ \E v \in 1..MaxVersion : ConfirmAssociation(p, s, v, acknowledged)
  \/ \E p \in Projects, s \in Scopes, v \in 1..MaxVersion : RemoveAssociation(p, s, v)
  \/ \E links \in SUBSET (Scopes \X Scopes) : SuggestAssociations(links)
  \/ \E c \in {k \in DOMAIN components : components[k].version < MaxVersion},
        v \in 1..MaxVersion :
       \/ \E m \in Scopes \X (0..MaxDepth), source \in DOMAIN components,
             w \in 1..MaxVersion : AssignComponent(c, v, m, source, w)
       \/ \E s \in Scopes, d \in 1..MaxDepth : SplitComponent(c, v, s, d)
  \/ \E cs \in SUBSET DOMAIN components : \E first \in cs :
       /\ components[first].version < MaxVersion
       /\ MergeComponents(first, cs, [c \in cs |-> components[c].version])

ProjectsSpec == ProjectsInit /\ [][ProjectsNext]_projectVars

-----------------------------------------------------------------------------
(* A request that names the version somebody has read finds exactly what   *)
(* was read, or fails: no version of an association or a component comes   *)
(* back after it was changed, removed and made again (retired versions).   *)
AsRead(f) ==
  view.key \in DOMAIN f /\ f[view.key].version = view.record.version =>
    f[view.key] = view.record
ViewsHonest ==
  /\ view.kind = "association" => AsRead(associations)
  /\ view.kind = "component" => AsRead(components)

(* Of two projects that have confirmed one scope, the later one knew of    *)
(* the earlier one (require_shared_acknowledgement).                       *)
SharingKnown ==
  \A p \in projects, s \in Scopes : \A q \in Sharing(p, s) :
    Confirmed(p, s) => \/ q \in associations[<<p, s>>].acknowledged
                       \/ p \in associations[<<q, s>>].acknowledged

(* A document of a confirmed scope resolves to one component of each       *)
(* project at most, and to one if the scope's kind forms components and    *)
(* the document lies below every placed directory; every placed scope is   *)
(* associated, and no component is empty.                                  *)
PlacedOnce ==
  /\ \A c \in DOMAIN components : components[c].members # {}
  /\ \A c \in DOMAIN components : \A m \in components[c].members :
       <<components[c].project, m[1]>> \in DOMAIN associations
  /\ \A p \in projects, s \in Scopes : Confirmed(p, s) =>
       /\ \A d \in 0..MaxDepth : Cardinality(Resolved(p, s, d)) <= 1
       /\ s \in Forming => Resolved(p, s, MaxDepth) # {}

(* What the operators of a workspace may rely on, above.                   *)
OperatorsAgree == ViewsHonest /\ SharingKnown /\ PlacedOnce
=============================================================================
