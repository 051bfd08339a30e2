----------------------------- MODULE FeatureModel -----------------------------
(***************************************************************************)
(* The data structure every other component works on: the features and     *)
(* relationships a vara::feature::FeatureModel owns, the parent pointer    *)
(* and the edge set of every FeatureTreeNode, the root pointer, and the    *)
(* feature pointers its constraints hold.                                  *)
(*                                                                         *)
(* The module has no variables.  A model is a record, so that the same     *)
(* operators serve the model a ModifyTransaction writes to and the private *)
(* copy of a CopyTransaction.  Nodes are object identities: a node that is *)
(* not in `features' or `relationships' has been freed (or was never       *)
(* inserted).  An edge, a parent or a binding that names a freed node is a *)
(* dangling pointer; a node that waits to be inserted is alive already, so *)
(* operators that follow pointers are told what is alive.                  *)
(***************************************************************************)
EXTENDS Integers, FiniteSets

CONSTANTS
  Feature,        \* Feature objects that can be allocated
  RootFeature,    \* those of them whose kind is FK_ROOT
  Relationship,   \* Relationship objects that can be allocated
  Constraint,     \* constraint objects that can be allocated
  Name,           \* feature names
  NameOf,         \* the name a Feature object was constructed with
  Mentions,       \* the feature names a constraint refers to
  Location,       \* source locations a feature can be given
  Text,           \* values of the model's name, path and commit, and of outputs
  Nil             \* the null pointer

Node == Feature \cup Relationship

ASSUME ConstantsAssumption ==
  /\ RootFeature \subseteq Feature
  /\ Feature \cap Relationship = {}
  /\ Name \cap Node = {}
  /\ Nil \notin Node \cup Name
  /\ NameOf \in [Feature -> Name]
  /\ Mentions \in [Constraint -> SUBSET Name]

InfoField == {"Name", "Path", "Commit"}

Model ==
  [ features      : SUBSET Feature,
    relationships : SUBSET Relationship,
    root          : Feature \cup {Nil},
    parent        : [Node -> Node \cup {Nil}],
    edges         : SUBSET (Node \X Node),
    constraints   : SUBSET Constraint,
    bound         : SUBSET (Constraint \X Feature),
    locations     : [Feature -> [Location -> Nat]],
    output        : [Feature -> Text \cup {Nil}],
    info          : [InfoField -> Text] ]

\* `output' is what a feature is constructed with and nobody changes: its output
\* string and the step function of its values.  These features have none.
NoOutput == [f \in Feature |-> Nil]

\* What the default constructor builds: a model that holds only its root.
NewModel(root, text) ==
  [ features      |-> {root},
    relationships |-> {},
    root          |-> root,
    parent        |-> [n \in Node |-> Nil],
    edges         |-> {},
    constraints   |-> {},
    bound         |-> {},
    locations     |-> [f \in Feature |-> [l \in Location |-> 0]],
    output        |-> NoOutput,
    info          |-> [i \in InfoField |-> text] ]

-------------------------------------------------------------------------------
(* Lookups and tree walks *)

Live(m) == m.features \cup m.relationships

\* FeatureModel::getFeature: the feature of that name, or null.
GetFeature(m, name) ==
  IF \E f \in m.features : NameOf[f] = name
  THEN CHOOSE f \in m.features : NameOf[f] = name
  ELSE Nil

\* A FeatureVariantTy or FeatureTreeNodeVariantTy: a name or a pointer.
Resolve(m, ref) == IF ref \in Name THEN GetFeature(m, ref) ELSE ref

Targets(m, S) == {c \in Node : \E p \in S : <<p, c>> \in m.edges}

\* The nodes of a kind that are reached from n through nodes of that kind only.
Through(m, n, Kind) ==
  {x \in Kind : \A S \in SUBSET Kind :
                  (Targets(m, {n} \cup S) \cap Kind \subseteq S) => x \in S}

\* getChildren<Feature> looks through relationships, and
\* getChildren<Relationship> looks through features.
FeatureChildren(m, n) ==
  Targets(m, {n} \cup Through(m, n, Relationship)) \cap Feature

RelationshipChildren(m, n) ==
  Targets(m, {n} \cup Through(m, n, Feature)) \cap Relationship

\* The walk of getChildren<T> reads every child of the nodes it looks through, all
\* of which have to be alive, and does not return when those nodes form a cycle.
WalkIsSafe(m, n, Kind, alive) ==
  LET visited == {n} \cup Through(m, n, Kind)
  IN  /\ Targets(m, visited) \subseteq alive
      /\ \A x \in visited : x \notin Through(m, x, Kind)

\* Feature::getParentFeature climbs over relationships to the next feature.
RelationshipsAbove(m, n) ==
  {r \in Relationship : \A S \in SUBSET Relationship :
     (\A x \in {n} \cup S : m.parent[x] \in Relationship => m.parent[x] \in S) => r \in S}

ParentFeature(m, f) ==
  CHOOSE p \in Feature \cup {Nil} :
    \E x \in {f} \cup RelationshipsAbove(m, f) : m.parent[x] = p

\* A feature and all features below it.
Subtree(m, f) ==
  {x \in Feature : \A S \in SUBSET Feature :
     (f \in S /\ \A y \in S : FeatureChildren(m, y) \subseteq S) => x \in S}

\* The node and everything below it.
Below(m, n) ==
  {x \in Node : \A S \in SUBSET Node :
     (n \in S /\ Targets(m, S) \subseteq S) => x \in S}

\* The relationships that hang directly below a set of features.
GroupsOf(m, F) == Targets(m, F) \cap Relationship

-------------------------------------------------------------------------------
(* detail::ConsistencyCheck, the only check a commit makes *)

ExactlyOneRootNode(m) ==
  /\ m.root \in RootFeature
  /\ \E f \in RootFeature : m.features \cap RootFeature = {f}

EveryFeatureRequiresParent(m) ==
  \A f \in m.features \ RootFeature : ParentFeature(m, f) # Nil

CheckFeatureParentChildRelationShip(m) ==
  \A f \in m.features \ RootFeature : <<m.parent[f], f>> \in m.edges

IsFeatureModelValid(m) ==
  /\ ExactlyOneRootNode(m)
  /\ EveryFeatureRequiresParent(m)
  /\ CheckFeatureParentChildRelationShip(m)

\* The rules read the root and follow parent pointers: the checker is only defined
\* when they name no freed node and the chain up to the parent feature is finite.
CheckIsSafe(m, alive) ==
  /\ m.root \in alive \cup {Nil}
  /\ ExactlyOneRootNode(m) =>
       \A f \in m.features \ RootFeature :
         \A x \in {f} \cup RelationshipsAbove(m, f) :
           /\ m.parent[x] \in alive \cup {Nil}
           /\ x \notin RelationshipsAbove(m, x)

-------------------------------------------------------------------------------
(* What makes a model a feature tree.  The check above is weaker. *)

\* Edges and parent pointers describe the same tree and never name a freed node.
EdgesMatchParents(m) ==
  /\ \A e \in m.edges : e[1] \in Live(m) /\ e[2] \in Live(m) /\ m.parent[e[2]] = e[1]
  /\ \A n \in Node : m.parent[n] # Nil => <<m.parent[n], n>> \in m.edges

\* Every node is reached from the root: there is no set of nodes, not even a
\* cycle, whose parents all lie in the set or are missing.
Rooted(m) ==
  /\ m.root \in m.features
  /\ m.parent[m.root] = Nil
  /\ \A S \in SUBSET (Live(m) \ {m.root}) :
       S # {} => \E n \in S : m.parent[n] \in Live(m) \ S

\* Groups hang below features, at most one below each.
GroupsWellPlaced(m) ==
  /\ \A r \in m.relationships : m.parent[r] \in m.features
  /\ \A r, q \in m.relationships : m.parent[r] = m.parent[q] => r = q

\* A name means one feature, and the root is the only RootFeature.
NamesIdentify(m) ==
  /\ \A f, g \in m.features : NameOf[f] = NameOf[g] => f = g
  /\ m.features \cap RootFeature = {m.root}

\* Constraints point at features of this model only.
ConstraintsBound(m) == m.bound \subseteq m.constraints \X m.features

WellFormed(m) ==
  /\ EdgesMatchParents(m)
  /\ Rooted(m)
  /\ GroupsWellPlaced(m)
  /\ NamesIdentify(m)
  /\ ConstraintsBound(m)

===============================================================================
