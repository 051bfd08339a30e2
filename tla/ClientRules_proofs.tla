-------------------------- MODULE ClientRules_proofs --------------------------
(***************************************************************************)
(* What the lookups and walks of FeatureModel return on a well-formed      *)
(* model, and what each modification does to any model.  On a well-formed  *)
(* model, a modification within the rules is defined, has one outcome      *)
(* only, and leaves a well-formed model, also when it fails.               *)
(***************************************************************************)
EXTENDS ClientRules, ModelCopy, TLAPS

\* The fields of a model.
LEMMA ModelFields ==
  ASSUME NEW m \in Model
  PROVE  /\ m.features \subseteq Feature
         /\ m.relationships \subseteq Relationship
         /\ m.root \in Feature \cup {Nil}
         /\ m.parent \in [Node -> Node \cup {Nil}]
         /\ m.edges \subseteq Node \X Node
         /\ m.constraints \subseteq Constraint
         /\ m.bound \subseteq Constraint \X Feature
         /\ m.locations \in [Feature -> [Location -> Nat]]
         /\ m.output \in [Feature -> Text \cup {Nil}]
         /\ m.info \in [InfoField -> Text]
         /\ Live(m) \subseteq Node
  BY DEF Model, Live, Node

\* The feature of a name, or null when the model has none of that name.
LEMMA GetFeatureFinds ==
  ASSUME NEW m \in Model, NEW name
  PROVE  /\ GetFeature(m, name) \in m.features \cup {Nil}
         /\ GetFeature(m, name) = Nil <=> \A f \in m.features : NameOf[f] # name
         /\ GetFeature(m, name) # Nil => NameOf[GetFeature(m, name)] = name
  <1>1. CASE \E f \in m.features : NameOf[f] = name
    <2>1. GetFeature(m, name) \in m.features /\ NameOf[GetFeature(m, name)] = name
      BY <1>1 DEF GetFeature
    <2>2. Nil \notin m.features
      BY ModelFields, ConstantsAssumption DEF Node
    <2> QED
      BY <1>1, <2>1, <2>2
  <1>2. CASE ~ \E f \in m.features : NameOf[f] = name
    BY <1>2 DEF GetFeature
  <1> QED
    BY <1>1, <1>2

\* A reference resolves to a feature of the model, to null, or to the pointer.
LEMMA ResolveType ==
  ASSUME NEW m \in Model, NEW X, NEW ref \in X \cup Name
  PROVE  Resolve(m, ref) \in X \cup m.features \cup {Nil}
  BY GetFeatureFinds DEF Resolve

-------------------------------------------------------------------------------
(* Edges of a well-formed model *)

\* Edges and parent pointers are the same relation, on nodes of the model.
LEMMA EdgeIsParent ==
  ASSUME NEW m \in Model, EdgesMatchParents(m), NEW p \in Node, NEW c \in Node
  PROVE  /\ <<p, c>> \in m.edges <=> m.parent[c] = p
         /\ m.parent[c] = p => p \in Live(m) /\ c \in Live(m)
  <1>1. ASSUME <<p, c>> \in m.edges PROVE m.parent[c] = p /\ p \in Live(m) /\ c \in Live(m)
    BY <1>1 DEF EdgesMatchParents
  <1>2. ASSUME m.parent[c] = p PROVE <<p, c>> \in m.edges
    BY <1>2, ConstantsAssumption DEF EdgesMatchParents
  <1> QED
    BY <1>1, <1>2

\* The targets of some nodes are the nodes whose parent is among them.
LEMMA TargetsAreChildren ==
  ASSUME NEW m \in Model, EdgesMatchParents(m), NEW S \in SUBSET Node
  PROVE  /\ Targets(m, S) = {c \in Node : m.parent[c] \in S}
         /\ Targets(m, S) \subseteq Live(m)
  <1>1. ASSUME NEW c \in Node PROVE c \in Targets(m, S) <=> m.parent[c] \in S
    <2>1. \A p \in S : <<p, c>> \in m.edges <=> m.parent[c] = p
      BY EdgeIsParent
    <2> QED
      BY <2>1 DEF Targets
  <1>2. ASSUME NEW c \in Targets(m, S) PROVE c \in Live(m)
    <2>1. c \in Node /\ m.parent[c] \in Node
      BY <1>1 DEF Targets
    <2> QED
      BY <2>1, EdgeIsParent
  <1> QED
    BY <1>1, <1>2 DEF Targets

\* Every node but the root has a parent in the model.
LEMMA ParentIsLive ==
  ASSUME NEW m \in Model, Rooted(m), NEW n \in Live(m) \ {m.root}
  PROVE  m.parent[n] \in Live(m)
  <1>1. {n} \in SUBSET (Live(m) \ {m.root}) /\ {n} # {}
    OBVIOUS
  <1>2. \E x \in {n} : m.parent[x] \in Live(m) \ {n}
    BY <1>1 DEF Rooted
  <1> QED
    BY <1>2

\* A node that is not in the model has no parent.
LEMMA NoParent ==
  ASSUME NEW m \in Model, EdgesMatchParents(m), NEW n \in Node, n \notin Live(m)
  PROVE  m.parent[n] = Nil
  <1>1. m.parent[n] \in Node \cup {Nil}
    BY ModelFields
  <1> QED
    BY <1>1, EdgeIsParent

-------------------------------------------------------------------------------
(* Walks on a well-formed model *)

\* What a walk reaches has a parent that the walk went through.
LEMMA ThroughHasParent ==
  ASSUME NEW m \in Model, EdgesMatchParents(m), NEW n \in Node,
         NEW Kind \in SUBSET Node, NEW x \in Through(m, n, Kind)
  PROVE  /\ x \in Kind
         /\ m.parent[x] \in {n} \cup Through(m, n, Kind)
  <1> DEFINE T == Through(m, n, Kind)
  <1>1. x \in Kind /\ T \subseteq Kind
    BY DEF Through
  <1>2. SUFFICES ASSUME m.parent[x] \notin {n} \cup T PROVE FALSE
    BY <1>1
  <1> DEFINE S == T \ {x}
  <1>3. Targets(m, {n} \cup S) \cap Kind \subseteq S
    <2> SUFFICES ASSUME NEW y \in Kind, y \in Targets(m, {n} \cup S) PROVE y \in S
      OBVIOUS
    <2>1. {n} \cup S \in SUBSET Node
      BY <1>1
    <2>2. m.parent[y] \in {n} \cup S
      BY <2>1, TargetsAreChildren
    <2>3. y # x
      BY <2>2, <1>2
    <2>4. y \in T
      <3> SUFFICES ASSUME NEW U \in SUBSET Kind, Targets(m, {n} \cup U) \cap Kind \subseteq U
                   PROVE  y \in U
        BY DEF Through
      <3>1. T \subseteq U
        BY DEF Through
      <3>2. m.parent[y] \in {n} \cup U /\ {n} \cup U \in SUBSET Node
        BY <2>2, <3>1
      <3> QED
        BY <3>2, TargetsAreChildren
    <2> QED
      BY <2>3, <2>4
  <1>4. S \in SUBSET Kind
    BY <1>1
  <1> QED
    BY <1>3, <1>4 DEF Through

\* There is no set of nodes in which everyone has its parent.
LEMMA NoCycle ==
  ASSUME NEW m \in Model, EdgesMatchParents(m), Rooted(m),
         NEW S \in SUBSET Node, S # {}
  PROVE  \E x \in S : m.parent[x] \notin S
  <1>1. SUFFICES ASSUME \A x \in S : m.parent[x] \in S PROVE FALSE
    OBVIOUS
  <1>2. S \subseteq Live(m)
    BY <1>1, EdgeIsParent
  <1>3. m.root \notin S
    BY <1>1, ConstantsAssumption DEF Rooted
  <1>4. \E n \in S : m.parent[n] \in Live(m) \ S
    BY <1>2, <1>3 DEF Rooted
  <1> QED
    BY <1>1, <1>4

\* Groups hang below features, so a walk that looks through relationships looks
\* through the node's own groups and no further.
LEMMA ThroughRelationships ==
  ASSUME NEW m \in Model, EdgesMatchParents(m), GroupsWellPlaced(m), NEW n \in Node
  PROVE  Through(m, n, Relationship) = {r \in Relationship : m.parent[r] = n}
  <1> DEFINE T == {r \in Relationship : m.parent[r] = n}
  <1>1. Relationship \subseteq Node
    BY DEF Node
  <1>2. ASSUME NEW r \in Relationship, m.parent[r] \in Node
        PROVE  m.parent[r] \in Feature /\ m.parent[r] \notin Relationship
    <2>1. r \in Live(m)
      BY <1>1, <1>2, EdgeIsParent
    <2>2. r \in m.relationships
      BY <2>1, ModelFields, ConstantsAssumption DEF Live
    <2> QED
      BY <2>2, ModelFields, ConstantsAssumption DEF GroupsWellPlaced
  <1>3. Targets(m, {n} \cup T) \cap Relationship \subseteq T
    <2>1. {n} \cup T \in SUBSET Node
      BY <1>1
    <2> QED
      BY <2>1, <1>1, <1>2, TargetsAreChildren
  <1>4. ASSUME NEW S \in SUBSET Relationship, Targets(m, {n} \cup S) \cap Relationship \subseteq S
        PROVE  T \subseteq S
    <2>1. {n} \cup S \in SUBSET Node
      BY <1>1
    <2> QED
      BY <2>1, <1>1, <1>4, TargetsAreChildren
  <1>5. T \subseteq Through(m, n, Relationship)
    BY <1>4 DEF Through
  <1>6. Through(m, n, Relationship) \subseteq T
    <2>1. T \in SUBSET Relationship
      OBVIOUS
    <2> HIDE DEF T
    <2> QED
      BY <1>3, <2>1 DEF Through
  <1> QED
    BY <1>5, <1>6

\* getChildren<Feature> gives the features below the node or below its groups.
LEMMA FeatureChildrenAre ==
  ASSUME NEW m \in Model, EdgesMatchParents(m), GroupsWellPlaced(m), NEW n \in Node
  PROVE  /\ FeatureChildren(m, n) =
              {x \in Feature : m.parent[x] = n \/
                               (m.parent[x] \in Relationship /\ m.parent[m.parent[x]] = n)}
         /\ FeatureChildren(m, n) \subseteq m.features
  <1> DEFINE R == {r \in Relationship : m.parent[r] = n}
  <1>1. Through(m, n, Relationship) = R
    BY ThroughRelationships
  <1>2. {n} \cup R \in SUBSET Node
    BY DEF Node
  <1>3. /\ Targets(m, {n} \cup R) = {c \in Node : m.parent[c] \in {n} \cup R}
        /\ Targets(m, {n} \cup R) \subseteq Live(m)
    <2> HIDE DEF R
    <2> QED
      BY <1>2, TargetsAreChildren
  <1>4. FeatureChildren(m, n) = Targets(m, {n} \cup R) \cap Feature
    BY <1>1 DEF FeatureChildren
  <1>5. Live(m) \cap Feature \subseteq m.features
    BY ModelFields, ConstantsAssumption DEF Live
  <1>6. Feature \subseteq Node
    BY DEF Node
  <1> QED
    BY <1>3, <1>4, <1>5, <1>6

\* What hangs below a relationship are features.
LEMMA GroupMembers ==
  ASSUME NEW m \in Model, EdgesMatchParents(m), GroupsWellPlaced(m), NEW r \in Relationship
  PROVE  /\ FeatureChildren(m, r) = {x \in Node : m.parent[x] = r}
         /\ FeatureChildren(m, r) \subseteq m.features
  <1>1. r \in Node /\ r \notin Feature
    BY ConstantsAssumption DEF Node
  <1>2. ASSUME NEW x \in Relationship, m.parent[x] \in Node PROVE m.parent[x] \in Feature
    <2>1. x \in Node /\ x \notin Feature
      BY ConstantsAssumption DEF Node
    <2>2. x \in Live(m)
      BY <1>2, <2>1, EdgeIsParent
    <2> QED
      BY <2>1, <2>2, ModelFields DEF Live, GroupsWellPlaced
  <1>3. \A x \in Relationship : m.parent[x] # r
    BY <1>1, <1>2
  <1> QED
    BY <1>1, <1>3, FeatureChildrenAre DEF Node

\* getChildren<Feature> ends, and reads no freed node.
LEMMA RelationshipWalkIsSafe ==
  ASSUME NEW m \in Model, EdgesMatchParents(m), GroupsWellPlaced(m), NEW n \in Node
  PROVE  WalkIsSafe(m, n, Relationship, Live(m))
  <1> DEFINE T == Through(m, n, Relationship)
  <1>1. {n} \cup T \in SUBSET Node
    BY DEF Through, Node
  <1>2. Targets(m, {n} \cup T) \subseteq Live(m)
    BY <1>1, TargetsAreChildren
  <1>3. ASSUME NEW x \in {n} \cup T PROVE x \notin Through(m, x, Relationship)
    <2>1. SUFFICES ASSUME x \in Relationship, m.parent[x] = x PROVE FALSE
      BY <1>1, ThroughRelationships
    <2>2. x \in Node /\ x \notin Feature
      BY <2>1, ConstantsAssumption DEF Node
    <2>3. x \in Live(m)
      BY <2>1, <2>2, EdgeIsParent
    <2> QED
      BY <2>1, <2>2, <2>3, ModelFields DEF Live, GroupsWellPlaced
  <1> QED
    BY <1>2, <1>3 DEF WalkIsSafe

\* getChildren<Relationship> does too: a rooted model has no cycle.
LEMMA FeatureWalkIsSafe ==
  ASSUME NEW m \in Model, EdgesMatchParents(m), Rooted(m), NEW n \in Node
  PROVE  WalkIsSafe(m, n, Feature, Live(m))
  <1>1. Feature \in SUBSET Node
    BY DEF Node
  <1>2. {n} \cup Through(m, n, Feature) \in SUBSET Node
    BY <1>1 DEF Through
  <1>3. Targets(m, {n} \cup Through(m, n, Feature)) \subseteq Live(m)
    BY <1>2, TargetsAreChildren
  <1>4. ASSUME NEW x \in Node, x \in Through(m, x, Feature) PROVE FALSE
    <2> DEFINE T == Through(m, x, Feature)
    <2>1. T \in SUBSET Node /\ T # {}
      BY <1>1, <1>4 DEF Through
    <2>2. \A y \in T : m.parent[y] \in T
      <3>1. \A y \in T : m.parent[y] \in {x} \cup T
        BY <1>1, ThroughHasParent
      <3> QED
        BY <3>1, <1>4
    <2> HIDE DEF T
    <2> QED
      BY <2>1, <2>2, NoCycle
  <1> QED
    BY <1>2, <1>3, <1>4 DEF WalkIsSafe

\* The groups of some nodes are the relationships whose parent is among them.
LEMMA OwnGroupsAre ==
  ASSUME NEW m \in Model, EdgesMatchParents(m), NEW S \in SUBSET Node
  PROVE  GroupsOf(m, S) = {r \in Relationship : m.parent[r] \in S}
  BY TargetsAreChildren DEF GroupsOf, Node

-------------------------------------------------------------------------------
(* Subtrees *)

\* A subtree holds its top and is closed under getChildren<Feature>.
LEMMA SubtreeIsClosed ==
  ASSUME NEW m \in Model, NEW f \in Feature
  PROVE  /\ f \in Subtree(m, f)
         /\ Subtree(m, f) \subseteq Feature
         /\ \A y \in Subtree(m, f) : FeatureChildren(m, y) \subseteq Subtree(m, f)
  <1>1. f \in Subtree(m, f) /\ Subtree(m, f) \subseteq Feature
    BY DEF Subtree
  <1>2. ASSUME NEW y \in Subtree(m, f), NEW x \in FeatureChildren(m, y)
        PROVE  x \in Subtree(m, f)
    <2>1. x \in Feature
      BY <1>2 DEF FeatureChildren
    <2> SUFFICES ASSUME NEW S \in SUBSET Feature, f \in S,
                        \A z \in S : FeatureChildren(m, z) \subseteq S
                 PROVE  x \in S
      BY <2>1 DEF Subtree
    <2>2. y \in S
      BY DEF Subtree
    <2> QED
      BY <2>2
  <1> QED
    BY <1>1, <1>2

\* Everything in it but the top is a child of something in it.
LEMMA SubtreeIsReached ==
  ASSUME NEW m \in Model, NEW f \in Feature, NEW x \in Subtree(m, f), x # f
  PROVE  \E y \in Subtree(m, f) : x \in FeatureChildren(m, y)
  <1>1. SUFFICES ASSUME \A y \in Subtree(m, f) : x \notin FeatureChildren(m, y) PROVE FALSE
    OBVIOUS
  <1> DEFINE S == Subtree(m, f) \ {x}
  <1>2. S \in SUBSET Feature /\ f \in S
    BY SubtreeIsClosed
  <1>3. \A z \in S : FeatureChildren(m, z) \subseteq S
    BY <1>1, SubtreeIsClosed
  <1>4. Subtree(m, f) \subseteq S
    <2> HIDE DEF S
    <2> QED
      BY <1>2, <1>3 DEF Subtree
  <1> QED
    BY <1>4

\* No feature is below itself, and the root is below none.
LEMMA SubtreeIsAcyclic ==
  ASSUME NEW m \in Model, EdgesMatchParents(m), Rooted(m), GroupsWellPlaced(m),
         NEW f \in m.features
  PROVE  /\ \A x \in Subtree(m, f) : f \notin FeatureChildren(m, x)
         /\ f # m.root => m.root \notin Subtree(m, f)
         /\ Subtree(m, f) \subseteq m.features
  <1> DEFINE D == Subtree(m, f)
             S == D \cup GroupsOf(m, D)
  <1>1. f \in Feature /\ D \subseteq Feature /\ Feature \subseteq Node /\ Relationship \subseteq Node
    BY ModelFields, SubtreeIsClosed DEF Node
  <1>2. GroupsOf(m, D) = {r \in Relationship : m.parent[r] \in D}
    <2>1. D \in SUBSET Node
      BY <1>1
    <2> HIDE DEF D
    <2> QED
      BY <2>1, OwnGroupsAre
  <1>3. ASSUME NEW x \in D, NEW y \in D, x \in FeatureChildren(m, y)
        PROVE  m.parent[x] \in S /\ x \in m.features /\ m.parent[x] # Nil
    <2>1. /\ x \in m.features
          /\ m.parent[x] = y \/ (m.parent[x] \in Relationship /\ m.parent[m.parent[x]] = y)
      BY <1>1, <1>3, FeatureChildrenAre
    <2> QED
      BY <1>1, <1>2, <2>1, ConstantsAssumption
  <1>4. ASSUME NEW x \in D, x # f
        PROVE  m.parent[x] \in S /\ x \in m.features /\ m.parent[x] # Nil
    <2>1. \E y \in D : x \in FeatureChildren(m, y)
      BY <1>1, <1>4, SubtreeIsReached
    <2> QED
      BY <1>3, <2>1
  <1>5. ASSUME NEW x \in D, f \in FeatureChildren(m, x) PROVE FALSE
    <2>1. \A y \in D : m.parent[y] \in S
      BY <1>1, <1>3, <1>4, <1>5, SubtreeIsClosed
    <2>2. \A y \in S : m.parent[y] \in S
      BY <1>2, <2>1
    <2>3. S \in SUBSET Node /\ S # {}
      BY <1>1, <1>2
    <2> HIDE DEF S
    <2> QED
      BY <2>2, <2>3, NoCycle
  <1>6. f # m.root => m.root \notin D
    BY <1>4 DEF Rooted
  <1> QED
    BY <1>4, <1>5, <1>6

\* The nodes below a node include it and all their children.
LEMMA BelowIsClosed ==
  ASSUME NEW m \in Model, EdgesMatchParents(m), NEW n \in Node
  PROVE  /\ n \in Below(m, n)
         /\ Below(m, n) \subseteq Node
         /\ \A x \in Node : m.parent[x] \in Below(m, n) => x \in Below(m, n)
  <1>1. n \in Below(m, n) /\ Below(m, n) \subseteq Node
    BY DEF Below
  <1>2. ASSUME NEW x \in Node, m.parent[x] \in Below(m, n), x \notin Below(m, n) PROVE FALSE
    <2>1. PICK S \in SUBSET Node : n \in S /\ Targets(m, S) \subseteq S /\ x \notin S
      BY <1>2 DEF Below
    <2>2. m.parent[x] \in S
      BY <1>2, <2>1 DEF Below
    <2> QED
      BY <2>1, <2>2, TargetsAreChildren
  <1> QED
    BY <1>1, <1>2

-------------------------------------------------------------------------------
(* The consistency check *)

\* The climb ends below anything but a relationship.
LEMMA NothingAbove ==
  ASSUME NEW m, NEW n, m.parent[n] \notin Relationship
  PROVE  RelationshipsAbove(m, n) = {}
  <1>1. \A x \in {n} \cup {} : m.parent[x] \in Relationship => m.parent[x] \in {}
    OBVIOUS
  <1>2. {} \in SUBSET Relationship
    OBVIOUS
  <1> QED
    BY <1>1, <1>2 DEF RelationshipsAbove

\* Feature::getParentFeature climbs over at most one relationship.
LEMMA ParentFeatureIs ==
  ASSUME NEW m \in Model, EdgesMatchParents(m), Rooted(m), GroupsWellPlaced(m),
         NEW f \in m.features \ {m.root}
  PROVE  \/ /\ m.parent[f] \in m.features
            /\ RelationshipsAbove(m, f) = {}
            /\ ParentFeature(m, f) = m.parent[f]
         \/ /\ m.parent[f] \in m.relationships
            /\ m.parent[m.parent[f]] \in m.features
            /\ RelationshipsAbove(m, f) = {m.parent[f]}
            /\ RelationshipsAbove(m, m.parent[f]) = {}
            /\ ParentFeature(m, f) = m.parent[m.parent[f]]
  <1> DEFINE p == m.parent[f]
             A == RelationshipsAbove(m, f)
  <1>0. f \in Feature /\ f \in Live(m) \ {m.root}
    BY ModelFields DEF Live
  <1>1. p \in Live(m)
    BY <1>0, ParentIsLive
  <1>2. CASE p \in m.features
    <2>1. p \in Feature /\ p \notin Relationship
      BY <1>2, ModelFields, ConstantsAssumption
    <2>2. A = {}
      BY <2>1, NothingAbove
    <2>3. ParentFeature(m, f) = p
      BY <2>1, <2>2 DEF ParentFeature
    <2> QED
      BY <1>2, <2>2, <2>3
  <1>3. CASE p \in m.relationships
    <2> DEFINE q == m.parent[p]
    <2>1. q \in m.features
      BY <1>3 DEF GroupsWellPlaced
    <2>2. /\ p \in Relationship /\ p \notin Feature /\ p # Nil
          /\ q \in Feature /\ q \notin Relationship
      BY <1>3, <2>1, ModelFields, ConstantsAssumption DEF Node
    <2>3. A = {p}
      <3>1. p \in A
        BY <2>2 DEF RelationshipsAbove
      <3>2. \A x \in {f} \cup {p} : m.parent[x] \in Relationship => m.parent[x] \in {p}
        BY <2>2
      <3>3. A \subseteq {p}
        BY <2>2, <3>2 DEF RelationshipsAbove
      <3> QED
        BY <3>1, <3>3
    <2>4. RelationshipsAbove(m, p) = {}
      BY <2>2, NothingAbove
    <2>5. ParentFeature(m, f) = q
      BY <2>2, <2>3 DEF ParentFeature
    <2> QED
      BY <1>3, <2>1, <2>3, <2>4, <2>5
  <1> QED
    BY <1>1, <1>2, <1>3 DEF Live

\* The check accepts every tree, whatever its constraints, and is defined on it.
LEMMA TreeIsValid ==
  ASSUME NEW m \in Model, EdgesMatchParents(m), Rooted(m), GroupsWellPlaced(m), NamesIdentify(m)
  PROVE  IsFeatureModelValid(m) /\ CheckIsSafe(m, Live(m))
  <1>1. ExactlyOneRootNode(m) /\ m.root \in RootFeature
    BY DEF NamesIdentify, ExactlyOneRootNode
  <1>2. ASSUME NEW f \in m.features \ RootFeature
        PROVE  /\ ParentFeature(m, f) # Nil
               /\ <<m.parent[f], f>> \in m.edges
               /\ \A x \in {f} \cup RelationshipsAbove(m, f) :
                     /\ m.parent[x] \in Live(m) \cup {Nil}
                     /\ x \notin RelationshipsAbove(m, x)
    <2>1. f \in m.features \ {m.root}
      BY <1>1
    <2>2. f \in Feature /\ f \in Node /\ f \notin Relationship
      BY ModelFields, ConstantsAssumption DEF Node
    <2>3. Nil \notin m.features /\ Nil \notin Live(m) /\ m.features \subseteq Node
      BY ModelFields, ConstantsAssumption DEF Node
    <2>4. f \notin RelationshipsAbove(m, f)
      BY <2>2 DEF RelationshipsAbove
    <2>5. ParentFeature(m, f) # Nil /\ m.parent[f] \in Live(m)
      BY <2>1, <2>3, ParentFeatureIs DEF Live
    <2>6. <<m.parent[f], f>> \in m.edges
      BY <2>2, <2>3, <2>5, ModelFields, EdgeIsParent
    <2>7. \A x \in RelationshipsAbove(m, f) :
             m.parent[x] \in Live(m) /\ x \notin RelationshipsAbove(m, x)
      BY <2>1, ParentFeatureIs DEF Live
    <2> QED
      BY <2>4, <2>5, <2>6, <2>7
  <1> QED
    BY <1>1, <1>2 DEF IsFeatureModelValid, CheckIsSafe, EveryFeatureRequiresParent,
                      CheckFeatureParentChildRelationShip, Rooted, Live

\* The check accepts every well-formed model, and is defined on it.
THEOREM WellFormedIsValid ==
  ASSUME NEW m \in Model, WellFormed(m)
  PROVE  IsFeatureModelValid(m) /\ CheckIsSafe(m, Live(m))
  BY TreeIsValid DEF WellFormed

-------------------------------------------------------------------------------
(* Types *)

\* Destroying nodes gives a model.
LEMMA DestroyType ==
  ASSUME NEW m \in Model, NEW N \in SUBSET Node
  PROVE  /\ Destroy(m, N) \in Model
         /\ Destroy(m, N).features = m.features \ N
         /\ Destroy(m, N).relationships = m.relationships \ N
         /\ Destroy(m, N).root = m.root
         /\ Destroy(m, N).parent = [n \in Node |-> IF n \in N THEN Nil ELSE m.parent[n]]
         /\ Destroy(m, N).edges = {e \in m.edges : e[1] \notin N}
         /\ Destroy(m, N).constraints = m.constraints
         /\ Destroy(m, N).bound = m.bound
  <1>1. [f \in Feature |-> IF f \in N THEN [l \in Location |-> 0] ELSE m.locations[f]]
          \in [Feature -> [Location -> Nat]]
    BY DEF Model
  <1>2. [n \in Node |-> IF n \in N THEN Nil ELSE m.parent[n]] \in [Node -> Node \cup {Nil}]
    BY DEF Model
  <1>3. [f \in Feature |-> IF f \in N THEN Nil ELSE m.output[f]] \in [Feature -> Text \cup {Nil}]
    BY DEF Model
  <1> QED
    BY <1>1, <1>2, <1>3 DEF Model, Destroy

\* Insert adds one node, its parent and the edge to it.
LEMMA InsertType ==
  ASSUME NEW m \in Model, NEW f \in Feature, NEW p \in Node
  PROVE  /\ Insert(m, f, p) \in Model
         /\ Insert(m, f, p).features = m.features \cup {f}
         /\ Insert(m, f, p).relationships = m.relationships
         /\ Insert(m, f, p).root = m.root
         /\ Insert(m, f, p).parent = [m.parent EXCEPT ![f] = p]
         /\ Insert(m, f, p).edges = m.edges \cup {<<p, f>>}
         /\ Insert(m, f, p).constraints = m.constraints
         /\ Insert(m, f, p).bound = m.bound
  <1>1. m.features \cup {f} \in SUBSET Feature /\ f \in Node
    BY ModelFields DEF Node
  <1>2. [m.parent EXCEPT ![f] = p] \in [Node -> Node \cup {Nil}]
    BY ModelFields
  <1>3. m.edges \cup {<<p, f>>} \in SUBSET (Node \X Node)
    BY <1>1, ModelFields
  <1>4. Insert(m, f, p) = [m EXCEPT !.features = m.features \cup {f},
                                    !.parent = [m.parent EXCEPT ![f] = p],
                                    !.edges = m.edges \cup {<<p, f>>}]
    BY DEF Insert, Model
  <1> HIDE DEF Insert
  <1> QED
    BY <1>1, <1>2, <1>3, <1>4 DEF Model

\* addFeature yields a model and a code.
LEMMA AddFeatureType ==
  ASSUME NEW m \in Model, NEW f \in Feature, NEW p \in Feature \cup {Nil},
         NEW alive \in SUBSET Node, NEW o \in AddFeature(m, f, p, alive)
  PROVE  o.model \in Model /\ o.code \in Code
  <1>1. [m EXCEPT !.features = @ \cup {f}] \in Model
    BY DEF Model
  <1>2. ASSUME NEW q \in alive PROVE Insert(m, f, q) \in Model
    BY InsertType
  <1> QED
    BY <1>1, <1>2
    DEF AddFeature, Outcome, Undefined, Fails, Succeeds, Code, ErrorCode

\* What a model is after the features D, or their namesakes, and their groups are gone.
LEMMA PrunedType ==
  ASSUME NEW m \in Model, NEW D \in SUBSET Feature
  PROVE  LET N == Erased(m, D) \cup GroupsOf(m, D) IN
         /\ Pruned(m, D) \in Model
         /\ Pruned(m, D).features = m.features \ N
         /\ Pruned(m, D).relationships = m.relationships \ N
         /\ Pruned(m, D).root = IF m.root \in D THEN Nil ELSE m.root
         /\ Pruned(m, D).parent = [n \in Node |-> IF n \in N THEN Nil ELSE m.parent[n]]
         /\ Pruned(m, D).edges = {e \in m.edges : /\ e[2] \in D => e[1] # m.parent[e[2]]
                                                  /\ ~(e[1] \in D /\ e[2] \in GroupsOf(m, D))
                                                  /\ e[1] \notin N}
         /\ Pruned(m, D).constraints = m.constraints
         /\ Pruned(m, D).bound = m.bound
  <1> DEFINE E == {e \in m.edges : /\ e[2] \in D => e[1] # m.parent[e[2]]
                                   /\ ~(e[1] \in D /\ e[2] \in GroupsOf(m, D))}
             newRoot == IF m.root \in D THEN Nil ELSE m.root
             cut == [m EXCEPT !.edges = E, !.root = newRoot]
             N == Erased(m, D) \cup GroupsOf(m, D)
  <1>1. E \in SUBSET (Node \X Node) /\ newRoot \in Feature \cup {Nil}
    BY ModelFields
  <1>2. N \in SUBSET Node
    BY ModelFields DEF GroupsOf, Targets, Erased, Node
  <1>3. /\ cut \in Model /\ cut.edges = E /\ cut.root = newRoot
        /\ cut.features = m.features /\ cut.relationships = m.relationships
        /\ cut.parent = m.parent /\ cut.bound = m.bound /\ cut.constraints = m.constraints
    <2> HIDE DEF E, newRoot
    <2> QED
      BY <1>1 DEF Model
  <1>4. Pruned(m, D) = Destroy(cut, N)
    BY DEF Pruned
  <1> HIDE DEF cut
  <1> QED
    BY <1>2, <1>3, <1>4, DestroyType

\* What a model is after a leaf is unlinked from its parent and destroyed.
LEMMA UnlinkedType ==
  ASSUME NEW m \in Model, NEW f \in Feature, NEW N \in SUBSET Node
  PROVE  /\ Unlinked(m, f, N) \in Model
         /\ Unlinked(m, f, N).features = m.features \ N
         /\ Unlinked(m, f, N).relationships = m.relationships \ N
         /\ Unlinked(m, f, N).root = IF m.root = f THEN Nil ELSE m.root
         /\ Unlinked(m, f, N).parent = [n \in Node |-> IF n \in N THEN Nil ELSE m.parent[n]]
         /\ Unlinked(m, f, N).edges = {e \in m.edges : e # <<m.parent[f], f>> /\ e[1] \notin N}
         /\ Unlinked(m, f, N).constraints = m.constraints
         /\ Unlinked(m, f, N).bound = m.bound
  <1> DEFINE E == m.edges \ {<<m.parent[f], f>>}
             newRoot == IF m.root = f THEN Nil ELSE m.root
             cut == [m EXCEPT !.edges = E, !.root = newRoot]
  <1>1. E \in SUBSET (Node \X Node) /\ newRoot \in Feature \cup {Nil}
    BY ModelFields
  <1>2. /\ cut \in Model /\ cut.edges = E /\ cut.root = newRoot
        /\ cut.features = m.features /\ cut.relationships = m.relationships
        /\ cut.parent = m.parent /\ cut.bound = m.bound /\ cut.constraints = m.constraints
    <2> HIDE DEF E, newRoot
    <2> QED
      BY <1>1 DEF Model
  <1>3. Unlinked(m, f, N) = Destroy(cut, N)
    BY DEF Unlinked
  <1> HIDE DEF cut
  <1> QED
    BY <1>2, <1>3, DestroyType

\* What a model is after the features below p are put below the new group r.
LEMMA GroupedType ==
  ASSUME NEW m \in Model, NEW r \in Relationship, NEW p \in Node
  PROVE  LET members == FeatureChildren(m, p) IN
         /\ Grouped(m, r, p) \in Model
         /\ Grouped(m, r, p).features = m.features
         /\ Grouped(m, r, p).relationships = m.relationships \cup {r}
         /\ Grouped(m, r, p).root = m.root
         /\ Grouped(m, r, p).parent =
              [n \in Node |-> IF n = r THEN p ELSE IF n \in members THEN r ELSE m.parent[n]]
         /\ Grouped(m, r, p).edges =
              (m.edges \ ({p} \X members)) \cup ({r} \X members) \cup {<<p, r>>}
         /\ Grouped(m, r, p).constraints = m.constraints
         /\ Grouped(m, r, p).bound = m.bound
  <1> DEFINE members == FeatureChildren(m, p)
             P == [n \in Node |-> IF n = r THEN p ELSE IF n \in members THEN r ELSE m.parent[n]]
             E == (m.edges \ ({p} \X members)) \cup ({r} \X members) \cup {<<p, r>>}
  <1>1. r \in Node /\ members \subseteq Node
    BY DEF Node, FeatureChildren
  <1>2. P \in [Node -> Node \cup {Nil}]
    BY <1>1, ModelFields
  <1>3. E \in SUBSET (Node \X Node)
    BY <1>1, ModelFields
  <1>4. m.relationships \cup {r} \in SUBSET Relationship
    BY ModelFields
  <1>5. Grouped(m, r, p) = [m EXCEPT !.relationships = m.relationships \cup {r},
                                     !.parent = P, !.edges = E]
    BY DEF Grouped
  <1> HIDE DEF P, E
  <1>6. Grouped(m, r, p) \in Model
    BY <1>2, <1>3, <1>4, <1>5 DEF Model
  <1>7. /\ Grouped(m, r, p).features = m.features
        /\ Grouped(m, r, p).relationships = m.relationships \cup {r}
        /\ Grouped(m, r, p).root = m.root
        /\ Grouped(m, r, p).parent = P
        /\ Grouped(m, r, p).edges = E
        /\ Grouped(m, r, p).constraints = m.constraints
        /\ Grouped(m, r, p).bound = m.bound
    BY <1>5 DEF Model
  <1> QED
    BY <1>6, <1>7 DEF P, E

\* What a model is after the group r is dissolved into p.
LEMMA UngroupedType ==
  ASSUME NEW m \in Model, NEW p \in Node, NEW r \in Relationship
  PROVE  LET members == FeatureChildren(m, r) IN
         /\ Ungrouped(m, p, r) \in Model
         /\ Ungrouped(m, p, r).features = m.features \ {r}
         /\ Ungrouped(m, p, r).relationships = m.relationships \ {r}
         /\ Ungrouped(m, p, r).root = m.root
         /\ Ungrouped(m, p, r).parent =
              [n \in Node |-> IF n = r THEN Nil ELSE IF n \in members THEN p ELSE m.parent[n]]
         /\ Ungrouped(m, p, r).edges =
              {e \in (m.edges \ (({r} \X members) \cup {<<p, r>>})) \cup ({p} \X members) :
                 e[1] \notin {r}}
         /\ Ungrouped(m, p, r).constraints = m.constraints
         /\ Ungrouped(m, p, r).bound = m.bound
  <1> DEFINE members == FeatureChildren(m, r)
             P == [n \in Node |-> IF n \in members THEN p ELSE m.parent[n]]
             E == (m.edges \ (({r} \X members) \cup {<<p, r>>})) \cup ({p} \X members)
             moved == [m EXCEPT !.parent = P, !.edges = E]
  <1>1. {r} \in SUBSET Node /\ members \subseteq Node
    BY DEF Node, FeatureChildren
  <1>2. P \in [Node -> Node \cup {Nil}]
    BY ModelFields
  <1>3. E \in SUBSET (Node \X Node)
    BY <1>1, ModelFields
  <1>4. /\ moved \in Model /\ moved.edges = E /\ moved.root = m.root
        /\ moved.features = m.features /\ moved.relationships = m.relationships
        /\ moved.parent = P /\ moved.bound = m.bound /\ moved.constraints = m.constraints
    <2> HIDE DEF P, E
    <2> QED
      BY <1>2, <1>3 DEF Model
  <1>5. Ungrouped(m, p, r) = Destroy(moved, {r})
    BY DEF Ungrouped
  <1>6. [n \in Node |-> IF n \in {r} THEN Nil ELSE P[n]] =
        [n \in Node |-> IF n = r THEN Nil ELSE IF n \in members THEN p ELSE m.parent[n]]
    OBVIOUS
  <1> HIDE DEF moved, P
  <1> QED
    BY <1>1, <1>4, <1>5, <1>6, DestroyType

\* What a model is after the root is replaced.
LEMMA RootReplacedType ==
  ASSUME NEW m \in Model, NEW f \in Feature, m.root \in Feature
  PROVE  LET children == Targets(m, {m.root}) IN
         /\ RootReplaced(m, f) \in Model
         /\ RootReplaced(m, f).features = (m.features \cup {f}) \ {m.root}
         /\ RootReplaced(m, f).relationships = m.relationships \ {m.root}
         /\ RootReplaced(m, f).root = f
         /\ RootReplaced(m, f).parent =
              [n \in Node |-> IF n = m.root THEN Nil
                              ELSE IF n \in children THEN f ELSE m.parent[n]]
         /\ RootReplaced(m, f).edges =
              {e \in m.edges \cup ({f} \X children) : e[1] \notin {m.root}}
         /\ RootReplaced(m, f).constraints = m.constraints
         /\ RootReplaced(m, f).bound = m.bound
  <1> DEFINE children == Targets(m, {m.root})
             P == [n \in Node |-> IF n \in children THEN f ELSE m.parent[n]]
             E == m.edges \cup ({f} \X children)
             F == m.features \cup {f}
             moved == [m EXCEPT !.features = F, !.root = f, !.parent = P, !.edges = E]
  <1>1. {m.root} \in SUBSET Node /\ f \in Node /\ children \subseteq Node
    BY DEF Node, Targets
  <1>2. P \in [Node -> Node \cup {Nil}] /\ F \in SUBSET Feature
    BY <1>1, ModelFields
  <1>3. E \in SUBSET (Node \X Node)
    BY <1>1, ModelFields
  <1>4. /\ moved \in Model /\ moved.edges = E /\ moved.root = f
        /\ moved.features = F /\ moved.relationships = m.relationships
        /\ moved.parent = P /\ moved.bound = m.bound /\ moved.constraints = m.constraints
    <2> HIDE DEF P, E, F
    <2> QED
      BY <1>2, <1>3 DEF Model
  <1>5. RootReplaced(m, f) = Destroy(moved, {m.root})
    BY DEF RootReplaced
  <1>6. [n \in Node |-> IF n \in {m.root} THEN Nil ELSE P[n]] =
        [n \in Node |-> IF n = m.root THEN Nil ELSE IF n \in children THEN f ELSE m.parent[n]]
    OBVIOUS
  <1>7. /\ Destroy(moved, {m.root}) \in Model
        /\ Destroy(moved, {m.root}).features = F \ {m.root}
        /\ Destroy(moved, {m.root}).relationships = m.relationships \ {m.root}
        /\ Destroy(moved, {m.root}).root = f
        /\ Destroy(moved, {m.root}).parent = [n \in Node |-> IF n \in {m.root} THEN Nil ELSE P[n]]
        /\ Destroy(moved, {m.root}).edges = {e \in E : e[1] \notin {m.root}}
        /\ Destroy(moved, {m.root}).constraints = m.constraints
        /\ Destroy(moved, {m.root}).bound = m.bound
    <2> HIDE DEF moved, P, E, F
    <2> QED
      BY <1>1, <1>4, DestroyType
  <1> HIDE DEF moved, P
  <1> QED
    BY <1>5, <1>6, <1>7

\* What a model is after c is moved below p.
LEMMA AttachedType ==
  ASSUME NEW m \in Model, NEW p \in Node, NEW c \in Node
  PROVE  /\ Attached(m, p, c) \in Model
         /\ Attached(m, p, c).features = m.features
         /\ Attached(m, p, c).relationships = m.relationships
         /\ Attached(m, p, c).root = m.root
         /\ Attached(m, p, c).parent = [m.parent EXCEPT ![c] = p]
         /\ Attached(m, p, c).edges = (m.edges \ {<<m.parent[c], c>>}) \cup {<<p, c>>}
         /\ Attached(m, p, c).constraints = m.constraints
         /\ Attached(m, p, c).bound = m.bound
  <1> DEFINE P == [m.parent EXCEPT ![c] = p]
             E == (m.edges \ {<<m.parent[c], c>>}) \cup {<<p, c>>}
  <1>1. P \in [Node -> Node \cup {Nil}] /\ E \in SUBSET (Node \X Node)
    BY ModelFields
  <1>2. Attached(m, p, c) = [m EXCEPT !.parent = P, !.edges = E]
    BY DEF Attached, Model
  <1> HIDE DEF Attached, P, E
  <1>3. Attached(m, p, c) \in Model
    BY <1>1, <1>2 DEF Model
  <1>4. /\ Attached(m, p, c).features = m.features
        /\ Attached(m, p, c).relationships = m.relationships
        /\ Attached(m, p, c).root = m.root
        /\ Attached(m, p, c).parent = P
        /\ Attached(m, p, c).edges = E
        /\ Attached(m, p, c).constraints = m.constraints
        /\ Attached(m, p, c).bound = m.bound
    BY <1>2 DEF Model
  <1> QED
    BY <1>3, <1>4 DEF P, E

-------------------------------------------------------------------------------
(* Every modification leaves a model and returns a code, whatever it is given *)

\* removeFeature yields a model and a code.
LEMMA RemoveFeatureType ==
  ASSUME NEW m \in Model, NEW ref \in Feature \cup Name, NEW recursive \in BOOLEAN,
         NEW alive \in SUBSET Node, NEW o \in RemoveFeature(m, ref, recursive, alive)
  PROVE  o.model \in Model /\ o.code \in Code
  <1> DEFINE f == Resolve(m, ref)
  <1>1. CASE f \notin alive
    BY <1>1 DEF RemoveFeature, Fails, Undefined, Outcome, Code, ErrorCode
  <1>2. CASE f \in alive
    <2>1. f \in Feature /\ f # Nil
      BY <1>2, ModelFields, ResolveType, ConstantsAssumption DEF Node
    <2>2. ASSUME NEW x \in RemoveSubtree(m, f, alive) PROVE x.model \in Model /\ x.code \in Code
      <3>1. Pruned(m, Subtree(m, f)) \in Model
        BY PrunedType DEF Subtree
      <3> QED
        BY <2>2, <3>1 DEF RemoveSubtree, Succeeds, Undefined, Outcome, Code
    <2>3. ASSUME NEW x \in RemoveLeaf(m, f, alive) PROVE x.model \in Model /\ x.code \in Code
      <3>1. ASSUME NEW R \in SUBSET RelationshipChildren(m, f)
            PROVE  Unlinked(m, f, Erased(m, {f}) \cup R) \in Model
        <4>1. Erased(m, {f}) \cup R \in SUBSET Node
          BY ModelFields DEF RelationshipChildren, Erased, Node
        <4> QED
          BY <2>1, <4>1, UnlinkedType
      <3>2. PICK R \in SUBSET RelationshipChildren(m, f) :
              x \in Undefined(m) \cup Fails(m, "NON_LEAF_NODE")
                     \cup Succeeds(Unlinked(m, f, Erased(m, {f}) \cup R))
        BY <2>3 DEF RemoveLeaf
      <3> QED
        BY <3>1, <3>2 DEF Succeeds, Fails, Undefined, Outcome, Code, ErrorCode
    <2> QED
      BY <1>2, <2>1, <2>2, <2>3 DEF RemoveFeature
  <1> QED
    BY <1>1, <1>2

\* addRelationship yields a model and a code.
LEMMA AddRelationshipType ==
  ASSUME NEW m \in Model, NEW r \in Relationship, NEW ref \in Feature \cup Name,
         NEW alive \in SUBSET Node, NEW o \in AddRelationship(m, r, ref, alive)
  PROVE  o.model \in Model /\ o.code \in Code
  <1>1. ASSUME NEW p \in alive PROVE Grouped(m, r, p) \in Model
    BY GroupedType
  <1> QED
    BY <1>1 DEF AddRelationship, Succeeds, Undefined, Outcome, Code

\* removeRelationship yields a model and a code.
LEMMA RemoveRelationshipType ==
  ASSUME NEW m \in Model, NEW ref \in Feature \cup Name, NEW alive \in SUBSET Node,
         NEW o \in RemoveRelationship(m, ref, alive)
  PROVE  o.model \in Model /\ o.code \in Code
  <1>1. ASSUME NEW p \in alive, NEW r \in RelationshipChildren(m, p)
        PROVE  Ungrouped(m, p, r) \in Model
    BY UngroupedType DEF RelationshipChildren
  <1> QED
    BY <1>1 DEF RemoveRelationship, Succeeds, Fails, Undefined, Outcome, Code, ErrorCode

\* addLocation and removeLocation yield a model and a code.
LEMMA LocationType ==
  ASSUME NEW m \in Model, NEW ref \in Feature \cup Name, NEW l \in Location, NEW alive \in SUBSET Node,
         NEW o \in AddLocation(m, ref, l, alive) \cup RemoveLocation(m, ref, l, alive)
  PROVE  o.model \in Model /\ o.code \in Code
  <1>1. ASSUME NEW f \in Feature, NEW n \in Nat
        PROVE  [m EXCEPT !.locations[f][l] = n] \in Model
    <2>1. [m.locations EXCEPT ![f][l] = n] \in [Feature -> [Location -> Nat]]
      BY ModelFields
    <2>2. [m EXCEPT !.locations[f][l] = n] = [m EXCEPT !.locations = [m.locations EXCEPT ![f][l] = n]]
      BY DEF Model
    <2> QED
      BY <2>1, <2>2 DEF Model
  <1>2. ASSUME NEW f \in Feature
        PROVE  /\ m.locations[f][l] + 1 \in Nat
               /\ m.locations[f][l] # 0 => m.locations[f][l] - 1 \in Nat
    <2>1. m.locations[f][l] \in Nat
      BY ModelFields
    <2> QED
      BY <2>1
  <1>3. Resolve(m, ref) \in alive => Resolve(m, ref) \in Feature
    BY ResolveType, ModelFields, ConstantsAssumption
  <1> QED
    BY <1>1, <1>2, <1>3 DEF AddLocation, RemoveLocation, Succeeds, Undefined, Outcome, Code

\* addConstraint yields a model and a code.
LEMMA AddConstraintType ==
  ASSUME NEW m \in Model, NEW k \in Constraint, NEW o \in AddConstraint(m, k)
  PROVE  o.model \in Model /\ o.code \in Code
  <1> DEFINE found == {f \in m.features : NameOf[f] \in Mentions[k]}
  <1>1. m.constraints \cup {k} \in SUBSET Constraint
    BY ModelFields
  <1>2. m.bound \cup ({k} \X found) \in SUBSET (Constraint \X Feature)
    BY ModelFields
  <1>3. [m EXCEPT !.constraints = @ \cup {k}, !.bound = @ \cup ({k} \X found)] \in Model
    BY <1>1, <1>2 DEF Model
  <1> QED
    BY <1>3 DEF AddConstraint, Succeeds, Fails, Outcome, Code, ErrorCode

\* setName, setPath and setCommit yield a model and a code.
LEMMA SetInfoType ==
  ASSUME NEW m \in Model, NEW field \in InfoField, NEW text \in Text,
         NEW o \in SetInfo(m, field, text)
  PROVE  o.model \in Model /\ o.code \in Code
  <1>1. [m.info EXCEPT ![field] = text] \in [InfoField -> Text]
    BY ModelFields
  <1>2. [m EXCEPT !.info[field] = text] \in Model
    BY <1>1 DEF Model
  <1> QED
    BY <1>2 DEF SetInfo, Succeeds, Outcome, Code

\* setRoot yields a model and a code.
LEMMA SetRootType ==
  ASSUME NEW m \in Model, NEW f \in RootFeature, NEW alive \in SUBSET Node,
         NEW o \in SetRoot(m, f, alive)
  PROVE  o.model \in Model /\ o.code \in Code
  <1>1. f \in Feature
    BY ConstantsAssumption
  <1>2. [m EXCEPT !.features = @ \cup {f}, !.root = f] \in Model
    BY <1>1 DEF Model
  <1>3. m.root # Nil => RootReplaced(m, f) \in Model
    BY <1>1, ModelFields, RootReplacedType
  <1> QED
    BY <1>2, <1>3 DEF SetRoot, Succeeds, Fails, Undefined, Outcome, Code, ErrorCode

\* addChild yields a model and a code.
LEMMA AddChildType ==
  ASSUME NEW m \in Model, NEW p \in Node \cup Name, NEW c \in Node \cup Name,
         NEW alive \in SUBSET Node, NEW o \in AddChild(m, p, c, alive)
  PROVE  o.model \in Model /\ o.code \in Code
  <1>1. ASSUME NEW x \in alive, NEW y \in alive PROVE Attached(m, x, y) \in Model
    BY AttachedType
  <1> QED
    BY <1>1 DEF AddChild, Succeeds, Fails, Undefined, Outcome, Code, ErrorCode

\* Executing a modification gives a model and a code of the error type.
THEOREM OutcomesAmongType ==
  ASSUME NEW m \in Model, NEW mod \in Modification, NEW alive \in SUBSET Node,
         NEW o \in OutcomesAmong(m, mod, alive)
  PROVE  o.model \in Model /\ o.code \in Code
  <1> USE DEF Modification, OutcomesAmong
  <1>1. CASE mod.op = "AddFeature"
    BY <1>1, AddFeatureType
  <1>2. CASE mod.op = "RemoveFeature"
    BY <1>2, RemoveFeatureType
  <1>3. CASE mod.op = "AddRelationship"
    BY <1>3, AddRelationshipType
  <1>4. CASE mod.op = "RemoveRelationship"
    BY <1>4, RemoveRelationshipType
  <1>5. CASE mod.op = "AddLocation"
    BY <1>5, LocationType
  <1>6. CASE mod.op = "RemoveLocation"
    BY <1>6, LocationType
  <1>7. CASE mod.op = "AddConstraint"
    BY <1>7, AddConstraintType
  <1>8. CASE mod.op = "SetInfo"
    BY <1>8, SetInfoType
  <1>9. CASE mod.op = "SetRoot"
    BY <1>9, SetRootType
  <1>10. CASE mod.op = "AddChild"
    BY <1>10, AddChildType
  <1> QED
    BY <1>1, <1>2, <1>3, <1>4, <1>5, <1>6, <1>7, <1>8, <1>9, <1>10

\* Also where no feature waits in a queue.
LEMMA OutcomesType ==
  ASSUME NEW m \in Model, NEW mod \in Modification, NEW o \in Outcomes(m, mod)
  PROVE  o.model \in Model /\ o.code \in Code
  BY OutcomesAmongType, ModelFields DEF Outcomes

-------------------------------------------------------------------------------
(* Modifications within the rules *)

\* The part of being well-formed in which constraints have no say.
IsTree(m) ==
  EdgesMatchParents(m) /\ Rooted(m) /\ GroupsWellPlaced(m) /\ NamesIdentify(m)

\* A well-formed model is a tree whose constraints are bound within it.
LEMMA WellFormedIsTree ==
  ASSUME NEW m
  PROVE  WellFormed(m) <=> IsTree(m) /\ ConstraintsBound(m)
  BY DEF WellFormed, IsTree

-------------------------------------------------------------------------------
(* The edits *)

\* The parts of a regrouped model.
LEMMA RegroupedIs ==
  ASSUME NEW m \in Model, EdgesMatchParents(m), Rooted(m), GroupsWellPlaced(m)
  PROVE  LET g == Regrouped(m) IN
         /\ g.features = m.features /\ g.relationships = m.relationships /\ g.root = m.root
         /\ g.constraints = m.constraints /\ g.bound = m.bound
         /\ g.locations = m.locations /\ g.output = m.output /\ g.info = m.info
         /\ g.edges = {<<g.parent[n], n>> : n \in {x \in Live(m) : g.parent[x] # Nil}}
         /\ g.parent[m.root] = Nil
         /\ \A r \in m.relationships : g.parent[r] = m.parent[r]
         /\ \A f \in m.features \ {m.root} :
              \/ /\ g.parent[f] \in m.relationships
                 /\ m.parent[g.parent[f]] = ParentFeature(m, f)
              \/ /\ g.parent[f] = ParentFeature(m, f)
                 /\ \A r \in m.relationships : m.parent[r] # ParentFeature(m, f)
  <1> DEFINE groups(f) == {r \in m.relationships : m.parent[r] = m.parent[f]}
             parent == [n \in Node |-> IF n \in m.features /\ groups(n) # {}
                                       THEN CHOOSE r \in groups(n) : TRUE ELSE m.parent[n]]
             g == Regrouped(m)
  <1>1. /\ m \in Model /\ Rooted(m) /\ m.root \in m.features
        /\ \A r \in m.relationships : m.parent[r] \in m.features
        /\ m.features \cap m.relationships = {} /\ Live(m) \subseteq Node
        /\ m.features \subseteq Node /\ m.relationships \subseteq Node /\ Nil \notin m.features
        /\ m.features \subseteq Feature
    BY ModelFields, ConstantsAssumption DEF Rooted, GroupsWellPlaced, Live, Node
  <1>2. g = [m EXCEPT !.parent = parent,
                      !.edges = {<<parent[n], n>> : n \in {x \in Live(m) : parent[x] # Nil}}]
    BY DEF Regrouped
  <1>3. /\ g.features = m.features /\ g.relationships = m.relationships /\ g.root = m.root
        /\ g.constraints = m.constraints /\ g.bound = m.bound
        /\ g.locations = m.locations /\ g.output = m.output /\ g.info = m.info
        /\ g.parent = parent
        /\ g.edges = {<<parent[n], n>> : n \in {x \in Live(m) : parent[x] # Nil}}
    BY <1>1, <1>2 DEF Model
  <1>4. \A n \in Node : parent[n] = IF n \in m.features /\ groups(n) # {}
                                    THEN CHOOSE r \in groups(n) : TRUE ELSE m.parent[n]
    OBVIOUS
  <1>5. \A n \in m.features : groups(n) # {} => parent[n] \in groups(n)
    BY <1>1, <1>4
  <1>6. \A n \in Node : n \notin m.features \/ groups(n) = {} => parent[n] = m.parent[n]
    BY <1>4
  <1> HIDE DEF parent, g
  <1>7. parent[m.root] = Nil
    <2>1. m.parent[m.root] = Nil
      BY <1>1 DEF Rooted
    <2>2. groups(m.root) = {}
      BY <1>1, <2>1
    <2> QED
      BY <1>1, <1>6, <2>1, <2>2
  <1>8. \A r \in m.relationships : parent[r] = m.parent[r]
    BY <1>1, <1>6
  <1>9. ASSUME NEW f \in m.features \ {m.root}
        PROVE  \/ /\ parent[f] \in m.relationships
                  /\ m.parent[parent[f]] = ParentFeature(m, f)
               \/ /\ parent[f] = ParentFeature(m, f)
                  /\ \A r \in m.relationships : m.parent[r] # ParentFeature(m, f)
    <2>1. \/ m.parent[f] = ParentFeature(m, f)
          \/ m.parent[f] \in m.relationships /\ m.parent[m.parent[f]] = ParentFeature(m, f)
      BY <1>9, ParentFeatureIs
    <2>2. CASE m.parent[f] = ParentFeature(m, f)
      <3>1. CASE groups(f) = {}
        BY <1>1, <1>6, <1>9, <2>2, <3>1
      <3>2. CASE groups(f) # {}
        BY <1>5, <1>9, <2>2, <3>2
      <3> QED
        BY <3>1, <3>2
    <2>3. CASE m.parent[f] \in m.relationships /\ m.parent[m.parent[f]] = ParentFeature(m, f)
      <3>1. groups(f) = {}
        BY <1>1, <2>3
      <3> QED
        BY <1>1, <1>6, <1>9, <2>3, <3>1
    <2> QED
      BY <2>1, <2>2, <2>3
  <1> QED
    BY <1>3, <1>7, <1>8, <1>9 DEF g

\* A regrouped model is as well-formed as it was, and no feature has another parent.
LEMMA RegroupedKeeps ==
  ASSUME NEW m \in Model, EdgesMatchParents(m), Rooted(m), GroupsWellPlaced(m)
  PROVE  LET g == Regrouped(m) IN
         /\ g \in Model /\ EdgesMatchParents(g) /\ Rooted(g) /\ GroupsWellPlaced(g)
         /\ \A f \in m.features \ {m.root} : ParentFeature(g, f) = ParentFeature(m, f)
  <1> DEFINE g == Regrouped(m)
  <1>1. /\ m.features \subseteq Feature /\ m.relationships \subseteq Relationship
        /\ Feature \cap Relationship = {} /\ Nil \notin Node /\ Node = Feature \cup Relationship
        /\ Live(m) = m.features \cup m.relationships /\ Live(m) \subseteq Node
        /\ m.root \in m.features /\ m.parent[m.root] = Nil
        /\ m.parent \in [Node -> Node \cup {Nil}]
        /\ \A r \in m.relationships : m.parent[r] \in m.features
        /\ \A n \in Node : n \notin Live(m) => m.parent[n] = Nil
    BY ModelFields, ConstantsAssumption, NoParent DEF Rooted, GroupsWellPlaced, Live, Node
  <1>2. /\ g.features = m.features /\ g.relationships = m.relationships /\ g.root = m.root
        /\ g.edges = {<<g.parent[n], n>> : n \in {x \in Live(m) : g.parent[x] # Nil}}
        /\ g.parent[m.root] = Nil
        /\ \A r \in m.relationships : g.parent[r] = m.parent[r]
        /\ \A f \in m.features \ {m.root} :
             \/ /\ g.parent[f] \in m.relationships
                /\ m.parent[g.parent[f]] = ParentFeature(m, f)
             \/ /\ g.parent[f] = ParentFeature(m, f)
                /\ \A r \in m.relationships : m.parent[r] # ParentFeature(m, f)
    BY RegroupedIs
  <1>3. \A n \in Node : n \notin Live(m) => g.parent[n] = Nil
    BY <1>1 DEF Regrouped, Model
  <1>4. \A f \in m.features \ {m.root} :
          /\ ParentFeature(m, f) \in m.features
          /\ \/ m.parent[f] = ParentFeature(m, f)
             \/ m.parent[f] \in m.relationships /\ m.parent[m.parent[f]] = ParentFeature(m, f)
    BY ParentFeatureIs
  <1> HIDE DEF g
  <1>5. \A n \in Live(m) \ {m.root} : g.parent[n] \in Live(m)
    BY <1>1, <1>2, <1>4
  <1>6. \A n \in Node : g.parent[n] \in Live(m) \cup {Nil}
    BY <1>1, <1>2, <1>3, <1>5
  <1>7. Live(g) = Live(m)
    BY <1>1, <1>2 DEF Live
  <1>8. EdgesMatchParents(g)
    <2>1. ASSUME NEW e \in g.edges
          PROVE  e[1] \in Live(g) /\ e[2] \in Live(g) /\ g.parent[e[2]] = e[1]
      <3>1. PICK n \in Live(m) : g.parent[n] # Nil /\ e = <<g.parent[n], n>>
        BY <1>2
      <3> QED
        BY <1>1, <1>6, <1>7, <3>1
    <2>2. ASSUME NEW n \in Node, g.parent[n] # Nil PROVE <<g.parent[n], n>> \in g.edges
      BY <1>2, <1>3, <2>2
    <2> QED
      BY <2>1, <2>2 DEF EdgesMatchParents
  <1>9. Rooted(g)
    <2>1. ASSUME NEW S \in SUBSET (Live(m) \ {m.root}), S # {}
          PROVE  \E n \in S : g.parent[n] \in Live(m) \ S
      <3>1. PICK n \in S : m.parent[n] \in Live(m) \ S
        BY <2>1 DEF Rooted
      <3>2. CASE n \in m.relationships
        BY <1>2, <3>1, <3>2
      <3>3. CASE n \in m.features
        <4>1. n \in m.features \ {m.root}
          BY <3>3
        <4>2. CASE g.parent[n] \in S
          <5>1. g.parent[n] \in m.relationships /\ g.parent[g.parent[n]] = ParentFeature(m, n)
            <6>1. g.parent[n] = ParentFeature(m, n) => m.parent[n] \in m.relationships
                    /\ m.parent[m.parent[n]] = ParentFeature(m, n)
              BY <1>4, <3>1, <4>1, <4>2
            <6> QED
              BY <1>2, <4>1, <6>1
          <5>2. CASE m.parent[n] = ParentFeature(m, n)
            BY <3>1, <4>2, <5>1, <5>2
          <5>3. CASE m.parent[n] \in m.relationships /\ m.parent[m.parent[n]] = ParentFeature(m, n)
            <6>1. g.parent[n] = m.parent[n]
              BY <1>2, <5>1, <5>3 DEF GroupsWellPlaced
            <6> QED
              BY <3>1, <6>1
          <5> QED
            BY <1>4, <4>1, <5>2, <5>3
        <4>3. CASE g.parent[n] \notin S
          BY <1>5, <3>1, <4>1, <4>3, <1>1
        <4> QED
          BY <4>2, <4>3
      <3> QED
        BY <1>1, <3>1, <3>2, <3>3
    <2> QED
      BY <1>1, <1>2, <1>7, <2>1 DEF Rooted
  <1>10. GroupsWellPlaced(g)
    BY <1>2 DEF GroupsWellPlaced
  <1>11. g \in Model
    <2>1. g.parent \in [Node -> Node \cup {Nil}]
      <3>1. g.parent = [n \in Node |-> g.parent[n]]
        BY DEF g, Regrouped, Model
      <3> QED
        BY <1>1, <1>6, <3>1
    <2>2. g.edges \in SUBSET (Node \X Node)
      BY <1>1, <1>2, <1>6
    <2>3. g = [m EXCEPT !.parent = g.parent, !.edges = g.edges]
      BY DEF g, Regrouped, Model
    <2> QED
      BY <2>1, <2>2, <2>3 DEF Model
  <1>12. ASSUME NEW f \in m.features \ {m.root} PROVE ParentFeature(g, f) = ParentFeature(m, f)
    <2>1. \/ g.parent[f] \in m.features /\ ParentFeature(g, f) = g.parent[f]
          \/ g.parent[f] \in m.relationships /\ ParentFeature(g, f) = g.parent[g.parent[f]]
      BY <1>2, <1>8, <1>9, <1>10, <1>11, ParentFeatureIs
    <2> QED
      BY <1>1, <1>2, <1>4, <2>1
  <1> QED
    BY <1>8, <1>9, <1>10, <1>11, <1>12 DEF g

\* A feature that is inserted below a node leaves edges, parents and groups in order.
LEMMA InsertKeepsShape ==
  ASSUME NEW m \in Model, EdgesMatchParents(m), Rooted(m), GroupsWellPlaced(m),
         NEW f \in Feature, f \notin Live(m), NEW p \in Live(m)
  PROVE  /\ EdgesMatchParents(Insert(m, f, p))
         /\ Rooted(Insert(m, f, p))
         /\ GroupsWellPlaced(Insert(m, f, p))
  <1> DEFINE n2 == Insert(m, f, p)
  <1>0. f \in Node /\ p \in Node /\ f # p /\ m.parent[f] = Nil /\ f \notin Relationship
    BY ModelFields, NoParent, ConstantsAssumption DEF Node
  <1>1. /\ n2.features = m.features \cup {f} /\ n2.relationships = m.relationships
        /\ n2.root = m.root /\ n2.constraints = m.constraints /\ n2.bound = m.bound
        /\ n2.parent = [m.parent EXCEPT ![f] = p] /\ n2.edges = m.edges \cup {<<p, f>>}
        /\ Live(n2) = Live(m) \cup {f}
    BY <1>0, InsertType DEF Live
  <1>2. \A n \in Node : n2.parent[n] = IF n = f THEN p ELSE m.parent[n]
    BY <1>1, ModelFields
  <1> HIDE DEF n2
  <1>3. EdgesMatchParents(n2)
    <2>1. ASSUME NEW e \in n2.edges
          PROVE  e[1] \in Live(n2) /\ e[2] \in Live(n2) /\ n2.parent[e[2]] = e[1]
      BY <1>0, <1>1, <1>2, ModelFields DEF EdgesMatchParents
    <2>2. ASSUME NEW n \in Node, n2.parent[n] # Nil PROVE <<n2.parent[n], n>> \in n2.edges
      BY <1>1, <1>2, <2>2 DEF EdgesMatchParents
    <2> QED
      BY <2>1, <2>2 DEF EdgesMatchParents
  <1>4. Rooted(n2)
    <2>1. n2.root \in n2.features /\ n2.parent[n2.root] = Nil
      BY <1>0, <1>1, <1>2, ModelFields DEF Rooted, Live, Node
    <2>2. ASSUME NEW S \in SUBSET (Live(n2) \ {n2.root}), S # {}
          PROVE  \E n \in S : n2.parent[n] \in Live(n2) \ S
      <3>1. CASE S = {f}
        BY <1>0, <1>1, <1>2, <3>1
      <3>2. CASE S # {f}
        <4>1. S \ {f} \in SUBSET (Live(m) \ {m.root}) /\ S \ {f} # {}
          BY <1>1, <2>2, <3>2
        <4>2. PICK n \in S \ {f} : m.parent[n] \in Live(m) \ (S \ {f})
          BY <4>1 DEF Rooted
        <4> QED
          BY <1>0, <1>1, <1>2, <4>1, <4>2, ModelFields
      <3> QED
        BY <3>1, <3>2
    <2> QED
      BY <2>1, <2>2 DEF Rooted
  <1>5. GroupsWellPlaced(n2)
    <2>1. \A r \in m.relationships : n2.parent[r] = m.parent[r]
      BY <1>0, <1>2, ModelFields DEF Node
    <2> QED
      BY <1>1, <2>1 DEF GroupsWellPlaced
  <1> QED
    BY <1>3, <1>4, <1>5 DEF n2

\* A new feature below a node of the model.
LEMMA InsertKeeps ==
  ASSUME NEW m \in Model, WellFormed(m), NEW f \in Feature \ RootFeature, f \notin Live(m),
         NEW p \in Live(m), \A g \in m.features : NameOf[g] # NameOf[f]
  PROVE  WellFormed(Insert(m, f, p))
  <1> DEFINE n2 == Insert(m, f, p)
  <1>0. f \in Feature /\ p \in Node
    BY ModelFields DEF Live, Node
  <1>1. EdgesMatchParents(n2) /\ Rooted(n2) /\ GroupsWellPlaced(n2)
    BY InsertKeepsShape DEF WellFormed
  <1>2. /\ n2.features = m.features \cup {f} /\ n2.root = m.root
        /\ n2.constraints = m.constraints /\ n2.bound = m.bound
    BY <1>0 DEF Insert, Model
  <1> HIDE DEF n2
  <1>3. NamesIdentify(n2) /\ ConstraintsBound(n2)
    BY <1>2 DEF WellFormed, NamesIdentify, ConstraintsBound
  <1> QED
    BY <1>1, <1>3 DEF WellFormed, n2

\* Nodes go together with all that hangs below them, and with their edges.
LEMMA RemovalKeeps ==
  ASSUME NEW m \in Model, IsTree(m), NEW N \in SUBSET Node, m.root \notin N,
         \A n \in Node : m.parent[n] \in N => n \in N,
         NEW n2 \in Model,
         n2.features = m.features \ N, n2.relationships = m.relationships \ N,
         n2.root = m.root, n2.constraints = m.constraints, n2.bound = m.bound,
         n2.parent = [n \in Node |-> IF n \in N THEN Nil ELSE m.parent[n]],
         n2.edges = {e \in m.edges : e[2] \notin N}
  PROVE  /\ IsTree(n2)
         /\ ConstraintsBound(m) /\ (\A b \in m.bound : b[2] \notin N) => ConstraintsBound(n2)
  <1>1. Live(n2) = Live(m) \ N
    BY DEF Live
  <1>2. EdgesMatchParents(n2)
    <2>1. ASSUME NEW e \in n2.edges
          PROVE  e[1] \in Live(n2) /\ e[2] \in Live(n2) /\ n2.parent[e[2]] = e[1]
      <3>1. e[1] \in Live(m) /\ e[2] \in Live(m) /\ m.parent[e[2]] = e[1] /\ e[2] \notin N
        BY DEF IsTree, EdgesMatchParents
      <3>2. e[2] \in Node
        BY <3>1, ModelFields
      <3> QED
        BY <1>1, <3>1, <3>2
    <2>2. ASSUME NEW n \in Node, n2.parent[n] # Nil PROVE <<n2.parent[n], n>> \in n2.edges
      BY <2>2 DEF IsTree, EdgesMatchParents
    <2> QED
      BY <2>1, <2>2 DEF EdgesMatchParents
  <1>3. Rooted(n2)
    <2>1. n2.root \in n2.features /\ n2.parent[n2.root] = Nil
      BY ModelFields DEF IsTree, Rooted, Live, Node
    <2>2. ASSUME NEW S \in SUBSET (Live(n2) \ {n2.root}), S # {}
          PROVE  \E n \in S : n2.parent[n] \in Live(n2) \ S
      <3>1. S \in SUBSET (Live(m) \ {m.root})
        BY <1>1
      <3>2. PICK n \in S : m.parent[n] \in Live(m) \ S
        BY <2>2, <3>1 DEF IsTree, Rooted
      <3>3. n \in Node /\ n \notin N
        BY <1>1, <3>1, ModelFields
      <3> QED
        BY <1>1, <3>2, <3>3
    <2> QED
      BY <2>1, <2>2 DEF Rooted
  <1>4. GroupsWellPlaced(n2)
    <2>1. \A r \in n2.relationships : n2.parent[r] = m.parent[r] /\ m.parent[r] \notin N
      BY ModelFields DEF Node
    <2> QED
      BY <2>1 DEF IsTree, GroupsWellPlaced
  <1>5. NamesIdentify(n2)
    BY DEF IsTree, NamesIdentify, Rooted
  <1>6. ASSUME ConstraintsBound(m), \A b \in m.bound : b[2] \notin N
        PROVE  ConstraintsBound(n2)
    <2>1. \A b \in m.bound : b \in m.constraints \X (m.features \ N)
      BY <1>6 DEF ConstraintsBound
    <2> QED
      BY <2>1 DEF ConstraintsBound
  <1> QED
    BY <1>2, <1>3, <1>4, <1>5, <1>6 DEF IsTree

\* A new group takes in all features below p, which has no group yet.
LEMMA GroupedKeeps ==
  ASSUME NEW m \in Model, WellFormed(m), NEW r \in Relationship, r \notin Live(m),
         NEW p \in m.features, OwnGroups(m, p) = {}
  PROVE  WellFormed(Grouped(m, r, p))
  <1> DEFINE members == FeatureChildren(m, p)
             n2 == Grouped(m, r, p)
  <1>0. /\ r \in Node /\ r \notin Feature /\ r # p /\ r # Nil /\ m.parent[r] = Nil
        /\ p \in Feature /\ p \in Node /\ p \in Live(m) /\ p \notin Relationship /\ p # Nil
    BY ModelFields, NoParent, ConstantsAssumption DEF WellFormed, Node, Live
  <1>1. \A q \in Relationship : m.parent[q] # p
    <2>1. {p} \in SUBSET Node
      BY <1>0
    <2> QED
      BY <2>1, OwnGroupsAre DEF OwnGroups, WellFormed
  <1>2. /\ members = {x \in Node : m.parent[x] = p}
        /\ members \subseteq m.features /\ r \notin members
    <2>1. /\ members = {x \in Feature : m.parent[x] = p \/
                          (m.parent[x] \in Relationship /\ m.parent[m.parent[x]] = p)}
          /\ members \subseteq m.features
      BY <1>0, FeatureChildrenAre DEF WellFormed
    <2> QED
      BY <1>0, <1>1, <2>1 DEF Node
  <1>3. /\ n2.features = m.features /\ n2.relationships = m.relationships \cup {r}
        /\ n2.root = m.root /\ n2.constraints = m.constraints /\ n2.bound = m.bound
        /\ n2.edges = (m.edges \ ({p} \X members)) \cup ({r} \X members) \cup {<<p, r>>}
        /\ n2.parent = [n \in Node |-> IF n = r THEN p ELSE IF n \in members THEN r ELSE m.parent[n]]
        /\ Live(n2) = Live(m) \cup {r}
    BY <1>0, GroupedType DEF Live
  <1> HIDE DEF n2, members
  <1>4. EdgesMatchParents(n2)
    <2>1. ASSUME NEW e \in n2.edges
          PROVE  e[1] \in Live(n2) /\ e[2] \in Live(n2) /\ n2.parent[e[2]] = e[1]
      <3>1. CASE e \in m.edges \ ({p} \X members)
        <4>1. e[1] \in Live(m) /\ e[2] \in Live(m) /\ m.parent[e[2]] = e[1] /\ e = <<e[1], e[2]>>
          BY <3>1, ModelFields DEF WellFormed, EdgesMatchParents
        <4>2. e[2] \in Node /\ e[2] # r /\ e[2] \notin members
          BY <1>2, <3>1, <4>1, ModelFields
        <4> QED
          BY <1>3, <4>1, <4>2
      <3>2. CASE e \in {r} \X members
        BY <1>0, <1>2, <1>3, <3>2 DEF Live
      <3>3. CASE e = <<p, r>>
        BY <1>0, <1>3, <3>3
      <3> QED
        BY <1>3, <3>1, <3>2, <3>3
    <2>2. ASSUME NEW n \in Node, n2.parent[n] # Nil PROVE <<n2.parent[n], n>> \in n2.edges
      <3>1. CASE n = r \/ n \in members
        BY <1>2, <1>3, <3>1
      <3>2. CASE n # r /\ n \notin members
        <4>1. n2.parent[n] = m.parent[n]
          BY <1>3, <3>2
        <4>2. <<m.parent[n], n>> \in m.edges /\ m.parent[n] # p
          BY <1>2, <2>2, <3>2, <4>1 DEF WellFormed, EdgesMatchParents
        <4> QED
          BY <1>3, <4>1, <4>2
      <3> QED
        BY <3>1, <3>2
    <2> QED
      BY <2>1, <2>2 DEF EdgesMatchParents
  <1>5. Rooted(n2)
    <2>1. n2.root \in n2.features /\ n2.parent[n2.root] = Nil
      BY <1>0, <1>2, <1>3, ModelFields DEF WellFormed, Rooted, Node
    <2>2. ASSUME NEW S \in SUBSET (Live(n2) \ {n2.root}), S # {}
          PROVE  \E n \in S : n2.parent[n] \in Live(n2) \ S
      <3>1. CASE S = {r}
        BY <1>0, <1>3, <3>1
      <3>2. CASE S # {r}
        <4>1. S \ {r} \in SUBSET (Live(m) \ {m.root}) /\ S \ {r} # {}
          BY <1>3, <2>2, <3>2
        <4>2. PICK n \in S \ {r} : m.parent[n] \in Live(m) \ (S \ {r})
          BY <4>1 DEF WellFormed, Rooted
        <4>3. n \in Node /\ m.parent[n] # r
          BY <4>1, <4>2, ModelFields
        <4>4. CASE n \in members
          <5>1. n2.parent[n] = r /\ m.parent[n] = p
            BY <1>2, <1>3, <4>2, <4>3, <4>4
          <5>2. r \in S => n2.parent[r] = p /\ p \in Live(n2) \ S
            BY <1>0, <1>3, <4>2, <5>1
          <5> QED
            BY <1>3, <4>2, <5>1, <5>2
        <4>5. CASE n \notin members
          BY <1>3, <4>2, <4>3, <4>5
        <4> QED
          BY <4>4, <4>5
      <3> QED
        BY <3>1, <3>2
    <2> QED
      BY <2>1, <2>2 DEF Rooted
  <1>6. GroupsWellPlaced(n2)
    <2>1. \A q \in m.relationships : /\ q \in Relationship /\ q \in Node
                                     /\ n2.parent[q] = m.parent[q] /\ m.parent[q] # p
      BY <1>0, <1>1, <1>2, <1>3, ModelFields, ConstantsAssumption DEF Node, Live
    <2>2. n2.parent[r] = p
      BY <1>0, <1>3
    <2> QED
      BY <1>3, <2>1, <2>2 DEF WellFormed, GroupsWellPlaced
  <1>7. NamesIdentify(n2)
    BY <1>3 DEF WellFormed, NamesIdentify
  <1>8. ConstraintsBound(n2)
    BY <1>3 DEF WellFormed, ConstraintsBound
  <1> QED
    BY <1>4, <1>5, <1>6, <1>7, <1>8 DEF WellFormed, n2

\* The members of a group go to the feature the group hung below.
LEMMA UngroupedKeeps ==
  ASSUME NEW m \in Model, WellFormed(m), NEW p \in m.features, NEW r \in Relationship,
         m.parent[r] = p
  PROVE  WellFormed(Ungrouped(m, p, r))
  <1> DEFINE members == FeatureChildren(m, r)
             n2 == Ungrouped(m, p, r)
  <1>0. /\ r \in Node /\ r \notin Feature /\ r # p /\ r # Nil /\ r \in Live(m)
        /\ p \in Feature /\ p \in Node /\ p \in Live(m) /\ p # Nil /\ r # m.root
    <2>1. r \in Node /\ r \notin Feature /\ p \in Feature /\ p \in Node
      BY ModelFields, ConstantsAssumption DEF Node
    <2>2. r \in Live(m) /\ p \in Live(m)
      BY <2>1, EdgeIsParent DEF WellFormed
    <2> QED
      BY <2>1, <2>2, ModelFields, ConstantsAssumption DEF WellFormed, Rooted
  <1>1. members = {x \in Node : m.parent[x] = r} /\ members \subseteq m.features /\ r \notin members
    BY <1>0, GroupMembers, ModelFields DEF WellFormed
  <1>2. /\ n2.features = m.features /\ n2.relationships = m.relationships \ {r}
        /\ n2.root = m.root /\ n2.constraints = m.constraints /\ n2.bound = m.bound
        /\ n2.edges = {e \in (m.edges \ (({r} \X members) \cup {<<p, r>>})) \cup ({p} \X members) :
                         e[1] \notin {r}}
        /\ n2.parent = [n \in Node |-> IF n = r THEN Nil ELSE IF n \in members THEN p ELSE m.parent[n]]
        /\ Live(n2) = Live(m) \ {r}
    <2>1. /\ n2.features = m.features \ {r} /\ n2.relationships = m.relationships \ {r}
          /\ n2.root = m.root /\ n2.constraints = m.constraints /\ n2.bound = m.bound
          /\ n2.edges = {e \in (m.edges \ (({r} \X members) \cup {<<p, r>>})) \cup ({p} \X members) :
                           e[1] \notin {r}}
          /\ n2.parent = [n \in Node |-> IF n = r THEN Nil ELSE IF n \in members THEN p ELSE m.parent[n]]
      BY <1>0, UngroupedType
    <2>2. m.features \ {r} = m.features
      BY <1>0, ModelFields
    <2> HIDE DEF n2, members
    <2> QED
      BY <2>1, <2>2 DEF Live
  <1> HIDE DEF n2, members
  <1>3. EdgesMatchParents(n2)
    <2>1. ASSUME NEW e \in n2.edges
          PROVE  e[1] \in Live(n2) /\ e[2] \in Live(n2) /\ n2.parent[e[2]] = e[1]
      <3>1. CASE e \in m.edges /\ e # <<p, r>>
        <4>1. e[1] \in Live(m) /\ e[2] \in Live(m) /\ m.parent[e[2]] = e[1] /\ e = <<e[1], e[2]>>
          BY <3>1, ModelFields DEF WellFormed, EdgesMatchParents
        <4>2. e[1] # r /\ e[2] # r /\ e[2] \in Node /\ e[2] \notin members
          BY <1>1, <1>2, <3>1, <4>1, ModelFields
        <4> QED
          BY <1>2, <4>1, <4>2
      <3>2. CASE e \in {p} \X members
        BY <1>0, <1>1, <1>2, <3>2 DEF Live
      <3> QED
        BY <1>2, <3>1, <3>2
    <2>2. ASSUME NEW n \in Node, n2.parent[n] # Nil PROVE <<n2.parent[n], n>> \in n2.edges
      <3>1. n # r
        BY <1>2, <2>2
      <3>2. CASE n \in members
        BY <1>0, <1>2, <3>1, <3>2
      <3>3. CASE n \notin members
        <4>1. n2.parent[n] = m.parent[n] /\ m.parent[n] # r
          BY <1>1, <1>2, <3>1, <3>3
        <4>2. <<m.parent[n], n>> \in m.edges
          BY <2>2, <4>1 DEF WellFormed, EdgesMatchParents
        <4> QED
          BY <1>2, <3>1, <3>3, <4>1, <4>2
      <3> QED
        BY <3>2, <3>3
    <2> QED
      BY <2>1, <2>2 DEF EdgesMatchParents
  <1>4. Rooted(n2)
    <2>1. n2.root \in n2.features /\ n2.parent[n2.root] = Nil
      BY <1>0, <1>1, <1>2, ModelFields, ConstantsAssumption DEF WellFormed, Rooted, Node
    <2>2. ASSUME NEW S \in SUBSET (Live(n2) \ {n2.root}), S # {}
          PROVE  \E n \in S : n2.parent[n] \in Live(n2) \ S
      <3>0. /\ S \in SUBSET (Live(m) \ {m.root}) /\ r \notin S
            /\ S \cup {r} \in SUBSET (Live(m) \ {m.root}) /\ S \subseteq Node
        BY <1>0, <1>2, ModelFields
      <3>1. PICK n \in S : m.parent[n] \in Live(m) \ S
        BY <2>2, <3>0 DEF WellFormed, Rooted
      <3>2. CASE n \notin members
        BY <1>1, <1>2, <3>0, <3>1, <3>2
      <3>3. CASE n \in members /\ p \notin S
        BY <1>0, <1>2, <3>0, <3>1, <3>3
      <3>4. CASE n \in members /\ p \in S
        <4>1. S \cup {r} # {}
          OBVIOUS
        <4>2. PICK x \in S \cup {r} : m.parent[x] \in Live(m) \ (S \cup {r})
          BY <3>0, <4>1 DEF WellFormed, Rooted
        <4>3. x \in S /\ x \notin members
          BY <1>1, <3>4, <4>2
        <4> QED
          BY <1>2, <3>0, <4>2, <4>3
      <3> QED
        BY <3>2, <3>3, <3>4
    <2> QED
      BY <2>1, <2>2 DEF Rooted
  <1>5. GroupsWellPlaced(n2)
    <2>1. \A q \in n2.relationships : q \in m.relationships /\ n2.parent[q] = m.parent[q]
      BY <1>0, <1>1, <1>2, ModelFields, ConstantsAssumption DEF Node
    <2> QED
      BY <1>2, <2>1 DEF WellFormed, GroupsWellPlaced
  <1>6. NamesIdentify(n2)
    BY <1>2 DEF WellFormed, NamesIdentify
  <1>7. ConstraintsBound(n2)
    BY <1>2 DEF WellFormed, ConstraintsBound
  <1> QED
    BY <1>3, <1>4, <1>5, <1>6, <1>7 DEF WellFormed, n2

\* The new root takes the place of the old one.
LEMMA RootReplacedKeeps ==
  ASSUME NEW m \in Model, WellFormed(m), NEW f \in RootFeature, f \notin Live(m),
         \A g \in m.features : NameOf[g] # NameOf[f],
         \A b \in m.bound : b[2] # m.root
  PROVE  WellFormed(RootReplaced(m, f))
  <1> DEFINE children == Targets(m, {m.root})
             n2 == RootReplaced(m, f)
  <1>0. /\ f \in Feature /\ f \in Node /\ f # Nil /\ f \notin Relationship /\ m.parent[f] = Nil
        /\ m.root \in Feature /\ m.root \in Node /\ m.root # f /\ m.root \in m.features
        /\ m.parent[m.root] = Nil /\ m.root \notin Relationship
    BY ModelFields, NoParent, ConstantsAssumption DEF WellFormed, Rooted, Node, Live
  <1>1. /\ children = {x \in Node : m.parent[x] = m.root} /\ children \subseteq Live(m)
        /\ m.root \notin children /\ f \notin children
    <2>1. {m.root} \in SUBSET Node
      BY <1>0
    <2>2. children = {x \in Node : m.parent[x] \in {m.root}} /\ children \subseteq Live(m)
      BY <2>1, TargetsAreChildren DEF WellFormed
    <2> QED
      BY <1>0, <2>2, ConstantsAssumption
  <1>2. /\ n2.features = (m.features \cup {f}) \ {m.root} /\ n2.relationships = m.relationships
        /\ n2.root = f /\ n2.constraints = m.constraints /\ n2.bound = m.bound
        /\ n2.edges = {e \in m.edges \cup ({f} \X children) : e[1] \notin {m.root}}
        /\ n2.parent = [n \in Node |-> IF n = m.root THEN Nil
                                        ELSE IF n \in children THEN f ELSE m.parent[n]]
    <2>1. /\ n2.features = (m.features \cup {f}) \ {m.root}
          /\ n2.relationships = m.relationships \ {m.root}
          /\ n2.root = f /\ n2.constraints = m.constraints /\ n2.bound = m.bound
          /\ n2.edges = {e \in m.edges \cup ({f} \X children) : e[1] \notin {m.root}}
          /\ n2.parent = [n \in Node |-> IF n = m.root THEN Nil
                                          ELSE IF n \in children THEN f ELSE m.parent[n]]
      BY <1>0, RootReplacedType
    <2>2. m.relationships \ {m.root} = m.relationships
      BY <1>0, ModelFields
    <2> HIDE DEF n2, children
    <2> QED
      BY <2>1, <2>2
  <1> HIDE DEF n2, children
  <1>3. Live(n2) = (Live(m) \cup {f}) \ {m.root}
    BY <1>0, <1>2, ModelFields DEF Live
  <1>4. EdgesMatchParents(n2)
    <2>1. ASSUME NEW e \in n2.edges
          PROVE  e[1] \in Live(n2) /\ e[2] \in Live(n2) /\ n2.parent[e[2]] = e[1]
      <3>1. CASE e \in m.edges
        <4>1. /\ e[1] \in Live(m) /\ e[2] \in Live(m) /\ m.parent[e[2]] = e[1]
              /\ e[1] \in Node /\ e[2] \in Node
          BY <3>1, ModelFields DEF WellFormed, EdgesMatchParents
        <4>2. e[1] # m.root /\ e[2] # m.root /\ e[2] \notin children
          BY <1>0, <1>1, <1>2, <4>1, ConstantsAssumption
        <4> QED
          BY <1>2, <1>3, <4>1, <4>2
      <3>2. CASE e \in {f} \X children
        BY <1>0, <1>1, <1>2, <1>3, <3>2, ModelFields
      <3> QED
        BY <1>2, <3>1, <3>2
    <2>2. ASSUME NEW n \in Node, n2.parent[n] # Nil PROVE <<n2.parent[n], n>> \in n2.edges
      <3>1. n # m.root
        BY <1>2, <2>2
      <3>2. CASE n \in children
        BY <1>0, <1>2, <3>1, <3>2
      <3>3. CASE n \notin children
        <4>1. n2.parent[n] = m.parent[n] /\ m.parent[n] # m.root
          BY <1>1, <1>2, <3>1, <3>3
        <4>2. <<m.parent[n], n>> \in m.edges
          BY <2>2, <4>1 DEF WellFormed, EdgesMatchParents
        <4> QED
          BY <1>2, <4>1, <4>2
      <3> QED
        BY <3>2, <3>3
    <2> QED
      BY <2>1, <2>2 DEF EdgesMatchParents
  <1>5. Rooted(n2)
    <2>1. n2.root \in n2.features /\ n2.parent[n2.root] = Nil
      BY <1>0, <1>1, <1>2
    <2>2. ASSUME NEW S \in SUBSET (Live(n2) \ {n2.root}), S # {}
          PROVE  \E n \in S : n2.parent[n] \in Live(n2) \ S
      <3>1. S \in SUBSET (Live(m) \ {m.root}) /\ f \notin S /\ S \subseteq Node
        BY <1>2, <1>3, ModelFields
      <3>2. PICK n \in S : m.parent[n] \in Live(m) \ S
        BY <2>2, <3>1 DEF WellFormed, Rooted
      <3> QED
        BY <1>0, <1>1, <1>2, <1>3, <3>1, <3>2
    <2> QED
      BY <2>1, <2>2 DEF Rooted
  <1>6. GroupsWellPlaced(n2)
    <2>1. ASSUME NEW q \in m.relationships
          PROVE  /\ m.parent[q] \in m.features
                 /\ n2.parent[q] = IF m.parent[q] = m.root THEN f ELSE m.parent[q]
      <3>1. q \in Node /\ q # m.root
        BY <1>0, ModelFields DEF Node
      <3> QED
        BY <1>1, <1>2, <3>1 DEF WellFormed, GroupsWellPlaced
    <2>2. \A q \in m.relationships : m.parent[q] # f
      BY <2>1 DEF Live
    <2> QED
      BY <1>0, <1>2, <2>1, <2>2 DEF WellFormed, GroupsWellPlaced
  <1>7. NamesIdentify(n2)
    BY <1>0, <1>2 DEF WellFormed, NamesIdentify
  <1>8. ConstraintsBound(n2)
    <2>1. \A b \in m.bound : b \in m.constraints \X n2.features
      BY <1>2 DEF WellFormed, ConstraintsBound
    <2> QED
      BY <1>2, <2>1 DEF ConstraintsBound
  <1> QED
    BY <1>4, <1>5, <1>6, <1>7, <1>8 DEF WellFormed, n2

\* A node moves, with all that is below it, to a place that is not below it.
LEMMA AttachedKeeps ==
  ASSUME NEW m \in Model, WellFormed(m), NEW p \in Live(m), NEW c \in Live(m),
         c # m.root, p \notin Below(m, c),
         c \in Relationship => p \in Feature /\ OwnGroups(m, p) \subseteq {c}
  PROVE  WellFormed(Attached(m, p, c))
  <1> DEFINE n2 == Attached(m, p, c)
             B == Below(m, c)
  <1>0. p \in Node /\ c \in Node /\ m.parent[c] \in Live(m) /\ Nil \notin Node
    BY ModelFields, ParentIsLive, ConstantsAssumption DEF WellFormed
  <1>1. c \in B /\ p # c /\ \A x \in Node : m.parent[x] \in B => x \in B
    BY <1>0, BelowIsClosed DEF WellFormed
  <1>2. /\ n2.features = m.features /\ n2.relationships = m.relationships
        /\ n2.root = m.root /\ n2.constraints = m.constraints /\ n2.bound = m.bound
        /\ n2.parent = [m.parent EXCEPT ![c] = p]
        /\ n2.edges = (m.edges \ {<<m.parent[c], c>>}) \cup {<<p, c>>}
        /\ Live(n2) = Live(m)
    BY <1>0, AttachedType DEF Live
  <1>3. \A n \in Node : n2.parent[n] = IF n = c THEN p ELSE m.parent[n]
    BY <1>0, <1>2, ModelFields
  <1> HIDE DEF n2, B
  <1>4. EdgesMatchParents(n2)
    <2>1. ASSUME NEW e \in n2.edges
          PROVE  e[1] \in Live(n2) /\ e[2] \in Live(n2) /\ n2.parent[e[2]] = e[1]
      <3>1. CASE e \in m.edges /\ e # <<m.parent[c], c>>
        <4>1. /\ e[1] \in Live(m) /\ e[2] \in Live(m) /\ m.parent[e[2]] = e[1]
              /\ e = <<e[1], e[2]>> /\ e[2] \in Node
          BY <3>1, ModelFields DEF WellFormed, EdgesMatchParents
        <4>2. e[2] # c
          BY <3>1, <4>1
        <4> QED
          BY <1>2, <1>3, <4>1, <4>2
      <3>2. CASE e = <<p, c>>
        BY <1>0, <1>2, <1>3, <3>2
      <3> QED
        BY <1>2, <3>1, <3>2
    <2>2. ASSUME NEW n \in Node, n2.parent[n] # Nil PROVE <<n2.parent[n], n>> \in n2.edges
      BY <1>2, <1>3, <2>2 DEF WellFormed, EdgesMatchParents
    <2> QED
      BY <2>1, <2>2 DEF EdgesMatchParents
  <1>5. Rooted(n2)
    <2>1. n2.root \in n2.features /\ n2.parent[n2.root] = Nil
      BY <1>2, <1>3, ModelFields DEF WellFormed, Rooted, Live, Node
    <2>2. ASSUME NEW S \in SUBSET (Live(n2) \ {n2.root}), S # {}
          PROVE  \E n \in S : n2.parent[n] \in Live(n2) \ S
      <3>0. S \in SUBSET (Live(m) \ {m.root}) /\ S \subseteq Node
        BY <1>2, ModelFields
      <3>1. CASE c \notin S
        <4>1. PICK n \in S : m.parent[n] \in Live(m) \ S
          BY <2>2, <3>0 DEF WellFormed, Rooted
        <4> QED
          BY <1>2, <1>3, <3>0, <3>1, <4>1
      <3>2. CASE c \in S /\ p \notin S
        BY <1>0, <1>2, <1>3, <3>2
      <3>3. CASE c \in S /\ p \in S
        <4>1. S \ B \in SUBSET (Live(m) \ {m.root}) /\ S \ B # {}
          BY <3>0, <3>3 DEF B
        <4>2. PICK n \in S \ B : m.parent[n] \in Live(m) \ (S \ B)
          BY <4>1 DEF WellFormed, Rooted
        <4>3. n # c /\ m.parent[n] \notin B
          BY <1>1, <3>0, <4>2
        <4> QED
          BY <1>2, <1>3, <3>0, <4>2, <4>3
      <3> QED
        BY <3>1, <3>2, <3>3
    <2> QED
      BY <2>1, <2>2 DEF Rooted
  <1>6. GroupsWellPlaced(n2)
    <2>1. ASSUME NEW q \in m.relationships
          PROVE  /\ q \in Relationship /\ m.parent[q] \in m.features
                 /\ n2.parent[q] = IF q = c THEN p ELSE m.parent[q]
      BY <1>3, ModelFields DEF WellFormed, GroupsWellPlaced, Node
    <2>2. ASSUME c \in Relationship
          PROVE  p \in m.features /\ \A q \in m.relationships : m.parent[q] = p => q = c
      <3>1. {p} \in SUBSET Node
        BY <1>0
      <3>2. OwnGroups(m, p) = {q \in Relationship : m.parent[q] \in {p}}
        BY <3>1, OwnGroupsAre DEF OwnGroups, WellFormed
      <3> QED
        BY <2>1, <2>2, <3>2, ModelFields, ConstantsAssumption DEF Live
    <2> QED
      BY <1>2, <2>1, <2>2 DEF WellFormed, GroupsWellPlaced
  <1>7. NamesIdentify(n2)
    BY <1>2 DEF WellFormed, NamesIdentify
  <1>8. ConstraintsBound(n2)
    BY <1>2 DEF WellFormed, ConstraintsBound
  <1> QED
    BY <1>4, <1>5, <1>6, <1>7, <1>8 DEF WellFormed, n2

-------------------------------------------------------------------------------
(* The modifications *)

\* One outcome, which is defined and leaves a well-formed model.
Harmless(outcomes) ==
  /\ \A o \in outcomes : o.code # "UB" /\ WellFormed(o.model)
  /\ \A o, q \in outcomes : o = q

\* A call that fails leaves a well-formed model as it was.
LEMMA FailureIsHarmless ==
  ASSUME NEW m, WellFormed(m), NEW code \in ErrorCode
  PROVE  Harmless(Fails(m, code))
  BY DEF Harmless, Fails, Outcome, ErrorCode

\* So does a call that succeeds without a change.
LEMMA SuccessIsHarmless ==
  ASSUME NEW m, WellFormed(m)
  PROVE  Harmless(Succeeds(m))
  BY DEF Harmless, Succeeds, Outcome

\* Locations, texts and constraints are no part of the tree.
LEMMA SameTree ==
  ASSUME NEW m, WellFormed(m), NEW n2,
         n2.features = m.features, n2.relationships = m.relationships, n2.root = m.root,
         n2.parent = m.parent, n2.edges = m.edges, ConstraintsBound(n2)
  PROVE  WellFormed(n2)
  BY DEF WellFormed, EdgesMatchParents, Rooted, GroupsWellPlaced, NamesIdentify, Live

\* addFeature: a new feature below one of the model, or below its root.
LEMMA AddFeatureIsHarmless ==
  ASSUME NEW m \in Model, WellFormed(m), NEW f \in Feature, f \notin Live(m),
         NEW parent \in Feature \cup {Nil}, MayAddFeature(m, f, parent)
  PROVE  Harmless(AddFeature(m, f, parent, Live(m)))
  <1> DEFINE p == IF parent # Nil THEN parent ELSE m.root
  <1>1. p \in Live(m) /\ p # Nil
    BY ModelFields, ConstantsAssumption DEF WellFormed, Rooted, Live, MayAddFeature, Node
  <1>2. CASE GetFeature(m, NameOf[f]) # Nil
    BY <1>2, FailureIsHarmless DEF AddFeature, ErrorCode
  <1>3. CASE GetFeature(m, NameOf[f]) = Nil
    <2>1. \A g \in m.features : NameOf[g] # NameOf[f]
      BY <1>3, GetFeatureFinds
    <2>2. WellFormed(Insert(m, f, p))
      BY <1>1, <2>1, InsertKeeps DEF MayAddFeature
    <2>3. AddFeature(m, f, parent, Live(m)) = Succeeds(Insert(m, f, p))
      BY <1>1, <1>3 DEF AddFeature
    <2> QED
      BY <2>2, <2>3, SuccessIsHarmless
  <1> QED
    BY <1>2, <1>3

\* A relationship with a parent is the one group of a feature.
LEMMA GroupWithParent ==
  ASSUME NEW m \in Model, IsTree(m), NEW r \in Relationship, m.parent[r] # Nil
  PROVE  /\ r \in m.relationships /\ m.parent[r] \in m.features
         /\ \A q \in Relationship : m.parent[q] = m.parent[r] => q = r
  <1>1. ASSUME NEW q \in Relationship, m.parent[q] # Nil PROVE q \in m.relationships
    <2>1. q \in Node /\ m.parent[q] \in Node /\ q \notin Feature
      BY <1>1, ModelFields, ConstantsAssumption DEF Node
    <2>2. q \in Live(m)
      BY <2>1, EdgeIsParent DEF IsTree
    <2> QED
      BY <2>1, <2>2, ModelFields DEF Live
  <1> QED
    BY <1>1 DEF IsTree, GroupsWellPlaced

\* Below a feature without features there is at most one group.
LEMMA LeafGroups ==
  ASSUME NEW m \in Model, IsTree(m), NEW f \in Feature, FeatureChildren(m, f) = {}
  PROVE  RelationshipChildren(m, f) = {r \in Relationship : m.parent[r] = f}
  <1>1. f \in Node /\ {f} \in SUBSET Node
    BY DEF Node
  <1>2. Targets(m, {f}) = {c \in Node : m.parent[c] \in {f}}
    BY <1>1, TargetsAreChildren DEF IsTree
  <1>3. Targets(m, {f}) \cap Feature = {}
    BY <1>1, <1>2, FeatureChildrenAre DEF IsTree
  <1>4. Through(m, f, Feature) = {}
    <2>1. {} \in SUBSET Feature /\ {f} \cup {} = {f}
      OBVIOUS
    <2> QED
      BY <1>3, <2>1 DEF Through
  <1>5. RelationshipChildren(m, f) = Targets(m, {f}) \cap Relationship
    <2>1. {f} \cup {} = {f}
      OBVIOUS
    <2> QED
      BY <1>4, <2>1 DEF RelationshipChildren
  <1> QED
    BY <1>2, <1>5 DEF Node

\* What is left when a feature without features goes with its group.
LEMMA UnlinkedIs ==
  ASSUME NEW m \in Model, IsTree(m), NEW f \in m.features, f # m.root,
         FeatureChildren(m, f) = {},
         NEW N \in SUBSET Node, N = {f} \cup {r \in Relationship : m.parent[r] = f}
  PROVE  /\ m.root \notin N
         /\ \A n \in Node : m.parent[n] \in N => n \in N
         /\ Unlinked(m, f, N) \in Model
         /\ Unlinked(m, f, N).features = m.features \ N
         /\ Unlinked(m, f, N).relationships = m.relationships \ N
         /\ Unlinked(m, f, N).root = m.root
         /\ Unlinked(m, f, N).parent = [n \in Node |-> IF n \in N THEN Nil ELSE m.parent[n]]
         /\ Unlinked(m, f, N).edges = {e \in m.edges : e[2] \notin N}
         /\ Unlinked(m, f, N).constraints = m.constraints
         /\ Unlinked(m, f, N).bound = m.bound
  <1>0. f \in Feature /\ f \in Node /\ f \notin Relationship
    BY ModelFields, ConstantsAssumption DEF Node
  <1>1. ASSUME NEW n \in Node, m.parent[n] \in N PROVE n \in N
    <2>1. \A x \in Feature : m.parent[x] # f /\ ~(/\ m.parent[x] \in Relationship
                                                 /\ m.parent[m.parent[x]] = f)
      BY <1>0, FeatureChildrenAre DEF IsTree
    <2>2. n \in Relationship => m.parent[n] \notin Relationship
      BY GroupWithParent, ModelFields, ConstantsAssumption DEF Node
    <2> QED
      BY <1>1, <2>1, <2>2 DEF Node
  <1>2. m.root \notin N
    BY ModelFields, ConstantsAssumption DEF IsTree, Rooted
  <1>3. {e \in m.edges : e # <<m.parent[f], f>> /\ e[1] \notin N} = {e \in m.edges : e[2] \notin N}
    <2>1. ASSUME NEW e \in m.edges
          PROVE  e = <<m.parent[e[2]], e[2]>> /\ e[1] = m.parent[e[2]] /\ e[2] \in Node
      BY ModelFields DEF IsTree, EdgesMatchParents
    <2>2. ASSUME NEW e \in m.edges
          PROVE  (e # <<m.parent[f], f>> /\ e[1] \notin N) <=> e[2] \notin N
      BY <1>0, <1>1, <2>1
    <2> QED
      BY <2>2
  <1> QED
    BY <1>0, <1>1, <1>2, <1>3, UnlinkedType

\* It is a tree, and well-formed if no constraint points at the feature.
LEMMA UnlinkedKeeps ==
  ASSUME NEW m \in Model, IsTree(m), NEW f \in m.features, f # m.root,
         FeatureChildren(m, f) = {},
         NEW N \in SUBSET Node, N = {f} \cup {r \in Relationship : m.parent[r] = f}
  PROVE  /\ IsTree(Unlinked(m, f, N))
         /\ ConstraintsBound(m) /\ (\A b \in m.bound : b[2] # f)
              => ConstraintsBound(Unlinked(m, f, N))
  <1>1. (\A b \in m.bound : b[2] # f) => \A b \in m.bound : b[2] \notin N
    <2>1. \A b \in m.bound : b[2] \in Feature
      BY ModelFields
    <2> QED
      BY <2>1, ConstantsAssumption
  <1> DEFINE n2 == Unlinked(m, f, N)
  <1>2. /\ m.root \notin N
        /\ \A n \in Node : m.parent[n] \in N => n \in N
        /\ n2 \in Model
        /\ n2.features = m.features \ N /\ n2.relationships = m.relationships \ N
        /\ n2.root = m.root /\ n2.constraints = m.constraints /\ n2.bound = m.bound
        /\ n2.parent = [n \in Node |-> IF n \in N THEN Nil ELSE m.parent[n]]
        /\ n2.edges = {e \in m.edges : e[2] \notin N}
    BY UnlinkedIs
  <1> HIDE DEF n2
  <1>3. IsTree(n2) /\ (ConstraintsBound(m) /\ (\A b \in m.bound : b[2] \notin N) => ConstraintsBound(n2))
    BY <1>2, RemovalKeeps
  <1> QED
    BY <1>1, <1>3 DEF n2

\* Where names identify features, the features given are those that are erased.
LEMMA ErasedIs ==
  ASSUME NEW m \in Model, IsTree(m), NEW D \in SUBSET m.features
  PROVE  Erased(m, D) = D
  BY DEF Erased, IsTree, NamesIdentify

\* The removal of a feature in a tree is defined; it fails above other features.
LEMMA RemoveLeafIs ==
  ASSUME NEW m \in Model, IsTree(m), NEW f \in m.features, f # m.root
  PROVE  LET own == {r \in Relationship : m.parent[r] = f} IN
         /\ {f} \cup own \in SUBSET Node
         /\ RemoveLeaf(m, f, Live(m)) = IF HasNoFeatures(m, f) THEN Succeeds(Unlinked(m, f, {f} \cup own))
                               ELSE Fails(m, "NON_LEAF_NODE")
  <1> DEFINE own == {r \in Relationship : m.parent[r] = f}
             groups == RelationshipChildren(m, f)
  <1>0. f \in Feature /\ f \in Node /\ f \in Live(m)
    BY ModelFields DEF Live, Node
  <1>1. WalkIsSafe(m, f, Relationship, Live(m)) /\ m.parent[f] \in Live(m)
    BY <1>0, RelationshipWalkIsSafe, ParentIsLive DEF IsTree
  <1>2. {f} \cup own \in SUBSET Node
    BY <1>0 DEF Node
  <1>5. Erased(m, {f}) = {f}
    BY ErasedIs
  <1>6. m.parent[f] \notin own
    <2> SUFFICES ASSUME m.parent[f] \in own PROVE FALSE
      OBVIOUS
    <2>1. {f, m.parent[f]} \in SUBSET Node /\ {f, m.parent[f]} # {}
      BY <1>0 DEF Node
    <2>2. \A x \in {f, m.parent[f]} : m.parent[x] \in {f, m.parent[f]}
      OBVIOUS
    <2> QED
      BY <2>1, <2>2, NoCycle DEF IsTree
  <1>3. CASE ~HasNoFeatures(m, f)
    BY <1>1, <1>2, <1>3 DEF RemoveLeaf
  <1>4. CASE HasNoFeatures(m, f)
    <2>1. groups = own
      BY <1>0, <1>4, LeafGroups DEF HasNoFeatures
    <2>2. \A r, q \in own : r = q
      BY <1>0, GroupWithParent, ConstantsAssumption
    <2> HIDE DEF own, groups
    <2>3. RemoveLeaf(m, f, Live(m)) = Succeeds(Unlinked(m, f, {f} \cup own))
      <3>1. CASE own = {}
        <4>1. /\ m.parent[f] \in Live(m) \ {}
              /\ RemoveLeaf(m, f, Live(m)) =
                   UNION {IF m.parent[f] \notin Live(m) \ R THEN Undefined(m)
                          ELSE Succeeds(Unlinked(m, f, {f} \cup R)) : R \in {{}}}
          BY <1>1, <1>4, <1>5, <2>1, <3>1 DEF RemoveLeaf, groups
        <4> QED
          BY <3>1, <4>1
      <3>2. CASE own # {}
        <4>1. PICK r \in own : own = {r}
          BY <2>2, <3>2
        <4>2. {{q} : q \in own} = {own}
          BY <4>1
        <4>3. /\ m.parent[f] \in Live(m) \ own
              /\ RemoveLeaf(m, f, Live(m)) =
                   UNION {IF m.parent[f] \notin Live(m) \ R THEN Undefined(m)
                          ELSE Succeeds(Unlinked(m, f, {f} \cup R)) : R \in {own}}
          BY <1>1, <1>4, <1>5, <1>6, <2>1, <3>2, <4>2 DEF RemoveLeaf, groups
        <4> QED
          BY <4>3
      <3> QED
        BY <3>1, <3>2
    <2> QED
      BY <1>2, <1>4, <2>3 DEF own
  <1> QED
    BY <1>3, <1>4

\* removeFeature without recursion: a leaf no constraint is bound to.
LEMMA RemoveLeafIsHarmless ==
  ASSUME NEW m \in Model, WellFormed(m), NEW f \in m.features, f # m.root,
         \A b \in m.bound : b[2] # f
  PROVE  Harmless(RemoveLeaf(m, f, Live(m)))
  <1> DEFINE N == {f} \cup {r \in Relationship : m.parent[r] = f}
  <1>1. /\ IsTree(m) /\ ConstraintsBound(m) /\ N \in SUBSET Node
        /\ RemoveLeaf(m, f, Live(m)) = IF HasNoFeatures(m, f) THEN Succeeds(Unlinked(m, f, N))
                              ELSE Fails(m, "NON_LEAF_NODE")
    BY WellFormedIsTree, RemoveLeafIs
  <1>2. HasNoFeatures(m, f) => WellFormed(Unlinked(m, f, N))
    BY <1>1, UnlinkedKeeps, WellFormedIsTree DEF HasNoFeatures
  <1> HIDE DEF N
  <1> QED
    BY <1>1, <1>2, FailureIsHarmless, SuccessIsHarmless DEF ErrorCode

\* What is left when a subtree goes with the groups in it.
LEMMA PrunedIs ==
  ASSUME NEW m \in Model, IsTree(m), NEW f \in m.features, f # m.root
  PROVE  LET D == Subtree(m, f)
             N == D \cup {r \in Relationship : m.parent[r] \in D}
         IN  /\ N \in SUBSET Node /\ D \subseteq m.features
             /\ m.root \notin N
             /\ \A n \in Node : m.parent[n] \in N => n \in N
             /\ Pruned(m, D) \in Model
             /\ Pruned(m, D).features = m.features \ N
             /\ Pruned(m, D).relationships = m.relationships \ N
             /\ Pruned(m, D).root = m.root
             /\ Pruned(m, D).parent = [n \in Node |-> IF n \in N THEN Nil ELSE m.parent[n]]
             /\ Pruned(m, D).edges = {e \in m.edges : e[2] \notin N}
             /\ Pruned(m, D).constraints = m.constraints
             /\ Pruned(m, D).bound = m.bound
  <1> DEFINE D == Subtree(m, f)
             groups == {r \in Relationship : m.parent[r] \in D}
             N == D \cup groups
  <1>0. f \in Feature /\ Feature \subseteq Node /\ Relationship \subseteq Node
    BY ModelFields DEF Node
  <1>1. /\ D \subseteq Feature /\ D \in SUBSET Node /\ D \subseteq m.features
        /\ \A y \in D : FeatureChildren(m, y) \subseteq D
        /\ m.root \notin D
    BY <1>0, SubtreeIsClosed, SubtreeIsAcyclic DEF IsTree
  <1>2. GroupsOf(m, D) = groups
    BY <1>1, OwnGroupsAre DEF IsTree
  <1> HIDE DEF D
  <1>3. ASSUME NEW n \in Node, m.parent[n] \in N PROVE n \in N
    <2>1. ASSUME NEW y \in D
          PROVE  FeatureChildren(m, y) =
                   {x \in Feature : m.parent[x] = y \/
                                    (m.parent[x] \in Relationship /\ m.parent[m.parent[x]] = y)}
      BY <1>0, <1>1, FeatureChildrenAre DEF IsTree
    <2>2. n \in Feature => n \in D
      BY <1>1, <1>3, <2>1
    <2>3. n \in Relationship => m.parent[n] \notin Relationship
      BY GroupWithParent, ModelFields, ConstantsAssumption DEF Node
    <2> QED
      BY <1>3, <2>2, <2>3 DEF Node
  <1>4. m.root \notin N
    BY <1>1, ModelFields, ConstantsAssumption DEF IsTree, Rooted
  <1>5. {e \in m.edges : /\ e[2] \in D => e[1] # m.parent[e[2]]
                         /\ ~(e[1] \in D /\ e[2] \in groups)
                         /\ e[1] \notin N} =
        {e \in m.edges : e[2] \notin N}
    <2>1. ASSUME NEW e \in m.edges PROVE e[1] = m.parent[e[2]] /\ e[2] \in Node
      BY ModelFields DEF IsTree, EdgesMatchParents
    <2>2. ASSUME NEW e \in m.edges
          PROVE  /\ e[2] \in D => e[1] # m.parent[e[2]]
                 /\ ~(e[1] \in D /\ e[2] \in groups)
                 /\ e[1] \notin N
                 <=> e[2] \notin N
      BY <1>3, <2>1
    <2> QED
      BY <2>2
  <1>6. D \in SUBSET Feature /\ N \in SUBSET Node /\ Erased(m, D) = D
    BY <1>0, <1>1, ErasedIs
  <1> QED
    BY <1>1, <1>2, <1>3, <1>4, <1>5, <1>6, PrunedType DEF D

\* It is a tree, and well-formed if no constraint points into the subtree.
LEMMA PrunedKeeps ==
  ASSUME NEW m \in Model, IsTree(m), NEW f \in m.features, f # m.root
  PROVE  /\ IsTree(Pruned(m, Subtree(m, f)))
         /\ ConstraintsBound(m) /\ (\A b \in m.bound : b[2] \notin Subtree(m, f))
              => ConstraintsBound(Pruned(m, Subtree(m, f)))
  <1> DEFINE D == Subtree(m, f)
             N == D \cup {r \in Relationship : m.parent[r] \in D}
             n2 == Pruned(m, D)
  <1>1. /\ N \in SUBSET Node /\ m.root \notin N
        /\ \A n \in Node : m.parent[n] \in N => n \in N
        /\ n2 \in Model
        /\ n2.features = m.features \ N /\ n2.relationships = m.relationships \ N
        /\ n2.root = m.root /\ n2.constraints = m.constraints /\ n2.bound = m.bound
        /\ n2.parent = [n \in Node |-> IF n \in N THEN Nil ELSE m.parent[n]]
        /\ n2.edges = {e \in m.edges : e[2] \notin N}
    BY PrunedIs
  <1>2. (\A b \in m.bound : b[2] \notin D) => \A b \in m.bound : b[2] \notin N
    <2>1. \A b \in m.bound : b[2] \in Feature
      BY ModelFields
    <2> HIDE DEF D
    <2> QED
      BY <2>1, ConstantsAssumption
  <1> HIDE DEF N, n2, D
  <1>3. IsTree(n2) /\ (ConstraintsBound(m) /\ (\A b \in m.bound : b[2] \notin N) => ConstraintsBound(n2))
    BY <1>1, RemovalKeeps
  <1> QED
    BY <1>2, <1>3 DEF n2, D

\* In a tree only the children of a feature can miss it when it is removed.
LEMMA ClashIsWithChild ==
  ASSUME NEW m \in Model, IsTree(m), NEW x \in m.features, NEW y \in m.features, Clash(m, x, y)
  PROVE  y \in FeatureChildren(m, x) /\ x # y
  <1>1. /\ x \in Feature /\ x \in Node /\ y \in Feature /\ y \in Node
        /\ x \notin Relationship /\ y \notin Relationship
    BY ModelFields, ConstantsAssumption DEF Node
  <1>2. GroupsOf(m, {x}) = {r \in Relationship : m.parent[r] = x}
    <2>1. {x} \in SUBSET Node
      BY <1>1
    <2> QED
      BY <2>1, OwnGroupsAre DEF IsTree
  <1>3. Erased(m, {x}) = {x}
    BY ErasedIs
  <1>4. x # y
    <2> SUFFICES ASSUME m.parent[x] \in Relationship, m.parent[m.parent[x]] = x PROVE FALSE
      BY <1>2 DEF Clash
    <2>1. {x, m.parent[x]} \in SUBSET Node /\ {x, m.parent[x]} # {}
      BY <1>1 DEF Node
    <2>2. \A z \in {x, m.parent[x]} : m.parent[z] \in {x, m.parent[x]}
      OBVIOUS
    <2> QED
      BY <2>1, <2>2, NoCycle DEF IsTree
  <1>5. m.parent[y] = x \/ (m.parent[y] \in Relationship /\ m.parent[m.parent[y]] = x)
    BY <1>1, <1>2, <1>3, <1>4 DEF Clash
  <1> QED
    BY <1>1, <1>4, <1>5, FeatureChildrenAre DEF IsTree

\* The recursive removal of a feature in a tree is defined.
LEMMA RemoveSubtreeIs ==
  ASSUME NEW m \in Model, IsTree(m), NEW f \in m.features, f # m.root
  PROVE  RemoveSubtree(m, f, Live(m)) = Succeeds(Pruned(m, Subtree(m, f)))
  <1> DEFINE D == Subtree(m, f)
  <1>0. f \in Feature /\ Feature \subseteq Node
    BY ModelFields DEF Node
  <1>1. /\ D \subseteq Feature /\ D \subseteq m.features /\ m.root \notin D
        /\ \A x \in D : f \notin FeatureChildren(m, x)
    BY <1>0, SubtreeIsClosed, SubtreeIsAcyclic DEF IsTree
  <1>2. \A x \in D : WalkIsSafe(m, x, Relationship, Live(m))
    BY <1>0, <1>1, RelationshipWalkIsSafe DEF IsTree
  <1>3. ASSUME NEW y \in D, NEW z \in D, NEW x \in FeatureChildren(m, y) \cap FeatureChildren(m, z)
        PROVE  y = z
    <2>1. /\ y \in Feature /\ z \in Feature /\ y \in Node /\ z \in Node
          /\ y \notin Relationship /\ z \notin Relationship
      BY <1>0, <1>1, ConstantsAssumption
    <2> QED
      BY <2>1, FeatureChildrenAre DEF IsTree
  <1>4. \A x, y \in D : <<x, y>> \in m.edges => m.parent[y] = x
    BY DEF IsTree, EdgesMatchParents
  <1>5. \A x \in D : m.parent[x] \in Live(m)
    BY <1>1, ParentIsLive DEF IsTree, Live
  <1>6. ASSUME NEW x \in D, NEW y \in D, Clash(m, x, y)
        PROVE  y \in Subtree(m, x) /\ x \notin Subtree(m, y)
    <2>1. y \in FeatureChildren(m, x) /\ x \in m.features /\ y \in m.features
      BY <1>1, <1>6, ClashIsWithChild
    <2> QED
      BY <1>0, <1>1, <2>1, SubtreeIsClosed, SubtreeIsAcyclic DEF IsTree
  <1> HIDE DEF D
  <1>7. ~ClashesAlways(m, D) /\ ~ClashesPerhaps(m, D)
    BY <1>6 DEF ClashesAlways, ClashesPerhaps
  <1>8. RecursionIsSafe(m, f, Live(m))
    BY <1>1, <1>2, <1>3, <1>4, <1>5 DEF RecursionIsSafe, D
  <1> QED
    BY <1>7, <1>8 DEF RemoveSubtree, D

\* removeFeature with recursion: a subtree no constraint is bound to.
LEMMA RemoveSubtreeIsHarmless ==
  ASSUME NEW m \in Model, WellFormed(m), NEW f \in m.features, f # m.root,
         \A b \in m.bound : b[2] \notin Subtree(m, f)
  PROVE  Harmless(RemoveSubtree(m, f, Live(m)))
  BY WellFormedIsTree, RemoveSubtreeIs, PrunedKeeps, SuccessIsHarmless

\* removeFeature in both forms, by name or by pointer.
LEMMA RemoveFeatureIsHarmless ==
  ASSUME NEW m \in Model, WellFormed(m), NEW ref \in Feature \cup Name, NEW recursive \in BOOLEAN,
         MayRemove(m, ref, recursive)
  PROVE  Harmless(RemoveFeature(m, ref, recursive, Live(m)))
  <1> DEFINE f == Resolve(m, ref)
  <1>1. CASE f = Nil
    BY <1>1, FailureIsHarmless DEF RemoveFeature, ErrorCode
  <1>2. CASE f # Nil
    <2>1. /\ f \in m.features /\ f # m.root
          /\ \A b \in m.bound : b[2] \notin (IF recursive THEN Subtree(m, f) ELSE {f})
      BY <1>2 DEF MayRemove, PointsAt, Finds
    <2> HIDE DEF f
    <2>2. CASE recursive
      <3>1. RemoveFeature(m, ref, recursive, Live(m)) = RemoveSubtree(m, f, Live(m))
        BY <1>2, <2>1, <2>2 DEF RemoveFeature, f, Live
      <3> QED
        BY <2>1, <2>2, <3>1, RemoveSubtreeIsHarmless
    <2>3. CASE ~recursive
      <3>1. RemoveFeature(m, ref, recursive, Live(m)) = RemoveLeaf(m, f, Live(m))
        BY <1>2, <2>1, <2>3 DEF RemoveFeature, f, Live
      <3> QED
        BY <2>1, <2>3, <3>1, RemoveLeafIsHarmless
    <2> QED
      BY <2>2, <2>3
  <1> QED
    BY <1>1, <1>2

\* addRelationship below a feature that has no group.
LEMMA AddRelationshipIsHarmless ==
  ASSUME NEW m \in Model, WellFormed(m), NEW r \in Relationship, r \notin Live(m),
         NEW ref \in Feature \cup Name, MayGroup(m, ref)
  PROVE  Harmless(AddRelationship(m, r, ref, Live(m)))
  <1> DEFINE p == Resolve(m, ref)
  <1>1. p \in m.features /\ OwnGroups(m, p) = {}
    BY DEF MayGroup, Finds
  <1>2. p \in Node
    BY <1>1, ModelFields DEF Node
  <1> HIDE DEF p
  <1>3. WalkIsSafe(m, p, Relationship, Live(m))
    BY <1>2, RelationshipWalkIsSafe DEF WellFormed
  <1>4. AddRelationship(m, r, ref, Live(m)) = Succeeds(Grouped(m, r, p))
    BY <1>1, <1>3 DEF AddRelationship, p, Live
  <1> QED
    BY <1>1, <1>4, GroupedKeeps, SuccessIsHarmless

\* The relationship that goes is the one of the feature that is named.
LEMMA RemoveRelationshipIs ==
  ASSUME NEW m \in Model, WellFormed(m), NEW ref \in Feature \cup Name, MayUngroup(m, ref),
         Resolve(m, ref) # Nil
  PROVE  /\ Resolve(m, ref) \in m.features
         /\ \E r \in Relationship :
              /\ m.parent[r] = Resolve(m, ref)
              /\ RemoveRelationship(m, ref, Live(m)) = Succeeds(Ungrouped(m, Resolve(m, ref), r))
  <1> DEFINE p == Resolve(m, ref)
             groups == RelationshipChildren(m, p)
  <1>1. p \in m.features /\ groups # {} /\ groups \subseteq OwnGroups(m, p)
    BY DEF MayUngroup, PointsAt, Finds
  <1>2. p \in Node /\ {p} \in SUBSET Node
    BY <1>1, ModelFields DEF Node
  <1> HIDE DEF p
  <1>3. OwnGroups(m, p) = {r \in Relationship : m.parent[r] \in {p}}
    BY <1>2, OwnGroupsAre DEF OwnGroups, WellFormed
  <1>4. \A r, q \in groups : r = q
    BY <1>1, <1>2, <1>3, GroupWithParent, WellFormedIsTree, ConstantsAssumption
  <1> HIDE DEF groups
  <1>5. PICK r \in groups : groups = {r}
    BY <1>1, <1>4
  <1>6. r \in Relationship /\ m.parent[r] = p /\ r \in Node
    BY <1>1, <1>3, <1>5 DEF Node
  <1>7. WalkIsSafe(m, p, Feature, Live(m)) /\ WalkIsSafe(m, r, Relationship, Live(m))
    BY <1>2, <1>6, FeatureWalkIsSafe, RelationshipWalkIsSafe DEF WellFormed
  <1>0. p \in Live(m) /\ p # Nil
    BY <1>1, ModelFields, ConstantsAssumption DEF Live, Node
  <1>8. RemoveRelationship(m, ref, Live(m)) =
          UNION {IF WalkIsSafe(m, q, Relationship, Live(m))
                 THEN Succeeds(Ungrouped(m, p, q)) ELSE Undefined(m) : q \in {r}}
    BY <1>0, <1>1, <1>5, <1>7 DEF RemoveRelationship, p, groups
  <1>9. RemoveRelationship(m, ref, Live(m)) = Succeeds(Ungrouped(m, p, r))
    BY <1>7, <1>8
  <1> QED
    BY <1>1, <1>6, <1>9 DEF p

\* removeRelationship of the only group of a feature.
LEMMA RemoveRelationshipIsHarmless ==
  ASSUME NEW m \in Model, WellFormed(m), NEW ref \in Feature \cup Name, MayUngroup(m, ref)
  PROVE  Harmless(RemoveRelationship(m, ref, Live(m)))
  <1>1. CASE Resolve(m, ref) = Nil
    BY <1>1, FailureIsHarmless DEF RemoveRelationship, ErrorCode
  <1>2. CASE Resolve(m, ref) # Nil
    BY <1>2, RemoveRelationshipIs, UngroupedKeeps, SuccessIsHarmless
  <1> QED
    BY <1>1, <1>2

\* addLocation and removeLocation touch no part of the tree.
LEMMA LocationIsHarmless ==
  ASSUME NEW m \in Model, WellFormed(m), NEW ref \in Feature \cup Name, NEW l \in Location,
         Finds(m, ref)
  PROVE  /\ Harmless(AddLocation(m, ref, l, Live(m)))
         /\ MayRemoveLocation(m, ref, l) => Harmless(RemoveLocation(m, ref, l, Live(m)))
  <1> DEFINE f == Resolve(m, ref)
             given(n) == [m EXCEPT !.locations[f][l] = n]
  <1>1. f \in m.features /\ f \in Feature /\ m.locations[f][l] \in Nat
    BY ModelFields DEF Finds
  <1> HIDE DEF f
  <1>2. ASSUME NEW n PROVE WellFormed(given(n))
    <2>1. /\ given(n).features = m.features /\ given(n).relationships = m.relationships
          /\ given(n).root = m.root /\ given(n).parent = m.parent /\ given(n).edges = m.edges
          /\ given(n).bound = m.bound /\ given(n).constraints = m.constraints
      BY DEF Model
    <2> HIDE DEF given
    <2> QED
      BY <2>1, SameTree DEF WellFormed, ConstraintsBound
  <1>3. AddLocation(m, ref, l, Live(m)) = Succeeds(given(m.locations[f][l] + 1))
    BY <1>1 DEF AddLocation, f, Live
  <1>4. MayRemoveLocation(m, ref, l) =>
          RemoveLocation(m, ref, l, Live(m)) = Succeeds(given(m.locations[f][l] - 1))
    BY <1>1 DEF RemoveLocation, MayRemoveLocation, f, Live
  <1> HIDE DEF given
  <1> QED
    BY <1>2, <1>3, <1>4, SuccessIsHarmless

\* addConstraint binds to features of the model only.
LEMMA AddConstraintIsHarmless ==
  ASSUME NEW m \in Model, WellFormed(m), NEW k \in Constraint
  PROVE  Harmless(AddConstraint(m, k))
  <1> DEFINE found == {f \in m.features : NameOf[f] \in Mentions[k]}
             n2 == [m EXCEPT !.constraints = @ \cup {k}, !.bound = @ \cup ({k} \X found)]
  <1>1. /\ n2.features = m.features /\ n2.relationships = m.relationships
        /\ n2.root = m.root /\ n2.parent = m.parent /\ n2.edges = m.edges
        /\ n2.bound = m.bound \cup ({k} \X found) /\ n2.constraints = m.constraints \cup {k}
    BY DEF Model
  <1>2. AddConstraint(m, k) \in {Succeeds(n2), Fails(n2, "MISSING_FEATURE")}
    BY DEF AddConstraint
  <1> HIDE DEF n2
  <1>3. ConstraintsBound(n2)
    BY <1>1 DEF WellFormed, ConstraintsBound
  <1>4. WellFormed(n2)
    BY <1>1, <1>3, SameTree
  <1> QED
    BY <1>2, <1>4, SuccessIsHarmless, FailureIsHarmless DEF ErrorCode

\* setName, setPath and setCommit touch no part of the tree.
LEMMA SetInfoIsHarmless ==
  ASSUME NEW m \in Model, WellFormed(m), NEW field \in InfoField, NEW text \in Text
  PROVE  Harmless(SetInfo(m, field, text))
  <1> DEFINE n2 == [m EXCEPT !.info[field] = text]
  <1>1. /\ n2.features = m.features /\ n2.relationships = m.relationships
        /\ n2.root = m.root /\ n2.parent = m.parent /\ n2.edges = m.edges
        /\ n2.bound = m.bound /\ n2.constraints = m.constraints
    BY DEF Model
  <1>2. SetInfo(m, field, text) = Succeeds(n2)
    BY DEF SetInfo
  <1> HIDE DEF n2
  <1> QED
    BY <1>1, <1>2, SameTree, SuccessIsHarmless DEF WellFormed, ConstraintsBound

\* setRoot: the new root takes over the children of the old one.
LEMMA SetRootIsHarmless ==
  ASSUME NEW m \in Model, WellFormed(m), NEW f \in RootFeature, f \notin Live(m),
         MaySetRoot(m, f)
  PROVE  Harmless(SetRoot(m, f, Live(m)))
  <1>1. m.root \in Node /\ m.root # Nil /\ {m.root} \in SUBSET Node /\ m.root \in Live(m) \cup {Nil}
    BY ModelFields, ConstantsAssumption DEF WellFormed, Rooted, Node, Live
  <1>2. Targets(m, {m.root}) \subseteq Live(m)
    BY <1>1, TargetsAreChildren DEF WellFormed
  <1>3. CASE NameOf[m.root] = NameOf[f]
    BY <1>1, <1>3, SuccessIsHarmless DEF SetRoot
  <1>4. CASE NameOf[m.root] # NameOf[f] /\ GetFeature(m, NameOf[f]) # Nil
    BY <1>1, <1>4, FailureIsHarmless DEF SetRoot, ErrorCode
  <1>5. CASE NameOf[m.root] # NameOf[f] /\ GetFeature(m, NameOf[f]) = Nil
    <2>1. \A g \in m.features : NameOf[g] # NameOf[f]
      BY <1>5, GetFeatureFinds
    <2>2. \A b \in m.bound : b[2] # m.root
      BY <1>5 DEF MaySetRoot
    <2>3. SetRoot(m, f, Live(m)) = Succeeds(RootReplaced(m, f))
      BY <1>1, <1>2, <1>5 DEF SetRoot
    <2> QED
      BY <2>1, <2>2, <2>3, RootReplacedKeeps, SuccessIsHarmless
  <1> QED
    BY <1>3, <1>4, <1>5

\* addChild: a feature is moved below one that is not below it.
LEMMA AddChildIsHarmless ==
  ASSUME NEW m \in Model, WellFormed(m), NEW parentRef, NEW childRef,
         MayMove(m, parentRef, childRef)
  PROVE  Harmless(AddChild(m, parentRef, childRef, Live(m)))
  <1> DEFINE p == Resolve(m, parentRef)
             c == Resolve(m, childRef)
  <1> HIDE DEF p, c
  <1>1. CASE c = Nil \/ p = Nil \/ c = p
    BY <1>1, FailureIsHarmless DEF AddChild, ErrorCode, p, c
  <1>2. CASE ~(c = Nil \/ p = Nil \/ c = p)
    <2>1. /\ p \in Live(m) /\ c \in Live(m) /\ c # m.root /\ p \notin Below(m, c)
          /\ c \in Relationship => p \in Feature /\ OwnGroups(m, p) \subseteq {c}
      BY <1>2 DEF MayMove, p, c
    <2>2. m.parent[c] \in Live(m)
      BY <2>1, ParentIsLive DEF WellFormed
    <2>3. AddChild(m, parentRef, childRef, Live(m)) = Succeeds(Attached(m, p, c))
      BY <1>2, <2>1, <2>2 DEF AddChild, p, c
    <2> QED
      BY <2>1, <2>3, AttachedKeeps, SuccessIsHarmless
  <1> QED
    BY <1>1, <1>2

\* FeatureModelModification::exec: on a well-formed model a modification within
\* the rules is defined, does one thing only, and leaves a well-formed model,
\* also when it returns an error.
THEOREM ProperIsHarmless ==
  ASSUME NEW m \in Model, WellFormed(m), NEW mod \in Modification, Proper(m, mod)
  PROVE  Harmless(Outcomes(m, mod))
  <1>1. CASE mod.op = "AddFeature"
    <2>1. mod.feature \in Feature /\ mod.parent \in Feature \cup {Nil}
      BY <1>1 DEF Modification
    <2>2. mod.feature \notin Live(m) /\ MayAddFeature(m, mod.feature, mod.parent)
      BY <1>1 DEF Proper, Owned
    <2> QED
      BY <1>1, <2>1, <2>2, AddFeatureIsHarmless DEF Outcomes, OutcomesAmong
  <1>2. CASE mod.op = "RemoveFeature"
    <2>1. mod.ref \in Feature \cup Name /\ mod.recursive \in BOOLEAN
      BY <1>2 DEF Modification
    <2> QED
      BY <1>2, <2>1, RemoveFeatureIsHarmless DEF Outcomes, OutcomesAmong, Proper
  <1>3. CASE mod.op = "AddRelationship"
    <2>1. mod.relationship \in Relationship /\ mod.ref \in Feature \cup Name
      BY <1>3 DEF Modification
    <2>2. mod.relationship \notin Live(m) /\ MayGroup(m, mod.ref)
      BY <1>3 DEF Proper, Owned
    <2> QED
      BY <1>3, <2>1, <2>2, AddRelationshipIsHarmless DEF Outcomes, OutcomesAmong
  <1>4. CASE mod.op = "RemoveRelationship"
    <2>1. mod.ref \in Feature \cup Name
      BY <1>4 DEF Modification
    <2> QED
      BY <1>4, <2>1, RemoveRelationshipIsHarmless DEF Outcomes, OutcomesAmong, Proper
  <1>5. CASE mod.op \in {"AddLocation", "RemoveLocation"}
    <2>1. mod.ref \in Feature \cup Name /\ mod.location \in Location
      BY <1>5 DEF Modification
    <2>2. CASE mod.op = "AddLocation"
      BY <2>1, <2>2, LocationIsHarmless DEF Outcomes, OutcomesAmong, Proper
    <2>3. CASE mod.op = "RemoveLocation"
      BY <2>1, <2>3, LocationIsHarmless DEF Outcomes, OutcomesAmong, Proper, MayRemoveLocation
    <2> QED
      BY <1>5, <2>2, <2>3
  <1>6. CASE mod.op = "AddConstraint"
    <2>1. mod.constraint \in Constraint
      BY <1>6 DEF Modification
    <2> QED
      BY <1>6, <2>1, AddConstraintIsHarmless DEF Outcomes, OutcomesAmong
  <1>7. CASE mod.op = "SetInfo"
    <2>1. mod.field \in InfoField /\ mod.text \in Text
      BY <1>7 DEF Modification
    <2> QED
      BY <1>7, <2>1, SetInfoIsHarmless DEF Outcomes, OutcomesAmong
  <1>8. CASE mod.op = "SetRoot"
    <2>1. mod.feature \in RootFeature
      BY <1>8 DEF Modification
    <2>2. mod.feature \notin Live(m) /\ MaySetRoot(m, mod.feature)
      BY <1>8 DEF Proper, Owned
    <2> QED
      BY <1>8, <2>1, <2>2, SetRootIsHarmless DEF Outcomes, OutcomesAmong
  <1>9. CASE mod.op = "AddChild"
    BY <1>9, AddChildIsHarmless DEF Outcomes, OutcomesAmong, Proper
  <1>10. mod.op \in {"AddFeature", "RemoveFeature", "AddRelationship", "RemoveRelationship",
                     "AddLocation", "RemoveLocation", "AddConstraint", "SetInfo", "SetRoot",
                     "AddChild"}
    BY DEF Modification
  <1> QED
    BY <1>1, <1>2, <1>3, <1>4, <1>5, <1>6, <1>7, <1>8, <1>9, <1>10

-------------------------------------------------------------------------------
(* Features that wait in a queue *)

\* A walk on a tree reads live nodes only.
LEMMA WalksStayInside ==
  ASSUME NEW m \in Model, EdgesMatchParents(m), NEW n \in Node, NEW Kind \in SUBSET Node,
         NEW alive \in SUBSET Node, Live(m) \subseteq alive
  PROVE  WalkIsSafe(m, n, Kind, alive) <=> WalkIsSafe(m, n, Kind, Live(m))
  <1>1. {n} \cup Through(m, n, Kind) \in SUBSET Node
    BY DEF Through
  <1>2. Targets(m, {n} \cup Through(m, n, Kind)) \subseteq Live(m)
    BY <1>1, TargetsAreChildren
  <1> QED
    BY <1>2 DEF WalkIsSafe

\* A modification within the rules points at nodes of the model.
LEMMA ProperPointsToLive ==
  ASSUME NEW m \in Model, NEW mod \in Modification, Proper(m, mod)
  PROVE  PointsTo(mod) \subseteq Live(m)
  <1>0. Nil \notin Node /\ Name \cap Node = {} /\ Nil \notin Name
    BY ConstantsAssumption
  <1> USE DEF Node
  <1>1. CASE mod.op = "AddFeature"
    BY <1>1 DEF Modification, PointsTo, Proper, MayAddFeature, Live
  <1>2. CASE mod.op = "RemoveFeature"
    BY <1>0, <1>2 DEF Modification, PointsTo, Proper, MayRemove, PointsAt, Resolve, Live
  <1>3. CASE mod.op \in {"AddRelationship", "AddLocation", "RemoveLocation"}
    BY <1>0, <1>3 DEF Modification, PointsTo, Proper, MayGroup, MayRemoveLocation, Finds, Resolve, Live
  <1>4. CASE mod.op = "RemoveRelationship"
    BY <1>0, <1>4 DEF Modification, PointsTo, Proper, MayUngroup, PointsAt, Resolve, Live
  <1>5. CASE mod.op = "AddChild"
    BY <1>0, <1>5 DEF Modification, PointsTo, Proper, MayMove, Resolve
  <1>6. CASE mod.op \in {"AddConstraint", "SetInfo", "SetRoot"}
    BY <1>6 DEF PointsTo
  <1> QED
    BY <1>1, <1>2, <1>3, <1>4, <1>5, <1>6 DEF Modification

\* A pointer to a node of the model, or a null pointer, is alive if the model says so.
LEMMA AliveIfLive ==
  ASSUME NEW m \in Model, NEW alive \in SUBSET Node, Live(m) \subseteq alive,
         NEW x \in Live(m) \cup {Nil}
  PROVE  /\ x \in alive <=> x \in Live(m)
         /\ x \in alive \cup {Nil} <=> x \in Live(m) \cup {Nil}
         /\ \A R : x \in alive \ R <=> x \in Live(m) \ R
  BY ConstantsAssumption DEF Node

LEMMA ParentsAreLive ==
  ASSUME NEW m \in Model, EdgesMatchParents(m), NEW n \in Node
  PROVE  m.parent[n] \in Live(m) \cup {Nil}
  BY DEF EdgesMatchParents

LEMMA ResolvedAreLive ==
  ASSUME NEW m \in Model, NEW ref \in Node \cup Name, {ref} \ Name \subseteq Live(m)
  PROVE  Resolve(m, ref) \in Live(m) \cup {Nil}
  BY DEF Resolve, GetFeature, Live

\* What waits to be inserted makes no difference to a modification that points into
\* the model, if edges, parents and root match.
LEMMA QueuedFeaturesDoNotMatter ==
  ASSUME NEW m \in Model, EdgesMatchParents(m), m.root \in m.features \cup {Nil},
         NEW mod \in Modification, PointsTo(mod) \subseteq Live(m),
         NEW alive \in SUBSET Node, Live(m) \subseteq alive
  PROVE  OutcomesAmong(m, mod, alive) = Outcomes(m, mod)
  <1>0. Nil \notin Node /\ Name \cap Node = {} /\ Nil \notin Name
    BY ConstantsAssumption
  <1>1. m.root \in Live(m) \cup {Nil}
    BY DEF Live
  <1>2. \A n \in Node : m.parent[n] \in Live(m) \cup {Nil}
    BY ParentsAreLive
  <1>3. \A x \in Live(m) \cup {Nil} :
          /\ x \in alive <=> x \in Live(m)
          /\ x \in alive \cup {Nil} <=> x \in Live(m) \cup {Nil}
          /\ \A R : x \in alive \ R <=> x \in Live(m) \ R
    BY AliveIfLive
  <1>4. Live(m) \subseteq Node /\ Live(m) \in SUBSET Node
    BY DEF Model, Live, Node
  <1>5. \A n \in Node : \A Kind \in SUBSET Node :
          WalkIsSafe(m, n, Kind, alive) <=> WalkIsSafe(m, n, Kind, Live(m))
    BY WalksStayInside
  <1>6. Feature \in SUBSET Node /\ Relationship \in SUBSET Node
    BY DEF Node
  <1>7. CASE mod.op = "AddFeature"
    <2>1. mod.parent \in Live(m) \cup {Nil}
      BY <1>7 DEF Modification, PointsTo
    <2>2. (IF mod.parent # Nil THEN mod.parent ELSE m.root) \in Live(m) \cup {Nil}
      BY <1>1, <2>1
    <2>3. AddFeature(m, mod.feature, mod.parent, alive)
            = AddFeature(m, mod.feature, mod.parent, Live(m))
      BY <1>3, <2>2 DEF AddFeature
    <2> QED
      BY <1>7, <2>3 DEF Outcomes, OutcomesAmong
  <1>8. CASE mod.op = "RemoveFeature"
    <2> DEFINE f == Resolve(m, mod.ref)
    <2>1. f \in Live(m) \cup {Nil}
      BY <1>8, ResolvedAreLive DEF Modification, PointsTo, Node
    <2>2. ASSUME f \in Live(m)
          PROVE  RemoveLeaf(m, f, alive) = RemoveLeaf(m, f, Live(m))
      <3>1. f \in Node
        BY <1>4, <2>2
      <3>2. WalkIsSafe(m, f, Relationship, alive) <=> WalkIsSafe(m, f, Relationship, Live(m))
        BY <1>5, <1>6, <3>1
      <3>3. \A R : m.parent[f] \notin alive \ R <=> m.parent[f] \notin Live(m) \ R
        BY <1>2, <1>3, <3>1
      <3> HIDE DEF f
      <3> DEFINE groups == RelationshipChildren(m, f)
                 removals == IF groups = {} THEN {{}} ELSE {{r} : r \in groups}
                 gone(R) == Succeeds(Unlinked(m, f, Erased(m, {f}) \cup R))
                 each(R, al) == IF m.parent[f] \notin al \ R THEN Undefined(m) ELSE gone(R)
      <3>4. \A R \in removals : each(R, alive) = each(R, Live(m))
        <4> HIDE DEF removals, gone
        <4> QED
          BY <3>3
      <3>5. UNION {each(R, alive) : R \in removals} = UNION {each(R, Live(m)) : R \in removals}
        <4> HIDE DEF removals, each
        <4> QED
          BY <3>4
      <3>6. \A al : RemoveLeaf(m, f, al) =
                       IF ~WalkIsSafe(m, f, Relationship, al) THEN Undefined(m)
                       ELSE IF ~HasNoFeatures(m, f) THEN Fails(m, "NON_LEAF_NODE")
                       ELSE UNION {each(R, al) : R \in removals}
        BY DEF RemoveLeaf
      <3> HIDE DEF removals, each
      <3> QED
        BY <3>2, <3>5, <3>6
    <2>3. ASSUME f \in Live(m)
          PROVE  RemoveSubtree(m, f, alive) = RemoveSubtree(m, f, Live(m))
      <3> DEFINE D == Subtree(m, f)
      <3>1. D \subseteq Node
        BY DEF Subtree, Node
      <3>2. \A x \in D : WalkIsSafe(m, x, Relationship, alive)
                           <=> WalkIsSafe(m, x, Relationship, Live(m))
        BY <1>5, <1>6, <3>1
      <3>3. \A x \in D : m.parent[x] \in alive <=> m.parent[x] \in Live(m)
        BY <1>2, <1>3, <3>1
      <3> HIDE DEF f, D
      <3>4. RecursionIsSafe(m, f, alive) <=> RecursionIsSafe(m, f, Live(m))
        BY <3>2, <3>3, Zenon DEF RecursionIsSafe, D
      <3> QED
        BY <3>4, Zenon DEF RemoveSubtree
    <2>4. f \in alive <=> f \in Live(m)
      BY <1>3, <2>1
    <2>5. RemoveFeature(m, mod.ref, mod.recursive, alive)
            = RemoveFeature(m, mod.ref, mod.recursive, Live(m))
      BY <2>2, <2>3, <2>4, Zenon DEF RemoveFeature
    <2> QED
      BY <1>8, <2>5 DEF Outcomes, OutcomesAmong
  <1>9. CASE mod.op = "AddRelationship"
    <2> DEFINE p == Resolve(m, mod.ref)
    <2>1. p \in Live(m) \cup {Nil}
      BY <1>9, ResolvedAreLive DEF Modification, PointsTo, Node
    <2>2. p \in alive <=> p \in Live(m)
      BY <1>3, <2>1
    <2>3. p \in Live(m) => (WalkIsSafe(m, p, Relationship, alive)
                              <=> WalkIsSafe(m, p, Relationship, Live(m)))
      BY <1>4, <1>5, <1>6
    <2>4. AddRelationship(m, mod.relationship, mod.ref, alive)
            = AddRelationship(m, mod.relationship, mod.ref, Live(m))
      BY <2>2, <2>3, Zenon DEF AddRelationship
    <2> QED
      BY <1>9, <2>4 DEF Outcomes, OutcomesAmong
  <1>10. CASE mod.op = "RemoveRelationship"
    <2> DEFINE p == Resolve(m, mod.ref)
    <2>1. p \in Live(m) \cup {Nil}
      BY <1>10, ResolvedAreLive DEF Modification, PointsTo, Node
    <2>2. p \in alive <=> p \in Live(m)
      BY <1>3, <2>1
    <2>3. p \in Live(m) => (WalkIsSafe(m, p, Feature, alive)
                              <=> WalkIsSafe(m, p, Feature, Live(m)))
      BY <1>4, <1>5, <1>6
    <2>4. RelationshipChildren(m, p) \subseteq Node
      BY DEF RelationshipChildren, Node
    <2>5. \A r \in RelationshipChildren(m, p) :
            WalkIsSafe(m, r, Relationship, alive) <=> WalkIsSafe(m, r, Relationship, Live(m))
      BY <1>5, <1>6, <2>4
    <2>6. RemoveRelationship(m, mod.ref, alive) = RemoveRelationship(m, mod.ref, Live(m))
      BY <2>2, <2>3, <2>5, Zenon DEF RemoveRelationship
    <2> QED
      BY <1>10, <2>6 DEF Outcomes, OutcomesAmong
  <1>11. CASE mod.op \in {"AddLocation", "RemoveLocation"}
    <2>1. Resolve(m, mod.ref) \in Live(m) \cup {Nil}
      BY <1>11, ResolvedAreLive DEF Modification, PointsTo, Node
    <2>2. Resolve(m, mod.ref) \in alive <=> Resolve(m, mod.ref) \in Live(m)
      BY <1>3, <2>1
    <2>3. AddLocation(m, mod.ref, mod.location, alive)
            = AddLocation(m, mod.ref, mod.location, Live(m))
      BY <2>2 DEF AddLocation
    <2>4. RemoveLocation(m, mod.ref, mod.location, alive)
            = RemoveLocation(m, mod.ref, mod.location, Live(m))
      BY <2>2 DEF RemoveLocation
    <2> QED
      BY <1>11, <2>3, <2>4 DEF Outcomes, OutcomesAmong
  <1>12. CASE mod.op \in {"AddConstraint", "SetInfo"}
    BY <1>12 DEF Outcomes, OutcomesAmong
  <1>13. CASE mod.op = "SetRoot"
    <2>1. Targets(m, {m.root}) \subseteq Live(m)
      BY <1>0 DEF Targets, EdgesMatchParents
    <2>2. SetRoot(m, mod.feature, alive) = SetRoot(m, mod.feature, Live(m))
      BY <1>1, <1>3, <2>1 DEF SetRoot
    <2> QED
      BY <1>13, <2>2 DEF Outcomes, OutcomesAmong
  <1>14. CASE mod.op = "AddChild"
    <2> DEFINE c == Resolve(m, mod.child)
               p == Resolve(m, mod.parent)
    <2>1. mod.child \in Node \cup Name /\ mod.parent \in Node \cup Name
      BY <1>14 DEF Modification
    <2>2. c \in Live(m) \cup {Nil} /\ p \in Live(m) \cup {Nil}
      BY <1>14, <2>1, ResolvedAreLive DEF PointsTo
    <2>3. (c \in alive <=> c \in Live(m)) /\ (p \in alive <=> p \in Live(m))
      BY <1>3, <2>2
    <2>4. c # Nil => (m.parent[c] \in alive \cup {Nil} <=> m.parent[c] \in Live(m) \cup {Nil})
      BY <1>2, <1>3, <1>4, <2>2
    <2> HIDE DEF c, p
    <2>5. c # Nil =>
            (~({c, p} \subseteq alive) \/ m.parent[c] \notin alive \cup {Nil}
              <=> ~({c, p} \subseteq Live(m)) \/ m.parent[c] \notin Live(m) \cup {Nil})
      BY <2>3, <2>4
    <2>6. AddChild(m, mod.parent, mod.child, alive) = AddChild(m, mod.parent, mod.child, Live(m))
      BY <2>5, Zenon DEF AddChild, c, p
    <2> QED
      BY <1>14, <2>6 DEF Outcomes, OutcomesAmong
  <1> QED
    BY <1>7, <1>8, <1>9, <1>10, <1>11, <1>12, <1>13, <1>14 DEF Modification

\* Nor does it to the consistency check.
LEMMA CheckIsSafeAmong ==
  ASSUME NEW m \in Model, NEW alive \in SUBSET Node, Live(m) \subseteq alive,
         CheckIsSafe(m, Live(m))
  PROVE  CheckIsSafe(m, alive)
  BY DEF CheckIsSafe

===============================================================================
