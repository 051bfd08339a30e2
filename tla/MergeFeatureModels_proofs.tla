----------------------- MODULE MergeFeatureModels_proofs -----------------------
(***************************************************************************)
(* What a merge returns, and when it returns nothing.  While the walk is   *)
(* under way, the copy has what was visited of the second model, and the   *)
(* frontier holds the features right below that.                           *)
(***************************************************************************)
EXTENDS MergeFeatureModels, CopyTransaction_proofs, FiniteSetTheorems

(* The walk over the second model *)

\* V has been visited, and line is what the stack holds.
Walked(V, line) ==
  /\ V \subseteq FM2.features
  /\ \A g \in V : Mergeable(g)
  /\ \A g \in V \ {FM2.root} : ParentFeature(FM2, g) \in V
  /\ line \in Seq(Feature)
  /\ \A g \in Feature : (\E i \in 1..Len(line) : line[i] = g) <=>
                           /\ g \in FM2.features \ V
                           /\ g = FM2.root \/ ParentFeature(FM2, g) \in V
  /\ \A i, j \in 1..Len(line) : line[i] = line[j] => i = j

\* A sequence of a finite set has each member once.
LEMMA SequenceOfSet ==
  ASSUME NEW S, IsFiniteSet(S), NEW order \in SetToSeqs(S)
  PROVE  /\ order \in Seq(S)
         /\ \A i, j \in 1..Len(order) : order[i] = order[j] => i = j
         /\ \A x \in S : \E i \in 1..Len(order) : order[i] = x
  <1> DEFINE D == 1..Cardinality(S)
  <1>1. /\ order \in [D -> S]
        /\ \A i, j \in D : i # j => order[i] # order[j]
    BY DEF SetToSeqs
  <1>2. Cardinality(S) \in Nat
    BY FS_CardinalityType
  <1>3. Len(order) = Cardinality(S) /\ order \in Seq(S)
    BY <1>1, <1>2
  <1>4. IsFiniteSet(D) /\ Cardinality(D) = Cardinality(S)
    BY <1>2, FS_Interval
  <1>5. order \in Injection(D, S)
    BY <1>1 DEF Injection, IsInjective
  <1>6. order \in Surjection(D, S)
    <2> HIDE DEF D
    <2> QED
      BY <1>4, <1>5, FS_Injection
  <1>7. \A x \in S : \E i \in D : order[i] = x
    BY <1>6 DEF Surjection
  <1> QED
    BY <1>1, <1>3, <1>7

\* The children of a feature are the features whose parent feature it is.
LEMMA ChildrenHaveParent ==
  ASSUME NEW m \in Model, EdgesMatchParents(m), Rooted(m), GroupsWellPlaced(m), NEW f \in m.features
  PROVE  FeatureChildren(m, f) = {x \in m.features \ {m.root} : ParentFeature(m, x) = f}
  <1>1. /\ FeatureChildren(m, f) =
             {x \in Feature : m.parent[x] = f \/
                              (m.parent[x] \in Relationship /\ m.parent[m.parent[x]] = f)}
        /\ FeatureChildren(m, f) \subseteq m.features
        /\ f \in Feature /\ f \in Node /\ f \notin Relationship
    <2>1. f \in Feature /\ f \in Node /\ f \notin Relationship
      BY ModelFields, ConstantsAssumption DEF Node
    <2> QED
      BY <2>1, FeatureChildrenAre
  <1>2. m.features \subseteq Feature /\ m.relationships \subseteq Relationship
    BY ModelFields
  <1>3. m.parent[m.root] = Nil /\ Nil \notin Node /\ Relationship \subseteq Node
    BY ConstantsAssumption DEF Rooted, Node
  <1>4. ASSUME NEW x \in m.features \ {m.root}
        PROVE  x \in FeatureChildren(m, f) <=> ParentFeature(m, x) = f
    BY <1>1, <1>2, ParentFeatureIs, ConstantsAssumption
  <1>5. m.root \notin FeatureChildren(m, f)
    BY <1>1, <1>3
  <1> QED
    BY <1>1, <1>4, <1>5

\* When nothing is left on the stack, all of a tree has been visited.
LEMMA WalkIsComplete ==
  ASSUME NEW m \in Model, EdgesMatchParents(m), Rooted(m), GroupsWellPlaced(m),
         NEW V \in SUBSET m.features,
         \A g \in m.features \ V : g # m.root /\ ParentFeature(m, g) \notin V
  PROVE  V = m.features
  <1> DEFINE F == m.features \ V
             S == F \cup {r \in m.relationships : m.parent[r] \in F}
  <1>1. SUFFICES ASSUME F # {} PROVE FALSE
    OBVIOUS
  <1>2. /\ m.features \subseteq Feature /\ m.relationships \subseteq Relationship
        /\ Feature \cap Relationship = {} /\ Live(m) = m.features \cup m.relationships
        /\ m.root \in m.features
    BY ModelFields, ConstantsAssumption DEF Live, Rooted
  <1>3. S \in SUBSET (Live(m) \ {m.root}) /\ S # {}
    BY <1>1, <1>2
  <1>4. PICK n \in S : m.parent[n] \in Live(m) \ S
    BY <1>3 DEF Rooted
  <1>5. CASE n \in F
    <2>1. n \in m.features \ {m.root} /\ ParentFeature(m, n) \notin V
      BY <1>5
    <2>2. CASE m.parent[n] \in m.features
      BY <1>2, <1>4, <2>1, <2>2, ParentFeatureIs
    <2>3. CASE m.parent[n] \in m.relationships
      <3>1. ParentFeature(m, n) = m.parent[m.parent[n]] /\ m.parent[m.parent[n]] \in m.features
        BY <1>2, <2>1, <2>3, ParentFeatureIs
      <3> QED
        BY <1>4, <2>1, <2>3, <3>1
    <2> QED
      BY <1>2, <1>4, <2>2, <2>3
  <1>6. CASE n \in {r \in m.relationships : m.parent[r] \in F}
    BY <1>4, <1>6
  <1> QED
    BY <1>5, <1>6

\* What the assumptions say of the second model
LEMMA OtherIsTree ==
  ASSUME FM2 \in Others
  PROVE  /\ FM2 \in Model /\ WellFormed(FM2) /\ IsTree(FM2) /\ EdgesMatchParents(FM2) /\ Rooted(FM2)
         /\ GroupsWellPlaced(FM2) /\ IsFiniteSet(FM2.features)
         /\ FM2.root \in FM2.features /\ FM2.features \subseteq Feature
  BY MergeAssumption, ModelFields, WellFormedIsTree DEF IsTree, Rooted

\* A visit takes a feature from the stack and puts its children there.
LEMMA VisitWalks ==
  ASSUME FM2 \in Others, NEW V, NEW line, Walked(V, line), line # << >>, Mergeable(Head(line)),
         NEW children \in SetToSeqs(FeatureChildren(FM2, Head(line)))
  PROVE  /\ Head(line) \in FM2.features \ V
         /\ Head(line) # FM2.root => ParentFeature(FM2, Head(line)) \in V
         /\ Walked(V \cup {Head(line)}, children \o Tail(line))
  <1> DEFINE F == Head(line)
             C == FeatureChildren(FM2, F)
             W == V \cup {F}
             next == children \o Tail(line)
  <1>1. /\ line \in Seq(Feature) /\ Len(line) \in Nat /\ Len(line) > 0 /\ F = line[1] /\ F \in Feature
        /\ Tail(line) \in Seq(Feature) /\ Len(Tail(line)) = Len(line) - 1
        /\ \A i \in 1..Len(line) - 1 : Tail(line)[i] = line[i + 1]
    BY DEF Walked
  <1>2. F \in FM2.features \ V /\ (F = FM2.root \/ ParentFeature(FM2, F) \in V)
    BY <1>1 DEF Walked
  <1>3. C = {x \in FM2.features \ {FM2.root} : ParentFeature(FM2, x) = F}
    BY <1>2, OtherIsTree, ChildrenHaveParent
  <1>4. IsFiniteSet(C) /\ C \subseteq Feature
    BY <1>3, OtherIsTree, FS_Subset
  <1> HIDE DEF C
  <1>5. /\ children \in Seq(C)
        /\ \A i, j \in 1..Len(children) : children[i] = children[j] => i = j
        /\ \A x \in C : \E i \in 1..Len(children) : children[i] = x
    BY <1>4, SequenceOfSet DEF C
  <1>6. /\ Len(children) \in Nat
        /\ \A i \in 1..Len(children) : children[i] \in C
        /\ children \in Seq(Feature)
    BY <1>4, <1>5
  <1>7. /\ next \in Seq(Feature) /\ Len(next) = Len(children) + Len(line) - 1
        /\ \A i \in 1..Len(children) : next[i] = children[i]
        /\ \A i \in Len(children) + 1 .. Len(next) : next[i] = line[i - Len(children) + 1]
    BY <1>1, <1>6
  <1> HIDE DEF next, F
  <1>8. \A g \in C : g \in FM2.features /\ g \notin V /\ g # F /\ g # FM2.root
    <2>1. \A g \in V \ {FM2.root} : ParentFeature(FM2, g) \in V
      BY DEF Walked
    <2>2. ASSUME NEW g \in C, g = F PROVE FALSE
      BY <1>2, <1>3, <2>2
    <2> QED
      BY <1>2, <1>3, <2>1, <2>2
  <1>9. \A i \in 2..Len(line) : /\ line[i] \in FM2.features \ V /\ line[i] # F /\ line[i] \notin C
                                /\ line[i] = FM2.root \/ ParentFeature(FM2, line[i]) \in V
    <2>1. ASSUME NEW i \in 2..Len(line)
          PROVE  /\ line[i] \in FM2.features \ V /\ line[i] # F
                 /\ line[i] = FM2.root \/ ParentFeature(FM2, line[i]) \in V
      BY <1>1, <2>1 DEF Walked
    <2> QED
      BY <1>2, <1>3, <2>1
  <1>10. ASSUME NEW g \in Feature
         PROVE  (\E i \in 1..Len(next) : next[i] = g) <=> g \in C \/ \E i \in 2..Len(line) : line[i] = g
    <2>1. ASSUME NEW i \in 1..Len(next), next[i] = g
          PROVE  g \in C \/ \E k \in 2..Len(line) : line[k] = g
      <3>1. CASE i \in 1..Len(children)
        BY <1>6, <1>7, <2>1, <3>1
      <3>2. CASE i \in Len(children) + 1 .. Len(next)
        <4>1. i - Len(children) + 1 \in 2..Len(line)
          BY <1>1, <1>6, <1>7, <3>2
        <4> QED
          BY <1>7, <2>1, <3>2, <4>1
      <3> QED
        BY <1>1, <1>6, <1>7, <3>1, <3>2
    <2>2. ASSUME g \in C PROVE \E i \in 1..Len(next) : next[i] = g
      BY <1>1, <1>5, <1>6, <1>7, <2>2, SMTT(30)
    <2>3. ASSUME NEW k \in 2..Len(line), line[k] = g PROVE \E i \in 1..Len(next) : next[i] = g
      <3>1. k - 1 + Len(children) \in Len(children) + 1 .. Len(next)
        BY <1>1, <1>6, <1>7
      <3>2. next[k - 1 + Len(children)] = line[k]
        BY <1>1, <1>6, <1>7, <3>1, SMTT(30)
      <3> QED
        BY <1>1, <1>6, <1>7, <2>3, <3>1, <3>2
    <2> QED
      BY <2>1, <2>2, <2>3
  <1>11. W \subseteq FM2.features /\ \A g \in W : Mergeable(g)
    BY <1>2 DEF Walked, F
  <1>12. \A g \in W \ {FM2.root} : ParentFeature(FM2, g) \in W
    BY <1>2 DEF Walked
  <1>13. ASSUME NEW g \in Feature
         PROVE  (\E i \in 1..Len(next) : next[i] = g) <=>
                   g \in FM2.features \ W /\ (g = FM2.root \/ ParentFeature(FM2, g) \in W)
    <2>1. ASSUME g \in FM2.features \ W, g = FM2.root \/ ParentFeature(FM2, g) \in W
          PROVE  g \in C \/ \E i \in 2..Len(line) : line[i] = g
      <3>1. CASE g # FM2.root /\ ParentFeature(FM2, g) = F
        BY <1>3, <2>1, <3>1
      <3>2. CASE g = FM2.root \/ ParentFeature(FM2, g) \in V
        <4>1. PICK i \in 1..Len(line) : line[i] = g
          BY <2>1, <3>2 DEF Walked
        <4>2. i # 1
          BY <1>1, <2>1, <4>1
        <4> QED
          BY <1>1, <4>1, <4>2
      <3> QED
        BY <2>1, <3>1, <3>2
    <2>2. ASSUME g \in C PROVE g \in FM2.features \ W /\ ParentFeature(FM2, g) \in W
      BY <1>3, <1>8, <2>2
    <2>3. ASSUME NEW i \in 2..Len(line), line[i] = g
          PROVE  g \in FM2.features \ W /\ (g = FM2.root \/ ParentFeature(FM2, g) \in W)
      BY <1>9, <2>3
    <2> QED
      BY <1>10, <2>1, <2>2, <2>3
  <1>14. ASSUME NEW i \in 1..Len(next), NEW j \in 1..Len(next), next[i] = next[j] PROVE i = j
    <2>1. CASE i \in 1..Len(children) /\ j \in 1..Len(children)
      BY <1>5, <1>7, <1>14, <2>1
    <2>2. ASSUME NEW k \in 1..Len(next), k \notin 1..Len(children)
          PROVE  /\ k - Len(children) + 1 \in 2..Len(line)
                 /\ next[k] = line[k - Len(children) + 1]
      BY <1>1, <1>6, <1>7, <2>2
    <2>3. CASE i \in 1..Len(children) /\ j \notin 1..Len(children)
      BY <1>6, <1>7, <1>9, <1>14, <2>2, <2>3
    <2>4. CASE i \notin 1..Len(children) /\ j \in 1..Len(children)
      BY <1>6, <1>7, <1>9, <1>14, <2>2, <2>4
    <2>5. CASE i \notin 1..Len(children) /\ j \notin 1..Len(children)
      <3> DEFINE a == i - Len(children) + 1
                 b == j - Len(children) + 1
      <3>1. a \in 2..Len(line) /\ b \in 2..Len(line) /\ line[a] = line[b]
        BY <1>14, <2>2, <2>5
      <3>2. a \in 1..Len(line) /\ b \in 1..Len(line)
        <4> HIDE DEF a, b
        <4> QED
          BY <1>1, <3>1
      <3>3. a = b
        <4> HIDE DEF a, b
        <4> QED
          BY <3>1, <3>2 DEF Walked
      <3> QED
        BY <1>1, <1>6, <1>7, <3>3
    <2> QED
      BY <2>1, <2>3, <2>4, <2>5
  <1>15. Walked(W, next)
    BY <1>7, <1>11, <1>12, <1>13, <1>14 DEF Walked
  <1> QED
    BY <1>2, <1>15 DEF F, next

-------------------------------------------------------------------------------
(* Conflicts *)

\* A name leads to its feature.
LEMMA NameLeadsTo ==
  ASSUME NEW m \in Model, \A f, g \in m.features : NameOf[f] = NameOf[g] => f = g,
         NEW x \in m.features
  PROVE  GetFeature(m, NameOf[x]) = x
  BY GetFeatureFinds

\* A name is one of the model's exactly if it leads to a feature.
LEMMA NameIsKnown ==
  ASSUME NEW m \in Model, NEW n
  PROVE  n \in NamesIn(m) <=> GetFeature(m, n) # Nil
  BY GetFeatureFinds DEF NamesIn

\* The parent feature of all but the root is a feature of the model.
LEMMA ParentIsFeature ==
  ASSUME NEW m \in Model, EdgesMatchParents(m), Rooted(m), GroupsWellPlaced(m),
         NEW x \in m.features \ {m.root}
  PROVE  ParentFeature(m, x) \in m.features /\ ParentFeature(m, x) # Nil /\ ParentFeature(m, x) \in Feature
  <1>1. m.features \subseteq Feature /\ Nil \notin Feature
    BY ModelFields, ConstantsAssumption DEF Node
  <1> QED
    BY <1>1, ParentFeatureIs

\* The root has no parent feature.
LEMMA RootHasNoParent ==
  ASSUME NEW m \in Model, Rooted(m)
  PROVE  ParentFeature(m, m.root) = Nil
  <1>1. m.parent[m.root] = Nil /\ Nil \notin Relationship
    BY ConstantsAssumption DEF Rooted, Node
  <1>2. RelationshipsAbove(m, m.root) = {}
    BY <1>1, NothingAbove
  <1> QED
    BY <1>1, <1>2 DEF ParentFeature

\* Every feature but the root hangs below a feature or a group, not both.
LEMMA BelowEither ==
  ASSUME NEW m \in Model, WellFormed(m), NEW f \in m.features
  PROVE  /\ f \in RootFeature <=> f = m.root
         /\ f \in RootFeature => m.parent[f] \notin Feature /\ m.parent[f] \notin Relationship
         /\ f \notin RootFeature => (m.parent[f] \in Feature <=> m.parent[f] \notin Relationship)
  <1>1. /\ EdgesMatchParents(m) /\ Rooted(m) /\ GroupsWellPlaced(m) /\ NamesIdentify(m)
        /\ m.features \subseteq Feature /\ m.relationships \subseteq Relationship
        /\ Feature \cap Relationship = {} /\ Nil \notin Feature \cup Relationship
    BY ModelFields, ConstantsAssumption DEF WellFormed, Node
  <1>2. f \in RootFeature <=> f = m.root
    BY <1>1 DEF NamesIdentify
  <1>3. f = m.root => m.parent[f] = Nil
    BY <1>1 DEF Rooted
  <1>4. f # m.root => m.parent[f] \in m.features \/ m.parent[f] \in m.relationships
    BY <1>1, ParentFeatureIs
  <1> QED
    BY <1>1, <1>2, <1>3, <1>4

\* Descriptions are the same if each part is.
LEMMA DescriptionsEqual ==
  ASSUME NEW m, NEW f, NEW m2, NEW g
  PROVE  Description(m, f) = Description(m2, g) <=>
           /\ PropertiesOf[f] = PropertiesOf[g]
           /\ f \in RootFeature <=> g \in RootFeature
           /\ m.parent[f] \in Relationship <=> m2.parent[g] \in Relationship
  <1> DEFINE a == PropertiesOf[f]
             b == f \in RootFeature
             c == m.parent[f] \in Relationship
             p == PropertiesOf[g]
             q == g \in RootFeature
             r == m2.parent[g] \in Relationship
  <1>1. b \in BOOLEAN /\ c \in BOOLEAN /\ q \in BOOLEAN /\ r \in BOOLEAN
    OBVIOUS
  <1>2. Description(m, f) = <<a, b, c>> /\ Description(m2, g) = <<p, q, r>>
    BY DEF Description
  <1> HIDE DEF a, b, c, p, q, r
  <1>3. <<a, b, c>> = <<p, q, r>> <=> a = p /\ b = q /\ c = r
    OBVIOUS
  <1>4. (b = q <=> (b <=> q)) /\ (c = r <=> (c <=> r))
    BY <1>1
  <1>5. Description(m, f) = Description(m2, g) <=> a = p /\ (b <=> q) /\ (c <=> r)
    BY <1>2, <1>3, <1>4
  <1> QED
    BY <1>5 DEF a, b, c, p, q, r

\* A visit refuses a feature exactly if the models say different things of its name.
LEMMA RefusedIsConflict ==
  ASSUME FM2 \in Others, FM \in Model, WellFormed(FM), NEW g \in FM2.features
  PROVE  Conflict(NameOf[g]) <=> ~Mergeable(g)
  <1> DEFINE n == NameOf[g]
             f == GetFeature(FM, n)
  <1>1. FM2 \in Model /\ WellFormed(FM2) /\ IsTree(FM2)
    BY OtherIsTree
  <1>2. GetFeature(FM2, n) = g /\ g # Nil /\ g \in Feature
    <2>1. g # Nil /\ g \in Feature
      BY <1>1, ModelFields, ConstantsAssumption DEF Node
    <2> QED
      BY <1>1, <2>1, NameLeadsTo DEF IsTree, NamesIdentify
  <1>3. CASE f = Nil
    BY <1>2, <1>3 DEF Conflict, Mergeable
  <1>4. CASE f # Nil
    <2>1. f \in FM.features
      BY <1>4, GetFeatureFinds
    <2>2. Mergeable(g) <=> compareProperties(f, g)
      BY <1>4 DEF Mergeable
    <2>3. Conflict(n) <=> \/ /\ {f, g} \cap RootFeature = {}
                             /\ LowerCase[ParentName(FM, n)] # LowerCase[ParentName(FM2, n)]
                          \/ Strict /\ (Description(FM, f) # Description(FM2, g) \/ f \in UnknownFeature)
      BY <1>2, <1>4 DEF Conflict
    <2>4. ASSUME {f, g} \cap RootFeature = {}
          PROVE  /\ ParentName(FM, n) = NameOf[ParentFeature(FM, f)]
                 /\ ParentName(FM2, n) = NameOf[ParentFeature(FM2, g)]
      <3>1. f # FM.root /\ g # FM2.root
        BY <1>1, <2>1, <2>4, BelowEither
      <3>2. ParentFeature(FM, f) # Nil
        BY <2>1, <3>1, ParentIsFeature DEF WellFormed
      <3>3. ParentFeature(FM2, g) # Nil
        BY <1>1, <3>1, ParentIsFeature DEF WellFormed
      <3> QED
        BY <1>2, <3>2, <3>3 DEF ParentName
    <2>5. /\ f \in RootFeature => FM.parent[f] \notin Feature /\ FM.parent[f] \notin Relationship
          /\ f \notin RootFeature => (FM.parent[f] \in Feature <=> FM.parent[f] \notin Relationship)
      BY <2>1, BelowEither
    <2>6. /\ g \in RootFeature => FM2.parent[g] \notin Feature /\ FM2.parent[g] \notin Relationship
          /\ g \notin RootFeature => (FM2.parent[g] \in Feature <=> FM2.parent[g] \notin Relationship)
      BY <1>1, BelowEither
    <2>7. Description(FM, f) = Description(FM2, g) <=>
            /\ PropertiesOf[f] = PropertiesOf[g]
            /\ f \in RootFeature <=> g \in RootFeature
            /\ f \notin RootFeature => (FM.parent[f] \in Feature <=> FM2.parent[g] \in Feature)
      BY <2>5, <2>6, DescriptionsEqual
    <2>8. compareProperties(f, g) <=>
            /\ {f, g} \cap RootFeature = {} =>
                 LowerCase[NameOf[ParentFeature(FM, f)]] = LowerCase[NameOf[ParentFeature(FM2, g)]]
            /\ Strict => Description(FM, f) = Description(FM2, g) /\ f \notin UnknownFeature
      <3> HIDE DEF f, n
      <3> QED
        BY <2>7 DEF compareProperties, SameParents
    <2> HIDE DEF f
    <2> QED
      BY <2>2, <2>3, <2>4, <2>8
  <1> QED
    BY <1>3, <1>4

\* Each name the models contradict each other about is one of the second model's.
LEMMA ConflictIsVisited ==
  ASSUME FM2 \in Others, FM \in Model, WellFormed(FM)
  PROVE  (\E n \in Name : Conflict(n)) <=> \E g \in FM2.features : ~Mergeable(g)
  <1>1. ASSUME NEW n \in Name, Conflict(n) PROVE \E g \in FM2.features : ~Mergeable(g)
    <2>1. GetFeature(FM2, n) \in FM2.features /\ NameOf[GetFeature(FM2, n)] = n
      BY <1>1, OtherIsTree, GetFeatureFinds DEF Conflict
    <2> QED
      BY <1>1, <2>1, RefusedIsConflict
  <1>2. ASSUME NEW g \in FM2.features, ~Mergeable(g) PROVE \E n \in Name : Conflict(n)
    <2>1. NameOf[g] \in Name
      BY OtherIsTree, ConstantsAssumption
    <2> QED
      BY <1>2, <2>1, RefusedIsConflict
  <1> QED
    BY <1>1, <1>2

-------------------------------------------------------------------------------
(* The copy, as far as it has got *)

\* A tree, but for a second root.
Grown(m) ==
  /\ EdgesMatchParents(m) /\ Rooted(m) /\ GroupsWellPlaced(m) /\ ConstraintsBound(m)
  /\ \A f, g \in m.features : NameOf[f] = NameOf[g] => f = g

\* What has been visited, and is not in the first model
Fresh(V) == {g \in V : NameOf[g] \notin NamesIn(FM)}

\* The copy c has the first model, and the features visited of the second that the
\* first does not have, below the parents and with the locations they have there.
SoFar(c, V) ==
  /\ \A x \in Feature : x \in c.features <=> Twin[x] \in FM.features \cup Fresh(V)
  /\ \A r \in Relationship : r \in c.relationships <=> Twin[r] \in FM.relationships
  /\ \A k \in Constraint : k \in c.constraints <=> Twin[k] \in FM.constraints
  /\ c.root = Twin[FM.root]
  /\ \A f \in FM.features \ {FM.root} :
       NameOf[ParentFeature(c, Twin[f])] = NameOf[ParentFeature(FM, f)]
  /\ \A g \in Fresh(V) \ {FM2.root} :
       NameOf[ParentFeature(c, Twin[g])] = NameOf[ParentFeature(FM2, g)]
  /\ \A f \in FM.features \ (RootFeature \cup UnknownFeature), l \in Location :
       c.locations[Twin[f]][l] > 0 <=>
         \/ FM.locations[f][l] > 0
         \/ \E g \in V : NameOf[g] = NameOf[f] /\ FM2.locations[g][l] > 0
  /\ \A g \in Fresh(V) \ {FM2.root} : c.locations[Twin[g]] = FM2.locations[g]
  /\ c.output = NoOutput

\* The twins of what is merged are not objects of the first model.
Strangers == \A x \in Objects(FM) \cup Objects(FM2) : Twin[x] \notin Objects(FM)

\* An inserted feature is a leaf: no other feature gets another parent.
LEMMA InsertGrows ==
  ASSUME NEW m \in Model, Grown(m), NEW f \in Feature, f \notin Live(m), NEW p \in m.features,
         \A g \in m.features : NameOf[g] # NameOf[f]
  PROVE  LET n == Insert(m, f, p) IN
         /\ n \in Model /\ Grown(n)
         /\ n.features = m.features \cup {f} /\ n.relationships = m.relationships
         /\ n.constraints = m.constraints /\ n.root = m.root /\ n.locations = m.locations
         /\ n.output = m.output
         /\ ParentFeature(n, f) = p
         /\ \A x \in m.features \ {m.root} : ParentFeature(n, x) = ParentFeature(m, x)
  <1> DEFINE n == Insert(m, f, p)
  <1>1. /\ EdgesMatchParents(m) /\ Rooted(m) /\ GroupsWellPlaced(m) /\ ConstraintsBound(m)
        /\ \A x, y \in m.features : NameOf[x] = NameOf[y] => x = y
        /\ p \in Live(m) /\ p \in Node /\ f \in Node /\ f # p
        /\ m.features \subseteq Feature /\ m.relationships \subseteq Relationship
        /\ Feature \cap Relationship = {} /\ Feature \subseteq Node
        /\ m.parent \in [Node -> Node \cup {Nil}] /\ m.root \in m.features
    BY ModelFields, ConstantsAssumption DEF Grown, Live, Node, Rooted
  <1>2. /\ n \in Model /\ n.features = m.features \cup {f} /\ n.relationships = m.relationships
        /\ n.root = m.root /\ n.parent = [m.parent EXCEPT ![f] = p]
        /\ n.constraints = m.constraints /\ n.bound = m.bound /\ n.locations = m.locations
        /\ n.output = m.output
    BY <1>1, InsertType, InsertData
  <1>3. EdgesMatchParents(n) /\ Rooted(n) /\ GroupsWellPlaced(n)
    BY <1>1, InsertKeepsShape
  <1> HIDE DEF n
  <1>4. Grown(n)
    <2>1. ConstraintsBound(n)
      BY <1>1, <1>2 DEF ConstraintsBound
    <2>2. \A x, y \in n.features : NameOf[x] = NameOf[y] => x = y
      BY <1>1, <1>2
    <2> QED
      BY <1>3, <2>1, <2>2 DEF Grown
  <1>5. f \in n.features \ {n.root} /\ n.parent[f] = p /\ p \notin n.relationships
    BY <1>1, <1>2 DEF Live
  <1>6. ParentFeature(n, f) = p
    BY <1>2, <1>3, <1>5, ParentFeatureIs
  <1>7. ASSUME NEW x \in m.features \ {m.root} PROVE ParentFeature(n, x) = ParentFeature(m, x)
    <2>1. x \in n.features \ {n.root} /\ x # f /\ x \in Node
      BY <1>1, <1>2 DEF Live
    <2>2. n.parent[x] = m.parent[x]
      BY <1>1, <1>2, <2>1
    <2>3. \/ m.parent[x] \in m.features /\ ParentFeature(m, x) = m.parent[x]
          \/ m.parent[x] \in m.relationships /\ ParentFeature(m, x) = m.parent[m.parent[x]]
      BY <1>1, ParentFeatureIs
    <2>4. \/ n.parent[x] \in n.features /\ ParentFeature(n, x) = n.parent[x]
          \/ n.parent[x] \in n.relationships /\ ParentFeature(n, x) = n.parent[n.parent[x]]
      BY <1>2, <1>3, <2>1, ParentFeatureIs
    <2>5. \A r \in m.relationships : n.parent[r] = m.parent[r] /\ r \notin n.features
      BY <1>1, <1>2, TwinIs
    <2> QED
      BY <1>1, <1>2, <2>2, <2>3, <2>4, <2>5
  <1> QED
    BY <1>2, <1>4, <1>6, <1>7 DEF n

\* A model that differs in its locations only is the same tree.
LEMMA SameGrowth ==
  ASSUME NEW m, NEW n, n.features = m.features, n.relationships = m.relationships, n.root = m.root,
         n.parent = m.parent, n.edges = m.edges, n.constraints = m.constraints, n.bound = m.bound
  PROVE  /\ Live(n) = Live(m)
         /\ Grown(m) => Grown(n)
         /\ \A x : ParentFeature(n, x) = ParentFeature(m, x)
  <1>1. Live(n) = Live(m)
    BY DEF Live
  <1>2. Grown(m) => Grown(n)
    BY <1>1 DEF Grown, EdgesMatchParents, Rooted, GroupsWellPlaced, ConstraintsBound
  <1>3. \A x : RelationshipsAbove(n, x) = RelationshipsAbove(m, x)
    BY DEF RelationshipsAbove
  <1>4. \A x : ParentFeature(n, x) = ParentFeature(m, x)
    BY <1>3 DEF ParentFeature
  <1> QED
    BY <1>1, <1>2, <1>4

-------------------------------------------------------------------------------
(* The walk over the copy *)

\* The copy that the merge begins with has the first model, and nothing of the second.
LEMMA OpenedCopy ==
  ASSUME Kept(FM), NEW c, c = Renamed(Cloned(FM), Twin)
  PROVE  c \in Model /\ Grown(c) /\ OnlyItsLocations(c) /\ SoFar(c, {})
  <1> DEFINE m == Cloned(FM)
  <1>1. /\ FM \in Model /\ WellFormed(FM) /\ OnlyItsLocations(FM)
        /\ FM.features \subseteq Feature /\ FM.root \in FM.features /\ FM.root # Nil
        /\ EdgesMatchParents(FM) /\ Rooted(FM) /\ GroupsWellPlaced(FM)
    BY ModelFields, ConstantsAssumption DEF Kept, WellFormed, Rooted, Node
  <1>2. /\ m \in Model /\ WellFormed(m) /\ OnlyItsLocations(m)
        /\ m.features = FM.features /\ m.relationships = FM.relationships /\ m.root = FM.root
        /\ m.constraints = FM.constraints /\ m.output = NoOutput
        /\ \A f \in FM.features \ {FM.root} : ParentFeature(m, f) = ParentFeature(FM, f)
        /\ \A f \in Feature \ (RootFeature \cup UnknownFeature) : m.locations[f] = FM.locations[f]
    BY <1>1, ClonedIs
  <1> HIDE DEF m
  <1>3. EdgesMatchParents(m) /\ Rooted(m) /\ GroupsWellPlaced(m)
    BY <1>2 DEF WellFormed
  <1>4. c \in Model /\ IsCopy(m, c)
    BY <1>2, <1>3, RenamedIsCopy DEF m
  <1>5. WellFormed(c) /\ OnlyItsLocations(c)
    BY <1>2, <1>4, CopyOfWellFormed, CopyOfLocations
  <1>6. Grown(c) /\ EdgesMatchParents(c) /\ Rooted(c) /\ GroupsWellPlaced(c)
    BY <1>5 DEF Grown, WellFormed, NamesIdentify
  <1>7. /\ \A x \in Feature : x \in c.features <=> Twin[x] \in FM.features
        /\ \A r \in Relationship : r \in c.relationships <=> Twin[r] \in FM.relationships
        /\ \A k \in Constraint : k \in c.constraints <=> Twin[k] \in FM.constraints
        /\ c.root = Twin[FM.root]
        /\ \A f \in Feature : c.locations[f] = m.locations[Twin[f]]
        /\ c.output = NoOutput
    BY <1>1, <1>2, <1>4 DEF IsCopy
  <1>8. ASSUME NEW f \in FM.features \ {FM.root}
        PROVE  NameOf[ParentFeature(c, Twin[f])] = NameOf[ParentFeature(FM, f)]
    <2> DEFINE x == Twin[f]
    <2>1. /\ f \in Feature /\ f \in Node /\ x \in Feature /\ x \in Node /\ Twin[x] = f
          /\ Feature \cap Relationship = {} /\ FM.root \in Feature
      BY <1>1, TwinIs
    <2> HIDE DEF x
    <2>2. x \in c.features \ {c.root}
      BY <1>1, <1>7, <2>1, TwinIs
    <2>3. /\ m.parent[f] # Nil => Twin[c.parent[x]] = m.parent[f]
          /\ c.parent[x] = Nil <=> m.parent[f] = Nil
          /\ c.parent[x] \in Relationship <=> m.parent[f] \in Relationship
      BY <1>2, <1>4, <2>1, CopyNodes
    <2>4. /\ c.features \subseteq Feature /\ c.relationships \subseteq Relationship
          /\ m.features \subseteq Feature /\ m.relationships \subseteq Relationship
      BY <1>2, <1>4, ModelFields
    <2>5. \/ /\ m.parent[f] \in m.features /\ ParentFeature(m, f) = m.parent[f]
          \/ /\ m.parent[f] \in m.relationships /\ m.parent[m.parent[f]] \in m.features
             /\ ParentFeature(m, f) = m.parent[m.parent[f]]
      BY <1>2, <1>3, ParentFeatureIs
    <2>6. \/ /\ c.parent[x] \in c.features /\ ParentFeature(c, x) = c.parent[x]
          \/ /\ c.parent[x] \in c.relationships /\ c.parent[c.parent[x]] \in c.features
             /\ ParentFeature(c, x) = c.parent[c.parent[x]]
      BY <1>4, <1>6, <2>2, ParentFeatureIs
    <2>7. Twin[ParentFeature(c, x)] = ParentFeature(m, f) /\ ParentFeature(c, x) \in Feature
      <3>1. CASE m.parent[f] \in m.features
        BY <2>1, <2>3, <2>4, <2>5, <2>6, <3>1, TwinIs
      <3>2. CASE m.parent[f] \in m.relationships
        <4>1. /\ ParentFeature(m, f) = m.parent[m.parent[f]] /\ m.parent[m.parent[f]] \in m.features
              /\ c.parent[x] \in c.relationships /\ c.parent[c.parent[x]] \in c.features
              /\ ParentFeature(c, x) = c.parent[c.parent[x]]
              /\ Twin[c.parent[x]] = m.parent[f] /\ c.parent[x] \in Node
          BY <2>1, <2>3, <2>4, <2>5, <2>6, <3>2, TwinIs
        <4>2. m.parent[Twin[c.parent[x]]] # Nil
          BY <2>4, <4>1, TwinIs
        <4>3. Twin[c.parent[c.parent[x]]] = m.parent[Twin[c.parent[x]]]
          BY <1>2, <1>4, <4>1, <4>2, CopyNodes
        <4> QED
          BY <2>4, <4>1, <4>3
      <3> QED
        BY <2>5, <3>1, <3>2
    <2> QED
      BY <1>2, <2>7, TwinIs DEF x
  <1>9. Fresh({}) = {}
    BY DEF Fresh
  <1>10. \A f \in FM.features \ (RootFeature \cup UnknownFeature) : c.locations[Twin[f]] = FM.locations[f]
    BY <1>1, <1>2, <1>7, TwinIs
  <1>11. SoFar(c, {})
    BY <1>7, <1>8, <1>9, <1>10 DEF SoFar
  <1> QED
    BY <1>4, <1>5, <1>6, <1>11

\* The features of the copy have the names of the first model and of what was visited.
LEMMA NamesOfCopy ==
  ASSUME Kept(FM), FM2 \in Others, NEW c \in Model, NEW V \in SUBSET FM2.features, SoFar(c, V), Grown(c)
  PROVE  /\ \A f \in FM.features : Twin[f] \in c.features /\ GetFeature(c, NameOf[f]) = Twin[f]
         /\ \A g \in Fresh(V) : Twin[g] \in c.features /\ GetFeature(c, NameOf[g]) = Twin[g]
         /\ \A x \in c.features : \E f \in FM.features \cup Fresh(V) : f \in Feature /\ x = Twin[f] /\ NameOf[x] = NameOf[f]
         /\ FM.features \subseteq Feature /\ FM2.features \subseteq Feature /\ c.features \subseteq Feature
         /\ FM.root \in FM.features /\ Fresh(V) \subseteq FM2.features
         /\ \A f \in FM.features, g \in Fresh(V) : NameOf[f] # NameOf[g]
         /\ \A f, g \in FM.features : NameOf[f] = NameOf[g] => f = g
         /\ \A f, g \in FM2.features : NameOf[f] = NameOf[g] => f = g
  <1>1. /\ FM.features \subseteq Feature /\ FM2.features \subseteq Feature /\ c.features \subseteq Feature
        /\ FM.root \in FM.features
        /\ \A f, g \in FM.features : NameOf[f] = NameOf[g] => f = g
        /\ \A f, g \in FM2.features : NameOf[f] = NameOf[g] => f = g
    BY OtherIsTree, ModelFields DEF Kept, WellFormed, Rooted, NamesIdentify
  <1>2. Fresh(V) \subseteq FM2.features /\ \A f \in FM.features, g \in Fresh(V) : NameOf[f] # NameOf[g]
    BY DEF Fresh, NamesIn
  <1>3. \A f \in FM.features \cup Fresh(V) : Twin[f] \in c.features /\ NameOf[Twin[f]] = NameOf[f]
    <2>1. \A f \in Feature : Twin[f] \in Feature /\ Twin[Twin[f]] = f /\ NameOf[Twin[f]] = NameOf[f]
      BY TwinIs
    <2> QED
      BY <1>1, <1>2, <2>1 DEF SoFar
  <1>4. \A f \in FM.features \cup Fresh(V) : GetFeature(c, NameOf[f]) = Twin[f]
    <2>1. \A x, y \in c.features : NameOf[x] = NameOf[y] => x = y
      BY DEF Grown
    <2> QED
      BY <1>3, <2>1, NameLeadsTo
  <1>5. ASSUME NEW x \in c.features
        PROVE  \E f \in FM.features \cup Fresh(V) : f \in Feature /\ x = Twin[f] /\ NameOf[x] = NameOf[f]
    <2>1. /\ x \in Feature /\ Twin[x] \in Feature /\ Twin[Twin[x]] = x /\ NameOf[Twin[x]] = NameOf[x]
      BY <1>1, TwinIs
    <2>2. Twin[x] \in FM.features \cup Fresh(V)
      BY <2>1 DEF SoFar
    <2> QED
      BY <2>1, <2>2
  <1> QED
    BY <1>1, <1>2, <1>3, <1>4, <1>5

\* Locations of a feature that both models have are added to its copy.
LEMMA LocationsMerge ==
  ASSUME Kept(FM), FM2 \in Others, copy \in Model, Grown(copy), OnlyItsLocations(copy),
         NEW V \in SUBSET FM2.features, SoFar(copy, V),
         NEW F \in FM2.features \ V, GetFeature(FM, NameOf[F]) # Nil,
         NEW n, n = MergeLocations(F)
  PROVE  /\ n \in Model /\ Grown(n) /\ OnlyItsLocations(n) /\ SoFar(n, V \cup {F})
         /\ translateFeature(GetFeature(FM, NameOf[F])) # Nil
  <1> DEFINE CMP == GetFeature(FM, NameOf[F])
             T == Twin[CMP]
             missing == {l \in Location : FM.locations[CMP][l] = 0}
             place == [l \in Location |->
                         copy.locations[T][l] + IF l \in missing THEN FM2.locations[F][l] ELSE 0]
  <1>1. CMP \in FM.features /\ NameOf[CMP] = NameOf[F] /\ FM \in Model /\ FM2 \in Model
    BY GetFeatureFinds, OtherIsTree DEF Kept
  <1>2. /\ T \in copy.features /\ GetFeature(copy, NameOf[CMP]) = T
        /\ FM.features \subseteq Feature /\ FM2.features \subseteq Feature /\ copy.features \subseteq Feature
        /\ \A f \in FM.features : Twin[f] \in copy.features
        /\ \A g \in Fresh(V) : Twin[g] \in copy.features
        /\ Fresh(V) \subseteq FM2.features
        /\ \A f \in FM.features, g \in Fresh(V) : NameOf[f] # NameOf[g]
        /\ \A f, g \in FM.features : NameOf[f] = NameOf[g] => f = g
    BY <1>1, NamesOfCopy
  <1>3. n = [copy EXCEPT !.locations[T] =
               [l \in Location |-> @[l] + IF l \in missing THEN FM2.locations[F][l] ELSE 0]]
    BY <1>2 DEF MergeLocations, translateFeature
  <1> HIDE DEF CMP, T
  <1>4. /\ copy.locations \in [Feature -> [Location -> Nat]]
        /\ FM.locations \in [Feature -> [Location -> Nat]]
        /\ FM2.locations \in [Feature -> [Location -> Nat]]
        /\ T \in Feature /\ CMP \in Feature /\ F \in Feature
    BY <1>1, <1>2, ModelFields
  <1>5. /\ n.features = copy.features /\ n.relationships = copy.relationships /\ n.root = copy.root
        /\ n.parent = copy.parent /\ n.edges = copy.edges /\ n.constraints = copy.constraints
        /\ n.bound = copy.bound /\ n.output = copy.output /\ n.info = copy.info
        /\ n.locations = [copy.locations EXCEPT ![T] = place]
        /\ n = [copy EXCEPT !.locations = [copy.locations EXCEPT ![T] = place]]
    BY <1>3 DEF Model
  <1>6. place \in [Location -> Nat]
    BY <1>4
  <1>7. n \in Model
    <2>1. [copy.locations EXCEPT ![T] = place] \in [Feature -> [Location -> Nat]]
      BY <1>4, <1>6
    <2> HIDE DEF place
    <2> QED
      BY <1>5, <2>1 DEF Model
  <1>8. Grown(n) /\ \A x : ParentFeature(n, x) = ParentFeature(copy, x)
    BY <1>5, SameGrowth
  <1>9. \A x \in Feature \ {T} : n.locations[x] = copy.locations[x]
    BY <1>4, <1>5
  <1>10. n.locations[T] = place
    BY <1>4, <1>5
  <1>11. OnlyItsLocations(n)
    <2> HIDE DEF place
    <2> QED
      BY <1>2, <1>5, <1>9 DEF OnlyItsLocations
  <1>12. Fresh(V \cup {F}) = Fresh(V)
    BY <1>1 DEF Fresh, NamesIn
  <1>13. \A x \in Feature : NameOf[Twin[x]] = NameOf[x]
    BY TwinIs
  <1>14. ASSUME NEW f \in FM.features \ (RootFeature \cup UnknownFeature), NEW l \in Location
         PROVE  n.locations[Twin[f]][l] > 0 <=>
                  \/ FM.locations[f][l] > 0
                  \/ \E g \in V \cup {F} : NameOf[g] = NameOf[f] /\ FM2.locations[g][l] > 0
    <2>1. copy.locations[Twin[f]][l] > 0 <=>
            \/ FM.locations[f][l] > 0
            \/ \E g \in V : NameOf[g] = NameOf[f] /\ FM2.locations[g][l] > 0
      BY DEF SoFar
    <2>2. CASE f = CMP
      <3>1. n.locations[Twin[f]][l] = copy.locations[T][l] + IF l \in missing THEN FM2.locations[F][l] ELSE 0
        BY <1>10, <2>2 DEF T
      <3>2. /\ copy.locations[T][l] \in Nat /\ FM2.locations[F][l] \in Nat /\ FM.locations[f][l] \in Nat
        BY <1>4, <2>2
      <3>3. l \in missing <=> FM.locations[f][l] = 0
        BY <2>2
      <3>4. copy.locations[T][l] = copy.locations[Twin[f]][l]
        BY <2>2 DEF T
      <3>5. n.locations[Twin[f]][l] > 0 <=>
              \/ copy.locations[Twin[f]][l] > 0
              \/ FM.locations[f][l] = 0 /\ FM2.locations[F][l] > 0
        BY <3>1, <3>2, <3>3, <3>4
      <3>6. FM.locations[f][l] > 0 \/ FM.locations[f][l] = 0
        BY <3>2
      <3> HIDE DEF missing, place
      <3> QED
        BY <1>1, <2>1, <2>2, <3>5, <3>6
    <2>3. CASE f # CMP
      <3>1. NameOf[F] # NameOf[f] /\ Twin[f] # T /\ Twin[f] \in Feature
        BY <1>1, <1>2, <1>13, <2>3 DEF T
      <3> HIDE DEF place, missing
      <3> QED
        BY <1>9, <2>1, <3>1
    <2> QED
      BY <2>2, <2>3
  <1>15. ASSUME NEW g \in Fresh(V) \ {FM2.root}
         PROVE  n.locations[Twin[g]] = FM2.locations[g]
    <2>1. Twin[g] # T /\ Twin[g] \in Feature
      BY <1>1, <1>2, <1>13 DEF T
    <2> HIDE DEF place
    <2> QED
      BY <1>9, <2>1 DEF SoFar
  <1>16. SoFar(n, V \cup {F})
    <2> HIDE DEF place
    <2> QED
      BY <1>5, <1>8, <1>12, <1>14, <1>15 DEF SoFar
  <1>17. translateFeature(GetFeature(FM, NameOf[F])) # Nil
    BY <1>2, <1>4, ConstantsAssumption DEF translateFeature, Node, CMP
  <1> QED
    BY <1>7, <1>8, <1>11, <1>16, <1>17

\* A feature that the first model does not have is added below the feature of the name
\* that its parent has, which was visited before it.
LEMMA CopyIsAdded ==
  ASSUME Kept(FM), FM2 \in Others, copy \in Model, Grown(copy), OnlyItsLocations(copy),
         NEW V \in SUBSET FM2.features, SoFar(copy, V),
         NEW F \in FM2.features \ V, GetFeature(FM, NameOf[F]) = Nil,
         F # FM2.root => ParentFeature(FM2, F) \in V,
         NEW call,
         call = [AddCopy(F) EXCEPT !.parent = IF @ = Nil THEN Nil ELSE translateFeature(@)],
         NEW o \in Outcomes(WithLocations(copy, F), call), NEW n, n = o.model
  PROVE  n \in Model /\ Grown(n) /\ OnlyItsLocations(n) /\ SoFar(n, V \cup {F}) /\ o.code = "OK"
  <1> DEFINE w == WithLocations(copy, F)
             T == Twin[F]
             P == ParentFeature(FM2, F)
             q == IF P = Nil THEN Nil ELSE translateFeature(P)
             p == IF q # Nil THEN q ELSE w.root
  <1>1. /\ FM2 \in Model /\ FM2.root \in FM2.features /\ FM \in Model
        /\ Rooted(FM2) /\ F \in Feature /\ T \in Feature /\ Twin[T] = F /\ NameOf[T] = NameOf[F]
        /\ F \in RootFeature <=> F = FM2.root
        /\ \A f \in FM.features : NameOf[f] # NameOf[F]
    BY OtherIsTree, TwinIs, GetFeatureFinds DEF Kept, WellFormed, NamesIdentify
  <1>2. /\ \A f \in FM.features : Twin[f] \in copy.features /\ GetFeature(copy, NameOf[f]) = Twin[f]
        /\ \A g \in Fresh(V) : Twin[g] \in copy.features /\ GetFeature(copy, NameOf[g]) = Twin[g]
        /\ \A x \in copy.features : \E f \in FM.features \cup Fresh(V) : f \in Feature /\ x = Twin[f] /\ NameOf[x] = NameOf[f]
        /\ FM.features \subseteq Feature /\ FM2.features \subseteq Feature /\ copy.features \subseteq Feature
        /\ FM.root \in FM.features /\ Fresh(V) \subseteq FM2.features /\ Fresh(V) \subseteq V
        /\ \A f \in FM.features, g \in Fresh(V) : NameOf[f] # NameOf[g]
        /\ \A f, g \in FM2.features : NameOf[f] = NameOf[g] => f = g
    BY NamesOfCopy DEF Fresh
  <1>3. copy.root = Twin[FM.root] /\ copy.root \in copy.features
    BY <1>2 DEF SoFar
  <1>4. /\ w.features = copy.features /\ w.relationships = copy.relationships /\ w.root = copy.root
        /\ w.parent = copy.parent /\ w.edges = copy.edges /\ w.constraints = copy.constraints
        /\ w.bound = copy.bound /\ w.output = NoOutput
        /\ w \in Model
        /\ \A x \in Feature \ {T} : w.locations[x] = copy.locations[x]
        /\ F # FM2.root => w.locations[T] = FM2.locations[F]
    <2>1. CASE F \in RootFeature
      BY <1>1, <2>1 DEF WithLocations, SoFar
    <2>2. CASE F \notin RootFeature
      <3>1. w = [copy EXCEPT !.locations = [copy.locations EXCEPT ![T] = FM2.locations[F]],
                             !.output = NoOutput]
        <4>1. copy.output = NoOutput /\ [NoOutput EXCEPT ![T] = Nil] = NoOutput
          BY DEF SoFar, NoOutput
        <4> HIDE DEF T
        <4>2. w = [copy EXCEPT !.locations = [copy.locations EXCEPT ![T] = FM2.locations[F]],
                               !.output = [copy.output EXCEPT ![T] = Nil]]
          BY <2>2 DEF WithLocations, Model, T
        <4> QED
          BY <4>1, <4>2
      <3>2. /\ copy.locations \in [Feature -> [Location -> Nat]]
            /\ FM2.locations[F] \in [Location -> Nat]
        BY <1>1, ModelFields
      <3> HIDE DEF w, T
      <3>3. /\ [copy.locations EXCEPT ![T] = FM2.locations[F]] \in [Feature -> [Location -> Nat]]
            /\ NoOutput \in [Feature -> Text \cup {Nil}]
        BY <1>1, <3>2 DEF NoOutput
      <3>4. /\ w.features = copy.features /\ w.relationships = copy.relationships /\ w.root = copy.root
            /\ w.parent = copy.parent /\ w.edges = copy.edges /\ w.constraints = copy.constraints
            /\ w.bound = copy.bound /\ w.locations = [copy.locations EXCEPT ![T] = FM2.locations[F]]
            /\ w.output = NoOutput
            /\ w \in Model
        BY <3>1, <3>3 DEF Model
      <3> QED
        BY <1>1, <3>2, <3>4
    <2> QED
      BY <2>1, <2>2
  <1>5. Grown(w) /\ \A x : ParentFeature(w, x) = ParentFeature(copy, x)
    BY <1>4, SameGrowth
  <1>6. /\ F = FM2.root => q = Nil
        /\ F # FM2.root => q \in copy.features /\ q # Nil /\ NameOf[q] = NameOf[P]
    <2>1. F = FM2.root => P = Nil
      BY <1>1, RootHasNoParent
    <2>2. ASSUME F # FM2.root PROVE q \in copy.features /\ q # Nil /\ NameOf[q] = NameOf[P]
      <3>1. P \in V /\ P \in Feature /\ P # Nil
        BY <1>2, <2>2, ConstantsAssumption DEF Node
      <3>2. PICK f \in FM.features \cup Fresh(V) : f \in Feature /\ NameOf[f] = NameOf[P]
        BY <1>2, <3>1 DEF Fresh, NamesIn
      <3>3. GetFeature(copy, NameOf[P]) = Twin[f] /\ Twin[f] \in copy.features
        BY <1>2, <3>2
      <3>4. NameOf[Twin[f]] = NameOf[f] /\ Twin[f] # Nil
        BY <3>2, TwinIs, ConstantsAssumption DEF Node
      <3> QED
        BY <3>1, <3>2, <3>3, <3>4 DEF translateFeature
    <2> QED
      BY <2>1, <2>2
  <1>7. p \in w.features /\ (F # FM2.root => NameOf[p] = NameOf[P])
    BY <1>3, <1>4, <1>6
  <1>8. \A x \in w.features : NameOf[x] # NameOf[T]
    <2>1. \A g \in Fresh(V) : g # F
      BY <1>2
    <2> QED
      BY <1>1, <1>2, <1>4, <2>1
  <1>9. T \notin w.features /\ T \notin Live(w)
    <2>1. w.relationships \subseteq Relationship
      BY <1>4, ModelFields
    <2> QED
      BY <1>1, <1>8, <2>1, TwinIs DEF Live
  <1>10. n = Insert(w, T, p) /\ o.code = "OK"
    <2>1. call = [op |-> "AddFeature", feature |-> T, parent |-> q]
      BY DEF AddCopy
    <2>2. Outcomes(w, call) = AddFeature(w, T, q, Live(w))
      <3> HIDE DEF w, T, q
      <3> QED
        BY <2>1 DEF Outcomes, OutcomesAmong
    <2>3. GetFeature(w, NameOf[T]) = Nil
      BY <1>4, <1>8, GetFeatureFinds
    <2>4. p # Nil /\ p \in Live(w)
      <3> HIDE DEF p
      <3> QED
        BY <1>2, <1>4, <1>7, ConstantsAssumption DEF Live, Node
    <2>5. AddFeature(w, T, q, Live(w)) = Succeeds(Insert(w, T, p))
      BY <2>3, <2>4 DEF AddFeature
    <2> QED
      BY <2>2, <2>5 DEF Succeeds, Outcome
  <1> HIDE DEF w, T, q, p
  <1>11. /\ n \in Model /\ Grown(n)
         /\ n.features = w.features \cup {T} /\ n.relationships = w.relationships
         /\ n.constraints = w.constraints /\ n.root = w.root /\ n.locations = w.locations
         /\ n.output = NoOutput
         /\ ParentFeature(n, T) = p
         /\ \A x \in w.features \ {w.root} : ParentFeature(n, x) = ParentFeature(w, x)
    BY <1>1, <1>4, <1>5, <1>7, <1>8, <1>9, <1>10, InsertGrows
  <1>12. OnlyItsLocations(n)
    BY <1>4, <1>11 DEF OnlyItsLocations
  <1>13. Fresh(V \cup {F}) = Fresh(V) \cup {F}
    BY <1>1 DEF Fresh, NamesIn
  <1>14. \A x \in Feature : x = T <=> Twin[x] = F
    BY <1>1, TwinIs DEF T
  <1>15. \A x \in Feature : x \in n.features <=> Twin[x] \in FM.features \cup Fresh(V \cup {F})
    BY <1>4, <1>11, <1>13, <1>14 DEF SoFar
  <1>16. \A f \in FM.features \ {FM.root} : NameOf[ParentFeature(n, Twin[f])] = NameOf[ParentFeature(FM, f)]
    <2>1. \A f \in FM.features \ {FM.root} : Twin[f] \in w.features \ {w.root}
      <3>1. \A f \in FM.features \ {FM.root} : Twin[f] # Twin[FM.root]
        BY <1>2, TwinIs
      <3> QED
        BY <1>2, <1>3, <1>4, <3>1
    <2> QED
      BY <1>5, <1>11, <2>1 DEF SoFar
  <1>17. \A g \in Fresh(V) \ {FM2.root} : NameOf[ParentFeature(n, Twin[g])] = NameOf[ParentFeature(FM2, g)]
    <2>1. \A g \in Fresh(V) \ {FM2.root} : Twin[g] \in w.features \ {w.root}
      <3>1. \A g \in Fresh(V) : Twin[g] # Twin[FM.root]
        BY <1>2, TwinIs
      <3> QED
        BY <1>2, <1>3, <1>4, <3>1
    <2> QED
      BY <1>5, <1>11, <2>1 DEF SoFar
  <1>18. F # FM2.root => NameOf[ParentFeature(n, Twin[F])] = NameOf[ParentFeature(FM2, F)]
    BY <1>7, <1>11 DEF T
  <1>19. ASSUME NEW f \in FM.features \ (RootFeature \cup UnknownFeature), NEW l \in Location
         PROVE  n.locations[Twin[f]][l] > 0 <=>
                  \/ FM.locations[f][l] > 0
                  \/ \E g \in V \cup {F} : NameOf[g] = NameOf[f] /\ FM2.locations[g][l] > 0
    <2>1. n.locations[Twin[f]] = copy.locations[Twin[f]]
      <3>1. Twin[f] \in Feature \ {T}
        BY <1>1, <1>2, <1>14, TwinIs
      <3> QED
        BY <1>4, <1>11, <3>1
    <2>2. NameOf[F] # NameOf[f]
      BY <1>1
    <2> QED
      BY <2>1, <2>2 DEF SoFar
  <1>20. ASSUME NEW g \in Fresh(V \cup {F}) \ {FM2.root}
         PROVE  n.locations[Twin[g]] = FM2.locations[g]
    <2>1. CASE g = F
      BY <1>4, <1>11, <1>20, <2>1 DEF T
    <2>2. CASE g \in Fresh(V)
      <3>1. Twin[g] \in Feature \ {T}
        BY <1>2, <1>4, <1>9, <2>2
      <3> QED
        BY <1>4, <1>11, <1>20, <2>2, <3>1 DEF SoFar
    <2> QED
      BY <1>13, <2>1, <2>2
  <1>21. SoFar(n, V \cup {F})
    <2>1. /\ \A r \in Relationship : r \in n.relationships <=> Twin[r] \in FM.relationships
          /\ \A k \in Constraint : k \in n.constraints <=> Twin[k] \in FM.constraints
          /\ n.root = Twin[FM.root] /\ n.output = NoOutput
      BY <1>4, <1>11 DEF SoFar
    <2>2. \A g \in Fresh(V \cup {F}) \ {FM2.root} : NameOf[ParentFeature(n, Twin[g])] = NameOf[ParentFeature(FM2, g)]
      BY <1>13, <1>17, <1>18
    <2> QED
      BY <1>15, <1>16, <1>19, <1>20, <2>1, <2>2 DEF SoFar
  <1> QED
    BY <1>10, <1>11, <1>12, <1>21

-------------------------------------------------------------------------------
(* The end of the walk *)

\* With an empty stack all of the second model has been visited.
LEMMA AllIsVisited ==
  ASSUME FM2 \in Others, NEW V, Walked(V, << >>)
  PROVE  V = FM2.features
  <1>1. V \subseteq FM2.features
    BY DEF Walked
  <1>2. \A g \in FM2.features \ V : g # FM2.root /\ ParentFeature(FM2, g) \notin V
    <2>1. ASSUME NEW g \in FM2.features \ V, g = FM2.root \/ ParentFeature(FM2, g) \in V
          PROVE  FALSE
      <3>1. g \in Feature
        BY OtherIsTree
      <3>2. \E i \in 1..Len(<< >>) : << >>[i] = g
        BY <2>1, <3>1 DEF Walked
      <3> QED
        BY <3>2
    <2> QED
      BY <2>1
  <1>3. V \in SUBSET FM2.features
    BY <1>1
  <1>4. FM2 \in Model /\ EdgesMatchParents(FM2) /\ Rooted(FM2) /\ GroupsWellPlaced(FM2)
    BY OtherIsTree
  <1> QED
    BY <1>2, <1>3, <1>4, WalkIsComplete

\* The objects of the copy are none of the first model's.
LEMMA CopyIsApart ==
  ASSUME Kept(FM), FM2 \in Others, Strangers, copy \in Model,
         NEW V \in SUBSET FM2.features, SoFar(copy, V)
  PROVE  Objects(FM) \cap Objects(copy) = {}
  <1>1. /\ FM \in Model /\ FM2 \in Model
        /\ Objects(FM) = FM.features \cup FM.relationships \cup FM.constraints
        /\ Objects(FM2) = FM2.features \cup FM2.relationships \cup FM2.constraints
        /\ Objects(copy) = copy.features \cup copy.relationships \cup copy.constraints
    BY OtherIsTree, ModelIsNotNil DEF Kept, Live
  <1>2. /\ copy.features \subseteq Feature /\ copy.relationships \subseteq Relationship
        /\ copy.constraints \subseteq Constraint
    BY ModelFields
  <1>3. Fresh(V) \subseteq FM2.features
    BY DEF Fresh
  <1>4. ASSUME NEW x \in Objects(copy)
        PROVE  Twin[x] \in Objects(FM) \cup Objects(FM2) /\ Twin[Twin[x]] = x
    <2>1. CASE x \in copy.features
      BY <1>1, <1>2, <1>3, <2>1, TwinIs DEF SoFar
    <2>2. CASE x \in copy.relationships
      BY <1>1, <1>2, <2>2, TwinIs DEF SoFar
    <2>3. CASE x \in copy.constraints
      BY <1>1, <1>2, <2>3, TwinIs DEF SoFar
    <2> QED
      BY <1>1, <2>1, <2>2, <2>3
  <1> QED
    BY <1>4 DEF Strangers

\* A second root, if the walk has added one, fails the check.
LEMMA SecondRootIsInvalid ==
  ASSUME Kept(FM), FM2 \in Others, copy \in Model, Grown(copy), SoFar(copy, FM2.features),
         NameOf[FM2.root] \notin NamesIn(FM)
  PROVE  ~IsFeatureModelValid(copy) /\ ~ExactlyOneRootNode(copy)
  <1>1. FM2.root \in Fresh(FM2.features)
    BY OtherIsTree DEF Fresh
  <1>2. /\ Twin[FM.root] \in copy.features /\ Twin[FM2.root] \in copy.features
        /\ FM.root \in Feature /\ FM2.root \in Feature /\ NameOf[FM.root] # NameOf[FM2.root]
    BY <1>1, NamesOfCopy
  <1>3. FM.root \in RootFeature /\ FM2.root \in RootFeature
    BY OtherIsTree DEF Kept, WellFormed, NamesIdentify
  <1>4. /\ Twin[FM.root] \in RootFeature /\ Twin[FM2.root] \in RootFeature
        /\ Twin[FM.root] # Twin[FM2.root]
    BY <1>2, <1>3, TwinIs
  <1>5. ~ExactlyOneRootNode(copy)
    BY <1>2, <1>4 DEF ExactlyOneRootNode
  <1> QED
    BY <1>5 DEF IsFeatureModelValid

\* The copy at the end of the walk, when the roots do not have two names: a tree that
\* passes the check and is the union of the models.
LEMMA UnionIsValid ==
  ASSUME Kept(FM), FM2 \in Others, copy \in Model, Grown(copy), OnlyItsLocations(copy),
         SoFar(copy, FM2.features), NameOf[FM2.root] \in NamesIn(FM)
  PROVE  Kept(copy) /\ IsFeatureModelValid(copy) /\ Merged(copy)
  <1> DEFINE V == FM2.features
  <1>1. /\ \A f \in FM.features : Twin[f] \in copy.features /\ GetFeature(copy, NameOf[f]) = Twin[f]
        /\ \A g \in Fresh(V) : Twin[g] \in copy.features /\ GetFeature(copy, NameOf[g]) = Twin[g]
        /\ \A x \in copy.features : \E f \in FM.features \cup Fresh(V) : f \in Feature /\ x = Twin[f] /\ NameOf[x] = NameOf[f]
        /\ FM.features \subseteq Feature /\ FM2.features \subseteq Feature /\ copy.features \subseteq Feature
        /\ FM.root \in FM.features /\ Fresh(V) \subseteq FM2.features
        /\ \A f \in FM.features, g \in Fresh(V) : NameOf[f] # NameOf[g]
        /\ \A f, g \in FM.features : NameOf[f] = NameOf[g] => f = g
        /\ \A f, g \in FM2.features : NameOf[f] = NameOf[g] => f = g
    BY NamesOfCopy
  <1>2. /\ FM \in Model /\ FM2 \in Model /\ copy \in Model
        /\ EdgesMatchParents(FM) /\ Rooted(FM) /\ GroupsWellPlaced(FM) /\ NamesIdentify(FM)
        /\ EdgesMatchParents(FM2) /\ Rooted(FM2) /\ GroupsWellPlaced(FM2) /\ NamesIdentify(FM2)
        /\ EdgesMatchParents(copy) /\ Rooted(copy) /\ GroupsWellPlaced(copy) /\ ConstraintsBound(copy)
        /\ copy.root = Twin[FM.root]
    BY OtherIsTree DEF Kept, WellFormed, Grown, SoFar
  <1>3. \A g \in Fresh(V) : g # FM2.root /\ g \notin RootFeature
    BY <1>1, <1>2 DEF Fresh, NamesIdentify
  <1>4. copy.features \cap RootFeature = {copy.root}
    <2>1. ASSUME NEW x \in copy.features \cap RootFeature PROVE x = copy.root
      <3>1. PICK f \in FM.features \cup Fresh(V) : f \in Feature /\ x = Twin[f]
        BY <1>1
      <3>2. f \in RootFeature
        BY <2>1, <3>1, TwinIs
      <3> QED
        BY <1>2, <1>3, <3>1, <3>2 DEF NamesIdentify
    <2>2. copy.root \in copy.features /\ copy.root \in RootFeature
      <3>1. FM.root \in RootFeature /\ FM.root \in Feature
        BY <1>1, <1>2 DEF NamesIdentify
      <3> QED
        BY <1>1, <1>2, <3>1, TwinIs
    <2> QED
      BY <2>1, <2>2
  <1>5. WellFormed(copy)
    BY <1>2, <1>4 DEF WellFormed, NamesIdentify, Grown
  <1>6. IsFeatureModelValid(copy)
    BY <1>2, <1>5, TreeIsValid DEF WellFormed
  <1>7. NamesIn(copy) = NamesIn(FM) \cup NamesIn(FM2)
    <2>1. \A x \in copy.features : NameOf[x] \in NamesIn(FM) \cup NamesIn(FM2)
      BY <1>1 DEF NamesIn
    <2>2. \A f \in Feature : NameOf[Twin[f]] = NameOf[f]
      BY TwinIs
    <2>3. \A f \in FM.features : NameOf[f] \in NamesIn(copy)
      BY <1>1, <2>2 DEF NamesIn
    <2>4. \A g \in FM2.features : NameOf[g] \in NamesIn(FM) \/ NameOf[g] \in NamesIn(copy)
      BY <1>1, <2>2 DEF NamesIn, Fresh
    <2>5. NamesIn(FM) \subseteq NamesIn(copy)
      BY <2>3 DEF NamesIn
    <2> QED
      BY <2>1, <2>4, <2>5 DEF NamesIn
  <1>8. ASSUME NEW f \in FM.features
        PROVE  /\ GetFeature(FM, NameOf[f]) = f /\ GetFeature(copy, NameOf[f]) = Twin[f] /\ f # Nil /\ Twin[f] # Nil
               /\ NameOf[f] \in NamesIn(FM)
    BY <1>1, <1>2, NameLeadsTo, TwinIs, ConstantsAssumption DEF NamesIn, Node
  <1>9. ASSUME NEW g \in FM2.features
        PROVE  GetFeature(FM2, NameOf[g]) = g /\ g # Nil
    BY <1>1, <1>2, NameLeadsTo, ConstantsAssumption DEF Node
  <1>10. ASSUME NEW n \in NamesIn(copy)
         PROVE  \/ \E f \in FM.features : n = NameOf[f]
                \/ n \notin NamesIn(FM) /\ \E g \in Fresh(V) : n = NameOf[g]
    BY <1>1 DEF NamesIn, Fresh
  <1>11. ASSUME NEW f \in FM.features
         PROVE  ParentName(copy, NameOf[f]) = ParentName(FM, NameOf[f])
    <2>1. CASE f = FM.root
      <3>1. ParentFeature(copy, copy.root) = Nil /\ ParentFeature(FM, FM.root) = Nil
        BY <1>2, RootHasNoParent
      <3> QED
        BY <1>2, <1>8, <2>1, <3>1 DEF ParentName
    <2>2. CASE f # FM.root
      <3>1. Twin[f] \in copy.features \ {copy.root}
        BY <1>1, <1>2, <2>2, TwinIs
      <3>2. ParentFeature(copy, Twin[f]) # Nil /\ ParentFeature(FM, f) # Nil
        BY <1>2, <2>2, <3>1, ParentIsFeature
      <3>3. NameOf[ParentFeature(copy, Twin[f])] = NameOf[ParentFeature(FM, f)]
        BY <2>2 DEF SoFar
      <3> QED
        BY <1>8, <3>2, <3>3 DEF ParentName
    <2> QED
      BY <2>1, <2>2
  <1>12. ASSUME NEW g \in Fresh(V)
         PROVE  /\ ParentName(copy, NameOf[g]) = ParentName(FM2, NameOf[g])
                /\ copy.locations[Twin[g]] = FM2.locations[g]
                /\ GetFeature(copy, NameOf[g]) = Twin[g] /\ GetFeature(FM2, NameOf[g]) = g
                /\ Twin[g] # Nil /\ g # Nil
    <2>1. g \in FM2.features \ {FM2.root} /\ g \in Feature /\ g \in Fresh(V) \ {FM2.root}
      BY <1>1, <1>3
    <2>2. Twin[g] \in copy.features \ {copy.root}
      <3>1. FM.root \in Feature /\ NameOf[Twin[FM.root]] = NameOf[FM.root] /\ NameOf[Twin[g]] = NameOf[g]
        BY <1>1, <2>1, TwinIs
      <3> QED
        BY <1>1, <1>2, <3>1
    <2>3. ParentFeature(copy, Twin[g]) # Nil /\ ParentFeature(FM2, g) # Nil
      BY <1>2, <2>1, <2>2, ParentIsFeature
    <2>4. /\ NameOf[ParentFeature(copy, Twin[g])] = NameOf[ParentFeature(FM2, g)]
          /\ copy.locations[Twin[g]] = FM2.locations[g]
      BY <2>1 DEF SoFar
    <2>5. /\ GetFeature(copy, NameOf[g]) = Twin[g] /\ GetFeature(FM2, NameOf[g]) = g
          /\ Twin[g] # Nil /\ g # Nil
      BY <1>1, <1>9, <2>1, TwinIs
    <2> QED
      BY <2>3, <2>4, <2>5 DEF ParentName
  <1>13. ASSUME NEW n \in NamesIn(copy)
         PROVE  ParentName(copy, n) = IF n \in NamesIn(FM) THEN ParentName(FM, n) ELSE ParentName(FM2, n)
    BY <1>8, <1>10, <1>11, <1>12
  <1>14. ASSUME NEW n \in NamesIn(copy), GetFeature(FM, n) \notin RootFeature \cup UnknownFeature
         PROVE  LocationsIn(copy, n) = LocationsIn(FM, n) \cup LocationsIn(FM2, n)
    <2>1. CASE \E f \in FM.features : n = NameOf[f]
      <3>1. PICK f \in FM.features : n = NameOf[f]
        BY <2>1
      <3>2. f \in FM.features \ (RootFeature \cup UnknownFeature)
        BY <1>8, <1>14, <3>1
      <3>3. /\ LocationsIn(FM, n) = {l \in Location : FM.locations[f][l] > 0}
            /\ LocationsIn(copy, n) = {l \in Location : copy.locations[Twin[f]][l] > 0}
        BY <1>8, <3>1 DEF LocationsIn
      <3>4. \A l \in Location : l \in LocationsIn(FM2, n) <=>
              \E g \in V : NameOf[g] = NameOf[f] /\ FM2.locations[g][l] > 0
        <4>1. CASE GetFeature(FM2, n) = Nil
          <5>1. \A g \in V : NameOf[g] # n
            BY <1>2, <4>1, GetFeatureFinds
          <5> QED
            BY <3>1, <4>1, <5>1 DEF LocationsIn
        <4>2. CASE GetFeature(FM2, n) # Nil
          <5>1. GetFeature(FM2, n) \in V /\ NameOf[GetFeature(FM2, n)] = n
            BY <1>2, <4>2, GetFeatureFinds
          <5>2. \A g \in V : NameOf[g] = n <=> g = GetFeature(FM2, n)
            BY <1>1, <5>1
          <5> QED
            BY <3>1, <4>2, <5>1, <5>2 DEF LocationsIn
        <4> QED
          BY <4>1, <4>2
      <3>5. \A l \in Location : copy.locations[Twin[f]][l] > 0 <=>
              \/ FM.locations[f][l] > 0
              \/ \E g \in V : NameOf[g] = NameOf[f] /\ FM2.locations[g][l] > 0
        BY <3>2 DEF SoFar
      <3>6. LocationsIn(FM2, n) \subseteq Location
        BY DEF LocationsIn
      <3> QED
        BY <3>3, <3>4, <3>5, <3>6
    <2>2. CASE n \notin NamesIn(FM) /\ \E g \in Fresh(V) : n = NameOf[g]
      <3>1. PICK g \in Fresh(V) : n = NameOf[g]
        BY <2>2
      <3>2. GetFeature(FM, n) = Nil
        BY <1>2, <2>2, NameIsKnown
      <3> QED
        BY <1>12, <3>1, <3>2 DEF LocationsIn
    <2> QED
      BY <1>10, <2>1, <2>2
  <1>15. Merged(copy)
    BY <1>5, <1>7, <1>13, <1>14 DEF Merged, SoFar
  <1> QED
    BY <1>2, <1>5, <1>6, <1>15 DEF Kept

-------------------------------------------------------------------------------
(* The inductive invariant *)

\* Between merges the client and its transactions keep to their own invariant.  While
\* a merge runs there is a set of visited features of the second model: the stack is
\* the boundary of that set, and the copy is what it makes of the first model.
MergeInv ==
  /\ FM2 \in Others
  /\ ~merging => CopyInv
  /\ merging =>
       /\ Kept(FM) /\ handedOut = Nil /\ Strangers
       /\ copy \in Model /\ Grown(copy) /\ OnlyItsLocations(copy)
       /\ \E V \in SUBSET FM2.features : Walked(V, frontier) /\ SoFar(copy, V)

\* The client's own calls.
LEMMA OthersKeep ==
  ASSUME MergeInv, ~merging, [CopyNext]_copyVars, UNCHANGED mergeVars
  PROVE  MergeInv'
  <1>1. FM2' = FM2 /\ merging' = merging
    BY DEF mergeVars
  <1>2. CopyInv'
    BY CopyInvNext DEF MergeInv
  <1> QED
    BY <1>1, <1>2 DEF MergeInv

\* What was cloned is what the walk begins with.
LEMMA OpenMergeKeeps ==
  ASSUME MergeInv, NEW strict \in BOOLEAN, MergeFeatureModels(strict)
  PROVE  MergeInv'
  <1> DEFINE c == Renamed(Cloned(FM), Twin)
  <1>1. /\ ~merging /\ merging' = TRUE /\ FM' = FM /\ FM2' = FM2 /\ handedOut = Nil /\ handedOut' = Nil
        /\ copy' = c /\ frontier' = <<FM2.root>>
        /\ {Twin[x] : x \in Objects(FM)} \cap Allocated = {}
        /\ {Twin[x] : x \in Objects(FM2)} \cap (Allocated \cup {Twin[x] : x \in Objects(FM)}) = {}
    BY DEF MergeFeatureModels, OpenTransaction
  <1>2. Kept(FM) /\ FM2 \in Others
    BY <1>1 DEF MergeInv, CopyInv
  <1>3. c \in Model /\ Grown(c) /\ OnlyItsLocations(c) /\ SoFar(c, {})
    BY <1>2, OpenedCopy
  <1> HIDE DEF c
  <1>4. Strangers
    BY <1>1 DEF Strangers, Allocated
  <1>5. Strangers' /\ Kept(FM)'
    BY <1>1, <1>2, <1>4 DEF Strangers, Objects, Kept
  <1>6. /\ copy' \in Model /\ Grown(copy') /\ OnlyItsLocations(copy')
    BY <1>1, <1>3
  <1>7. SoFar(copy, {})'
    <2>1. SoFar(copy', {})
      BY <1>1, <1>3
    <2> QED
      BY <1>1, <2>1 DEF SoFar, Fresh, NamesIn
  <1>8. Walked({}, frontier)'
    <2> DEFINE r == FM2.root
    <2>1. r \in Feature /\ r \in FM2.features
      BY <1>2, OtherIsTree
    <2> HIDE DEF r
    <2>2. /\ <<r>> \in Seq(Feature) /\ Len(<<r>>) = 1 /\ <<r>>[1] = r /\ 1..1 = {1}
      BY <2>1
    <2>3. /\ \A g \in Feature : (\E i \in 1..Len(<<r>>) : <<r>>[i] = g) <=> g = r
          /\ \A i, j \in 1..Len(<<r>>) : <<r>>[i] = <<r>>[j] => i = j
      BY <2>2
    <2>4. /\ FM2' = FM2 /\ frontier' = <<r>> /\ r = FM2.root
      BY <1>1 DEF r
    <2> QED
      BY <2>1, <2>2, <2>3, <2>4 DEF Walked
  <1>9. \E V \in SUBSET FM2'.features : Walked(V, frontier)' /\ SoFar(copy, V)'
    BY <1>7, <1>8
  <1> QED
    BY <1>1, <1>2, <1>5, <1>6, <1>9 DEF MergeInv

\* What mergeSubtree does not look at: the feature whose locations are added to has a
\* copy, and what addFeature returns is no error.
VisitSucceeds ==
  LET F == Head(frontier)
      CMP == GetFeature(FM, NameOf[F])
      call == [AddCopy(F) EXCEPT !.parent = IF @ = Nil THEN Nil ELSE translateFeature(@)]
  IN  IF CMP # Nil THEN translateFeature(CMP) # Nil
      ELSE \A o \in Outcomes(WithLocations(copy, F), call) : o.code = "OK"

\* One more feature is visited.
LEMMA VisitKeeps ==
  ASSUME MergeInv, mergeSubtree
  PROVE  MergeInv' /\ VisitSucceeds
  <1> DEFINE F == Head(frontier)
  <1>1. /\ merging /\ merging' = merging /\ FM' = FM /\ FM2' = FM2 /\ Strict' = Strict /\ handedOut' = handedOut
        /\ frontier # << >> /\ Mergeable(F)
    BY DEF mergeSubtree
  <1>2. /\ Kept(FM) /\ FM2 \in Others /\ handedOut = Nil /\ Strangers
        /\ copy \in Model /\ Grown(copy) /\ OnlyItsLocations(copy)
    BY <1>1 DEF MergeInv
  <1>3. PICK V \in SUBSET FM2.features : Walked(V, frontier) /\ SoFar(copy, V)
    BY <1>1 DEF MergeInv
  <1>4. PICK children \in SetToSeqs(FeatureChildren(FM2, F)) : frontier' = children \o Tail(frontier)
    BY DEF mergeSubtree
  <1>5. /\ F \in FM2.features \ V
        /\ F # FM2.root => ParentFeature(FM2, F) \in V
        /\ Walked(V \cup {F}, children \o Tail(frontier))
    BY <1>1, <1>2, <1>3, <1>4, VisitWalks
  <1>6. /\ copy' \in Model /\ Grown(copy') /\ OnlyItsLocations(copy') /\ SoFar(copy', V \cup {F})
        /\ VisitSucceeds
    <2>1. CASE GetFeature(FM, NameOf[F]) # Nil
      <3>1. copy' = MergeLocations(F)
        BY <2>1 DEF mergeSubtree
      <3>2. translateFeature(GetFeature(FM, NameOf[F])) # Nil => VisitSucceeds
        BY <2>1 DEF VisitSucceeds
      <3> HIDE DEF F
      <3> QED
        BY <1>2, <1>3, <1>5, <2>1, <3>1, <3>2, LocationsMerge
    <2>2. CASE GetFeature(FM, NameOf[F]) = Nil
      <3> DEFINE call == [AddCopy(F) EXCEPT !.parent = IF @ = Nil THEN Nil ELSE translateFeature(@)]
      <3>1. PICK o \in Outcomes(WithLocations(copy, F), call) : copy' = o.model
        BY <2>2 DEF mergeSubtree
      <3>2. (\A x \in Outcomes(WithLocations(copy, F), call) : x.code = "OK") => VisitSucceeds
        BY <2>2 DEF VisitSucceeds
      <3> HIDE DEF F, call
      <3>3. \A x \in Outcomes(WithLocations(copy, F), call) : x.code = "OK"
        BY <1>2, <1>3, <1>5, <2>2, CopyIsAdded DEF call
      <3> QED
        BY <1>2, <1>3, <1>5, <2>2, <3>1, <3>2, <3>3, CopyIsAdded DEF call
    <2> QED
      BY <2>1, <2>2
  <1>7. PICK W : W = V \cup {F}
    OBVIOUS
  <1>8. W \in SUBSET FM2.features /\ Walked(W, children \o Tail(frontier)) /\ SoFar(copy', W)
    BY <1>5, <1>6, <1>7
  <1> HIDE DEF F
  <1>9. Walked(W, frontier)'
    BY <1>1, <1>4, <1>8 DEF Walked, Mergeable, compareProperties, SameParents
  <1>10. SoFar(copy, W)'
    BY <1>1, <1>8 DEF SoFar, Fresh, NamesIn
  <1>11. Kept(FM)' /\ Strangers' /\ FM2' \in Others
    BY <1>1, <1>2 DEF Kept, Strangers, Objects
  <1>12. \E X \in SUBSET FM2'.features : Walked(X, frontier)' /\ SoFar(copy, X)'
    BY <1>1, <1>8, <1>9, <1>10
  <1>13. MergeInv'
    BY <1>1, <1>2, <1>6, <1>11, <1>12 DEF MergeInv
  <1> QED
    BY <1>6, <1>13

\* What is known when the walk is through, or has met a conflict.
LEMMA WalkEnds ==
  ASSUME MergeInv, merging
  PROVE  /\ MergeConflict => \E n \in Name : Conflict(n)
         /\ MergeEnd =>
              /\ ~\E n \in Name : Conflict(n)
              /\ Objects(FM) \cap Objects(copy) = {}
              /\ IF NameOf[FM2.root] \in NamesIn(FM)
                 THEN IsFeatureModelValid(copy) /\ Kept(copy) /\ Merged(copy)
                 ELSE ~IsFeatureModelValid(copy)
  <1>1. /\ Kept(FM) /\ FM2 \in Others /\ Strangers /\ FM \in Model /\ WellFormed(FM)
        /\ copy \in Model /\ Grown(copy) /\ OnlyItsLocations(copy)
    BY DEF MergeInv, Kept
  <1>2. PICK V \in SUBSET FM2.features : Walked(V, frontier) /\ SoFar(copy, V)
    BY DEF MergeInv
  <1>3. (\E n \in Name : Conflict(n)) <=> \E g \in FM2.features : ~Mergeable(g)
    BY <1>1, ConflictIsVisited
  <1>4. ASSUME MergeConflict PROVE \E n \in Name : Conflict(n)
    <2>1. frontier # << >> /\ ~Mergeable(Head(frontier))
      BY <1>4 DEF MergeConflict
    <2>2. Head(frontier) \in FM2.features
      <3>1. frontier \in Seq(Feature)
        BY <1>2 DEF Walked
      <3>2. Head(frontier) = frontier[1] /\ 1 \in 1..Len(frontier) /\ Head(frontier) \in Feature
        BY <2>1, <3>1
      <3> QED
        BY <1>2, <3>2 DEF Walked
    <2> QED
      BY <1>3, <2>1, <2>2
  <1>5. ASSUME MergeEnd
        PROVE  /\ ~\E n \in Name : Conflict(n)
               /\ Objects(FM) \cap Objects(copy) = {}
               /\ IF NameOf[FM2.root] \in NamesIn(FM)
                  THEN IsFeatureModelValid(copy) /\ Kept(copy) /\ Merged(copy)
                  ELSE ~IsFeatureModelValid(copy)
    <2>1. frontier = << >>
      BY <1>5 DEF MergeEnd
    <2>2. V = FM2.features
      BY <1>1, <1>2, <2>1, AllIsVisited
    <2>3. \A g \in FM2.features : Mergeable(g)
      BY <1>2, <2>2 DEF Walked
    <2>4. SoFar(copy, FM2.features)
      BY <1>2, <2>2
    <2>5. Objects(FM) \cap Objects(copy) = {}
      BY <1>1, <1>2, CopyIsApart
    <2>6. CASE NameOf[FM2.root] \in NamesIn(FM)
      BY <1>1, <1>3, <2>3, <2>4, <2>5, <2>6, UnionIsValid
    <2>7. CASE NameOf[FM2.root] \notin NamesIn(FM)
      BY <1>1, <1>3, <2>3, <2>4, <2>5, <2>7, SecondRootIsInvalid
    <2> QED
      BY <2>6, <2>7
  <1> QED
    BY <1>4, <1>5

\* After the merge the client is where it was, and may have been handed a model.
LEMMA EndsKeep ==
  ASSUME MergeInv, MergeConflict \/ MergeEnd
  PROVE  MergeInv'
  <1>1. /\ merging /\ merging' = FALSE /\ FM' = FM /\ FM2' = FM2 /\ copy' = Nil
        /\ answer' \in {"nullptr", "OK", "throws"}
        /\ handedOut' = handedOut \/ (MergeEnd /\ IsFeatureModelValid(copy) /\ handedOut' = copy)
    BY DEF MergeConflict, MergeEnd
  <1>2. Kept(FM) /\ handedOut = Nil /\ FM2 \in Others
    BY <1>1 DEF MergeInv
  <1>3. Objects(Nil) = {}
    BY DEF Objects
  <1>4. Kept(FM)'
    BY <1>1, <1>2 DEF Kept
  <1>5. (handedOut # Nil => Kept(handedOut))' /\ Objects(FM') \cap Objects(handedOut') = {}
    <2>1. CASE handedOut' = handedOut
      BY <1>2, <1>3, <2>1
    <2>2. CASE MergeEnd /\ IsFeatureModelValid(copy) /\ handedOut' = copy
      <3>1. Kept(copy) /\ Objects(FM) \cap Objects(copy) = {}
        BY <1>1, <2>2, WalkEnds
      <3>2. Kept(handedOut')
        BY <2>2, <3>1
      <3> QED
        BY <1>1, <2>2, <3>1, <3>2 DEF Kept
    <2> QED
      BY <1>1, <2>1, <2>2
  <1>6. Apart'
    BY <1>1, <1>3, <1>5 DEF Apart, Objects
  <1>7. CopyInv'
    BY <1>1, <1>4, <1>5, <1>6 DEF CopyInv
  <1> QED
    BY <1>1, <1>2, <1>7 DEF MergeInv

\* Every step keeps the invariant.
LEMMA MergeInvNext == MergeInv /\ [MergeNext]_<<copyVars, mergeVars>> => MergeInv'
  <1> SUFFICES ASSUME MergeInv, [MergeNext]_<<copyVars, mergeVars>> PROVE MergeInv'
    OBVIOUS
  <1>1. CASE ~merging /\ CopyNext /\ UNCHANGED mergeVars
    BY <1>1, OthersKeep
  <1>2. ASSUME NEW strict \in BOOLEAN, MergeFeatureModels(strict) PROVE MergeInv'
    BY <1>2, OpenMergeKeeps
  <1>3. CASE mergeSubtree
    BY <1>3, VisitKeeps
  <1>4. CASE MergeConflict \/ MergeEnd
    BY <1>4, EndsKeep
  <1>5. CASE UNCHANGED <<copyVars, mergeVars>>
    <2>1. CASE ~merging
      BY <1>5, <2>1, OthersKeep
    <2>2. CASE merging
      <3>1. /\ FM' = FM /\ FM2' = FM2 /\ Strict' = Strict /\ merging' = merging /\ frontier' = frontier
            /\ copy' = copy /\ handedOut' = handedOut
        BY <1>5 DEF copyVars, mergeVars
      <3>2. PICK V \in SUBSET FM2.features : Walked(V, frontier) /\ SoFar(copy, V)
        BY <2>2 DEF MergeInv
      <3>3. Walked(V, frontier)'
        BY <3>1, <3>2 DEF Walked, Mergeable, compareProperties, SameParents
      <3>4. SoFar(copy, V)'
        BY <3>1, <3>2 DEF SoFar, Fresh, NamesIn
      <3>5. Kept(FM)' /\ Strangers' /\ FM2' \in Others
        BY <2>2, <3>1 DEF MergeInv, Kept, Strangers, Objects
      <3>6. copy' \in Model /\ Grown(copy') /\ OnlyItsLocations(copy') /\ handedOut' = Nil
        BY <2>2, <3>1 DEF MergeInv
      <3>7. \E X \in SUBSET FM2'.features : Walked(X, frontier)' /\ SoFar(copy, X)'
        BY <3>1, <3>2, <3>3, <3>4
      <3> QED
        BY <2>2, <3>1, <3>5, <3>6, <3>7 DEF MergeInv
    <2> QED
      BY <2>1, <2>2
  <1> QED
    BY <1>1, <1>2, <1>3, <1>4, <1>5 DEF MergeNext

-------------------------------------------------------------------------------
(* What follows *)

\* The inductive invariant of a merge: what was visited of the second model is closed
\* towards its root, the stack holds the features right below it, and the copy is the
\* union of the first model and of what was visited.
THEOREM MergeInvariant == MergeSpec => []MergeInv
  <1>1. MergeInit => MergeInv
    BY CopyInvInit DEF MergeInit, MergeInv
  <1> QED
    BY <1>1, MergeInvNext, PTL DEF MergeSpec

\* What mergeFeatureModels returns has the features of both models, each below the
\* feature it has there and with the locations of both, and is a tree; the models
\* merged stay as they are.
THEOREM MergeIsTheUnionHolds == MergeSpec => MergeIsTheUnion
  <1>1. ASSUME MergeInv, MergeNext, merging, ~merging'
        PROVE  (answer' = "OK" => Merged(handedOut')) /\ UNCHANGED <<FM, FM2>>
    <2>1. MergeConflict \/ MergeEnd
      BY <1>1 DEF MergeNext, MergeFeatureModels, mergeSubtree
    <2>2. CASE MergeConflict
      BY <2>2 DEF MergeConflict
    <2>3. CASE MergeEnd
      <3>1. UNCHANGED <<FM, FM2>> /\ (answer' = "OK" => handedOut' = copy /\ IsFeatureModelValid(copy))
        BY <2>3 DEF MergeEnd
      <3>2. IsFeatureModelValid(copy) => Merged(copy)
        BY <1>1, <2>3, WalkEnds
      <3> QED
        BY <3>1, <3>2
    <2> QED
      BY <2>1, <2>2, <2>3
  <1>2. MergeInv /\ [MergeNext]_<<copyVars, mergeVars>> =>
          [merging /\ ~merging' =>
             /\ answer' = "OK" => Merged(handedOut')
             /\ UNCHANGED <<FM, FM2>>]_<<copyVars, mergeVars>>
    BY <1>1
  <1> QED
    BY <1>2, MergeInvariant, PTL DEF MergeSpec, MergeIsTheUnion

\* mergeFeatureModels returns null exactly when the models say different things of a
\* name, wherever in the walk this shows, and then nothing is handed out.
THEOREM MergeRefusesConflictsHolds == MergeSpec => MergeRefusesConflicts
  <1>1. ASSUME MergeInv, MergeNext, merging, ~merging'
        PROVE  /\ (answer' = "nullptr") <=> \E n \in Name : Conflict(n)
               /\ answer' # "OK" => handedOut' = handedOut
    <2>1. MergeConflict \/ MergeEnd
      BY <1>1 DEF MergeNext, MergeFeatureModels, mergeSubtree
    <2>2. CASE MergeConflict
      <3>1. answer' = "nullptr" /\ handedOut' = handedOut
        BY <2>2 DEF MergeConflict
      <3> QED
        BY <1>1, <2>2, <3>1, WalkEnds
    <2>3. CASE MergeEnd
      <3>1. answer' \in {"OK", "throws"} /\ (answer' # "OK" => handedOut' = handedOut)
        BY <2>3 DEF MergeEnd
      <3> QED
        BY <1>1, <2>3, <3>1, WalkEnds
    <2> QED
      BY <2>1, <2>2, <2>3
  <1>2. MergeInv /\ [MergeNext]_<<copyVars, mergeVars>> =>
          [merging /\ ~merging' =>
             /\ (answer' = "nullptr") <=> \E n \in Name : Conflict(n)
             /\ answer' # "OK" => handedOut' = handedOut]_<<copyVars, mergeVars>>
    BY <1>1
  <1> QED
    BY <1>2, MergeInvariant, PTL DEF MergeSpec, MergeRefusesConflicts

\* The value of a failed commit is asked for exactly when the models do not contradict
\* each other and the root of the second has a name that the first does not know.
THEOREM MergingThrowsOnlyForAnotherRootHolds == MergeSpec => MergingThrowsOnlyForAnotherRoot
  <1>1. ASSUME MergeInv, MergeNext, merging, ~merging'
        PROVE  answer' = "throws" <=> NameOf[FM2.root] \notin NamesIn(FM) /\ ~\E n \in Name : Conflict(n)
    <2>1. MergeConflict \/ MergeEnd
      BY <1>1 DEF MergeNext, MergeFeatureModels, mergeSubtree
    <2>2. CASE MergeConflict
      <3>1. answer' # "throws"
        BY <2>2 DEF MergeConflict
      <3> QED
        BY <1>1, <2>2, <3>1, WalkEnds
    <2>3. CASE MergeEnd
      <3>1. answer' = "throws" <=> ~IsFeatureModelValid(copy)
        BY <2>3 DEF MergeEnd
      <3> QED
        BY <1>1, <2>3, <3>1, WalkEnds
    <2> QED
      BY <2>1, <2>2, <2>3
  <1>2. MergeInv /\ [MergeNext]_<<copyVars, mergeVars>> =>
          [merging /\ ~merging' =>
             (answer' = "throws" <=>
                NameOf[FM2.root] \notin NamesIn(FM) /\ ~\E n \in Name : Conflict(n))]_<<copyVars, mergeVars>>
    BY <1>1
  <1> QED
    BY <1>2, MergeInvariant, PTL DEF MergeSpec, MergingThrowsOnlyForAnotherRoot

\* Whatever mergeSubtree meets, its calls on the transaction find their feature and
\* succeed, which is why their results need not be looked at.
THEOREM MergeStepsSucceed == MergeSpec => [][mergeSubtree => VisitSucceeds]_<<copyVars, mergeVars>>
  <1>1. MergeInv /\ [MergeNext]_<<copyVars, mergeVars>> =>
          [mergeSubtree => VisitSucceeds]_<<copyVars, mergeVars>>
    BY VisitKeeps
  <1> QED
    BY <1>1, MergeInvariant, PTL DEF MergeSpec

\* At every moment of a merge too, the client's model, the copy and what was handed
\* out have no object in common and no pointer into each other, only trees are handed
\* out, and the check of the commit reads no freed node.
THEOREM MergingSharesNothing ==
  MergeSpec => [](/\ NothingIsShared /\ OnlyTreesAreHandedOut
                  /\ merging /\ frontier = << >> => CheckIsSafe(copy, Live(copy)))
  <1>1. ASSUME MergeInv PROVE NothingIsShared /\ OnlyTreesAreHandedOut
    <2>1. CASE ~merging
      BY <1>1, <2>1, InvSharesNothing DEF MergeInv, CopyInv, Kept, OnlyTreesAreHandedOut
    <2>2. CASE merging
      <3>1. /\ Kept(FM) /\ handedOut = Nil /\ Strangers /\ FM2 \in Others
            /\ copy \in Model /\ Grown(copy)
        BY <1>1, <2>2 DEF MergeInv
      <3>2. Objects(FM) \cap Objects(copy) = {}
        BY <1>1, <2>2, <3>1, CopyIsApart DEF MergeInv
      <3>3. Objects(handedOut) = {}
        BY <3>1 DEF Objects
      <3>4. ~TwoRoots(copy) => WellFormed(copy)
        BY <3>1 DEF TwoRoots, WellFormed, Grown, NamesIdentify
      <3>5. EdgesMatchParents(copy) /\ ConstraintsBound(copy) /\ WellFormed(FM)
        BY <3>1 DEF Grown, Kept
      <3> QED
        BY <3>1, <3>2, <3>3, <3>4, <3>5 DEF NothingIsShared, OnlyTreesAreHandedOut
    <2> QED
      BY <2>1, <2>2
  <1>2. ASSUME MergeInv, merging, frontier = << >> PROVE CheckIsSafe(copy, Live(copy))
    <2>1. Kept(FM) /\ FM2 \in Others /\ copy \in Model /\ Grown(copy) /\ OnlyItsLocations(copy)
      BY <1>2 DEF MergeInv
    <2>2. PICK V \in SUBSET FM2.features : Walked(V, frontier) /\ SoFar(copy, V)
      BY <1>2 DEF MergeInv
    <2>3. V = FM2.features
      BY <1>2, <2>1, <2>2, AllIsVisited
    <2>4. CASE NameOf[FM2.root] \in NamesIn(FM)
      BY <2>1, <2>2, <2>3, <2>4, UnionIsValid, WellFormedIsValid DEF Kept
    <2>5. CASE NameOf[FM2.root] \notin NamesIn(FM)
      <3>1. copy.root \in Live(copy)
        BY <2>1 DEF Grown, Rooted, Live
      <3> QED
        BY <2>1, <2>2, <2>3, <2>5, <3>1, SecondRootIsInvalid DEF CheckIsSafe, IsFeatureModelValid
    <2> QED
      BY <2>4, <2>5
  <1> QED
    BY <1>1, <1>2, MergeInvariant, PTL

===============================================================================
