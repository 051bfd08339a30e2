------------------------- MODULE RemoveFeatures_proofs -------------------------
(***************************************************************************)
(* removeFeatures leaves a tree and takes nothing but what it was asked    *)
(* to, whatever it is asked; what it is lawfully asked it does completely. *)
(***************************************************************************)
EXTENDS RemoveFeatures, ClientRules_proofs, FiniteSetTheorems

\* What removals leave of a tree m.
IsPartOf(n, m) ==
  /\ n.features \subseteq m.features
  /\ n.relationships \subseteq m.relationships
  /\ n.root = m.root
  /\ \A x \in Live(n) : n.parent[x] = m.parent[x]

Wanted == Listed(before, asked)

\* What a call may take.
Reach == IF Recursive THEN UNION {Subtree(before, f) : f \in Wanted} ELSE Wanted

Gone == before.features \ FM.features

\* The queue of a round.
Removals == [op : {"RemoveFeature"}, ref : asked, recursive : {Recursive}]

\* The inductive invariant for any list
RemoveTypeOK ==
  /\ FM \in Model /\ before \in Model
  /\ Recursive \in BOOLEAN
  /\ call \in {"idle", "round", "committing"}
  /\ phase \in [Transaction -> {"none", "committing", "closed"}]
  /\ next \in [Transaction -> Nat \ {0}]
  /\ asked \in SUBSET (Feature \cup Name) /\ IsFiniteSet(asked)
  /\ asked \cap Node \subseteq before.features
  /\ rest \subseteq asked
  /\ NotDeletedFeatures \subseteq asked
  /\ Modifications \in [Transaction -> Seq(Removals)]

RemoveInv ==
  /\ RemoveTypeOK
  /\ call = "committing" <=> phase[Trans] # "none"
  /\ phase[Trans] = "none" => Modifications[Trans] = << >> /\ next[Trans] = 1
  /\ IsTree(before)
  /\ ~undefined =>
       /\ IsTree(FM)
       /\ IsPartOf(FM, before)
       /\ Gone \subseteq Reach
       /\ call = "idle" /\ Recursive => Listed(FM, NotDeletedFeatures) = {}

-------------------------------------------------------------------------------
(* The inductive invariant for a lawful list *)

Target(ref) == Resolve(before, ref)

PendingRef(i) == Modifications[Trans][i].ref

PendingIndex == next[Trans]..Len(Modifications[Trans])

Pending == {PendingRef(i) : i \in PendingIndex}

\* Removing f takes no other feature of the list.
Alone(f) ==
  IF Recursive THEN Subtree(FM, f) \cap Wanted = {f} ELSE Targets(FM, {f}) = {}

LawfulInv ==
  Lawful =>
    /\ ~undefined
    /\ \A i, j \in PendingIndex : PendingRef(i) = PendingRef(j) => i = j
    /\ \A ref \in Pending : Target(ref) \in FM.features /\ Alone(Target(ref))
    /\ rest \cap Pending = {}
    /\ call # "idle" =>
         \A ref \in asked :
           IF Target(ref) = Nil THEN ref \in rest
           ELSE ref \in rest \cup Pending <=> Target(ref) \in FM.features
    /\ phase[Trans] = "closed" => PendingIndex = {}
    /\ ~Recursive => FM.relationships = before.relationships
    /\ call = "idle" => RemovesWhatItCan

-------------------------------------------------------------------------------
(* Parts of a tree *)

\* A model is a part of itself.
LEMMA PartOfItself ==
  ASSUME NEW m
  PROVE  IsPartOf(m, m)
  BY DEF IsPartOf

\* A part of a part is a part.
LEMMA PartOfPart ==
  ASSUME NEW l, NEW n, NEW m, IsPartOf(l, n), IsPartOf(n, m)
  PROVE  IsPartOf(l, m)
  BY DEF IsPartOf, Live

\* What hangs below a node of a part hangs below it in the whole, and what is
\* below a feature that is gone is gone.
LEMMA PartEdges ==
  ASSUME NEW m \in Model, IsTree(m), NEW n \in Model, IsTree(n), IsPartOf(n, m)
  PROVE  /\ \A S \in SUBSET Node : Targets(n, S) = Targets(m, S) \cap Live(n)
         /\ \A y \in Feature : FeatureChildren(n, y) \subseteq FeatureChildren(m, y)
         /\ \A y \in Feature \ n.features : FeatureChildren(m, y) \cap n.features = {}
  <1> USE DEF IsTree
  <1>0. /\ Live(n) \subseteq Node /\ Live(n) \subseteq Live(m) /\ Nil \notin Node
        /\ n.features \subseteq Feature /\ n.relationships \subseteq Relationship
        /\ Feature \cap Relationship = {} /\ Node = Feature \cup Relationship
    BY ModelFields, ConstantsAssumption DEF IsPartOf, Live, Node
  <1>1. \A x \in Node : n.parent[x] \in Node => x \in Live(n) /\ m.parent[x] = n.parent[x]
    BY EdgeIsParent DEF IsPartOf
  <1>2. \A x \in Live(n) : n.parent[x] = m.parent[x]
    BY DEF IsPartOf
  <1>3. \A x \in Live(n) : n.parent[x] \in Node => n.parent[x] \in Live(n)
    BY <1>0, EdgeIsParent
  <1>4. ASSUME NEW S \in SUBSET Node PROVE Targets(n, S) = Targets(m, S) \cap Live(n)
    <2>1. Targets(n, S) = {c \in Node : n.parent[c] \in S}
      BY TargetsAreChildren
    <2>2. Targets(m, S) = {c \in Node : m.parent[c] \in S}
      BY TargetsAreChildren
    <2> QED
      BY <1>0, <1>1, <1>2, <2>1, <2>2
  <1>5. ASSUME NEW y \in Feature
        PROVE  /\ FeatureChildren(n, y) =
                    {x \in Feature : n.parent[x] = y \/
                                     (n.parent[x] \in Relationship /\ n.parent[n.parent[x]] = y)}
               /\ FeatureChildren(m, y) =
                    {x \in Feature : m.parent[x] = y \/
                                     (m.parent[x] \in Relationship /\ m.parent[m.parent[x]] = y)}
    BY <1>0, FeatureChildrenAre
  <1>6. ASSUME NEW y \in Feature, NEW x \in FeatureChildren(n, y)
        PROVE  x \in FeatureChildren(m, y)
    BY <1>0, <1>1, <1>5, <1>6
  <1>7. ASSUME NEW y \in Feature \ n.features, NEW x \in FeatureChildren(m, y) \cap n.features
        PROVE  FALSE
    <2>1. x \in Live(n) /\ x \in Node /\ n.parent[x] = m.parent[x]
      BY <1>0, <1>2, <1>7 DEF Live
    <2>2. CASE m.parent[x] = y
      BY <1>0, <1>3, <1>7, <2>1, <2>2 DEF Live
    <2>3. CASE m.parent[x] \in Relationship /\ m.parent[m.parent[x]] = y
      <3>1. m.parent[x] \in Live(n)
        BY <1>0, <1>3, <2>1, <2>3
      <3>2. n.parent[m.parent[x]] = y
        BY <1>2, <2>3, <3>1
      <3> QED
        BY <1>0, <1>3, <1>7, <3>1, <3>2 DEF Live
    <2> QED
      BY <1>5, <1>7, <2>2, <2>3
  <1> QED
    BY <1>4, <1>6, <1>7

\* The subtrees of a part are parts of the subtrees, and a freed feature took its subtree along.
LEMMA PartSubtrees ==
  ASSUME NEW m \in Model, IsTree(m), NEW n \in Model, IsTree(n), IsPartOf(n, m),
         NEW f \in Feature
  PROVE  /\ Subtree(n, f) \subseteq Subtree(m, f)
         /\ f \notin n.features => Subtree(m, f) \cap n.features = {}
  <1>1. \A y \in Feature : FeatureChildren(n, y) \subseteq FeatureChildren(m, y)
    BY PartEdges
  <1>2. ASSUME NEW x \in Subtree(n, f), NEW S \in SUBSET Feature, f \in S,
               \A y \in S : FeatureChildren(m, y) \subseteq S
        PROVE  x \in S
    <2>1. \A y \in S : FeatureChildren(n, y) \subseteq S
      BY <1>1, <1>2
    <2> QED
      BY <1>2, <2>1 DEF Subtree
  <1>3. Subtree(n, f) \subseteq Subtree(m, f)
    BY <1>2 DEF Subtree
  <1>4. CASE f \notin n.features
    <2> DEFINE S == Feature \ n.features
    <2>1. \A y \in S : FeatureChildren(m, y) \subseteq S
      BY PartEdges DEF FeatureChildren
    <2>2. S \in SUBSET Feature /\ f \in S
      BY <1>4
    <2>3. \A x \in Subtree(m, f) : x \in S
      <3> HIDE DEF S
      <3> QED
        BY <2>1, <2>2 DEF Subtree
    <2> QED
      BY <1>3, <2>3
  <1> QED
    BY <1>3, <1>4

\* A reference that leads into a part leads to the same feature in the whole.
LEMMA ResolveInPart ==
  ASSUME NEW m \in Model, IsTree(m), NEW n \in Model, IsPartOf(n, m),
         NEW ref \in Feature \cup Name
  PROVE  /\ Resolve(n, ref) \in n.features => Resolve(m, ref) = Resolve(n, ref)
         /\ Resolve(m, ref) \in n.features => Resolve(n, ref) = Resolve(m, ref)
         /\ Resolve(m, ref) = Nil => Resolve(n, ref) = Nil
  <1>1. Nil \notin n.features /\ Nil \notin m.features /\ n.features \subseteq m.features
    BY ModelFields, ConstantsAssumption DEF IsPartOf, Node
  <1>2. \A f, g \in m.features : NameOf[f] = NameOf[g] => f = g
    BY DEF IsTree, NamesIdentify
  <1>3. CASE ref \in Name
    <2>1. Resolve(n, ref) = GetFeature(n, ref) /\ Resolve(m, ref) = GetFeature(m, ref)
      BY <1>3 DEF Resolve
    <2>2. /\ GetFeature(n, ref) \in n.features \cup {Nil}
          /\ GetFeature(n, ref) = Nil <=> \A f \in n.features : NameOf[f] # ref
          /\ GetFeature(n, ref) # Nil => NameOf[GetFeature(n, ref)] = ref
      BY GetFeatureFinds
    <2>3. /\ GetFeature(m, ref) \in m.features \cup {Nil}
          /\ GetFeature(m, ref) = Nil <=> \A f \in m.features : NameOf[f] # ref
          /\ GetFeature(m, ref) # Nil => NameOf[GetFeature(m, ref)] = ref
      BY GetFeatureFinds
    <2> QED
      BY <1>1, <1>2, <2>1, <2>2, <2>3
  <1>4. CASE ref \notin Name
    BY <1>4 DEF Resolve
  <1> QED
    BY <1>3, <1>4

\* Walking down a tree through finitely many nodes ends.
LEMMA NoDescent ==
  ASSUME NEW m \in Model, IsTree(m), NEW S \in SUBSET Node, IsFiniteSet(S),
         \A x \in S : \E y \in S : m.parent[y] = x
  PROVE  S = {}
  <1> DEFINE B == {y \in S : m.parent[y] \in S}
             up == [y \in B |-> m.parent[y]]
  <1>1. IsFiniteSet(B) /\ Cardinality(B) <= Cardinality(S) /\ (Cardinality(S) = Cardinality(B) => S = B)
    <2>1. B \in SUBSET S
      OBVIOUS
    <2> HIDE DEF B
    <2> QED
      BY <2>1, FS_Subset
  <1>2. up \in Surjection(B, S)
    BY DEF Surjection
  <1>3. Cardinality(S) <= Cardinality(B)
    <2> HIDE DEF B, up
    <2> QED
      BY <1>1, <1>2, FS_Surjection
  <1>4. S = B
    <2> HIDE DEF B
    <2>1. Cardinality(S) \in Nat /\ Cardinality(B) \in Nat
      BY <1>1, FS_CardinalityType
    <2> QED
      BY <1>1, <1>3, <2>1
  <1> QED
    BY <1>4, NoCycle DEF IsTree

\* The features a finite list names are finitely many.
LEMMA ListedIsFinite ==
  ASSUME NEW m, NEW list, IsFiniteSet(list)
  PROVE  IsFiniteSet(Listed(m, list))
  <1> DEFINE all == {Resolve(m, ref) : ref \in list}
             resolve == [ref \in list |-> Resolve(m, ref)]
  <1>1. resolve \in Surjection(list, all)
    BY DEF Surjection
  <1>2. IsFiniteSet(all)
    <2> HIDE DEF all, resolve
    <2> QED
      BY <1>1, FS_Surjection
  <1>3. Listed(m, list) \in SUBSET all
    BY DEF Listed
  <1> QED
    <2> HIDE DEF all
    <2> QED
      BY <1>2, <1>3, FS_Subset

-------------------------------------------------------------------------------
(* One removal *)

\* What goes when nodes go that nothing is left hanging below.
LEMMA PartWithout ==
  ASSUME NEW m, NEW N, NEW n, n.features = m.features \ N,
         n.relationships = m.relationships \ N, n.root = m.root,
         m.features \subseteq Node, m.relationships \subseteq Node,
         n.parent = [x \in Node |-> IF x \in N THEN Nil ELSE m.parent[x]]
  PROVE  IsPartOf(n, m)
  BY DEF IsPartOf, Live

\* With recursion a feature goes with everything below it.
LEMMA RecursiveRemoval ==
  ASSUME NEW m \in Model, IsTree(m), NEW ref \in Feature \cup Name,
         NEW recursive \in BOOLEAN, recursive,
         NEW f, f = Resolve(m, ref), f \in m.features \ {m.root}
  PROVE  \E n \in Model :
           /\ RemoveFeature(m, ref, recursive, Live(m)) = Succeeds(n)
           /\ IsTree(n) /\ IsPartOf(n, m)
           /\ n.features = m.features \ Subtree(m, f)
  <1> DEFINE D == Subtree(m, f)
             N == D \cup {r \in Relationship : m.parent[r] \in D}
             n == Pruned(m, D)
  <1>1. /\ f \in m.features /\ f # m.root /\ f # Nil
        /\ m.features \subseteq Feature /\ m.features \subseteq Node
        /\ m.relationships \subseteq Node /\ Feature \cap Relationship = {}
    BY ModelFields, ConstantsAssumption DEF Node
  <1>2. RemoveFeature(m, ref, recursive, Live(m)) = Succeeds(n)
    BY <1>1, RemoveSubtreeIs DEF RemoveFeature, Live
  <1>3. IsTree(n)
    BY <1>1, PrunedKeeps
  <1>4. /\ n \in Model
        /\ n.features = m.features \ N /\ n.relationships = m.relationships \ N
        /\ n.root = m.root
        /\ n.parent = [x \in Node |-> IF x \in N THEN Nil ELSE m.parent[x]]
    BY <1>1, PrunedIs
  <1>5. m.features \ N = m.features \ D
    BY <1>1
  <1> HIDE DEF n, N
  <1>6. IsPartOf(n, m)
    BY <1>1, <1>4, PartWithout
  <1> QED
    BY <1>2, <1>3, <1>4, <1>5, <1>6

\* Without recursion it goes alone, with the groups it has, or stays.
LEMMA LeafRemoval ==
  ASSUME NEW m \in Model, IsTree(m), NEW ref \in Feature \cup Name,
         NEW recursive \in BOOLEAN, ~recursive,
         NEW f, f = Resolve(m, ref), f \in m.features \ {m.root}
  PROVE  /\ FeatureChildren(m, f) # {} =>
              RemoveFeature(m, ref, recursive, Live(m)) = Fails(m, "NON_LEAF_NODE")
         /\ FeatureChildren(m, f) = {} =>
              \E n \in Model :
                /\ RemoveFeature(m, ref, recursive, Live(m)) = Succeeds(n)
                /\ IsTree(n) /\ IsPartOf(n, m)
                /\ n.features = m.features \ {f}
                /\ Targets(m, {f}) = {} => n.relationships = m.relationships
  <1> DEFINE own == {r \in Relationship : m.parent[r] = f}
             N == {f} \cup own
             n == Unlinked(m, f, N)
  <1>1. /\ f \in m.features /\ f # m.root /\ f # Nil
        /\ m.features \subseteq Feature /\ m.features \subseteq Node
        /\ m.relationships \subseteq Node /\ Feature \cap Relationship = {}
        /\ m.relationships \subseteq Relationship
    BY ModelFields, ConstantsAssumption DEF Node
  <1>2. /\ N \in SUBSET Node
        /\ RemoveLeaf(m, f, Live(m)) = IF HasNoFeatures(m, f) THEN Succeeds(n) ELSE Fails(m, "NON_LEAF_NODE")
    BY <1>1, RemoveLeafIs
  <1>3. RemoveFeature(m, ref, recursive, Live(m)) = RemoveLeaf(m, f, Live(m))
    BY <1>1 DEF RemoveFeature, Live
  <1>4. CASE FeatureChildren(m, f) # {}
    BY <1>2, <1>3, <1>4 DEF HasNoFeatures
  <1>5. CASE FeatureChildren(m, f) = {}
    <2>1. RemoveFeature(m, ref, recursive, Live(m)) = Succeeds(n)
      BY <1>2, <1>3, <1>5 DEF HasNoFeatures
    <2>2. IsTree(n)
      BY <1>1, <1>2, <1>5, UnlinkedKeeps
    <2>3. /\ n \in Model
          /\ n.features = m.features \ N /\ n.relationships = m.relationships \ N
          /\ n.root = m.root
          /\ n.parent = [x \in Node |-> IF x \in N THEN Nil ELSE m.parent[x]]
      BY <1>1, <1>2, <1>5, UnlinkedIs
    <2>4. m.features \ N = m.features \ {f}
      BY <1>1
    <2>5. Targets(m, {f}) = {} => m.relationships \ N = m.relationships
      <3>1. {f} \in SUBSET Node
        BY <1>1
      <3>2. Targets(m, {f}) = {c \in Node : m.parent[c] \in {f}}
        BY <3>1, TargetsAreChildren DEF IsTree
      <3> QED
        BY <1>1, <3>2
    <2> HIDE DEF n, N
    <2>6. IsPartOf(n, m)
      BY <1>1, <2>3, PartWithout
    <2> QED
      BY <1>5, <2>1, <2>2, <2>3, <2>4, <2>5, <2>6
  <1> QED
    BY <1>4, <1>5

\* The root cannot be removed: the code looks for its parent.
LEMMA RootRemoval ==
  ASSUME NEW m \in Model, IsTree(m), NEW ref \in Feature \cup Name, NEW recursive \in BOOLEAN,
         Resolve(m, ref) = m.root, NEW o \in RemoveFeature(m, ref, recursive, Live(m))
  PROVE  o.code = "UB" \/ o = Outcome(m, "NON_LEAF_NODE")
  <1>1. m.root \in m.features /\ m.root \in Feature /\ m.root # Nil /\ m.parent[m.root] \notin Live(m)
    BY ModelFields, ConstantsAssumption DEF IsTree, Rooted, Node
  <1>2. ~RecursionIsSafe(m, m.root, Live(m))
    BY <1>1, SubtreeIsClosed DEF RecursionIsSafe
  <1>3. CASE recursive
    BY <1>1, <1>2, <1>3 DEF RemoveFeature, RemoveSubtree, Undefined, Outcome
  <1>4. CASE ~recursive
    <2>1. RemoveFeature(m, ref, recursive, Live(m)) = RemoveLeaf(m, m.root, Live(m))
      BY <1>1, <1>4 DEF RemoveFeature, Live
    <2>2. \A R : m.parent[m.root] \notin Live(m) \ R
      BY <1>1
    <2>3. o \in Undefined(m) \/ o \in Fails(m, "NON_LEAF_NODE")
      <3> DEFINE groups == RelationshipChildren(m, m.root)
                 removals == IF groups = {} THEN {{}} ELSE {{r} : r \in groups}
                 parts == {IF m.parent[m.root] \notin Live(m) \ R THEN Undefined(m)
                           ELSE Succeeds(Unlinked(m, m.root, Erased(m, {m.root}) \cup R)) : R \in removals}
      <3>1. \/ o \in Undefined(m) \/ o \in Fails(m, "NON_LEAF_NODE") \/ o \in UNION parts
        BY <2>1 DEF RemoveLeaf
      <3>2. ASSUME o \in UNION parts PROVE o \in Undefined(m)
        <4> HIDE DEF removals, Undefined, Succeeds
        <4>1. PICK R \in removals : o \in IF m.parent[m.root] \notin Live(m) \ R THEN Undefined(m)
                           ELSE Succeeds(Unlinked(m, m.root, Erased(m, {m.root}) \cup R))
          BY <3>2
        <4> QED
          BY <2>2, <4>1
      <3> QED
        BY <3>1, <3>2
    <2> QED
      BY <2>3 DEF Undefined, Fails, Outcome
  <1> QED
    BY <1>3, <1>4

\* Whatever is removed, the model stays, the process ends, or a part is left.
LEMMA AnyRemoval ==
  ASSUME NEW m \in Model, IsTree(m), NEW ref \in Feature \cup Name, NEW recursive \in BOOLEAN,
         NEW o \in RemoveFeature(m, ref, recursive, Live(m)), o.code # "UB"
  PROVE  \/ o.model = m
         \/ /\ Resolve(m, ref) \in m.features
            /\ IsTree(o.model) /\ IsPartOf(o.model, m) /\ o.model \in Model
            /\ m.features \ o.model.features \subseteq
                 IF recursive THEN Subtree(m, Resolve(m, ref)) ELSE {Resolve(m, ref)}
  <1> DEFINE f == Resolve(m, ref)
  <1>1. CASE f \notin m.features
    <2>1. f = Nil \/ f \in Feature
      BY ModelFields DEF Resolve, GetFeature
    <2>2. f = Nil \/ f \notin Live(m)
      BY <1>1, <2>1, ModelFields, ConstantsAssumption DEF Live
    <2> QED
      BY <2>2 DEF RemoveFeature, Fails, Undefined, Outcome
  <1>2. CASE f = m.root
    BY <1>2, RootRemoval DEF Outcome
  <1>3. CASE f \in m.features \ {m.root} /\ recursive
    <2>1. PICK n \in Model : /\ RemoveFeature(m, ref, recursive, Live(m)) = Succeeds(n)
                             /\ IsTree(n) /\ IsPartOf(n, m)
                             /\ n.features = m.features \ Subtree(m, f)
      BY <1>3, RecursiveRemoval
    <2>2. o.model = n
      BY <2>1 DEF Succeeds, Outcome
    <2> QED
      BY <1>3, <2>1, <2>2
  <1>4. CASE f \in m.features \ {m.root} /\ ~recursive
    <2>1. CASE FeatureChildren(m, f) # {}
      <3>1. RemoveFeature(m, ref, recursive, Live(m)) = Fails(m, "NON_LEAF_NODE")
        BY <1>4, <2>1, LeafRemoval
      <3> QED
        BY <3>1 DEF Fails, Outcome
    <2>2. CASE FeatureChildren(m, f) = {}
      <3>1. PICK n \in Model : /\ RemoveFeature(m, ref, recursive, Live(m)) = Succeeds(n)
                               /\ IsTree(n) /\ IsPartOf(n, m)
                               /\ n.features = m.features \ {f}
                               /\ Targets(m, {f}) = {} => n.relationships = m.relationships
        BY <1>4, <2>2, LeafRemoval
      <3>2. o.model = n
        BY <3>1 DEF Succeeds, Outcome
      <3> QED
        BY <1>4, <3>1, <3>2
    <2> QED
      BY <2>1, <2>2
  <1> QED
    BY <1>1, <1>2, <1>3, <1>4

-------------------------------------------------------------------------------
(* The invariant for any list is inductive *)

\* The invariant holds in the initial states.
LEMMA RemoveInitially ==
  ASSUME RemoveInit
  PROVE  RemoveInv
  <1>1. FM \in Model /\ WellFormed(FM) /\ ~undefined
    BY TransactionAssumption DEF RemoveInit, Init
  <1>2. IsTree(FM) /\ IsPartOf(FM, FM)
    BY <1>1, WellFormedIsTree, PartOfItself
  <1>3. \A t \in Transaction : phase[t] = "none" /\ Modifications[t] = << >> /\ next[t] = 1
    BY DEF RemoveInit, Init
  <1>4. Modifications \in [Transaction -> Seq(Removals)]
    BY DEF RemoveInit, Init
  <1>5. IsFiniteSet({})
    BY FS_EmptySet
  <1>6. RemoveTypeOK
    <2>1. Recursive \in BOOLEAN
      BY DEF RemoveInit
    <2>2. /\ phase \in [Transaction -> {"none", "committing", "closed"}]
          /\ next \in [Transaction -> Nat \ {0}]
      BY DEF RemoveInit, Init
    <2>3. call = "idle" /\ asked = {} /\ rest = {} /\ NotDeletedFeatures = {} /\ before = FM
      BY DEF RemoveInit
    <2> QED
      BY <1>1, <1>4, <1>5, <2>1, <2>2, <2>3 DEF RemoveTypeOK
  <1>7. Listed(FM, {}) = {}
    BY DEF Listed
  <1>8. Gone \subseteq Reach
    BY DEF RemoveInit, Gone
  <1>9. Trans \in Transaction
    BY RemoveAssumption
  <1> QED
    BY <1>1, <1>2, <1>3, <1>6, <1>7, <1>8, <1>9 DEF RemoveInv, RemoveInit

\* A call begins.
LEMMA CallKeepsInv ==
  ASSUME RemoveInv, NEW list \in Lists, NEW recursive \in BOOLEAN, removeFeatures(list, recursive)
  PROVE  RemoveInv'
  <1>0. Trans \in Transaction /\ Transaction = {Trans}
    BY RemoveAssumption
  <1>1. /\ call = "idle" /\ ~undefined /\ call' = "round"
        /\ rest' = list /\ Recursive' = recursive /\ NotDeletedFeatures' = {}
        /\ asked' = list /\ before' = FM
        /\ UNCHANGED <<FM, phase, Modifications, next, result, undefined>>
        /\ list \cap Node \subseteq FM.features
    BY DEF removeFeatures, vars
  <1>2. /\ RemoveTypeOK /\ phase[Trans] = "none" /\ Modifications[Trans] = << >>
        /\ IsTree(FM)
    BY <1>0, <1>1 DEF RemoveInv, RemoveTypeOK
  <1>3. list \in SUBSET (Feature \cup Name) /\ IsFiniteSet(list)
    BY RemoveAssumption
  <1>4. (Modifications \in [Transaction -> Seq(Removals)])'
    <2>1. Modifications \in [Transaction -> Seq(Removals)]
      BY <1>2 DEF RemoveTypeOK
    <2>2. << >> \in Seq(Removals')
      OBVIOUS
    <2>3. \A t \in Transaction : Modifications[t] \in Seq(Removals')
      BY <1>0, <1>2, <2>2
    <2>4. Modifications = [t \in Transaction |-> Modifications[t]]
      BY <2>1
    <2>5. Modifications \in [Transaction -> Seq(Removals')]
      <3> HIDE DEF Removals
      <3> QED
        BY <2>3, <2>4
    <2> QED
      BY <1>1, <2>5
  <1>5. RemoveTypeOK'
    BY <1>1, <1>2, <1>3, <1>4 DEF RemoveTypeOK
  <1>6. IsPartOf(FM, FM)
    BY PartOfItself
  <1>7. Gone' \subseteq Reach'
    BY <1>1 DEF Gone
  <1> QED
    BY <1>1, <1>2, <1>5, <1>6, <1>7 DEF RemoveInv

\* A round queues removals of listed features.
LEMMA RoundKeepsInv ==
  ASSUME RemoveInv, Round
  PROVE  RemoveInv'
  <1>0. Trans \in Transaction /\ Transaction = {Trans}
    BY RemoveAssumption
  <1>1. PICK F \in Removable :
          LET picked == {ref \in rest : Resolve(FM, ref) \in F} IN
          /\ rest' = rest \ picked
          /\ \E order \in SetToSeqs(picked) :
               Modifications' = [Modifications EXCEPT ![Trans] =
                                   [i \in DOMAIN order |-> Removal(order[i])]]
    BY DEF Round
  <1>2. /\ call = "round" /\ call' = "committing"
        /\ phase' = [phase EXCEPT ![Trans] = "committing"]
        /\ UNCHANGED <<FM, next, undefined, Recursive, NotDeletedFeatures, asked, before>>
    BY DEF Round
  <1> DEFINE picked == {ref \in rest : Resolve(FM, ref) \in F}
  <1>3. RemoveTypeOK /\ Cardinality(picked) \in Nat
    <2>1. RemoveTypeOK
      BY DEF RemoveInv
    <2>2. picked \in SUBSET asked /\ IsFiniteSet(asked)
      BY <2>1 DEF RemoveTypeOK
    <2>3. IsFiniteSet(picked)
      <3> HIDE DEF picked
      <3> QED
        BY <2>2, FS_Subset
    <2> QED
      BY <2>1, <2>3, FS_CardinalityType
  <1>4. PICK order \in SetToSeqs(picked) :
          Modifications' = [Modifications EXCEPT ![Trans] =
                              [i \in DOMAIN order |-> Removal(order[i])]]
    BY <1>1
  <1> DEFINE q == [i \in DOMAIN order |-> Removal(order[i])]
  <1>5. q \in Seq(Removals)
    <2>0. order \in [1..Cardinality(picked) -> picked]
      BY DEF SetToSeqs
    <2>1. \A i \in 1..Cardinality(picked) : Removal(order[i]) \in Removals
      BY <1>3, <2>0 DEF Removal, Removals, RemoveTypeOK
    <2>2. q \in [1..Cardinality(picked) -> Removals]
      BY <2>0, <2>1
    <2> HIDE DEF q, picked
    <2> QED
      BY <1>3, <2>2
  <1>6. Modifications' \in [Transaction -> Seq(Removals)]
    <2> HIDE DEF q, Removals
    <2>1. Modifications' = [Modifications EXCEPT ![Trans] = q]
      BY <1>4 DEF q
    <2> QED
      BY <1>3, <1>5, <2>1 DEF RemoveTypeOK
  <1>7. Removals' = Removals
    BY <1>2 DEF Removals
  <1>8. phase'[Trans] = "committing"
    BY <1>0, <1>2, <1>3 DEF RemoveTypeOK
  <1>9. RemoveTypeOK'
    BY <1>1, <1>2, <1>3, <1>6, <1>7 DEF RemoveTypeOK
  <1> QED
    BY <1>2, <1>8, <1>9 DEF RemoveInv, Gone, Reach, Wanted

\* A call ends when there is nothing more to remove: a listed feature that a
\* recursive call cannot remove has a listed child.
LEMMA NothingRemovable ==
  ASSUME RemoveInv, ~undefined, Listed(FM, rest) \subseteq FM.features,
         {} \in Removable
  PROVE  /\ \A f \in Listed(FM, rest) : ~isLeaf(f)
         /\ Recursive => Listed(FM, rest) = {}
  <1> DEFINE L == Listed(FM, rest)
             free == {f \in L : isLeaf(f) \/ (Recursive /\ Children(f) \cap L = {})}
  <1>1. free = {}
    BY DEF Removable
  <1>2. \A f \in L : ~isLeaf(f) /\ (Recursive => Children(f) \cap L # {})
    BY <1>1
  <1>3. ASSUME Recursive PROVE L = {}
    <2>1. FM \in Model /\ IsTree(FM) /\ rest \subseteq asked /\ IsFiniteSet(asked)
      BY DEF RemoveInv, RemoveTypeOK
    <2>2. L \in SUBSET Node
      BY <2>1, ModelFields DEF Node
    <2>3. IsFiniteSet(L)
      <3>1. IsFiniteSet(rest)
        BY <2>1, FS_Subset
      <3> QED
        BY <3>1, ListedIsFinite
    <2>4. \A f \in L : \E y \in L : FM.parent[y] = f
      <3>1. ASSUME NEW f \in L PROVE \E y \in L : FM.parent[y] = f
        <4>1. {f} \in SUBSET Node
          BY <2>2
        <4>2. Children(f) = {c \in Node : FM.parent[c] \in {f}}
          BY <2>1, <4>1, TargetsAreChildren DEF Children, IsTree
        <4>3. Children(f) \cap L # {}
          BY <1>2, <1>3
        <4> HIDE DEF L
        <4> QED
          BY <4>2, <4>3
      <3> QED
        BY <3>1
    <2> HIDE DEF L
    <2> QED
      BY <2>1, <2>2, <2>3, <2>4, NoDescent
  <1> QED
    BY <1>2, <1>3

\* removeFeatures returns when nothing is left to try.
LEMMA ReturnKeepsInv ==
  ASSUME RemoveInv, Return
  PROVE  RemoveInv'
  <1>1. /\ ~undefined /\ call = "round" /\ Listed(FM, rest) \subseteq FM.features
        /\ {} \in Removable
        /\ NotDeletedFeatures' = rest /\ rest' = {} /\ call' = "idle"
        /\ UNCHANGED <<FM, phase, Modifications, next, result, undefined, Recursive, asked, before>>
    BY DEF Return, vars
  <1>2. Recursive => Listed(FM, rest) = {}
    BY <1>1, NothingRemovable
  <1>3. RemoveTypeOK'
    BY <1>1 DEF RemoveInv, RemoveTypeOK, Removals
  <1> QED
    BY <1>1, <1>2, <1>3 DEF RemoveInv, Gone, Reach, Wanted

\* Another round tries the features that failed.
LEMMA NextRoundKeepsInv ==
  ASSUME RemoveInv, NextRound
  PROVE  RemoveInv'
  <1>0. Trans \in Transaction /\ Transaction = {Trans}
    BY RemoveAssumption
  <1>1. /\ call = "committing" /\ call' = "round"
        /\ phase' = [phase EXCEPT ![Trans] = "none"]
        /\ Modifications' = [Modifications EXCEPT ![Trans] = << >>]
        /\ next' = [next EXCEPT ![Trans] = 1]
        /\ UNCHANGED <<FM, undefined, rest, Recursive, NotDeletedFeatures, asked, before>>
    BY DEF NextRound, DestroyTransaction
  <1>2. RemoveTypeOK
    BY DEF RemoveInv
  <1>3. Removals' = Removals
    BY <1>1 DEF Removals
  <1>4. (Modifications \in [Transaction -> Seq(Removals)])' /\ Modifications'[Trans] = << >>
    <2>1. Modifications \in [Transaction -> Seq(Removals)] /\ << >> \in Seq(Removals)
      BY <1>2 DEF RemoveTypeOK
    <2> HIDE DEF Removals
    <2> QED
      BY <1>0, <1>1, <1>3, <2>1
  <1>5. RemoveTypeOK' /\ phase'[Trans] = "none" /\ next'[Trans] = 1
    BY <1>0, <1>1, <1>2, <1>4 DEF RemoveTypeOK
  <1> QED
    BY <1>1, <1>4, <1>5 DEF RemoveInv, Gone, Reach, Wanted

\* A round that reads a freed feature is undefined.
LEMMA RoundOnFreedKeepsInv ==
  ASSUME RemoveInv, RoundOnFreed
  PROVE  RemoveInv'
  <1>1. undefined' /\ UNCHANGED <<FM, phase, Modifications, next, removeVars>>
    BY DEF RoundOnFreed
  <1>2. RemoveTypeOK'
    BY <1>1 DEF RemoveInv, RemoveTypeOK, Removals, removeVars
  <1> QED
    BY <1>1, <1>2 DEF RemoveInv, removeVars

\* What a removal of a listed feature takes is within reach.
LEMMA RemovalIsWithinReach ==
  ASSUME RemoveInv, ~undefined, NEW ref \in asked,
         NEW o \in RemoveFeature(FM, ref, Recursive, Live(FM)), o.code # "UB"
  PROVE  /\ IsTree(o.model)
         /\ IsPartOf(o.model, before)
         /\ before.features \ o.model.features \subseteq Reach
  <1> DEFINE f == Resolve(FM, ref)
  <1>1. /\ FM \in Model /\ before \in Model /\ Recursive \in BOOLEAN /\ ref \in Feature \cup Name
        /\ IsTree(FM) /\ IsTree(before) /\ IsPartOf(FM, before) /\ Gone \subseteq Reach
    BY DEF RemoveInv, RemoveTypeOK
  <1>2. CASE o.model = FM
    BY <1>1, <1>2 DEF Gone
  <1>3. CASE o.model # FM
    <2>1. /\ f \in FM.features
          /\ IsTree(o.model) /\ IsPartOf(o.model, FM) /\ o.model \in Model
          /\ FM.features \ o.model.features \subseteq IF Recursive THEN Subtree(FM, f) ELSE {f}
      BY <1>1, <1>3, AnyRemoval
    <2>2. IsPartOf(o.model, before)
      BY <1>1, <2>1, PartOfPart
    <2>3. f \in Wanted /\ f \in Feature
      <3>1. Resolve(before, ref) = f
        BY <1>1, <2>1, ResolveInPart
      <3>2. f # Nil /\ f \in Feature
        BY <1>1, <2>1, ModelFields, ConstantsAssumption DEF Node
      <3> QED
        BY <3>1, <3>2 DEF Wanted, Listed
    <2>4. Subtree(FM, f) \subseteq Subtree(before, f)
      BY <1>1, <2>3, PartSubtrees
    <2> HIDE DEF f
    <2>5. FM.features \ o.model.features \subseteq Reach
      BY <2>1, <2>3, <2>4 DEF Reach
    <2> QED
      BY <1>1, <2>1, <2>2, <2>5 DEF Gone
  <1> QED
    BY <1>2, <1>3

\* What the queue of a round executes.
LEMMA QueuedRemoval ==
  ASSUME RemoveInv, next[Trans] <= Len(Modifications[Trans])
  PROVE  /\ next[Trans] \in PendingIndex
         /\ PendingRef(next[Trans]) \in asked
         /\ Modifications[Trans][next[Trans]] \in Modification
         /\ Outcomes(FM, Modifications[Trans][next[Trans]]) =
              RemoveFeature(FM, PendingRef(next[Trans]), Recursive, Live(FM))
  <1> DEFINE i == next[Trans]
             mod == Modifications[Trans][i]
  <1>1. Trans \in Transaction /\ RemoveTypeOK
    BY RemoveAssumption DEF RemoveInv
  <1>2. Modifications[Trans] \in Seq(Removals) /\ i \in Nat \ {0}
    <2> HIDE DEF Removals
    <2> QED
      BY <1>1 DEF RemoveTypeOK
  <1>3. mod \in Removals
    <2> HIDE DEF Removals
    <2> QED
      BY <1>2
  <1>4. /\ mod.op = "RemoveFeature" /\ mod.ref \in asked /\ mod.recursive = Recursive
        /\ mod \in Modification
    BY <1>1, <1>3 DEF Removals, RemoveTypeOK, Modification
  <1>5. i \in PendingIndex
    BY <1>2 DEF PendingIndex
  <1>6. Outcomes(FM, mod) = RemoveFeature(FM, mod.ref, mod.recursive, Live(FM))
    BY <1>4 DEF Outcomes, OutcomesAmong
  <1> HIDE DEF mod
  <1>7. RemoveFeature(FM, mod.ref, mod.recursive, Live(FM)) = RemoveFeature(FM, mod.ref, Recursive, Live(FM))
    BY <1>4
  <1> QED
    BY <1>4, <1>5, <1>6, <1>7 DEF PendingRef, mod

\* The queues hold removals only, so no feature waits in one.
LEMMA NothingWaits ==
  ASSUME RemoveTypeOK
  PROVE  Alive = Live(FM)
  <1>1. ASSUME NEW t \in Transaction, NEW i \in next[t]..Len(Modifications[t])
        PROVE  Modifications[t][i].op = "RemoveFeature"
    <2>1. Modifications[t] \in Seq(Removals) /\ next[t] \in Nat \ {0}
      <3> HIDE DEF Removals
      <3> QED
        BY DEF RemoveTypeOK
    <2>2. Modifications[t][i] \in Removals
      <3> HIDE DEF Removals
      <3> QED
        BY <2>1
    <2> QED
      BY <2>2 DEF Removals
  <1> QED
    BY <1>1 DEF Alive, QueuedFeatures

\* Removing one feature keeps the invariant.
LEMMA ExecuteKeepsRemoveInv ==
  ASSUME RemoveInv, Execute(Trans), UNCHANGED removeVars
  PROVE  RemoveInv'
  <1>0. Trans \in Transaction /\ Transaction = {Trans}
    BY RemoveAssumption
  <1>1. /\ ~undefined /\ phase[Trans] \in Running /\ next[Trans] <= Len(Modifications[Trans])
        /\ UNCHANGED <<rest, Recursive, call, NotDeletedFeatures, asked, before>>
    BY DEF Execute, removeVars
  <1>2. RemoveTypeOK /\ phase[Trans] = "committing" /\ call = "committing"
    BY <1>0, <1>1 DEF RemoveInv, RemoveTypeOK, Running
  <1>3. PICK o \in OutcomesAmong(FM, Modifications[Trans][next[Trans]], Live(FM)) :
           /\ FM' = o.model
           /\ undefined' = (o.code = "UB")
           /\ IF o.code \in {"OK", "UB"}
              THEN /\ next' = [next EXCEPT ![Trans] = @ + 1]
                   /\ UNCHANGED <<phase, Modifications, result>>
              ELSE End(Trans, o.code)
    BY NothingWaits DEF Execute, RemoveInv
  <1>4. /\ PendingRef(next[Trans]) \in asked
        /\ o \in RemoveFeature(FM, PendingRef(next[Trans]), Recursive, Live(FM))
        /\ FM' \in Model
    <2>1. o.model \in Model
      BY <1>1, <1>2, <1>3, QueuedRemoval, OutcomesType DEF RemoveTypeOK, Outcomes
    <2> QED
      BY <1>1, <1>3, <2>1, QueuedRemoval DEF Outcomes
  <1>5. /\ Modifications' = Modifications
        /\ next' \in [Transaction -> Nat \ {0}]
        /\ phase' \in [Transaction -> {"none", "committing", "closed"}]
        /\ phase'[Trans] # "none"
    <2>1. CASE o.code \in {"OK", "UB"}
      BY <1>0, <1>2, <1>3, <2>1 DEF RemoveTypeOK
    <2>2. CASE o.code \notin {"OK", "UB"}
      BY <1>0, <1>2, <1>3, <2>2 DEF RemoveTypeOK, End
    <2> QED
      BY <2>1, <2>2
  <1>6. RemoveTypeOK'
    <2>1. Removals' = Removals
      BY <1>1 DEF Removals
    <2> QED
      BY <1>1, <1>2, <1>4, <1>5, <2>1 DEF RemoveTypeOK
  <1>7. ASSUME ~undefined'
        PROVE  IsTree(FM') /\ IsPartOf(FM', before') /\ Gone' \subseteq Reach'
    <2>1. o.code # "UB"
      BY <1>3, <1>7
    <2>2. /\ IsTree(o.model) /\ IsPartOf(o.model, before)
          /\ before.features \ o.model.features \subseteq Reach
      BY <1>1, <1>4, <2>1, RemovalIsWithinReach
    <2>3. Reach' = Reach /\ Gone' = before.features \ o.model.features
      BY <1>1, <1>3 DEF Reach, Wanted, Gone
    <2> QED
      BY <1>1, <1>3, <2>2, <2>3
  <1> QED
    BY <1>1, <1>2, <1>5, <1>6, <1>7 DEF RemoveInv

\* A round that is over keeps the invariant.
LEMMA FinishKeepsRemoveInv ==
  ASSUME RemoveInv, Finish(Trans), UNCHANGED removeVars
  PROVE  RemoveInv'
  <1>0. Trans \in Transaction /\ Transaction = {Trans}
    BY RemoveAssumption
  <1>1. /\ ~undefined /\ phase[Trans] \in Running /\ FM' = FM
        /\ UNCHANGED <<rest, Recursive, call, NotDeletedFeatures, asked, before>>
    BY DEF Finish, removeVars
  <1>2. /\ RemoveTypeOK /\ phase[Trans] = "committing" /\ call = "committing"
        /\ IsTree(FM) /\ IsPartOf(FM, before) /\ Gone \subseteq Reach
    BY <1>0, <1>1 DEF RemoveInv, RemoveTypeOK, Running
  <1>3. CheckIsSafe(FM, Live(FM)) /\ Alive = Live(FM)
    BY <1>2, TreeIsValid, NothingWaits DEF RemoveTypeOK, IsTree
  <1>4. phase' = [phase EXCEPT ![Trans] = "closed"] /\ UNCHANGED <<Modifications, next, undefined>>
    <2>1. next[Trans] > Len(Modifications[Trans]) /\ next = [next EXCEPT ![Trans] = @]
      BY <1>0, <1>2 DEF Finish, RemoveTypeOK
    <2> QED
      BY <1>2, <1>3, <2>1 DEF Finish, End
  <1>5. RemoveTypeOK' /\ phase'[Trans] = "closed"
    <2>1. Removals' = Removals
      BY <1>1 DEF Removals
    <2> QED
      BY <1>0, <1>1, <1>2, <1>4, <2>1 DEF RemoveTypeOK
  <1> QED
    BY <1>1, <1>2, <1>4, <1>5 DEF RemoveInv, Gone, Reach, Wanted

\* Every step keeps the invariant.
LEMMA RemoveInductive ==
  ASSUME RemoveInv, [RemoveNext]_<<vars, removeVars>>
  PROVE  RemoveInv'
  <1>1. CASE UNCHANGED <<vars, removeVars>>
    BY <1>1 DEF vars, removeVars, RemoveInv, RemoveTypeOK, Removals, Gone, Reach, Wanted
  <1>2. CASE RemoveNext
    BY <1>2, CallKeepsInv, RoundKeepsInv, RoundOnFreedKeepsInv, ReturnKeepsInv, NextRoundKeepsInv,
       ExecuteKeepsRemoveInv, FinishKeepsRemoveInv DEF RemoveNext, Step
  <1> QED
    BY <1>1, <1>2

\* The invariant holds in every state.
LEMMA RemoveInvariant == RemoveSpec => []RemoveInv
  <1>1. RemoveInit => RemoveInv
    BY RemoveInitially
  <1>2. RemoveInv /\ [RemoveNext]_<<vars, removeVars>> => RemoveInv'
    BY RemoveInductive
  <1> QED
    BY <1>1, <1>2, PTL DEF RemoveSpec

\* removeFeatures: whatever is listed, a call that is defined leaves a tree and takes
\* nothing it was not asked to.
THEOREM OnlySubtreesGoHolds == RemoveSpec => []OnlySubtreesGo
  <1>1. RemoveInv => OnlySubtreesGo
    BY DEF RemoveInv, RemoveTypeOK, OnlySubtreesGo, Returned, IsTree, IsPartOf, Gone, Reach, Wanted
  <1> QED
    BY <1>1, RemoveInvariant, PTL

-------------------------------------------------------------------------------
(* The invariant for a lawful list *)

\* Where the entries of the list lead, now and when the call began.
LEMMA EntriesLeadTo ==
  ASSUME RemoveInv, NEW ref \in asked
  PROVE  /\ Target(ref) \in before.features \cup {Nil}
         /\ Target(ref) \in Wanted <=> Target(ref) # Nil
         /\ Nil \notin before.features
         /\ before.features \subseteq Feature
         /\ ~undefined =>
              /\ FM.features \subseteq before.features
              /\ Resolve(FM, ref) \in FM.features => Resolve(FM, ref) = Target(ref)
              /\ Target(ref) \in FM.features => Resolve(FM, ref) = Target(ref)
              /\ Target(ref) = Nil => Resolve(FM, ref) = Nil
  <1>1. /\ FM \in Model /\ before \in Model /\ ref \in Feature \cup Name
        /\ asked \cap Node \subseteq before.features
        /\ IsTree(before)
        /\ ~undefined => IsTree(FM) /\ IsPartOf(FM, before)
    BY DEF RemoveInv, RemoveTypeOK
  <1>2. before.features \subseteq Feature /\ Nil \notin before.features
    BY <1>1, ModelFields, ConstantsAssumption DEF Node
  <1>3. Target(ref) \in before.features \cup {Nil}
    <2>1. CASE ref \in Name
      BY <1>1, <2>1, GetFeatureFinds DEF Target, Resolve
    <2>2. CASE ref \notin Name
      BY <1>1, <2>2 DEF Target, Resolve, Node
    <2> QED
      BY <2>1, <2>2
  <1>4. Target(ref) \in Wanted <=> Target(ref) # Nil
    BY DEF Wanted, Listed, Target
  <1>5. ASSUME ~undefined
        PROVE  /\ FM.features \subseteq before.features
               /\ Resolve(FM, ref) \in FM.features => Resolve(FM, ref) = Target(ref)
               /\ Target(ref) \in FM.features => Resolve(FM, ref) = Target(ref)
               /\ Target(ref) = Nil => Resolve(FM, ref) = Nil
    BY <1>1, <1>5, ResolveInPart DEF Target, IsPartOf
  <1> QED
    BY <1>2, <1>3, <1>4, <1>5

\* What is wanted are features of the model, named by the caller.
LEMMA WantedAre ==
  ASSUME RemoveInv
  PROVE  /\ Wanted \subseteq before.features
         /\ \A f \in Wanted : \E ref \in asked : Target(ref) = f
  <1>1. Wanted = {Target(ref) : ref \in asked} \ {Nil}
    BY DEF Wanted, Listed, Target
  <1> QED
    BY <1>1, EntriesLeadTo

\* Between rounds nothing is queued.
LEMMA NothingPending ==
  ASSUME RemoveInv, phase[Trans] = "none"
  PROVE  PendingIndex = {} /\ Pending = {}
  <1>1. Modifications[Trans] = << >> /\ next[Trans] = 1
    BY DEF RemoveInv
  <1> QED
    BY <1>1 DEF PendingIndex, Pending

\* Outside a transaction no call is pending.
LEMMA NothingPendingNext ==
  ASSUME RemoveInv', phase'[Trans] = "none"
  PROVE  PendingIndex' = {} /\ Pending' = {}
  <1>1. Modifications'[Trans] = << >> /\ next'[Trans] = 1
    BY DEF RemoveInv
  <1> QED
    BY <1>1 DEF PendingIndex, Pending

\* A round sees the listed features that are left, through the entries that are left.
LEMMA RoundSees ==
  ASSUME RemoveInv, LawfulInv, Lawful, call = "round"
  PROVE  /\ ~undefined
         /\ \A ref \in rest : Resolve(FM, ref) = Target(ref)
         /\ Listed(FM, rest) = Wanted \cap FM.features
         /\ \A ref \in asked : Target(ref) \in FM.features => ref \in rest
         /\ \A ref \in rest : Target(ref) = Nil \/ Target(ref) \in FM.features
  <1>1. ~undefined /\ rest \subseteq asked /\ Pending = {}
    BY NothingPending DEF RemoveInv, RemoveTypeOK, LawfulInv
  <1>2. \A ref \in asked :
          IF Target(ref) = Nil THEN ref \in rest ELSE ref \in rest <=> Target(ref) \in FM.features
    BY <1>1 DEF LawfulInv
  <1>3. \A ref \in rest : Resolve(FM, ref) = Target(ref)
    BY <1>1, <1>2, EntriesLeadTo
  <1>4. Listed(FM, rest) = {Target(ref) : ref \in rest} \ {Nil}
    BY <1>3 DEF Listed
  <1>5. Nil \notin FM.features
    BY ModelFields, ConstantsAssumption DEF RemoveInv, RemoveTypeOK, Node
  <1>6. Listed(FM, rest) \subseteq Wanted \cap FM.features
    BY <1>1, <1>2, <1>4, EntriesLeadTo
  <1>7. Wanted \cap FM.features \subseteq Listed(FM, rest)
    BY <1>2, <1>4, <1>5, WantedAre
  <1> QED
    BY <1>1, <1>2, <1>3, <1>5, <1>6, <1>7

\* Below a feature without children there is only the feature.
LEMMA LeafIsAlone ==
  ASSUME NEW m \in Model, IsTree(m), NEW f \in Feature, Targets(m, {f}) = {}
  PROVE  FeatureChildren(m, f) = {} /\ Subtree(m, f) = {f}
  <1>1. {f} \in SUBSET Node /\ f \in Node
    BY DEF Node
  <1>2. Targets(m, {f}) = {c \in Node : m.parent[c] \in {f}}
    BY <1>1, TargetsAreChildren DEF IsTree
  <1>3. FeatureChildren(m, f) =
              {x \in Feature : m.parent[x] = f \/
                               (m.parent[x] \in Relationship /\ m.parent[m.parent[x]] = f)}
    BY <1>1, FeatureChildrenAre DEF IsTree
  <1>4. FeatureChildren(m, f) = {}
    BY <1>2, <1>3 DEF Node
  <1>5. \A x \in Subtree(m, f) : x \in {f}
    BY <1>4 DEF Subtree
  <1> QED
    BY <1>4, <1>5, SubtreeIsClosed

\* What is below a feature of the model is in the model.
LEMMA SubtreeIsLive ==
  ASSUME NEW m \in Model, IsTree(m), NEW f \in m.features
  PROVE  Subtree(m, f) \subseteq m.features
  <1>1. m.features \subseteq Feature /\ m.features \subseteq Node
    BY ModelFields DEF Node
  <1>2. \A y \in m.features : FeatureChildren(m, y) \subseteq m.features
    BY <1>1, FeatureChildrenAre DEF IsTree
  <1> QED
    BY <1>1, <1>2 DEF Subtree

\* The features a round picks can be removed one by one.
LEMMA RoundPicksAlone ==
  ASSUME RemoveInv, LawfulInv, Lawful, call = "round", NEW F \in Removable, NEW f \in F
  PROVE  f \in Wanted \cap FM.features /\ Alone(f)
  <1> DEFINE L == Listed(FM, rest)
             free == {g \in L : isLeaf(g) \/ (Recursive /\ Children(g) \cap L = {})}
             overlooked == {g \in L : Recursive /\ ~(Children(g) \subseteq L)}
  <1>1. /\ FM \in Model /\ before \in Model /\ IsTree(FM) /\ IsTree(before)
        /\ IsPartOf(FM, before) /\ ~undefined
    BY RoundSees DEF RemoveInv, RemoveTypeOK
  <1>2. L = Wanted \cap FM.features
    BY RoundSees
  <1>3. f \in free \cup overlooked
    BY DEF Removable
  <1>4. f \in Wanted /\ f \in FM.features /\ f \in Feature /\ {f} \in SUBSET Node
    BY <1>1, <1>2, <1>3, ModelFields DEF Node
  <1>5. CASE ~Recursive
    BY <1>3, <1>4, <1>5 DEF Alone, isLeaf, Children
  <1>6. CASE Recursive
    <2>1. f \in Subtree(FM, f) /\ Subtree(FM, f) \subseteq FM.features
      BY <1>1, <1>4, SubtreeIsClosed, SubtreeIsLive
    <2>2. ASSUME NEW g \in Subtree(FM, f) \cap Wanted, g # f PROVE FALSE
      <3>1. g \in BelowIt(before, f) /\ g \in Wanted
        BY <1>1, <1>4, <2>2, PartSubtrees DEF BelowIt
      <3>2. Targets(before, {f}) \subseteq Wanted
        BY <1>4, <1>6, <3>1 DEF Lawful, Wanted
      <3>3. Children(f) = Targets(before, {f}) \cap Live(FM)
        BY <1>1, <1>4, PartEdges DEF Children
      <3>4. Wanted \cap Live(FM) \subseteq L
        <4>1. Wanted \subseteq Feature /\ FM.relationships \cap Feature = {}
          BY <1>1, WantedAre, ModelFields, ConstantsAssumption
        <4> QED
          BY <1>2, <4>1 DEF Live
      <3>5. Children(f) \subseteq L
        BY <3>2, <3>3, <3>4
      <3>6. Children(f) = {}
        BY <1>3, <3>5 DEF isLeaf
      <3>7. Subtree(FM, f) = {f}
        BY <1>1, <1>4, <3>6, LeafIsAlone DEF Children
      <3> QED
        BY <2>2, <3>7
    <2>3. Subtree(FM, f) \cap Wanted = {f}
      BY <1>4, <2>1, <2>2
    <2> QED
      BY <1>4, <1>6, <2>3 DEF Alone
  <1> QED
    BY <1>5, <1>6

\* The queue of a round holds each picked entry once.
LEMMA RoundQueues ==
  ASSUME NEW picked, IsFiniteSet(picked), NEW order \in SetToSeqs(picked)
  PROVE  LET q == [i \in DOMAIN order |-> Removal(order[i])] IN
         /\ \A i, j \in 1..Len(q) : q[i].ref = q[j].ref => i = j
         /\ {q[i].ref : i \in 1..Len(q)} = picked
  <1> DEFINE q == [i \in DOMAIN order |-> Removal(order[i])]
             D == 1..Cardinality(picked)
  <1>1. /\ order \in [D -> picked]
        /\ \A i, j \in D : i # j => order[i] # order[j]
    BY DEF SetToSeqs
  <1>2. Cardinality(picked) \in Nat
    BY FS_CardinalityType
  <1>3. Len(q) = Cardinality(picked)
    BY <1>1, <1>2
  <1>4. \A i \in D : q[i].ref = order[i]
    BY <1>1 DEF Removal
  <1>5. IsFiniteSet(D) /\ Cardinality(D) = Cardinality(picked)
    BY <1>2, FS_Interval
  <1>6. order \in Injection(D, picked)
    BY <1>1 DEF Injection, IsInjective
  <1>7. order \in Surjection(D, picked)
    <2> HIDE DEF D
    <2> QED
      BY <1>5, <1>6, FS_Injection
  <1>8. \A ref \in picked : \E i \in D : order[i] = ref
    BY <1>7 DEF Surjection
  <1>9. {order[i] : i \in D} = picked
    BY <1>1, <1>8
  <1>10. {q[i].ref : i \in D} = {order[i] : i \in D}
    BY <1>4
  <1>11. \A i, j \in D : q[i].ref = q[j].ref => i = j
    BY <1>1, <1>4
  <1> HIDE DEF q
  <1>12. 1..Len(q) = D
    BY <1>3
  <1> QED
    BY <1>9, <1>10, <1>11, <1>12 DEF q

\* A round tries the features that are left.
LEMMA RoundKeepsLawful ==
  ASSUME RemoveInv, LawfulInv, Round
  PROVE  LawfulInv'
  <1>0. Trans \in Transaction /\ RemoveTypeOK
    BY RemoveAssumption DEF RemoveInv
  <1>1. PICK F \in Removable :
          LET picked == {ref \in rest : Resolve(FM, ref) \in F} IN
          /\ rest' = rest \ picked
          /\ \E order \in SetToSeqs(picked) :
               Modifications' = [Modifications EXCEPT ![Trans] =
                                   [i \in DOMAIN order |-> Removal(order[i])]]
    BY DEF Round
  <1> DEFINE picked == {ref \in rest : Resolve(FM, ref) \in F}
  <1>2. PICK order \in SetToSeqs(picked) :
          Modifications' = [Modifications EXCEPT ![Trans] =
                              [i \in DOMAIN order |-> Removal(order[i])]]
    BY <1>1
  <1>3. /\ call = "round" /\ call' = "committing"
        /\ phase' = [phase EXCEPT ![Trans] = "committing"]
        /\ UNCHANGED <<FM, next, undefined, Recursive, NotDeletedFeatures, asked, before>>
        /\ rest' = rest \ picked
    BY <1>1 DEF Round
  <1> SUFFICES ASSUME Lawful PROVE LawfulInv'
    BY <1>3 DEF LawfulInv, Lawful
  <1> DEFINE q == [i \in DOMAIN order |-> Removal(order[i])]
  <1>4. /\ phase[Trans] = "none" /\ next[Trans] = 1 /\ phase'[Trans] = "committing"
        /\ ~undefined /\ Pending = {}
    BY <1>0, <1>3, NothingPending, RoundSees DEF RemoveInv, RemoveTypeOK
  <1>5. Modifications'[Trans] = q /\ next'[Trans] = 1
    <2> HIDE DEF q
    <2>1. Modifications' = [Modifications EXCEPT ![Trans] = q]
      BY <1>2 DEF q
    <2> QED
      BY <1>0, <1>3, <1>4, <2>1 DEF RemoveTypeOK
  <1>6. /\ \A i, j \in 1..Len(q) : q[i].ref = q[j].ref => i = j
        /\ {q[i].ref : i \in 1..Len(q)} = picked
    <2>1. IsFiniteSet(picked)
      <3>1. picked \in SUBSET asked /\ IsFiniteSet(asked)
        BY <1>0 DEF RemoveTypeOK
      <3> HIDE DEF picked
      <3> QED
        BY <3>1, FS_Subset
    <2> HIDE DEF picked
    <2> QED
      BY <2>1, RoundQueues
  <1>7. PendingIndex' = 1..Len(q) /\ \A i : PendingRef(i)' = q[i].ref
    BY <1>5 DEF PendingIndex, PendingRef
  <1>8. Pending' = picked
    <2> HIDE DEF q, picked
    <2> QED
      BY <1>6, <1>7 DEF Pending
  <1>9. \A i, j \in PendingIndex' : PendingRef(i)' = PendingRef(j)' => i = j
    <2> HIDE DEF q, picked
    <2> QED
      BY <1>6, <1>7
  <1>10. \A ref \in picked : Target(ref)' \in FM.features' /\ Alone(Target(ref))'
    <2>1. \A ref \in picked : Target(ref) \in F
      BY <1>3, RoundSees
    <2>2. \A f \in F : f \in FM.features /\ Alone(f)
      BY <1>3, RoundPicksAlone
    <2>3. \A f : Alone(f)' <=> Alone(f)
      BY <1>3 DEF Alone, Wanted
    <2> QED
      BY <1>3, <2>1, <2>2, <2>3 DEF Target
  <1>11. \A ref \in asked' : IF Target(ref)' = Nil THEN ref \in rest'
                             ELSE ref \in rest' \cup picked <=> Target(ref)' \in FM.features'
    <2>1. \A ref \in asked : IF Target(ref) = Nil THEN ref \in rest
                             ELSE ref \in rest <=> Target(ref) \in FM.features
      BY <1>3, <1>4 DEF LawfulInv
    <2>2. Nil \notin F
      <3>1. F \subseteq FM.features
        BY <1>3, RoundPicksAlone
      <3> QED
        BY <1>0, <3>1, ModelFields, ConstantsAssumption DEF RemoveTypeOK, Node
    <2>3. \A ref \in picked : Target(ref) # Nil
      BY <1>3, <2>2, RoundSees
    <2> QED
      BY <1>3, <2>1, <2>3 DEF Target
  <1>12. rest' \cap picked = {}
    BY <1>3
  <1>13. ~Recursive' => FM.relationships' = before.relationships'
    BY <1>3 DEF LawfulInv
  <1>14. ~undefined' /\ phase'[Trans] # "closed" /\ call' # "idle"
    BY <1>3, <1>4
  <1> HIDE DEF picked
  <1> QED
    BY <1>8, <1>9, <1>10, <1>11, <1>12, <1>13, <1>14 DEF LawfulInv

\* A queued removal finds its feature and takes it, and nothing else that is listed.
LEMMA ExecutesAsAsked ==
  ASSUME RemoveInv, LawfulInv, Lawful, Execute(Trans)
  PROVE  LET f == Target(PendingRef(next[Trans])) IN
         /\ f \in Wanted \cap FM.features
         /\ Alone(f)
         /\ FM' \in Model /\ IsTree(FM)' /\ IsPartOf(FM', FM)
         /\ Recursive => FM'.features = FM.features \ Subtree(FM, f)
         /\ ~Recursive => FM'.features = FM.features \ {f} /\ FM'.relationships = FM.relationships
         /\ ~undefined'
         /\ next' = [next EXCEPT ![Trans] = @ + 1]
         /\ UNCHANGED <<phase, Modifications>>
  <1> DEFINE ref == PendingRef(next[Trans])
             f == Target(ref)
  <1>1. /\ ~undefined /\ next[Trans] <= Len(Modifications[Trans])
        /\ FM \in Model /\ before \in Model /\ IsTree(FM) /\ IsPartOf(FM, before)
        /\ Recursive \in BOOLEAN /\ asked \in SUBSET (Feature \cup Name)
    BY DEF Execute, RemoveInv, RemoveTypeOK
  <1>2. PICK o \in OutcomesAmong(FM, Modifications[Trans][next[Trans]], Live(FM)) :
           /\ FM' = o.model
           /\ undefined' = (o.code = "UB")
           /\ IF o.code \in {"OK", "UB"}
              THEN /\ next' = [next EXCEPT ![Trans] = @ + 1]
                   /\ UNCHANGED <<phase, Modifications, result>>
              ELSE End(Trans, o.code)
    BY NothingWaits DEF Execute, RemoveInv
  <1>3. /\ ref \in asked /\ ref \in Pending
        /\ o \in RemoveFeature(FM, ref, Recursive, Live(FM))
    <2>1. next[Trans] \in PendingIndex /\ ref \in asked
      BY <1>1, QueuedRemoval
    <2>2. o \in RemoveFeature(FM, ref, Recursive, Live(FM))
      BY <1>1, <1>2, QueuedRemoval DEF Outcomes
    <2> QED
      BY <2>1, <2>2 DEF Pending
  <1>4. f \in FM.features /\ Alone(f) /\ Resolve(FM, ref) = f /\ f \in Wanted
    <2>1. f \in FM.features /\ Alone(f)
      BY <1>3 DEF LawfulInv
    <2>2. Nil \notin FM.features
      BY <1>1, ModelFields, ConstantsAssumption DEF Node
    <2> QED
      BY <1>1, <1>3, <2>1, <2>2, EntriesLeadTo
  <1>5. f # FM.root /\ ref \in Feature \cup Name /\ f \in Feature
    <2>1. before.root \notin Wanted /\ FM.root = before.root
      BY <1>1 DEF Lawful, Wanted, IsPartOf
    <2> QED
      BY <1>1, <1>3, <1>4, <2>1, ModelFields
  <1> HIDE DEF ref, f
  <1>6. CASE Recursive
    <2>1. PICK n \in Model : /\ RemoveFeature(FM, ref, Recursive, Live(FM)) = Succeeds(n)
                             /\ IsTree(n) /\ IsPartOf(n, FM)
                             /\ n.features = FM.features \ Subtree(FM, f)
      BY <1>1, <1>4, <1>5, <1>6, RecursiveRemoval
    <2>2. o = Outcome(n, "OK")
      BY <1>3, <2>1 DEF Succeeds
    <2>3. o.model = n /\ o.code = "OK"
      BY <2>2 DEF Outcome
    <2> QED
      BY <1>2, <1>4, <1>6, <2>1, <2>3 DEF f, ref
  <1>7. CASE ~Recursive
    <2>1. Targets(FM, {f}) = {} /\ FeatureChildren(FM, f) = {}
      BY <1>1, <1>4, <1>5, <1>7, LeafIsAlone DEF Alone
    <2>2. PICK n \in Model : /\ RemoveFeature(FM, ref, Recursive, Live(FM)) = Succeeds(n)
                             /\ IsTree(n) /\ IsPartOf(n, FM)
                             /\ n.features = FM.features \ {f}
                             /\ Targets(FM, {f}) = {} => n.relationships = FM.relationships
      BY <1>1, <1>4, <1>5, <1>7, <2>1, LeafRemoval
    <2>3. o = Outcome(n, "OK")
      BY <1>3, <2>2 DEF Succeeds
    <2>4. o.model = n /\ o.code = "OK"
      BY <2>3 DEF Outcome
    <2> QED
      BY <1>2, <1>4, <1>7, <2>1, <2>2, <2>4 DEF f, ref
  <1> QED
    BY <1>6, <1>7

\* Removing one feature keeps what can be removed lawful.
LEMMA ExecuteKeepsLawful ==
  ASSUME RemoveInv, LawfulInv, Execute(Trans), UNCHANGED removeVars
  PROVE  LawfulInv'
  <1>0. Trans \in Transaction /\ RemoveTypeOK
    BY RemoveAssumption DEF RemoveInv
  <1>1. UNCHANGED <<rest, Recursive, call, NotDeletedFeatures, asked, before>>
    BY DEF removeVars
  <1> SUFFICES ASSUME Lawful PROVE LawfulInv'
    BY <1>1 DEF LawfulInv, Lawful
  <1> DEFINE i == next[Trans]
             ref == PendingRef(i)
             f == Target(ref)
  <1>2. /\ ~undefined /\ i <= Len(Modifications[Trans]) /\ i \in Nat
        /\ phase[Trans] = "committing" /\ call = "committing"
        /\ FM \in Model /\ IsTree(FM)
    <2>1. phase[Trans] \in Running /\ i <= Len(Modifications[Trans]) /\ ~undefined
      BY DEF Execute
    <2>2. phase[Trans] = "committing" /\ i \in Nat
      BY <1>0, <2>1 DEF RemoveTypeOK, Running
    <2> QED
      BY <2>1, <2>2 DEF RemoveInv, RemoveTypeOK
  <1>3. /\ f \in Wanted \cap FM.features /\ Alone(f)
        /\ FM' \in Model /\ IsTree(FM)' /\ IsPartOf(FM', FM)
        /\ Recursive => FM'.features = FM.features \ Subtree(FM, f)
        /\ ~Recursive => FM'.features = FM.features \ {f} /\ FM'.relationships = FM.relationships
        /\ ~undefined'
        /\ next' = [next EXCEPT ![Trans] = @ + 1]
        /\ UNCHANGED <<phase, Modifications>>
    BY ExecutesAsAsked
  <1>4. FM'.features \cap Wanted = (FM.features \cap Wanted) \ {f}
    <2>1. CASE Recursive
      <3>1. Subtree(FM, f) \cap Wanted = {f}
        BY <1>3, <2>1 DEF Alone
      <3> HIDE DEF f
      <3> QED
        BY <1>3, <2>1, <3>1
    <2>2. CASE ~Recursive
      BY <1>3, <2>2
    <2> QED
      BY <2>1, <2>2
  <1>5. i \in PendingIndex /\ PendingIndex' = PendingIndex \ {i} /\ \A j : PendingRef(j)' = PendingRef(j)
    <2>1. Len(Modifications[Trans]) \in Nat
      <3>1. Modifications[Trans] \in Seq(Removals)
        <4> HIDE DEF Removals
        <4> QED
          BY <1>0 DEF RemoveTypeOK
      <3> HIDE DEF Removals
      <3> QED
        BY <3>1
    <2>2. next'[Trans] = i + 1
      BY <1>0, <1>3 DEF RemoveTypeOK
    <2> QED
      BY <1>2, <1>3, <2>1, <2>2 DEF PendingIndex, PendingRef
  <1>6. Pending' = Pending \ {ref}
    <2>1. \A j, k \in PendingIndex : PendingRef(j) = PendingRef(k) => j = k
      BY DEF LawfulInv
    <2> QED
      BY <1>5, <2>1 DEF Pending
  <1>7. \A r \in asked : Target(r) = f => r = ref
    <2>1. ref \in asked /\ f # Nil
      BY <1>2, QueuedRemoval, EntriesLeadTo, <1>3
    <2> QED
      BY <2>1 DEF Lawful, Target
  <1>8. Pending \subseteq asked
    <2>1. \A j \in PendingIndex : PendingRef(j) \in asked
      <3>1. Modifications[Trans] \in Seq(Removals) /\ next[Trans] \in Nat \ {0}
        <4> HIDE DEF Removals
        <4> QED
          BY <1>0 DEF RemoveTypeOK
      <3>2. \A j \in PendingIndex : Modifications[Trans][j] \in Removals
        <4> HIDE DEF Removals
        <4> QED
          BY <3>1 DEF PendingIndex
      <3> QED
        BY <3>2 DEF Removals, PendingRef
    <2> QED
      BY <2>1 DEF Pending
  <1>9. ASSUME NEW g \in FM'.features, Alone(g)
        PROVE  Alone(g)'
    <2>1. g \in Feature /\ {g} \in SUBSET Node
      BY <1>3, <1>9, ModelFields DEF Node
    <2>2. CASE Recursive
      <3>1. Subtree(FM', g) \subseteq Subtree(FM, g) /\ g \in Subtree(FM', g)
        BY <1>2, <1>3, <2>1, PartSubtrees, SubtreeIsClosed
      <3>2. Subtree(FM, g) \cap Wanted = {g}
        BY <1>9, <2>2 DEF Alone
      <3>3. Subtree(FM', g) \cap Wanted = {g}
        BY <3>1, <3>2
      <3>4. Wanted' = Wanted
        BY <1>1 DEF Wanted
      <3> QED
        BY <1>1, <2>2, <3>3, <3>4 DEF Alone
    <2>3. CASE ~Recursive
      <3>0. Targets(FM', {g}) = Targets(FM, {g}) \cap Live(FM')
        BY <1>2, <1>3, <2>1, PartEdges
      <3>1. Targets(FM', {g}) = {}
        BY <1>9, <2>3, <3>0 DEF Alone
      <3> QED
        BY <1>1, <2>3, <3>1 DEF Alone
    <2> QED
      BY <2>2, <2>3
  <1>10. \A r \in asked : Target(r) # Nil => Target(r) \in Wanted
    BY EntriesLeadTo
  <1> HIDE DEF ref, f, i
  <1>11. \A r \in Pending' : Target(r)' \in FM'.features /\ Alone(Target(r))'
    <2>0. Nil \notin FM.features
      BY <1>2, ModelFields, ConstantsAssumption DEF Node
    <2>1. ASSUME NEW r \in Pending'
          PROVE  Target(r) \in FM'.features /\ Alone(Target(r))
      <3>1. r \in Pending /\ r # ref /\ r \in asked
        BY <1>6, <1>8
      <3>2. Target(r) \in FM.features /\ Alone(Target(r))
        BY <3>1 DEF LawfulInv
      <3>3. Target(r) \in Wanted /\ Target(r) # f
        BY <1>7, <1>10, <2>0, <3>1, <3>2
      <3> QED
        BY <1>4, <3>2, <3>3
    <2>2. \A r : Target(r)' = Target(r)
      BY <1>1 DEF Target
    <2>3. \A r \in Pending' : Alone(Target(r))'
      <3>1. ASSUME NEW r \in Pending' PROVE Alone(Target(r))'
        <4>1. PICK g : g = Target(r)
          OBVIOUS
        <4>2. g \in FM'.features /\ Alone(g)
          BY <2>1, <4>1
        <4>3. Alone(g)'
          BY <1>9, <4>2
        <4>4. Target(r)' = g
          BY <2>2, <4>1
        <4> QED
          BY <4>3, <4>4 DEF Alone
      <3> QED
        BY <3>1
    <2> QED
      BY <2>1, <2>2, <2>3
  <1>12. \A r \in asked : IF Target(r) = Nil THEN r \in rest
                          ELSE r \in rest \cup Pending' <=> Target(r) \in FM'.features
    <2>1. \A r \in asked : IF Target(r) = Nil THEN r \in rest
                           ELSE r \in rest \cup Pending <=> Target(r) \in FM.features
      BY <1>2 DEF LawfulInv
    <2>2. ref \notin rest /\ Target(ref) = f
      <3>1. ref \in Pending
        BY <1>5 DEF Pending, ref
      <3> QED
        BY <3>1 DEF LawfulInv, f
    <2> QED
      BY <1>4, <1>6, <1>7, <1>10, <2>1, <2>2
  <1>13. \A r : Target(r)' = Target(r)
    BY <1>1 DEF Target
  <1>14. ~Recursive => FM'.relationships = before.relationships
    BY <1>3 DEF LawfulInv
  <1>15. /\ \A j, k \in PendingIndex' : PendingRef(j)' = PendingRef(k)' => j = k
         /\ rest' \cap Pending' = {}
    BY <1>1, <1>5, <1>6 DEF LawfulInv
  <1>16. phase'[Trans] # "closed" /\ call' # "idle" /\ ~undefined'
    BY <1>1, <1>2, <1>3
  <1> QED
    BY <1>1, <1>11, <1>12, <1>13, <1>14, <1>15, <1>16 DEF LawfulInv

\* A round that is over keeps it lawful.
LEMMA FinishKeepsLawful ==
  ASSUME RemoveInv, LawfulInv, Finish(Trans), UNCHANGED removeVars
  PROVE  LawfulInv'
  <1>0. Trans \in Transaction /\ RemoveTypeOK
    BY RemoveAssumption DEF RemoveInv
  <1>1. /\ ~undefined /\ phase[Trans] \in Running /\ FM' = FM
        /\ next[Trans] > Len(Modifications[Trans])
        /\ UNCHANGED <<rest, Recursive, call, NotDeletedFeatures, asked, before>>
    BY DEF Finish, removeVars
  <1> SUFFICES ASSUME Lawful PROVE LawfulInv'
    BY <1>1 DEF LawfulInv, Lawful
  <1>2. phase[Trans] = "committing" /\ call = "committing" /\ IsTree(FM) /\ FM \in Model
    BY <1>0, <1>1 DEF RemoveInv, RemoveTypeOK, Running
  <1>3. CheckIsSafe(FM, Live(FM)) /\ Alive = Live(FM)
    BY <1>0, <1>2, TreeIsValid, NothingWaits DEF IsTree
  <1>4. UNCHANGED <<Modifications, next, undefined>>
    <2>1. next = [next EXCEPT ![Trans] = @]
      BY <1>0 DEF RemoveTypeOK
    <2> QED
      BY <1>1, <1>2, <1>3, <2>1 DEF Finish, End
  <1>5. PendingIndex = {}
    <2>1. Len(Modifications[Trans]) \in Nat /\ next[Trans] \in Nat
      <3>1. Modifications[Trans] \in Seq(Removals) /\ next[Trans] \in Nat \ {0}
        <4> HIDE DEF Removals
        <4> QED
          BY <1>0 DEF RemoveTypeOK
      <3> HIDE DEF Removals
      <3> QED
        BY <3>1
    <2> QED
      BY <1>1, <2>1 DEF PendingIndex
  <1>6. PendingIndex' = {} /\ Pending' = {} /\ Pending = {}
    BY <1>4, <1>5 DEF PendingIndex, Pending
  <1>7. \A ref \in asked : IF Target(ref) = Nil THEN ref \in rest
                           ELSE ref \in rest \cup Pending <=> Target(ref) \in FM.features
    BY <1>2 DEF LawfulInv
  <1>8. \A ref : Target(ref)' = Target(ref)
    BY <1>1 DEF Target
  <1>9. ~Recursive => FM.relationships = before.relationships
    BY DEF LawfulInv
  <1> QED
    BY <1>1, <1>2, <1>4, <1>6, <1>7, <1>8, <1>9 DEF LawfulInv

\* The next round begins with what is still listed.
LEMMA NextRoundKeepsLawful ==
  ASSUME RemoveInv, LawfulInv, NextRound
  PROVE  LawfulInv'
  <1>1. /\ call = "committing" /\ phase[Trans] = "closed" /\ call' = "round"
        /\ phase' = [phase EXCEPT ![Trans] = "none"]
        /\ UNCHANGED <<FM, undefined, rest, Recursive, NotDeletedFeatures, asked, before>>
    BY DEF NextRound, DestroyTransaction
  <1> SUFFICES ASSUME Lawful PROVE LawfulInv'
    BY <1>1 DEF LawfulInv, Lawful
  <1>2. PendingIndex = {} /\ Pending = {}
    BY <1>1 DEF LawfulInv, Pending
  <1>3. phase'[Trans] = "none"
    BY <1>1, RemoveAssumption DEF RemoveInv, RemoveTypeOK
  <1>4. RemoveInv'
    BY NextRoundKeepsInv
  <1>5. PendingIndex' = {} /\ Pending' = {}
    BY <1>3, <1>4, NothingPendingNext
  <1>6. \A ref \in asked : IF Target(ref) = Nil THEN ref \in rest
                           ELSE ref \in rest \cup Pending <=> Target(ref) \in FM.features
    BY <1>1 DEF LawfulInv
  <1>7. \A ref : Target(ref)' = Target(ref)
    BY <1>1 DEF Target
  <1>8. ~undefined /\ (~Recursive => FM.relationships = before.relationships)
    BY DEF LawfulInv
  <1> QED
    BY <1>1, <1>2, <1>3, <1>5, <1>6, <1>7, <1>8 DEF LawfulInv

\* A call of removeFeatures begins lawfully.
LEMMA CallKeepsLawful ==
  ASSUME RemoveInv, NEW list \in Lists, NEW recursive \in BOOLEAN, removeFeatures(list, recursive)
  PROVE  LawfulInv'
  <1>1. /\ call = "idle" /\ ~undefined /\ call' = "round"
        /\ rest' = list /\ asked' = list /\ before' = FM
        /\ UNCHANGED <<FM, phase, undefined>>
    BY DEF removeFeatures, vars
  <1>2. RemoveInv'
    BY CallKeepsInv
  <1>3. phase'[Trans] = "none"
    BY <1>1, RemoveAssumption DEF RemoveInv, RemoveTypeOK
  <1>4. PendingIndex' = {} /\ Pending' = {}
    BY <1>2, <1>3, NothingPendingNext
  <1>5. \A ref \in asked' : Target(ref)' \in FM.features \cup {Nil} /\ Nil \notin FM.features
    <2>1. asked' \in SUBSET (Feature \cup Name) /\ asked' \cap Node \subseteq FM.features /\ FM \in Model
      BY <1>1, <1>2 DEF RemoveInv, RemoveTypeOK
    <2>2. \A ref : Target(ref)' = Resolve(FM, ref)
      BY <1>1 DEF Target
    <2>3. \A ref \in asked' : Resolve(FM, ref) \in FM.features \cup {Nil}
      BY <2>1, GetFeatureFinds DEF Resolve, Node
    <2> QED
      BY <2>1, <2>2, <2>3, ModelFields, ConstantsAssumption DEF Node
  <1>6. \A ref \in asked' : ref \in rest'
    BY <1>1
  <1> QED
    BY <1>1, <1>3, <1>4, <1>5, <1>6 DEF LawfulInv

\* Without recursion a feature that is gone had nothing below it but what is gone.
LEMMA GoneIsClear ==
  ASSUME RemoveInv, ~undefined, ~Recursive, FM.relationships = before.relationships
  PROVE  Gone \subseteq Clear
  <1>1. /\ FM \in Model /\ before \in Model /\ IsTree(FM) /\ IsTree(before)
        /\ IsPartOf(FM, before) /\ Gone \subseteq Wanted
    BY DEF RemoveInv, RemoveTypeOK, Reach
  <1>2. /\ before.features \subseteq Feature /\ FM.features \subseteq Feature
        /\ FM.relationships \subseteq Relationship /\ Feature \cap Relationship = {}
    BY <1>1, ModelFields, ConstantsAssumption
  <1>3. Gone \in SUBSET Node
    BY <1>2 DEF Gone, Node
  <1>4. Targets(before, Gone) \subseteq Gone
    <2>1. SUFFICES ASSUME NEW x \in Node, before.parent[x] \in Gone PROVE x \in Gone
      BY <1>1, <1>3, TargetsAreChildren DEF IsTree
    <2>2. x \in Live(before)
      BY <1>1, <1>3, <2>1, EdgeIsParent DEF IsTree
    <2>3. ASSUME x \in Live(FM) PROVE FALSE
      <3>1. FM.parent[x] = before.parent[x] /\ before.parent[x] \in Node
        BY <1>1, <1>3, <2>1, <2>3 DEF IsPartOf
      <3>2. before.parent[x] \in Live(FM)
        BY <1>1, <3>1, EdgeIsParent DEF IsTree
      <3> QED
        BY <1>2, <2>1, <3>2 DEF Gone, Live
    <2> QED
      BY <2>2, <2>3 DEF Live, Gone
  <1>5. ASSUME NEW f \in Gone PROVE Below(before, f) \subseteq Gone
    <2> HIDE DEF Gone
    <2> QED
      BY <1>3, <1>4, <1>5 DEF Below
  <1> QED
    BY <1>1, <1>5 DEF Clear, Wanted

\* When a round finds no leaf, no listed feature is left with only listed ones below it.
LEMMA ClearIsGone ==
  ASSUME RemoveInv, LawfulInv, Lawful, call = "round", {} \in Removable
  PROVE  Clear \subseteq Gone
  <1>1. /\ FM \in Model /\ before \in Model /\ IsTree(FM) /\ IsTree(before)
        /\ IsPartOf(FM, before) /\ ~undefined /\ IsFiniteSet(asked) /\ rest \subseteq asked
    BY RoundSees DEF RemoveInv, RemoveTypeOK
  <1> DEFINE S == Clear \cap FM.features
  <1>2. Listed(FM, rest) = Wanted \cap FM.features
    BY RoundSees
  <1>3. S \in SUBSET Node /\ FM.features \subseteq Feature /\ FM.relationships \cap Feature = {}
    BY <1>1, ModelFields, ConstantsAssumption DEF Node
  <1>4. Clear \subseteq Wanted /\ Wanted \subseteq before.features /\ Wanted \subseteq Feature
    BY <1>1, WantedAre, ModelFields DEF Clear, Wanted
  <1>5. IsFiniteSet(S)
    <2>1. IsFiniteSet(rest)
      BY <1>1, FS_Subset
    <2>2. IsFiniteSet(Listed(FM, rest))
      BY <2>1, ListedIsFinite
    <2>3. S \in SUBSET Listed(FM, rest)
      BY <1>2, <1>4
    <2> HIDE DEF S
    <2> QED
      BY <2>2, <2>3, FS_Subset
  <1>6. ASSUME NEW x \in S PROVE \E y \in S : FM.parent[y] = x
    <2>1. x \in Listed(FM, rest) /\ x \in Clear /\ x \in Node
      BY <1>2, <1>3, <1>4
    <2>2. ~isLeaf(x)
      BY <1>1, <1>2, <2>1, NothingRemovable
    <2>3. PICK y \in Node : FM.parent[y] = x
      <3>1. Children(x) = {c \in Node : FM.parent[c] \in {x}}
        BY <1>1, <2>1, TargetsAreChildren DEF Children, IsTree
      <3> QED
        BY <2>2, <3>1 DEF isLeaf
    <2>4. y \in Live(FM) /\ before.parent[y] = x
      BY <1>1, <2>1, <2>3, EdgeIsParent DEF IsTree, IsPartOf
    <2>5. y \in Below(before, x)
      BY <1>1, <2>1, <2>4, BelowIsClosed DEF IsTree
    <2>6. Below(before, y) \subseteq Below(before, x)
      <3>1. ASSUME NEW T \in SUBSET Node, x \in T, Targets(before, T) \subseteq T PROVE y \in T
        BY <2>5, <3>1 DEF Below
      <3> QED
        BY <3>1 DEF Below
    <2>7. y \in Wanted /\ Below(before, y) \subseteq Wanted
      BY <2>1, <2>5, <2>6 DEF Clear, Wanted
    <2>8. y \in Clear
      BY <2>7 DEF Clear, Wanted
    <2>9. y \in FM.features
      BY <1>3, <1>4, <2>4, <2>7 DEF Live
    <2> QED
      BY <2>3, <2>8, <2>9
  <1>7. S = {}
    <2> HIDE DEF S
    <2> QED
      BY <1>1, <1>3, <1>5, <1>6, NoDescent
  <1> QED
    BY <1>4, <1>7 DEF Gone

\* A recursive call has taken every listed feature with what was below it.
LEMMA EverythingIsGone ==
  ASSUME RemoveInv, LawfulInv, Lawful, call = "round", Recursive, Listed(FM, rest) = {}
  PROVE  Gone = UNION {Subtree(before, f) : f \in Wanted}
  <1>1. /\ FM \in Model /\ before \in Model /\ IsTree(FM) /\ IsTree(before)
        /\ IsPartOf(FM, before) /\ Gone \subseteq Reach
    BY RoundSees DEF RemoveInv, RemoveTypeOK
  <1>2. Wanted \cap FM.features = {} /\ Wanted \subseteq before.features /\ Wanted \subseteq Feature
    BY <1>1, RoundSees, WantedAre, ModelFields
  <1>3. ASSUME NEW f \in Wanted PROVE Subtree(before, f) \subseteq Gone
    <2>1. Subtree(before, f) \cap FM.features = {}
      BY <1>1, <1>2, PartSubtrees
    <2>2. Subtree(before, f) \subseteq before.features
      BY <1>1, <1>2, SubtreeIsLive
    <2> QED
      BY <2>1, <2>2 DEF Gone
  <1> QED
    BY <1>1, <1>3 DEF Reach

\* Returning keeps it lawful.
LEMMA ReturnKeepsLawful ==
  ASSUME RemoveInv, LawfulInv, Return
  PROVE  LawfulInv'
  <1>1. /\ ~undefined /\ call = "round" /\ Listed(FM, rest) \subseteq FM.features
        /\ {} \in Removable
        /\ NotDeletedFeatures' = rest /\ rest' = {} /\ call' = "idle"
        /\ UNCHANGED <<FM, phase, Modifications, next, undefined, Recursive, asked, before>>
    BY DEF Return, vars
  <1> SUFFICES ASSUME Lawful PROVE LawfulInv'
    BY <1>1 DEF LawfulInv, Lawful
  <1>2. /\ rest \subseteq asked /\ phase[Trans] = "none" /\ PendingIndex = {} /\ Pending = {}
    BY <1>1, RemoveAssumption, NothingPending DEF RemoveInv, RemoveTypeOK
  <1>3. ~Recursive => FM.relationships = before.relationships
    BY DEF LawfulInv
  <1>4. \A ref \in asked : IF Target(ref) = Nil THEN ref \in rest
                           ELSE ref \in rest <=> Target(ref) \in FM.features
    BY <1>1, <1>2 DEF LawfulInv
  <1>5. \A ref \in asked : ref \in rest <=> Target(ref) \notin Gone
    BY <1>1, <1>4, EntriesLeadTo DEF Gone
  <1>6. CASE Recursive
    <2>1. Listed(FM, rest) = {}
      BY <1>1, <1>6, NothingRemovable
    <2>2. Gone = UNION {Subtree(before, f) : f \in Wanted}
      BY <1>1, <1>6, <2>1, EverythingIsGone
    <2>3. \A ref \in asked : ref \in rest <=> Target(ref) \notin Wanted
      <3>1. Wanted \cap FM.features = {}
        BY <1>1, <2>1, RoundSees
      <3> QED
        BY <1>4, <3>1, EntriesLeadTo, WantedAre
    <2>4. rest = {ref \in asked : Target(ref) \notin Wanted}
      BY <1>2, <2>3
    <2>5. RemovesWhatItCan'
      BY <1>1, <1>6, <2>2, <2>4 DEF RemovesWhatItCan, Returned, Gone, Wanted, Target
    <2> QED
      BY <1>1, <1>2, <1>6, <2>5 DEF LawfulInv, PendingIndex, PendingRef, Pending
  <1>7. CASE ~Recursive
    <2>1. Gone = Clear
      BY <1>1, <1>3, <1>7, GoneIsClear, ClearIsGone
    <2>2. rest = {ref \in asked : Target(ref) \notin Clear}
      BY <1>2, <1>5, <2>1
    <2>3. Clear' = Clear
      BY <1>1 DEF Clear
    <2>4. RemovesWhatItCan'
      BY <1>1, <1>7, <2>1, <2>2, <2>3 DEF RemovesWhatItCan, Returned, Gone, Target
    <2> QED
      BY <1>1, <1>2, <1>3, <2>4 DEF LawfulInv, PendingIndex, PendingRef, Pending
  <1> QED
    BY <1>6, <1>7

\* Nothing was asked for in the initial states.
LEMMA LawfulInitially ==
  ASSUME RemoveInit
  PROVE  LawfulInv
  <1>1. RemoveInv /\ call = "idle" /\ asked = {} /\ before = FM /\ ~undefined
        /\ NotDeletedFeatures = {} /\ Trans \in Transaction /\ phase[Trans] = "none"
    BY RemoveInitially, RemoveAssumption DEF RemoveInit, Init
  <1>2. Listed(before, asked) = {} /\ Clear = {}
    BY <1>1 DEF Listed, Clear
  <1>3. RemovesWhatItCan
    BY <1>1, <1>2 DEF RemovesWhatItCan
  <1>4. PendingIndex = {} /\ Pending = {}
    BY <1>1, NothingPending
  <1> QED
    BY <1>1, <1>3, <1>4 DEF LawfulInv

\* Every step keeps it lawful.
LEMMA LawfulInductive ==
  ASSUME RemoveInv, LawfulInv, [RemoveNext]_<<vars, removeVars>>
  PROVE  LawfulInv'
  <1>1. CASE UNCHANGED <<vars, removeVars>>
    <2>1. UNCHANGED <<FM, phase, Modifications, next, undefined, rest, Recursive, call,
                      NotDeletedFeatures, asked, before>>
      BY <1>1 DEF vars, removeVars
    <2>2. (Lawful' <=> Lawful) /\ Clear' = Clear /\ Wanted' = Wanted
      BY <2>1 DEF Lawful, Clear, Wanted
    <2>3. RemovesWhatItCan' <=> RemovesWhatItCan
      BY <2>1, <2>2 DEF RemovesWhatItCan, Returned
    <2>4. /\ PendingIndex' = PendingIndex
          /\ \A i : PendingRef(i)' = PendingRef(i)
          /\ \A f : Alone(f)' <=> Alone(f)
          /\ \A ref : Target(ref)' = Target(ref)
      BY <2>1, <2>2 DEF PendingIndex, PendingRef, Alone, Target
    <2>5. Pending' = Pending
      BY <2>4 DEF Pending
    <2>6. \A ref : Alone(Target(ref))' <=> Alone(Target(ref))
      BY <2>1, <2>2 DEF Alone, Target
    <2> QED
      BY <2>1, <2>2, <2>3, <2>4, <2>5, <2>6 DEF LawfulInv
  <1>2. CASE RoundOnFreed
    <2>1. Lawful' <=> Lawful
      BY <1>2 DEF RoundOnFreed, removeVars, Lawful
    <2>2. Lawful => FALSE
      <3>1. call = "round" /\ ~(Listed(FM, rest) \subseteq FM.features)
        BY <1>2 DEF RoundOnFreed
      <3> QED
        BY <3>1, RoundSees
    <2> QED
      BY <2>1, <2>2 DEF LawfulInv
  <1>3. CASE \E list \in Lists, recursive \in BOOLEAN : removeFeatures(list, recursive)
    BY <1>3, CallKeepsLawful
  <1>4. CASE Round \/ Return \/ NextRound
    BY <1>4, RoundKeepsLawful, ReturnKeepsLawful, NextRoundKeepsLawful
  <1>5. CASE Step(Trans) /\ UNCHANGED removeVars
    BY <1>5, ExecuteKeepsLawful, FinishKeepsLawful DEF Step
  <1> QED
    BY <1>1, <1>2, <1>3, <1>4, <1>5 DEF RemoveNext

\* removeFeatures: a lawful list is worked off completely, and the rest of it is handed back.
THEOREM RemovesWhatItCanHolds == RemoveSpec => []RemovesWhatItCan
  <1>1. RemoveInit => RemoveInv /\ LawfulInv
    BY RemoveInitially, LawfulInitially
  <1>2. RemoveInv /\ LawfulInv /\ [RemoveNext]_<<vars, removeVars>> => (RemoveInv /\ LawfulInv)'
    BY RemoveInductive, LawfulInductive
  <1>3. RemoveInv /\ LawfulInv => RemovesWhatItCan
    BY DEF LawfulInv, RemovesWhatItCan, Returned
  <1> QED
    BY <1>1, <1>2, <1>3, PTL DEF RemoveSpec

===============================================================================
