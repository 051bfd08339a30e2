----------------------- MODULE FeatureModelBuilder_proofs -----------------------
(***************************************************************************)
(* A builder executes three queues one after the other, so that each finds *)
(* what it refers to: what is asked for is built, in whatever order the    *)
(* calls came, unless the calls contradict each other.                     *)
(***************************************************************************)
EXTENDS FeatureModelBuilder, ClientRules_proofs

(* What the first k calls of a queue ask for *)

IsLast(i, S) == i \in S /\ \A j \in S : j <= i

RootsIn(q, k) == {i \in 1..k : q[i].op = "SetRoot"}
MadeBy(q, k) == {q[i].feature : i \in {j \in 1..k : q[j].op = "AddFeature"}}
EdgesTo(q, n, k) == {i \in 1..k : q[i].op = "AddChild" /\ q[i].child = n}
GroupsIn(q, k) == {i \in 1..k : q[i].op = "AddRelationship"}
ConstraintsIn(q, k) == {i \in 1..k : q[i].op = "AddConstraint"}

IsRootName(n, q, k) ==
  IF RootsIn(q, k) = {} THEN \E new \in InitialModels : n = NameOf[new.root]
  ELSE \E i \in 1..k : IsLast(i, RootsIn(q, k)) /\ n = NameOf[q[i].feature]

\* p is the parent that is named last for n, or null.
IsParentName(p, n, q, k) ==
  IF EdgesTo(q, n, k) = {} THEN p = Nil
  ELSE \E i \in 1..k : IsLast(i, EdgesTo(q, n, k)) /\ p = q[i].parent

-------------------------------------------------------------------------------
(* What a model looks like when a commit has executed k calls *)

\* The feature, or null, above a node, over at most one relationship.
Up(m, n) == IF m.parent[n] \in Relationship THEN m.parent[m.parent[n]] ELSE m.parent[n]

\* All features hang below the root.
Star(m) ==
  /\ m \in Model
  /\ m.root \in m.features \cap RootFeature
  /\ m.relationships = {} /\ m.constraints = {} /\ m.bound = {}
  /\ \A n \in Node : m.parent[n] = IF n \in m.features \ {m.root} THEN m.root ELSE Nil
  /\ m.edges = {m.root} \X (m.features \ {m.root})
  /\ \A f, g \in m.features : NameOf[f] = NameOf[g] => f = g

FeaturesMade(q, m, k) ==
  /\ Star(m)
  /\ m.features \ {m.root} = MadeBy(q, k)
  /\ IsRootName(NameOf[m.root], q, k)
  /\ \A i \in k+1..Len(q) : q[i].feature \notin m.features

\* The features are the ones that were asked for.
Settled(q, m) ==
  /\ m \in Model
  /\ m.root \in m.features
  /\ NamesIdentify(m)
  /\ m.features \ {m.root} = MadeBy(q, Len(q))
  /\ IsRootName(NameOf[m.root], q, Len(q))

\* p is the feature named n, or what a feature f has above it when no parent is named.
IsNamed(m, f, p, n) ==
  IF n = Nil THEN p = (IF f = m.root THEN Nil ELSE m.root)
  ELSE p \in m.features /\ NameOf[p] = n

TreeMade(fq, q, m, k) ==
  /\ Settled(fq, m)
  /\ m.relationships = {} /\ m.constraints = {} /\ m.bound = {}
  /\ EdgesMatchParents(m)
  /\ \A f \in m.features : \E n \in Name \cup {Nil} :
        IsParentName(n, NameOf[f], q, k) /\ IsNamed(m, f, m.parent[f], n)

\* Features keep an edge from a group they were taken out of.
EdgesClimb(m) ==
  /\ \A e \in m.edges :
       /\ e[1] \in Live(m) /\ e[2] \in Live(m)
       /\ e[2] \in Relationship => m.parent[e[2]] = e[1]
       /\ e[2] \in Feature =>
            Up(m, e[2]) = IF e[1] \in Relationship THEN m.parent[e[1]] ELSE e[1]
  /\ \A n \in Live(m) : m.parent[n] # Nil => <<m.parent[n], n>> \in m.edges

RelationsMade(fq, parents, q, m, k) ==
  /\ Settled(fq, m)
  /\ \A f \in m.features : IsNamed(m, f, Up(m, f), parents[NameOf[f]])
  /\ EdgesClimb(m)
  /\ m.relationships = {q[i].relationship : i \in GroupsIn(q, k)}
  /\ \A r \in m.relationships : m.parent[r] \in m.features
  /\ \A i \in GroupsIn(q, k) : NameOf[m.parent[q[i].relationship]] = q[i].ref
  /\ \A i \in k+1..Len(q) : q[i].op = "AddRelationship" => q[i].relationship \notin m.relationships
  /\ \A i \in ConstraintsIn(q, k) : \A n \in Mentions[q[i].constraint] :
       \E f \in m.features : NameOf[f] = n /\ <<q[i].constraint, f>> \in m.bound

\* The groups are alone below their features.
GroupsTakeAll(m) == WellFormed(m) /\ \A r \in m.relationships : Targets(m, {m.parent[r]}) = {r}

-------------------------------------------------------------------------------
(* The inductive invariant *)

FQ == Modifications[FeatureBuilder]
MQ == Modifications[ModelBuilder]
RQ == Modifications[RelationBuilder]

\* A transaction only holds calls of its kind, and owns each object once.
QueuesKept ==
  /\ DOMAIN Modifications = Transaction
  /\ FQ \in Seq(FeatureCalls) /\ MQ \in Seq(ModelCalls) /\ RQ \in Seq(RelationCalls)
  /\ \A i, j \in 1..Len(FQ) : FQ[i].feature = FQ[j].feature => i = j
  /\ \A i, j \in GroupsIn(RQ, Len(RQ)) : RQ[i].relationship = RQ[j].relationship => i = j
  /\ Parents \in [Name -> Name \cup {Nil}]
  /\ \A n \in Name : IsParentName(Parents[n], n, MQ, Len(MQ))

Waiting(t) == phase[t] = "open" /\ next[t] = 1
Committing(t) == phase[t] = "committing" /\ next[t] \in 1..Len(Modifications[t]) + 1
Succeeded(t) == phase[t] = "closed" /\ result[t] = "OK"
Failed(t) == phase[t] = "closed" /\ result[t] # "OK" /\ ~Consistent

StageKept ==
  /\ stage \in Stage
  /\ undefined => stage = "relations" /\ ~Consistent
  /\ stage = "asking" =>
       /\ \A t \in Transaction : Waiting(t)
       /\ FeaturesMade(FQ, FM, 0)
       /\ \E new \in InitialModels : FM.root = new.root
  /\ stage = "features" =>
       /\ Waiting(ModelBuilder) /\ Waiting(RelationBuilder)
       /\ \/ Committing(FeatureBuilder) /\ FeaturesMade(FQ, FM, next[FeatureBuilder] - 1)
          \/ Succeeded(FeatureBuilder) /\ FeaturesMade(FQ, FM, Len(FQ)) /\ NamesIdentify(FM)
          \/ Failed(FeatureBuilder)
  /\ stage = "tree" =>
       /\ phase[FeatureBuilder] = "closed" /\ Waiting(RelationBuilder)
       /\ \/ Committing(ModelBuilder) /\ TreeMade(FQ, MQ, FM, next[ModelBuilder] - 1)
          \/ Succeeded(ModelBuilder) /\ TreeMade(FQ, MQ, FM, Len(MQ))
          \/ Failed(ModelBuilder)
  /\ stage = "relations" =>
       /\ phase[FeatureBuilder] = "closed" /\ phase[ModelBuilder] = "closed"
       /\ \/ undefined
          \/ /\ Committing(RelationBuilder)
             /\ RelationsMade(FQ, Parents, RQ, FM, next[RelationBuilder] - 1)
             /\ TreeLike => GroupsTakeAll(FM)
          \/ /\ Succeeded(RelationBuilder)
             /\ RelationsMade(FQ, Parents, RQ, FM, Len(RQ))
             /\ TreeLike => GroupsTakeAll(FM)
          \/ Failed(RelationBuilder)
  /\ stage \in {"built", "failed"} => \A t \in Transaction : phase[t] = "closed"
  /\ stage = "built" => RelationsMade(FQ, Parents, RQ, FM, Len(RQ)) /\ (TreeLike => GroupsTakeAll(FM))
  /\ stage = "failed" => ~Consistent

\* clone asks for each object of the original once.
CloneKept ==
  /\ source = Nil => cloned = {}
  /\ source # Nil =>
       /\ source \in Originals
       /\ cloned \subseteq Live(source) \cup source.constraints
       /\ \A i \in 1..Len(FQ) : FQ[i].feature \in {Twin[f] : f \in cloned \cap source.features}
       /\ \A i \in GroupsIn(RQ, Len(RQ)) :
            RQ[i].relationship \in {Twin[r] : r \in cloned \cap source.relationships}

BuilderInv ==
  /\ phase \in [Transaction -> Phase]
  /\ next \in [Transaction -> Nat]
  /\ result \in [Transaction -> Result]
  /\ QueuesKept
  /\ StageKept
  /\ CloneKept

-------------------------------------------------------------------------------
(* Queues *)

\* The three transactions are all there are.
LEMMA Transactions ==
  /\ Transaction = {FeatureBuilder, ModelBuilder, RelationBuilder}
  /\ FeatureBuilder # ModelBuilder /\ ModelBuilder # RelationBuilder
  /\ RelationBuilder # FeatureBuilder
  BY BuilderAssumption

\* What a call of each kind carries.
LEMMA CallFields ==
  /\ \A mod \in FeatureCalls :
       /\ mod.op \in {"AddFeature", "SetRoot"} /\ mod.feature \in Feature
       /\ mod.op = "AddFeature" => mod.parent = Nil
       /\ mod.op = "SetRoot" => mod.feature \in RootFeature
  /\ \A mod \in ModelCalls :
       /\ mod.op \in {"AddChild", "SetInfo"}
       /\ mod.op = "AddChild" => mod.parent \in Name /\ mod.child \in Name
       /\ mod.op = "SetInfo" => mod.field \in InfoField /\ mod.text \in Text
  /\ \A mod \in RelationCalls :
       /\ mod.op \in {"AddRelationship", "AddConstraint"}
       /\ mod.op = "AddRelationship" => mod.relationship \in Relationship /\ mod.ref \in Name
       /\ mod.op = "AddConstraint" => mod.constraint \in Constraint
  BY ConstantsAssumption DEF FeatureCalls, ModelCalls, RelationCalls

\* The position of the last call of a kind is the greatest.
LEMMA LastIsMax ==
  ASSUME NEW S \in SUBSET Int, NEW i \in S, IsLast(i, S)
  PROVE  Max(S) = i
  <1>1. \A y \in S : i >= y
    BY DEF IsLast
  <1>2. \A x \in S : (\A y \in S : x >= y) => x = i
    BY DEF IsLast
  <1> QED
    BY <1>1, <1>2 DEF Max

\* There is one last position at most.
LEMMA LastIsOne ==
  ASSUME NEW S \in SUBSET Int, NEW i \in S, NEW j \in S, IsLast(i, S), IsLast(j, S)
  PROVE  i = j
  BY DEF IsLast

\* A queue gives a name one parent at most.
LEMMA ParentNameIsOne ==
  ASSUME NEW q, NEW k \in Nat, NEW n, NEW x, NEW y,
         IsParentName(x, n, q, k), IsParentName(y, n, q, k)
  PROVE  x = y
  <1> DEFINE S == EdgesTo(q, n, k)
  <1>1. S \in SUBSET Int
    BY DEF EdgesTo
  <1>2. CASE S = {}
    BY <1>2 DEF IsParentName
  <1>3. CASE S # {}
    <2>1. PICK i \in 1..k : IsLast(i, S) /\ x = q[i].parent
      BY <1>3 DEF IsParentName
    <2>2. PICK j \in 1..k : IsLast(j, S) /\ y = q[j].parent
      BY <1>3 DEF IsParentName
    <2>3. i \in S /\ j \in S
      BY <2>1, <2>2 DEF IsLast
    <2> HIDE DEF S
    <2>4. i = j
      BY <1>1, <2>1, <2>2, <2>3, LastIsOne
    <2> QED
      BY <2>1, <2>2, <2>4
  <1> QED
    BY <1>2, <1>3

\* One call more, the call at k + 1.
LEMMA OneMoreIs ==
  ASSUME NEW k \in Nat
  PROVE  1..(k + 1) = (1..k) \cup {k + 1} /\ k + 1 \notin 1..k
  OBVIOUS

\* One more call names the root if it is makeRoot.
LEMMA OneMoreRoot ==
  ASSUME NEW q, NEW k \in Nat, NEW n, IsRootName(n, q, k)
  PROVE  /\ q[k + 1].op = "SetRoot" => IsRootName(NameOf[q[k + 1].feature], q, k + 1)
         /\ q[k + 1].op # "SetRoot" => IsRootName(n, q, k + 1)
  <1> DEFINE S == RootsIn(q, k)
             T == RootsIn(q, k + 1)
  <1>1. CASE q[k + 1].op = "SetRoot"
    <2>1. k + 1 \in T /\ \A j \in T : j <= k + 1
      BY <1>1 DEF RootsIn
    <2> QED
      BY <1>1, <2>1 DEF IsRootName, IsLast
  <1>2. CASE q[k + 1].op # "SetRoot"
    <2>1. T = S
      BY <1>2, OneMoreIs DEF RootsIn
    <2>2. 1..k \subseteq 1..(k + 1)
      BY OneMoreIs
    <2> QED
      BY <1>2, <2>1, <2>2 DEF IsRootName
  <1> QED
    BY <1>1, <1>2

\* One more call names the parent of a feature if it is addEdge for that feature.
LEMMA OneMoreEdge ==
  ASSUME NEW q, NEW k \in Nat, NEW n, NEW p, IsParentName(p, n, q, k)
  PROVE  /\ q[k + 1].op = "AddChild" /\ q[k + 1].child = n => IsParentName(q[k + 1].parent, n, q, k + 1)
         /\ ~(q[k + 1].op = "AddChild" /\ q[k + 1].child = n) => IsParentName(p, n, q, k + 1)
  <1> DEFINE S == EdgesTo(q, n, k)
             T == EdgesTo(q, n, k + 1)
  <1>1. CASE q[k + 1].op = "AddChild" /\ q[k + 1].child = n
    <2>1. k + 1 \in T /\ \A j \in T : j <= k + 1
      BY <1>1 DEF EdgesTo
    <2> QED
      BY <1>1, <2>1 DEF IsParentName, IsLast
  <1>2. CASE ~(q[k + 1].op = "AddChild" /\ q[k + 1].child = n)
    <2>1. T = S
      BY <1>2, OneMoreIs DEF EdgesTo
    <2>2. 1..k \subseteq 1..(k + 1)
      BY OneMoreIs
    <2> QED
      BY <1>2, <2>1, <2>2 DEF IsParentName
  <1> QED
    BY <1>1, <1>2

\* One more call makes a feature if it is makeFeature.
LEMMA OneMoreMade ==
  ASSUME NEW q, NEW k \in Nat
  PROVE  MadeBy(q, k + 1) = IF q[k + 1].op = "AddFeature" THEN MadeBy(q, k) \cup {q[k + 1].feature}
                            ELSE MadeBy(q, k)
  BY OneMoreIs DEF MadeBy

\* Each queue holds calls of its kind.
LEMMA QueuedCalls ==
  ASSUME QueuesKept
  PROVE  /\ \A i \in 1..Len(FQ) :
              FQ[i] \in FeatureCalls /\ FQ[i].op \in {"AddFeature", "SetRoot"} /\ FQ[i].feature \in Feature
         /\ \A i \in 1..Len(MQ) : MQ[i] \in ModelCalls /\ MQ[i].op \in {"AddChild", "SetInfo"}
         /\ \A i \in 1..Len(RQ) :
              RQ[i] \in RelationCalls /\ RQ[i].op \in {"AddRelationship", "AddConstraint"}
  <1>1. /\ \A i \in 1..Len(FQ) : FQ[i] \in FeatureCalls
        /\ \A i \in 1..Len(MQ) : MQ[i] \in ModelCalls
        /\ \A i \in 1..Len(RQ) : RQ[i] \in RelationCalls
    BY DEF QueuesKept
  <1> QED
    BY <1>1, CallFields

\* What was asked for, found in the queues.
LEMMA AskedAre ==
  ASSUME QueuesKept
  PROVE  /\ AskedFeatures = MadeBy(FQ, Len(FQ))
         /\ Asked("SetRoot") = {FQ[i] : i \in RootsIn(FQ, Len(FQ))}
         /\ Asked("AddChild") = {MQ[i] : i \in {j \in 1..Len(MQ) : MQ[j].op = "AddChild"}}
         /\ Asked("AddRelationship") = {RQ[i] : i \in GroupsIn(RQ, Len(RQ))}
         /\ Asked("AddConstraint") = {RQ[i] : i \in ConstraintsIn(RQ, Len(RQ))}
  <1> DEFINE F == {FQ[i] : i \in 1..Len(FQ)}
             M == {MQ[i] : i \in 1..Len(MQ)}
             R == {RQ[i] : i \in 1..Len(RQ)}
  <1>1. Queued = F \cup M \cup R
    BY Transactions DEF Queued, FQ, MQ, RQ
  <1>2. /\ \A i \in 1..Len(FQ) : FQ[i] \in FeatureCalls
        /\ \A i \in 1..Len(MQ) : MQ[i] \in ModelCalls
        /\ \A i \in 1..Len(RQ) : RQ[i] \in RelationCalls
    BY DEF QueuesKept
  <1>3. /\ \A i \in 1..Len(FQ) : FQ[i].op \in {"AddFeature", "SetRoot"}
        /\ \A i \in 1..Len(MQ) : MQ[i].op \in {"AddChild", "SetInfo"}
        /\ \A i \in 1..Len(RQ) : RQ[i].op \in {"AddRelationship", "AddConstraint"}
    BY <1>2, CallFields
  <1>4. Asked("AddFeature") = {FQ[i] : i \in {j \in 1..Len(FQ) : FQ[j].op = "AddFeature"}}
    BY <1>1, <1>3 DEF Asked
  <1>5. AskedFeatures = MadeBy(FQ, Len(FQ))
    BY <1>4 DEF AskedFeatures, MadeBy
  <1>6. Asked("SetRoot") = {FQ[i] : i \in RootsIn(FQ, Len(FQ))}
    BY <1>1, <1>3 DEF Asked, RootsIn
  <1>7. Asked("AddChild") = {MQ[i] : i \in {j \in 1..Len(MQ) : MQ[j].op = "AddChild"}}
    BY <1>1, <1>3 DEF Asked
  <1>8. Asked("AddRelationship") = {RQ[i] : i \in GroupsIn(RQ, Len(RQ))}
    BY <1>1, <1>3 DEF Asked, GroupsIn
  <1>9. Asked("AddConstraint") = {RQ[i] : i \in ConstraintsIn(RQ, Len(RQ))}
    BY <1>1, <1>3 DEF Asked, ConstraintsIn
  <1> QED
    BY <1>5, <1>6, <1>7, <1>8, <1>9

\* All default roots have one name.
LEMMA DefaultNameIs ==
  ASSUME NEW new \in InitialModels
  PROVE  NameOf[(CHOOSE m \in InitialModels : TRUE).root] = NameOf[new.root]
  BY BuilderAssumption

\* The last makeRoot in the queue gives the name of the root.
LEMMA RootNameIs ==
  ASSUME QueuesKept, NEW n, IsRootName(n, FQ, Len(FQ))
  PROVE  RootName = n
  <1> DEFINE S == RootsIn(FQ, Len(FQ))
  <1>1. /\ S = {i \in 1..Len(FQ) : FQ[i].op = "SetRoot"}
        /\ RootName = IF S = {} THEN NameOf[(CHOOSE m \in InitialModels : TRUE).root]
                      ELSE NameOf[FQ[Max(S)].feature]
    BY DEF RootName, RootsIn, FQ
  <1>2. CASE S = {}
    BY <1>1, <1>2, DefaultNameIs DEF IsRootName
  <1>3. CASE S # {}
    <2>1. PICK i \in 1..Len(FQ) : IsLast(i, S) /\ n = NameOf[FQ[i].feature]
      BY <1>3 DEF IsRootName
    <2>2. i \in S /\ S \in SUBSET Int
      BY <2>1, <1>1 DEF IsLast
    <2> HIDE DEF S
    <2>3. Max(S) = i
      BY <2>1, <2>2, LastIsMax
    <2> QED
      BY <1>1, <1>3, <2>1, <2>3
  <1> QED
    BY <1>2, <1>3

\* A name the root has had after any number of calls is one of RootNames.
LEMMA RootNamesAre ==
  ASSUME QueuesKept, NEW k \in 0..Len(FQ), NEW n, IsRootName(n, FQ, k)
  PROVE  n \in RootNames
  <1>1. CASE RootsIn(FQ, k) = {}
    BY <1>1 DEF IsRootName, RootNames
  <1>2. CASE RootsIn(FQ, k) # {}
    <2>1. PICK i \in 1..k : IsLast(i, RootsIn(FQ, k)) /\ n = NameOf[FQ[i].feature]
      BY <1>2 DEF IsRootName
    <2>2. i \in RootsIn(FQ, Len(FQ))
      <3>1. 1..k \subseteq 1..Len(FQ)
        BY DEF QueuesKept
      <3> QED
        BY <2>1, <3>1 DEF IsLast, RootsIn
    <2>3. FQ[i] \in Asked("SetRoot")
      BY <2>2, AskedAre
    <2> QED
      BY <2>1, <2>3 DEF RootNames
  <1> QED
    BY <1>1, <1>2

\* The names of the finished features are the names that calls may refer to.
LEMMA KnownNamesAre ==
  ASSUME QueuesKept, NEW m, Settled(FQ, m)
  PROVE  /\ RootName = NameOf[m.root]
         /\ AskedFeatures = m.features \ {m.root}
         /\ KnownNames = {NameOf[f] : f \in m.features}
  <1>1. RootName = NameOf[m.root]
    BY RootNameIs DEF Settled
  <1>2. AskedFeatures = m.features \ {m.root} /\ m.root \in m.features
    BY AskedAre DEF Settled
  <1> QED
    BY <1>1, <1>2 DEF KnownNames

-------------------------------------------------------------------------------
(* The consistency check, on a model whose features climb over one group at most *)

\* getParentFeature climbs over one group at most.
LEMMA ClimbIs ==
  ASSUME NEW m \in Model, NEW f \in Feature, Up(m, f) \in Feature \cup {Nil}
  PROVE  /\ RelationshipsAbove(m, f) \subseteq {m.parent[f]} \cap Relationship
         /\ ParentFeature(m, f) = Up(m, f)
         /\ \A x \in {f} \cup RelationshipsAbove(m, f) : x \notin RelationshipsAbove(m, x)
  <1> DEFINE p == m.parent[f]
  <1>1. f \notin Relationship /\ Nil \notin Relationship /\ Feature \cap Relationship = {} /\ Nil \notin Feature
    BY ConstantsAssumption DEF Node
  <1>2. CASE p \notin Relationship
    <2>1. RelationshipsAbove(m, f) = {}
      BY <1>2, NothingAbove
    <2>2. p \in Feature \cup {Nil} /\ Up(m, f) = p
      BY <1>2 DEF Up
    <2>3. ParentFeature(m, f) = p
      BY <2>1, <2>2 DEF ParentFeature
    <2> QED
      BY <2>1, <2>2, <2>3
  <1>3. CASE p \in Relationship
    <2> DEFINE q == m.parent[p]
    <2>1. q \in Feature \cup {Nil} /\ Up(m, f) = q /\ q \notin Relationship
      BY <1>1, <1>3 DEF Up
    <2>2. RelationshipsAbove(m, f) = {p}
      <3>1. p \in RelationshipsAbove(m, f)
        BY <1>3 DEF RelationshipsAbove
      <3>2. \A x \in {f} \cup {p} : m.parent[x] \in Relationship => m.parent[x] \in {p}
        BY <2>1
      <3>3. RelationshipsAbove(m, f) \subseteq {p}
        BY <1>3, <3>2 DEF RelationshipsAbove
      <3> QED
        BY <3>1, <3>3
    <2>3. RelationshipsAbove(m, p) = {}
      BY <2>1, NothingAbove
    <2>4. p \notin Feature \cup {Nil}
      BY <1>1, <1>3
    <2>5. ParentFeature(m, f) = q
      BY <2>1, <2>2, <2>4 DEF ParentFeature
    <2> QED
      BY <1>1, <1>3, <2>1, <2>2, <2>3, <2>5
  <1> QED
    BY <1>2, <1>3

\* A model with one root whose other features have a feature above them is accepted.
LEMMA ShallowIsValid ==
  ASSUME NEW m \in Model, m.root \in m.features, m.features \cap RootFeature = {m.root},
         \A f \in m.features \ {m.root} :
           /\ m.parent[f] \in Live(m) /\ <<m.parent[f], f>> \in m.edges
           /\ Up(m, f) \in m.features,
         \A r \in m.relationships : m.parent[r] \in m.features
  PROVE  CheckIsSafe(m, Live(m)) /\ IsFeatureModelValid(m)
  <1>1. m.features \ RootFeature = m.features \ {m.root}
    OBVIOUS
  <1>2. ExactlyOneRootNode(m) /\ m.root \in Live(m)
    BY DEF ExactlyOneRootNode, Live
  <1>3. ASSUME NEW f \in m.features \ {m.root}
        PROVE  /\ ParentFeature(m, f) # Nil
               /\ \A x \in {f} \cup RelationshipsAbove(m, f) :
                    /\ m.parent[x] \in Live(m) \cup {Nil}
                    /\ x \notin RelationshipsAbove(m, x)
    <2>1. f \in Feature /\ Up(m, f) \in Feature /\ Up(m, f) # Nil
      <3>1. m.features \subseteq Feature /\ Nil \notin m.features
        BY ModelFields, ConstantsAssumption DEF Node
      <3> QED
        BY <1>3, <3>1
    <2>2. /\ RelationshipsAbove(m, f) \subseteq {m.parent[f]} \cap Relationship
          /\ ParentFeature(m, f) = Up(m, f)
          /\ \A x \in {f} \cup RelationshipsAbove(m, f) : x \notin RelationshipsAbove(m, x)
      BY <2>1, ClimbIs
    <2>3. \A x \in RelationshipsAbove(m, f) : m.parent[x] \in Live(m)
      BY <1>3, <2>2 DEF Up, Live
    <2> QED
      BY <1>3, <2>1, <2>2, <2>3
  <1> QED
    BY <1>1, <1>2, <1>3 DEF CheckIsSafe, IsFeatureModelValid, EveryFeatureRequiresParent,
                            CheckFeatureParentChildRelationShip

\* When all features hang below the root the consistency check is defined, and asks for names that identify.
LEMMA StarIsSafe ==
  ASSUME NEW m, Star(m)
  PROVE  CheckIsSafe(m, Live(m)) /\ (IsFeatureModelValid(m) <=> NamesIdentify(m))
  <1>1. m \in Model /\ m.root \in m.features \cap RootFeature
    BY DEF Star
  <1>2. CASE m.features \cap RootFeature = {m.root}
    <2>1. ASSUME NEW f \in m.features \ {m.root}
          PROVE  m.parent[f] = m.root /\ <<m.root, f>> \in m.edges
      BY <1>1, ModelFields DEF Star, Node
    <2>2. m.root \in Live(m) /\ m.root \notin Relationship
      BY <1>1, ModelFields, ConstantsAssumption DEF Live
    <2>3. m.relationships = {}
      BY DEF Star
    <2>4. CheckIsSafe(m, Live(m)) /\ IsFeatureModelValid(m)
      BY <1>1, <1>2, <2>1, <2>2, <2>3, ShallowIsValid DEF Up
    <2> QED
      BY <1>2, <2>4 DEF NamesIdentify, Star
  <1>3. CASE m.features \cap RootFeature # {m.root}
    <2>1. ~ ExactlyOneRootNode(m)
      BY <1>1, <1>3 DEF ExactlyOneRootNode
    <2> QED
      BY <1>1, <1>3, <2>1 DEF CheckIsSafe, IsFeatureModelValid, NamesIdentify, Live
  <1> QED
    BY <1>2, <1>3

-------------------------------------------------------------------------------
(* The commit of the features *)

\* A new feature hangs below the root.
LEMMA InsertKeepsStar ==
  ASSUME NEW m, Star(m), NEW f \in Feature, f \notin m.features,
         \A g \in m.features : NameOf[g] # NameOf[f]
  PROVE  LET n2 == Insert(m, f, m.root) IN
         Star(n2) /\ n2.root = m.root /\ n2.features = m.features \cup {f}
  <1> DEFINE n2 == Insert(m, f, m.root)
  <1>1. m \in Model /\ m.root \in m.features \cap RootFeature /\ m.features \subseteq Feature
    BY ModelFields DEF Star
  <1>2. m.root \in Node /\ f \in Node /\ m.root # f
    BY <1>1 DEF Node
  <1>3. /\ n2 \in Model /\ n2.features = m.features \cup {f} /\ n2.relationships = m.relationships
        /\ n2.root = m.root /\ n2.parent = [m.parent EXCEPT ![f] = m.root]
        /\ n2.edges = m.edges \cup {<<m.root, f>>}
        /\ n2.constraints = m.constraints /\ n2.bound = m.bound
    BY <1>1, <1>2, InsertType
  <1> HIDE DEF n2
  <1>4. n2.features \ {n2.root} = (m.features \ {m.root}) \cup {f}
    BY <1>2, <1>3
  <1>5. n2.edges = {n2.root} \X (n2.features \ {n2.root})
    BY <1>3, <1>4 DEF Star
  <1>6. \A n \in Node : n2.parent[n] = IF n \in n2.features \ {n2.root} THEN n2.root ELSE Nil
    <2>1. \A n \in Node : n2.parent[n] = IF n = f THEN m.root ELSE m.parent[n]
      BY <1>1, <1>3, ModelFields
    <2> QED
      BY <1>3, <1>4, <2>1 DEF Star
  <1>7. \A g, h \in n2.features : NameOf[g] = NameOf[h] => g = h
    BY <1>3 DEF Star
  <1>8. n2.relationships = {} /\ n2.constraints = {} /\ n2.bound = {}
    BY <1>3 DEF Star
  <1>9. Star(n2)
    BY <1>1, <1>3, <1>5, <1>6, <1>7, <1>8 DEF Star
  <1> QED
    BY <1>3, <1>9 DEF n2

\* A new root takes the place of the old one.
LEMMA RootReplacedKeepsStar ==
  ASSUME NEW m, Star(m), NEW f \in RootFeature, f \notin m.features,
         \A g \in m.features : NameOf[g] # NameOf[f]
  PROVE  LET n2 == RootReplaced(m, f) IN
         /\ Star(n2) /\ n2.root = f /\ n2.features = (m.features \ {m.root}) \cup {f}
         /\ Targets(m, {m.root}) \subseteq Live(m)
  <1> DEFINE n2 == RootReplaced(m, f)
             children == Targets(m, {m.root})
  <1>1. /\ m \in Model /\ m.root \in m.features \cap RootFeature /\ m.features \subseteq Feature
        /\ f \in Feature
    BY ModelFields, ConstantsAssumption DEF Star
  <1>2. m.root \in Node /\ f \in Node /\ m.root # f /\ m.features \subseteq Node
    BY <1>1 DEF Node
  <1>3. children = m.features \ {m.root}
    BY <1>1, <1>2 DEF Targets, Star
  <1>4. /\ n2 \in Model /\ n2.features = (m.features \cup {f}) \ {m.root}
        /\ n2.relationships = m.relationships \ {m.root} /\ n2.root = f
        /\ n2.parent = [n \in Node |-> IF n = m.root THEN Nil ELSE IF n \in children THEN f ELSE m.parent[n]]
        /\ n2.edges = {e \in m.edges \cup ({f} \X children) : e[1] \notin {m.root}}
        /\ n2.constraints = m.constraints /\ n2.bound = m.bound
    BY <1>1, RootReplacedType
  <1> HIDE DEF n2, children
  <1>5. n2.features \ {n2.root} = children
    BY <1>1, <1>2, <1>3, <1>4
  <1>6. n2.edges = {f} \X children
    <2>1. m.edges = {m.root} \X children
      BY <1>3 DEF Star
    <2> QED
      BY <1>2, <1>4, <2>1
  <1>7. \A n \in Node : n2.parent[n] = IF n \in n2.features \ {n2.root} THEN n2.root ELSE Nil
    BY <1>3, <1>4, <1>5 DEF Star
  <1>8. n2.relationships = {} /\ n2.constraints = {} /\ n2.bound = {}
    BY <1>4 DEF Star
  <1>9. \A g, h \in n2.features : NameOf[g] = NameOf[h] => g = h
    BY <1>4 DEF Star
  <1>10. children \subseteq Live(m) /\ n2.features = (m.features \ {m.root}) \cup {f}
    BY <1>2, <1>3, <1>4 DEF Live
  <1>11. Star(n2)
    BY <1>1, <1>2, <1>4, <1>5, <1>6, <1>7, <1>8, <1>9 DEF Star
  <1> QED
    BY <1>4, <1>10, <1>11 DEF n2, children

\* Two features of one name were asked for, or one with a name of the root.
LEMMA NameClash ==
  ASSUME QueuesKept, NEW k \in 0..(Len(FQ) - 1), NEW m, FeaturesMade(FQ, m, k),
         GetFeature(m, NameOf[FQ[k + 1].feature]) # Nil,
         FQ[k + 1].op = "SetRoot" => NameOf[m.root] # NameOf[FQ[k + 1].feature]
  PROVE  ~Consistent
  <1> DEFINE mod == FQ[k + 1]
             f == mod.feature
  <1>1. k \in 0..Len(FQ) /\ k + 1 \in 1..Len(FQ) /\ Len(FQ) \in Nat /\ 1..k \subseteq 1..Len(FQ)
    BY DEF QueuesKept
  <1>2. mod \in FeatureCalls /\ mod.op \in {"AddFeature", "SetRoot"} /\ f \in Feature
    BY <1>1, QueuedCalls
  <1>3. PICK g \in m.features : NameOf[g] = NameOf[f]
    <2>1. m \in Model
      BY DEF FeaturesMade, Star
    <2> QED
      BY <2>1, GetFeatureFinds
  <1>4. f \notin m.features
    BY <1>1 DEF FeaturesMade
  <1>5. MadeBy(FQ, k) \subseteq AskedFeatures
    <2>1. MadeBy(FQ, k) \subseteq MadeBy(FQ, Len(FQ))
      BY <1>1 DEF MadeBy
    <2> QED
      BY <2>1, AskedAre
  <1>6. g = m.root \/ g \in AskedFeatures
    BY <1>3, <1>5 DEF FeaturesMade
  <1>7. NameOf[m.root] \in RootNames
    BY <1>1, RootNamesAre DEF FeaturesMade
  <1>8. CASE mod.op = "AddFeature"
    <2>1. f \in AskedFeatures
      BY <1>1, <1>8, AskedAre DEF MadeBy
    <2> QED
      BY <1>3, <1>4, <1>6, <1>7, <2>1 DEF Consistent
  <1>9. CASE mod.op = "SetRoot"
    <2>1. NameOf[f] \in RootNames
      <3>1. mod \in Asked("SetRoot")
        BY <1>1, <1>9, AskedAre DEF RootsIn
      <3> QED
        BY <3>1 DEF RootNames
    <2>2. g \in AskedFeatures
      BY <1>3, <1>6, <1>9
    <2> QED
      BY <1>3, <2>1, <2>2 DEF Consistent
  <1> QED
    BY <1>2, <1>8, <1>9

\* The next feature is made, or the calls contradict each other.
LEMMA FeatureIsMade ==
  ASSUME QueuesKept, NEW k \in 0..(Len(FQ) - 1), NEW m, FeaturesMade(FQ, m, k),
         NEW o \in Outcomes(m, FQ[k + 1])
  PROVE  \/ o.code = "OK" /\ FeaturesMade(FQ, o.model, k + 1)
         \/ o.code \in ErrorCode /\ ~Consistent
  <1> DEFINE mod == FQ[k + 1]
             f == mod.feature
  <1>1. k \in Nat /\ k + 1 \in 1..Len(FQ) /\ Len(FQ) \in Nat
    BY DEF QueuesKept
  <1>2. mod \in FeatureCalls /\ mod.op \in {"AddFeature", "SetRoot"} /\ f \in Feature
    BY <1>1, QueuedCalls
  <1>3. /\ m \in Model /\ m.root \in m.features \cap RootFeature /\ m.root # Nil /\ m.root \in Live(m)
        /\ Star(m) /\ f \notin m.features
    BY <1>1, ModelFields, ConstantsAssumption DEF FeaturesMade, Star, Live, Node
  <1>4. \A i \in (k + 1)+1..Len(FQ) : FQ[i].feature \notin m.features \cup {f}
    <2>1. \A i \in (k + 1)+1..Len(FQ) : i \in k+1..Len(FQ) /\ i \in 1..Len(FQ) /\ i # k + 1
      BY <1>1
    <2> QED
      BY <1>1, <2>1 DEF FeaturesMade, QueuesKept
  <1>5. CASE mod.op = "AddFeature" /\ GetFeature(m, NameOf[f]) # Nil
    <2>1. Outcomes(m, mod) = Fails(m, "ALREADY_PRESENT")
      BY <1>5 DEF Outcomes, OutcomesAmong, AddFeature
    <2> QED
      BY <1>5, <2>1, NameClash DEF Fails, Outcome, ErrorCode
  <1>6. CASE mod.op = "AddFeature" /\ GetFeature(m, NameOf[f]) = Nil
    <2> DEFINE n2 == Insert(m, f, m.root)
    <2>1. mod.parent = Nil
      BY <1>2, <1>6, CallFields
    <2>2. Outcomes(m, mod) = Succeeds(n2)
      BY <1>3, <1>6, <2>1 DEF Outcomes, OutcomesAmong, AddFeature
    <2>3. \A g \in m.features : NameOf[g] # NameOf[f]
      BY <1>3, <1>6, GetFeatureFinds
    <2>4. Star(n2) /\ n2.root = m.root /\ n2.features = m.features \cup {f}
      BY <1>2, <1>3, <2>3, InsertKeepsStar
    <2>5. MadeBy(FQ, k + 1) = MadeBy(FQ, k) \cup {f}
      BY <1>1, <1>6, OneMoreMade
    <2>6. IsRootName(NameOf[m.root], FQ, k + 1)
      BY <1>1, <1>6, OneMoreRoot DEF FeaturesMade
    <2> HIDE DEF n2
    <2>7. FeaturesMade(FQ, n2, k + 1)
      BY <1>3, <1>4, <2>4, <2>5, <2>6 DEF FeaturesMade
    <2> QED
      BY <2>2, <2>7 DEF Succeeds, Outcome
  <1>7. CASE mod.op = "SetRoot"
    <2>1. f \in RootFeature /\ MadeBy(FQ, k + 1) = MadeBy(FQ, k)
      BY <1>1, <1>2, <1>7, CallFields, OneMoreMade
    <2>2. IsRootName(NameOf[f], FQ, k + 1)
      BY <1>1, <1>7, OneMoreRoot DEF FeaturesMade
    <2>3. CASE NameOf[m.root] = NameOf[f]
      <3>1. Outcomes(m, mod) = Succeeds(m)
        BY <1>3, <1>7, <2>3 DEF Outcomes, OutcomesAmong, SetRoot, Live
      <3>2. FeaturesMade(FQ, m, k + 1)
        BY <1>4, <2>1, <2>2, <2>3 DEF FeaturesMade
      <3> QED
        BY <3>1, <3>2 DEF Succeeds, Outcome
    <2>4. CASE NameOf[m.root] # NameOf[f] /\ GetFeature(m, NameOf[f]) # Nil
      <3>1. Outcomes(m, mod) = Fails(m, "ALREADY_PRESENT")
        BY <1>3, <1>7, <2>4 DEF Outcomes, OutcomesAmong, SetRoot
      <3> QED
        BY <2>4, <3>1, NameClash DEF Fails, Outcome, ErrorCode
    <2>5. CASE NameOf[m.root] # NameOf[f] /\ GetFeature(m, NameOf[f]) = Nil
      <3> DEFINE n2 == RootReplaced(m, f)
      <3>1. \A g \in m.features : NameOf[g] # NameOf[f]
        BY <1>3, <2>5, GetFeatureFinds
      <3>2. /\ Star(n2) /\ n2.root = f /\ n2.features = (m.features \ {m.root}) \cup {f}
            /\ Targets(m, {m.root}) \subseteq Live(m)
        BY <1>3, <2>1, <3>1, RootReplacedKeepsStar
      <3>3. Outcomes(m, mod) = Succeeds(n2)
        BY <1>3, <1>7, <2>5, <3>2 DEF Outcomes, OutcomesAmong, SetRoot
      <3> HIDE DEF n2
      <3>4. FeaturesMade(FQ, n2, k + 1)
        BY <1>3, <1>4, <2>1, <2>2, <3>2 DEF FeaturesMade
      <3> QED
        BY <3>3, <3>4 DEF Succeeds, Outcome
    <2> QED
      BY <2>3, <2>4, <2>5
  <1> QED
    BY <1>2, <1>5, <1>6, <1>7

\* When all are made the check finds at most that a root was asked for as a feature.
LEMMA FeaturesAreChecked ==
  ASSUME QueuesKept, NEW m, FeaturesMade(FQ, m, Len(FQ))
  PROVE  /\ CheckIsSafe(m, Live(m))
         /\ IsFeatureModelValid(m) => NamesIdentify(m)
         /\ ~IsFeatureModelValid(m) => ~Consistent
  <1>1. CheckIsSafe(m, Live(m)) /\ (IsFeatureModelValid(m) <=> NamesIdentify(m))
    BY StarIsSafe DEF FeaturesMade
  <1>2. ~NamesIdentify(m) => AskedFeatures \cap RootFeature # {}
    BY AskedAre DEF FeaturesMade, Star, NamesIdentify
  <1> QED
    BY <1>1, <1>2 DEF Consistent

-------------------------------------------------------------------------------
(* The commit of the tree *)

\* Before the first edge every feature hangs below the root.
LEMMA TreeBegins ==
  ASSUME QueuesKept, NEW m, FeaturesMade(FQ, m, Len(FQ)), NamesIdentify(m)
  PROVE  TreeMade(FQ, MQ, m, 0)
  <1>1. /\ m \in Model /\ m.root \in m.features /\ Star(m)
        /\ m.features \subseteq Feature /\ m.features \subseteq Node /\ Nil \notin m.features
    BY ModelFields, ConstantsAssumption DEF FeaturesMade, Star, Node
  <1>2. Settled(FQ, m)
    BY <1>1 DEF Settled, FeaturesMade
  <1>3. EdgesMatchParents(m)
    <2>1. \A e \in m.edges : e[1] = m.root /\ e[2] \in m.features \ {m.root}
      BY <1>1 DEF Star
    <2>2. ASSUME NEW e \in m.edges
          PROVE  e[1] \in Live(m) /\ e[2] \in Live(m) /\ m.parent[e[2]] = e[1]
      BY <1>1, <2>1, <2>2 DEF Star, Live
    <2>3. ASSUME NEW n \in Node, m.parent[n] # Nil
          PROVE  <<m.parent[n], n>> \in m.edges
      BY <1>1, <2>3 DEF Star
    <2> QED
      BY <2>2, <2>3 DEF EdgesMatchParents
  <1>4. ASSUME NEW f \in m.features
        PROVE  IsParentName(Nil, NameOf[f], MQ, 0) /\ IsNamed(m, f, m.parent[f], Nil)
    <2>1. EdgesTo(MQ, NameOf[f], 0) = {}
      BY DEF EdgesTo
    <2>2. m.parent[f] = IF f = m.root THEN Nil ELSE m.root
      BY <1>1, <1>4 DEF Star
    <2> QED
      BY <2>1, <2>2 DEF IsParentName, IsNamed
  <1> QED
    BY <1>1, <1>2, <1>3, <1>4 DEF TreeMade, Star

\* An edge between features moves one of them.
LEMMA AttachedKeepsTree ==
  ASSUME QueuesKept, NEW k \in 0..(Len(MQ) - 1), NEW m, TreeMade(FQ, MQ, m, k),
         MQ[k + 1].op = "AddChild",
         NEW p \in m.features, NameOf[p] = MQ[k + 1].parent,
         NEW c \in m.features, NameOf[c] = MQ[k + 1].child
  PROVE  TreeMade(FQ, MQ, Attached(m, p, c), k + 1)
  <1> DEFINE n2 == Attached(m, p, c)
  <1>1. /\ m \in Model /\ p \in Node /\ c \in Node /\ m.root \in m.features /\ Settled(FQ, m)
        /\ m.features \subseteq Node /\ p \in Live(m) /\ c \in Live(m) /\ EdgesMatchParents(m)
        /\ m.relationships = {} /\ m.constraints = {} /\ m.bound = {}
    BY ModelFields DEF TreeMade, Settled, Node, Live
  <1>2. /\ n2 \in Model /\ n2.features = m.features /\ n2.relationships = m.relationships
        /\ n2.root = m.root /\ n2.parent = [m.parent EXCEPT ![c] = p]
        /\ n2.edges = (m.edges \ {<<m.parent[c], c>>}) \cup {<<p, c>>}
        /\ n2.constraints = m.constraints /\ n2.bound = m.bound
    <2>1. m \in Model /\ p \in Node /\ c \in Node
      BY <1>1
    <2> QED
      BY <2>1, AttachedType
  <1> HIDE DEF n2
  <1>3. Settled(FQ, n2)
    BY <1>1, <1>2 DEF Settled, NamesIdentify
  <1>4. \A n \in Node : n2.parent[n] = IF n = c THEN p ELSE m.parent[n]
    BY <1>1, <1>2, ModelFields
  <1>5. EdgesMatchParents(n2)
    <2>1. \A e \in m.edges : e = <<e[1], e[2]>> /\ e[2] \in Node
      BY <1>1, ModelFields
    <2>2. \A e \in m.edges : e[1] \in Live(m) /\ e[2] \in Live(m) /\ m.parent[e[2]] = e[1]
      BY <1>1 DEF EdgesMatchParents
    <2>3. ASSUME NEW e \in n2.edges
          PROVE  e[1] \in Live(n2) /\ e[2] \in Live(n2) /\ n2.parent[e[2]] = e[1]
      <3>1. CASE e = <<p, c>>
        BY <1>1, <1>2, <1>4, <3>1 DEF Live
      <3>2. CASE e \in m.edges /\ e # <<m.parent[c], c>>
        BY <1>1, <1>2, <1>4, <2>1, <2>2, <3>2 DEF Live
      <3> QED
        BY <1>2, <2>3, <3>1, <3>2
    <2>4. ASSUME NEW n \in Node, n2.parent[n] # Nil
          PROVE  <<n2.parent[n], n>> \in n2.edges
      <3>1. m.parent[n] # Nil => <<m.parent[n], n>> \in m.edges
        BY <1>1 DEF EdgesMatchParents
      <3> QED
        BY <1>2, <1>4, <2>4, <3>1
    <2> QED
      BY <2>3, <2>4 DEF EdgesMatchParents
  <1>6. ASSUME NEW f \in m.features
        PROVE  \E n \in Name \cup {Nil} :
                 IsParentName(n, NameOf[f], MQ, k + 1) /\ IsNamed(n2, f, n2.parent[f], n)
    <2>1. PICK n \in Name \cup {Nil} :
            IsParentName(n, NameOf[f], MQ, k) /\ IsNamed(m, f, m.parent[f], n)
      BY <1>6 DEF TreeMade
    <2>2. CASE f = c
      <3>1. IsParentName(NameOf[p], NameOf[c], MQ, k + 1)
        BY <2>1, <2>2, OneMoreEdge
      <3>2. NameOf[p] \in Name /\ NameOf[p] # Nil
        BY <1>1, ModelFields, ConstantsAssumption
      <3>3. IsNamed(n2, c, p, NameOf[p])
        BY <1>2, <3>2 DEF IsNamed
      <3>4. n2.parent[f] = p
        BY <1>1, <1>4, <2>2
      <3> QED
        BY <2>2, <3>1, <3>2, <3>3, <3>4
    <2>3. CASE f # c
      <3>1. NameOf[f] # MQ[k + 1].child
        BY <1>1, <1>6, <2>3 DEF Settled, NamesIdentify
      <3>2. IsParentName(n, NameOf[f], MQ, k + 1)
        BY <2>1, <3>1, OneMoreEdge
      <3>3. n2.parent[f] = m.parent[f]
        BY <1>1, <1>4, <1>6, <2>3
      <3>4. IsNamed(n2, f, n2.parent[f], n)
        BY <1>2, <2>1, <3>3 DEF IsNamed
      <3> QED
        BY <3>2, <3>4
    <2> QED
      BY <2>2, <2>3
  <1>7. TreeMade(FQ, MQ, n2, k + 1)
    BY <1>1, <1>2, <1>3, <1>5, <1>6 DEF TreeMade
  <1> QED
    BY <1>7 DEF n2

\* An edge names features that are there, unless the calls contradict each other.
LEMMA EdgeIsFound ==
  ASSUME QueuesKept, NEW m, Settled(FQ, m), NEW i \in 1..Len(MQ), MQ[i].op = "AddChild", Consistent
  PROVE  /\ GetFeature(m, MQ[i].child) # Nil /\ GetFeature(m, MQ[i].parent) # Nil
         /\ GetFeature(m, MQ[i].child) # GetFeature(m, MQ[i].parent)
  <1>1. MQ[i] \in Asked("AddChild")
    BY AskedAre
  <1>2. MQ[i].parent # MQ[i].child /\ {MQ[i].parent, MQ[i].child} \subseteq KnownNames
    BY <1>1 DEF Consistent
  <1>3. KnownNames = {NameOf[f] : f \in m.features} /\ m \in Model
    BY KnownNamesAre DEF Settled
  <1> QED
    BY <1>2, <1>3, GetFeatureFinds

\* The next call on the tree is done, or the calls contradict each other.
LEMMA EdgeIsMade ==
  ASSUME QueuesKept, NEW k \in 0..(Len(MQ) - 1), NEW m, TreeMade(FQ, MQ, m, k),
         NEW o \in Outcomes(m, MQ[k + 1])
  PROVE  \/ o.code = "OK" /\ TreeMade(FQ, MQ, o.model, k + 1)
         \/ o.code \in ErrorCode /\ ~Consistent
  <1> DEFINE mod == MQ[k + 1]
  <1>1. k \in Nat /\ k + 1 \in 1..Len(MQ)
    BY DEF QueuesKept
  <1>2. mod \in ModelCalls /\ mod.op \in {"AddChild", "SetInfo"}
    BY <1>1, QueuedCalls
  <1>3. m \in Model /\ Settled(FQ, m) /\ Nil \notin m.features /\ m.features \subseteq Node
    BY ModelFields, ConstantsAssumption DEF TreeMade, Settled, Node
  <1>4. CASE mod.op = "SetInfo"
    <2> DEFINE n2 == [m EXCEPT !.info[mod.field] = mod.text]
    <2>1. Outcomes(m, mod) = Succeeds(n2)
      BY <1>4 DEF Outcomes, OutcomesAmong, SetInfo
    <2>2. mod.field \in InfoField /\ mod.text \in Text
      BY <1>2, <1>4, CallFields
    <2>3. /\ n2 \in Model /\ n2.features = m.features /\ n2.relationships = m.relationships
          /\ n2.root = m.root /\ n2.parent = m.parent /\ n2.edges = m.edges
          /\ n2.constraints = m.constraints /\ n2.bound = m.bound
      BY <1>3, <2>2 DEF Model
    <2> HIDE DEF n2
    <2>4. Settled(FQ, n2)
      BY <1>3, <2>3 DEF Settled, NamesIdentify
    <2>5. EdgesMatchParents(n2) /\ n2.relationships = {} /\ n2.constraints = {} /\ n2.bound = {}
      BY <2>3 DEF TreeMade, EdgesMatchParents, Live
    <2>6. ASSUME NEW f \in n2.features
          PROVE  \E n \in Name \cup {Nil} :
                   IsParentName(n, NameOf[f], MQ, k + 1) /\ IsNamed(n2, f, n2.parent[f], n)
      <3>1. PICK n \in Name \cup {Nil} :
              IsParentName(n, NameOf[f], MQ, k) /\ IsNamed(m, f, m.parent[f], n)
        BY <2>3, <2>6 DEF TreeMade
      <3>2. IsParentName(n, NameOf[f], MQ, k + 1)
        BY <1>1, <1>4, <3>1, OneMoreEdge
      <3> QED
        BY <2>3, <3>1, <3>2 DEF IsNamed
    <2>7. TreeMade(FQ, MQ, n2, k + 1)
      BY <2>4, <2>5, <2>6 DEF TreeMade
    <2> QED
      BY <2>1, <2>7 DEF Succeeds, Outcome
  <1>5. CASE mod.op = "AddChild"
    <2> DEFINE p == GetFeature(m, mod.parent)
               c == GetFeature(m, mod.child)
    <2>1. Resolve(m, mod.parent) = p /\ Resolve(m, mod.child) = c
      BY <1>2, <1>5, CallFields DEF Resolve
    <2>2. Outcomes(m, mod) = AddChild(m, mod.parent, mod.child, Live(m))
      BY <1>5 DEF Outcomes, OutcomesAmong
    <2>3. Consistent => c # Nil /\ p # Nil /\ c # p
      BY <1>1, <1>3, <1>5, EdgeIsFound
    <2>4. /\ p \in m.features \cup {Nil} /\ c \in m.features \cup {Nil}
          /\ p # Nil => NameOf[p] = mod.parent
          /\ c # Nil => NameOf[c] = mod.child
      BY <1>3, GetFeatureFinds
    <2> HIDE DEF p, c
    <2>5. CASE c = Nil \/ p = Nil \/ c = p
      <3>1. o.code \in ErrorCode
        BY <2>1, <2>2, <2>5 DEF AddChild, Fails, Outcome, ErrorCode
      <3> QED
        BY <2>3, <2>5, <3>1
    <2>6. CASE ~(c = Nil \/ p = Nil \/ c = p)
      <3>1. p \in m.features /\ c \in m.features /\ {c, p} \subseteq Live(m)
        BY <2>4, <2>6 DEF Live
      <3>2. m.parent[c] \in Live(m) \cup {Nil}
        <4>1. m.parent[c] # Nil => <<m.parent[c], c>> \in m.edges
          BY <1>3, <3>1 DEF TreeMade, EdgesMatchParents
        <4>2. \A e \in m.edges : e[1] \in Live(m)
          BY DEF TreeMade, EdgesMatchParents
        <4> QED
          BY <4>1, <4>2
      <3>3. Outcomes(m, mod) = Succeeds(Attached(m, p, c))
        BY <2>1, <2>2, <2>6, <3>1, <3>2 DEF AddChild
      <3>4. TreeMade(FQ, MQ, Attached(m, p, c), k + 1)
        BY <1>5, <2>4, <2>6, <3>1, AttachedKeepsTree
      <3> QED
        BY <3>3, <3>4 DEF Succeeds, Outcome
    <2> QED
      BY <2>5, <2>6
  <1> QED
    BY <1>2, <1>4, <1>5

\* The check finds nothing: a feature that was given no parent is below the root.
LEMMA TreeIsChecked ==
  ASSUME NEW m, NEW k, TreeMade(FQ, MQ, m, k)
  PROVE  CheckIsSafe(m, Live(m)) /\ IsFeatureModelValid(m)
  <1>1. /\ m \in Model /\ m.root \in m.features /\ m.features \cap RootFeature = {m.root}
        /\ m.relationships = {} /\ EdgesMatchParents(m)
        /\ m.features \subseteq Feature /\ m.features \subseteq Node /\ Nil \notin m.features
    BY ModelFields, ConstantsAssumption DEF TreeMade, Settled, NamesIdentify, Node
  <1>2. ASSUME NEW f \in m.features \ {m.root}
        PROVE  /\ m.parent[f] \in Live(m) /\ <<m.parent[f], f>> \in m.edges
               /\ Up(m, f) \in m.features
    <2>1. m.parent[f] \in m.features
      <3>1. PICK n \in Name \cup {Nil} : IsNamed(m, f, m.parent[f], n)
        BY <1>2 DEF TreeMade
      <3> QED
        BY <1>1, <1>2, <3>1 DEF IsNamed
    <2>2. m.parent[f] \notin Relationship /\ m.parent[f] # Nil
      BY <1>1, <2>1, ConstantsAssumption
    <2> QED
      BY <1>1, <1>2, <2>1, <2>2 DEF Up, Live, EdgesMatchParents
  <1> QED
    BY <1>1, <1>2, ShallowIsValid

-------------------------------------------------------------------------------
(* The commit of the relations *)

\* Edges that describe a tree of names make one of features.
LEMMA TreeLikeIsRooted ==
  ASSUME QueuesKept, NEW m, Settled(FQ, m), m.relationships = {}, TreeLike,
         \A f \in m.features : IsNamed(m, f, m.parent[f], Parents[NameOf[f]])
  PROVE  Rooted(m)
  <1>1. /\ m \in Model /\ m.root \in m.features /\ m.features \subseteq Feature
        /\ Live(m) = m.features
    BY ModelFields DEF Settled, Live
  <1>2. /\ RootName = NameOf[m.root] /\ KnownNames = {NameOf[f] : f \in m.features}
        /\ \A f, g \in m.features : NameOf[f] = NameOf[g] => f = g
    BY KnownNamesAre DEF Settled, NamesIdentify
  <1>3. Parents[NameOf[m.root]] = Nil
    BY <1>2 DEF TreeLike
  <1>4. m.parent[m.root] = Nil
    BY <1>1, <1>3 DEF IsNamed
  <1>5. ASSUME NEW S \in SUBSET (Live(m) \ {m.root}), S # {}
        PROVE  \E n \in S : m.parent[n] \in Live(m) \ S
    <2> DEFINE N == {NameOf[f] : f \in S}
    <2>1. N \in SUBSET (KnownNames \ {RootName}) /\ N # {}
      BY <1>1, <1>2, <1>5
    <2>2. PICK n \in N : Parents[n] \notin N
      BY <2>1 DEF TreeLike
    <2>3. PICK f \in S : n = NameOf[f]
      BY <2>2
    <2>4. f \in m.features /\ f # m.root /\ m.root \notin S
      BY <1>1, <1>5, <2>3
    <2>5. IsNamed(m, f, m.parent[f], Parents[NameOf[f]])
      BY <2>4
    <2>6. CASE Parents[n] = Nil
      BY <1>1, <2>3, <2>4, <2>5, <2>6 DEF IsNamed
    <2>7. CASE Parents[n] # Nil
      BY <1>1, <2>2, <2>3, <2>5, <2>7 DEF IsNamed
    <2> QED
      BY <2>6, <2>7
  <1> QED
    BY <1>1, <1>4, <1>5 DEF Rooted

\* Before the first group the edges are those asked for.
LEMMA RelationsBegin ==
  ASSUME QueuesKept, NEW m, TreeMade(FQ, MQ, m, Len(MQ))
  PROVE  RelationsMade(FQ, Parents, RQ, m, 0) /\ (TreeLike => GroupsTakeAll(m))
  <1>1. /\ m \in Model /\ Settled(FQ, m) /\ EdgesMatchParents(m)
        /\ m.relationships = {} /\ m.constraints = {} /\ m.bound = {} /\ Live(m) = m.features
        /\ m.features \subseteq Feature /\ m.features \subseteq Node
    BY ModelFields DEF TreeMade, Settled, Node, Live
  <1>2. \A n \in Node : m.parent[n] \in m.features \cup {Nil}
    BY <1>1 DEF EdgesMatchParents
  <1>3. \A n \in Node : m.parent[n] \notin Relationship /\ Up(m, n) = m.parent[n]
    BY <1>1, <1>2, ConstantsAssumption DEF Up, Node
  <1>4. ASSUME NEW f \in m.features
        PROVE  IsNamed(m, f, m.parent[f], Parents[NameOf[f]])
    <2>1. PICK n \in Name \cup {Nil} :
            IsParentName(n, NameOf[f], MQ, Len(MQ)) /\ IsNamed(m, f, m.parent[f], n)
      BY <1>4 DEF TreeMade
    <2>2. NameOf[f] \in Name
      BY <1>1, <1>4, ConstantsAssumption
    <2>3. IsParentName(Parents[NameOf[f]], NameOf[f], MQ, Len(MQ)) /\ Len(MQ) \in Nat
      BY <2>2 DEF QueuesKept
    <2>4. n = Parents[NameOf[f]]
      BY <2>1, <2>3, ParentNameIsOne
    <2> QED
      BY <2>1, <2>4
  <1>5. EdgesClimb(m)
    <2>1. ASSUME NEW e \in m.edges
          PROVE  /\ e[1] \in Live(m) /\ e[2] \in Live(m)
                 /\ e[2] \in Relationship => m.parent[e[2]] = e[1]
                 /\ e[2] \in Feature =>
                      Up(m, e[2]) = IF e[1] \in Relationship THEN m.parent[e[1]] ELSE e[1]
      <3>1. e[1] \in m.features /\ e[2] \in m.features /\ m.parent[e[2]] = e[1]
        BY <1>1, <2>1 DEF EdgesMatchParents
      <3> QED
        BY <1>1, <1>3, <3>1, ConstantsAssumption
    <2> QED
      BY <1>1, <2>1 DEF EdgesClimb, EdgesMatchParents
  <1>6. GroupsIn(RQ, 0) = {} /\ ConstraintsIn(RQ, 0) = {}
    BY DEF GroupsIn, ConstraintsIn
  <1>7. \A f \in m.features : IsNamed(m, f, Up(m, f), Parents[NameOf[f]])
    BY <1>1, <1>3, <1>4
  <1>8. RelationsMade(FQ, Parents, RQ, m, 0)
    BY <1>1, <1>5, <1>6, <1>7 DEF RelationsMade
  <1>9. ASSUME TreeLike PROVE GroupsTakeAll(m)
    <2>1. Rooted(m)
      BY <1>1, <1>4, <1>9, TreeLikeIsRooted
    <2>2. GroupsWellPlaced(m) /\ ConstraintsBound(m) /\ NamesIdentify(m)
      BY <1>1 DEF GroupsWellPlaced, ConstraintsBound, Settled
    <2> QED
      BY <1>1, <2>1, <2>2 DEF GroupsTakeAll, WellFormed
  <1> QED
    BY <1>8, <1>9

\* What getChildren<Feature> returns is what has p above it, and its walk ends.
LEMMA ClimbingWalk ==
  ASSUME NEW m \in Model, EdgesClimb(m), \A r \in m.relationships : m.parent[r] \in m.features,
         NEW p \in m.features
  PROVE  /\ WalkIsSafe(m, p, Relationship, Live(m))
         /\ FeatureChildren(m, p) = {c \in m.features : Up(m, c) = p}
  <1> DEFINE G == Targets(m, {p}) \cap Relationship
  <1>1. /\ m.features \subseteq Feature /\ m.relationships \subseteq Relationship
        /\ p \in Feature /\ p \in Node /\ p \notin Relationship /\ Feature \cap Relationship = {}
        /\ m.edges \subseteq Node \X Node
        /\ Live(m) = m.features \cup m.relationships /\ Nil \notin Node
        /\ Feature \subseteq Node /\ Relationship \subseteq Node
    BY ModelFields, ConstantsAssumption DEF Node, Live
  <1>2. \A x, y \in Node : <<x, y>> \in m.edges =>
          /\ x \in Live(m) /\ y \in Live(m)
          /\ y \in Relationship => m.parent[y] = x
          /\ y \in Feature => Up(m, y) = IF x \in Relationship THEN m.parent[x] ELSE x
    BY DEF EdgesClimb
  <1>3. ASSUME NEW x \in Relationship, NEW y \in Relationship, <<x, y>> \in m.edges
        PROVE  FALSE
    <2>1. m.parent[y] = x /\ y \in Live(m)
      BY <1>1, <1>2, <1>3
    <2>2. y \in m.relationships
      BY <1>1, <2>1
    <2> QED
      BY <1>1, <2>1, <2>2
  <1>4. Through(m, p, Relationship) = G
    <2>1. Targets(m, {p} \cup G) \cap Relationship \subseteq G
      BY <1>1, <1>3 DEF Targets
    <2>2. G \in SUBSET Relationship
      OBVIOUS
    <2>3. Through(m, p, Relationship) \subseteq G
      BY <2>1, <2>2 DEF Through
    <2>4. ASSUME NEW x \in G PROVE x \in Through(m, p, Relationship)
      <3>1. ASSUME NEW S \in SUBSET Relationship,
                   Targets(m, {p} \cup S) \cap Relationship \subseteq S
            PROVE  x \in S
        BY <2>4, <3>1 DEF Targets
      <3> QED
        BY <2>4, <3>1 DEF Through
    <2> QED
      BY <2>3, <2>4
  <1>5. ASSUME NEW x \in {p} \cup G PROVE x \notin Through(m, x, Relationship)
    <2>1. CASE x = p
      BY <1>1, <2>1 DEF Through
    <2>2. CASE x \in Relationship
      <3>1. Targets(m, {x} \cup {}) \cap Relationship \subseteq {}
        BY <1>3, <2>2 DEF Targets
      <3>2. {} \in SUBSET Relationship
        OBVIOUS
      <3> QED
        BY <3>1, <3>2 DEF Through
    <2> QED
      BY <1>5, <2>1, <2>2
  <1>6. Targets(m, {p} \cup G) \subseteq Live(m)
    BY <1>1, <1>2 DEF Targets
  <1>7. WalkIsSafe(m, p, Relationship, Live(m))
    BY <1>4, <1>5, <1>6 DEF WalkIsSafe
  <1>8. ASSUME NEW c \in FeatureChildren(m, p) PROVE c \in m.features /\ Up(m, c) = p
    <2>1. c \in Feature /\ c \in Node /\ \E x \in {p} \cup G : <<x, c>> \in m.edges
      BY <1>4, <1>8 DEF FeatureChildren, Targets
    <2>2. PICK x \in {p} \cup G : <<x, c>> \in m.edges
      BY <2>1
    <2>3. x \in Node /\ (x \in Relationship => m.parent[x] = p)
      BY <1>1, <1>2, <2>2 DEF Targets
    <2>4. c \in Live(m) /\ Up(m, c) = p
      BY <1>1, <1>2, <2>1, <2>2, <2>3
    <2> QED
      BY <1>1, <2>1, <2>4
  <1>9. ASSUME NEW c \in m.features, Up(m, c) = p PROVE c \in FeatureChildren(m, p)
    <2>1. c \in Feature /\ c \in Node /\ c \in Live(m)
      BY <1>1, <1>9
    <2>2. \A n \in Live(m) : m.parent[n] # Nil => <<m.parent[n], n>> \in m.edges
      BY DEF EdgesClimb
    <2>3. CASE m.parent[c] \notin Relationship
      <3>1. <<p, c>> \in m.edges
        BY <1>1, <1>9, <2>1, <2>2, <2>3 DEF Up
      <3> QED
        BY <2>1, <3>1 DEF FeatureChildren, Targets
    <2>4. CASE m.parent[c] \in Relationship
      <3> DEFINE q == m.parent[c]
      <3>1. m.parent[q] = p /\ q \in Node /\ q # Nil
        BY <1>1, <1>9, <2>4 DEF Up
      <3>2. <<q, c>> \in m.edges /\ q \in Live(m)
        BY <1>2, <2>1, <2>2, <3>1
      <3>3. <<p, q>> \in m.edges
        BY <1>1, <2>2, <3>1, <3>2
      <3>4. q \in G
        BY <2>4, <3>1, <3>3 DEF Targets
      <3> QED
        BY <1>4, <2>1, <3>2, <3>4 DEF FeatureChildren, Targets
    <2> QED
      BY <2>3, <2>4
  <1> QED
    BY <1>7, <1>8, <1>9

\* The new group takes over the members of the groups p has.
LEMMA GroupedIs ==
  ASSUME NEW m \in Model, EdgesClimb(m), \A x \in m.relationships : m.parent[x] \in m.features,
         NEW p \in m.features, NEW r \in Relationship, r \notin m.relationships
  PROVE  LET n2 == Grouped(m, r, p)
             members == {c \in m.features : Up(m, c) = p} IN
         /\ n2 \in Model /\ n2.features = m.features /\ n2.relationships = m.relationships \cup {r}
         /\ n2.root = m.root /\ n2.constraints = m.constraints /\ n2.bound = m.bound
         /\ \A n \in Node : n2.parent[n] = IF n = r THEN p ELSE IF n \in members THEN r ELSE m.parent[n]
         /\ n2.edges = (m.edges \ ({p} \X members)) \cup ({r} \X members) \cup {<<p, r>>}
         /\ Live(n2) = Live(m) \cup {r}
  <1> DEFINE n2 == Grouped(m, r, p)
             members == {c \in m.features : Up(m, c) = p}
  <1>1. p \in Node
    BY ModelFields DEF Node
  <1>2. FeatureChildren(m, p) = members
    BY ClimbingWalk
  <1> HIDE DEF members
  <1>3. /\ n2 \in Model /\ n2.features = m.features /\ n2.relationships = m.relationships \cup {r}
        /\ n2.root = m.root /\ n2.constraints = m.constraints /\ n2.bound = m.bound
        /\ n2.parent = [n \in Node |-> IF n = r THEN p ELSE IF n \in members THEN r ELSE m.parent[n]]
        /\ n2.edges = (m.edges \ ({p} \X members)) \cup ({r} \X members) \cup {<<p, r>>}
    BY <1>1, <1>2, GroupedType
  <1> HIDE DEF n2
  <1> QED
    BY <1>3 DEF Live, n2, members

\* Nothing that is above a feature changes when its features are grouped.
LEMMA GroupedClimbs ==
  ASSUME NEW m \in Model, EdgesClimb(m), \A x \in m.relationships : m.parent[x] \in m.features,
         NEW p \in m.features, NEW r \in Relationship, r \notin m.relationships
  PROVE  LET n2 == Grouped(m, r, p) IN
         /\ EdgesClimb(n2)
         /\ \A f \in m.features : Up(n2, f) = Up(m, f)
  <1> DEFINE n2 == Grouped(m, r, p)
             members == {c \in m.features : Up(m, c) = p}
  <1>1. /\ m.features \subseteq Feature /\ m.relationships \subseteq Relationship
        /\ p \in Feature /\ p \in Node /\ p \notin Relationship /\ Feature \cap Relationship = {}
        /\ m.edges \subseteq Node \X Node /\ r \in Node /\ r \notin Live(m) /\ r \notin Feature
        /\ Live(m) = m.features \cup m.relationships /\ Nil \notin Node
        /\ Feature \subseteq Node /\ Relationship \subseteq Node
    BY ModelFields, ConstantsAssumption DEF Node, Live
  <1>2. /\ n2 \in Model /\ n2.features = m.features /\ n2.relationships = m.relationships \cup {r}
        /\ \A n \in Node : n2.parent[n] = IF n = r THEN p ELSE IF n \in members THEN r ELSE m.parent[n]
        /\ n2.edges = (m.edges \ ({p} \X members)) \cup ({r} \X members) \cup {<<p, r>>}
        /\ Live(n2) = Live(m) \cup {r}
    BY GroupedIs
  <1> HIDE DEF n2
  <1>3. /\ \A e \in m.edges :
             /\ e = <<e[1], e[2]>> /\ e[1] \in Live(m) /\ e[2] \in Live(m)
             /\ e[2] \in Relationship => m.parent[e[2]] = e[1]
             /\ e[2] \in Feature =>
                  Up(m, e[2]) = IF e[1] \in Relationship THEN m.parent[e[1]] ELSE e[1]
        /\ \A n \in Live(m) : m.parent[n] # Nil => <<m.parent[n], n>> \in m.edges
    BY <1>1 DEF EdgesClimb
  <1>4. \A n \in Live(m) : m.parent[n] \in Live(m) \cup {Nil}
    <2>1. \A n \in Live(m) : m.parent[n] # Nil => m.parent[n] \in Live(m)
      BY <1>3
    <2> QED
      BY <2>1
  <1>5. \A q \in m.relationships : n2.parent[q] = m.parent[q]
    BY <1>1, <1>2
  <1>6. ASSUME NEW f \in m.features PROVE Up(n2, f) = Up(m, f)
    <2>1. f \in Node /\ f # r /\ f \in Live(m)
      BY <1>1, <1>6
    <2>2. CASE f \in members
      <3>1. n2.parent[f] = r /\ n2.parent[r] = p
        BY <1>1, <1>2, <2>1, <2>2
      <3> QED
        BY <2>2, <3>1 DEF Up
    <2>3. CASE f \notin members
      <3>1. n2.parent[f] = m.parent[f]
        BY <1>2, <2>1, <2>3
      <3>2. m.parent[f] \in Relationship => m.parent[f] \in m.relationships
        BY <1>1, <1>4, <2>1
      <3> QED
        BY <1>5, <3>1, <3>2 DEF Up
    <2> QED
      BY <2>2, <2>3
  <1> HIDE DEF members
  <1>7. ASSUME NEW e \in n2.edges
        PROVE  /\ e[1] \in Live(n2) /\ e[2] \in Live(n2)
               /\ e[2] \in Relationship => n2.parent[e[2]] = e[1]
               /\ e[2] \in Feature =>
                    Up(n2, e[2]) = IF e[1] \in Relationship THEN n2.parent[e[1]] ELSE e[1]
    <2>1. CASE e \in m.edges
      <3>1. /\ e[1] \in Live(m) /\ e[2] \in Live(m) /\ e[2] \in Node
            /\ e[2] \in Relationship => m.parent[e[2]] = e[1] /\ e[2] \in m.relationships
            /\ e[2] \in Feature => e[2] \in m.features
            /\ e[1] \in Relationship => e[1] \in m.relationships
        BY <1>1, <1>3, <2>1
      <3> QED
        BY <1>2, <1>3, <1>5, <1>6, <2>1, <3>1
    <2>2. CASE e \in {r} \X members
      <3>1. e[1] = r /\ e[2] \in m.features /\ Up(m, e[2]) = p
        BY <2>2 DEF members
      <3> QED
        BY <1>1, <1>2, <1>6, <3>1
    <2>3. CASE e = <<p, r>>
      BY <1>1, <1>2, <2>3
    <2> QED
      BY <1>2, <1>7, <2>1, <2>2, <2>3
  <1>8. ASSUME NEW n \in Live(n2), n2.parent[n] # Nil
        PROVE  <<n2.parent[n], n>> \in n2.edges
    <2>1. n \in Node
      BY <1>1, <1>2, <1>8
    <2>2. CASE n = r
      BY <1>2, <2>1, <2>2
    <2>3. CASE n # r /\ n \in members
      BY <1>2, <2>1, <2>3
    <2>4. CASE n # r /\ n \notin members
      BY <1>2, <1>3, <1>8, <2>1, <2>4
    <2> QED
      BY <2>2, <2>3, <2>4
  <1>9. EdgesClimb(n2)
    BY <1>7, <1>8 DEF EdgesClimb
  <1> QED
    BY <1>6, <1>9 DEF n2

\* The next group is made.
LEMMA GroupedKeepsRelations ==
  ASSUME QueuesKept, NEW k \in 0..(Len(RQ) - 1), NEW m, RelationsMade(FQ, Parents, RQ, m, k),
         RQ[k + 1].op = "AddRelationship", NEW p \in m.features, NameOf[p] = RQ[k + 1].ref
  PROVE  RelationsMade(FQ, Parents, RQ, Grouped(m, RQ[k + 1].relationship, p), k + 1)
  <1> DEFINE r == RQ[k + 1].relationship
             n2 == Grouped(m, r, p)
             members == {c \in m.features : Up(m, c) = p}
  <1>1. k \in Nat /\ k + 1 \in 1..Len(RQ) /\ Len(RQ) \in Nat /\ k + 1 \in k+1..Len(RQ)
    BY DEF QueuesKept
  <1>2. r \in Relationship
    BY <1>1, QueuedCalls, CallFields
  <1>3. /\ m \in Model /\ EdgesClimb(m) /\ \A x \in m.relationships : m.parent[x] \in m.features
        /\ r \notin m.relationships
    BY <1>1 DEF RelationsMade, Settled
  <1>4. /\ m.features \subseteq Feature /\ m.relationships \subseteq Node /\ r \in Node
        /\ m.relationships \cap m.features = {}
    BY <1>2, <1>3, ModelFields, ConstantsAssumption DEF Node
  <1> HIDE DEF r
  <1>5. /\ n2 \in Model /\ n2.features = m.features /\ n2.relationships = m.relationships \cup {r}
        /\ n2.root = m.root /\ n2.constraints = m.constraints /\ n2.bound = m.bound
        /\ \A n \in Node : n2.parent[n] = IF n = r THEN p ELSE IF n \in members THEN r ELSE m.parent[n]
    BY <1>2, <1>3, GroupedIs
  <1>6. EdgesClimb(n2) /\ \A f \in m.features : Up(n2, f) = Up(m, f)
    BY <1>2, <1>3, GroupedClimbs
  <1> HIDE DEF n2
  <1>7. GroupsIn(RQ, k + 1) = GroupsIn(RQ, k) \cup {k + 1} /\ ConstraintsIn(RQ, k + 1) = ConstraintsIn(RQ, k)
    BY <1>1, OneMoreIs DEF GroupsIn, ConstraintsIn
  <1>8. Settled(FQ, n2)
    BY <1>5 DEF RelationsMade, Settled, NamesIdentify
  <1>9. \A f \in n2.features : IsNamed(n2, f, Up(n2, f), Parents[NameOf[f]])
    BY <1>5, <1>6 DEF RelationsMade, IsNamed
  <1>10. n2.relationships = {RQ[i].relationship : i \in GroupsIn(RQ, k + 1)}
    BY <1>5, <1>7 DEF RelationsMade, r
  <1>11. n2.parent[r] = p /\ \A x \in m.relationships : n2.parent[x] = m.parent[x] /\ x # r
    BY <1>3, <1>4, <1>5
  <1>12. \A x \in n2.relationships : n2.parent[x] \in n2.features
    BY <1>3, <1>5, <1>11
  <1>13. ASSUME NEW i \in GroupsIn(RQ, k + 1)
         PROVE  NameOf[n2.parent[RQ[i].relationship]] = RQ[i].ref
    <2>1. CASE i = k + 1
      BY <1>11, <2>1 DEF r
    <2>2. CASE i \in GroupsIn(RQ, k)
      BY <1>11, <2>2 DEF RelationsMade
    <2> QED
      BY <1>7, <1>13, <2>1, <2>2
  <1>14. ASSUME NEW i \in (k + 1)+1..Len(RQ), RQ[i].op = "AddRelationship"
         PROVE  RQ[i].relationship \notin n2.relationships
    <2>1. i \in k+1..Len(RQ) /\ i \in GroupsIn(RQ, Len(RQ)) /\ k + 1 \in GroupsIn(RQ, Len(RQ)) /\ i # k + 1
      BY <1>1, <1>14 DEF GroupsIn
    <2>2. RQ[i].relationship # r
      BY <2>1 DEF QueuesKept, r
    <2> QED
      BY <1>5, <1>14, <2>1, <2>2 DEF RelationsMade
  <1>15. \A i \in ConstraintsIn(RQ, k + 1) : \A n \in Mentions[RQ[i].constraint] :
            \E f \in n2.features : NameOf[f] = n /\ <<RQ[i].constraint, f>> \in n2.bound
    BY <1>5, <1>7 DEF RelationsMade
  <1>16. RelationsMade(FQ, Parents, RQ, n2, k + 1)
    BY <1>6, <1>8, <1>9, <1>10, <1>12, <1>13, <1>14, <1>15 DEF RelationsMade
  <1> QED
    BY <1>16 DEF n2, r

\* With one group for a feature, the group has all of its features.
LEMMA GroupedTakesAll ==
  ASSUME QueuesKept, NEW k \in 0..(Len(RQ) - 1), NEW m, RelationsMade(FQ, Parents, RQ, m, k),
         RQ[k + 1].op = "AddRelationship", NEW p \in m.features, NameOf[p] = RQ[k + 1].ref,
         TreeLike, GroupsTakeAll(m)
  PROVE  GroupsTakeAll(Grouped(m, RQ[k + 1].relationship, p))
  <1> DEFINE r == RQ[k + 1].relationship
             n2 == Grouped(m, r, p)
             members == {c \in m.features : Up(m, c) = p}
  <1>1. k \in Nat /\ k + 1 \in 1..Len(RQ) /\ Len(RQ) \in Nat /\ k + 1 \in k+1..Len(RQ)
    BY DEF QueuesKept
  <1>2. r \in Relationship
    BY <1>1, QueuedCalls, CallFields
  <1>3. /\ m \in Model /\ EdgesClimb(m) /\ \A x \in m.relationships : m.parent[x] \in m.features
        /\ r \notin m.relationships /\ WellFormed(m)
    BY <1>1 DEF RelationsMade, Settled, GroupsTakeAll
  <1>4. /\ m.features \subseteq Feature /\ m.relationships \subseteq Relationship /\ r \in Node
        /\ p \in Node /\ Feature \cap Relationship = {} /\ Feature \subseteq Node
        /\ Relationship \subseteq Node /\ r \notin Live(m) /\ r # p
        /\ Live(m) = m.features \cup m.relationships
    BY <1>2, <1>3, ModelFields, ConstantsAssumption DEF Node, Live
  <1>5. \A q \in m.relationships : m.parent[q] # p
    <2>1. SUFFICES ASSUME NEW q \in m.relationships, m.parent[q] = p PROVE FALSE
      OBVIOUS
    <2>2. PICK i \in GroupsIn(RQ, k) : q = RQ[i].relationship
      BY DEF RelationsMade
    <2>3. RQ[i].ref = RQ[k + 1].ref
      BY <2>1, <2>2 DEF RelationsMade
    <2>4. i \in GroupsIn(RQ, Len(RQ)) /\ k + 1 \in GroupsIn(RQ, Len(RQ))
      BY <1>1 DEF GroupsIn
    <2>5. RQ[i] \in Asked("AddRelationship") /\ RQ[k + 1] \in Asked("AddRelationship")
      BY <2>4, AskedAre
    <2>6. RQ[i] = RQ[k + 1]
      BY <2>3, <2>5 DEF TreeLike
    <2> QED
      BY <1>3, <2>2, <2>6
  <1> HIDE DEF r
  <1>6. OwnGroups(m, p) = {}
    <2>1. Targets(m, {p}) = {c \in Node : m.parent[c] \in {p}} /\ Targets(m, {p}) \subseteq Live(m)
      BY <1>3, <1>4, TargetsAreChildren DEF WellFormed
    <2> QED
      BY <1>4, <1>5, <2>1 DEF OwnGroups, GroupsOf
  <1>7. WellFormed(n2)
    BY <1>2, <1>3, <1>4, <1>6, GroupedKeeps
  <1>8. /\ n2 \in Model /\ n2.relationships = m.relationships \cup {r}
        /\ \A n \in Node : n2.parent[n] = IF n = r THEN p ELSE IF n \in members THEN r ELSE m.parent[n]
    BY <1>2, <1>3, GroupedIs
  <1> HIDE DEF n2
  <1>9. \A x \in Node : Targets(n2, {x}) = {c \in Node : n2.parent[c] = x}
    <2>1. ASSUME NEW x \in Node PROVE Targets(n2, {x}) = {c \in Node : n2.parent[c] \in {x}}
      BY <1>7, <1>8, TargetsAreChildren DEF WellFormed
    <2> QED
      BY <2>1
  <1>10. \A x \in Node : Targets(m, {x}) = {c \in Node : m.parent[c] = x} /\ Targets(m, {x}) \subseteq Live(m)
    <2>1. ASSUME NEW x \in Node
          PROVE  Targets(m, {x}) = {c \in Node : m.parent[c] \in {x}} /\ Targets(m, {x}) \subseteq Live(m)
      BY <1>3, TargetsAreChildren DEF WellFormed
    <2> QED
      BY <2>1
  <1>11. Targets(n2, {p}) = {r}
    <2>1. ASSUME NEW c \in Node, m.parent[c] = p PROVE c \in members
      <3>1. c \in Live(m)
        BY <1>4, <1>10, <2>1
      <3>2. c \in m.features
        BY <1>4, <1>5, <2>1, <3>1
      <3> QED
        BY <1>4, <2>1, <3>2 DEF Up
    <2> QED
      BY <1>4, <1>8, <1>9, <2>1
  <1>12. ASSUME NEW q \in m.relationships PROVE Targets(n2, {n2.parent[q]}) = {q}
    <2> DEFINE x == m.parent[q]
    <2>1. q \in Node /\ q # r /\ q \notin members /\ x # p /\ x \in m.features
      BY <1>3, <1>4, <1>5, <1>12
    <2>2. x \in Node /\ x # r /\ n2.parent[q] = x
      BY <1>4, <1>8, <2>1
    <2>3. \A c \in Node : m.parent[c] = x <=> c = q
      <3>1. Targets(m, {x}) = {q}
        BY <1>12 DEF GroupsTakeAll
      <3> QED
        BY <1>10, <2>1, <2>2, <3>1
    <2> HIDE DEF x, members
    <2>4. \A c \in Node : n2.parent[c] = x <=> c = q
      BY <1>8, <2>1, <2>2, <2>3
    <2> QED
      BY <1>9, <2>1, <2>2, <2>4
  <1>13. GroupsTakeAll(n2)
    <2>1. n2.parent[r] = p
      BY <1>4, <1>8
    <2> QED
      BY <1>7, <1>8, <1>11, <1>12, <2>1 DEF GroupsTakeAll
  <1> QED
    BY <1>13 DEF n2, r

\* The next constraint finds the features it mentions.
LEMMA ConstraintKeepsRelations ==
  ASSUME QueuesKept, NEW k \in 0..(Len(RQ) - 1), NEW m, RelationsMade(FQ, Parents, RQ, m, k),
         TreeLike => GroupsTakeAll(m), RQ[k + 1].op = "AddConstraint",
         NEW o \in AddConstraint(m, RQ[k + 1].constraint)
  PROVE  \/ /\ o.code = "OK" /\ RelationsMade(FQ, Parents, RQ, o.model, k + 1)
            /\ TreeLike => GroupsTakeAll(o.model)
         \/ o.code \in ErrorCode /\ ~Consistent
  <1> DEFINE c == RQ[k + 1].constraint
             found == {f \in m.features : NameOf[f] \in Mentions[c]}
             n2 == [m EXCEPT !.constraints = @ \cup {c}, !.bound = @ \cup ({c} \X found)]
  <1>1. k \in Nat /\ k + 1 \in 1..Len(RQ) /\ Len(RQ) \in Nat
    BY DEF QueuesKept
  <1>2. c \in Constraint
    BY <1>1, QueuedCalls, CallFields
  <1>3. m \in Model /\ Settled(FQ, m)
    BY DEF RelationsMade, Settled
  <1>4. m.features \subseteq Feature /\ m.bound \subseteq Constraint \X Feature /\ m.constraints \subseteq Constraint
    BY <1>3, ModelFields
  <1> HIDE DEF c
  <1>5. {c} \X found \subseteq Constraint \X Feature
    BY <1>2, <1>4
  <1>6. /\ n2 \in Model /\ n2.features = m.features /\ n2.relationships = m.relationships
        /\ n2.root = m.root /\ n2.parent = m.parent /\ n2.edges = m.edges
        /\ n2.constraints = m.constraints \cup {c} /\ n2.bound = m.bound \cup ({c} \X found)
    BY <1>2, <1>3, <1>5 DEF Model
  <1>7. CASE \E n \in Mentions[c] : GetFeature(m, n) = Nil
    <2>1. Outcomes(m, RQ[k + 1]) = Fails(n2, "MISSING_FEATURE")
      BY <1>7 DEF Outcomes, OutcomesAmong, AddConstraint, c
    <2>2. o.code \in ErrorCode
      BY <1>7 DEF AddConstraint, Fails, Outcome, ErrorCode, c
    <2>3. PICK n \in Mentions[c] : GetFeature(m, n) = Nil
      BY <1>7
    <2>4. n \notin KnownNames
      BY <1>3, <2>3, KnownNamesAre, GetFeatureFinds
    <2>5. RQ[k + 1] \in Asked("AddConstraint")
      BY <1>1, AskedAre DEF ConstraintsIn
    <2> QED
      BY <2>2, <2>3, <2>4, <2>5 DEF Consistent, c
  <1>8. CASE \A n \in Mentions[c] : GetFeature(m, n) # Nil
    <2>1. o.code = "OK" /\ o.model = n2
      BY <1>8 DEF AddConstraint, Succeeds, Outcome, c
    <2>2. GroupsIn(RQ, k + 1) = GroupsIn(RQ, k) /\ ConstraintsIn(RQ, k + 1) = ConstraintsIn(RQ, k) \cup {k + 1}
      BY <1>1, OneMoreIs DEF GroupsIn, ConstraintsIn
    <2>3. \A n \in Mentions[c] : \E f \in m.features : NameOf[f] = n /\ <<c, f>> \in n2.bound
      <3>1. \A n \in Mentions[c] : \E f \in m.features : NameOf[f] = n
        BY <1>3, <1>8, GetFeatureFinds
      <3> QED
        BY <1>6, <3>1
    <2> HIDE DEF n2, found
    <2>4. \A f \in m.features : Up(n2, f) = Up(m, f)
      BY <1>6 DEF Up
    <2>5. EdgesClimb(n2)
      BY <1>6 DEF RelationsMade, EdgesClimb, Up, Live
    <2>6. Settled(FQ, n2)
      BY <1>6 DEF RelationsMade, Settled, NamesIdentify
    <2>7. \A f \in n2.features : IsNamed(n2, f, Up(n2, f), Parents[NameOf[f]])
      BY <1>6, <2>4 DEF RelationsMade, IsNamed
    <2>8. \A i \in (k + 1)+1..Len(RQ) : i \in k+1..Len(RQ)
      BY <1>1
    <2>9. ASSUME NEW i \in ConstraintsIn(RQ, k + 1), NEW n \in Mentions[RQ[i].constraint]
          PROVE  \E f \in n2.features : NameOf[f] = n /\ <<RQ[i].constraint, f>> \in n2.bound
      <3>1. CASE i = k + 1
        BY <1>6, <2>3, <2>9, <3>1 DEF c
      <3>2. CASE i \in ConstraintsIn(RQ, k)
        BY <1>6, <2>9, <3>2 DEF RelationsMade
      <3> QED
        BY <2>2, <2>9, <3>1, <3>2
    <2>10. /\ n2.relationships = {RQ[i].relationship : i \in GroupsIn(RQ, k + 1)}
           /\ \A r \in n2.relationships : n2.parent[r] \in n2.features
           /\ \A i \in GroupsIn(RQ, k + 1) : NameOf[n2.parent[RQ[i].relationship]] = RQ[i].ref
           /\ \A i \in (k + 1)+1..Len(RQ) :
                RQ[i].op = "AddRelationship" => RQ[i].relationship \notin n2.relationships
      BY <1>6, <2>2, <2>8 DEF RelationsMade
    <2>11. RelationsMade(FQ, Parents, RQ, n2, k + 1)
      BY <2>5, <2>6, <2>7, <2>9, <2>10 DEF RelationsMade
    <2>12. ASSUME GroupsTakeAll(m) PROVE GroupsTakeAll(n2)
      <3>1. WellFormed(n2)
        <4>1. WellFormed(m)
          BY <2>12 DEF GroupsTakeAll
        <4>2. Harmless(AddConstraint(m, c)) /\ o \in AddConstraint(m, c)
          BY <1>2, <1>3, <4>1, AddConstraintIsHarmless DEF c
        <4> QED
          BY <2>1, <4>2 DEF Harmless
      <3>2. \A S : Targets(n2, S) = Targets(m, S)
        BY <1>6 DEF Targets
      <3> QED
        BY <1>6, <2>12, <3>1, <3>2 DEF GroupsTakeAll
    <2> QED
      BY <2>1, <2>11, <2>12
  <1> QED
    BY <1>7, <1>8

\* The next relation is made, or the calls contradict each other.
LEMMA RelationIsMade ==
  ASSUME QueuesKept, NEW k \in 0..(Len(RQ) - 1), NEW m, RelationsMade(FQ, Parents, RQ, m, k),
         TreeLike => GroupsTakeAll(m), NEW o \in Outcomes(m, RQ[k + 1])
  PROVE  \/ /\ o.code = "OK" /\ RelationsMade(FQ, Parents, RQ, o.model, k + 1)
            /\ TreeLike => GroupsTakeAll(o.model)
         \/ o.code \in ErrorCode \cup {"UB"} /\ ~Consistent
  <1> DEFINE mod == RQ[k + 1]
  <1>1. k \in Nat /\ k + 1 \in 1..Len(RQ)
    BY DEF QueuesKept
  <1>2. mod \in RelationCalls /\ mod.op \in {"AddRelationship", "AddConstraint"}
    BY <1>1, QueuedCalls
  <1>3. /\ m \in Model /\ Settled(FQ, m) /\ Nil \notin m.features /\ EdgesClimb(m)
        /\ \A x \in m.relationships : m.parent[x] \in m.features
    BY ModelFields, ConstantsAssumption DEF RelationsMade, Settled, Node
  <1>4. CASE mod.op = "AddRelationship"
    <2> DEFINE p == GetFeature(m, mod.ref)
    <2>1. mod.ref \in Name
      BY <1>2, <1>4, CallFields
    <2>2. Outcomes(m, mod) = AddRelationship(m, mod.relationship, mod.ref, Live(m)) /\ Resolve(m, mod.ref) = p
      BY <1>4, <2>1 DEF Outcomes, OutcomesAmong, Resolve
    <2>3. p \in m.features \cup {Nil} /\ (p # Nil => NameOf[p] = mod.ref)
      BY <1>3, GetFeatureFinds
    <2>4. CASE p = Nil
      <3>1. o.code = "UB"
        BY <1>3, <2>2, <2>4, ModelFields, ConstantsAssumption DEF AddRelationship, Undefined, Outcome, Live, Node
      <3>2. mod.ref \notin KnownNames
        BY <1>3, <2>4, KnownNamesAre, GetFeatureFinds
      <3>3. mod \in Asked("AddRelationship")
        BY <1>1, <1>4, AskedAre DEF GroupsIn
      <3> QED
        BY <3>1, <3>2, <3>3 DEF Consistent
    <2> HIDE DEF p
    <2>5. CASE p # Nil
      <3>1. p \in m.features /\ NameOf[p] = mod.ref
        BY <2>3, <2>5
      <3>2. WalkIsSafe(m, p, Relationship, Live(m))
        BY <1>3, <3>1, ClimbingWalk
      <3>3. Outcomes(m, mod) = Succeeds(Grouped(m, mod.relationship, p))
        BY <2>2, <3>1, <3>2 DEF AddRelationship, Live
      <3>4. RelationsMade(FQ, Parents, RQ, Grouped(m, mod.relationship, p), k + 1)
        BY <1>4, <3>1, GroupedKeepsRelations
      <3>5. TreeLike => GroupsTakeAll(Grouped(m, mod.relationship, p))
        BY <1>4, <3>1, GroupedTakesAll
      <3> QED
        BY <3>3, <3>4, <3>5 DEF Succeeds, Outcome
    <2> QED
      BY <2>4, <2>5
  <1>5. CASE mod.op = "AddConstraint"
    <2>1. o \in AddConstraint(m, mod.constraint)
      BY <1>5 DEF Outcomes, OutcomesAmong
    <2> QED
      BY <1>5, <2>1, ConstraintKeepsRelations
  <1> QED
    BY <1>2, <1>4, <1>5

\* Every feature but the root has another above it.
LEMMA RelationsAreBelow ==
  ASSUME NEW m, NEW k, RelationsMade(FQ, Parents, RQ, m, k), NEW f \in m.features \ {m.root}
  PROVE  Up(m, f) \in m.features
  BY DEF RelationsMade, Settled, IsNamed

\* A model with the groups made so far passes the consistency check.
LEMMA RelationsAreChecked ==
  ASSUME NEW m, NEW k, RelationsMade(FQ, Parents, RQ, m, k)
  PROVE  CheckIsSafe(m, Live(m)) /\ IsFeatureModelValid(m)
  <1>1. /\ m \in Model /\ m.root \in m.features /\ m.features \cap RootFeature = {m.root}
        /\ m.features \subseteq Live(m) /\ Nil \notin m.features /\ Nil \notin Relationship
    BY ModelFields, ConstantsAssumption DEF RelationsMade, Settled, NamesIdentify, Node, Live
  <1>2. ASSUME NEW f \in m.features \ {m.root}
        PROVE  /\ m.parent[f] \in Live(m) /\ <<m.parent[f], f>> \in m.edges
               /\ Up(m, f) \in m.features
    <2>1. Up(m, f) \in m.features
      BY <1>2, RelationsAreBelow
    <2>2. m.parent[f] # Nil
      BY <1>1, <2>1 DEF Up
    <2>3. <<m.parent[f], f>> \in m.edges /\ \A e \in m.edges : e[1] \in Live(m)
      BY <1>1, <1>2, <2>2 DEF RelationsMade, EdgesClimb
    <2> QED
      BY <2>1, <2>3
  <1>3. \A r \in m.relationships : m.parent[r] \in m.features
    BY DEF RelationsMade
  <1> QED
    BY <1>1, <1>2, <1>3, ShallowIsValid

-------------------------------------------------------------------------------
(* The invariant holds of a new builder *)

\* A new model holds its root only.
LEMMA NewModelIsStar ==
  ASSUME NEW m \in InitialModels
  PROVE  Star(m) /\ m.features = {m.root}
  <1>1. m \in Model /\ m.root \in RootFeature
    BY TransactionAssumption, BuilderAssumption
  <1>2. PICK text \in Text : m = NewModel(m.root, text)
    BY BuilderAssumption
  <1>3. /\ m.features = {m.root} /\ m.relationships = {} /\ m.edges = {}
        /\ m.constraints = {} /\ m.bound = {} /\ m.parent = [n \in Node |-> Nil]
    BY <1>2 DEF NewModel
  <1> QED
    BY <1>1, <1>3 DEF Star

\* No call is executed yet.
LEMMA NothingMade ==
  ASSUME NEW m, Star(m), m.features = {m.root}, \E new \in InitialModels : m.root = new.root,
         NEW q, \A i \in 1..Len(q) : q[i].feature \notin m.features
  PROVE  FeaturesMade(q, m, 0)
  <1>1. MadeBy(q, 0) = {} /\ RootsIn(q, 0) = {}
    BY DEF MadeBy, RootsIn
  <1> QED
    BY <1>1 DEF FeaturesMade, IsRootName

\* The invariant holds in the initial states.
LEMMA BuilderInitially == BuilderInit => BuilderInv
  <1> SUFFICES ASSUME BuilderInit PROVE BuilderInv
    OBVIOUS
  <1> USE DEF BuilderInit
  <1>1. FQ = << >> /\ MQ = << >> /\ RQ = << >> /\ DOMAIN Modifications = Transaction
    BY Transactions DEF FQ, MQ, RQ
  <1>2. QueuesKept
    <2>1. GroupsIn(RQ, Len(RQ)) = {} /\ \A n : EdgesTo(MQ, n, Len(MQ)) = {}
      BY <1>1 DEF GroupsIn, EdgesTo
    <2> QED
      BY <1>1, <2>1 DEF QueuesKept, IsParentName
  <1>3. FeaturesMade(FQ, FM, 0)
    BY <1>1, NewModelIsStar, NothingMade
  <1>4. StageKept
    BY <1>3 DEF StageKept, Stage, Waiting
  <1>5. CloneKept
    BY DEF CloneKept
  <1> QED
    BY <1>2, <1>4, <1>5 DEF BuilderInv, Phase, Result

-------------------------------------------------------------------------------
(* Calls that are asked for *)

\* Append adds one call at the end of a queue.
LEMMA AppendIs ==
  ASSUME NEW S, NEW q \in Seq(S), NEW x \in S
  PROVE  /\ Append(q, x) \in Seq(S)
         /\ Len(q) \in Nat /\ Len(Append(q, x)) = Len(q) + 1
         /\ Append(q, x)[Len(q) + 1] = x
         /\ \A i \in 1..Len(q) : Append(q, x)[i] = q[i]
         /\ 1..Len(Append(q, x)) = 1..Len(q) \cup {Len(q) + 1}
  OBVIOUS

\* A queue with one more feature owns each feature once.
LEMMA FeatureAsked ==
  ASSUME NEW q \in Seq(FeatureCalls), \A i, j \in 1..Len(q) : q[i].feature = q[j].feature => i = j,
         NEW mod \in FeatureCalls, \A i \in 1..Len(q) : q[i].feature # mod.feature
  PROVE  LET p == Append(q, mod) IN
         /\ p \in Seq(FeatureCalls)
         /\ \A i, j \in 1..Len(p) : p[i].feature = p[j].feature => i = j
         /\ \A S : mod.feature \in S /\ (\A i \in 1..Len(q) : q[i].feature \in S)
                     => \A i \in 1..Len(p) : p[i].feature \in S
  <1> DEFINE p == Append(q, mod)
  <1>1. /\ p \in Seq(FeatureCalls) /\ p[Len(q) + 1] = mod
        /\ \A i \in 1..Len(q) : p[i] = q[i]
        /\ 1..Len(p) = 1..Len(q) \cup {Len(q) + 1}
    BY AppendIs
  <1> HIDE DEF p
  <1>2. ASSUME NEW i \in 1..Len(p), NEW j \in 1..Len(p), p[i].feature = p[j].feature PROVE i = j
    BY <1>1, <1>2
  <1> QED
    BY <1>1, <1>2 DEF p

\* A queue with one more group owns each group once.
LEMMA GroupAsked ==
  ASSUME NEW q \in Seq(RelationCalls),
         \A i, j \in GroupsIn(q, Len(q)) : q[i].relationship = q[j].relationship => i = j,
         NEW mod \in RelationCalls,
         mod.op = "AddRelationship" =>
           \A i \in GroupsIn(q, Len(q)) : q[i].relationship # mod.relationship
  PROVE  LET p == Append(q, mod) IN
         /\ p \in Seq(RelationCalls)
         /\ \A i, j \in GroupsIn(p, Len(p)) : p[i].relationship = p[j].relationship => i = j
         /\ \A S : /\ mod.op = "AddRelationship" => mod.relationship \in S
                   /\ \A i \in GroupsIn(q, Len(q)) : q[i].relationship \in S
                   => \A i \in GroupsIn(p, Len(p)) : p[i].relationship \in S
  <1> DEFINE p == Append(q, mod)
  <1>1. /\ p \in Seq(RelationCalls) /\ p[Len(q) + 1] = mod /\ Len(q) \in Nat
        /\ \A i \in 1..Len(q) : p[i] = q[i]
        /\ 1..Len(p) = 1..Len(q) \cup {Len(q) + 1}
    BY AppendIs
  <1> HIDE DEF p
  <1>2. \A i \in GroupsIn(p, Len(p)) :
          \/ i \in GroupsIn(q, Len(q)) /\ p[i] = q[i]
          \/ i = Len(q) + 1 /\ p[i] = mod /\ mod.op = "AddRelationship"
    BY <1>1 DEF GroupsIn
  <1>3. ASSUME NEW i \in GroupsIn(p, Len(p)), NEW j \in GroupsIn(p, Len(p)),
               p[i].relationship = p[j].relationship
        PROVE  i = j
    BY <1>2, <1>3
  <1>4. ASSUME NEW S, mod.op = "AddRelationship" => mod.relationship \in S,
               \A i \in GroupsIn(q, Len(q)) : q[i].relationship \in S
        PROVE  \A i \in GroupsIn(p, Len(p)) : p[i].relationship \in S
    BY <1>2, <1>4
  <1> QED
    BY <1>1, <1>3, <1>4 DEF p

\* The parent that is recorded for a name is the one of its last edge.
LEMMA EdgeAsked ==
  ASSUME NEW q \in Seq(ModelCalls), NEW parents \in [Name -> Name \cup {Nil}],
         \A n \in Name : IsParentName(parents[n], n, q, Len(q)),
         NEW mod \in ModelCalls
  PROVE  LET p == Append(q, mod) IN
         /\ p \in Seq(ModelCalls)
         /\ Recorded(parents, mod) \in [Name -> Name \cup {Nil}]
         /\ \A n \in Name : IsParentName(Recorded(parents, mod)[n], n, p, Len(p))
  <1> DEFINE p == Append(q, mod)
             new == Recorded(parents, mod)
  <1>1. /\ p \in Seq(ModelCalls) /\ p[Len(q) + 1] = mod /\ Len(q) \in Nat /\ Len(p) = Len(q) + 1
        /\ \A i \in 1..Len(q) : p[i] = q[i]
    BY AppendIs
  <1>2. mod.op = "AddChild" => mod.parent \in Name /\ mod.child \in Name
    BY CallFields
  <1>3. new \in [Name -> Name \cup {Nil}]
    BY <1>2 DEF Recorded
  <1>4. \A n \in Name : new[n] = IF mod.op = "AddChild" /\ mod.child = n THEN mod.parent ELSE parents[n]
    BY <1>2 DEF Recorded
  <1> HIDE DEF p, new
  <1>5. ASSUME NEW n \in Name PROVE IsParentName(new[n], n, p, Len(p))
    <2>1. EdgesTo(p, n, Len(q)) = EdgesTo(q, n, Len(q))
      BY <1>1 DEF EdgesTo
    <2>2. EdgesTo(q, n, Len(q)) \subseteq 1..Len(q)
      BY DEF EdgesTo
    <2>3. IsParentName(parents[n], n, q, Len(q))
      BY <1>5
    <2>4. IsParentName(parents[n], n, p, Len(q))
      BY <1>1, <2>1, <2>3 DEF IsParentName
    <2> QED
      BY <1>1, <1>4, <2>4, OneMoreEdge
  <1> QED
    BY <1>1, <1>3, <1>5 DEF p, new

\* A call goes to the queue of one transaction.
LEMMA QueuesGrow ==
  ASSUME DOMAIN Modifications = Transaction, NEW t \in Transaction, NEW mod,
         Modifications' = [Modifications EXCEPT ![t] = Append(@, mod)]
  PROVE  /\ DOMAIN Modifications' = Transaction
         /\ FQ' = IF t = FeatureBuilder THEN Append(FQ, mod) ELSE FQ
         /\ MQ' = IF t = ModelBuilder THEN Append(MQ, mod) ELSE MQ
         /\ RQ' = IF t = RelationBuilder THEN Append(RQ, mod) ELSE RQ
  BY Transactions DEF FQ, MQ, RQ

\* Before the first commit the model has nothing but its root.
LEMMA AskingIs ==
  ASSUME BuilderInv, stage = "asking"
  PROVE  /\ Star(FM) /\ FM.features = {FM.root} /\ FM.root \in Live(FM)
         /\ \A i \in 1..Len(FQ) : FQ[i].feature # FM.root
         /\ \E new \in InitialModels : FM.root = new.root
         /\ \A t \in Transaction : Waiting(t)
         /\ ~undefined
  <1>1. MadeBy(FQ, 0) = {}
    BY DEF MadeBy
  <1>2. 0+1..Len(FQ) = 1..Len(FQ)
    OBVIOUS
  <1> QED
    BY <1>1, <1>2 DEF BuilderInv, StageKept, FeaturesMade, Star, Live

\* Calls that are queued leave it so.
LEMMA AskingStays ==
  ASSUME BuilderInv, stage = "asking", UNCHANGED <<phase, next, result, undefined, stage>>,
         QueuesKept', CloneKept', Star(FM'), FM'.features = FM.features, FM'.root = FM.root,
         \A i \in 1..Len(FQ') : FQ'[i].feature # FM.root
  PROVE  BuilderInv'
  <1>1. /\ FM.features = {FM.root} /\ \E new \in InitialModels : FM.root = new.root
        /\ \A t \in Transaction : Waiting(t)
        /\ ~undefined
    BY AskingIs
  <1>2. FeaturesMade(FQ', FM', 0)
    BY <1>1, NothingMade
  <1>3. \A t \in Transaction : Waiting(t)'
    BY <1>1 DEF Waiting
  <1>4. StageKept'
    BY <1>1, <1>2, <1>3 DEF StageKept, Stage
  <1> QED
    BY <1>4 DEF BuilderInv

\* A call of a client goes to the transaction of its kind.
LEMMA AskKeeps ==
  ASSUME BuilderInv, NEW mod \in Menu, Ask(mod)
  PROVE  BuilderInv'
  <1> DEFINE t == BuilderOf(mod)
  <1>1. /\ QueuesKept /\ stage = "asking" /\ source = Nil
        /\ UNCHANGED <<FM, phase, next, result, undefined, stage, source, cloned>>
        /\ \A x \in Owned(mod) : IsFresh(x)
        /\ Modifications' = [Modifications EXCEPT ![t] = Append(@, mod)]
        /\ Parents' = Recorded(Parents, mod)
    BY DEF BuilderInv, Ask, Queue
  <1>2. mod \in FeatureCalls \cup ModelCalls \cup RelationCalls
    BY BuilderAssumption
  <1>3. t \in Transaction
    BY Transactions DEF BuilderOf
  <1> HIDE DEF t
  <1>4. /\ DOMAIN Modifications' = Transaction
        /\ FQ' = IF t = FeatureBuilder THEN Append(FQ, mod) ELSE FQ
        /\ MQ' = IF t = ModelBuilder THEN Append(MQ, mod) ELSE MQ
        /\ RQ' = IF t = RelationBuilder THEN Append(RQ, mod) ELSE RQ
    <2>1. DOMAIN Modifications = Transaction
      BY <1>1 DEF QueuesKept
    <2> QED
      BY <1>1, <1>3, <2>1, QueuesGrow
  <1>5. /\ FQ \in Seq(FeatureCalls) /\ MQ \in Seq(ModelCalls) /\ RQ \in Seq(RelationCalls)
        /\ \A i, j \in 1..Len(FQ) : FQ[i].feature = FQ[j].feature => i = j
        /\ \A i, j \in GroupsIn(RQ, Len(RQ)) : RQ[i].relationship = RQ[j].relationship => i = j
        /\ Parents \in [Name -> Name \cup {Nil}]
        /\ \A n \in Name : IsParentName(Parents[n], n, MQ, Len(MQ))
    BY <1>1 DEF QueuesKept
  <1>6. /\ Star(FM) /\ FM.root \in Live(FM)
        /\ \A i \in 1..Len(FQ) : FQ[i].feature # FM.root
    BY <1>1, AskingIs
  <1>7. \A x \in Owned(mod), i \in 1..Len(FQ) : x \notin Owned(FQ[i])
    BY <1>1, Transactions DEF IsFresh, Queued, FQ
  <1>8. \A x \in Owned(mod), i \in 1..Len(RQ) : x \notin Owned(RQ[i])
    BY <1>1, Transactions DEF IsFresh, Queued, RQ
  <1>9. CloneKept'
    BY <1>1 DEF BuilderInv, CloneKept
  <1>10. CASE mod \in FeatureCalls
    <2>1. mod.op \in {"AddFeature", "SetRoot"} /\ t = FeatureBuilder /\ Parents' = Parents
      BY <1>1, <1>10, CallFields DEF BuilderOf, Recorded, t
    <2>2. Owned(mod) = {mod.feature} /\ mod.feature # FM.root
      BY <1>1, <1>6, <2>1 DEF Owned, IsFresh
    <2>3. \A i \in 1..Len(FQ) : FQ[i].feature # mod.feature
      BY <1>1, <1>7, <2>2, QueuedCalls DEF Owned
    <2> DEFINE p == Append(FQ, mod)
               S == Feature \ {FM.root}
    <2>4. /\ p \in Seq(FeatureCalls)
          /\ \A i, j \in 1..Len(p) : p[i].feature = p[j].feature => i = j
          /\ \A i \in 1..Len(p) : p[i].feature \in S
      <3>1. mod.feature \in S /\ \A i \in 1..Len(FQ) : FQ[i].feature \in S
        BY <1>1, <1>6, <1>10, <2>2, CallFields, QueuedCalls
      <3> HIDE DEF S
      <3> QED
        BY <1>5, <1>10, <2>3, <3>1, FeatureAsked
    <2>5. FQ' = p /\ MQ' = MQ /\ RQ' = RQ
      BY <1>4, <2>1, Transactions
    <2> HIDE DEF p
    <2>6. QueuesKept'
      BY <1>4, <1>5, <2>1, <2>4, <2>5 DEF QueuesKept
    <2> QED
      BY <1>1, <1>6, <1>9, <2>4, <2>5, <2>6, AskingStays
  <1>11. CASE mod \in ModelCalls
    <2>1. mod.op \in {"AddChild", "SetInfo"} /\ t = ModelBuilder
      BY <1>11, CallFields DEF BuilderOf, t
    <2>2. FQ' = FQ /\ MQ' = Append(MQ, mod) /\ RQ' = RQ
      BY <1>4, <2>1, Transactions
    <2>3. /\ MQ' \in Seq(ModelCalls) /\ Parents' \in [Name -> Name \cup {Nil}]
          /\ \A n \in Name : IsParentName(Parents'[n], n, MQ', Len(MQ'))
      BY <1>1, <1>5, <1>11, <2>2, EdgeAsked
    <2>4. QueuesKept'
      BY <1>4, <1>5, <2>2, <2>3 DEF QueuesKept
    <2> QED
      BY <1>1, <1>6, <1>9, <2>2, <2>4, AskingStays
  <1>12. CASE mod \in RelationCalls
    <2>1. mod.op \in {"AddRelationship", "AddConstraint"} /\ t = RelationBuilder /\ Parents' = Parents
      BY <1>1, <1>12, CallFields DEF BuilderOf, Recorded, t
    <2>2. FQ' = FQ /\ MQ' = MQ /\ RQ' = Append(RQ, mod)
      BY <1>4, <2>1, Transactions
    <2>3. mod.op = "AddRelationship" =>
            \A i \in GroupsIn(RQ, Len(RQ)) : RQ[i].relationship # mod.relationship
      BY <1>8 DEF Owned, GroupsIn
    <2>4. /\ RQ' \in Seq(RelationCalls)
          /\ \A i, j \in GroupsIn(RQ', Len(RQ')) : RQ'[i].relationship = RQ'[j].relationship => i = j
      BY <1>5, <1>12, <2>2, <2>3, GroupAsked
    <2>5. QueuesKept'
      BY <1>4, <1>5, <2>1, <2>2, <2>4 DEF QueuesKept
    <2> QED
      BY <1>1, <1>6, <1>9, <2>2, <2>5, AskingStays
  <1> QED
    BY <1>2, <1>10, <1>11, <1>12

-------------------------------------------------------------------------------
(* Calls of clone *)

\* clone begins with three calls that make no edge.
LEMMA CloneKeeps ==
  ASSUME BuilderInv, NEW m \in Originals, Clone(m)
  PROVE  BuilderInv'
  <1>1. /\ QueuesKept /\ stage = "asking" /\ source = Nil /\ cloned = {} /\ Queued = {}
        /\ UNCHANGED <<FM, phase, next, result, undefined, Parents, stage, cloned>>
        /\ source' = m
    BY DEF BuilderInv, CloneKept, Clone
  <1>2. m \in Model
    BY BuilderAssumption
  <1> DEFINE p == << CloneInfo(m, "Name"), CloneInfo(m, "Commit"), CloneInfo(m, "Path") >>
  <1>3. \A i \in InfoField : CloneInfo(m, i) \in ModelCalls /\ CloneInfo(m, i).op = "SetInfo"
    BY <1>2, ModelFields DEF CloneInfo, ModelCalls
  <1>4. p \in Seq(ModelCalls) /\ \A i \in 1..Len(p) : p[i].op = "SetInfo"
    BY <1>3 DEF InfoField
  <1>5. FQ' = FQ /\ MQ' = p /\ RQ' = RQ /\ DOMAIN Modifications' = Transaction
    BY <1>1, Transactions DEF Clone, QueuesKept, FQ, MQ, RQ
  <1> HIDE DEF p
  <1>6. Len(FQ) = 0 /\ Len(MQ) = 0 /\ Len(RQ) = 0
    <2>1. /\ \A i \in 1..Len(FQ) : FQ[i] \in Queued
          /\ \A i \in 1..Len(MQ) : MQ[i] \in Queued
          /\ \A i \in 1..Len(RQ) : RQ[i] \in Queued
      BY Transactions DEF Queued, FQ, MQ, RQ
    <2>2. Len(FQ) \in Nat /\ Len(MQ) \in Nat /\ Len(RQ) \in Nat
      BY <1>1 DEF QueuesKept
    <2>3. 1 \notin 1..Len(FQ) /\ 1 \notin 1..Len(MQ) /\ 1 \notin 1..Len(RQ)
      BY <1>1, <2>1
    <2> QED
      BY <2>2, <2>3
  <1>7. ASSUME NEW n \in Name PROVE IsParentName(Parents[n], n, p, Len(p))
    <2>1. EdgesTo(MQ, n, Len(MQ)) = {} /\ EdgesTo(p, n, Len(p)) = {}
      BY <1>4, <1>6 DEF EdgesTo
    <2>2. Parents[n] = Nil
      BY <1>1, <2>1 DEF QueuesKept, IsParentName
    <2> QED
      BY <2>1, <2>2 DEF IsParentName
  <1>8. QueuesKept'
    BY <1>1, <1>4, <1>5, <1>7 DEF QueuesKept
  <1>9. CloneKept'
    BY <1>1, <1>5, <1>6 DEF CloneKept, GroupsIn
  <1>10. Star(FM) /\ \A i \in 1..Len(FQ) : FQ[i].feature # FM.root
    BY <1>1, AskingIs
  <1> QED
    BY <1>1, <1>5, <1>8, <1>9, <1>10, AskingStays

\* What is cloned is a tree, whose objects have twins of their own.
LEMMA OriginalIs ==
  ASSUME NEW m \in Originals
  PROVE  /\ m \in Model /\ WellFormed(m)
         /\ \A x, y \in Live(m) \cup m.constraints : Twin[x] = Twin[y] => x = y
         /\ \A f \in m.features : Twin[f] \in Feature /\ (f \in RootFeature => Twin[f] \in RootFeature)
         /\ \A r \in m.relationships : Twin[r] \in Relationship
         /\ \A c \in m.constraints : Twin[c] \in Constraint
         /\ \A new \in InitialModels : TwinsOf(m) \cap Live(new) = {}
  BY BuilderAssumption

\* The feature above another has a name.
LEMMA OriginalParent ==
  ASSUME NEW m \in Originals, NEW f \in m.features
  PROVE  ParentFeature(m, f) \in Feature \cup {Nil}
  <1>1. /\ m \in Model /\ EdgesMatchParents(m) /\ Rooted(m) /\ GroupsWellPlaced(m)
        /\ m.features \subseteq Feature
    BY OriginalIs, ModelFields DEF WellFormed
  <1>2. CASE f = m.root
    <2>1. m.parent[f] = Nil /\ f \in Feature
      BY <1>1, <1>2 DEF Rooted
    <2>2. Up(m, f) = Nil
      BY <2>1, ConstantsAssumption DEF Up, Node
    <2> QED
      BY <1>1, <2>1, <2>2, ClimbIs
  <1>3. CASE f # m.root
    BY <1>1, <1>3, ParentFeatureIs
  <1> QED
    BY <1>2, <1>3

\* clone asks for a feature it has not asked for.
LEMMA CloneFeatureKeeps ==
  ASSUME BuilderInv, source # Nil, NEW f \in source.features, CloneFeature(f)
  PROVE  BuilderInv'
  <1> DEFINE m == source
             p == ParentFeature(m, f)
             feature == IF f \in RootFeature THEN [op |-> "SetRoot", feature |-> Twin[f]]
                        ELSE [op |-> "AddFeature", feature |-> Twin[f], parent |-> Nil]
             edge == [op |-> "AddChild", parent |-> NameOf[p], child |-> NameOf[f]]
  <1>1. /\ QueuesKept /\ stage = "asking" /\ f \notin cloned
        /\ m \in Originals /\ cloned \subseteq Live(m) \cup m.constraints
        /\ \A i \in 1..Len(FQ) : FQ[i].feature \in {Twin[g] : g \in cloned \cap m.features}
        /\ \A i \in GroupsIn(RQ, Len(RQ)) :
             RQ[i].relationship \in {Twin[r] : r \in cloned \cap m.relationships}
    BY DEF BuilderInv, CloneKept, CloneFeature, Cloning
  <1>2. /\ Modifications' = [Modifications EXCEPT
                               ![FeatureBuilder] = Append(@, feature),
                               ![ModelBuilder] = IF p = Nil THEN @ ELSE Append(@, edge)]
        /\ Parents' = IF p = Nil THEN Parents ELSE Recorded(Parents, edge)
        /\ FM' = IF f \in RootFeature THEN FM
                 ELSE [FM EXCEPT !.locations[Twin[f]] = m.locations[f], !.output[Twin[f]] = Nil]
        /\ cloned' = cloned \cup {f}
        /\ UNCHANGED <<phase, next, result, undefined, stage, source>>
    BY DEF CloneFeature, CloneWithEdge
  <1>3. /\ m \in Model /\ f \in Feature /\ m.features \subseteq Live(m)
        /\ \A x, y \in Live(m) \cup m.constraints : Twin[x] = Twin[y] => x = y
        /\ Twin[f] \in Feature /\ (f \in RootFeature => Twin[f] \in RootFeature)
        /\ \A new \in InitialModels : TwinsOf(m) \cap Live(new) = {}
    BY <1>1, OriginalIs, ModelFields DEF Live
  <1>4. p \in Feature \cup {Nil}
    BY <1>1, OriginalParent
  <1>5. /\ feature \in FeatureCalls /\ feature.feature = Twin[f]
        /\ p # Nil => edge \in ModelCalls
    BY <1>3, <1>4, ConstantsAssumption DEF FeatureCalls, ModelCalls
  <1> HIDE DEF m, p, feature, edge
  <1>6. /\ FQ \in Seq(FeatureCalls) /\ MQ \in Seq(ModelCalls) /\ RQ \in Seq(RelationCalls)
        /\ \A i, j \in 1..Len(FQ) : FQ[i].feature = FQ[j].feature => i = j
        /\ \A i, j \in GroupsIn(RQ, Len(RQ)) : RQ[i].relationship = RQ[j].relationship => i = j
        /\ Parents \in [Name -> Name \cup {Nil}]
        /\ \A n \in Name : IsParentName(Parents[n], n, MQ, Len(MQ))
        /\ DOMAIN Modifications = Transaction
    BY <1>1 DEF QueuesKept
  <1>7. /\ FQ' = Append(FQ, feature) /\ MQ' = (IF p = Nil THEN MQ ELSE Append(MQ, edge)) /\ RQ' = RQ
        /\ DOMAIN Modifications' = Transaction
    BY <1>2, <1>6, Transactions DEF FQ, MQ, RQ
  <1>8. /\ Star(FM) /\ FM.root \in Live(FM)
        /\ \A i \in 1..Len(FQ) : FQ[i].feature # FM.root
        /\ \E new \in InitialModels : FM.root = new.root
    BY <1>1, AskingIs
  <1>9. Twin[f] # FM.root
    <2>1. PICK new \in InitialModels : FM.root = new.root
      BY <1>8
    <2>2. new.root \in Live(new)
      BY NewModelIsStar DEF Live
    <2>3. Twin[f] \in TwinsOf(m)
      BY <1>3 DEF TwinsOf, m
    <2> QED
      BY <1>3, <2>1, <2>2, <2>3
  <1>10. \A i \in 1..Len(FQ) : FQ[i].feature # feature.feature
    <2>1. \A g \in cloned \cap m.features : Twin[g] # Twin[f]
      BY <1>1, <1>3 DEF m
    <2> QED
      BY <1>1, <1>5, <2>1
  <1>11. /\ FQ' \in Seq(FeatureCalls)
         /\ \A i, j \in 1..Len(FQ') : FQ'[i].feature = FQ'[j].feature => i = j
         /\ \A i \in 1..Len(FQ') : FQ'[i].feature # FM.root
         /\ \A i \in 1..Len(FQ') : FQ'[i].feature \in {Twin[g] : g \in cloned' \cap m.features}
    <2> DEFINE S == Feature \ {FM.root}
               T == {Twin[g] : g \in cloned' \cap m.features}
    <2>1. feature.feature \in S /\ \A i \in 1..Len(FQ) : FQ[i].feature \in S
      BY <1>1, <1>3, <1>5, <1>8, <1>9, QueuedCalls
    <2>2. feature.feature \in T /\ \A i \in 1..Len(FQ) : FQ[i].feature \in T
      BY <1>1, <1>2, <1>5 DEF m
    <2> HIDE DEF S, T
    <2>3. /\ FQ' \in Seq(FeatureCalls)
          /\ \A i, j \in 1..Len(FQ') : FQ'[i].feature = FQ'[j].feature => i = j
          /\ \A i \in 1..Len(FQ') : FQ'[i].feature \in S
          /\ \A i \in 1..Len(FQ') : FQ'[i].feature \in T
      BY <1>5, <1>6, <1>7, <1>10, <2>1, <2>2, FeatureAsked
    <2> QED
      BY <2>3 DEF S, T
  <1>12. /\ MQ' \in Seq(ModelCalls) /\ Parents' \in [Name -> Name \cup {Nil}]
         /\ \A n \in Name : IsParentName(Parents'[n], n, MQ', Len(MQ'))
    <2>1. CASE p = Nil
      BY <1>2, <1>6, <1>7, <2>1
    <2>2. CASE p # Nil
      BY <1>2, <1>5, <1>6, <1>7, <2>2, EdgeAsked
    <2> QED
      BY <2>1, <2>2
  <1>13. QueuesKept'
    BY <1>6, <1>7, <1>11, <1>12 DEF QueuesKept
  <1>14. CloneKept'
    <2>1. source' = source /\ source \in Originals /\ cloned' \subseteq Live(source) \cup source.constraints
      BY <1>1, <1>2, <1>3 DEF m
    <2>2. \A i \in GroupsIn(RQ', Len(RQ')) :
            RQ'[i].relationship \in {Twin[r] : r \in cloned' \cap source.relationships}
      BY <1>1, <1>2, <1>7 DEF m
    <2> QED
      BY <1>11, <2>1, <2>2 DEF CloneKept, m
  <1>15. Star(FM') /\ FM'.features = FM.features /\ FM'.root = FM.root
    <2>1. CASE f \in RootFeature
      BY <1>2, <1>8, <2>1
    <2>2. CASE f \notin RootFeature
      <3>1. m.locations[f] \in [Location -> Nat] /\ FM \in Model
        BY <1>3, <1>8, ModelFields DEF Star
      <3>2. /\ FM' \in Model /\ FM'.features = FM.features /\ FM'.relationships = FM.relationships
            /\ FM'.root = FM.root /\ FM'.parent = FM.parent /\ FM'.edges = FM.edges
            /\ FM'.constraints = FM.constraints /\ FM'.bound = FM.bound
        BY <1>2, <1>3, <2>2, <3>1 DEF Model
      <3> QED
        BY <1>8, <3>2 DEF Star
    <2> QED
      BY <2>1, <2>2
  <1> QED
    BY <1>1, <1>2, <1>11, <1>13, <1>14, <1>15, AskingStays

\* A call for a group or a constraint.
LEMMA CloneNextKeeps ==
  ASSUME BuilderInv, source # Nil, NEW x \in Live(source) \cup source.constraints,
         NEW before, NEW mod \in RelationCalls, CloneNext(x, before, mod),
         mod.op = "AddRelationship" => x \in source.relationships /\ mod.relationship = Twin[x]
  PROVE  BuilderInv'
  <1> DEFINE m == source
  <1>1. /\ QueuesKept /\ stage = "asking" /\ x \notin cloned
        /\ m \in Originals /\ cloned \subseteq Live(m) \cup m.constraints
        /\ \A i \in 1..Len(FQ) : FQ[i].feature \in {Twin[g] : g \in cloned \cap m.features}
        /\ \A i \in GroupsIn(RQ, Len(RQ)) :
             RQ[i].relationship \in {Twin[r] : r \in cloned \cap m.relationships}
    BY DEF BuilderInv, CloneKept, CloneNext, Cloning
  <1>2. /\ Modifications' = [Modifications EXCEPT ![RelationBuilder] = Append(@, mod)]
        /\ cloned' = cloned \cup {x}
        /\ UNCHANGED <<FM, phase, next, result, undefined, Parents, stage, source>>
    BY DEF CloneNext
  <1>3. /\ \A y, z \in Live(m) \cup m.constraints : Twin[y] = Twin[z] => y = z
        /\ m.relationships \subseteq Live(m)
    BY <1>1, OriginalIs DEF Live
  <1>4. /\ FQ \in Seq(FeatureCalls) /\ MQ \in Seq(ModelCalls) /\ RQ \in Seq(RelationCalls)
        /\ \A i, j \in 1..Len(FQ) : FQ[i].feature = FQ[j].feature => i = j
        /\ \A i, j \in GroupsIn(RQ, Len(RQ)) : RQ[i].relationship = RQ[j].relationship => i = j
        /\ Parents \in [Name -> Name \cup {Nil}]
        /\ \A n \in Name : IsParentName(Parents[n], n, MQ, Len(MQ))
        /\ DOMAIN Modifications = Transaction
    BY <1>1 DEF QueuesKept
  <1>5. FQ' = FQ /\ MQ' = MQ /\ RQ' = Append(RQ, mod) /\ DOMAIN Modifications' = Transaction
    BY <1>2, <1>4, QueuesGrow, Transactions
  <1>6. mod.op = "AddRelationship" =>
          \A i \in GroupsIn(RQ, Len(RQ)) : RQ[i].relationship # mod.relationship
    <2>1. \A r \in cloned \cap m.relationships : Twin[r] # Twin[x]
      BY <1>1, <1>3
    <2> QED
      BY <1>1, <2>1
  <1>7. /\ RQ' \in Seq(RelationCalls)
        /\ \A i, j \in GroupsIn(RQ', Len(RQ')) : RQ'[i].relationship = RQ'[j].relationship => i = j
        /\ \A i \in GroupsIn(RQ', Len(RQ')) :
             RQ'[i].relationship \in {Twin[r] : r \in cloned' \cap m.relationships}
    <2> DEFINE S == {Twin[r] : r \in cloned' \cap m.relationships}
    <2>1. /\ mod.op = "AddRelationship" => mod.relationship \in S
          /\ \A i \in GroupsIn(RQ, Len(RQ)) : RQ[i].relationship \in S
      BY <1>1, <1>2
    <2> HIDE DEF S
    <2>2. /\ RQ' \in Seq(RelationCalls)
          /\ \A i, j \in GroupsIn(RQ', Len(RQ')) : RQ'[i].relationship = RQ'[j].relationship => i = j
          /\ \A i \in GroupsIn(RQ', Len(RQ')) : RQ'[i].relationship \in S
      BY <1>4, <1>5, <1>6, <2>1, GroupAsked
    <2> QED
      BY <2>2 DEF S
  <1>8. QueuesKept'
    BY <1>2, <1>4, <1>5, <1>7 DEF QueuesKept
  <1>9. CloneKept'
    <2>1. source' = source /\ source \in Originals /\ cloned' \subseteq Live(source) \cup source.constraints
      BY <1>1, <1>2
    <2>2. \A i \in 1..Len(FQ') : FQ'[i].feature \in {Twin[g] : g \in cloned' \cap source.features}
      BY <1>1, <1>2, <1>5
    <2> QED
      BY <1>7, <2>1, <2>2 DEF CloneKept
  <1>10. Star(FM) /\ \A i \in 1..Len(FQ) : FQ[i].feature # FM.root
    BY <1>1, AskingIs
  <1> QED
    BY <1>1, <1>2, <1>5, <1>8, <1>9, <1>10, AskingStays

\* The calls of clone keep the invariant.
LEMMA CloneCallKeeps ==
  ASSUME BuilderInv, source # Nil, CloneCall
  PROVE  BuilderInv'
  <1>1. source \in Originals
    BY DEF BuilderInv, CloneKept
  <1>2. /\ source \in Model /\ WellFormed(source) /\ source.features \subseteq Feature
        /\ \A r \in source.relationships : Twin[r] \in Relationship
        /\ \A c \in source.constraints : Twin[c] \in Constraint
    BY <1>1, OriginalIs, ModelFields
  <1>3. ASSUME NEW r \in source.relationships, CloneRelationship(r) PROVE BuilderInv'
    <2> DEFINE mod == [op |-> "AddRelationship", relationship |-> Twin[r],
                       ref |-> NameOf[source.parent[r]]]
    <2>1. source.parent[r] \in Feature
      BY <1>2, <1>3 DEF WellFormed, GroupsWellPlaced
    <2>2. mod \in RelationCalls /\ r \in Live(source)
      BY <1>2, <1>3, <2>1, ConstantsAssumption DEF RelationCalls, Live
    <2> QED
      BY <1>3, <2>2, CloneNextKeeps DEF CloneRelationship
  <1>4. ASSUME NEW c \in source.constraints, CloneConstraint(c) PROVE BuilderInv'
    <2> DEFINE mod == [op |-> "AddConstraint", constraint |-> Twin[c]]
    <2>1. mod \in RelationCalls /\ mod.op # "AddRelationship"
      BY <1>2, <1>4 DEF RelationCalls
    <2> QED
      BY <1>4, <2>1, CloneNextKeeps DEF CloneConstraint
  <1> QED
    BY <1>3, <1>4, CloneFeatureKeeps DEF CloneCall

-------------------------------------------------------------------------------
(* The commits *)

\* No call is made any more.
LEMMA NothingAsked ==
  ASSUME BuilderInv, UNCHANGED <<Modifications, Parents, source, cloned>>
  PROVE  /\ FQ' = FQ /\ MQ' = MQ /\ RQ' = RQ
         /\ QueuesKept' /\ CloneKept'
         /\ Consistent' <=> Consistent
         /\ TreeLike' <=> TreeLike
  <1>1. FQ' = FQ /\ MQ' = MQ /\ RQ' = RQ
    BY DEF FQ, MQ, RQ
  <1>2. QueuesKept'
    BY <1>1 DEF BuilderInv, QueuesKept
  <1>3. CloneKept'
    BY <1>1 DEF BuilderInv, CloneKept
  <1>4. Queued' = Queued /\ RootName' = RootName
    BY DEF Queued, RootName
  <1>5. \A op : Asked(op)' = Asked(op)
    BY <1>4 DEF Asked
  <1>6. AskedFeatures' = AskedFeatures /\ KnownNames' = KnownNames /\ RootNames' = RootNames
    BY <1>4, <1>5 DEF AskedFeatures, KnownNames, RootNames
  <1>7. Consistent' <=> Consistent
    BY <1>4, <1>5, <1>6 DEF Consistent
  <1>8. TreeLike' <=> TreeLike
    BY <1>4, <1>5, <1>6 DEF TreeLike
  <1> QED
    BY <1>1, <1>2, <1>3, <1>7, <1>8

\* buildFeatureModel begins with the features.
LEMMA BuildKeeps ==
  ASSUME BuilderInv, BuildFeatureModel
  PROVE  BuilderInv'
  <1>1. /\ stage = "asking" /\ stage' = "features" /\ ~undefined
        /\ UNCHANGED <<FM, Modifications, next, result, undefined, Parents, source, cloned>>
        /\ phase' = [phase EXCEPT ![FeatureBuilder] = "committing"]
    BY DEF BuildFeatureModel, Commit, Idle
  <1>2. FQ' = FQ /\ QueuesKept' /\ CloneKept'
    BY <1>1, NothingAsked
  <1>3. /\ phase \in [Transaction -> Phase] /\ next \in [Transaction -> Nat]
        /\ result \in [Transaction -> Result]
    BY DEF BuilderInv
  <1>4. \A t \in Transaction : Waiting(t)
    BY <1>1, AskingIs
  <1>5. FeaturesMade(FQ, FM, 0) /\ Len(FQ) \in Nat
    BY <1>1 DEF BuilderInv, StageKept, QueuesKept
  <1>6. next[FeatureBuilder] = 1 /\ FeaturesMade(FQ, FM, next[FeatureBuilder] - 1)
    BY <1>4, <1>5, Transactions DEF Waiting
  <1>7. Waiting(ModelBuilder)' /\ Waiting(RelationBuilder)'
    BY <1>1, <1>3, <1>4, Transactions DEF Waiting
  <1>8. Committing(FeatureBuilder)'
    BY <1>1, <1>2, <1>3, <1>5, <1>6, Transactions DEF Committing, FQ
  <1>9. StageKept'
    BY <1>1, <1>2, <1>6, <1>7, <1>8 DEF StageKept, Stage
  <1>10. phase' \in [Transaction -> Phase]
    BY <1>1, <1>3 DEF Phase
  <1> QED
    BY <1>1, <1>2, <1>3, <1>9, <1>10 DEF BuilderInv

\* What a commit returns and the phases it goes through.
LEMMA StepKeepsTypes ==
  ASSUME BuilderInv, NEW t \in Transaction, NEW code \in ErrorCode \cup {"OK", "INCONSISTENT"},
         \/ UNCHANGED <<phase, result>> /\ next' = [next EXCEPT ![t] = @ + 1]
         \/ /\ phase' = [phase EXCEPT ![t] = "closed"]
            /\ result' = [result EXCEPT ![t] = code]
            /\ UNCHANGED next \/ next' = [next EXCEPT ![t] = @ + 1]
  PROVE  /\ phase' \in [Transaction -> Phase] /\ next' \in [Transaction -> Nat]
         /\ result' \in [Transaction -> Result]
         /\ \A u \in Transaction \ {t} : phase'[u] = phase[u] /\ next'[u] = next[u] /\ result'[u] = result[u]
         /\ phase' # phase => phase'[t] = "closed" /\ result'[t] = code
         /\ next' = [next EXCEPT ![t] = @ + 1] => next'[t] = next[t] + 1
  <1>1. /\ phase \in [Transaction -> Phase] /\ next \in [Transaction -> Nat]
        /\ result \in [Transaction -> Result]
    BY DEF BuilderInv
  <1>2. code \in Result
    BY DEF Result
  <1>3. CASE UNCHANGED <<phase, result>> /\ next' = [next EXCEPT ![t] = @ + 1]
    BY <1>1, <1>3
  <1>4. CASE /\ phase' = [phase EXCEPT ![t] = "closed"]
             /\ result' = [result EXCEPT ![t] = code]
             /\ UNCHANGED next \/ next' = [next EXCEPT ![t] = @ + 1]
    <2>1. "closed" \in Phase
      BY DEF Phase
    <2> QED
      BY <1>1, <1>2, <1>4, <2>1
  <1> QED
    BY <1>3, <1>4

\* Only the transaction whose turn it is executes anything.
LEMMA TurnIs ==
  ASSUME BuilderInv, NEW t \in Transaction, BuilderStep(t)
  PROVE  /\ phase[t] = "committing"
         /\ \/ /\ stage = "features" /\ t = FeatureBuilder /\ Committing(t)
               /\ FeaturesMade(FQ, FM, next[t] - 1)
            \/ /\ stage = "tree" /\ t = ModelBuilder /\ Committing(t)
               /\ TreeMade(FQ, MQ, FM, next[t] - 1)
            \/ /\ stage = "relations" /\ t = RelationBuilder /\ Committing(t)
               /\ RelationsMade(FQ, Parents, RQ, FM, next[t] - 1)
               /\ TreeLike => GroupsTakeAll(FM)
  <1>1. phase[t] \in Running /\ ~undefined
    BY DEF BuilderStep, Step, Execute, Finish
  <1>2. phase[t] # "open" /\ phase[t] # "closed"
    BY <1>1 DEF Running
  <1>3. StageKept /\ stage \in Stage
    BY DEF BuilderInv, StageKept
  <1>4. stage # "asking"
    BY <1>2, AskingIs DEF Waiting
  <1>5. stage \notin {"built", "failed"}
    BY <1>2, <1>3 DEF StageKept
  <1>6. CASE stage = "features"
    BY <1>2, <1>3, <1>6, Transactions DEF StageKept, Waiting, Committing, Succeeded, Failed
  <1>7. CASE stage = "tree"
    BY <1>2, <1>3, <1>7, Transactions DEF StageKept, Waiting, Committing, Succeeded, Failed
  <1>8. CASE stage = "relations"
    BY <1>1, <1>2, <1>3, <1>8, Transactions DEF StageKept, Waiting, Committing, Succeeded, Failed
  <1> QED
    BY <1>3, <1>4, <1>5, <1>6, <1>7, <1>8 DEF Stage

\* Calls name what they are about, so it makes no difference which features wait in a queue.
LEMMA BuilderOutcomes ==
  ASSUME BuilderInv, NEW t \in Transaction, BuilderStep(t)
  PROVE  /\ next[t] <= Len(Modifications[t]) =>
              OutcomesAmong(FM, Modifications[t][next[t]], Alive) = Outcomes(FM, Modifications[t][next[t]])
         /\ CheckIsSafe(FM, Live(FM)) => CheckIsSafe(FM, Alive)
  <1> DEFINE mod == Modifications[t][next[t]]
  <1>1. FM \in Model
    BY TurnIs DEF FeaturesMade, Star, TreeMade, RelationsMade, Settled
  <1>2. Alive \in SUBSET Node /\ Live(FM) \subseteq Alive
    BY <1>1, ModelFields DEF Alive, QueuedFeatures, Live, Node
  <1>3. next[t] <= Len(Modifications[t]) => next[t] \in 1..Len(Modifications[t])
    BY TurnIs, Transactions DEF Committing, BuilderInv, QueuesKept, FQ, MQ, RQ
  <1> SUFFICES ASSUME next[t] \in 1..Len(Modifications[t])
               PROVE  OutcomesAmong(FM, mod, Alive) = Outcomes(FM, mod)
    BY <1>1, <1>2, <1>3, CheckIsSafeAmong
  <1>4. ASSUME EdgesMatchParents(FM), FM.root \in FM.features, mod \in FeatureCalls \cup ModelCalls
        PROVE  OutcomesAmong(FM, mod, Alive) = Outcomes(FM, mod)
    <2>1. mod \in Modification
      BY <1>4, ConstantsAssumption DEF FeatureCalls, ModelCalls, Modification
    <2>2. PointsTo(mod) = {}
      BY <1>4, CallFields DEF PointsTo
    <2> HIDE DEF mod
    <2> QED
      BY <1>1, <1>2, <1>4, <2>1, <2>2, QueuedFeaturesDoNotMatter
  <1>5. CASE stage = "features"
    <2>1. Star(FM) /\ mod \in FeatureCalls
      BY <1>5, TurnIs, QueuedCalls DEF FeaturesMade, BuilderInv, FQ
    <2>2. FM.root \in FM.features /\ FM.features \subseteq Feature /\ Nil \notin Node
      BY <1>1, <2>1, ModelFields, ConstantsAssumption DEF Star
    <2>3. EdgesMatchParents(FM)
      BY <2>1, <2>2 DEF Star, EdgesMatchParents, Live, Node
    <2> QED
      BY <1>4, <2>1, <2>2, <2>3
  <1>6. CASE stage = "tree"
    <2>1. TreeMade(FQ, MQ, FM, next[t] - 1) /\ mod \in ModelCalls
      BY <1>6, TurnIs, QueuedCalls DEF BuilderInv, MQ
    <2> QED
      BY <1>4, <2>1 DEF TreeMade, Settled
  <1>7. CASE stage = "relations"
    <2>1. RelationsMade(FQ, Parents, RQ, FM, next[t] - 1) /\ mod \in RelationCalls
      BY <1>7, TurnIs, QueuedCalls DEF BuilderInv, RQ
    <2>2. CASE mod.op = "AddConstraint"
      BY <2>2 DEF Outcomes, OutcomesAmong
    <2>3. CASE mod.op = "AddRelationship"
      <3> DEFINE p == Resolve(FM, mod.ref)
      <3>1. p \in FM.features \cup {Nil}
        BY <1>1, <2>1, <2>3, CallFields, GetFeatureFinds DEF Resolve
      <3>2. ASSUME p \in FM.features
            PROVE  /\ WalkIsSafe(FM, p, Relationship, Live(FM)) /\ WalkIsSafe(FM, p, Relationship, Alive)
                   /\ p \in Live(FM) /\ p \in Alive
        <4>1. WalkIsSafe(FM, p, Relationship, Live(FM))
          BY <1>1, <2>1, <3>2, ClimbingWalk DEF RelationsMade
        <4> QED
          BY <1>2, <3>2, <4>1 DEF WalkIsSafe, Live
      <3>3. ASSUME p = Nil
            PROVE  p \notin Live(FM) /\ p \notin Alive
        BY <1>2, <3>3, ConstantsAssumption
      <3>4. AddRelationship(FM, mod.relationship, mod.ref, Alive)
              = AddRelationship(FM, mod.relationship, mod.ref, Live(FM))
        BY <3>1, <3>2, <3>3 DEF AddRelationship
      <3> QED
        BY <2>3, <3>4 DEF Outcomes, OutcomesAmong
    <2> QED
      BY <2>1, <2>2, <2>3, CallFields
  <1> QED
    BY <1>5, <1>6, <1>7, TurnIs

\* A step of the commit of t goes on, ends the commit, or has no defined behaviour.
LEMMA StepIs ==
  ASSUME BuilderInv, NEW t \in Transaction, BuilderStep(t), phase[t] = "committing"
  PROVE  /\ ~undefined /\ next[t] \in Nat
         /\ UNCHANGED <<Modifications, Parents, stage, source, cloned>>
         /\ \/ /\ next[t] <= Len(Modifications[t])
               /\ \E o \in Outcomes(FM, Modifications[t][next[t]]) :
                    /\ FM' = o.model /\ undefined' = (o.code = "UB")
                    /\ o.code \in {"OK", "UB"} =>
                         UNCHANGED <<phase, result>> /\ next' = [next EXCEPT ![t] = @ + 1]
                    /\ o.code \notin {"OK", "UB"} =>
                         /\ phase' = [phase EXCEPT ![t] = "closed"]
                         /\ result' = [result EXCEPT ![t] = o.code]
                         /\ next' = [next EXCEPT ![t] = @ + 1]
            \/ /\ next[t] > Len(Modifications[t])
               /\ UNCHANGED <<FM, undefined, next>>
               /\ phase' = [phase EXCEPT ![t] = "closed"]
               /\ result' = [result EXCEPT ![t] = IF IsFeatureModelValid(FM) THEN "OK" ELSE "INCONSISTENT"]
            \/ next[t] > Len(Modifications[t]) /\ ~CheckIsSafe(FM, Live(FM))
  <1>1. /\ ~undefined /\ UNCHANGED <<Parents, stage, source, cloned>>
        /\ next[t] \in Nat
    BY DEF BuilderInv, BuilderStep, Step, Execute, Finish
  <1>2. Len(Modifications[t]) \in Nat
    BY TurnIs, Transactions DEF BuilderInv, QueuesKept, FQ, MQ, RQ
  <1>3. CASE Execute(t)
    <2>1. /\ next[t] <= Len(Modifications[t])
          /\ \A code : End(t, code) =>
               /\ UNCHANGED Modifications
               /\ phase' = [phase EXCEPT ![t] = "closed"]
               /\ result' = [result EXCEPT ![t] = code]
               /\ next' = [next EXCEPT ![t] = IF @ > Len(Modifications[t]) THEN @ ELSE @ + 1]
      BY <1>3 DEF Execute, End
    <2>2. ~(next[t] > Len(Modifications[t]))
      BY <1>1, <2>1, <1>2
    <2> QED
      BY <1>1, <1>3, <2>1, <2>2, BuilderOutcomes DEF Execute
  <1>4. CASE Finish(t)
    <2>1. next[t] > Len(Modifications[t]) /\ next = [next EXCEPT ![t] = @]
      BY <1>4 DEF Finish, BuilderInv
    <2> QED
      BY <1>1, <1>4, <2>1, BuilderOutcomes DEF Finish, End
  <1> QED
    BY <1>3, <1>4 DEF BuilderStep, Step

\* The first transaction makes the features and the root.
LEMMA FeatureStepKeeps ==
  ASSUME BuilderInv, NEW t \in Transaction, BuilderStep(t), stage = "features"
  PROVE  BuilderInv'
  <1> DEFINE k == next[t] - 1
  <1>1. /\ phase[t] = "committing" /\ t = FeatureBuilder /\ Committing(t)
        /\ FeaturesMade(FQ, FM, k)
    BY TurnIs
  <1>2. /\ ~undefined /\ next[t] \in Nat
        /\ UNCHANGED <<Modifications, Parents, stage, source, cloned>>
    BY <1>1, StepIs
  <1>3. /\ FQ' = FQ /\ QueuesKept' /\ CloneKept' /\ (Consistent' <=> Consistent)
        /\ QueuesKept /\ Modifications[t] = FQ /\ Len(FQ) \in Nat
    BY <1>1, <1>2, NothingAsked DEF BuilderInv, QueuesKept, FQ
  <1>4. Waiting(ModelBuilder) /\ Waiting(RelationBuilder) /\ next[t] \in 1..Len(FQ) + 1
    BY <1>1, <1>3 DEF BuilderInv, StageKept, Committing
  <1>5. ASSUME next[t] <= Len(Modifications[t]),
               NEW o \in Outcomes(FM, Modifications[t][next[t]]),
               FM' = o.model, undefined' = (o.code = "UB"),
               o.code \in {"OK", "UB"} =>
                 UNCHANGED <<phase, result>> /\ next' = [next EXCEPT ![t] = @ + 1],
               o.code \notin {"OK", "UB"} =>
                 /\ phase' = [phase EXCEPT ![t] = "closed"]
                 /\ result' = [result EXCEPT ![t] = o.code]
                 /\ next' = [next EXCEPT ![t] = @ + 1]
        PROVE  BuilderInv'
    <2>1. k \in 0..(Len(FQ) - 1) /\ k + 1 = next[t]
      BY <1>2, <1>3, <1>4, <1>5
    <2>2. o \in Outcomes(FM, FQ[k + 1])
      BY <1>3, <1>5, <2>1
    <2>3. \/ o.code = "OK" /\ FeaturesMade(FQ, FM', k + 1)
          \/ o.code \in ErrorCode /\ ~Consistent
      BY <1>1, <1>3, <1>5, <2>1, <2>2, FeatureIsMade
    <2>4. undefined' = FALSE /\ o.code \in ErrorCode \cup {"OK", "INCONSISTENT"}
          /\ (o.code \in ErrorCode => o.code \notin {"OK", "UB"})
      BY <1>5, <2>3 DEF ErrorCode
    <2>5. /\ phase' \in [Transaction -> Phase] /\ next' \in [Transaction -> Nat]
          /\ result' \in [Transaction -> Result]
          /\ \A u \in Transaction \ {t} : phase'[u] = phase[u] /\ next'[u] = next[u]
          /\ o.code = "OK" => next'[t] = next[t] + 1 /\ phase'[t] = phase[t]
          /\ o.code \in ErrorCode => phase'[t] = "closed" /\ result'[t] = o.code
      BY <1>5, <2>4, StepKeepsTypes DEF BuilderInv
    <2>6. Waiting(ModelBuilder)' /\ Waiting(RelationBuilder)'
      BY <1>1, <1>4, <2>5, Transactions DEF Waiting
    <2>7. CASE o.code = "OK" /\ FeaturesMade(FQ, FM', k + 1)
      <3>1. next'[t] - 1 = k + 1 /\ next'[t] \in 1..Len(FQ) + 1
        BY <1>2, <1>3, <1>4, <1>5, <2>5, <2>7
      <3>2. Committing(FeatureBuilder)' /\ FeaturesMade(FQ', FM', next'[FeatureBuilder] - 1)
        BY <1>1, <1>2, <1>3, <2>5, <2>7, <3>1 DEF Committing
      <3>3. StageKept'
        BY <1>2, <2>4, <2>6, <3>2 DEF StageKept, Stage
      <3> QED
        BY <1>3, <2>5, <3>3 DEF BuilderInv
    <2>8. CASE o.code \in ErrorCode /\ ~Consistent
      <3>1. Failed(FeatureBuilder)'
        BY <1>1, <1>3, <2>4, <2>5, <2>8 DEF Failed
      <3>2. StageKept'
        BY <1>2, <2>4, <2>6, <3>1 DEF StageKept, Stage
      <3> QED
        BY <1>3, <2>5, <3>2 DEF BuilderInv
    <2> QED
      BY <2>3, <2>7, <2>8
  <1>6. ASSUME next[t] > Len(Modifications[t]) PROVE k = Len(FQ)
    BY <1>2, <1>3, <1>4, <1>6
  <1>7. ASSUME next[t] > Len(Modifications[t])
        PROVE  /\ CheckIsSafe(FM, Live(FM))
               /\ IsFeatureModelValid(FM) => NamesIdentify(FM)
               /\ ~IsFeatureModelValid(FM) => ~Consistent
    <2>1. FeaturesMade(FQ, FM, Len(FQ))
      BY <1>1, <1>6, <1>7
    <2> QED
      BY <1>3, <2>1, FeaturesAreChecked
  <1>8. ASSUME next[t] > Len(Modifications[t]), UNCHANGED <<FM, undefined, next>>,
               phase' = [phase EXCEPT ![t] = "closed"],
               result' = [result EXCEPT ![t] = IF IsFeatureModelValid(FM) THEN "OK" ELSE "INCONSISTENT"]
        PROVE  BuilderInv'
    <2> DEFINE code == IF IsFeatureModelValid(FM) THEN "OK" ELSE "INCONSISTENT"
    <2>1. /\ phase' \in [Transaction -> Phase] /\ next' \in [Transaction -> Nat]
          /\ result' \in [Transaction -> Result]
          /\ \A u \in Transaction \ {t} : phase'[u] = phase[u] /\ next'[u] = next[u]
      BY <1>8, StepKeepsTypes DEF BuilderInv
    <2>2. phase'[t] = "closed" /\ result'[t] = code
      BY <1>8 DEF BuilderInv
    <2>3. Waiting(ModelBuilder)' /\ Waiting(RelationBuilder)'
      BY <1>1, <1>4, <2>1, Transactions DEF Waiting
    <2>4. CASE IsFeatureModelValid(FM)
      <3>1. FeaturesMade(FQ', FM', Len(FQ)') /\ NamesIdentify(FM')
        BY <1>1, <1>3, <1>6, <1>7, <1>8, <2>4
      <3>2. Succeeded(FeatureBuilder)'
        BY <1>1, <2>2, <2>4 DEF Succeeded
      <3>3. StageKept'
        BY <1>2, <1>8, <2>3, <3>1, <3>2 DEF StageKept, Stage
      <3> QED
        BY <1>3, <2>1, <3>3 DEF BuilderInv
    <2>5. CASE ~IsFeatureModelValid(FM)
      <3>1. Failed(FeatureBuilder)'
        BY <1>1, <1>3, <1>7, <1>8, <2>2, <2>5 DEF Failed
      <3>2. StageKept'
        BY <1>2, <1>8, <2>3, <3>1 DEF StageKept, Stage
      <3> QED
        BY <1>3, <2>1, <3>2 DEF BuilderInv
    <2> QED
      BY <2>4, <2>5
  <1> QED
    BY <1>1, <1>5, <1>7, <1>8, StepIs

\* The second transaction moves the features below their parents.
LEMMA TreeStepKeeps ==
  ASSUME BuilderInv, NEW t \in Transaction, BuilderStep(t), stage = "tree"
  PROVE  BuilderInv'
  <1> DEFINE k == next[t] - 1
  <1>1. /\ phase[t] = "committing" /\ t = ModelBuilder /\ Committing(t)
        /\ TreeMade(FQ, MQ, FM, k)
    BY TurnIs
  <1>2. /\ ~undefined /\ next[t] \in Nat
        /\ UNCHANGED <<Modifications, Parents, stage, source, cloned>>
    BY <1>1, StepIs
  <1>3. /\ FQ' = FQ /\ MQ' = MQ /\ QueuesKept' /\ CloneKept' /\ (Consistent' <=> Consistent)
        /\ QueuesKept /\ Modifications[t] = MQ /\ Len(MQ) \in Nat
    BY <1>1, <1>2, NothingAsked DEF BuilderInv, QueuesKept, MQ
  <1>4. phase[FeatureBuilder] = "closed" /\ Waiting(RelationBuilder) /\ next[t] \in 1..Len(MQ) + 1
    BY <1>1, <1>3 DEF BuilderInv, StageKept, Committing
  <1>5. ASSUME next[t] <= Len(Modifications[t]),
               NEW o \in Outcomes(FM, Modifications[t][next[t]]),
               FM' = o.model, undefined' = (o.code = "UB"),
               o.code \in {"OK", "UB"} =>
                 UNCHANGED <<phase, result>> /\ next' = [next EXCEPT ![t] = @ + 1],
               o.code \notin {"OK", "UB"} =>
                 /\ phase' = [phase EXCEPT ![t] = "closed"]
                 /\ result' = [result EXCEPT ![t] = o.code]
                 /\ next' = [next EXCEPT ![t] = @ + 1]
        PROVE  BuilderInv'
    <2>1. k \in 0..(Len(MQ) - 1) /\ k + 1 = next[t]
      BY <1>2, <1>3, <1>4, <1>5
    <2>2. o \in Outcomes(FM, MQ[k + 1])
      BY <1>3, <1>5, <2>1
    <2>3. \/ o.code = "OK" /\ TreeMade(FQ, MQ, FM', k + 1)
          \/ o.code \in ErrorCode /\ ~Consistent
      BY <1>1, <1>3, <1>5, <2>1, <2>2, EdgeIsMade
    <2>4. undefined' = FALSE /\ o.code \in ErrorCode \cup {"OK", "INCONSISTENT"}
          /\ (o.code \in ErrorCode => o.code \notin {"OK", "UB"})
      BY <1>5, <2>3 DEF ErrorCode
    <2>5. /\ phase' \in [Transaction -> Phase] /\ next' \in [Transaction -> Nat]
          /\ result' \in [Transaction -> Result]
          /\ \A u \in Transaction \ {t} : phase'[u] = phase[u] /\ next'[u] = next[u]
          /\ o.code = "OK" => next'[t] = next[t] + 1 /\ phase'[t] = phase[t]
          /\ o.code \in ErrorCode => phase'[t] = "closed" /\ result'[t] = o.code
      BY <1>5, <2>4, StepKeepsTypes DEF BuilderInv
    <2>6. phase'[FeatureBuilder] = "closed" /\ Waiting(RelationBuilder)'
      BY <1>1, <1>4, <2>5, Transactions DEF Waiting
    <2>7. CASE o.code = "OK" /\ TreeMade(FQ, MQ, FM', k + 1)
      <3>1. next'[t] - 1 = k + 1 /\ next'[t] \in 1..Len(MQ) + 1
        BY <1>2, <1>3, <1>4, <1>5, <2>5, <2>7
      <3>2. Committing(ModelBuilder)' /\ TreeMade(FQ', MQ', FM', next'[ModelBuilder] - 1)
        BY <1>1, <1>2, <1>3, <2>5, <2>7, <3>1 DEF Committing
      <3>3. StageKept'
        BY <1>2, <2>4, <2>6, <3>2 DEF StageKept, Stage
      <3> QED
        BY <1>3, <2>5, <3>3 DEF BuilderInv
    <2>8. CASE o.code \in ErrorCode /\ ~Consistent
      <3>1. Failed(ModelBuilder)'
        BY <1>1, <1>3, <2>4, <2>5, <2>8 DEF Failed
      <3>2. StageKept'
        BY <1>2, <2>4, <2>6, <3>1 DEF StageKept, Stage
      <3> QED
        BY <1>3, <2>5, <3>2 DEF BuilderInv
    <2> QED
      BY <2>3, <2>7, <2>8
  <1>6. ASSUME next[t] > Len(Modifications[t]) PROVE k = Len(MQ)
    BY <1>2, <1>3, <1>4, <1>6
  <1>7. CheckIsSafe(FM, Live(FM)) /\ IsFeatureModelValid(FM)
    BY <1>1, TreeIsChecked
  <1>8. ASSUME next[t] > Len(Modifications[t]), UNCHANGED <<FM, undefined, next>>,
               phase' = [phase EXCEPT ![t] = "closed"],
               result' = [result EXCEPT ![t] = "OK"]
        PROVE  BuilderInv'
    <2>1. /\ phase' \in [Transaction -> Phase] /\ next' \in [Transaction -> Nat]
          /\ result' \in [Transaction -> Result]
          /\ \A u \in Transaction \ {t} : phase'[u] = phase[u] /\ next'[u] = next[u]
      BY <1>8, StepKeepsTypes DEF BuilderInv
    <2>2. phase'[t] = "closed" /\ result'[t] = "OK"
      BY <1>8 DEF BuilderInv
    <2>3. phase'[FeatureBuilder] = "closed" /\ Waiting(RelationBuilder)'
      BY <1>1, <1>4, <2>1, Transactions DEF Waiting
    <2>4. TreeMade(FQ', MQ', FM', Len(MQ)')
      BY <1>1, <1>3, <1>6, <1>8
    <2>5. Succeeded(ModelBuilder)'
      BY <1>1, <2>2 DEF Succeeded
    <2>6. StageKept'
      BY <1>2, <1>8, <2>3, <2>4, <2>5 DEF StageKept, Stage
    <2> QED
      BY <1>3, <2>1, <2>6 DEF BuilderInv
  <1> QED
    BY <1>1, <1>5, <1>7, <1>8, StepIs

\* The third transaction makes the groups and the constraints.
LEMMA RelationStepKeeps ==
  ASSUME BuilderInv, NEW t \in Transaction, BuilderStep(t), stage = "relations"
  PROVE  BuilderInv'
  <1> DEFINE k == next[t] - 1
             Made(m, n) == RelationsMade(FQ, Parents, RQ, m, n) /\ (TreeLike => GroupsTakeAll(m))
  <1>1. /\ phase[t] = "committing" /\ t = RelationBuilder /\ Committing(t)
        /\ Made(FM, k)
    BY TurnIs
  <1>2. /\ ~undefined /\ next[t] \in Nat
        /\ UNCHANGED <<Modifications, Parents, stage, source, cloned>>
    BY <1>1, StepIs
  <1>3. /\ FQ' = FQ /\ RQ' = RQ /\ QueuesKept' /\ CloneKept' /\ (Consistent' <=> Consistent)
        /\ (TreeLike' <=> TreeLike) /\ QueuesKept /\ Modifications[t] = RQ /\ Len(RQ) \in Nat
    BY <1>1, <1>2, NothingAsked DEF BuilderInv, QueuesKept, RQ
  <1>4. /\ phase[FeatureBuilder] = "closed" /\ phase[ModelBuilder] = "closed"
        /\ next[t] \in 1..Len(RQ) + 1
    BY <1>1, <1>3 DEF BuilderInv, StageKept, Committing
  <1>5. ASSUME next[t] <= Len(Modifications[t]),
               NEW o \in Outcomes(FM, Modifications[t][next[t]]),
               FM' = o.model, undefined' = (o.code = "UB"),
               o.code \in {"OK", "UB"} =>
                 UNCHANGED <<phase, result>> /\ next' = [next EXCEPT ![t] = @ + 1],
               o.code \notin {"OK", "UB"} =>
                 /\ phase' = [phase EXCEPT ![t] = "closed"]
                 /\ result' = [result EXCEPT ![t] = o.code]
                 /\ next' = [next EXCEPT ![t] = @ + 1]
        PROVE  BuilderInv'
    <2>1. k \in 0..(Len(RQ) - 1) /\ k + 1 = next[t]
      BY <1>2, <1>3, <1>4, <1>5
    <2>2. o \in Outcomes(FM, RQ[k + 1])
      BY <1>3, <1>5, <2>1
    <2>3. \/ o.code = "OK" /\ Made(FM', k + 1)
          \/ o.code \in ErrorCode \cup {"UB"} /\ ~Consistent
      BY <1>1, <1>3, <1>5, <2>1, <2>2, RelationIsMade
    <2>4. ASSUME o.code # "UB" PROVE o.code \in ErrorCode \cup {"OK", "INCONSISTENT"}
      BY <2>3, <2>4
    <2>5. o.code \in ErrorCode => o.code \notin {"OK", "UB"}
      BY DEF ErrorCode
    <2>6. /\ phase' \in [Transaction -> Phase] /\ next' \in [Transaction -> Nat]
          /\ result' \in [Transaction -> Result]
          /\ \A u \in Transaction \ {t} : phase'[u] = phase[u] /\ next'[u] = next[u]
          /\ o.code = "OK" => next'[t] = next[t] + 1 /\ phase'[t] = phase[t]
          /\ o.code \in ErrorCode => phase'[t] = "closed" /\ result'[t] = o.code
      <3>1. CASE o.code \in {"OK", "UB"}
        <4>1. UNCHANGED <<phase, result>> /\ next' = [next EXCEPT ![t] = @ + 1]
          BY <1>5, <3>1
        <4> QED
          BY <2>5, <3>1, <4>1, StepKeepsTypes DEF BuilderInv
      <3>2. CASE o.code \notin {"OK", "UB"}
        BY <1>5, <2>4, <3>2, StepKeepsTypes DEF BuilderInv
      <3> QED
        BY <3>1, <3>2
    <2>7. phase'[FeatureBuilder] = "closed" /\ phase'[ModelBuilder] = "closed"
      BY <1>1, <1>4, <2>6, Transactions
    <2>8. CASE o.code = "OK" /\ Made(FM', k + 1)
      <3>1. next'[t] - 1 = k + 1 /\ next'[t] \in 1..Len(RQ) + 1
        BY <1>2, <1>3, <1>4, <1>5, <2>6, <2>8
      <3>2. ~undefined'
        BY <1>5, <2>8
      <3>3. /\ Committing(RelationBuilder)'
            /\ RelationsMade(FQ', Parents', RQ', FM', next'[RelationBuilder] - 1)
            /\ TreeLike' => GroupsTakeAll(FM')
        BY <1>1, <1>2, <1>3, <2>6, <2>8, <3>1 DEF Committing
      <3>4. StageKept'
        BY <1>2, <2>7, <3>2, <3>3 DEF StageKept, Stage
      <3> QED
        BY <1>3, <2>6, <3>4 DEF BuilderInv
    <2>9. CASE o.code \in ErrorCode /\ ~Consistent
      <3>1. Failed(RelationBuilder)' /\ ~undefined'
        BY <1>1, <1>3, <1>5, <2>5, <2>6, <2>9 DEF Failed, ErrorCode
      <3>2. StageKept'
        BY <1>2, <2>7, <3>1 DEF StageKept, Stage
      <3> QED
        BY <1>3, <2>6, <3>2 DEF BuilderInv
    <2>10. CASE o.code = "UB" /\ ~Consistent
      <3>1. undefined' /\ ~Consistent'
        BY <1>3, <1>5, <2>10
      <3>2. StageKept'
        BY <1>2, <2>7, <3>1 DEF StageKept, Stage
      <3> QED
        BY <1>3, <2>6, <3>2 DEF BuilderInv
    <2> QED
      BY <2>3, <2>8, <2>9, <2>10
  <1>6. ASSUME next[t] > Len(Modifications[t]) PROVE k = Len(RQ)
    BY <1>2, <1>3, <1>4, <1>6
  <1>7. CheckIsSafe(FM, Live(FM)) /\ IsFeatureModelValid(FM)
    BY <1>1, RelationsAreChecked
  <1>8. ASSUME next[t] > Len(Modifications[t]), UNCHANGED <<FM, undefined, next>>,
               phase' = [phase EXCEPT ![t] = "closed"],
               result' = [result EXCEPT ![t] = "OK"]
        PROVE  BuilderInv'
    <2>1. /\ phase' \in [Transaction -> Phase] /\ next' \in [Transaction -> Nat]
          /\ result' \in [Transaction -> Result]
          /\ \A u \in Transaction \ {t} : phase'[u] = phase[u] /\ next'[u] = next[u]
      BY <1>8, StepKeepsTypes DEF BuilderInv
    <2>2. phase'[t] = "closed" /\ result'[t] = "OK"
      BY <1>8 DEF BuilderInv
    <2>3. phase'[FeatureBuilder] = "closed" /\ phase'[ModelBuilder] = "closed"
      BY <1>1, <1>4, <2>1, Transactions
    <2>4. RelationsMade(FQ', Parents', RQ', FM', Len(RQ)') /\ (TreeLike' => GroupsTakeAll(FM'))
      BY <1>1, <1>2, <1>3, <1>6, <1>8
    <2>5. Succeeded(RelationBuilder)'
      BY <1>1, <2>2 DEF Succeeded
    <2>6. StageKept'
      BY <1>2, <1>8, <2>3, <2>4, <2>5 DEF StageKept, Stage
    <2> QED
      BY <1>3, <2>1, <2>6 DEF BuilderInv
  <1> QED
    BY <1>1, <1>5, <1>7, <1>8, StepIs

-------------------------------------------------------------------------------
(* One commit follows the other *)

\* What a finished commit leaves behind.
LEMMA CommitIsOver ==
  ASSUME BuilderInv, Idle
  PROVE  /\ stage = "features" => IF result[FeatureBuilder] = "OK"
                                  THEN FeaturesMade(FQ, FM, Len(FQ)) /\ NamesIdentify(FM)
                                  ELSE ~Consistent
         /\ stage = "tree" => IF result[ModelBuilder] = "OK" THEN TreeMade(FQ, MQ, FM, Len(MQ))
                              ELSE ~Consistent
         /\ stage = "relations" => IF result[RelationBuilder] = "OK"
                                   THEN /\ RelationsMade(FQ, Parents, RQ, FM, Len(RQ))
                                        /\ TreeLike => GroupsTakeAll(FM)
                                   ELSE ~Consistent
  <1>1. \A t \in Transaction : ~Committing(t)
    BY DEF Idle, Running, Committing
  <1>2. ~undefined
    BY DEF Idle
  <1>3. StageKept
    BY DEF BuilderInv
  <1>4. CASE stage = "features"
    BY <1>1, <1>3, <1>4, Transactions DEF StageKept, Succeeded, Failed
  <1>5. CASE stage = "tree"
    BY <1>1, <1>3, <1>5, Transactions DEF StageKept, Succeeded, Failed
  <1>6. CASE stage = "relations"
    BY <1>1, <1>2, <1>3, <1>6, Transactions DEF StageKept, Succeeded, Failed
  <1> QED
    BY <1>4, <1>5, <1>6

\* A commit that succeeds is followed by the next, one that fails by none.
LEMMA ProceedKeeps ==
  ASSUME BuilderInv, FeaturesBuilt \/ TreeBuilt \/ RelationsBuilt
  PROVE  BuilderInv'
  <1>1. /\ UNCHANGED <<FM, Modifications, next, result, undefined, Parents, source, cloned>>
        /\ Idle /\ ~undefined
    BY DEF FeaturesBuilt, TreeBuilt, RelationsBuilt, Proceed, Idle
  <1>2. /\ FQ' = FQ /\ MQ' = MQ /\ RQ' = RQ /\ QueuesKept' /\ CloneKept' /\ QueuesKept
        /\ Consistent' <=> Consistent
        /\ TreeLike' <=> TreeLike
    BY <1>1, NothingAsked DEF BuilderInv
  <1>3. /\ phase \in [Transaction -> Phase] /\ next \in [Transaction -> Nat]
        /\ result \in [Transaction -> Result]
    BY DEF BuilderInv
  <1>4. \A t \in Transaction : [phase EXCEPT ![t] = "committing"] \in [Transaction -> Phase]
    BY <1>3 DEF Phase
  <1>5. ASSUME ~Consistent, stage' = "failed", phase' = [v \in Transaction |-> "closed"]
        PROVE  BuilderInv'
    <2>1. phase' \in [Transaction -> Phase]
      BY <1>5 DEF Phase
    <2>2. StageKept'
      BY <1>1, <1>2, <1>5 DEF StageKept, Stage
    <2> QED
      BY <1>1, <1>2, <1>3, <2>1, <2>2 DEF BuilderInv
  <1>6. CASE FeaturesBuilt
    <2>1. /\ stage = "features" /\ phase[FeatureBuilder] = "closed"
          /\ IF result[FeatureBuilder] = "OK"
             THEN stage' = "tree" /\ phase' = [phase EXCEPT ![ModelBuilder] = "committing"]
             ELSE stage' = "failed" /\ phase' = [v \in Transaction |-> "closed"]
      BY <1>6 DEF FeaturesBuilt, Proceed
    <2>2. Waiting(ModelBuilder) /\ Waiting(RelationBuilder)
      BY <2>1 DEF BuilderInv, StageKept
    <2>3. CASE result[FeatureBuilder] = "OK"
      <3>1. TreeMade(FQ, MQ, FM, 0) /\ Len(MQ) \in Nat
        BY <1>1, <1>2, <2>1, <2>3, CommitIsOver, TreeBegins DEF QueuesKept
      <3>2. phase'[FeatureBuilder] = "closed" /\ Waiting(RelationBuilder)'
        BY <1>1, <1>3, <2>1, <2>2, <2>3, Transactions DEF Waiting
      <3>3. phase'[ModelBuilder] = "committing" /\ next'[ModelBuilder] = 1
        BY <1>1, <1>3, <2>1, <2>2, <2>3, Transactions DEF Waiting
      <3>4. Committing(ModelBuilder)' /\ TreeMade(FQ', MQ', FM', next'[ModelBuilder] - 1)
        BY <1>1, <1>2, <3>1, <3>3 DEF Committing, MQ
      <3>5. StageKept'
        BY <1>1, <2>1, <2>3, <3>2, <3>4 DEF StageKept, Stage
      <3> QED
        BY <1>1, <1>2, <1>3, <1>4, <2>1, <2>3, <3>5, Transactions DEF BuilderInv
    <2>4. CASE result[FeatureBuilder] # "OK"
      BY <1>1, <1>5, <2>1, <2>4, CommitIsOver
    <2> QED
      BY <2>3, <2>4
  <1>7. CASE TreeBuilt
    <2>1. /\ stage = "tree" /\ phase[ModelBuilder] = "closed"
          /\ IF result[ModelBuilder] = "OK"
             THEN stage' = "relations" /\ phase' = [phase EXCEPT ![RelationBuilder] = "committing"]
             ELSE stage' = "failed" /\ phase' = [v \in Transaction |-> "closed"]
      BY <1>7 DEF TreeBuilt, Proceed
    <2>2. phase[FeatureBuilder] = "closed" /\ Waiting(RelationBuilder)
      BY <2>1 DEF BuilderInv, StageKept
    <2>3. CASE result[ModelBuilder] = "OK"
      <3>1. RelationsMade(FQ, Parents, RQ, FM, 0) /\ (TreeLike => GroupsTakeAll(FM)) /\ Len(RQ) \in Nat
        BY <1>1, <1>2, <2>1, <2>3, CommitIsOver, RelationsBegin DEF QueuesKept
      <3>2. phase'[FeatureBuilder] = "closed" /\ phase'[ModelBuilder] = "closed"
        BY <1>1, <1>3, <2>1, <2>2, <2>3, Transactions
      <3>3. phase'[RelationBuilder] = "committing" /\ next'[RelationBuilder] = 1
        BY <1>1, <1>3, <2>1, <2>2, <2>3, Transactions DEF Waiting
      <3>4. /\ Committing(RelationBuilder)'
            /\ RelationsMade(FQ', Parents', RQ', FM', next'[RelationBuilder] - 1)
            /\ TreeLike' => GroupsTakeAll(FM')
        BY <1>1, <1>2, <3>1, <3>3 DEF Committing, RQ
      <3>5. StageKept'
        BY <1>1, <2>1, <2>3, <3>2, <3>4 DEF StageKept, Stage
      <3> QED
        BY <1>1, <1>2, <1>3, <1>4, <2>1, <2>3, <3>5, Transactions DEF BuilderInv
    <2>4. CASE result[ModelBuilder] # "OK"
      BY <1>1, <1>5, <2>1, <2>4, CommitIsOver
    <2> QED
      BY <2>3, <2>4
  <1>8. CASE RelationsBuilt
    <2>1. /\ stage = "relations" /\ phase[RelationBuilder] = "closed"
          /\ IF result[RelationBuilder] = "OK" THEN stage' = "built" /\ phase' = phase
             ELSE stage' = "failed" /\ phase' = [v \in Transaction |-> "closed"]
      BY <1>8 DEF RelationsBuilt, Proceed
    <2>2. phase[FeatureBuilder] = "closed" /\ phase[ModelBuilder] = "closed"
      BY <2>1 DEF BuilderInv, StageKept
    <2>3. CASE result[RelationBuilder] = "OK"
      <3>1. /\ RelationsMade(FQ', Parents', RQ', FM', Len(RQ)')
            /\ TreeLike' => GroupsTakeAll(FM')
        BY <1>1, <1>2, <2>1, <2>3, CommitIsOver
      <3>2. \A t \in Transaction : phase'[t] = "closed"
        BY <2>1, <2>2, <2>3, Transactions
      <3>3. StageKept'
        BY <1>1, <2>1, <2>3, <3>1, <3>2 DEF StageKept, Stage
      <3> QED
        BY <1>1, <1>2, <1>3, <2>1, <2>3, <3>3 DEF BuilderInv
    <2>4. CASE result[RelationBuilder] # "OK"
      BY <1>1, <1>5, <2>1, <2>4, CommitIsOver
    <2> QED
      BY <2>3, <2>4
  <1> QED
    BY <1>6, <1>7, <1>8

\* A second build changes nothing but what it returns.
LEMMA BuildAgainKeeps ==
  ASSUME BuilderInv, BuildAgain
  PROVE  BuilderInv'
  <1>1. /\ stage \in {"built", "failed"}
        /\ result' = [result EXCEPT ![FeatureBuilder] = "ABORTED"]
        /\ UNCHANGED <<FM, phase, Modifications, next, undefined, Parents, stage, source, cloned>>
    BY DEF BuildAgain, CommitAgain
  <1>2. /\ FQ' = FQ /\ MQ' = MQ /\ RQ' = RQ /\ QueuesKept' /\ CloneKept'
        /\ Consistent' <=> Consistent
        /\ TreeLike' <=> TreeLike
    BY <1>1, NothingAsked
  <1>3. result' \in [Transaction -> Result]
    BY <1>1 DEF BuilderInv, Result
  <1>4. StageKept'
    BY <1>1, <1>2 DEF BuilderInv, StageKept, Stage
  <1> QED
    BY <1>1, <1>2, <1>3, <1>4 DEF BuilderInv

\* A builder that follows a destroyed one begins anew.
LEMMA DestroyKeeps ==
  ASSUME DestroyBuilder
  PROVE  BuilderInit'
  BY DEF DestroyBuilder, BuilderInit, Idle

\* Nothing happens.
LEMMA BuilderStutterKeeps ==
  ASSUME BuilderInv, UNCHANGED builderVars
  PROVE  BuilderInv'
  <1>1. /\ UNCHANGED <<FM, phase, Modifications, next, result, undefined>>
        /\ UNCHANGED <<Parents, stage, source, cloned>>
    BY DEF builderVars, vars
  <1>2. /\ FQ' = FQ /\ MQ' = MQ /\ RQ' = RQ /\ QueuesKept' /\ CloneKept'
        /\ Consistent' <=> Consistent
        /\ TreeLike' <=> TreeLike
    BY <1>1, NothingAsked
  <1>3. StageKept
    BY DEF BuilderInv
  <1>4. \A t \in Transaction : /\ Waiting(t)' <=> Waiting(t)
                               /\ Committing(t)' <=> Committing(t)
                               /\ Succeeded(t)' <=> Succeeded(t)
                               /\ Failed(t)' <=> Failed(t)
    BY <1>1, <1>2 DEF Waiting, Committing, Succeeded, Failed
  <1>5. StageKept'
    BY <1>1, <1>2, <1>3, <1>4, Transactions DEF StageKept
  <1> QED
    BY <1>1, <1>2, <1>5 DEF BuilderInv

-------------------------------------------------------------------------------
(* The invariant, and what it means *)

\* Every step of a commit keeps the invariant.
LEMMA BuilderStepKeeps ==
  ASSUME BuilderInv, NEW t \in Transaction, BuilderStep(t)
  PROVE  BuilderInv'
  <1>1. stage \in {"features", "tree", "relations"}
    BY TurnIs
  <1> QED
    BY <1>1, FeatureStepKeeps, TreeStepKeeps, RelationStepKeeps

\* What the builder has built at every point of every run is what the calls made so
\* far ask for.
THEOREM BuilderInvariant == BuilderSpec => []BuilderInv
  <1>1. BuilderInit => BuilderInv
    BY BuilderInitially
  <1>2. BuilderInit' => BuilderInv'
    BY <1>1, PTL
  <1>3. BuilderInv /\ [BuilderNext]_builderVars => BuilderInv'
    <2> SUFFICES ASSUME BuilderInv, [BuilderNext]_builderVars
                 PROVE  BuilderInv'
      OBVIOUS
    <2>1. ASSUME NEW mod \in Menu, Ask(mod) PROVE BuilderInv'
      BY <2>1, AskKeeps
    <2>2. ASSUME NEW m \in Originals, Clone(m) PROVE BuilderInv'
      BY <2>2, CloneKeeps
    <2>3. CASE source # Nil /\ CloneCall
      BY <2>3, CloneCallKeeps
    <2>4. CASE BuildFeatureModel
      BY <2>4, BuildKeeps
    <2>5. ASSUME NEW t \in Transaction, BuilderStep(t) PROVE BuilderInv'
      BY <2>5, BuilderStepKeeps
    <2>6. CASE FeaturesBuilt \/ TreeBuilt \/ RelationsBuilt
      BY <2>6, ProceedKeeps
    <2>7. CASE BuildAgain
      BY <2>7, BuildAgainKeeps
    <2>8. CASE DestroyBuilder
      BY <1>2, <2>8, DestroyKeeps
    <2>9. CASE UNCHANGED builderVars
      BY <2>9, BuilderStutterKeeps
    <2> QED
      BY <2>1, <2>2, <2>3, <2>4, <2>5, <2>6, <2>7, <2>8, <2>9 DEF BuilderNext
  <1> QED
    BY <1>1, <1>3, PTL DEF BuilderSpec

\* If the edges that were asked for describe a tree, the model that is handed out is
\* one, with all its groups and constraints in place.
THEOREM BuiltTreesAreWellFormedHolds == BuilderSpec => []BuiltTreesAreWellFormed
  <1>1. BuilderInv => BuiltTreesAreWellFormed
    BY DEF BuilderInv, StageKept, GroupsTakeAll, BuiltTreesAreWellFormed
  <1> QED
    BY <1>1, BuilderInvariant, PTL

\* Calls that do not contradict each other are built, whatever their order: nothing
\* that a call refers to is missing when the call is executed.
THEOREM BuildsWhatIsConsistentHolds == BuilderSpec => []BuildsWhatIsConsistent
  <1>1. BuilderInv => BuildsWhatIsConsistent
    BY DEF BuilderInv, StageKept, BuildsWhatIsConsistent
  <1> QED
    BY <1>1, BuilderInvariant, PTL

\* The feature, or null, above a feature of a finished model is the parent feature.
LEMMA ParentsAreUp ==
  ASSUME NEW m, NEW k, RelationsMade(FQ, Parents, RQ, m, k), NEW f \in m.features
  PROVE  ParentFeature(m, f) = Up(m, f)
  <1>1. m \in Model /\ m.features \subseteq Feature /\ m.root \in m.features
    BY ModelFields DEF RelationsMade, Settled
  <1>2. IsNamed(m, f, Up(m, f), Parents[NameOf[f]])
    BY DEF RelationsMade
  <1>3. Up(m, f) \in m.features \cup {Nil}
    BY <1>1, <1>2 DEF IsNamed
  <1> QED
    BY <1>1, <1>3, ClimbIs

\* The model that is handed out has the features that were asked for, each below the
\* parent named last for it, and the groups and constraints where they belong.
THEOREM BuiltAsAskedHolds == BuilderSpec => []BuiltAsAsked
  <1>1. ASSUME BuilderInv PROVE BuiltAsAsked
    <2> SUFFICES ASSUME stage = "built"
                 PROVE  /\ FM.features \ {FM.root} = AskedFeatures
                        /\ \A f \in AskedFeatures :
                             LET p == Parents[NameOf[f]] IN
                             NameOf[ParentFeature(FM, f)] = IF p # Nil THEN p ELSE RootName
                        /\ \A mod \in Asked("AddRelationship") :
                             /\ NameOf[FM.parent[mod.relationship]] = mod.ref
                             /\ TreeLike => Targets(FM, {FM.parent[mod.relationship]}) = {mod.relationship}
                        /\ \A mod \in Asked("AddConstraint") : \A n \in Mentions[mod.constraint] :
                             \E f \in FM.features : NameOf[f] = n /\ <<mod.constraint, f>> \in FM.bound
      BY DEF BuiltAsAsked
    <2>1. /\ QueuesKept /\ Len(RQ) \in Nat
          /\ RelationsMade(FQ, Parents, RQ, FM, Len(RQ))
          /\ TreeLike => GroupsTakeAll(FM)
      BY <1>1 DEF BuilderInv, StageKept, QueuesKept
    <2>2. Settled(FQ, FM)
      BY <2>1 DEF RelationsMade
    <2>3. FM.features \ {FM.root} = AskedFeatures /\ RootName = NameOf[FM.root]
      BY <2>1, <2>2, KnownNamesAre
    <2>4. ASSUME NEW f \in AskedFeatures
          PROVE  NameOf[ParentFeature(FM, f)] = IF Parents[NameOf[f]] # Nil THEN Parents[NameOf[f]] ELSE RootName
      <3>1. f \in FM.features \ {FM.root}
        BY <2>3, <2>4
      <3>2. ParentFeature(FM, f) = Up(FM, f)
        BY <2>1, <3>1, ParentsAreUp
      <3>3. IsNamed(FM, f, Up(FM, f), Parents[NameOf[f]])
        BY <2>1, <3>1 DEF RelationsMade
      <3> QED
        BY <2>3, <3>1, <3>2, <3>3 DEF IsNamed
    <2>5. ASSUME NEW mod \in Asked("AddRelationship")
          PROVE  /\ NameOf[FM.parent[mod.relationship]] = mod.ref
                 /\ TreeLike => Targets(FM, {FM.parent[mod.relationship]}) = {mod.relationship}
      <3>1. PICK i \in GroupsIn(RQ, Len(RQ)) : mod = RQ[i]
        BY <2>1, <2>5, AskedAre
      <3>2. mod.relationship \in FM.relationships /\ NameOf[FM.parent[mod.relationship]] = mod.ref
        BY <2>1, <3>1 DEF RelationsMade
      <3> QED
        BY <2>1, <3>2 DEF GroupsTakeAll
    <2>6. ASSUME NEW mod \in Asked("AddConstraint"), NEW n \in Mentions[mod.constraint]
          PROVE  \E f \in FM.features : NameOf[f] = n /\ <<mod.constraint, f>> \in FM.bound
      <3>1. PICK i \in ConstraintsIn(RQ, Len(RQ)) : mod = RQ[i]
        BY <2>1, <2>6, AskedAre
      <3> QED
        BY <2>1, <2>6, <3>1 DEF RelationsMade
    <2> QED
      BY <2>3, <2>4, <2>5, <2>6
  <1> QED
    BY <1>1, BuilderInvariant, PTL

-------------------------------------------------------------------------------
(* What clone asks for *)

FeatureCall(f) ==
  IF f \in RootFeature THEN [op |-> "SetRoot", feature |-> Twin[f]]
  ELSE [op |-> "AddFeature", feature |-> Twin[f], parent |-> Nil]

EdgeCall(m, f) ==
  [op |-> "AddChild", parent |-> NameOf[ParentFeature(m, f)], child |-> NameOf[f]]

GroupCall(m, r) ==
  [op |-> "AddRelationship", relationship |-> Twin[r], ref |-> NameOf[m.parent[r]]]

ConstraintCall(c) == [op |-> "AddConstraint", constraint |-> Twin[c]]

Calls(q, first) == {q[i] : i \in first..Len(q)}

FeatureCallsFor(m, C) == {FeatureCall(f) : f \in C \cap m.features}
EdgeCallsFor(m, C) ==
  {EdgeCall(m, f) : f \in {g \in C \cap m.features : ParentFeature(m, g) # Nil}}
RelationCallsFor(m, C) ==
  {GroupCall(m, r) : r \in C \cap m.relationships} \cup {ConstraintCall(c) : c \in C \cap m.constraints}

InfoCalls(m) == << CloneInfo(m, "Name"), CloneInfo(m, "Commit"), CloneInfo(m, "Path") >>

\* The queues of a clone hold the calls for what was cloned so far, and no others.
CloneAsks ==
  source # Nil =>
    /\ Len(MQ) >= 3
    /\ \A i \in 1..3 : MQ[i] = InfoCalls(source)[i]
    /\ Calls(FQ, 1) = FeatureCallsFor(source, cloned)
    /\ Calls(MQ, 4) = EdgeCallsFor(source, cloned)
    /\ Calls(RQ, 1) = RelationCallsFor(source, cloned)
    /\ stage # "asking" => AllCloned

\* One more call is one more element of what was asked for.
LEMMA CallsGrow ==
  ASSUME NEW S, NEW q \in Seq(S), NEW x \in S, NEW first \in 1..(Len(q) + 1)
  PROVE  Calls(Append(q, x), first) = Calls(q, first) \cup {x}
  <1> DEFINE p == Append(q, x)
  <1>1. /\ Len(q) \in Nat /\ Len(p) = Len(q) + 1 /\ p[Len(q) + 1] = x
        /\ \A i \in 1..Len(q) : p[i] = q[i]
    BY AppendIs
  <1>2. first..Len(p) = first..Len(q) \cup {Len(q) + 1} /\ first..Len(q) \subseteq 1..Len(q)
    BY <1>1
  <1> HIDE DEF p
  <1>3. Calls(p, first) = Calls(q, first) \cup {x}
    BY <1>1, <1>2 DEF Calls
  <1> QED
    BY <1>3 DEF p

\* The objects of a model are of different kinds.
LEMMA KindsAreApart ==
  ASSUME NEW m \in Model
  PROVE  /\ m.features \cap m.relationships = {}
         /\ m.features \cap m.constraints = {}
         /\ m.relationships \cap m.constraints = {}
         /\ m.constraints \cap Node = {} /\ m.relationships \cap Feature = {}
  <1>1. Constraint \cap Node = {} /\ Feature \cap Relationship = {}
    BY ConstantsAssumption, BuilderAssumption
  <1> QED
    BY <1>1, ModelFields DEF Node

\* Without calls the queues are empty.
LEMMA NothingIsQueued ==
  ASSUME QueuesKept, Queued = {}
  PROVE  Len(FQ) = 0 /\ Len(MQ) = 0 /\ Len(RQ) = 0
  <1>1. /\ \A i \in 1..Len(FQ) : FQ[i] \in Queued
        /\ \A i \in 1..Len(MQ) : MQ[i] \in Queued
        /\ \A i \in 1..Len(RQ) : RQ[i] \in Queued
    BY Transactions DEF Queued, FQ, MQ, RQ
  <1>2. Len(FQ) \in Nat /\ Len(MQ) \in Nat /\ Len(RQ) \in Nat
    BY DEF QueuesKept
  <1>3. 1 \notin 1..Len(FQ) /\ 1 \notin 1..Len(MQ) /\ 1 \notin 1..Len(RQ)
    BY <1>1
  <1> QED
    BY <1>2, <1>3

\* clone asks for the name, the commit and the path first.
LEMMA CloneBegins ==
  ASSUME BuilderInv, NEW m \in Originals, Clone(m)
  PROVE  CloneAsks'
  <1>1. /\ QueuesKept /\ stage = "asking" /\ stage' = stage /\ cloned' = {} /\ Queued = {} /\ source' = m
    BY DEF BuilderInv, CloneKept, Clone
  <1>2. FQ' = FQ /\ MQ' = InfoCalls(m) /\ RQ' = RQ
    BY <1>1, Transactions DEF Clone, QueuesKept, FQ, MQ, RQ, InfoCalls
  <1>3. Len(FQ) = 0 /\ Len(RQ) = 0
    BY <1>1, NothingIsQueued
  <1>4. Len(InfoCalls(m)) = 3
    BY DEF InfoCalls
  <1>5. Calls(FQ', 1) = {} /\ Calls(MQ', 4) = {} /\ Calls(RQ', 1) = {}
    BY <1>2, <1>3, <1>4 DEF Calls
  <1>6. FeatureCallsFor(m, {}) = {} /\ EdgeCallsFor(m, {}) = {} /\ RelationCallsFor(m, {}) = {}
    BY DEF FeatureCallsFor, EdgeCallsFor, RelationCallsFor
  <1> QED
    BY <1>1, <1>2, <1>4, <1>5, <1>6 DEF CloneAsks

\* What one more object adds to the calls.
LEMMA OneMoreCall ==
  ASSUME NEW m \in Model, NEW C
  PROVE  /\ \A f \in m.features :
              /\ FeatureCallsFor(m, C \cup {f}) = FeatureCallsFor(m, C) \cup {FeatureCall(f)}
              /\ EdgeCallsFor(m, C \cup {f}) =
                   IF ParentFeature(m, f) = Nil THEN EdgeCallsFor(m, C)
                   ELSE EdgeCallsFor(m, C) \cup {EdgeCall(m, f)}
              /\ RelationCallsFor(m, C \cup {f}) = RelationCallsFor(m, C)
         /\ \A r \in m.relationships :
              /\ FeatureCallsFor(m, C \cup {r}) = FeatureCallsFor(m, C)
              /\ EdgeCallsFor(m, C \cup {r}) = EdgeCallsFor(m, C)
              /\ RelationCallsFor(m, C \cup {r}) = RelationCallsFor(m, C) \cup {GroupCall(m, r)}
         /\ \A c \in m.constraints :
              /\ FeatureCallsFor(m, C \cup {c}) = FeatureCallsFor(m, C)
              /\ EdgeCallsFor(m, C \cup {c}) = EdgeCallsFor(m, C)
              /\ RelationCallsFor(m, C \cup {c}) = RelationCallsFor(m, C) \cup {ConstraintCall(c)}
  <1>1. /\ m.features \cap m.relationships = {}
        /\ m.features \cap m.constraints = {}
        /\ m.relationships \cap m.constraints = {}
    BY KindsAreApart
  <1>2. ASSUME NEW f \in m.features
        PROVE  /\ FeatureCallsFor(m, C \cup {f}) = FeatureCallsFor(m, C) \cup {FeatureCall(f)}
               /\ EdgeCallsFor(m, C \cup {f}) =
                    IF ParentFeature(m, f) = Nil THEN EdgeCallsFor(m, C)
                    ELSE EdgeCallsFor(m, C) \cup {EdgeCall(m, f)}
               /\ RelationCallsFor(m, C \cup {f}) = RelationCallsFor(m, C)
    <2>1. /\ (C \cup {f}) \cap m.features = (C \cap m.features) \cup {f}
          /\ (C \cup {f}) \cap m.relationships = C \cap m.relationships
          /\ (C \cup {f}) \cap m.constraints = C \cap m.constraints
      BY <1>1
    <2> QED
      BY <2>1 DEF FeatureCallsFor, EdgeCallsFor, RelationCallsFor
  <1>3. ASSUME NEW r \in m.relationships
        PROVE  /\ FeatureCallsFor(m, C \cup {r}) = FeatureCallsFor(m, C)
               /\ EdgeCallsFor(m, C \cup {r}) = EdgeCallsFor(m, C)
               /\ RelationCallsFor(m, C \cup {r}) = RelationCallsFor(m, C) \cup {GroupCall(m, r)}
    <2>1. /\ (C \cup {r}) \cap m.features = C \cap m.features
          /\ (C \cup {r}) \cap m.relationships = (C \cap m.relationships) \cup {r}
          /\ (C \cup {r}) \cap m.constraints = C \cap m.constraints
      BY <1>1
    <2> QED
      BY <2>1 DEF FeatureCallsFor, EdgeCallsFor, RelationCallsFor
  <1>4. ASSUME NEW c \in m.constraints
        PROVE  /\ FeatureCallsFor(m, C \cup {c}) = FeatureCallsFor(m, C)
               /\ EdgeCallsFor(m, C \cup {c}) = EdgeCallsFor(m, C)
               /\ RelationCallsFor(m, C \cup {c}) = RelationCallsFor(m, C) \cup {ConstraintCall(c)}
    <2>1. /\ (C \cup {c}) \cap m.features = C \cap m.features
          /\ (C \cup {c}) \cap m.relationships = C \cap m.relationships
          /\ (C \cup {c}) \cap m.constraints = (C \cap m.constraints) \cup {c}
      BY <1>1
    <2> QED
      BY <2>1 DEF FeatureCallsFor, EdgeCallsFor, RelationCallsFor
  <1> QED
    BY <1>2, <1>3, <1>4

\* A feature is asked for, with the edge from its parent.
LEMMA CloneFeatureAsks ==
  ASSUME BuilderInv, CloneAsks, source # Nil, NEW f \in source.features, CloneFeature(f)
  PROVE  CloneAsks'
  <1> DEFINE p == ParentFeature(source, f)
             feature == FeatureCall(f)
             edge == EdgeCall(source, f)
  <1>1. QueuesKept /\ source \in Originals /\ stage = "asking"
    BY DEF BuilderInv, CloneKept, CloneFeature, Cloning
  <1>2. /\ Modifications' = [Modifications EXCEPT
                               ![FeatureBuilder] = Append(@, feature),
                               ![ModelBuilder] = IF p = Nil THEN @ ELSE Append(@, edge)]
        /\ cloned' = cloned \cup {f} /\ stage' = stage /\ source' = source
    BY DEF CloneFeature, CloneWithEdge, FeatureCall, EdgeCall
  <1>3. /\ source \in Model /\ f \in Feature /\ p \in Feature \cup {Nil}
        /\ Twin[f] \in Feature /\ (f \in RootFeature => Twin[f] \in RootFeature)
    BY <1>1, OriginalIs, OriginalParent, ModelFields
  <1>4. feature \in FeatureCalls /\ (p # Nil => edge \in ModelCalls)
    BY <1>3, ConstantsAssumption DEF FeatureCalls, ModelCalls, FeatureCall, EdgeCall
  <1>5. /\ FQ \in Seq(FeatureCalls) /\ MQ \in Seq(ModelCalls) /\ DOMAIN Modifications = Transaction
    BY <1>1 DEF QueuesKept
  <1> HIDE DEF p, feature, edge
  <1>6. /\ FQ' = Append(FQ, feature) /\ MQ' = (IF p = Nil THEN MQ ELSE Append(MQ, edge)) /\ RQ' = RQ
    BY <1>2, <1>5, Transactions DEF FQ, MQ, RQ
  <1>7. /\ Len(MQ) >= 3 /\ Len(MQ) \in Nat
        /\ \A i \in 1..3 : MQ[i] = InfoCalls(source)[i]
        /\ Calls(FQ, 1) = FeatureCallsFor(source, cloned)
        /\ Calls(MQ, 4) = EdgeCallsFor(source, cloned)
        /\ Calls(RQ, 1) = RelationCallsFor(source, cloned)
    BY <1>5 DEF CloneAsks
  <1>8. Calls(FQ', 1) = Calls(FQ, 1) \cup {feature}
    <2>1. 1 \in 1..(Len(FQ) + 1)
      BY <1>5
    <2> QED
      BY <1>4, <1>5, <1>6, <2>1, CallsGrow
  <1>9. /\ Calls(MQ', 4) = IF p = Nil THEN Calls(MQ, 4) ELSE Calls(MQ, 4) \cup {edge}
        /\ Len(MQ') >= 3 /\ \A i \in 1..3 : MQ'[i] = MQ[i]
    <2>1. CASE p = Nil
      BY <1>6, <1>7, <2>1
    <2>2. CASE p # Nil
      <3>1. 4 \in 1..(Len(MQ) + 1) /\ 1..3 \subseteq 1..Len(MQ)
        BY <1>7
      <3>2. Len(MQ') = Len(MQ) + 1 /\ \A i \in 1..Len(MQ) : MQ'[i] = MQ[i]
        BY <1>4, <1>5, <1>6, <2>2, AppendIs
      <3>3. Calls(MQ', 4) = Calls(MQ, 4) \cup {edge}
        BY <1>4, <1>5, <1>6, <2>2, <3>1, CallsGrow
      <3> QED
        BY <1>7, <2>2, <3>1, <3>2, <3>3
    <2> QED
      BY <2>1, <2>2
  <1>10. /\ FeatureCallsFor(source, cloned') = FeatureCallsFor(source, cloned) \cup {feature}
         /\ EdgeCallsFor(source, cloned') =
              IF p = Nil THEN EdgeCallsFor(source, cloned) ELSE EdgeCallsFor(source, cloned) \cup {edge}
         /\ RelationCallsFor(source, cloned') = RelationCallsFor(source, cloned)
    <2> DEFINE C == cloned \cup {f}
    <2>1. /\ FeatureCallsFor(source, C) = FeatureCallsFor(source, cloned) \cup {FeatureCall(f)}
          /\ EdgeCallsFor(source, C) =
               IF ParentFeature(source, f) = Nil THEN EdgeCallsFor(source, cloned)
               ELSE EdgeCallsFor(source, cloned) \cup {EdgeCall(source, f)}
          /\ RelationCallsFor(source, C) = RelationCallsFor(source, cloned)
      BY <1>3, OneMoreCall
    <2>2. cloned' = C
      BY <1>2
    <2> HIDE DEF C
    <2> QED
      BY <2>1, <2>2 DEF p, feature, edge
  <1>11. /\ Calls(FQ', 1) = FeatureCallsFor(source', cloned')
         /\ Calls(MQ', 4) = EdgeCallsFor(source', cloned')
         /\ Calls(RQ', 1) = RelationCallsFor(source', cloned')
    BY <1>2, <1>6, <1>7, <1>8, <1>9, <1>10
  <1>12. \A i \in 1..3 : MQ'[i] = InfoCalls(source')[i]
    BY <1>2, <1>7, <1>9
  <1> QED
    BY <1>1, <1>2, <1>9, <1>11, <1>12 DEF CloneAsks

\* A group or a constraint is asked for.
LEMMA CloneNextAsks ==
  ASSUME BuilderInv, CloneAsks, source # Nil, NEW x, NEW before, NEW mod \in RelationCalls,
         CloneNext(x, before, mod),
         \/ x \in source.relationships /\ mod = GroupCall(source, x)
         \/ x \in source.constraints /\ mod = ConstraintCall(x)
  PROVE  CloneAsks'
  <1>1. /\ QueuesKept /\ source \in Originals /\ stage = "asking"
        /\ Modifications' = [Modifications EXCEPT ![RelationBuilder] = Append(@, mod)]
        /\ cloned' = cloned \cup {x} /\ stage' = stage /\ source' = source
    BY DEF BuilderInv, CloneKept, CloneNext, Cloning
  <1>2. source \in Model
    BY <1>1, OriginalIs
  <1>3. RQ \in Seq(RelationCalls) /\ DOMAIN Modifications = Transaction
    BY <1>1 DEF QueuesKept
  <1>4. FQ' = FQ /\ MQ' = MQ /\ RQ' = Append(RQ, mod)
    BY <1>1, <1>3, QueuesGrow, Transactions
  <1>5. Calls(RQ', 1) = Calls(RQ, 1) \cup {mod}
    <2>1. 1 \in 1..(Len(RQ) + 1)
      BY <1>3
    <2> QED
      BY <1>3, <1>4, <2>1, CallsGrow
  <1> DEFINE C == cloned \cup {x}
  <1>6. /\ FeatureCallsFor(source, C) = FeatureCallsFor(source, cloned)
        /\ EdgeCallsFor(source, C) = EdgeCallsFor(source, cloned)
        /\ RelationCallsFor(source, C) = RelationCallsFor(source, cloned) \cup {mod}
    BY <1>2, OneMoreCall, SMTT(30)
  <1>7. cloned' = C
    BY <1>1
  <1> HIDE DEF C
  <1> QED
    BY <1>1, <1>4, <1>5, <1>6, <1>7 DEF CloneAsks

\* Every call of clone is for one more object of the original.
LEMMA CloneCallAsks ==
  ASSUME BuilderInv, CloneAsks, source # Nil, CloneCall
  PROVE  CloneAsks'
  <1>1. source \in Originals
    BY DEF BuilderInv, CloneKept
  <1>2. /\ source \in Model /\ WellFormed(source) /\ source.features \subseteq Feature
        /\ \A r \in source.relationships : Twin[r] \in Relationship
        /\ \A c \in source.constraints : Twin[c] \in Constraint
    BY <1>1, OriginalIs, ModelFields
  <1>3. ASSUME NEW r \in source.relationships, CloneRelationship(r) PROVE CloneAsks'
    <2>1. source.parent[r] \in Feature
      BY <1>2, <1>3 DEF WellFormed, GroupsWellPlaced
    <2>2. GroupCall(source, r) \in RelationCalls
      BY <1>2, <1>3, <2>1, ConstantsAssumption DEF RelationCalls, GroupCall
    <2>3. CloneNext(r, source.features, GroupCall(source, r))
      BY <1>3 DEF CloneRelationship, GroupCall
    <2> QED
      BY <2>2, <2>3, CloneNextAsks
  <1>4. ASSUME NEW c \in source.constraints, CloneConstraint(c) PROVE CloneAsks'
    <2>1. ConstraintCall(c) \in RelationCalls
      BY <1>2, <1>4 DEF RelationCalls, ConstraintCall
    <2>2. CloneNext(c, Live(source), ConstraintCall(c))
      BY <1>4 DEF CloneConstraint, ConstraintCall
    <2> QED
      BY <2>1, <2>2, CloneNextAsks
  <1> QED
    BY <1>3, <1>4, CloneFeatureAsks DEF CloneCall

\* No call is made any more.
LEMMA CloneHasAsked ==
  ASSUME CloneAsks, UNCHANGED <<Modifications, source, cloned>>,
         stage = "asking" /\ stage' # "asking" => AllCloned
  PROVE  CloneAsks'
  <1>1. FQ' = FQ /\ MQ' = MQ /\ RQ' = RQ
    BY DEF FQ, MQ, RQ
  <1>2. AllCloned' <=> AllCloned
    BY DEF AllCloned
  <1> QED
    BY <1>1, <1>2 DEF CloneAsks

-------------------------------------------------------------------------------
(* What the calls do to data *)

NoLocations == [l \in Location |-> 0]

\* Features other than the root are constructed with the locations of the original, and
\* none has an output.
Copied == {f \in cloned : f \in Feature \ RootFeature}

Placed ==
  /\ \A f \in Copied : FM.locations[Twin[f]] = source.locations[f]
  /\ \A f \in Feature \ {Twin[g] : g \in Copied} : FM.locations[f] = NoLocations
  /\ FM.output = NoOutput

BoundByName == \A b \in FM.bound : NameOf[b[2]] \in Mentions[b[1]]

InfoMade(q, m, k) == \A i \in 1..3 : i <= k => m.info[q[i].field] = q[i].text

ConstraintsBy(q, k) == {q[i].constraint : i \in ConstraintsIn(q, k)}
ConstraintsMade(q, m, k) == m.constraints = ConstraintsBy(q, k)

DataKept ==
  /\ Placed
  /\ BoundByName
  /\ source # Nil /\ stage = "tree" =>
       /\ phase[ModelBuilder] = "committing" => InfoMade(MQ, FM, next[ModelBuilder] - 1)
       /\ Succeeded(ModelBuilder) => InfoMade(MQ, FM, 3)
  /\ source # Nil /\ stage \in {"relations", "built"} => InfoMade(MQ, FM, 3)
  /\ stage = "relations" =>
       /\ phase[RelationBuilder] = "committing" => ConstraintsMade(RQ, FM, next[RelationBuilder] - 1)
       /\ Succeeded(RelationBuilder) => ConstraintsMade(RQ, FM, Len(RQ))
  /\ stage = "built" => ConstraintsMade(RQ, FM, Len(RQ))

\* Calls on features bind nothing, and only a replaced root loses locations.
LEMMA FeatureCallKeepsData ==
  ASSUME NEW m \in Model, m.root \in RootFeature, NEW mod \in FeatureCalls, NEW o \in Outcomes(m, mod)
  PROVE  /\ o.model.bound = m.bound
         /\ m.output = NoOutput => o.model.output = NoOutput
         /\ \A f \in Feature : \/ o.model.locations[f] = m.locations[f]
                               \/ f \in RootFeature /\ o.model.locations[f] = NoLocations
  <1>1. CASE mod.op = "AddFeature"
    <2>1. o \in AddFeature(m, mod.feature, mod.parent, Live(m))
      BY <1>1 DEF Outcomes, OutcomesAmong
    <2>2. PICK p : o.model \in {m, Insert(m, mod.feature, p), [m EXCEPT !.features = @ \cup {mod.feature}]}
      BY <2>1 DEF AddFeature, Fails, Succeeds, Undefined, Outcome
    <2>3. /\ o.model.bound = m.bound /\ o.model.locations = m.locations
          /\ o.model.output = m.output
      BY <2>2 DEF Insert, Model
    <2> QED
      BY <2>3
  <1>2. CASE mod.op = "SetRoot"
    <2>1. o \in SetRoot(m, mod.feature, Live(m))
      BY <1>2 DEF Outcomes, OutcomesAmong
    <2>6. m.root # Nil
      BY ConstantsAssumption DEF Node
    <2>2. o.model \in {m, RootReplaced(m, mod.feature)}
      BY <2>6, <2>1 DEF SetRoot, Fails, Succeeds, Undefined, Outcome
    <2> DEFINE n == RootReplaced(m, mod.feature)
    <2>3. /\ n.bound = m.bound
          /\ n.locations = [f \in Feature |-> IF f \in {m.root} THEN [l \in Location |-> 0]
                                             ELSE m.locations[f]]
          /\ n.output = [f \in Feature |-> IF f \in {m.root} THEN Nil ELSE m.output[f]]
      BY DEF RootReplaced, Destroy, Model
    <2> HIDE DEF n
    <2>4. CASE o.model = n
      BY <2>3, <2>4 DEF NoLocations, NoOutput
    <2>5. CASE o.model = m
      BY <2>5
    <2> QED
      BY <2>2, <2>4, <2>5 DEF n
  <1> QED
    BY <1>1, <1>2, CallFields

\* Calls on the tree change the texts that they set, and no other data.
LEMMA ModelCallKeepsData ==
  ASSUME NEW m \in Model, NEW mod \in ModelCalls, NEW o \in Outcomes(m, mod)
  PROVE  /\ o.model.bound = m.bound /\ o.model.constraints = m.constraints
         /\ o.model.locations = m.locations /\ o.model.output = m.output
         /\ o.model.info = IF mod.op = "SetInfo" THEN [m.info EXCEPT ![mod.field] = mod.text] ELSE m.info
  <1>1. CASE mod.op = "SetInfo"
    <2>1. o.model = [m EXCEPT !.info[mod.field] = mod.text]
      BY <1>1 DEF Outcomes, OutcomesAmong, SetInfo, Succeeds, Outcome
    <2> QED
      BY <1>1, <2>1 DEF Model
  <1>2. CASE mod.op = "AddChild"
    <2>1. o \in AddChild(m, mod.parent, mod.child, Live(m))
      BY <1>2 DEF Outcomes, OutcomesAmong
    <2>2. PICK p, c : o.model \in {m, Attached(m, p, c)}
      BY <2>1 DEF AddChild, Fails, Succeeds, Undefined, Outcome
    <2> QED
      BY <1>2, <2>2 DEF Attached, Model
  <1> QED
    BY <1>1, <1>2, CallFields

\* Calls on relations bind a new constraint by name, and change no other data.
LEMMA RelationCallKeepsData ==
  ASSUME NEW m \in Model, NEW mod \in RelationCalls, NEW o \in Outcomes(m, mod)
  PROVE  /\ o.model.locations = m.locations /\ o.model.info = m.info /\ o.model.output = m.output
         /\ mod.op = "AddRelationship" => o.model.bound = m.bound /\ o.model.constraints = m.constraints
         /\ mod.op = "AddConstraint" =>
              /\ o.model.constraints = m.constraints \cup {mod.constraint}
              /\ \A b \in o.model.bound :
                   b \in m.bound \/ (b[1] = mod.constraint /\ NameOf[b[2]] \in Mentions[mod.constraint])
  <1>1. CASE mod.op = "AddRelationship"
    <2>1. o \in AddRelationship(m, mod.relationship, mod.ref, Live(m))
      BY <1>1 DEF Outcomes, OutcomesAmong
    <2>2. PICK r, p : o.model \in {m, Grouped(m, r, p)}
      BY <2>1 DEF AddRelationship, Succeeds, Undefined, Outcome
    <2> DEFINE n == Grouped(m, r, p)
    <2>3. /\ n.locations = m.locations /\ n.info = m.info /\ n.output = m.output
          /\ n.bound = m.bound /\ n.constraints = m.constraints
      BY DEF Grouped, Model
    <2> HIDE DEF n
    <2>4. CASE o.model = n
      BY <1>1, <2>3, <2>4
    <2> QED
      BY <1>1, <2>2, <2>4 DEF n
  <1>2. CASE mod.op = "AddConstraint"
    <2> DEFINE c == mod.constraint
               found == {f \in m.features : NameOf[f] \in Mentions[c]}
               n == [m EXCEPT !.constraints = @ \cup {c}, !.bound = @ \cup ({c} \X found)]
    <2>1. o \in AddConstraint(m, c)
      BY <1>2 DEF Outcomes, OutcomesAmong
    <2>2. o.model = n
      BY <2>1 DEF AddConstraint, Succeeds, Fails, Outcome
    <2>3. /\ n.locations = m.locations /\ n.info = m.info /\ n.output = m.output
          /\ n.constraints = m.constraints \cup {c} /\ n.bound = m.bound \cup ({c} \X found)
      BY DEF Model
    <2> HIDE DEF n
    <2>4. \A b \in {c} \X found : b[1] = c /\ NameOf[b[2]] \in Mentions[c]
      OBVIOUS
    <2> HIDE DEF found, c
    <2>5. \A b \in o.model.bound : b \in m.bound \/ (b[1] = c /\ NameOf[b[2]] \in Mentions[c])
      BY <2>2, <2>3, <2>4
    <2> QED
      BY <1>2, <2>2, <2>3, <2>5 DEF c
  <1> QED
    BY <1>1, <1>2, CallFields

\* The objects made for features other than the root are no roots.
LEMMA CopiedIs ==
  ASSUME BuilderInv, NEW f \in Copied
  PROVE  /\ source # Nil /\ source \in Originals /\ f \in source.features
         /\ Twin[f] \in Feature \ RootFeature
  <1>1. source # Nil /\ source \in Originals /\ f \in Live(source) \cup source.constraints
    BY DEF BuilderInv, CloneKept, Copied
  <1>2. f \in source.features
    BY <1>1, OriginalIs, KindsAreApart DEF Copied, Live, Node
  <1> QED
    BY <1>1, <1>2, BuilderAssumption DEF Copied

\* Objects that are not copied have no locations, and lose none; none has an output.
LEMMA PlacedStays ==
  ASSUME BuilderInv, Placed, UNCHANGED source, Copied' = Copied,
         \A f \in Feature : \/ FM'.locations[f] = FM.locations[f]
                            \/ f \in RootFeature /\ FM'.locations[f] = NoLocations,
         FM.output = NoOutput => FM'.output = NoOutput
  PROVE  Placed'
  <1>1. \A f \in Copied : FM'.locations[Twin[f]] = FM.locations[Twin[f]]
    BY CopiedIs
  <1> QED
    BY <1>1 DEF Placed

\* Nothing but the stage and the phases changes.
LEMMA CopiedStays ==
  ASSUME UNCHANGED cloned
  PROVE  Copied' = Copied
  BY DEF Copied

\* A new model has no data but its texts.
LEMMA DataInitially == BuilderInit => DataKept
  <1> SUFFICES ASSUME BuilderInit PROVE DataKept
    OBVIOUS
  <1>1. PICK text \in Text : FM = NewModel(FM.root, text)
    BY BuilderAssumption DEF BuilderInit
  <1>2. /\ FM.bound = {} /\ FM.locations = [f \in Feature |-> NoLocations]
        /\ FM.output = NoOutput
    BY <1>1 DEF NewModel, NoLocations
  <1>3. stage = "asking" /\ source = Nil /\ Copied = {}
    BY DEF BuilderInit, Copied
  <1> QED
    BY <1>2, <1>3 DEF DataKept, Placed, BoundByName

\* Calls that are queued touch no data, but that clone constructs features.
LEMMA AskingKeepsData ==
  ASSUME BuilderInv, DataKept, UNCHANGED <<FM, stage>>, stage = "asking", Copied' = Copied,
         source' = source \/ Copied = {}
  PROVE  DataKept'
  <1>1. Placed'
    BY DEF DataKept, Placed
  <1> QED
    BY <1>1 DEF DataKept, BoundByName

\* A feature is constructed with the locations of the original.
LEMMA CloneFeatureKeepsData ==
  ASSUME BuilderInv, DataKept, source # Nil, NEW f \in source.features, CloneFeature(f)
  PROVE  DataKept'
  <1>1. /\ source \in Originals /\ stage = "asking" /\ f \notin cloned
        /\ FM' = IF f \in RootFeature THEN FM
                 ELSE [FM EXCEPT !.locations[Twin[f]] = source.locations[f], !.output[Twin[f]] = Nil]
        /\ cloned' = cloned \cup {f} /\ UNCHANGED <<stage, source>>
    BY DEF BuilderInv, CloneKept, CloneFeature, Cloning, CloneWithEdge
  <1>2. /\ source \in Model /\ f \in Feature /\ Twin[f] \in Feature /\ source.features \subseteq Live(source)
        /\ \A x, y \in Live(source) \cup source.constraints : Twin[x] = Twin[y] => x = y
    BY <1>1, OriginalIs, ModelFields DEF Live
  <1>3. CASE f \in RootFeature
    <2>1. Copied' = Copied
      BY <1>1, <1>3 DEF Copied
    <2> QED
      BY <1>1, <1>3, <2>1, AskingKeepsData
  <1>4. CASE f \notin RootFeature
    <2>1. Copied' = Copied \cup {f}
      BY <1>1, <1>2, <1>4 DEF Copied
    <2>2. FM \in Model
      BY <1>1, AskingIs DEF Star
    <2>3. /\ FM'.bound = FM.bound
          /\ FM'.locations = [FM.locations EXCEPT ![Twin[f]] = source.locations[f]]
          /\ FM'.output = [FM.output EXCEPT ![Twin[f]] = Nil]
          /\ FM.locations \in [Feature -> [Location -> Nat]]
      BY <1>1, <1>4, <2>2, ModelFields DEF Model
    <2>4. \A g \in Copied : Twin[g] # Twin[f] /\ Twin[g] \in Feature
      <3> SUFFICES ASSUME NEW g \in Copied PROVE Twin[g] # Twin[f] /\ Twin[g] \in Feature
        OBVIOUS
      <3>1. g \in source.features /\ Twin[g] \in Feature /\ g # f
        BY <1>1, CopiedIs DEF Copied
      <3> QED
        BY <1>2, <3>1
    <2>5. /\ \A g \in Copied : FM.locations[Twin[g]] = source.locations[g]
          /\ \A g \in Feature \ {Twin[h] : h \in Copied} : FM.locations[g] = NoLocations
          /\ FM.output = NoOutput
      BY DEF DataKept, Placed
    <2>6. FM'.locations[Twin[f]] = source.locations[f]
      BY <1>2, <2>3
    <2>7. \A g \in Feature : g # Twin[f] => FM'.locations[g] = FM.locations[g]
      BY <2>3
    <2>8. \A g \in Copied' : FM'.locations[Twin[g]] = source.locations[g]
      BY <2>1, <2>4, <2>5, <2>6, <2>7
    <2>9. \A g \in Feature \ {Twin[h] : h \in Copied'} : FM'.locations[g] = NoLocations
      BY <2>1, <2>5, <2>7
    <2>10. FM'.output = NoOutput
      BY <2>3, <2>5 DEF NoOutput
    <2>11. Placed'
      BY <1>1, <2>8, <2>9, <2>10 DEF Placed
    <2> QED
      BY <1>1, <2>3, <2>11 DEF DataKept, BoundByName
  <1> QED
    BY <1>3, <1>4

\* The calls of clone keep the data of what was cloned.
LEMMA CloneCallKeepsData ==
  ASSUME BuilderInv, DataKept, source # Nil, CloneCall
  PROVE  DataKept'
  <1>1. source \in Model
    BY OriginalIs DEF BuilderInv, CloneKept
  <1>2. ASSUME NEW x \in source.relationships \cup source.constraints, NEW before, NEW mod,
               CloneNext(x, before, mod)
        PROVE  DataKept'
    <2>1. stage = "asking" /\ cloned' = cloned \cup {x} /\ UNCHANGED <<FM, stage, source>>
      BY <1>2 DEF CloneNext, Cloning
    <2>2. x \notin Feature
      BY <1>1, <1>2, KindsAreApart DEF Node
    <2>3. Copied' = Copied
      BY <2>1, <2>2 DEF Copied
    <2> QED
      BY <2>1, <2>3, AskingKeepsData
  <1> QED
    BY <1>2, CloneFeatureKeepsData DEF CloneCall, CloneRelationship, CloneConstraint

\* The calls of a builder come one after the other.
LEMMA OneMoreConstraint ==
  ASSUME NEW q, NEW k \in Nat
  PROVE  ConstraintsBy(q, k + 1) =
           IF q[k + 1].op = "AddConstraint" THEN ConstraintsBy(q, k) \cup {q[k + 1].constraint}
           ELSE ConstraintsBy(q, k)
  BY OneMoreIs DEF ConstraintsIn, ConstraintsBy

\* The calls of a clone on the tree set the name, the commit and the path, and then
\* make edges.
LEMMA OneMoreInfo ==
  ASSUME QueuesKept, CloneAsks, source # Nil,
         NEW k \in 0..(Len(MQ) - 1), InfoMade(MQ, FM, k), FM \in Model, UNCHANGED Modifications,
         FM'.info = IF MQ[k + 1].op = "SetInfo"
                    THEN [FM.info EXCEPT ![MQ[k + 1].field] = MQ[k + 1].text] ELSE FM.info
  PROVE  InfoMade(MQ', FM', k + 1)
  <1>1. MQ' = MQ /\ Len(MQ) \in Nat /\ k \in Nat
    BY DEF QueuesKept, MQ
  <1>2. /\ MQ[1].field = "Name" /\ MQ[2].field = "Commit" /\ MQ[3].field = "Path"
        /\ \A i \in 1..3 : MQ[i].op = "SetInfo"
    BY DEF CloneAsks, InfoCalls, CloneInfo
  <1>3. FM.info \in [InfoField -> Text]
    BY ModelFields
  <1>4. CASE k + 1 \in 1..3
    <2>1. FM'.info = [FM.info EXCEPT ![MQ[k + 1].field] = MQ[k + 1].text]
      BY <1>2, <1>4
    <2>2. \A i \in 1..3 : MQ[i].field \in InfoField
      BY <1>2 DEF InfoField
    <2>3. \A i, j \in 1..3 : MQ[i].field = MQ[j].field => i = j
      BY <1>2
    <2>4. ASSUME NEW i \in 1..3, i <= k + 1 PROVE FM'.info[MQ[i].field] = MQ[i].text
      <3>1. CASE i = k + 1
        BY <1>3, <2>1, <2>2, <3>1
      <3>2. CASE i # k + 1
        <4>1. i <= k /\ MQ[i].field # MQ[k + 1].field
          BY <1>1, <1>4, <2>3, <2>4, <3>2
        <4>2. FM.info[MQ[i].field] = MQ[i].text
          BY <4>1 DEF InfoMade
        <4> QED
          BY <1>3, <2>1, <2>2, <4>1, <4>2
      <3> QED
        BY <3>1, <3>2
    <2> QED
      BY <1>1, <2>4 DEF InfoMade
  <1>5. CASE k + 1 \notin 1..3
    <2>1. k + 1 \in 4..Len(MQ) /\ 3 <= k
      BY <1>1, <1>5
    <2>2. MQ[k + 1] \in EdgeCallsFor(source, cloned)
      BY <2>1 DEF CloneAsks, Calls
    <2>3. MQ[k + 1].op = "AddChild"
      <3>1. PICK f : MQ[k + 1] = EdgeCall(source, f)
        BY <2>2 DEF EdgeCallsFor
      <3> QED
        BY <3>1 DEF EdgeCall
    <2>4. FM'.info = FM.info
      BY <2>3
    <2>5. \A i \in 1..3 : i <= k
      BY <2>1
    <2> QED
      BY <1>1, <2>4, <2>5 DEF InfoMade
  <1> QED
    BY <1>4, <1>5

\* The model while a commit runs.
LEMMA TurnModel ==
  ASSUME BuilderInv, NEW t \in Transaction, BuilderStep(t)
  PROVE  FM \in Model /\ (stage = "features" => FM.root \in RootFeature)
  <1>1. \/ stage = "features" /\ Star(FM)
        \/ stage = "tree" /\ Settled(FQ, FM)
        \/ stage = "relations" /\ Settled(FQ, FM)
    BY TurnIs DEF FeaturesMade, TreeMade, RelationsMade
  <1> QED
    BY <1>1 DEF Star, Settled

\* A step executes the next call, or ends a commit that has executed all of them.
LEMMA TurnRuns ==
  ASSUME BuilderInv, NEW t \in Transaction, BuilderStep(t)
  PROVE  /\ UNCHANGED <<Modifications, Parents, stage, source, cloned>>
         /\ \/ /\ next[t] \in 1..Len(Modifications[t])
               /\ \E o \in Outcomes(FM, Modifications[t][next[t]]) : FM' = o.model
               /\ phase'[t] = "committing" => next'[t] = next[t] + 1
               /\ Succeeded(t)' => FALSE
            \/ next[t] = Len(Modifications[t]) + 1 /\ FM' = FM /\ phase'[t] = "closed"
  <1>1. phase[t] = "committing" /\ Committing(t)
    BY TurnIs
  <1>2. /\ next[t] \in 1..Len(Modifications[t]) + 1 /\ Len(Modifications[t]) \in Nat
        /\ phase \in [Transaction -> Phase] /\ next \in [Transaction -> Nat]
        /\ result \in [Transaction -> Result]
    BY <1>1, Transactions DEF BuilderInv, QueuesKept, Committing, FQ, MQ, RQ
  <1>3. next[t] > Len(Modifications[t]) => CheckIsSafe(FM, Live(FM)) /\ next[t] = Len(Modifications[t]) + 1
    <2> SUFFICES ASSUME next[t] > Len(Modifications[t])
                 PROVE  CheckIsSafe(FM, Live(FM)) /\ next[t] = Len(Modifications[t]) + 1
      OBVIOUS
    <2>1. next[t] = Len(Modifications[t]) + 1 /\ next[t] - 1 = Len(Modifications[t])
      BY <1>2
    <2>2. CASE stage = "features"
      BY <2>1, <2>2, TurnIs, FeaturesAreChecked DEF BuilderInv, FQ
    <2>3. CASE stage = "tree"
      BY <2>1, <2>3, TurnIs, TreeIsChecked
    <2>4. CASE stage = "relations"
      BY <2>1, <2>4, TurnIs, RelationsAreChecked
    <2> QED
      BY <2>2, <2>3, <2>4, <2>1, TurnIs
  <1>4. /\ UNCHANGED <<Modifications, Parents, stage, source, cloned>>
        /\ \/ /\ next[t] <= Len(Modifications[t])
              /\ \E o \in Outcomes(FM, Modifications[t][next[t]]) :
                   /\ FM' = o.model
                   /\ o.code \in {"OK", "UB"} =>
                        UNCHANGED <<phase, result>> /\ next' = [next EXCEPT ![t] = @ + 1]
                   /\ o.code \notin {"OK", "UB"} =>
                        /\ phase' = [phase EXCEPT ![t] = "closed"]
                        /\ result' = [result EXCEPT ![t] = o.code]
           \/ /\ next[t] > Len(Modifications[t])
              /\ FM' = FM /\ phase' = [phase EXCEPT ![t] = "closed"]
    BY <1>1, <1>3, StepIs
  <1>5. ASSUME next[t] <= Len(Modifications[t]), NEW o \in Outcomes(FM, Modifications[t][next[t]]),
               FM' = o.model,
               o.code \in {"OK", "UB"} =>
                 UNCHANGED <<phase, result>> /\ next' = [next EXCEPT ![t] = @ + 1],
               o.code \notin {"OK", "UB"} =>
                 /\ phase' = [phase EXCEPT ![t] = "closed"]
                 /\ result' = [result EXCEPT ![t] = o.code]
        PROVE  /\ next[t] \in 1..Len(Modifications[t])
               /\ \E p \in Outcomes(FM, Modifications[t][next[t]]) : FM' = p.model
               /\ phase'[t] = "committing" => next'[t] = next[t] + 1
               /\ Succeeded(t)' => FALSE
    <2>1. next[t] \in 1..Len(Modifications[t])
      BY <1>2, <1>5
    <2>2. CASE o.code \in {"OK", "UB"}
      BY <1>1, <1>2, <1>5, <2>1, <2>2 DEF Succeeded
    <2>3. CASE o.code \notin {"OK", "UB"}
      <3>1. phase'[t] = "closed" /\ result'[t] # "OK"
        BY <1>2, <1>5, <2>3
      <3> QED
        BY <1>5, <2>1, <3>1 DEF Succeeded
    <2> QED
      BY <2>2, <2>3
  <1>6. ASSUME next[t] > Len(Modifications[t]), FM' = FM, phase' = [phase EXCEPT ![t] = "closed"]
        PROVE  next[t] = Len(Modifications[t]) + 1 /\ FM' = FM /\ phase'[t] = "closed"
    BY <1>2, <1>3, <1>6
  <1> QED
    BY <1>4, <1>5, <1>6

\* The first transaction changes no data but the locations of a root.
LEMMA FeatureStepKeepsData ==
  ASSUME BuilderInv, DataKept, NEW t \in Transaction, BuilderStep(t), stage = "features"
  PROVE  DataKept'
  <1>1. t = FeatureBuilder /\ FM \in Model /\ FM.root \in RootFeature /\ QueuesKept
    BY TurnIs, TurnModel DEF BuilderInv
  <1>2. /\ FM'.bound = FM.bound
        /\ FM.output = NoOutput => FM'.output = NoOutput
        /\ \A f \in Feature : \/ FM'.locations[f] = FM.locations[f]
                              \/ f \in RootFeature /\ FM'.locations[f] = NoLocations
    <2>1. ASSUME next[t] \in 1..Len(FQ), NEW o \in Outcomes(FM, FQ[next[t]]), FM' = o.model
          PROVE  /\ FM'.bound = FM.bound
                 /\ FM.output = NoOutput => FM'.output = NoOutput
                 /\ \A f \in Feature : \/ FM'.locations[f] = FM.locations[f]
                                       \/ f \in RootFeature /\ FM'.locations[f] = NoLocations
      <3>1. FQ[next[t]] \in FeatureCalls
        BY <1>1, <2>1, QueuedCalls
      <3> QED
        BY <1>1, <2>1, <3>1, FeatureCallKeepsData
    <2>2. FM' = FM \/ (next[t] \in 1..Len(FQ) /\ \E o \in Outcomes(FM, FQ[next[t]]) : FM' = o.model)
      BY <1>1, TurnRuns DEF FQ
    <2> QED
      BY <2>1, <2>2
  <1>3. UNCHANGED <<stage, source, cloned>>
    BY TurnRuns
  <1>4. Placed'
    BY <1>2, <1>3, CopiedStays, PlacedStays DEF DataKept
  <1> QED
    BY <1>2, <1>3, <1>4 DEF DataKept, BoundByName

\* The second transaction sets the texts in the order of the calls.
LEMMA TreeStepKeepsData ==
  ASSUME BuilderInv, CloneAsks, DataKept, NEW t \in Transaction, BuilderStep(t), stage = "tree"
  PROVE  DataKept'
  <1>1. /\ t = ModelBuilder /\ FM \in Model /\ QueuesKept /\ next[t] \in Nat
        /\ phase[t] = "committing" /\ Len(MQ) \in Nat
    BY TurnIs, TurnModel DEF BuilderInv, QueuesKept
  <1>2. UNCHANGED <<Modifications, stage, source, cloned>> /\ MQ' = MQ
    BY TurnRuns DEF MQ
  <1>3. source # Nil => InfoMade(MQ, FM, next[t] - 1)
    BY <1>1 DEF DataKept
  <1>4. ASSUME next[t] \in 1..Len(MQ), NEW o \in Outcomes(FM, MQ[next[t]]), FM' = o.model,
               phase'[t] = "committing" => next'[t] = next[t] + 1, ~Succeeded(t)'
        PROVE  DataKept'
    <2>1. MQ[next[t]] \in ModelCalls
      BY <1>1, <1>4, QueuedCalls
    <2>2. /\ FM'.bound = FM.bound /\ FM'.locations = FM.locations /\ FM'.output = FM.output
          /\ FM'.info = IF MQ[next[t]].op = "SetInfo"
                        THEN [FM.info EXCEPT ![MQ[next[t]].field] = MQ[next[t]].text] ELSE FM.info
      BY <1>1, <1>4, <2>1, ModelCallKeepsData
    <2>3. Placed'
      BY <1>2, <2>2, CopiedStays, PlacedStays DEF DataKept
    <2>4. source # Nil => InfoMade(MQ', FM', next[t])
      <3> DEFINE k == next[t] - 1
      <3>1. k \in 0..(Len(MQ) - 1) /\ k + 1 = next[t]
        BY <1>1, <1>4
      <3> HIDE DEF k
      <3>2. FM'.info = IF MQ[k + 1].op = "SetInfo"
                       THEN [FM.info EXCEPT ![MQ[k + 1].field] = MQ[k + 1].text] ELSE FM.info
        BY <2>2, <3>1
      <3>3. source # Nil => InfoMade(MQ, FM, k)
        BY <1>3 DEF k
      <3>4. source # Nil => InfoMade(MQ', FM', k + 1)
        BY <1>1, <1>2, <3>1, <3>2, <3>3, OneMoreInfo
      <3> QED
        BY <3>1, <3>4
    <2> QED
      BY <1>1, <1>2, <1>4, <2>2, <2>3, <2>4 DEF DataKept, BoundByName
  <1>5. ASSUME next[t] = Len(MQ) + 1, FM' = FM, phase'[t] = "closed"
        PROVE  DataKept'
    <2>1. Placed'
      BY <1>2, <1>5, CopiedStays, PlacedStays DEF DataKept
    <2>2. source # Nil => InfoMade(MQ', FM', 3)
      <3>1. source # Nil => \A i \in 1..3 : i <= next[t] - 1
        BY <1>1, <1>5 DEF CloneAsks
      <3> QED
        BY <1>2, <1>3, <1>5, <3>1 DEF InfoMade
    <2> QED
      BY <1>1, <1>2, <1>5, <2>1, <2>2 DEF DataKept, BoundByName
  <1> QED
    BY <1>1, <1>4, <1>5, TurnRuns DEF MQ

\* The third transaction makes the constraints in the order of the calls.
LEMMA RelationStepKeepsData ==
  ASSUME BuilderInv, DataKept, NEW t \in Transaction, BuilderStep(t), stage = "relations"
  PROVE  DataKept'
  <1>1. /\ t = RelationBuilder /\ FM \in Model /\ QueuesKept /\ next[t] \in Nat
        /\ phase[t] = "committing" /\ Len(RQ) \in Nat
    BY TurnIs, TurnModel DEF BuilderInv, QueuesKept
  <1>2. UNCHANGED <<Modifications, stage, source, cloned>> /\ RQ' = RQ /\ MQ' = MQ
    BY TurnRuns DEF RQ, MQ
  <1>3. ConstraintsMade(RQ, FM, next[t] - 1) /\ (source # Nil => InfoMade(MQ, FM, 3))
    BY <1>1 DEF DataKept
  <1>4. ASSUME next[t] \in 1..Len(RQ), NEW o \in Outcomes(FM, RQ[next[t]]), FM' = o.model,
               phase'[t] = "committing" => next'[t] = next[t] + 1, ~Succeeded(t)'
        PROVE  DataKept'
    <2> DEFINE mod == RQ[next[t]]
    <2>1. /\ mod \in RelationCalls /\ mod.op \in {"AddRelationship", "AddConstraint"}
          /\ o \in Outcomes(FM, mod)
      BY <1>1, <1>4, QueuedCalls
    <2> HIDE DEF mod
    <2>2. /\ FM'.locations = FM.locations /\ FM'.info = FM.info /\ FM'.output = FM.output
          /\ mod.op = "AddRelationship" => FM'.bound = FM.bound /\ FM'.constraints = FM.constraints
          /\ mod.op = "AddConstraint" =>
               /\ FM'.constraints = FM.constraints \cup {mod.constraint}
               /\ \A b \in FM'.bound :
                    b \in FM.bound \/ (b[1] = mod.constraint /\ NameOf[b[2]] \in Mentions[mod.constraint])
      BY <1>1, <1>4, <2>1, RelationCallKeepsData
    <2>3. Placed'
      BY <1>2, <2>2, CopiedStays, PlacedStays DEF DataKept
    <2>4. BoundByName'
      BY <2>1, <2>2 DEF DataKept, BoundByName
    <2>5. ConstraintsMade(RQ', FM', next[t])
      <3> DEFINE k == next[t] - 1
      <3>1. k \in Nat /\ k + 1 = next[t]
        BY <1>1, <1>4
      <3> HIDE DEF k
      <3>2. FM.constraints = ConstraintsBy(RQ, k)
        BY <1>3 DEF ConstraintsMade, k
      <3>3. ConstraintsBy(RQ, k + 1) =
              IF RQ[k + 1].op = "AddConstraint" THEN ConstraintsBy(RQ, k) \cup {RQ[k + 1].constraint}
              ELSE ConstraintsBy(RQ, k)
        BY <3>1, OneMoreConstraint
      <3>4. FM'.constraints = ConstraintsBy(RQ, k + 1)
        BY <2>1, <2>2, <3>1, <3>2, <3>3 DEF mod
      <3> QED
        BY <1>2, <3>1, <3>4 DEF ConstraintsMade
    <2>6. source # Nil => InfoMade(MQ', FM', 3)
      BY <1>2, <1>3, <2>2 DEF InfoMade
    <2>7. phase'[t] = "committing" => ConstraintsMade(RQ', FM', next'[t] - 1)
      BY <1>1, <1>4, <2>5
    <2> QED
      BY <1>1, <1>2, <1>4, <2>3, <2>4, <2>6, <2>7 DEF DataKept
  <1>5. ASSUME next[t] = Len(RQ) + 1, FM' = FM, phase'[t] = "closed"
        PROVE  DataKept'
    <2>1. Placed' /\ BoundByName'
      BY <1>2, <1>5, CopiedStays, PlacedStays DEF DataKept, BoundByName
    <2>2. next[t] - 1 = Len(RQ)
      BY <1>1, <1>5
    <2>3. ConstraintsMade(RQ', FM', Len(RQ'))
      BY <1>2, <1>3, <1>5, <2>2
    <2> QED
      BY <1>1, <1>2, <1>3, <1>5, <2>1, <2>3 DEF DataKept
  <1> QED
    BY <1>1, <1>4, <1>5, TurnRuns DEF RQ

\* Before its first call a commit has done nothing.
LEMMA ProceedKeepsData ==
  ASSUME BuilderInv, DataKept, FeaturesBuilt \/ TreeBuilt \/ RelationsBuilt
  PROVE  DataKept'
  <1>1. /\ UNCHANGED <<FM, Modifications, next, result, undefined, Parents, source, cloned>> /\ Idle
        /\ MQ' = MQ /\ RQ' = RQ
    BY DEF FeaturesBuilt, TreeBuilt, RelationsBuilt, Proceed, MQ, RQ
  <1>2. Placed' /\ BoundByName'
    BY <1>1, CopiedStays, PlacedStays DEF DataKept, BoundByName
  <1>3. phase \in [Transaction -> Phase]
    BY DEF BuilderInv
  <1>4. CASE stage' = "failed"
    BY <1>2, <1>4 DEF DataKept
  <1>5. CASE FeaturesBuilt /\ stage' = "tree"
    <2>1. stage = "features" /\ phase' = [phase EXCEPT ![ModelBuilder] = "committing"]
      BY <1>5 DEF FeaturesBuilt, Proceed
    <2>2. next[ModelBuilder] = 1
      BY <2>1 DEF BuilderInv, StageKept, Waiting
    <2>3. phase'[ModelBuilder] = "committing"
      BY <1>3, <2>1, Transactions
    <2>4. InfoMade(MQ', FM', next'[ModelBuilder] - 1)
      BY <1>1, <2>2 DEF InfoMade
    <2> QED
      BY <1>2, <1>5, <2>3, <2>4 DEF DataKept, Succeeded
  <1>6. CASE TreeBuilt /\ stage' = "relations"
    <2>1. /\ stage = "tree" /\ phase[ModelBuilder] = "closed" /\ result[ModelBuilder] = "OK"
          /\ phase' = [phase EXCEPT ![RelationBuilder] = "committing"]
      BY <1>6 DEF TreeBuilt, Proceed
    <2>2. next[RelationBuilder] = 1
      BY <2>1 DEF BuilderInv, StageKept, Waiting
    <2>3. FM.constraints = {}
      BY <1>1, <2>1, CommitIsOver DEF TreeMade
    <2>4. phase'[RelationBuilder] = "committing"
      BY <1>3, <2>1, Transactions
    <2>5. ConstraintsMade(RQ', FM', next'[RelationBuilder] - 1)
      <3>1. ConstraintsIn(RQ', 0) = {}
        BY DEF ConstraintsIn
      <3> QED
        BY <1>1, <2>2, <2>3, <3>1 DEF ConstraintsMade, ConstraintsBy
    <2>6. source # Nil => InfoMade(MQ', FM', 3)
      BY <1>1, <2>1 DEF DataKept, Succeeded
    <2> QED
      BY <1>1, <1>2, <1>6, <2>4, <2>5, <2>6 DEF DataKept, Succeeded
  <1>7. CASE RelationsBuilt /\ stage' = "built"
    <2>1. stage = "relations" /\ phase[RelationBuilder] = "closed" /\ result[RelationBuilder] = "OK"
      BY <1>7 DEF RelationsBuilt, Proceed
    <2>2. ConstraintsMade(RQ', FM', Len(RQ')) /\ (source # Nil => InfoMade(MQ', FM', 3))
      BY <1>1, <2>1 DEF DataKept, Succeeded
    <2> QED
      BY <1>1, <1>2, <1>7, <2>2 DEF DataKept
  <1> QED
    BY <1>4, <1>5, <1>6, <1>7 DEF FeaturesBuilt, TreeBuilt, RelationsBuilt, Proceed

\* What the calls have done survives calls that do nothing.
LEMMA NothingKeepsData ==
  ASSUME BuilderInv, DataKept,
         UNCHANGED <<FM, phase, Modifications, next, stage, source, cloned>>,
         stage \in {"built", "failed"} \/ UNCHANGED result
  PROVE  DataKept'
  <1>1. MQ' = MQ /\ RQ' = RQ
    BY DEF MQ, RQ
  <1>2. Placed' /\ BoundByName'
    BY CopiedStays, PlacedStays DEF DataKept, BoundByName
  <1>3. CASE stage \in {"built", "failed"}
    BY <1>1, <1>2, <1>3 DEF DataKept
  <1>4. CASE UNCHANGED result
    BY <1>1, <1>2, <1>4 DEF DataKept, Succeeded
  <1> QED
    BY <1>3, <1>4

-------------------------------------------------------------------------------
(* The invariant of a clone *)

CloneInv == BuilderInv /\ CloneAsks /\ DataKept

\* The invariant of clone holds in the initial states.
LEMMA CloneInitially == BuilderInit => CloneInv
  <1>1. BuilderInit => CloneAsks
    BY DEF BuilderInit, CloneAsks
  <1> QED
    BY <1>1, BuilderInitially, DataInitially DEF CloneInv

\* Every step keeps the invariant of clone.
LEMMA CloneInductive ==
  ASSUME CloneInv, [BuilderNext]_builderVars, BuilderInv', DestroyBuilder => CloneInv'
  PROVE  CloneInv'
  <1>1. BuilderInv /\ CloneAsks /\ DataKept
    BY DEF CloneInv
  <1>2. ASSUME NEW mod \in Menu, Ask(mod) PROVE CloneInv'
    <2>1. /\ source = Nil /\ source' = Nil /\ stage = "asking"
          /\ UNCHANGED <<FM, stage, source, cloned>>
      BY <1>2 DEF Ask, Queue
    <2>2. DataKept'
      BY <1>1, <2>1, CopiedStays, AskingKeepsData
    <2> QED
      BY <2>1, <2>2 DEF CloneInv, CloneAsks
  <1>3. ASSUME NEW m \in Originals, Clone(m) PROVE CloneInv'
    <2>1. stage = "asking" /\ source = Nil /\ UNCHANGED <<FM, stage, cloned>>
      BY <1>3 DEF Clone
    <2>2. Copied = {} /\ Copied' = Copied
      BY <1>1, <2>1 DEF BuilderInv, CloneKept, Copied
    <2>3. DataKept'
      BY <1>1, <2>1, <2>2, AskingKeepsData
    <2> QED
      BY <1>1, <1>3, <2>3, CloneBegins DEF CloneInv
  <1>4. CASE source # Nil /\ CloneCall
    BY <1>1, <1>4, CloneCallAsks, CloneCallKeepsData DEF CloneInv
  <1>5. CASE BuildFeatureModel
    <2>1. /\ stage = "asking" /\ stage' = "features" /\ AllCloned
          /\ UNCHANGED <<FM, Modifications, source, cloned>>
      BY <1>5 DEF BuildFeatureModel, Commit
    <2>2. Placed' /\ BoundByName'
      BY <1>1, <2>1, CopiedStays, PlacedStays DEF DataKept, BoundByName
    <2>3. DataKept'
      BY <2>1, <2>2 DEF DataKept
    <2> QED
      BY <1>1, <2>1, <2>3, CloneHasAsked DEF CloneInv
  <1>6. ASSUME NEW t \in Transaction, BuilderStep(t) PROVE CloneInv'
    <2>1. UNCHANGED <<Modifications, stage, source, cloned>>
      BY <1>1, <1>6, TurnRuns
    <2>2. CloneAsks'
      BY <1>1, <2>1, CloneHasAsked
    <2>3. stage \in {"features", "tree", "relations"}
      BY <1>1, <1>6, TurnIs
    <2>4. DataKept'
      BY <1>1, <1>6, <2>3, FeatureStepKeepsData, TreeStepKeepsData, RelationStepKeepsData
    <2> QED
      BY <2>2, <2>4 DEF CloneInv
  <1>7. CASE FeaturesBuilt \/ TreeBuilt \/ RelationsBuilt
    <2>1. UNCHANGED <<Modifications, source, cloned>> /\ stage # "asking"
      BY <1>7 DEF FeaturesBuilt, TreeBuilt, RelationsBuilt, Proceed
    <2> QED
      BY <1>1, <1>7, <2>1, CloneHasAsked, ProceedKeepsData DEF CloneInv
  <1>8. CASE BuildAgain
    <2>1. /\ stage \in {"built", "failed"}
          /\ UNCHANGED <<FM, phase, Modifications, next, stage, source, cloned>>
      BY <1>8 DEF BuildAgain, CommitAgain
    <2> QED
      BY <1>1, <2>1, CloneHasAsked, NothingKeepsData DEF CloneInv
  <1>9. CASE UNCHANGED builderVars
    <2>1. UNCHANGED <<FM, phase, Modifications, next, result, stage, source, cloned>>
      BY <1>9 DEF builderVars, vars
    <2> QED
      BY <1>1, <2>1, CloneHasAsked, NothingKeepsData DEF CloneInv
  <1> QED
    BY <1>2, <1>3, <1>4, <1>5, <1>6, <1>7, <1>8, <1>9 DEF BuilderNext

\* At every point of every clone the queues hold the calls for what was cloned, and the
\* model has the data of the calls executed so far.
THEOREM CloneInvariant == BuilderSpec => []CloneInv
  <1>1. BuilderInit => CloneInv
    BY CloneInitially
  <1>2. BuilderInit' => CloneInv'
    BY <1>1, PTL
  <1>3. CloneInv /\ BuilderInv' /\ [BuilderNext]_builderVars => CloneInv'
    BY <1>2, CloneInductive, DestroyKeeps
  <1> QED
    BY <1>1, <1>3, BuilderInvariant, PTL DEF BuilderSpec

-------------------------------------------------------------------------------
(* What the calls of a clone amount to *)

\* Every feature of an original but its root has another one above it.
LEMMA OriginalAbove ==
  ASSUME NEW m \in Originals, NEW f \in m.features
  PROVE  /\ f = m.root => ParentFeature(m, f) = Nil
         /\ f # m.root =>
              /\ ParentFeature(m, f) \in m.features \ {f}
              /\ \/ m.parent[f] = ParentFeature(m, f)
                 \/ m.parent[f] \in m.relationships /\ m.parent[m.parent[f]] = ParentFeature(m, f)
  <1>1. /\ m \in Model /\ EdgesMatchParents(m) /\ Rooted(m) /\ GroupsWellPlaced(m)
        /\ m.features \subseteq Feature /\ m.root \in m.features
    BY OriginalIs, ModelFields DEF WellFormed, Rooted
  <1>2. CASE f = m.root
    <2>1. Up(m, f) = Nil
      BY <1>1, <1>2, ConstantsAssumption DEF Up, Rooted, Node
    <2> QED
      BY <1>1, <1>2, <2>1, ClimbIs
  <1>3. CASE f # m.root
    <2>1. \/ m.parent[f] \in m.features /\ ParentFeature(m, f) = m.parent[f]
          \/ /\ m.parent[f] \in m.relationships /\ m.parent[m.parent[f]] \in m.features
             /\ ParentFeature(m, f) = m.parent[m.parent[f]]
      BY <1>1, <1>3, ParentFeatureIs
    <2>2. \A S \in SUBSET (Live(m) \ {m.root}) : S # {} => \E n \in S : m.parent[n] \in Live(m) \ S
      BY <1>1 DEF Rooted
    <2>3. m.parent[f] # f
      <3>1. {f} \in SUBSET (Live(m) \ {m.root}) /\ {f} # {}
        BY <1>3 DEF Live
      <3>2. \E n \in {f} : m.parent[n] \in Live(m) \ {f}
        BY <2>2, <3>1
      <3> QED
        BY <3>2
    <2>4. m.parent[f] \in m.relationships => m.parent[m.parent[f]] # f
      <3> SUFFICES ASSUME m.parent[f] \in m.relationships, m.parent[m.parent[f]] = f
                   PROVE  FALSE
        OBVIOUS
      <3> DEFINE S == {f, m.parent[f]}
      <3>1. m.parent[f] # m.root
        BY <1>1, KindsAreApart
      <3>2. S \in SUBSET (Live(m) \ {m.root}) /\ S # {}
        BY <1>3, <3>1 DEF Live
      <3>3. \A n \in S : m.parent[n] \in S
        OBVIOUS
      <3> QED
        BY <2>2, <3>2, <3>3
    <2> QED
      BY <1>3, <2>1, <2>3, <2>4
  <1> QED
    BY <1>2, <1>3

\* Only the root of an original is a RootFeature, and names identify features.
LEMMA OriginalNames ==
  ASSUME NEW m \in Originals
  PROVE  /\ m.root \in m.features /\ m.features \cap RootFeature = {m.root}
         /\ m.features \subseteq Feature
         /\ \A f, g \in m.features : NameOf[f] = NameOf[g] => f = g
         /\ \A f \in m.features : NameOf[Twin[f]] = NameOf[f]
         /\ \A f \in m.features : Twin[f] \in RootFeature <=> f \in RootFeature
         /\ \A c \in m.constraints : Mentions[Twin[c]] = Mentions[c]
         /\ \A r \in m.relationships : m.parent[r] \in m.features
         /\ \A r, q \in m.relationships : m.parent[r] = m.parent[q] => r = q
  BY OriginalIs, ModelFields, BuilderAssumption DEF WellFormed, NamesIdentify, GroupsWellPlaced

\* The calls when everything was cloned.
LEMMA AllCalls ==
  ASSUME BuilderInv, CloneAsks, source # Nil, AllCloned
  PROVE  /\ source \in Originals /\ QueuesKept
         /\ {FQ[i] : i \in 1..Len(FQ)} = {FeatureCall(f) : f \in source.features}
         /\ {MQ[i] : i \in {j \in 1..Len(MQ) : MQ[j].op = "AddChild"}} =
              {EdgeCall(source, f) : f \in source.features \ {source.root}}
         /\ {RQ[i] : i \in GroupsIn(RQ, Len(RQ))} = {GroupCall(source, r) : r \in source.relationships}
         /\ {RQ[i] : i \in ConstraintsIn(RQ, Len(RQ))} = {ConstraintCall(c) : c \in source.constraints}
  <1>1. source \in Originals /\ QueuesKept /\ source.root \in source.features
    BY OriginalNames DEF BuilderInv, CloneKept
  <1>2. /\ cloned \cap source.features = source.features
        /\ cloned \cap source.relationships = source.relationships
        /\ cloned \cap source.constraints = source.constraints
    BY DEF AllCloned, Live
  <1>3. {FQ[i] : i \in 1..Len(FQ)} = {FeatureCall(f) : f \in source.features}
    BY <1>2 DEF CloneAsks, Calls, FeatureCallsFor
  <1>4. {g \in source.features : ParentFeature(source, g) # Nil} = source.features \ {source.root}
    <2>1. Nil \notin source.features
      BY <1>1, OriginalNames, ConstantsAssumption DEF Node
    <2> QED
      BY <1>1, <2>1, OriginalAbove
  <1>5. {MQ[i] : i \in {j \in 1..Len(MQ) : MQ[j].op = "AddChild"}} =
          {EdgeCall(source, f) : f \in source.features \ {source.root}}
    <2>1. {MQ[i] : i \in 4..Len(MQ)} = {EdgeCall(source, f) : f \in source.features \ {source.root}}
      BY <1>2, <1>4 DEF CloneAsks, Calls, EdgeCallsFor
    <2>2. \A i \in 4..Len(MQ) : MQ[i].op = "AddChild"
      <3>1. \A f : EdgeCall(source, f).op = "AddChild"
        BY DEF EdgeCall
      <3> QED
        BY <2>1, <3>1
    <2>3. \A i \in 1..3 : MQ[i].op # "AddChild"
      BY DEF CloneAsks, InfoCalls, CloneInfo
    <2>4. 1..Len(MQ) = 1..3 \cup 4..Len(MQ)
      BY <1>1 DEF CloneAsks, QueuesKept
    <2>5. {j \in 1..Len(MQ) : MQ[j].op = "AddChild"} = 4..Len(MQ)
      BY <2>2, <2>3, <2>4
    <2> QED
      BY <2>1, <2>5
  <1>6. {RQ[i] : i \in 1..Len(RQ)} =
          {GroupCall(source, r) : r \in source.relationships} \cup {ConstraintCall(c) : c \in source.constraints}
    BY <1>2 DEF CloneAsks, Calls, RelationCallsFor
  <1>7. /\ \A r : GroupCall(source, r).op = "AddRelationship"
        /\ \A c : ConstraintCall(c).op = "AddConstraint"
    BY DEF GroupCall, ConstraintCall
  <1> DEFINE R == {RQ[i] : i \in 1..Len(RQ)}
  <1>8. /\ {RQ[i] : i \in GroupsIn(RQ, Len(RQ))} = {mod \in R : mod.op = "AddRelationship"}
        /\ {RQ[i] : i \in ConstraintsIn(RQ, Len(RQ))} = {mod \in R : mod.op = "AddConstraint"}
    BY DEF GroupsIn, ConstraintsIn
  <1> HIDE DEF R
  <1>9. /\ {mod \in R : mod.op = "AddRelationship"} = {GroupCall(source, r) : r \in source.relationships}
        /\ {mod \in R : mod.op = "AddConstraint"} = {ConstraintCall(c) : c \in source.constraints}
    BY <1>6, <1>7 DEF R
  <1> QED
    BY <1>1, <1>3, <1>5, <1>8, <1>9

\* There is one call for the root, and each other feature is asked for.
LEMMA CloneNames ==
  ASSUME BuilderInv, CloneAsks, source # Nil, AllCloned
  PROVE  /\ RootName = NameOf[source.root]
         /\ AskedFeatures = {Twin[f] : f \in source.features \ {source.root}}
         /\ \A n \in RootNames : n = NameOf[source.root] \/ \E new \in InitialModels : n = NameOf[new.root]
         /\ KnownNames = {NameOf[f] : f \in source.features}
  <1> DEFINE root == source.root
             F == {FQ[i] : i \in 1..Len(FQ)}
  <1>1. /\ source \in Originals /\ QueuesKept
        /\ F = {FeatureCall(f) : f \in source.features}
    BY AllCalls
  <1>2. /\ root \in source.features /\ source.features \cap RootFeature = {root}
        /\ \A f \in source.features : NameOf[Twin[f]] = NameOf[f]
    BY <1>1, OriginalNames
  <1>3. /\ FeatureCall(root) = [op |-> "SetRoot", feature |-> Twin[root]]
        /\ \A f \in source.features \ {root} :
             FeatureCall(f) = [op |-> "AddFeature", feature |-> Twin[f], parent |-> Nil]
    BY <1>2 DEF FeatureCall
  <1>4. /\ \A x : x \in AskedFeatures <=> \E mod \in F : mod.op = "AddFeature" /\ x = mod.feature
        /\ \A mod : mod \in Asked("SetRoot") <=> mod \in F /\ mod.op = "SetRoot"
    <2>1. AskedFeatures = MadeBy(FQ, Len(FQ)) /\ Asked("SetRoot") = {FQ[i] : i \in RootsIn(FQ, Len(FQ))}
      BY <1>1, AskedAre
    <2> QED
      BY <2>1 DEF MadeBy, RootsIn
  <1> HIDE DEF F
  <1>5. AskedFeatures = {Twin[f] : f \in source.features \ {root}}
    <2>1. \A x \in AskedFeatures : \E f \in source.features \ {root} : x = Twin[f]
      <3> SUFFICES ASSUME NEW x \in AskedFeatures PROVE \E f \in source.features \ {root} : x = Twin[f]
        OBVIOUS
      <3>1. PICK mod \in F : mod.op = "AddFeature" /\ x = mod.feature
        BY <1>4
      <3>2. PICK f \in source.features : mod = FeatureCall(f)
        BY <1>1, <3>1
      <3>3. f # root
        BY <1>3, <3>1, <3>2
      <3> QED
        BY <1>3, <3>1, <3>2, <3>3
    <2>2. ASSUME NEW f \in source.features \ {root} PROVE Twin[f] \in AskedFeatures
      <3>1. FeatureCall(f) \in F /\ FeatureCall(f).op = "AddFeature" /\ FeatureCall(f).feature = Twin[f]
        BY <1>1, <1>3
      <3> QED
        BY <1>4, <3>1
    <2> QED
      BY <2>1, <2>2
  <1>6. Asked("SetRoot") = {FeatureCall(root)}
    <2>1. ASSUME NEW mod \in Asked("SetRoot") PROVE mod = FeatureCall(root)
      <3>1. PICK f \in source.features : mod = FeatureCall(f) /\ FeatureCall(f).op = "SetRoot"
        BY <1>1, <1>4, <2>1
      <3>2. f = root
        BY <1>3, <3>1
      <3> QED
        BY <3>1, <3>2
    <2>2. FeatureCall(root) \in Asked("SetRoot")
      <3>1. FeatureCall(root) \in F
        BY <1>1, <1>2
      <3> QED
        BY <1>3, <1>4, <3>1
    <2> QED
      BY <2>1, <2>2
  <1>7. IsRootName(NameOf[root], FQ, Len(FQ))
    <2>1. /\ \A j \in RootsIn(FQ, Len(FQ)) : FQ[j] = FeatureCall(root)
          /\ \E i \in RootsIn(FQ, Len(FQ)) : FQ[i] = FeatureCall(root)
      BY <1>1, <1>6, AskedAre
    <2>2. PICK i \in RootsIn(FQ, Len(FQ)) : FQ[i] = FeatureCall(root)
      BY <2>1
    <2>3. \A j \in RootsIn(FQ, Len(FQ)) : j = i
      BY <1>1, <2>1, <2>2 DEF QueuesKept, RootsIn
    <2>4. i \in 1..Len(FQ) /\ NameOf[FQ[i].feature] = NameOf[root]
      BY <1>2, <1>3, <2>2 DEF RootsIn
    <2>5. IsLast(i, RootsIn(FQ, Len(FQ)))
      BY <2>2, <2>3, <2>4 DEF IsLast
    <2> QED
      BY <2>2, <2>4, <2>5 DEF IsRootName
  <1>8. RootName = NameOf[root]
    BY <1>1, <1>7, RootNameIs
  <1>9. \A n \in RootNames : n = NameOf[root] \/ \E new \in InitialModels : n = NameOf[new.root]
    <2>1. NameOf[FeatureCall(root).feature] = NameOf[root]
      BY <1>2, <1>3
    <2>2. {NameOf[mod.feature] : mod \in Asked("SetRoot")} = {NameOf[root]}
      BY <1>6, <2>1
    <2> QED
      BY <2>2 DEF RootNames
  <1>10. KnownNames = {NameOf[f] : f \in source.features}
    BY <1>2, <1>5, <1>8 DEF KnownNames
  <1> QED
    BY <1>5, <1>8, <1>9, <1>10

\* The parent that is recorded for a name is the one of the only edge to it.
LEMMA CloneParents ==
  ASSUME BuilderInv, CloneAsks, source # Nil, AllCloned, NEW f \in source.features
  PROVE  Parents[NameOf[f]] = IF f = source.root THEN Nil ELSE NameOf[ParentFeature(source, f)]
  <1> DEFINE n == NameOf[f]
             E == {MQ[i] : i \in {j \in 1..Len(MQ) : MQ[j].op = "AddChild"}}
  <1>1. /\ source \in Originals /\ QueuesKept
        /\ E = {EdgeCall(source, g) : g \in source.features \ {source.root}}
    BY AllCalls
  <1>2. \A g \in source.features : NameOf[g] = n => g = f
    BY <1>1, OriginalNames
  <1>3. n \in Name /\ IsParentName(Parents[n], n, MQ, Len(MQ))
    BY <1>1, OriginalNames, ConstantsAssumption DEF QueuesKept
  <1>4. \A i \in EdgesTo(MQ, n, Len(MQ)) : f # source.root /\ MQ[i] = EdgeCall(source, f)
    <2> SUFFICES ASSUME NEW i \in EdgesTo(MQ, n, Len(MQ))
                 PROVE  f # source.root /\ MQ[i] = EdgeCall(source, f)
      OBVIOUS
    <2>1. PICK g \in source.features \ {source.root} : MQ[i] = EdgeCall(source, g)
      BY <1>1 DEF EdgesTo
    <2>2. g = f
      BY <1>2, <2>1 DEF EdgesTo, EdgeCall
    <2> QED
      BY <2>1, <2>2
  <1>5. CASE f = source.root
    BY <1>3, <1>4, <1>5 DEF IsParentName
  <1>6. CASE f # source.root
    <2>1. EdgeCall(source, f) \in E
      BY <1>1, <1>6
    <2>2. PICK i \in 1..Len(MQ) : MQ[i].op = "AddChild" /\ MQ[i] = EdgeCall(source, f)
      BY <2>1
    <2>3. i \in EdgesTo(MQ, n, Len(MQ))
      BY <2>2 DEF EdgesTo, EdgeCall
    <2>4. PICK j \in 1..Len(MQ) : IsLast(j, EdgesTo(MQ, n, Len(MQ))) /\ Parents[n] = MQ[j].parent
      BY <1>3, <2>3 DEF IsParentName
    <2>5. MQ[j] = EdgeCall(source, f)
      BY <1>4, <2>4 DEF IsLast
    <2> QED
      BY <1>6, <2>4, <2>5 DEF EdgeCall
  <1> QED
    BY <1>5, <1>6

\* The calls of a clone do not contradict each other.
LEMMA CloneIsConsistent ==
  ASSUME BuilderInv, CloneAsks, source # Nil, AllCloned, Clonable(source)
  PROVE  Consistent
  <1> DEFINE m == source
  <1>1. m \in Originals /\ QueuesKept
    BY AllCalls
  <1>2. /\ m.root \in m.features /\ m.features \cap RootFeature = {m.root}
        /\ \A f, g \in m.features : NameOf[f] = NameOf[g] => f = g
        /\ \A f \in m.features : NameOf[Twin[f]] = NameOf[f]
        /\ \A f \in m.features : Twin[f] \in RootFeature <=> f \in RootFeature
        /\ \A c \in m.constraints : Mentions[Twin[c]] = Mentions[c]
        /\ \A r \in m.relationships : m.parent[r] \in m.features
    BY <1>1, OriginalNames
  <1>3. /\ AskedFeatures = {Twin[f] : f \in m.features \ {m.root}}
        /\ \A n \in RootNames : n = NameOf[m.root] \/ \E new \in InitialModels : n = NameOf[new.root]
        /\ KnownNames = {NameOf[f] : f \in m.features}
    BY CloneNames
  <1>4. /\ Asked("AddChild") = {EdgeCall(m, f) : f \in m.features \ {m.root}}
        /\ Asked("AddRelationship") = {GroupCall(m, r) : r \in m.relationships}
        /\ Asked("AddConstraint") = {ConstraintCall(c) : c \in m.constraints}
    BY <1>1, AllCalls, AskedAre
  <1>5. /\ \A f \in m.features \ {m.root}, new \in InitialModels : NameOf[f] # NameOf[new.root]
        /\ \A c \in m.constraints : \A n \in Mentions[c] : \E f \in m.features : NameOf[f] = n
    BY DEF Clonable, MayClone
  <1>6. \A f \in m.features \ {m.root} : ParentFeature(m, f) \in m.features \ {f}
    BY <1>1, OriginalAbove
  <1> HIDE DEF m
  <1>7. AskedFeatures \cap RootFeature = {}
    BY <1>2, <1>3
  <1>8. \A f, g \in AskedFeatures : NameOf[f] = NameOf[g] => f = g
    BY <1>2, <1>3
  <1>9. \A f \in AskedFeatures : NameOf[f] \notin RootNames
    <2> SUFFICES ASSUME NEW f \in m.features \ {m.root}, NameOf[Twin[f]] \in RootNames PROVE FALSE
      BY <1>3
    <2>1. NameOf[f] = NameOf[m.root] \/ \E new \in InitialModels : NameOf[f] = NameOf[new.root]
      BY <1>2, <1>3
    <2> QED
      BY <1>2, <1>5, <2>1
  <1>10. \A mod \in Asked("AddChild") : mod.parent # mod.child /\ {mod.parent, mod.child} \subseteq KnownNames
    <2> SUFFICES ASSUME NEW f \in m.features \ {m.root}
                 PROVE  /\ EdgeCall(m, f).parent # EdgeCall(m, f).child
                        /\ {EdgeCall(m, f).parent, EdgeCall(m, f).child} \subseteq KnownNames
      BY <1>4
    <2> QED
      BY <1>2, <1>3, <1>6 DEF EdgeCall
  <1>11. \A mod \in Asked("AddRelationship") : mod.ref \in KnownNames
    BY <1>2, <1>3, <1>4 DEF GroupCall
  <1>12. \A mod \in Asked("AddConstraint") : Mentions[mod.constraint] \subseteq KnownNames
    <2> SUFFICES ASSUME NEW c \in m.constraints
                 PROVE  Mentions[ConstraintCall(c).constraint] \subseteq KnownNames
      BY <1>4
    <2> QED
      BY <1>2, <1>3, <1>5 DEF ConstraintCall
  <1> QED
    BY <1>7, <1>8, <1>9, <1>10, <1>11, <1>12 DEF Consistent

\* The edges of a clone describe a tree, the one of the original.
LEMMA CloneIsTreeLike ==
  ASSUME BuilderInv, CloneAsks, source # Nil, AllCloned
  PROVE  TreeLike
  <1> DEFINE m == source
  <1>1. m \in Originals /\ QueuesKept
    BY AllCalls
  <1>2. /\ m.root \in m.features
        /\ \A f, g \in m.features : NameOf[f] = NameOf[g] => f = g
        /\ \A r \in m.relationships : m.parent[r] \in m.features
        /\ \A r, q \in m.relationships : m.parent[r] = m.parent[q] => r = q
    BY <1>1, OriginalNames
  <1>3. RootName = NameOf[m.root] /\ KnownNames = {NameOf[f] : f \in m.features}
    BY CloneNames
  <1>4. \A f \in m.features :
          Parents[NameOf[f]] = IF f = m.root THEN Nil ELSE NameOf[ParentFeature(m, f)]
    BY CloneParents
  <1>5. Asked("AddRelationship") = {GroupCall(m, r) : r \in m.relationships}
    BY <1>1, AllCalls, AskedAre
  <1>6. \A f \in m.features \ {m.root} :
          /\ ParentFeature(m, f) \in m.features
          /\ \/ m.parent[f] = ParentFeature(m, f)
             \/ m.parent[f] \in m.relationships /\ m.parent[m.parent[f]] = ParentFeature(m, f)
    BY <1>1, OriginalAbove
  <1>7. \A S \in SUBSET (Live(m) \ {m.root}) : S # {} => \E n \in S : m.parent[n] \in Live(m) \ S
    BY <1>1, OriginalIs DEF WellFormed, Rooted
  <1>8. m.features \cap m.relationships = {}
    BY <1>1, OriginalIs, KindsAreApart
  <1> HIDE DEF m
  <1>9. Parents[RootName] = Nil
    BY <1>2, <1>3, <1>4
  <1>10. ASSUME NEW S \in SUBSET (KnownNames \ {RootName}), S # {}
         PROVE  \E n \in S : Parents[n] \notin S
    <2> DEFINE F == {f \in m.features : NameOf[f] \in S}
               T == F \cup {r \in m.relationships : m.parent[r] \in F}
    <2>1. F # {} /\ m.root \notin F
      BY <1>3, <1>10
    <2>2. T \in SUBSET (Live(m) \ {m.root}) /\ T # {}
      BY <1>2, <1>8, <2>1 DEF Live
    <2>3. PICK n \in T : m.parent[n] \in Live(m) \ T
      BY <1>7, <2>2
    <2>4. n \in F
      BY <2>3
    <2>5. n \in m.features \ {m.root} /\ NameOf[n] \in S
      BY <2>1, <2>4
    <2>6. ParentFeature(m, n) \in m.features \ F
      <3>1. CASE m.parent[n] = ParentFeature(m, n)
        BY <1>6, <2>3, <2>5, <3>1
      <3>2. CASE m.parent[n] \in m.relationships /\ m.parent[m.parent[n]] = ParentFeature(m, n)
        BY <1>6, <2>3, <2>5, <3>2
      <3> QED
        BY <1>6, <2>5, <3>1, <3>2
    <2>7. Parents[NameOf[n]] = NameOf[ParentFeature(m, n)]
      BY <1>4, <2>5
    <2> QED
      BY <2>5, <2>6, <2>7
  <1>11. ASSUME NEW g \in Asked("AddRelationship"), NEW h \in Asked("AddRelationship"), g.ref = h.ref
         PROVE  g = h
    <2>1. PICK r \in m.relationships : g = GroupCall(m, r)
      BY <1>5, <1>11
    <2>2. PICK q \in m.relationships : h = GroupCall(m, q)
      BY <1>5, <1>11
    <2>3. NameOf[m.parent[r]] = NameOf[m.parent[q]]
      BY <1>11, <2>1, <2>2 DEF GroupCall
    <2>4. r = q
      BY <1>2, <2>3
    <2> QED
      BY <2>1, <2>2, <2>4
  <1> QED
    BY <1>9, <1>10, <1>11 DEF TreeLike

-------------------------------------------------------------------------------
(* The model that clone hands out *)

\* A model is a record of its parts.
LEMMA ModelIsRecord ==
  ASSUME NEW m \in Model
  PROVE  m = [features |-> m.features, relationships |-> m.relationships, root |-> m.root,
              parent |-> m.parent, edges |-> m.edges, constraints |-> m.constraints,
              bound |-> m.bound, locations |-> m.locations, output |-> m.output, info |-> m.info]
  BY DEF Model

\* An original, regrouped.
LEMMA OriginalRegrouped ==
  ASSUME NEW m \in Originals
  PROVE  LET g == Regrouped(m) IN
         /\ g.features = m.features /\ g.relationships = m.relationships /\ g.root = m.root
         /\ g.constraints = m.constraints /\ g.bound = m.bound
         /\ g.locations = m.locations /\ g.info = m.info
         /\ g.edges = {<<g.parent[n], n>> : n \in {x \in Live(m) : g.parent[x] # Nil}}
         /\ g.parent[m.root] = Nil
         /\ \A r \in m.relationships : g.parent[r] = m.parent[r]
         /\ \A f \in m.features \ {m.root} :
              \/ /\ g.parent[f] \in m.relationships
                 /\ m.parent[g.parent[f]] = ParentFeature(m, f)
              \/ /\ g.parent[f] = ParentFeature(m, f)
                 /\ \A r \in m.relationships : m.parent[r] # ParentFeature(m, f)
  <1>1. m \in Model /\ EdgesMatchParents(m) /\ Rooted(m) /\ GroupsWellPlaced(m)
    BY OriginalIs DEF WellFormed
  <1> QED
    BY <1>1, RegroupedIs

\* The objects of a clone correspond to those of the original, and carry their names.
LEMMA TwinIs ==
  ASSUME CloneInv, source # Nil, stage = "built"
  PROVE  LET twin == CloneOf(source) IN
         /\ twin[source.root] = FM.root
         /\ \A x \in (Live(source) \cup source.constraints) \ {source.root} : twin[x] = Twin[x]
         /\ FM.features = {twin[f] : f \in source.features}
         /\ FM.relationships = {twin[r] : r \in source.relationships}
         /\ FM.constraints = {twin[c] : c \in source.constraints}
         /\ \A f \in source.features : NameOf[twin[f]] = NameOf[f]
         /\ \A x, y \in Live(source) : twin[x] = twin[y] => x = y
  <1> DEFINE m == source
             twin == CloneOf(m)
  <1>1. BuilderInv /\ CloneAsks /\ DataKept /\ AllCloned
    BY DEF CloneInv, CloneAsks
  <1>2. m \in Originals /\ m \in Model /\ QueuesKept
    BY <1>1, AllCalls, OriginalIs
  <1>3. /\ m.root \in m.features /\ m.features \subseteq Feature
        /\ \A f \in m.features : NameOf[Twin[f]] = NameOf[f]
        /\ \A f \in m.features : Twin[f] \in RootFeature <=> f \in RootFeature
        /\ m.features \cap RootFeature = {m.root}
    BY <1>2, OriginalNames
  <1>4. /\ RelationsMade(FQ, Parents, RQ, FM, Len(RQ)) /\ ConstraintsMade(RQ, FM, Len(RQ))
        /\ Settled(FQ, FM)
    BY <1>1 DEF BuilderInv, StageKept, DataKept, RelationsMade
  <1>5. /\ FM \in Model /\ FM.root \in FM.features /\ FM.features \cap RootFeature = {FM.root}
        /\ NameOf[FM.root] = NameOf[m.root]
        /\ FM.features \ {FM.root} = {Twin[f] : f \in m.features \ {m.root}}
    BY <1>1, <1>2, <1>4, CloneNames, KnownNamesAre DEF Settled, NamesIdentify
  <1>6. /\ twin = [Twin EXCEPT ![m.root] = FM.root]
        /\ Twin \in [Node \cup Constraint -> Node \cup Constraint]
        /\ Live(m) \cup m.constraints \subseteq Node \cup Constraint
        /\ m.root \in Node \cup Constraint
    BY <1>2, <1>3, BuilderAssumption, ModelFields DEF CloneOf, Node
  <1>7. /\ twin[m.root] = FM.root
        /\ \A x \in (Live(m) \cup m.constraints) \ {m.root} : twin[x] = Twin[x]
    BY <1>6
  <1> HIDE DEF twin
  <1>8. /\ m.root \notin m.relationships /\ m.root \notin m.constraints
        /\ m.features \subseteq Live(m) /\ m.relationships \subseteq Live(m)
    BY <1>2, <1>3, KindsAreApart DEF Live
  <1>9. FM.features = {twin[f] : f \in m.features}
    <2>1. \A f \in m.features \ {m.root} : twin[f] = Twin[f]
      BY <1>7, <1>8
    <2> QED
      BY <1>3, <1>5, <1>7, <2>1
  <1>10. FM.relationships = {twin[r] : r \in m.relationships}
    <2>1. {RQ[i] : i \in GroupsIn(RQ, Len(RQ))} = {GroupCall(m, r) : r \in m.relationships}
      BY <1>1, AllCalls
    <2>2. FM.relationships = {RQ[i].relationship : i \in GroupsIn(RQ, Len(RQ))}
      BY <1>4 DEF RelationsMade
    <2>3. \A r \in m.relationships : GroupCall(m, r).relationship = twin[r]
      BY <1>7, <1>8 DEF GroupCall
    <2>4. ASSUME NEW x \in FM.relationships PROVE \E r \in m.relationships : x = twin[r]
      <3>1. PICK i \in GroupsIn(RQ, Len(RQ)) : x = RQ[i].relationship
        BY <2>2, <2>4
      <3>2. PICK r \in m.relationships : RQ[i] = GroupCall(m, r)
        BY <2>1
      <3> QED
        BY <2>3, <3>1, <3>2
    <2>5. ASSUME NEW r \in m.relationships PROVE twin[r] \in FM.relationships
      <3>1. GroupCall(m, r) \in {RQ[i] : i \in GroupsIn(RQ, Len(RQ))}
        BY <2>1
      <3>2. PICK i \in GroupsIn(RQ, Len(RQ)) : RQ[i] = GroupCall(m, r)
        BY <3>1
      <3> QED
        BY <2>2, <2>3, <3>2
    <2> QED
      BY <2>4, <2>5
  <1>11. FM.constraints = {twin[c] : c \in m.constraints}
    <2>1. {RQ[i] : i \in ConstraintsIn(RQ, Len(RQ))} = {ConstraintCall(c) : c \in m.constraints}
      BY <1>1, AllCalls
    <2>2. FM.constraints = {RQ[i].constraint : i \in ConstraintsIn(RQ, Len(RQ))}
      BY <1>4 DEF ConstraintsMade, ConstraintsBy
    <2>3. \A c \in m.constraints : ConstraintCall(c).constraint = twin[c]
      BY <1>7, <1>8 DEF ConstraintCall
    <2>4. ASSUME NEW x \in FM.constraints PROVE \E c \in m.constraints : x = twin[c]
      <3>1. PICK i \in ConstraintsIn(RQ, Len(RQ)) : x = RQ[i].constraint
        BY <2>2, <2>4
      <3>2. PICK c \in m.constraints : RQ[i] = ConstraintCall(c)
        BY <2>1
      <3> QED
        BY <2>3, <3>1, <3>2
    <2>5. ASSUME NEW c \in m.constraints PROVE twin[c] \in FM.constraints
      <3>1. ConstraintCall(c) \in {RQ[i] : i \in ConstraintsIn(RQ, Len(RQ))}
        BY <2>1
      <3>2. PICK i \in ConstraintsIn(RQ, Len(RQ)) : RQ[i] = ConstraintCall(c)
        BY <3>1
      <3> QED
        BY <2>2, <2>3, <3>2
    <2> QED
      BY <2>4, <2>5
  <1>12. \A f \in m.features : NameOf[twin[f]] = NameOf[f]
    BY <1>3, <1>5, <1>7, <1>8
  <1>13. ASSUME NEW x \in Live(m), NEW y \in Live(m), twin[x] = twin[y] PROVE x = y
    <2>1. \A z \in Live(m) \ {m.root} : twin[z] # FM.root
      <3> SUFFICES ASSUME NEW z \in Live(m) \ {m.root}, twin[z] = FM.root PROVE FALSE
        OBVIOUS
      <3>1. CASE z \in m.features
        BY <1>3, <1>5, <1>7, <1>8, <3>1
      <3>2. CASE z \in m.relationships
        <4>1. FM.root \in FM.relationships
          BY <1>10, <3>2
        <4> QED
          BY <1>5, <4>1, KindsAreApart
      <3> QED
        BY <3>1, <3>2 DEF Live
    <2>2. \A u, v \in Live(m) : Twin[u] = Twin[v] => u = v
      BY <1>2, OriginalIs
    <2> QED
      BY <1>7, <1>13, <2>1, <2>2
  <1> QED
    BY <1>7, <1>9, <1>10, <1>11, <1>12, <1>13 DEF twin

\* Each object of a clone hangs where that of the regrouped original hangs.
LEMMA TwinsHang ==
  ASSUME CloneInv, source # Nil, stage = "built", NEW x \in Live(source)
  PROVE  LET p == Regrouped(source).parent[x] IN
         FM.parent[CloneOf(source)[x]] = IF p # Nil THEN CloneOf(source)[p] ELSE Nil
  <1> DEFINE m == source
             twin == CloneOf(m)
             parent == Regrouped(m).parent
  <1>1. BuilderInv /\ CloneAsks /\ AllCloned
    BY DEF CloneInv, CloneAsks
  <1>2. m \in Originals /\ m \in Model /\ QueuesKept
    BY <1>1, AllCalls, OriginalIs
  <1>3. /\ m.root \in m.features /\ m.features \subseteq Feature
        /\ \A r \in m.relationships : m.parent[r] \in m.features
        /\ m.features \cap m.relationships = {}
        /\ Nil \notin m.features /\ Nil \notin m.relationships
    BY <1>2, OriginalNames, KindsAreApart, ModelFields, ConstantsAssumption DEF Node
  <1>4. /\ twin[m.root] = FM.root
        /\ FM.features = {twin[f] : f \in m.features}
        /\ FM.relationships = {twin[r] : r \in m.relationships}
        /\ \A f \in m.features : NameOf[twin[f]] = NameOf[f]
        /\ \A u, v \in Live(m) : twin[u] = twin[v] => u = v
    BY TwinIs
  <1>5. RelationsMade(FQ, Parents, RQ, FM, Len(RQ)) /\ GroupsTakeAll(FM) /\ Settled(FQ, FM)
    BY <1>1, CloneIsTreeLike DEF BuilderInv, StageKept, RelationsMade
  <1>6. /\ FM \in Model /\ EdgesMatchParents(FM) /\ NamesIdentify(FM) /\ GroupsWellPlaced(FM)
        /\ \A r \in FM.relationships : Targets(FM, {FM.parent[r]}) = {r}
        /\ FM.features \cap FM.relationships = {} /\ FM.relationships \subseteq Relationship
        /\ FM.features \cap Relationship = {} /\ Nil \notin FM.features
    BY <1>5, KindsAreApart, ModelFields, ConstantsAssumption DEF GroupsTakeAll, WellFormed, Settled, Node
  <1>7. /\ parent[m.root] = Nil
        /\ \A r \in m.relationships : parent[r] = m.parent[r]
        /\ \A f \in m.features \ {m.root} :
             \/ parent[f] \in m.relationships /\ m.parent[parent[f]] = ParentFeature(m, f)
             \/ /\ parent[f] = ParentFeature(m, f)
                /\ \A r \in m.relationships : m.parent[r] # ParentFeature(m, f)
    BY <1>2, OriginalRegrouped
  <1>8. \A f \in m.features \ {m.root} : ParentFeature(m, f) \in m.features
    BY <1>2, OriginalAbove
  <1>9. \A f \in m.features :
          /\ IsNamed(FM, twin[f], Up(FM, twin[f]), Parents[NameOf[f]])
          /\ Parents[NameOf[f]] = IF f = m.root THEN Nil ELSE NameOf[ParentFeature(m, f)]
    BY <1>1, <1>4, <1>5, CloneParents DEF RelationsMade
  <1>10. {RQ[i] : i \in GroupsIn(RQ, Len(RQ))} = {GroupCall(m, r) : r \in m.relationships}
    BY <1>1, AllCalls
  <1>11. \A r \in m.relationships : r # m.root /\ twin[r] = Twin[r]
    BY <1>3, TwinIs DEF Live
  <1> HIDE DEF twin, parent, m
  <1>12. \A f, g \in FM.features : NameOf[f] = NameOf[g] => f = g
    BY <1>6 DEF NamesIdentify
  <1>13. \A r \in m.relationships : FM.parent[twin[r]] = twin[m.parent[r]]
    <2> SUFFICES ASSUME NEW r \in m.relationships PROVE FM.parent[twin[r]] = twin[m.parent[r]]
      OBVIOUS
    <2>1. GroupCall(m, r) \in {RQ[i] : i \in GroupsIn(RQ, Len(RQ))}
      BY <1>10
    <2>2. PICK i \in GroupsIn(RQ, Len(RQ)) : RQ[i] = GroupCall(m, r)
      BY <2>1
    <2>3. NameOf[FM.parent[RQ[i].relationship]] = RQ[i].ref
      BY <1>5 DEF RelationsMade
    <2>4. NameOf[FM.parent[twin[r]]] = NameOf[m.parent[r]]
      BY <1>11, <2>2, <2>3 DEF GroupCall
    <2>5. FM.parent[twin[r]] \in FM.features
      BY <1>4, <1>6 DEF GroupsWellPlaced
    <2>6. twin[m.parent[r]] \in FM.features /\ NameOf[twin[m.parent[r]]] = NameOf[m.parent[r]]
      BY <1>3, <1>4
    <2> QED
      BY <1>12, <2>4, <2>5, <2>6
  <1>14. \A f \in m.features \ {m.root} : Up(FM, twin[f]) = twin[ParentFeature(m, f)]
    <2> SUFFICES ASSUME NEW f \in m.features \ {m.root} PROVE Up(FM, twin[f]) = twin[ParentFeature(m, f)]
      OBVIOUS
    <2> DEFINE p == ParentFeature(m, f)
    <2>1. p \in m.features /\ NameOf[p] # Nil
      BY <1>3, <1>8, ConstantsAssumption
    <2>2. Up(FM, twin[f]) \in FM.features /\ NameOf[Up(FM, twin[f])] = NameOf[p]
      BY <1>9, <2>1 DEF IsNamed
    <2>3. twin[p] \in FM.features /\ NameOf[twin[p]] = NameOf[p]
      BY <1>4, <2>1
    <2> QED
      BY <1>12, <2>2, <2>3
  <1>15. FM.parent[FM.root] = Nil
    BY <1>5 DEF GroupsTakeAll, WellFormed, Rooted
  <1>16. ASSUME NEW f \in m.features \ {m.root}
         PROVE  FM.parent[twin[f]] = twin[parent[f]]
    <2> DEFINE p == ParentFeature(m, f)
               y == twin[f]
    <2>1. /\ p \in m.features /\ y \in FM.features /\ twin[p] \in FM.features
          /\ Up(FM, y) = twin[p]
      BY <1>4, <1>8, <1>14
    <2> HIDE DEF y
    <2>2. \/ FM.parent[y] = twin[p]
          \/ FM.parent[y] \in FM.relationships /\ FM.parent[FM.parent[y]] = twin[p]
      <3>1. CASE FM.parent[y] \notin Relationship
        BY <2>1, <3>1 DEF Up
      <3>2. CASE FM.parent[y] \in Relationship
        <4>1. FM.parent[y] \in Live(FM)
          <5>1. y \in Node /\ FM.parent[y] \in Node
            BY <1>6, <2>1, <3>2, ModelFields DEF Node
          <5> QED
            BY <1>6, <5>1, EdgeIsParent
        <4>2. FM.parent[y] \in FM.relationships
          BY <1>6, <3>2, <4>1 DEF Live
        <4> QED
          BY <2>1, <3>2, <4>2 DEF Up
      <3> QED
        BY <3>1, <3>2
    <2>3. CASE parent[f] \in m.relationships /\ m.parent[parent[f]] = p
      <3> DEFINE r == parent[f]
      <3>1. twin[r] \in FM.relationships /\ FM.parent[twin[r]] = twin[p]
        BY <1>4, <1>13, <2>3
      <3>2. FM.parent[y] # twin[p]
        <4> SUFFICES ASSUME FM.parent[y] = twin[p] PROVE FALSE
          OBVIOUS
        <4>1. y \in Node /\ twin[p] \in Node
          BY <1>6, <2>1, ModelFields DEF Node
        <4>2. <<twin[p], y>> \in FM.edges
          BY <1>6, <4>1, EdgeIsParent
        <4>3. y \in Targets(FM, {twin[p]})
          BY <4>1, <4>2 DEF Targets
        <4>4. Targets(FM, {FM.parent[twin[r]]}) = {twin[r]}
          BY <1>6, <3>1
        <4>5. y = twin[r]
          BY <3>1, <4>3, <4>4
        <4> QED
          BY <1>6, <2>1, <3>1, <4>5
      <3>3. FM.parent[y] \in FM.relationships /\ FM.parent[FM.parent[y]] = twin[p]
        BY <2>2, <3>2
      <3>4. FM.parent[y] = twin[r]
        BY <1>6, <3>1, <3>3 DEF GroupsWellPlaced
      <3> QED
        BY <3>4 DEF y
    <2>4. CASE parent[f] = p /\ \A r \in m.relationships : m.parent[r] # p
      <3>1. \A r \in FM.relationships : FM.parent[r] # twin[p]
        <4> SUFFICES ASSUME NEW r \in m.relationships, FM.parent[twin[r]] = twin[p] PROVE FALSE
          BY <1>4
        <4>1. twin[m.parent[r]] = twin[p] /\ m.parent[r] \in Live(m) /\ p \in Live(m)
          BY <1>3, <1>13, <2>1 DEF Live
        <4> QED
          BY <1>4, <2>4, <4>1
      <3> QED
        BY <2>2, <2>4, <3>1 DEF y
    <2> QED
      BY <1>7, <2>3, <2>4
  <1>17. CASE x = m.root
    BY <1>4, <1>7, <1>15, <1>17 DEF twin, parent, m
  <1>18. CASE x \in m.relationships
    <2>1. parent[x] = m.parent[x] /\ parent[x] # Nil
      BY <1>3, <1>7, <1>18
    <2> QED
      BY <1>13, <1>18, <2>1 DEF twin, parent, m
  <1>19. CASE x \in m.features \ {m.root}
    <2>1. parent[x] # Nil
      BY <1>3, <1>7, <1>8, <1>19
    <2> QED
      BY <1>16, <1>19, <2>1 DEF twin, parent, m
  <1> QED
    BY <1>17, <1>18, <1>19 DEF Live, m

\* What is known of a clone when it is handed out.
LEMMA BuiltClone ==
  ASSUME CloneInv, source # Nil, stage = "built"
  PROVE  /\ source \in Originals /\ source \in Model /\ FM \in Model
         /\ WellFormed(source) /\ WellFormed(FM)
         /\ source.root \in source.features /\ Nil \notin Live(source) /\ Nil \notin source.features
         /\ RelationsMade(FQ, Parents, RQ, FM, Len(RQ))
         /\ Placed /\ BoundByName /\ InfoMade(MQ, FM, 3)
  <1>1. BuilderInv /\ CloneAsks /\ DataKept /\ AllCloned
    BY DEF CloneInv, CloneAsks
  <1>2. source \in Originals /\ source \in Model /\ WellFormed(source)
    BY <1>1, AllCalls, OriginalIs
  <1>3. RelationsMade(FQ, Parents, RQ, FM, Len(RQ)) /\ GroupsTakeAll(FM)
    BY <1>1, CloneIsTreeLike DEF BuilderInv, StageKept
  <1>4. source.root \in source.features /\ Nil \notin Live(source)
    BY <1>2, OriginalNames, ModelFields, ConstantsAssumption DEF Node
  <1> QED
    BY <1>1, <1>2, <1>3, <1>4 DEF DataKept, GroupsTakeAll, RelationsMade, Settled, Live

\* A regrouped original has the same objects, and each hangs below one of them.
LEMMA RegroupedAbove ==
  ASSUME NEW m \in Originals, NEW x \in Live(m)
  PROVE  Regrouped(m).parent[x] \in Live(m) \cup {Nil}
  <1> DEFINE g == Regrouped(m)
  <1>1. /\ g.parent[m.root] = Nil
        /\ \A r \in m.relationships : g.parent[r] = m.parent[r] /\ m.parent[r] \in m.features
        /\ \A f \in m.features \ {m.root} :
             g.parent[f] \in m.relationships \/ g.parent[f] = ParentFeature(m, f)
    BY OriginalRegrouped, OriginalNames
  <1>2. \A f \in m.features \ {m.root} : ParentFeature(m, f) \in m.features
    BY OriginalAbove
  <1> HIDE DEF g
  <1> QED
    BY <1>1, <1>2 DEF Live, g

\* The one object of the original that an object of the clone comes from.
LEMMA OldIs ==
  ASSUME CloneInv, source # Nil, stage = "built", NEW x \in Live(source)
  PROVE  (CHOOSE y \in Live(source) : CloneOf(source)[y] = CloneOf(source)[x]) = x
  <1> DEFINE twin == CloneOf(source)
  <1>1. \A u, v \in Live(source) : twin[u] = twin[v] => u = v
    BY TwinIs
  <1> HIDE DEF twin
  <1>2. (CHOOSE y \in Live(source) : twin[y] = twin[x]) = x
    BY <1>1
  <1> QED
    BY <1>2 DEF twin

\* The parents of a clone are the images of those of the regrouped original.
LEMMA TwinParents ==
  ASSUME CloneInv, source # Nil, stage = "built"
  PROVE  LET twin == CloneOf(source)
             g == Regrouped(source)
             old(x) == CHOOSE y \in Live(g) : twin[y] = x
         IN  FM.parent = [x \in Node |->
                            IF x \in {twin[y] : y \in Live(g)} /\ g.parent[old(x)] # Nil
                            THEN twin[g.parent[old(x)]] ELSE Nil]
  <1> DEFINE m == source
             twin == CloneOf(m)
             g == Regrouped(m)
             old(x) == CHOOSE y \in Live(m) : twin[y] = x
             right == [x \in Node |-> IF x \in {twin[y] : y \in Live(m)} /\ g.parent[old(x)] # Nil
                                      THEN twin[g.parent[old(x)]] ELSE Nil]
  <1>1. FM \in Model /\ EdgesMatchParents(FM) /\ m \in Originals
    BY BuiltClone DEF WellFormed
  <1>2. Live(g) = Live(m)
    BY <1>1, OriginalRegrouped DEF Live
  <1>3. /\ FM.features = {twin[f] : f \in m.features}
        /\ FM.relationships = {twin[r] : r \in m.relationships}
    BY TwinIs
  <1>4. \A y \in Live(m) : old(twin[y]) = y
    BY OldIs
  <1>5. \A y \in Live(m) : FM.parent[twin[y]] = IF g.parent[y] # Nil THEN twin[g.parent[y]] ELSE Nil
    BY TwinsHang
  <1> HIDE DEF m, twin, g, old
  <1>6. Live(FM) = {twin[y] : y \in Live(m)}
    BY <1>3 DEF Live
  <1>7. \A x \in Node : FM.parent[x] = right[x]
    <2> SUFFICES ASSUME NEW x \in Node PROVE FM.parent[x] = right[x]
      OBVIOUS
    <2>1. CASE x \in Live(FM)
      <3>1. PICK y \in Live(m) : x = twin[y]
        BY <1>6, <2>1
      <3>2. right[x] = IF g.parent[y] # Nil THEN twin[g.parent[y]] ELSE Nil
        BY <1>4, <3>1
      <3> QED
        BY <1>5, <3>1, <3>2
    <2>2. CASE x \notin Live(FM)
      <3>1. FM.parent[x] = Nil
        BY <1>1, <2>2, NoParent
      <3>2. x \notin {twin[y] : y \in Live(m)}
        BY <1>6, <2>2
      <3> QED
        BY <3>1, <3>2
    <2> QED
      BY <2>1, <2>2
  <1>8. FM.parent = right
    BY <1>1, <1>7, ModelFields
  <1> QED
    BY <1>2, <1>8 DEF m, twin, g, old

\* So are its edges.
LEMMA TwinEdges ==
  ASSUME CloneInv, source # Nil, stage = "built"
  PROVE  FM.edges = {<<CloneOf(source)[e[1]], CloneOf(source)[e[2]]>> : e \in Regrouped(source).edges}
  <1> DEFINE m == source
             twin == CloneOf(m)
             g == Regrouped(m)
  <1>1. /\ FM \in Model /\ EdgesMatchParents(FM) /\ m \in Originals /\ m \in Model
        /\ Nil \notin Live(m)
    BY BuiltClone DEF WellFormed
  <1>2. /\ FM.features = {twin[f] : f \in m.features}
        /\ FM.relationships = {twin[r] : r \in m.relationships}
    BY TwinIs
  <1>3. \A y \in Live(m) : FM.parent[twin[y]] = IF g.parent[y] # Nil THEN twin[g.parent[y]] ELSE Nil
    BY TwinsHang
  <1>4. g.edges = {<<g.parent[n], n>> : n \in {x \in Live(m) : g.parent[x] # Nil}}
    BY <1>1, OriginalRegrouped
  <1>5. Live(FM) \subseteq Node /\ Nil \notin Node
    BY <1>1, ModelFields, ConstantsAssumption
  <1>9. \A y \in Live(m) : g.parent[y] \in Live(m) \cup {Nil}
    BY <1>1, RegroupedAbove
  <1> HIDE DEF m, twin, g
  <1>6. Live(FM) = {twin[y] : y \in Live(m)}
    BY <1>2 DEF Live
  <1>7. ASSUME NEW e \in FM.edges
        PROVE  \E d \in g.edges : e = <<twin[d[1]], twin[d[2]]>>
    <2>1. e \in Node \X Node /\ e[1] \in Live(FM) /\ e[2] \in Live(FM) /\ FM.parent[e[2]] = e[1]
      BY <1>1, ModelFields DEF EdgesMatchParents
    <2>2. PICK y \in Live(m) : e[2] = twin[y]
      BY <1>6, <2>1
    <2>3. g.parent[y] # Nil /\ e[1] = twin[g.parent[y]]
      BY <1>3, <1>5, <2>1, <2>2
    <2>4. <<g.parent[y], y>> \in g.edges
      BY <1>4, <2>3
    <2>5. e = <<twin[<<g.parent[y], y>>[1]], twin[<<g.parent[y], y>>[2]]>>
      BY <2>1, <2>2, <2>3
    <2> QED
      BY <2>4, <2>5
  <1>8. ASSUME NEW d \in g.edges
        PROVE  <<twin[d[1]], twin[d[2]]>> \in FM.edges
    <2>1. PICK y \in Live(m) : g.parent[y] # Nil /\ d = <<g.parent[y], y>>
      BY <1>4
    <2>2. twin[y] \in Node /\ FM.parent[twin[y]] = twin[g.parent[y]]
      BY <1>3, <1>5, <1>6, <2>1
    <2>3. twin[g.parent[y]] # Nil
      <3>1. g.parent[y] \in Live(m)
        BY <1>9, <2>1
      <3> QED
        BY <1>5, <1>6, <3>1
    <2>4. <<twin[g.parent[y]], twin[y]>> \in FM.edges
      BY <1>1, <2>2, <2>3 DEF EdgesMatchParents
    <2> QED
      BY <2>1, <2>4
  <1> QED
    BY <1>7, <1>8 DEF m, twin, g

\* A constraint of a clone is bound to the images of the features its original is bound to.
LEMMA TwinBound ==
  ASSUME CloneInv, source # Nil, stage = "built", Clonable(source)
  PROVE  FM.bound = {<<CloneOf(source)[b[1]], CloneOf(source)[b[2]]>> : b \in source.bound}
  <1> DEFINE m == source
             twin == CloneOf(m)
  <1>1. /\ m \in Originals /\ m.bound \subseteq m.constraints \X m.features
        /\ FM.bound \subseteq FM.constraints \X FM.features
        /\ \A f, g \in FM.features : NameOf[f] = NameOf[g] => f = g
        /\ BoundByName
    BY BuiltClone DEF WellFormed, ConstraintsBound, NamesIdentify
  <1>2. /\ FM.features = {twin[f] : f \in m.features}
        /\ FM.constraints = {twin[c] : c \in m.constraints}
        /\ \A f \in m.features : NameOf[twin[f]] = NameOf[f]
    BY TwinIs
  <1>3. \A c \in m.constraints : twin[c] = Twin[c]
    <2>1. m.root \notin m.constraints
      BY BuiltClone, KindsAreApart
    <2> QED
      BY <2>1, TwinIs
  <1>4. /\ \A f, g \in m.features : NameOf[f] = NameOf[g] => f = g
        /\ \A c \in m.constraints : Mentions[twin[c]] = Mentions[c]
    BY <1>1, <1>3, OriginalNames
  <1>5. \A c \in m.constraints : \A n \in Mentions[c] :
          \E f \in m.features : NameOf[f] = n /\ <<c, f>> \in m.bound
    BY DEF Clonable, MayClone
  <1>6. \A b \in m.bound : NameOf[b[2]] \in Mentions[b[1]]
    BY <1>1, BuilderAssumption
  <1>7. {RQ[i] : i \in ConstraintsIn(RQ, Len(RQ))} = {ConstraintCall(c) : c \in m.constraints}
    BY AllCalls DEF CloneInv, CloneAsks
  <1>8. \A i \in ConstraintsIn(RQ, Len(RQ)) : \A n \in Mentions[RQ[i].constraint] :
          \E f \in FM.features : NameOf[f] = n /\ <<RQ[i].constraint, f>> \in FM.bound
    BY BuiltClone DEF RelationsMade
  <1> HIDE DEF m, twin
  <1>9. ASSUME NEW e \in FM.bound
        PROVE  \E b \in m.bound : e = <<twin[b[1]], twin[b[2]]>>
    <2>1. PICK c \in m.constraints, f \in m.features : e = <<twin[c], twin[f]>>
      BY <1>1, <1>2
    <2>2. NameOf[f] \in Mentions[c]
      BY <1>1, <1>2, <1>4, <2>1 DEF BoundByName
    <2>3. <<c, f>> \in m.bound
      BY <1>4, <1>5, <2>2
    <2>4. e = <<twin[<<c, f>>[1]], twin[<<c, f>>[2]]>>
      BY <2>1
    <2> QED
      BY <2>3, <2>4
  <1>10. ASSUME NEW b \in m.bound
         PROVE  <<twin[b[1]], twin[b[2]]>> \in FM.bound
    <2>1. b[1] \in m.constraints /\ b[2] \in m.features /\ NameOf[b[2]] \in Mentions[b[1]]
      BY <1>1, <1>6
    <2>2. ConstraintCall(b[1]) \in {RQ[i] : i \in ConstraintsIn(RQ, Len(RQ))}
      BY <1>7, <2>1
    <2>3. PICK i \in ConstraintsIn(RQ, Len(RQ)) : RQ[i] = ConstraintCall(b[1])
      BY <2>2
    <2>4. RQ[i].constraint = twin[b[1]]
      BY <1>3, <2>1, <2>3 DEF ConstraintCall
    <2>5. NameOf[b[2]] \in Mentions[twin[b[1]]]
      BY <1>4, <2>1
    <2>6. PICK f \in FM.features : NameOf[f] = NameOf[b[2]] /\ <<twin[b[1]], f>> \in FM.bound
      BY <1>8, <2>4, <2>5
    <2>7. f = twin[b[2]]
      BY <1>1, <1>2, <2>1, <2>6
    <2> QED
      BY <2>6, <2>7
  <1> QED
    BY <1>9, <1>10 DEF m, twin

\* A clone has the locations of the original, when that has none on its root.
LEMMA TwinLocations ==
  ASSUME CloneInv, source # Nil, stage = "built", Clonable(source)
  PROVE  LET twin == CloneOf(source)
             g == Regrouped(source)
             old(x) == CHOOSE y \in Live(g) : twin[y] = x
         IN  FM.locations = [f \in Feature |->
                               IF f \in {twin[x] : x \in g.features} THEN g.locations[old(f)]
                               ELSE [l \in Location |-> 0]]
  <1> DEFINE m == source
             twin == CloneOf(m)
             g == Regrouped(m)
             old(x) == CHOOSE y \in Live(m) : twin[y] = x
             right == [f \in Feature |-> IF f \in {twin[x] : x \in m.features} THEN m.locations[old(f)]
                                         ELSE [l \in Location |-> 0]]
  <1>1. /\ m \in Originals /\ m \in Model /\ FM \in Model /\ Placed /\ BuilderInv
        /\ cloned \subseteq Live(m) \cup m.constraints /\ Live(m) \subseteq cloned
    BY BuiltClone DEF CloneInv, BuilderInv, CloneKept, CloneAsks, AllCloned
  <1>2. /\ g.features = m.features /\ g.locations = m.locations /\ Live(g) = Live(m)
    BY <1>1, OriginalRegrouped DEF Live
  <1>3. /\ m.root \in m.features /\ m.features \cap RootFeature = {m.root} /\ m.features \subseteq Feature
        /\ FM.root \in RootFeature /\ m.features \subseteq Live(m)
    BY <1>1, OriginalNames, BuiltClone DEF WellFormed, NamesIdentify, Live
  <1>4. Copied = m.features \ {m.root}
    <2>1. \A f \in Copied : f \in m.features
      BY <1>1, CopiedIs
    <2> QED
      BY <1>1, <1>3, <2>1 DEF Copied
  <1>5. /\ twin[m.root] = FM.root
        /\ \A f \in m.features \ {m.root} : twin[f] = Twin[f]
    BY <1>3, TwinIs
  <1>6. \A f \in m.features : old(twin[f]) = f
    BY <1>3, OldIs
  <1>7. \A f \in Copied : Twin[f] # FM.root
    BY <1>1, <1>3, CopiedIs
  <1>8. m.locations[m.root] = NoLocations
    <2>1. m.locations[m.root] \in [Location -> Nat]
      BY <1>1, <1>3, ModelFields
    <2>2. \A l \in Location : m.locations[m.root][l] = 0
      BY DEF Clonable, MayClone
    <2> QED
      BY <2>1, <2>2 DEF NoLocations
  <1> HIDE DEF m, twin, g, old
  <1>9. \A f \in Feature : FM.locations[f] = right[f]
    <2> SUFFICES ASSUME NEW f \in Feature PROVE FM.locations[f] = right[f]
      OBVIOUS
    <2>1. CASE f = FM.root
      <3>1. FM.locations[f] = NoLocations
        BY <1>1, <1>7, <2>1 DEF Placed
      <3>2. right[f] = m.locations[m.root]
        BY <1>3, <1>5, <1>6, <2>1
      <3> QED
        BY <1>8, <3>1, <3>2
    <2>2. ASSUME NEW x \in m.features \ {m.root}, f = twin[x]
          PROVE  FM.locations[f] = right[f]
      <3>1. FM.locations[f] = m.locations[x]
        BY <1>1, <1>4, <1>5, <2>2 DEF Placed, m
      <3>2. right[f] = m.locations[x]
        BY <1>6, <2>2
      <3> QED
        BY <3>1, <3>2
    <2>3. CASE f \notin {twin[x] : x \in m.features}
      <3>1. f \notin {Twin[x] : x \in Copied}
        BY <1>4, <1>5, <2>3
      <3>2. FM.locations[f] = NoLocations
        BY <1>1, <3>1 DEF Placed
      <3> QED
        BY <2>3, <3>2 DEF NoLocations
    <2> QED
      BY <1>5, <2>1, <2>2, <2>3
  <1>10. FM.locations = right
    BY <1>1, <1>9, ModelFields
  <1> QED
    BY <1>2, <1>10 DEF m, twin, g, old

\* A clone has the name, the path and the commit of the original.
LEMMA TwinInfo ==
  ASSUME CloneInv, source # Nil, stage = "built"
  PROVE  FM.info = source.info
  <1>1. /\ FM.info \in [InfoField -> Text] /\ source.info \in [InfoField -> Text]
        /\ InfoMade(MQ, FM, 3)
    BY BuiltClone, ModelFields
  <1>2. \A i \in 1..3 : MQ[i] = InfoCalls(source)[i]
    BY DEF CloneInv, CloneAsks
  <1>3. /\ MQ[1] = CloneInfo(source, "Name") /\ MQ[2] = CloneInfo(source, "Commit")
        /\ MQ[3] = CloneInfo(source, "Path")
    BY <1>2 DEF InfoCalls
  <1>4. \A i \in {"Name", "Commit", "Path"} :
          CloneInfo(source, i).field = i /\ CloneInfo(source, i).text = source.info[i]
    BY DEF CloneInfo
  <1>5. \A i \in InfoField : FM.info[i] = source.info[i]
    <2>1. \A j \in 1..3 : FM.info[MQ[j].field] = MQ[j].text
      BY <1>1 DEF InfoMade
    <2> QED
      BY <1>3, <1>4, <2>1 DEF InfoField
  <1> QED
    BY <1>1, <1>5

\* The clone is the regrouped original without outputs, with other objects.
LEMMA CloneEquals ==
  ASSUME CloneInv, source # Nil, stage = "built", Clonable(source)
  PROVE  FM = Renamed(WithoutOutput(Regrouped(source)), CloneOf(source))
  <1> DEFINE m == source
             twin == CloneOf(m)
             h == Regrouped(m)
             g == WithoutOutput(h)
             old(x) == CHOOSE y \in Live(g) : twin[y] = x
             parent == [x \in Node |-> IF x \in {twin[y] : y \in Live(g)} /\ g.parent[old(x)] # Nil
                                       THEN twin[g.parent[old(x)]] ELSE Nil]
             output == [f \in Feature |-> IF f \in {twin[x] : x \in g.features} THEN g.output[old(f)] ELSE Nil]
             locations == [f \in Feature |-> IF f \in {twin[x] : x \in g.features} THEN g.locations[old(f)]
                                             ELSE [l \in Location |-> 0]]
  <1>1. m \in Originals /\ m.root # Nil /\ FM \in Model
    BY BuiltClone
  <1>2. /\ g.features = h.features /\ g.relationships = h.relationships /\ g.root = h.root
        /\ g.parent = h.parent /\ g.edges = h.edges
        /\ g.constraints = h.constraints /\ g.bound = h.bound
        /\ g.locations = h.locations /\ g.output = NoOutput /\ g.info = h.info
    BY <1>1, OriginalIs DEF WithoutOutput, Regrouped, Model
  <1> HIDE DEF h, g
  <1>3. /\ g.features = m.features /\ g.relationships = m.relationships /\ g.root = m.root
        /\ g.constraints = m.constraints /\ g.bound = m.bound /\ g.info = m.info
        /\ Live(g) = Live(m) /\ Live(h) = Live(m)
    BY <1>1, <1>2, OriginalRegrouped DEF Live, h
  <1>4. FM.parent = parent
    BY <1>2, <1>3, TwinParents DEF h
  <1>5. FM.locations = locations
    BY <1>2, <1>3, TwinLocations DEF h
  <1>6. FM.output = output
    <2>1. FM.output = NoOutput
      BY BuiltClone DEF Placed
    <2>2. \A x \in m.features : old(twin[x]) = x /\ x \in Feature
      <3> SUFFICES ASSUME NEW x \in m.features PROVE old(twin[x]) = x /\ x \in Feature
        OBVIOUS
      <3>1. x \in Live(m) /\ x \in Feature
        BY <1>1, OriginalIs, ModelFields DEF Live
      <3>2. (CHOOSE y \in Live(m) : twin[y] = twin[x]) = x
        BY <3>1, OldIs
      <3> QED
        BY <1>3, <3>1, <3>2
    <2>3. \A f \in {twin[x] : x \in g.features} : g.output[old(f)] = Nil
      <3> SUFFICES ASSUME NEW x \in m.features PROVE g.output[old(twin[x])] = Nil
        BY <1>3
      <3>1. old(twin[x]) \in Feature
        BY <2>2
      <3> HIDE DEF old
      <3> QED
        BY <1>2, <3>1 DEF NoOutput
    <2> QED
      BY <2>1, <2>3 DEF NoOutput
  <1>7. Renamed(g, twin) =
          [ features      |-> {twin[x] : x \in g.features},
            relationships |-> {twin[x] : x \in g.relationships},
            root          |-> IF g.root = Nil THEN Nil ELSE twin[g.root],
            parent        |-> parent,
            edges         |-> {<<twin[e[1]], twin[e[2]]>> : e \in g.edges},
            constraints   |-> {twin[x] : x \in g.constraints},
            bound         |-> {<<twin[b[1]], twin[b[2]]>> : b \in g.bound},
            locations     |-> locations,
            output        |-> output,
            info          |-> g.info ]
    BY DEF Renamed
  <1>8. /\ FM.features = {twin[x] : x \in m.features}
        /\ FM.relationships = {twin[x] : x \in m.relationships}
        /\ FM.constraints = {twin[x] : x \in m.constraints}
        /\ FM.root = twin[m.root]
    BY TwinIs
  <1>9. FM.edges = {<<twin[e[1]], twin[e[2]]>> : e \in g.edges}
    BY <1>2, TwinEdges DEF h
  <1>10. FM.bound = {<<twin[b[1]], twin[b[2]]>> : b \in m.bound}
    BY TwinBound
  <1>11. FM.info = m.info
    BY TwinInfo
  <1> HIDE DEF m, twin, old, parent, locations, output
  <1> QED
    BY <1>1, <1>3, <1>4, <1>5, <1>6, <1>7, <1>8, <1>9, <1>10, <1>11, ModelIsRecord DEF m, twin, g, h

\* FeatureModel::clone: whatever order the hash table gives the features, and
\* however the calls of clone and the commits of the builder are interleaved, the
\* clone of a model that can be cloned is built, and is the original with other
\* objects, its features moved into the groups beside them and without the output
\* strings and step functions of its features, which clone does not pass on.
THEOREM CloneKeepsAllButOutputHolds == BuilderSpec => []CloneKeepsAllButOutput
  <1>1. ASSUME CloneInv PROVE CloneKeepsAllButOutput
    <2> SUFFICES ASSUME source # Nil, Clonable(source)
                 PROVE  /\ stage # "failed" /\ ~undefined
                        /\ stage = "built" => FM = Renamed(WithoutOutput(Regrouped(source)), CloneOf(source))
      BY DEF CloneKeepsAllButOutput
    <2>1. BuilderInv /\ CloneAsks
      BY <1>1 DEF CloneInv
    <2>2. stage # "asking" => Consistent
      BY <2>1, CloneIsConsistent DEF CloneAsks
    <2>3. stage # "failed" /\ ~undefined
      BY <2>1, <2>2 DEF BuilderInv, StageKept
    <2>4. stage = "built" => FM = Renamed(WithoutOutput(Regrouped(source)), CloneOf(source))
      BY <1>1, CloneEquals
    <2> QED
      BY <2>3, <2>4
  <1> QED
    BY <1>1, CloneInvariant, PTL

===============================================================================
