-------------------------- MODULE FeatureModelBuilder --------------------------
(***************************************************************************)
(* FeatureModelBuilder: three ModifyTransactions open on one new model.    *)
(* The calls of a client may come in any order; each goes to the           *)
(* transaction of its kind, and buildFeatureModel commits features, tree   *)
(* and relations one after the other.  FeatureModel::clone is one client.  *)
(***************************************************************************)
EXTENDS ModifyTransaction, ModelCopy, FiniteSetsExt

CONSTANTS
  FeatureBuilder,   \* the three transactions
  ModelBuilder,
  RelationBuilder,
  Originals,        \* models that may be cloned
  Twin              \* the object a clone allocates for a node or a constraint

\* makeFeature and makeRoot; addEdge, setVmName, setPath and setCommit;
\* emplaceRelationship and addConstraint.
FeatureCalls ==
  [op : {"AddFeature"}, feature : Feature, parent : {Nil}] \cup [op : {"SetRoot"}, feature : RootFeature]
ModelCalls ==
  [op : {"AddChild"}, parent : Name, child : Name] \cup [op : {"SetInfo"}, field : InfoField, text : Text]
RelationCalls ==
  [op : {"AddRelationship"}, relationship : Relationship, ref : Name]
  \cup [op : {"AddConstraint"}, constraint : Constraint]

TwinsOf(m) == {Twin[x] : x \in Live(m) \cup m.constraints}

\* A builder begins with a model that holds its default root only.
ASSUME BuilderAssumption ==
  /\ Menu \subseteq FeatureCalls \cup ModelCalls \cup RelationCalls
  /\ \A new \in InitialModels :
       /\ new.root \in RootFeature /\ \E text \in Text : new = NewModel(new.root, text)
       /\ \A other \in InitialModels : NameOf[other.root] = NameOf[new.root]
  /\ Transaction = {FeatureBuilder, ModelBuilder, RelationBuilder}
  /\ FeatureBuilder # ModelBuilder /\ ModelBuilder # RelationBuilder
  /\ RelationBuilder # FeatureBuilder
  /\ Constraint \cap Node = {}
  /\ Twin \in [Node \cup Constraint -> Node \cup Constraint]
  /\ \A m \in Originals :
       /\ m \in Model /\ WellFormed(m)
       /\ \A b \in m.bound : NameOf[b[2]] \in Mentions[b[1]]
       /\ \A x, y \in Live(m) \cup m.constraints : Twin[x] = Twin[y] => x = y
       /\ \A f \in m.features :
            /\ Twin[f] \in Feature /\ NameOf[Twin[f]] = NameOf[f]
            /\ Twin[f] \in RootFeature <=> f \in RootFeature
       /\ \A r \in m.relationships : Twin[r] \in Relationship
       /\ \A c \in m.constraints : Twin[c] \in Constraint /\ Mentions[Twin[c]] = Mentions[c]
       /\ \A new \in InitialModels : TwinsOf(m) \cap Live(new) = {}

VARIABLES
  Parents,          \* the parent name last asked for a feature name, or Nil
  stage,            \* what the builder is doing
  source,           \* the model that is being cloned, or Nil
  cloned            \* the objects of it that clone has asked for

builderVars == <<vars, Parents, stage, source, cloned>>

Stage == {"asking", "features", "tree", "relations", "built", "failed"}

BuilderInit ==
  /\ FM \in InitialModels
  /\ phase = [t \in Transaction |-> "open"]
  /\ Modifications = [t \in Transaction |-> << >>]
  /\ next = [t \in Transaction |-> 1]
  /\ result = [t \in Transaction |-> "none"]
  /\ undefined = FALSE
  /\ Parents = [n \in Name |-> Nil]
  /\ stage = "asking"
  /\ source = Nil
  /\ cloned = {}

-------------------------------------------------------------------------------
(* The calls that say what is to be built *)

\* Mutant: edges are added together with the features.
BuilderOfTwo(mod) ==
  IF mod.op \in {"AddFeature", "SetRoot", "AddChild"} THEN FeatureBuilder
  ELSE IF mod.op = "SetInfo" THEN ModelBuilder
  ELSE RelationBuilder

BuilderOf(mod) ==
  IF mod.op \in {"AddFeature", "SetRoot"} THEN FeatureBuilder
  ELSE IF mod.op \in {"AddChild", "SetInfo"} THEN ModelBuilder
  ELSE RelationBuilder

\* Mutant: a second parent for a feature is not recorded.
RecordedOnce(parents, mod) ==
  IF mod.op = "AddChild" /\ parents[mod.child] = Nil
  THEN [parents EXCEPT ![mod.child] = mod.parent] ELSE parents

\* addEdge also records the parent for getParentName.
Recorded(parents, mod) ==
  IF mod.op = "AddChild" THEN [parents EXCEPT ![mod.child] = mod.parent] ELSE parents

Ask(mod) ==
  /\ stage = "asking" /\ source = Nil
  /\ Queue(BuilderOf(mod), mod)
  /\ Parents' = Recorded(Parents, mod)
  /\ UNCHANGED <<stage, source, cloned>>

-------------------------------------------------------------------------------
(* FeatureModel::clone *)

\* Nothing else happens while clone makes its calls.
Cloning == Idle /\ stage = "asking" /\ source # Nil

CloneInfo(m, i) == [op |-> "SetInfo", field |-> i, text |-> m.info[i]]

Clone(m) ==
  /\ Idle
  /\ stage = "asking" /\ source = Nil
  /\ Queued = {}
  /\ Modifications' = [Modifications EXCEPT ![ModelBuilder] =
                          << CloneInfo(m, "Name"), CloneInfo(m, "Commit"), CloneInfo(m, "Path") >>]
  /\ source' = m
  /\ UNCHANGED <<FM, phase, next, result, undefined, Parents, stage, cloned>>

\* The features come in the order of the hash table, each with an edge from its
\* parent p.  They are constructed with the locations of the original, a root is not,
\* and none of them with its output.
CloneWithEdge(f, p) ==
  LET feature == IF f \in RootFeature THEN [op |-> "SetRoot", feature |-> Twin[f]]
                 ELSE [op |-> "AddFeature", feature |-> Twin[f], parent |-> Nil]
      edge == [op |-> "AddChild", parent |-> NameOf[p], child |-> NameOf[f]]
  IN  /\ Modifications' = [Modifications EXCEPT
                             ![FeatureBuilder] = Append(@, feature),
                             ![ModelBuilder] = IF p = Nil THEN @ ELSE Append(@, edge)]
      /\ Parents' = IF p = Nil THEN Parents ELSE Recorded(Parents, edge)
      /\ FM' = IF f \in RootFeature THEN FM
               ELSE [FM EXCEPT !.locations[Twin[f]] = source.locations[f], !.output[Twin[f]] = Nil]
      /\ cloned' = cloned \cup {f}
      /\ UNCHANGED <<phase, next, result, undefined, stage, source>>

\* Mutant: the members of a group get no edge.
CloneFeatureOnly(f) ==
  /\ Cloning
  /\ f \in source.features \ cloned
  /\ CloneWithEdge(f, IF source.parent[f] \in Feature THEN source.parent[f] ELSE Nil)

CloneFeature(f) ==
  /\ Cloning
  /\ f \in source.features \ cloned
  /\ CloneWithEdge(f, ParentFeature(source, f))

\* The call for an object, after those for the ones before.
CloneNext(x, before, mod) ==
  /\ Cloning
  /\ x \notin cloned
  /\ before \subseteq cloned
  /\ Modifications' = [Modifications EXCEPT ![RelationBuilder] = Append(@, mod)]
  /\ cloned' = cloned \cup {x}
  /\ UNCHANGED <<FM, phase, next, result, undefined, Parents, stage, source>>

\* A group is asked for by the name of the feature it hangs below.
CloneRelationship(r) ==
  CloneNext(r, source.features,
            [op |-> "AddRelationship", relationship |-> Twin[r], ref |-> NameOf[source.parent[r]]])

CloneConstraint(c) == CloneNext(c, Live(source), [op |-> "AddConstraint", constraint |-> Twin[c]])

CloneCall ==
  \/ \E f \in source.features : CloneFeature(f)
  \/ \E r \in source.relationships : CloneRelationship(r)
  \/ \E c \in source.constraints : CloneConstraint(c)

\* There is nothing left to ask for.
AllCloned == source # Nil => Live(source) \cup source.constraints \subseteq cloned

-------------------------------------------------------------------------------
(* buildFeatureModel *)

BuildFeatureModel ==
  /\ stage = "asking"
  /\ AllCloned
  /\ Commit(FeatureBuilder)
  /\ stage' = "features"
  /\ UNCHANGED <<Parents, source, cloned>>

BuilderStep(t) == Step(t) /\ UNCHANGED <<Parents, stage, source, cloned>>

\* The commit of t is over: either the next one begins, or the others abort.
Proceed(t, now, u, then) ==
  /\ Idle
  /\ stage = now
  /\ phase[t] = "closed"
  /\ IF result[t] = "OK"
     THEN /\ stage' = then
          /\ phase' = IF then = "built" THEN phase ELSE [phase EXCEPT ![u] = "committing"]
     ELSE /\ stage' = "failed"
          /\ phase' = [v \in Transaction |-> "closed"]
  /\ UNCHANGED <<FM, Modifications, next, result, undefined, Parents, source, cloned>>

FeaturesBuilt == Proceed(FeatureBuilder, "features", ModelBuilder, "tree")
TreeBuilt == Proceed(ModelBuilder, "tree", RelationBuilder, "relations")
RelationsBuilt == Proceed(RelationBuilder, "relations", RelationBuilder, "built")

\* A second call commits a finished transaction, and returns null.
BuildAgain ==
  /\ stage \in {"built", "failed"}
  /\ CommitAgain(FeatureBuilder)
  /\ UNCHANGED <<Parents, stage, source, cloned>>

\* The destructor aborts the transactions before they are destroyed.  A model
\* that was not handed out goes with the builder.
DestroyBuilder ==
  /\ Idle
  /\ AllCloned
  /\ FM' \in InitialModels
  /\ phase' = [t \in Transaction |-> "open"]
  /\ Modifications' = [t \in Transaction |-> << >>]
  /\ next' = [t \in Transaction |-> 1]
  /\ result' = [t \in Transaction |-> "none"]
  /\ Parents' = [n \in Name |-> Nil]
  /\ stage' = "asking"
  /\ source' = Nil
  /\ cloned' = {}
  /\ UNCHANGED undefined

BuilderNext ==
  \/ \E mod \in Menu : Ask(mod)
  \/ \E m \in Originals : Clone(m)
  \/ source # Nil /\ CloneCall
  \/ BuildFeatureModel
  \/ \E t \in Transaction : BuilderStep(t)
  \/ FeaturesBuilt \/ TreeBuilt \/ RelationsBuilt
  \/ BuildAgain
  \/ DestroyBuilder

BuilderSpec == BuilderInit /\ [][BuilderNext]_builderVars

-------------------------------------------------------------------------------
(* What was asked for can be read off the queues *)

Asked(op) == {mod \in Queued : mod.op = op}

AskedFeatures == {mod.feature : mod \in Asked("AddFeature")}

\* The name of the root in the end: the default, or the last one asked for.
RootNames == {NameOf[m.root] : m \in InitialModels} \cup {NameOf[mod.feature] : mod \in Asked("SetRoot")}

RootName ==
  LET queue == Modifications[FeatureBuilder]
      roots == {i \in 1..Len(queue) : queue[i].op = "SetRoot"}
  IN  IF roots = {} THEN NameOf[(CHOOSE m \in InitialModels : TRUE).root]
      ELSE NameOf[queue[Max(roots)].feature]

KnownNames == {RootName} \cup {NameOf[f] : f \in AskedFeatures}

\* There is one root, each feature has a name of its own, and what refers to a name
\* finds it.
Consistent ==
  /\ AskedFeatures \cap RootFeature = {}
  /\ \A f, g \in AskedFeatures : NameOf[f] = NameOf[g] => f = g
  /\ \A f \in AskedFeatures : NameOf[f] \notin RootNames
  /\ \A mod \in Asked("AddChild") : mod.parent # mod.child /\ {mod.parent, mod.child} \subseteq KnownNames
  /\ \A mod \in Asked("AddRelationship") : mod.ref \in KnownNames
  /\ \A mod \in Asked("AddConstraint") : Mentions[mod.constraint] \subseteq KnownNames

\* Following the recorded parents leads to the root, and no feature has two groups.
TreeLike ==
  /\ Parents[RootName] = Nil
  /\ \A S \in SUBSET (KnownNames \ {RootName}) : S # {} => \E n \in S : Parents[n] \notin S
  /\ \A g, h \in Asked("AddRelationship") : g.ref = h.ref => g = h

-------------------------------------------------------------------------------
(* What a builder promises *)

\* The model that is handed out is the one that was asked for, in whatever order
\* the calls came: the features made, each below the parent named last for it,
\* the groups below theirs with all features below them as members, and the
\* constraints bound to every feature they mention.
BuiltAsAsked ==
  stage = "built" =>
    /\ FM.features \ {FM.root} = AskedFeatures
    /\ \A f \in AskedFeatures :
         LET p == Parents[NameOf[f]] IN
         NameOf[ParentFeature(FM, f)] = IF p # Nil THEN p ELSE RootName
    /\ \A mod \in Asked("AddRelationship") :
         /\ NameOf[FM.parent[mod.relationship]] = mod.ref
         /\ TreeLike => Targets(FM, {FM.parent[mod.relationship]}) = {mod.relationship}
    /\ \A mod \in Asked("AddConstraint") : \A n \in Mentions[mod.constraint] :
         \E f \in FM.features : NameOf[f] = n /\ <<mod.constraint, f>> \in FM.bound

\* A request without contradictions is built, whatever the order of the calls:
\* no edge, group or constraint is tried before what it names is there.
BuildsWhatIsConsistent == Consistent => stage # "failed" /\ ~undefined

\* If its edges describe a tree the built model is one, although edges that were
\* asked for on the way may have closed cycles while the tree was committed.
BuiltTreesAreWellFormed == stage = "built" /\ TreeLike => WellFormed(FM)

-------------------------------------------------------------------------------
(* What clone promises *)

\* The clone's object for each of the original's.
CloneOf(m) == [Twin EXCEPT ![m.root] = FM.root]

\* What clone can reproduce besides: the root has no locations, and no other feature has
\* the name of the default root.
Clonable(m) ==
  /\ MayClone(m)
  /\ \A l \in Location : m.locations[m.root][l] = 0
  /\ \A f \in m.features \ {m.root}, new \in InitialModels : NameOf[f] # NameOf[new.root]

\* The clone of such a model is built in every order of the hash table, and equals the
\* original up to the identity of its objects, with two exceptions: features beside a
\* group come to be members of it, and no feature has an output string or a step function.
CloneKeepsAllButOutput ==
  source # Nil /\ Clonable(source) =>
    /\ stage # "failed" /\ ~undefined
    /\ stage = "built" => FM = Renamed(WithoutOutput(Regrouped(source)), CloneOf(source))

===============================================================================
