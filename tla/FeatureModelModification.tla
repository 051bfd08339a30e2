----------------------- MODULE FeatureModelModification -----------------------
(***************************************************************************)
(* The FeatureModelModification classes.  A modification is a record; its  *)
(* operator() is an operator that gives the set of possible outcomes on a  *)
(* model: the model it leaves behind and the code it returns.              *)
(*                                                                         *)
(* The code "UB" is no error code of the program.  It stands for a         *)
(* dereference of a null or freed pointer, or a walk that does not end,    *)
(* after which nothing is known of the process.  `alive' are the nodes     *)
(* that can be dereferenced: those of the model, and features that wait in *)
(* the queue of a transaction to be inserted.                              *)
(*                                                                         *)
(* Asserts are compiled out, as in the Release build.                      *)
(***************************************************************************)
EXTENDS FeatureModel

ErrorCode ==
  {"ALREADY_PRESENT", "MISSING_FEATURE", "MISSING_PARENT", "MISSING_CHILD",
   "NON_LEAF_NODE", "RECURSIVE_EDGE"}

Code == ErrorCode \cup {"OK", "UB"}

Modification ==
  [op : {"AddFeature"}, feature : Feature, parent : Feature \cup {Nil}]
  \cup [op : {"RemoveFeature"}, ref : Feature \cup Name, recursive : BOOLEAN]
  \cup [op : {"AddRelationship"}, relationship : Relationship, ref : Feature \cup Name]
  \cup [op : {"RemoveRelationship"}, ref : Feature \cup Name]
  \cup [op : {"AddLocation", "RemoveLocation"}, ref : Feature \cup Name, location : Location]
  \cup [op : {"AddConstraint"}, constraint : Constraint]
  \cup [op : {"SetInfo"}, field : InfoField, text : Text]
  \cup [op : {"SetRoot"}, feature : RootFeature]
  \cup [op : {"AddChild"}, parent : Node \cup Name, child : Node \cup Name]

\* The objects a modification owns (unique_ptr), and the ones it points to.
Owned(mod) ==
  IF mod.op \in {"AddFeature", "SetRoot"} THEN {mod.feature}
  ELSE IF mod.op = "AddRelationship" THEN {mod.relationship}
  ELSE IF mod.op = "AddConstraint" THEN {mod.constraint}
  ELSE {}

PointsTo(mod) ==
  IF mod.op = "AddFeature" THEN {mod.parent} \ {Nil}
  ELSE IF mod.op = "AddChild" THEN {mod.parent, mod.child} \ Name
  ELSE IF mod.op \in {"RemoveFeature", "AddRelationship", "RemoveRelationship",
                      "AddLocation", "RemoveLocation"} THEN {mod.ref} \ Name
  ELSE {}

Outcome(m, code) == [model |-> m, code |-> code]
Undefined(m) == {Outcome(m, "UB")}
Fails(m, code) == {Outcome(m, code)}
Succeeds(m) == {Outcome(m, "OK")}

\* Destroying nodes takes their own pointers along, not those that name them.
Destroy(m, N) ==
  [m EXCEPT !.features = @ \ N,
            !.relationships = @ \ N,
            !.parent = [n \in Node |-> IF n \in N THEN Nil ELSE @[n]],
            !.edges = {e \in @ : e[1] \notin N},
            !.locations = [f \in Feature |->
                             IF f \in N THEN [l \in Location |-> 0] ELSE @[f]],
            !.output = [f \in Feature |-> IF f \in N THEN Nil ELSE @[f]]]

\* FeatureModel::removeFeature frees the feature the model has under the name of the
\* one it is given, which need not be the same: a queued feature may share its name.
Erased(m, D) == {x \in m.features : \E f \in D : NameOf[f] = NameOf[x]}

-------------------------------------------------------------------------------

\* setParent and addEdge for a feature that is new to the model.
Insert(m, f, p) ==
  [m EXCEPT !.features = @ \cup {f}, !.parent[f] = p, !.edges = @ \cup {<<p, f>>}]

\* Mutant: the name is not looked up.
AddFeatureUnchecked(m, f, parent, alive) ==
  LET p == IF parent # Nil THEN parent ELSE m.root IN
  IF p \notin alive THEN Undefined(m) ELSE Succeeds(Insert(m, f, p))

AddFeature(m, f, parent, alive) ==
  LET p == IF parent # Nil THEN parent ELSE m.root IN
  IF GetFeature(m, NameOf[f]) # Nil THEN Fails(m, "ALREADY_PRESENT")
  ELSE IF p = Nil THEN Succeeds([m EXCEPT !.features = @ \cup {f}])
  ELSE IF p \notin alive THEN Undefined(m)
  ELSE Succeeds(Insert(m, f, p))

\* The recursion removes every feature below f, and for each of them the
\* relationships directly below it.  It goes wrong on a subtree that is not a
\* tree: a feature met twice, or still an edge of its feature after it is gone.
RecursionIsSafe(m, f, alive) ==
  LET D == Subtree(m, f) IN
  /\ \A x \in D : WalkIsSafe(m, x, Relationship, alive)
  /\ \A x \in D, y, z \in D : x \in FeatureChildren(m, y) /\ x \in FeatureChildren(m, z) => y = z
  /\ \A x \in D : f \notin FeatureChildren(m, x)
  /\ \A x \in D, y \in D : <<x, y>> \in m.edges => m.parent[y] = x
  /\ \A x \in D : m.parent[x] \in alive

\* What goes with x takes y, or the parent y is cut off from, before y is removed.
Clash(m, x, y) ==
  IF x = y THEN m.parent[x] \in GroupsOf(m, {x})
  ELSE (Erased(m, {x}) \cup GroupsOf(m, {x})) \cap {y, m.parent[y]} # {}

\* Features below another one go first, so they must take nothing it needs; which of
\* two others goes first depends on the order of a set of pointers.
ClashesAlways(m, D) == \E x, y \in D : Clash(m, x, y) /\ x \in Subtree(m, y)

ClashesPerhaps(m, D) ==
  \E x, y \in D : Clash(m, x, y) /\ x \notin Subtree(m, y) /\ y \notin Subtree(m, x)

\* Mutant: the relationships below the removed features stay.
PrunedKeepingGroups(m, D) ==
  Destroy([m EXCEPT !.edges = {e \in @ : e[2] \in D => e[1] # m.parent[e[2]]},
                    !.root = IF @ \in D THEN Nil ELSE @],
          Erased(m, D))

\* What is left when the features D and the relationships below them are gone.
Pruned(m, D) ==
  Destroy([m EXCEPT !.edges = {e \in @ : /\ e[2] \in D => e[1] # m.parent[e[2]]
                                         /\ ~(e[1] \in D /\ e[2] \in GroupsOf(m, D))},
                    !.root = IF @ \in D THEN Nil ELSE @],
          Erased(m, D) \cup GroupsOf(m, D))

RemoveSubtree(m, f, alive) ==
  LET D == Subtree(m, f) IN
  IF ~RecursionIsSafe(m, f, alive) \/ ClashesAlways(m, D) THEN Undefined(m)
  ELSE Succeeds(Pruned(m, D)) \cup (IF ClashesPerhaps(m, D) THEN Undefined(m) ELSE {})

\* Mutant: features in a group do not count as children.
HasNoFeaturesOfItsOwn(m, f) == Targets(m, {f}) \cap Feature = {}

HasNoFeatures(m, f) == FeatureChildren(m, f) = {}

\* f is cut off and the nodes N go.
Unlinked(m, f, N) ==
  Destroy([m EXCEPT !.edges = @ \ {<<m.parent[f], f>>},
                    !.root = IF @ = f THEN Nil ELSE @],
          N)

\* Without recursion only one relationship of the feature is destroyed, before the
\* feature is cut off.
RemoveLeaf(m, f, alive) ==
  LET groups == RelationshipChildren(m, f)
      removals == IF groups = {} THEN {{}} ELSE {{r} : r \in groups}
  IN  IF ~WalkIsSafe(m, f, Relationship, alive) THEN Undefined(m)
      ELSE IF ~HasNoFeatures(m, f) THEN Fails(m, "NON_LEAF_NODE")
      ELSE UNION {IF m.parent[f] \notin alive \ R THEN Undefined(m)
                  ELSE Succeeds(Unlinked(m, f, Erased(m, {f}) \cup R)) : R \in removals}

RemoveFeature(m, ref, recursive, alive) ==
  LET f == Resolve(m, ref) IN
  IF f = Nil THEN Fails(m, "MISSING_FEATURE")
  ELSE IF f \notin alive THEN Undefined(m)
  ELSE IF recursive THEN RemoveSubtree(m, f, alive)
  ELSE RemoveLeaf(m, f, alive)

\* All features below p, also those of a group p has already, become edges of
\* the new relationship; p itself only loses its own edges to them.
Grouped(m, r, p) ==
  LET members == FeatureChildren(m, p) IN
  [m EXCEPT !.relationships = @ \cup {r},
            !.parent = [n \in Node |-> IF n = r THEN p
                                       ELSE IF n \in members THEN r ELSE @[n]],
            !.edges = (@ \ ({p} \X members)) \cup ({r} \X members) \cup {<<p, r>>}]

AddRelationship(m, r, ref, alive) ==
  LET p == Resolve(m, ref) IN
  IF p \notin alive \/ ~WalkIsSafe(m, p, Relationship, alive) THEN Undefined(m)
  ELSE Succeeds(Grouped(m, r, p))

\* Mutant: the relationship is destroyed, but stays an edge of p.
UngroupedKeepingEdge(m, p, r) ==
  LET members == FeatureChildren(m, r) IN
  Destroy([m EXCEPT !.parent = [n \in Node |-> IF n \in members THEN p ELSE @[n]],
                    !.edges = (@ \ ({r} \X members)) \cup ({p} \X members)],
          {r})

\* Mutant: the members keep r as their parent.
UngroupedKeepingParents(m, p, r) ==
  LET members == FeatureChildren(m, r) IN
  Destroy([m EXCEPT !.edges = (@ \ (({r} \X members) \cup {<<p, r>>})) \cup ({p} \X members)],
          {r})

\* The members of r become children of p, and r goes.
Ungrouped(m, p, r) ==
  LET members == FeatureChildren(m, r) IN
  Destroy([m EXCEPT !.parent = [n \in Node |-> IF n \in members THEN p ELSE @[n]],
                    !.edges = (@ \ (({r} \X members) \cup {<<p, r>>})) \cup ({p} \X members)],
          {r})

\* The relationship is the first that getChildren<Relationship> meets, which
\* may belong to a feature further down.
RemoveRelationship(m, ref, alive) ==
  LET p == Resolve(m, ref)
      groups == RelationshipChildren(m, p)
  IN  IF p = Nil THEN Fails(m, "MISSING_PARENT")
      ELSE IF p \notin alive \/ ~WalkIsSafe(m, p, Feature, alive) \/ groups = {} THEN Undefined(m)
      ELSE UNION {IF WalkIsSafe(m, r, Relationship, alive)
                  THEN Succeeds(Ungrouped(m, p, r)) ELSE Undefined(m) : r \in groups}

AddLocation(m, ref, l, alive) ==
  LET f == Resolve(m, ref) IN
  IF f \notin alive THEN Undefined(m)
  ELSE Succeeds([m EXCEPT !.locations[f][l] = @ + 1])

\* std::find of an absent location gives end(), which erase may not be given.
RemoveLocation(m, ref, l, alive) ==
  LET f == Resolve(m, ref) IN
  IF f \notin alive THEN Undefined(m)
  ELSE IF m.locations[f][l] = 0 THEN Undefined(m)
  ELSE Succeeds([m EXCEPT !.locations[f][l] = @ - 1])

\* Mutant: one operand that is found is enough.
AddConstraintToAny(m, c) ==
  LET found == {f \in m.features : NameOf[f] \in Mentions[c]}
      m2 == [m EXCEPT !.constraints = @ \cup {c}, !.bound = @ \cup ({c} \X found)]
  IN  IF Mentions[c] = {} \/ found # {} THEN Succeeds(m2) ELSE Fails(m2, "MISSING_FEATURE")

\* The constraint is stored first and then bound, operand by operand.
AddConstraint(m, c) ==
  LET found == {f \in m.features : NameOf[f] \in Mentions[c]}
      m2 == [m EXCEPT !.constraints = @ \cup {c}, !.bound = @ \cup ({c} \X found)]
  IN  IF \A n \in Mentions[c] : GetFeature(m, n) # Nil
      THEN Succeeds(m2) ELSE Fails(m2, "MISSING_FEATURE")

SetInfo(m, field, text) == Succeeds([m EXCEPT !.info[field] = text])

\* Mutant: the old root stays in the model.
RootAdded(m, f) ==
  LET children == Targets(m, {m.root}) IN
  [m EXCEPT !.features = @ \cup {f},
            !.root = f,
            !.parent = [n \in Node |-> IF n \in children THEN f ELSE @[n]],
            !.edges = {e \in @ : e[1] # m.root} \cup ({f} \X children)]

\* Mutant: the root pointer is not set to the new root.
RootForgotten(m, f) ==
  LET children == Targets(m, {m.root}) IN
  Destroy([m EXCEPT !.features = @ \cup {f},
                    !.parent = [n \in Node |-> IF n \in children THEN f ELSE @[n]],
                    !.edges = @ \cup ({f} \X children)],
          {m.root})

\* The new root takes over the children of the old one, which is destroyed.
RootReplaced(m, f) ==
  LET children == Targets(m, {m.root}) IN
  Destroy([m EXCEPT !.features = @ \cup {f},
                    !.root = f,
                    !.parent = [n \in Node |-> IF n \in children THEN f ELSE @[n]],
                    !.edges = @ \cup ({f} \X children)],
          {m.root})

\* A root of the same name keeps the old root object.
SetRoot(m, f, alive) ==
  IF m.root \notin alive \cup {Nil} THEN Undefined(m)
  ELSE IF m.root # Nil /\ NameOf[m.root] = NameOf[f] THEN Succeeds(m)
  ELSE IF GetFeature(m, NameOf[f]) # Nil THEN Fails(m, "ALREADY_PRESENT")
  ELSE IF m.root = Nil THEN Succeeds([m EXCEPT !.features = @ \cup {f}, !.root = f])
  ELSE IF ~(Targets(m, {m.root}) \subseteq alive) THEN Undefined(m)
  ELSE Succeeds(RootReplaced(m, f))

\* Mutant: the old parent keeps its edge.
AttachedTwice(m, p, c) == [m EXCEPT !.edges = @ \cup {<<p, c>>}, !.parent[c] = p]

Attached(m, p, c) ==
  [m EXCEPT !.edges = (@ \ {<<m.parent[c], c>>}) \cup {<<p, c>>}, !.parent[c] = p]

AddChild(m, parentRef, childRef, alive) ==
  LET c == Resolve(m, childRef)
      p == Resolve(m, parentRef)
  IN  IF c = Nil THEN Fails(m, "MISSING_CHILD")
      ELSE IF p = Nil THEN Fails(m, "MISSING_PARENT")
      ELSE IF c = p THEN Fails(m, "RECURSIVE_EDGE")
      ELSE IF ~({c, p} \subseteq alive) \/ m.parent[c] \notin alive \cup {Nil} THEN Undefined(m)
      ELSE Succeeds(Attached(m, p, c))

-------------------------------------------------------------------------------

\* FeatureModelModification::exec
OutcomesAmong(m, mod, alive) ==
  CASE mod.op = "AddFeature"         -> AddFeature(m, mod.feature, mod.parent, alive)
    [] mod.op = "RemoveFeature"      -> RemoveFeature(m, mod.ref, mod.recursive, alive)
    [] mod.op = "AddRelationship"    -> AddRelationship(m, mod.relationship, mod.ref, alive)
    [] mod.op = "RemoveRelationship" -> RemoveRelationship(m, mod.ref, alive)
    [] mod.op = "AddLocation"        -> AddLocation(m, mod.ref, mod.location, alive)
    [] mod.op = "RemoveLocation"     -> RemoveLocation(m, mod.ref, mod.location, alive)
    [] mod.op = "AddConstraint"      -> AddConstraint(m, mod.constraint)
    [] mod.op = "SetInfo"            -> SetInfo(m, mod.field, mod.text)
    [] mod.op = "SetRoot"            -> SetRoot(m, mod.feature, alive)
    [] mod.op = "AddChild"           -> AddChild(m, mod.parent, mod.child, alive)

\* Where no feature waits in a queue.
Outcomes(m, mod) == OutcomesAmong(m, mod, Live(m))

===============================================================================
