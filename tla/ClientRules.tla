------------------------------ MODULE ClientRules ------------------------------
(***************************************************************************)
(* What a caller of the modifications has to keep to, as the headers, the  *)
(* asserts and the code of the modifications ask for it.                   *)
(***************************************************************************)
EXTENDS FeatureModelModification

\* A modification that returns an error is within the rules.

\* A named node exists or the modification reports that it does not.
PointsAt(m, ref, S) == Resolve(m, ref) \in S \cup {Nil}

\* A name, or a pointer to a feature of the model, that must be found.
Finds(m, ref) == Resolve(m, ref) \in m.features

OwnGroups(m, f) == GroupsOf(m, {f})

MayAddFeature(m, f, parent) == f \notin RootFeature /\ parent \in m.features \cup {Nil}

MayRemove(m, ref, recursive) ==
  /\ PointsAt(m, ref, m.features)
  /\ Finds(m, ref) =>
       LET f == Resolve(m, ref) IN
       /\ f # m.root
       /\ \A b \in m.bound : b[2] \notin (IF recursive THEN Subtree(m, f) ELSE {f})

\* AddRelationship asserts that the features below ref are its own children.
MayGroup(m, ref) == Finds(m, ref) /\ OwnGroups(m, Resolve(m, ref)) = {}

\* RemoveRelationship takes the first relationship it meets.
MayUngroup(m, ref) ==
  /\ PointsAt(m, ref, m.features)
  /\ Finds(m, ref) =>
       LET groups == RelationshipChildren(m, Resolve(m, ref)) IN
       groups # {} /\ groups \subseteq OwnGroups(m, Resolve(m, ref))

MayRemoveLocation(m, ref, l) == Finds(m, ref) /\ m.locations[Resolve(m, ref)][l] > 0

MaySetRoot(m, f) == NameOf[m.root] # NameOf[f] => \A b \in m.bound : b[2] # m.root

\* A node does not move below itself, and a group not below a group, nor below
\* a feature that has another.
MayMove(m, parentRef, childRef) ==
  LET p == Resolve(m, parentRef)
      c == Resolve(m, childRef)
  IN  /\ {p, c} \subseteq Live(m) \cup {Nil}
      /\ p # Nil /\ c # Nil /\ p # c =>
           /\ c # m.root
           /\ p \notin Below(m, c)
           /\ c \in Relationship => p \in Feature /\ OwnGroups(m, p) \subseteq {c}

Proper(m, mod) ==
  /\ Owned(mod) \cap (Live(m) \cup m.constraints) = {}
  /\ mod.op = "AddFeature" => MayAddFeature(m, mod.feature, mod.parent)
  /\ mod.op = "RemoveFeature" => MayRemove(m, mod.ref, mod.recursive)
  /\ mod.op = "AddRelationship" => MayGroup(m, mod.ref)
  /\ mod.op = "RemoveRelationship" => MayUngroup(m, mod.ref)
  /\ mod.op = "AddLocation" => Finds(m, mod.ref)
  /\ mod.op = "RemoveLocation" => MayRemoveLocation(m, mod.ref, mod.location)
  /\ mod.op = "SetRoot" => MaySetRoot(m, mod.feature)
  /\ mod.op = "AddChild" => MayMove(m, mod.parent, mod.child)

===============================================================================
