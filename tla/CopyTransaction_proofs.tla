------------------------- MODULE CopyTransaction_proofs -------------------------
(***************************************************************************)
(* What is done to a copy is what would have been done to the original,    *)
(* and the two never get in touch.                                         *)
(***************************************************************************)
EXTENDS CopyTransaction, ClientRules_proofs

(* Copies.  Twin is its own inverse, so the relation is symmetric. *)

\* c is m with each object exchanged for its twin; neither has an output, as in a clone.
IsCopy(m, c) ==
  /\ \A f \in Feature : f \in c.features <=> Twin[f] \in m.features
  /\ \A r \in Relationship : r \in c.relationships <=> Twin[r] \in m.relationships
  /\ c.root = IF m.root = Nil THEN Nil ELSE Twin[m.root]
  /\ \A x \in Node : c.parent[x] = IF m.parent[Twin[x]] = Nil THEN Nil ELSE Twin[m.parent[Twin[x]]]
  /\ \A x, y \in Node : <<x, y>> \in c.edges <=> <<Twin[x], Twin[y]>> \in m.edges
  /\ \A k \in Constraint : k \in c.constraints <=> Twin[k] \in m.constraints
  /\ \A k \in Constraint, f \in Feature : <<k, f>> \in c.bound <=> <<Twin[k], Twin[f]>> \in m.bound
  /\ \A f \in Feature : c.locations[f] = m.locations[Twin[f]]
  /\ m.output = NoOutput /\ c.output = NoOutput
  /\ c.info = m.info

\* Each object has one twin, of its own kind.
LEMMA TwinIs ==
  /\ \A x \in Node \cup Constraint : Twin[x] \in Node \cup Constraint /\ Twin[x] # x /\ Twin[Twin[x]] = x
  /\ \A x, y \in Node \cup Constraint : Twin[x] = Twin[y] => x = y
  /\ \A x \in Node : Twin[x] \in Node /\ Twin[Twin[x]] = x /\ x # Nil /\ Twin[x] # Nil
  /\ \A x \in Feature : Twin[x] \in Feature /\ NameOf[Twin[x]] = NameOf[x]
  /\ \A x \in Feature : Twin[x] \in RootFeature <=> x \in RootFeature
  /\ \A x \in Relationship : Twin[x] \in Relationship
  /\ \A x \in Node : Twin[x] \in Feature <=> x \in Feature
  /\ \A x \in Node : Twin[x] \in Relationship <=> x \in Relationship
  /\ \A x \in Constraint : Twin[x] \in Constraint /\ Twin[Twin[x]] = x /\ Mentions[Twin[x]] = Mentions[x]
  /\ Node = Feature \cup Relationship /\ Feature \cap Relationship = {} /\ Node \cap Constraint = {}
  /\ Nil \notin Node \cup Constraint
  /\ RootFeature \subseteq Feature
  BY CopyAssumption, ConstantsAssumption DEF Node

\* A model is a copy of its copy.
LEMMA CopyIsMutual ==
  ASSUME NEW m \in Model, NEW c \in Model, IsCopy(m, c)
  PROVE  IsCopy(c, m)
  <1>1. \A f \in Feature : f \in m.features <=> Twin[f] \in c.features
    BY TwinIs DEF IsCopy
  <1>2. \A r \in Relationship : r \in m.relationships <=> Twin[r] \in c.relationships
    BY TwinIs DEF IsCopy
  <1>3. m.root = IF c.root = Nil THEN Nil ELSE Twin[c.root]
    BY TwinIs, ModelFields DEF IsCopy
  <1>4. \A x \in Node : m.parent[x] = IF c.parent[Twin[x]] = Nil THEN Nil ELSE Twin[c.parent[Twin[x]]]
    <2>1. ASSUME NEW x \in Node
          PROVE  m.parent[x] = IF c.parent[Twin[x]] = Nil THEN Nil ELSE Twin[c.parent[Twin[x]]]
      <3>1. m.parent[x] \in Node \cup {Nil}
        BY ModelFields
      <3>2. c.parent[Twin[x]] = IF m.parent[x] = Nil THEN Nil ELSE Twin[m.parent[x]]
        BY TwinIs DEF IsCopy
      <3> QED
        BY <3>1, <3>2, TwinIs
    <2> QED
      BY <2>1
  <1>5. ASSUME NEW x \in Node, NEW y \in Node
        PROVE  <<x, y>> \in m.edges <=> <<Twin[x], Twin[y]>> \in c.edges
    <2>1. /\ Twin[x] \in Node /\ Twin[y] \in Node /\ Twin[Twin[x]] = x /\ Twin[Twin[y]] = y
      BY TwinIs
    <2>2. <<Twin[x], Twin[y]>> \in c.edges <=> <<Twin[Twin[x]], Twin[Twin[y]]>> \in m.edges
      BY <2>1 DEF IsCopy
    <2> QED
      BY <2>1, <2>2
  <1>6. \A k \in Constraint : k \in m.constraints <=> Twin[k] \in c.constraints
    BY TwinIs DEF IsCopy
  <1>7. ASSUME NEW k \in Constraint, NEW f \in Feature
        PROVE  <<k, f>> \in m.bound <=> <<Twin[k], Twin[f]>> \in c.bound
    <2>1. /\ Twin[k] \in Constraint /\ Twin[f] \in Feature /\ Twin[Twin[k]] = k /\ Twin[Twin[f]] = f
      BY TwinIs DEF Node
    <2>2. <<Twin[k], Twin[f]>> \in c.bound <=> <<Twin[Twin[k]], Twin[Twin[f]]>> \in m.bound
      BY <2>1 DEF IsCopy
    <2> QED
      BY <2>1, <2>2
  <1>8. \A f \in Feature : m.locations[f] = c.locations[Twin[f]]
    BY TwinIs DEF IsCopy
  <1>9. m.info = c.info /\ m.output = NoOutput /\ c.output = NoOutput
    BY DEF IsCopy
  <1> QED
    BY <1>1, <1>2, <1>3, <1>4, <1>5, <1>6, <1>7, <1>8, <1>9 DEF IsCopy

\* A model has one copy.
LEMMA CopyIsUnique ==
  ASSUME NEW m \in Model, NEW c \in Model, NEW d \in Model, IsCopy(m, c), IsCopy(m, d)
  PROVE  c = d
  <1>1. c.features = d.features /\ c.relationships = d.relationships /\ c.root = d.root
    BY ModelFields DEF IsCopy
  <1>2. c.parent = d.parent
    BY ModelFields DEF IsCopy
  <1>3. c.edges = d.edges
    <2>1. c.edges \subseteq Node \X Node /\ d.edges \subseteq Node \X Node
      BY ModelFields
    <2>2. \A x, y \in Node : <<x, y>> \in c.edges <=> <<x, y>> \in d.edges
      BY DEF IsCopy
    <2> QED
      BY <2>1, <2>2
  <1>4. c.constraints = d.constraints /\ c.bound = d.bound
    <2>1. /\ c.bound \subseteq Constraint \X Feature /\ d.bound \subseteq Constraint \X Feature
          /\ c.constraints \subseteq Constraint /\ d.constraints \subseteq Constraint
      BY ModelFields
    <2>2. \A k \in Constraint, f \in Feature : <<k, f>> \in c.bound <=> <<k, f>> \in d.bound
      BY DEF IsCopy
    <2>3. \A k \in Constraint : k \in c.constraints <=> k \in d.constraints
      BY DEF IsCopy
    <2>4. c.constraints = d.constraints
      BY <2>1, <2>3
    <2>5. c.bound = d.bound
      BY <2>1, <2>2
    <2> QED
      BY <2>4, <2>5
  <1>5. c.locations = d.locations /\ c.output = d.output /\ c.info = d.info
    BY ModelFields DEF IsCopy
  <1> QED
    BY <1>1, <1>2, <1>3, <1>4, <1>5 DEF Model

\* Renamed gives the copy.
LEMMA RenamedIsCopy ==
  ASSUME NEW m \in Model, EdgesMatchParents(m), OnlyItsLocations(m), m.output = NoOutput
  PROVE  Renamed(m, Twin) \in Model /\ IsCopy(m, Renamed(m, Twin))
  <1> DEFINE new(S) == {Twin[x] : x \in S}
             old(x) == CHOOSE y \in Live(m) : Twin[y] = x
             c == Renamed(m, Twin)
  <1>1. /\ m.features \subseteq Feature /\ m.relationships \subseteq Relationship
        /\ m.root \in Feature \cup {Nil} /\ m.parent \in [Node -> Node \cup {Nil}]
        /\ m.edges \subseteq Node \X Node /\ m.constraints \subseteq Constraint
        /\ m.bound \subseteq Constraint \X Feature
        /\ m.locations \in [Feature -> [Location -> Nat]]
        /\ m.info \in [InfoField -> Text] /\ Live(m) \subseteq Node
    BY ModelFields
  <1>2. \A x \in Node : x \in new(Live(m)) <=> Twin[x] \in Live(m)
    BY <1>1, TwinIs
  <1>3. \A x \in Node : x \in new(Live(m)) => old(x) = Twin[x]
    <2>1. ASSUME NEW x \in Node, x \in new(Live(m)) PROVE old(x) = Twin[x]
      <3>1. Twin[x] \in Live(m) /\ Twin[Twin[x]] = x
        BY <1>2, <2>1, TwinIs
      <3>2. \A y \in Live(m) : Twin[y] = x => y = Twin[x]
        BY <1>1, TwinIs
      <3> QED
        BY <3>1, <3>2
    <2> QED
      BY <2>1
  <1>4. \A f \in Feature : f \in new(m.features) <=> Twin[f] \in m.features
    BY <1>1, TwinIs
  <1>5. \A r \in Relationship : r \in new(m.relationships) <=> Twin[r] \in m.relationships
    BY <1>1, TwinIs
  <1>6. \A k \in Constraint : k \in new(m.constraints) <=> Twin[k] \in m.constraints
    BY <1>1, TwinIs
  <1>7. /\ c.features = new(m.features) /\ c.relationships = new(m.relationships)
        /\ c.root = IF m.root = Nil THEN Nil ELSE Twin[m.root]
        /\ c.parent = [x \in Node |-> IF x \in new(Live(m)) /\ m.parent[old(x)] # Nil
                                      THEN Twin[m.parent[old(x)]] ELSE Nil]
        /\ c.edges = {<<Twin[e[1]], Twin[e[2]]>> : e \in m.edges}
        /\ c.constraints = new(m.constraints)
        /\ c.bound = {<<Twin[b[1]], Twin[b[2]]>> : b \in m.bound}
        /\ c.locations = [f \in Feature |-> IF f \in new(m.features) THEN m.locations[old(f)]
                                            ELSE [l \in Location |-> 0]]
        /\ c.output = [f \in Feature |-> IF f \in new(m.features) THEN m.output[old(f)] ELSE Nil]
        /\ c.info = m.info
    BY DEF Renamed
  <1>8. ASSUME NEW x \in Node
        PROVE  c.parent[x] = IF m.parent[Twin[x]] = Nil THEN Nil ELSE Twin[m.parent[Twin[x]]]
    <2>1. CASE x \in new(Live(m))
      <3> HIDE DEF new, old, c
      <3> QED
        BY <1>3, <1>7, <2>1
    <2>2. CASE x \notin new(Live(m))
      <3>1. Twin[x] \in Node /\ Twin[x] \notin Live(m)
        BY <1>2, <2>2, TwinIs
      <3>2. m.parent[Twin[x]] = Nil
        BY <3>1, NoParent
      <3> HIDE DEF new, old, c
      <3> QED
        BY <1>7, <2>2, <3>2
    <2> QED
      BY <2>1, <2>2
  <1>9. ASSUME NEW x \in Node, NEW y \in Node
        PROVE  <<x, y>> \in c.edges <=> <<Twin[x], Twin[y]>> \in m.edges
    <2>1. Twin[Twin[x]] = x /\ Twin[Twin[y]] = y
      BY TwinIs
    <2>2. ASSUME <<Twin[x], Twin[y]>> \in m.edges PROVE <<x, y>> \in c.edges
      <3>1. <<Twin[<<Twin[x], Twin[y]>>[1]], Twin[<<Twin[x], Twin[y]>>[2]]>> \in c.edges
        BY <1>7, <2>2
      <3> HIDE DEF c
      <3> QED
        BY <2>1, <3>1
    <2>3. ASSUME <<x, y>> \in c.edges PROVE <<Twin[x], Twin[y]>> \in m.edges
      <3>1. PICK e \in m.edges : <<x, y>> = <<Twin[e[1]], Twin[e[2]]>>
        BY <1>7, <2>3
      <3>2. e = <<e[1], e[2]>> /\ e[1] \in Node /\ e[2] \in Node
        BY <1>1
      <3>3. Twin[x] = e[1] /\ Twin[y] = e[2]
        BY <3>1, <3>2, TwinIs
      <3> QED
        BY <3>2, <3>3
    <2> QED
      BY <2>2, <2>3
  <1>10. ASSUME NEW x \in Constraint, NEW y \in Feature
         PROVE  <<x, y>> \in c.bound <=> <<Twin[x], Twin[y]>> \in m.bound
    <2>1. Twin[Twin[x]] = x /\ Twin[Twin[y]] = y
      BY TwinIs
    <2>2. ASSUME <<Twin[x], Twin[y]>> \in m.bound PROVE <<x, y>> \in c.bound
      <3>1. <<Twin[<<Twin[x], Twin[y]>>[1]], Twin[<<Twin[x], Twin[y]>>[2]]>> \in c.bound
        BY <1>7, <2>2
      <3> HIDE DEF c
      <3> QED
        BY <2>1, <3>1
    <2>3. ASSUME <<x, y>> \in c.bound PROVE <<Twin[x], Twin[y]>> \in m.bound
      <3>1. PICK e \in m.bound : <<x, y>> = <<Twin[e[1]], Twin[e[2]]>>
        BY <1>7, <2>3
      <3>2. e = <<e[1], e[2]>> /\ e[1] \in Constraint /\ e[2] \in Feature
        BY <1>1
      <3>3. Twin[x] = e[1] /\ Twin[y] = e[2]
        BY <3>1, <3>2, TwinIs
      <3> QED
        BY <3>2, <3>3
    <2> QED
      BY <2>2, <2>3
  <1>11. \A f \in Feature : c.locations[f] = m.locations[Twin[f]]
    <2>1. ASSUME NEW f \in Feature PROVE c.locations[f] = m.locations[Twin[f]]
      <3>1. CASE f \in new(m.features)
        <4>1. f \in new(Live(m)) /\ f \in Node
          BY <3>1, TwinIs DEF Live
        <4>2. old(f) = Twin[f]
          BY <1>3, <4>1
        <4> HIDE DEF new, old, c
        <4> QED
          BY <1>7, <3>1, <4>2
      <3>2. CASE f \notin new(m.features)
        <4>1. Twin[f] \in Feature \ m.features
          BY <1>4, <3>2, TwinIs
        <4>2. m.locations[Twin[f]] \in [Location -> Nat]
          BY <1>1, <4>1
        <4>3. m.locations[Twin[f]] = [l \in Location |-> 0]
          BY <4>1, <4>2 DEF OnlyItsLocations
        <4> HIDE DEF new, old, c
        <4> QED
          BY <1>7, <3>2, <4>3
      <3> QED
        BY <3>1, <3>2
    <2> QED
      BY <2>1
  <1>12. c.output = NoOutput
    <2>1. ASSUME NEW f \in Feature, f \in new(m.features) PROVE old(f) \in Feature
      <3>1. f \in new(Live(m)) /\ f \in Node
        BY <2>1, TwinIs DEF Live
      <3>2. old(f) = Twin[f]
        BY <1>3, <3>1
      <3> HIDE DEF new, old, c
      <3> QED
        BY <3>2, TwinIs
    <2>2. \A f \in Feature : f \in new(m.features) => m.output[old(f)] = Nil
      BY <2>1 DEF NoOutput
    <2> HIDE DEF new, old, c
    <2> QED
      BY <1>7, <2>2 DEF NoOutput
  <1>13. IsCopy(m, c)
    <2>1. c.root = (IF m.root = Nil THEN Nil ELSE Twin[m.root]) /\ c.info = m.info
      BY <1>7
    <2> HIDE DEF new, old, c
    <2>2. /\ \A f \in Feature : f \in c.features <=> Twin[f] \in m.features
          /\ \A r \in Relationship : r \in c.relationships <=> Twin[r] \in m.relationships
          /\ \A k \in Constraint : k \in c.constraints <=> Twin[k] \in m.constraints
      BY <1>4, <1>5, <1>6, <1>7
    <2> QED
      BY <1>8, <1>9, <1>10, <1>11, <1>12, <2>1, <2>2 DEF IsCopy
  <1>14. c \in Model
    <2>1. c.features \in SUBSET Feature /\ c.relationships \in SUBSET Relationship
      BY <1>1, <1>7, TwinIs
    <2>2. c.root \in Feature \cup {Nil} /\ c.constraints \in SUBSET Constraint
      BY <1>1, <1>7, TwinIs
    <2>3. c.parent \in [Node -> Node \cup {Nil}]
      <3>1. \A x \in Node : c.parent[x] \in Node \cup {Nil}
        BY <1>1, <1>8, TwinIs
      <3>2. c.parent = [x \in Node |-> c.parent[x]]
        BY <1>7
      <3> HIDE DEF c
      <3> QED
        BY <3>1, <3>2
    <2>4. c.edges \in SUBSET (Node \X Node)
      <3>1. \A e \in m.edges : Twin[e[1]] \in Node /\ Twin[e[2]] \in Node
        BY <1>1, TwinIs
      <3> QED
        BY <1>7, <3>1
    <2>5. c.bound \in SUBSET (Constraint \X Feature)
      <3>1. \A e \in m.bound : Twin[e[1]] \in Constraint /\ Twin[e[2]] \in Feature
        BY <1>1, TwinIs
      <3> QED
        BY <1>7, <3>1
    <2>6. c.locations \in [Feature -> [Location -> Nat]]
      <3>1. \A f \in Feature : c.locations[f] \in [Location -> Nat]
        BY <1>1, <1>11, TwinIs
      <3>2. c.locations = [f \in Feature |-> c.locations[f]]
        BY <1>7
      <3> HIDE DEF c
      <3> QED
        BY <3>1, <3>2
    <2>7. c = [features |-> c.features, relationships |-> c.relationships, root |-> c.root,
               parent |-> c.parent, edges |-> c.edges, constraints |-> c.constraints,
               bound |-> c.bound, locations |-> c.locations, output |-> c.output,
               info |-> c.info]
      BY DEF Renamed
    <2>8. c.output \in [Feature -> Text \cup {Nil}]
      BY <1>12 DEF NoOutput
    <2> HIDE DEF c, new, old
    <2> QED
      BY <1>1, <1>7, <2>1, <2>2, <2>3, <2>4, <2>5, <2>6, <2>7, <2>8 DEF Model
  <1> QED
    BY <1>13, <1>14

-------------------------------------------------------------------------------
(* A copy of a tree is a tree *)

\* The nodes of a copy are the twins of the nodes of the model.
LEMMA CopyNodes ==
  ASSUME NEW m \in Model, NEW c \in Model, IsCopy(m, c), NEW x \in Node
  PROVE  /\ x \in Live(c) <=> Twin[x] \in Live(m)
         /\ x \in c.features <=> Twin[x] \in m.features
         /\ x \in c.relationships <=> Twin[x] \in m.relationships
         /\ m.root # Nil => (x = c.root <=> Twin[x] = m.root)
         /\ \A y \in Node : c.parent[x] = y <=> m.parent[Twin[x]] = Twin[y]
         /\ c.parent[x] = Nil <=> m.parent[Twin[x]] = Nil
         /\ c.parent[x] \in Feature <=> m.parent[Twin[x]] \in Feature
         /\ c.parent[x] \in Relationship <=> m.parent[Twin[x]] \in Relationship
         /\ m.parent[Twin[x]] # Nil => Twin[c.parent[x]] = m.parent[Twin[x]]
         /\ c.parent[x] \in Node \cup {Nil}
  <1>1. /\ m.features \subseteq Feature /\ c.features \subseteq Feature
        /\ m.relationships \subseteq Relationship /\ c.relationships \subseteq Relationship
        /\ m.root \in Feature \cup {Nil} /\ c.root \in Feature \cup {Nil}
        /\ Twin[x] \in Node
        /\ m.parent[Twin[x]] \in Node \cup {Nil}
        /\ c.parent[x] \in Node \cup {Nil}
    BY ModelFields, TwinIs
  <1>2. x \in c.features <=> Twin[x] \in m.features
    BY <1>1, TwinIs DEF IsCopy
  <1>3. x \in c.relationships <=> Twin[x] \in m.relationships
    BY <1>1, TwinIs DEF IsCopy
  <1>4. x \in Live(c) <=> Twin[x] \in Live(m)
    BY <1>2, <1>3 DEF Live
  <1>5. m.root # Nil => (x = c.root <=> Twin[x] = m.root)
    BY <1>1, TwinIs DEF IsCopy
  <1>6. c.parent[x] = IF m.parent[Twin[x]] = Nil THEN Nil ELSE Twin[m.parent[Twin[x]]]
    BY DEF IsCopy
  <1>7. \A y \in Node : c.parent[x] = y <=> m.parent[Twin[x]] = Twin[y]
    BY <1>1, <1>6, TwinIs
  <1>8. /\ c.parent[x] = Nil <=> m.parent[Twin[x]] = Nil
        /\ c.parent[x] \in Feature <=> m.parent[Twin[x]] \in Feature
        /\ c.parent[x] \in Relationship <=> m.parent[Twin[x]] \in Relationship
        /\ m.parent[Twin[x]] # Nil => Twin[c.parent[x]] = m.parent[Twin[x]]
    BY <1>1, <1>6, TwinIs
  <1> QED
    BY <1>1, <1>2, <1>3, <1>4, <1>5, <1>7, <1>8

\* Edges match parents in a copy when they do in the model.
LEMMA CopyOfEdges ==
  ASSUME NEW m \in Model, NEW c \in Model, IsCopy(m, c), EdgesMatchParents(m)
  PROVE  EdgesMatchParents(c)
  <1>1. ASSUME NEW e \in c.edges
        PROVE  e[1] \in Live(c) /\ e[2] \in Live(c) /\ c.parent[e[2]] = e[1]
    <2>1. e = <<e[1], e[2]>> /\ e[1] \in Node /\ e[2] \in Node
      BY <1>1, ModelFields
    <2>2. <<Twin[e[1]], Twin[e[2]]>> \in m.edges
      BY <1>1, <2>1 DEF IsCopy
    <2>3. m.parent[Twin[e[2]]] = Twin[e[1]] /\ Twin[e[1]] \in Live(m) /\ Twin[e[2]] \in Live(m)
      BY <2>2 DEF EdgesMatchParents
    <2> QED
      BY <2>1, <2>3, CopyNodes
  <1>2. ASSUME NEW n \in Node, c.parent[n] # Nil
        PROVE  <<c.parent[n], n>> \in c.edges
    <2>1. Twin[n] \in Node /\ m.parent[Twin[n]] # Nil /\ Twin[c.parent[n]] = m.parent[Twin[n]]
          /\ c.parent[n] \in Node
      BY <1>2, TwinIs, CopyNodes
    <2>2. <<m.parent[Twin[n]], Twin[n]>> \in m.edges
      BY <2>1 DEF EdgesMatchParents
    <2> QED
      BY <2>1, <2>2 DEF IsCopy
  <1> QED
    BY <1>1, <1>2 DEF EdgesMatchParents

\* The constraints of a copy are bound within it when those of the model are.
LEMMA CopyOfBindings ==
  ASSUME NEW m \in Model, NEW c \in Model, IsCopy(m, c), ConstraintsBound(m)
  PROVE  ConstraintsBound(c)
  <1>1. ASSUME NEW b \in c.bound PROVE b \in c.constraints \X c.features
    <2>1. b = <<b[1], b[2]>> /\ b[1] \in Constraint /\ b[2] \in Feature
      BY <1>1, ModelFields
    <2>2. <<Twin[b[1]], Twin[b[2]]>> \in m.bound
      BY <1>1, <2>1 DEF IsCopy
    <2>3. Twin[b[1]] \in m.constraints /\ Twin[b[2]] \in m.features
      BY <2>2 DEF ConstraintsBound
    <2>4. b[1] \in c.constraints /\ b[2] \in c.features
      BY <2>1, <2>3 DEF IsCopy
    <2> QED
      BY <2>1, <2>4
  <1> QED
    BY <1>1 DEF ConstraintsBound

\* A copy of a tree is a tree.
LEMMA CopyOfTree ==
  ASSUME NEW m \in Model, NEW c \in Model, IsCopy(m, c), IsTree(m)
  PROVE  IsTree(c)
  <1>0. /\ EdgesMatchParents(m) /\ Rooted(m) /\ GroupsWellPlaced(m) /\ NamesIdentify(m)
        /\ m.features \subseteq Feature /\ c.features \subseteq Feature
        /\ m.relationships \subseteq Relationship /\ c.relationships \subseteq Relationship
        /\ Live(m) \subseteq Node /\ Live(c) \subseteq Node
        /\ Feature \subseteq Node /\ Relationship \subseteq Node
    BY ModelFields DEF IsTree, Node
  <1>1. EdgesMatchParents(c)
    BY <1>0, CopyOfEdges
  <1>2. /\ m.root \in m.features /\ m.root \in Feature /\ m.root \in Node /\ m.root # Nil
        /\ m.parent[m.root] = Nil
        /\ c.root = Twin[m.root] /\ Twin[c.root] = m.root /\ c.root \in Node
    BY <1>0, TwinIs DEF Rooted, IsCopy
  <1>3. c.root \in c.features /\ c.parent[c.root] = Nil
    BY <1>2, CopyNodes
  <1>4. ASSUME NEW S \in SUBSET (Live(c) \ {c.root}), S # {}
        PROVE  \E n \in S : c.parent[n] \in Live(c) \ S
    <2> DEFINE R == {Twin[x] : x \in S}
    <2>1. \A x \in S : x \in Node /\ Twin[x] \in Live(m) /\ Twin[x] # m.root
      BY <1>0, <1>2, CopyNodes
    <2>2. R \in SUBSET (Live(m) \ {m.root}) /\ R # {}
      BY <1>4, <2>1
    <2>3. PICK k \in R : m.parent[k] \in Live(m) \ R
      <3> HIDE DEF R
      <3> QED
        BY <1>0, <2>2 DEF Rooted
    <2>4. PICK x \in S : k = Twin[x]
      OBVIOUS
    <2>5. /\ x \in Node /\ m.parent[Twin[x]] # Nil /\ c.parent[x] \in Node
          /\ Twin[c.parent[x]] = m.parent[Twin[x]]
      BY <1>0, <2>1, <2>3, <2>4, TwinIs, CopyNodes
    <2>6. c.parent[x] \in Live(c)
      BY <2>3, <2>4, <2>5, CopyNodes
    <2>7. c.parent[x] \notin S
      BY <2>3, <2>4, <2>5
    <2> QED
      BY <2>6, <2>7
  <1>5. Rooted(c)
    BY <1>3, <1>4 DEF Rooted
  <1>6. GroupsWellPlaced(c)
    <2>1. ASSUME NEW r \in c.relationships PROVE c.parent[r] \in c.features
      <3>1. r \in Node /\ Twin[r] \in m.relationships
        BY <1>0, <2>1, CopyNodes
      <3>2. m.parent[Twin[r]] \in m.features
        BY <1>0, <3>1 DEF GroupsWellPlaced
      <3>3. m.parent[Twin[r]] # Nil /\ c.parent[r] \in Node /\ Twin[c.parent[r]] = m.parent[Twin[r]]
        BY <1>0, <3>1, <3>2, TwinIs, CopyNodes
      <3> QED
        BY <3>2, <3>3, CopyNodes
    <2>2. ASSUME NEW r \in c.relationships, NEW q \in c.relationships, c.parent[r] = c.parent[q]
          PROVE  r = q
      <3>1. r \in Node /\ q \in Node /\ Twin[r] \in m.relationships /\ Twin[q] \in m.relationships
        BY <1>0, <2>2, CopyNodes
      <3>2. c.parent[r] \in Node
        BY <1>0, <2>1
      <3>3. m.parent[Twin[r]] = m.parent[Twin[q]]
        BY <2>2, <3>1, <3>2, CopyNodes
      <3> QED
        BY <1>0, <3>1, <3>3, TwinIs DEF GroupsWellPlaced
    <2> QED
      BY <2>1, <2>2 DEF GroupsWellPlaced
  <1>7. NamesIdentify(c)
    <2>1. ASSUME NEW f \in c.features, NEW g \in c.features, NameOf[f] = NameOf[g] PROVE f = g
      <3>1. f \in Feature /\ g \in Feature /\ Twin[f] \in m.features /\ Twin[g] \in m.features
        BY <1>0, <2>1 DEF IsCopy
      <3>2. NameOf[Twin[f]] = NameOf[Twin[g]]
        BY <2>1, <3>1, TwinIs
      <3>3. Twin[f] = Twin[g]
        BY <1>0, <3>1, <3>2 DEF NamesIdentify
      <3> QED
        BY <1>0, <3>1, <3>3, TwinIs
    <2>2. \A f \in Feature : f \in c.features /\ f \in RootFeature <=> Twin[f] \in m.features \cap RootFeature
      BY <1>0, TwinIs DEF IsCopy
    <2>3. m.features \cap RootFeature = {m.root}
      BY <1>0 DEF NamesIdentify
    <2>4. \A f \in Feature : Twin[f] = m.root <=> f = c.root
      BY <1>0, <1>2, TwinIs
    <2>5. c.root \in Feature
      BY <1>0, <1>3
    <2>6. c.features \cap RootFeature = {c.root}
      BY <1>0, <2>2, <2>3, <2>4, <2>5
    <2> QED
      BY <2>1, <2>6 DEF NamesIdentify
  <1> QED
    BY <1>1, <1>5, <1>6, <1>7 DEF IsTree

\* A copy of a well-formed model is well-formed.
LEMMA CopyOfWellFormed ==
  ASSUME NEW m \in Model, NEW c \in Model, IsCopy(m, c), WellFormed(m)
  PROVE  WellFormed(c)
  BY CopyOfTree, CopyOfBindings, WellFormedIsTree

\* Only features of a copy have locations when this is so in the model.
LEMMA CopyOfLocations ==
  ASSUME NEW m \in Model, NEW c \in Model, IsCopy(m, c), OnlyItsLocations(m)
  PROVE  OnlyItsLocations(c)
  <1>1. ASSUME NEW f \in Feature \ c.features, NEW l \in Location PROVE c.locations[f][l] = 0
    <2>1. Twin[f] \in Feature \ m.features /\ c.locations[f] = m.locations[Twin[f]]
      BY TwinIs DEF IsCopy
    <2> QED
      BY <2>1 DEF OnlyItsLocations
  <1> QED
    BY <1>1 DEF OnlyItsLocations

-------------------------------------------------------------------------------
(* Lookups and walks on a copy *)

\* The feature of a name in the copy is the twin of that in the model.
LEMMA CopyOfLookup ==
  ASSUME NEW m \in Model, NEW c \in Model, IsCopy(m, c), IsTree(m), NEW name
  PROVE  /\ GetFeature(m, name) = Nil <=> GetFeature(c, name) = Nil
         /\ GetFeature(m, name) # Nil => /\ GetFeature(m, name) \in m.features
                                         /\ GetFeature(c, name) = Twin[GetFeature(m, name)]
  <1>1. /\ m.features \subseteq Feature /\ c.features \subseteq Feature
        /\ \A f, g \in c.features : NameOf[f] = NameOf[g] => f = g
        /\ \A f \in Feature : f \in c.features <=> Twin[f] \in m.features
        /\ \A f \in c.features : f # Nil
    BY ModelFields, CopyOfTree, TwinIs DEF IsTree, NamesIdentify, IsCopy
  <1>2. /\ GetFeature(m, name) \in m.features \cup {Nil}
        /\ GetFeature(m, name) = Nil <=> \A f \in m.features : NameOf[f] # name
        /\ GetFeature(m, name) # Nil => NameOf[GetFeature(m, name)] = name
    BY GetFeatureFinds
  <1>3. /\ GetFeature(c, name) \in c.features \cup {Nil}
        /\ GetFeature(c, name) = Nil <=> \A f \in c.features : NameOf[f] # name
        /\ GetFeature(c, name) # Nil => NameOf[GetFeature(c, name)] = name
    BY GetFeatureFinds
  <1>4. ASSUME NEW f \in m.features, NameOf[f] = name
        PROVE  Twin[f] \in c.features /\ NameOf[Twin[f]] = name
    BY <1>1, <1>4, TwinIs
  <1>5. ASSUME NEW f \in c.features, NameOf[f] = name
        PROVE  Twin[f] \in m.features /\ NameOf[Twin[f]] = name
    BY <1>1, <1>5, TwinIs
  <1> QED
    BY <1>1, <1>2, <1>3, <1>4, <1>5

\* The children of a copied feature are copies of the children.
LEMMA CopyOfChildren ==
  ASSUME NEW m \in Model, NEW c \in Model, IsCopy(m, c), IsTree(m), NEW n \in Node
  PROVE  /\ \A x \in Feature : x \in FeatureChildren(c, n) <=> Twin[x] \in FeatureChildren(m, Twin[n])
         /\ FeatureChildren(c, n) = {} <=> FeatureChildren(m, Twin[n]) = {}
         /\ FeatureChildren(c, n) \subseteq Feature
         /\ FeatureChildren(m, Twin[n]) \subseteq Feature
  <1>1. IsTree(c) /\ Twin[n] \in Node
    BY CopyOfTree, TwinIs
  <1>2. FeatureChildren(c, n) =
          {x \in Feature : c.parent[x] = n \/
                           (c.parent[x] \in Relationship /\ c.parent[c.parent[x]] = n)}
    BY <1>1, FeatureChildrenAre DEF IsTree
  <1>3. FeatureChildren(m, Twin[n]) =
          {x \in Feature : m.parent[x] = Twin[n] \/
                           (m.parent[x] \in Relationship /\ m.parent[m.parent[x]] = Twin[n])}
    BY <1>1, FeatureChildrenAre DEF IsTree
  <1>4. ASSUME NEW x \in Feature
        PROVE  x \in FeatureChildren(c, n) <=> Twin[x] \in FeatureChildren(m, Twin[n])
    <2>1. x \in Node /\ Twin[x] \in Feature
      BY TwinIs
    <2>2. c.parent[x] = n <=> m.parent[Twin[x]] = Twin[n]
      BY <2>1, CopyNodes
    <2>3. c.parent[x] \in Relationship <=> m.parent[Twin[x]] \in Relationship
      BY <2>1, CopyNodes
    <2>4. ASSUME c.parent[x] \in Relationship
          PROVE  c.parent[c.parent[x]] = n <=> m.parent[m.parent[Twin[x]]] = Twin[n]
      <3>1. c.parent[x] \in Node /\ Twin[c.parent[x]] = m.parent[Twin[x]]
        BY <2>1, <2>4, TwinIs, CopyNodes
      <3>2. c.parent[c.parent[x]] = n <=> m.parent[Twin[c.parent[x]]] = Twin[n]
        BY <3>1, CopyNodes
      <3> QED
        BY <3>1, <3>2
    <2> QED
      BY <1>2, <1>3, <2>1, <2>2, <2>3, <2>4
  <1>5. ASSUME NEW y \in FeatureChildren(m, Twin[n]) PROVE Twin[y] \in FeatureChildren(c, n)
    <2>1. y \in Feature /\ Twin[y] \in Feature /\ Twin[Twin[y]] = y
      BY <1>3, <1>5, TwinIs
    <2> QED
      BY <1>4, <1>5, <2>1
  <1> QED
    BY <1>2, <1>3, <1>4, <1>5

\* Half of CopyOfSubtree
LEMMA TwinsBelow ==
  ASSUME NEW m \in Model, NEW c \in Model, IsCopy(m, c), IsTree(m), NEW f \in Feature,
         NEW x \in Subtree(c, f)
  PROVE  Twin[x] \in Subtree(m, Twin[f])
  <1>1. x \in Feature /\ Twin[x] \in Feature /\ Twin[f] \in Feature
    BY TwinIs DEF Subtree
  <1> SUFFICES ASSUME NEW S \in SUBSET Feature, Twin[f] \in S,
                      \A y \in S : FeatureChildren(m, y) \subseteq S
               PROVE  Twin[x] \in S
    BY <1>1 DEF Subtree
  <1> DEFINE R == {y \in Feature : Twin[y] \in S}
  <1>2. R \in SUBSET Feature /\ f \in R
    OBVIOUS
  <1>3. ASSUME NEW y \in R, NEW z \in FeatureChildren(c, y) PROVE z \in R
    <2>1. y \in Node /\ Twin[y] \in S /\ z \in Feature
      BY TwinIs DEF FeatureChildren
    <2>2. Twin[z] \in FeatureChildren(m, Twin[y])
      BY <1>3, <2>1, CopyOfChildren
    <2> QED
      BY <2>1, <2>2
  <1>4. x \in R
    <2> HIDE DEF R
    <2> QED
      BY <1>2, <1>3 DEF Subtree
  <1> QED
    BY <1>4

\* The features below a copied feature are copies of those below the feature.
LEMMA CopyOfSubtree ==
  ASSUME NEW m \in Model, NEW c \in Model, IsCopy(m, c), IsTree(m), NEW f \in Feature
  PROVE  \A x \in Feature : x \in Subtree(c, f) <=> Twin[x] \in Subtree(m, Twin[f])
  <1>1. IsCopy(c, m) /\ IsTree(c)
    BY CopyIsMutual, CopyOfTree
  <1>2. ASSUME NEW x \in Feature, Twin[x] \in Subtree(m, Twin[f]) PROVE x \in Subtree(c, f)
    <2>1. Twin[f] \in Feature /\ Twin[Twin[f]] = f /\ Twin[Twin[x]] = x
      BY TwinIs
    <2>2. Twin[Twin[x]] \in Subtree(c, Twin[Twin[f]])
      BY <1>1, <1>2, <2>1, TwinsBelow
    <2> QED
      BY <2>1, <2>2
  <1> QED
    BY <1>2, TwinsBelow

-------------------------------------------------------------------------------
(* The modifications, made of the model and of its copy *)

\* Both return the same code, and what is left is a copy again.
Alike(outcomes, twins) == \A o \in outcomes, p \in twins : IsCopy(o.model, p.model) /\ o.code = p.code

\* Calls that fail alike leave a copy a copy.
LEMMA FailuresAreAlike ==
  ASSUME NEW m, NEW c, IsCopy(m, c), NEW code
  PROVE  Alike(Fails(m, code), Fails(c, code))
  BY DEF Alike, Fails, Outcome

\* So do calls that succeed without a change.
LEMMA SuccessesAreAlike ==
  ASSUME NEW m, NEW c, IsCopy(m, c)
  PROVE  Alike(Succeeds(m), Succeeds(c))
  BY DEF Alike, Succeeds, Outcome

\* A pair of twins is a pair in the copy.
LEMMA CopyOfPair ==
  ASSUME NEW x \in Node, NEW y \in Node, NEW p \in Node, NEW q \in Node
  PROVE  <<x, y>> = <<p, q>> <=> <<Twin[x], Twin[y]>> = <<Twin[p], Twin[q]>>
  <1>1. (Twin[x] = Twin[p] <=> x = p) /\ (Twin[y] = Twin[q] <=> y = q)
    BY TwinIs
  <1> QED
    BY <1>1

\* What the modifications do to locations and to what the model is called.
LEMMA InsertData ==
  ASSUME NEW m \in Model, NEW f, NEW p
  PROVE  /\ Insert(m, f, p).locations = m.locations /\ Insert(m, f, p).info = m.info
         /\ Insert(m, f, p).output = m.output
  BY DEF Insert, Model

\* Inserting twins below twins leaves a copy a copy.
LEMMA InsertsAreAlike ==
  ASSUME NEW m \in Model, NEW c \in Model, IsCopy(m, c), NEW f \in Feature, NEW p \in Node
  PROVE  IsCopy(Insert(m, Twin[f], Twin[p]), Insert(c, f, p))
  <1> DEFINE m2 == Insert(m, Twin[f], Twin[p])
             c2 == Insert(c, f, p)
  <1>1. f \in Node /\ Twin[f] \in Feature /\ Twin[f] \in Node /\ Twin[p] \in Node
    BY TwinIs
  <1>2. /\ m2.features = m.features \cup {Twin[f]} /\ m2.relationships = m.relationships
        /\ m2.root = m.root /\ m2.parent = [m.parent EXCEPT ![Twin[f]] = Twin[p]]
        /\ m2.edges = m.edges \cup {<<Twin[p], Twin[f]>>}
        /\ m2.constraints = m.constraints /\ m2.bound = m.bound
        /\ m2.locations = m.locations /\ m2.output = m.output /\ m2.info = m.info
    BY <1>1, InsertType, InsertData
  <1>3. /\ c2.features = c.features \cup {f} /\ c2.relationships = c.relationships
        /\ c2.root = c.root /\ c2.parent = [c.parent EXCEPT ![f] = p]
        /\ c2.edges = c.edges \cup {<<p, f>>}
        /\ c2.constraints = c.constraints /\ c2.bound = c.bound
        /\ c2.locations = c.locations /\ c2.output = c.output /\ c2.info = c.info
    BY <1>1, InsertType, InsertData
  <1> HIDE DEF m2, c2
  <1>4. \A x \in Feature : x \in c2.features <=> Twin[x] \in m2.features
    BY <1>2, <1>3, TwinIs DEF IsCopy
  <1>5. \A x \in Node : c2.parent[x] = IF m2.parent[Twin[x]] = Nil THEN Nil ELSE Twin[m2.parent[Twin[x]]]
    <2>1. ASSUME NEW x \in Node
          PROVE  c2.parent[x] = IF m2.parent[Twin[x]] = Nil THEN Nil ELSE Twin[m2.parent[Twin[x]]]
      <3>1. /\ m.parent \in [Node -> Node \cup {Nil}] /\ c.parent \in [Node -> Node \cup {Nil}]
            /\ Twin[x] \in Node /\ (Twin[x] = Twin[f] <=> x = f)
            /\ Twin[Twin[p]] = p /\ Twin[p] # Nil
        BY <1>1, ModelFields, TwinIs
      <3>2. c2.parent[x] = IF x = f THEN p ELSE c.parent[x]
        BY <1>3, <3>1
      <3>3. m2.parent[Twin[x]] = IF x = f THEN Twin[p] ELSE m.parent[Twin[x]]
        BY <1>2, <3>1
      <3> QED
        BY <3>1, <3>2, <3>3 DEF IsCopy
    <2> QED
      BY <2>1
  <1>6. ASSUME NEW x \in Node, NEW y \in Node
        PROVE  <<x, y>> \in c2.edges <=> <<Twin[x], Twin[y]>> \in m2.edges
    <2>1. <<x, y>> = <<p, f>> <=> <<Twin[x], Twin[y]>> = <<Twin[p], Twin[f]>>
      BY <1>1, CopyOfPair
    <2>2. <<x, y>> \in c.edges <=> <<Twin[x], Twin[y]>> \in m.edges
      BY DEF IsCopy
    <2> QED
      BY <1>2, <1>3, <2>1, <2>2
  <1>7. /\ \A r \in Relationship : r \in c2.relationships <=> Twin[r] \in m2.relationships
        /\ c2.root = IF m2.root = Nil THEN Nil ELSE Twin[m2.root]
        /\ \A k \in Constraint : k \in c2.constraints <=> Twin[k] \in m2.constraints
        /\ \A k \in Constraint, g \in Feature : <<k, g>> \in c2.bound <=> <<Twin[k], Twin[g]>> \in m2.bound
        /\ \A g \in Feature : c2.locations[g] = m2.locations[Twin[g]]
        /\ m2.output = NoOutput /\ c2.output = NoOutput /\ c2.info = m2.info
    BY <1>2, <1>3 DEF IsCopy
  <1>8. IsCopy(m2, c2)
    BY <1>4, <1>5, <1>6, <1>7 DEF IsCopy
  <1> QED
    BY <1>8 DEF m2, c2

\* addFeature: below the twin of the parent, or below the root.
LEMMA AddFeaturesAreAlike ==
  ASSUME NEW m \in Model, NEW c \in Model, IsCopy(m, c), IsTree(m), NEW f \in Feature,
         NEW p \in c.features \cup {Nil}, NEW q, q = IF p = Nil THEN Nil ELSE Twin[p]
  PROVE  Alike(AddFeature(m, Twin[f], q, Live(m)), AddFeature(c, f, p, Live(c)))
  <1>1. /\ NameOf[Twin[f]] = NameOf[f]
        /\ GetFeature(m, NameOf[f]) = Nil <=> GetFeature(c, NameOf[f]) = Nil
    BY TwinIs, CopyOfLookup
  <1>2. /\ IsTree(c) /\ m.root \in m.features /\ c.root \in c.features
        /\ c.features \subseteq Feature /\ Feature \subseteq Node /\ Nil \notin Node
        /\ m.root \in Node /\ c.root = Twin[m.root] /\ m.root = Twin[c.root]
        /\ m.features \subseteq Live(m) /\ c.features \subseteq Live(c)
    <2>1. IsTree(c) /\ m.root \in m.features /\ c.root \in c.features
      BY CopyOfTree DEF IsTree, Rooted
    <2>2. m.features \subseteq Feature /\ c.features \subseteq Feature
      BY ModelFields
    <2> QED
      BY <2>1, <2>2, TwinIs DEF IsCopy, Live
  <1> DEFINE p2 == IF p # Nil THEN p ELSE c.root
             q2 == IF q # Nil THEN q ELSE m.root
  <1>3. /\ p2 \in c.features /\ p2 \in Node /\ q2 = Twin[p2] /\ q2 \in m.features /\ q2 # Nil /\ p2 # Nil
    <2>1. CASE p = Nil
      BY <1>2, <2>1
    <2>2. CASE p # Nil
      <3>1. p \in c.features /\ p \in Node /\ Twin[p] # Nil /\ Twin[p] \in m.features
        BY <1>2, <2>2, TwinIs, CopyNodes
      <3> QED
        BY <2>2, <3>1
    <2> QED
      BY <2>1, <2>2
  <1>4. CASE GetFeature(c, NameOf[f]) # Nil
    <2>1. /\ AddFeature(m, Twin[f], q, Live(m)) = Fails(m, "ALREADY_PRESENT")
          /\ AddFeature(c, f, p, Live(c)) = Fails(c, "ALREADY_PRESENT")
      BY <1>1, <1>4 DEF AddFeature
    <2> QED
      BY <2>1, FailuresAreAlike
  <1>5. CASE GetFeature(c, NameOf[f]) = Nil
    <2>1. AddFeature(m, Twin[f], q, Live(m)) = Succeeds(Insert(m, Twin[f], q2))
      BY <1>1, <1>2, <1>3, <1>5 DEF AddFeature
    <2>2. AddFeature(c, f, p, Live(c)) = Succeeds(Insert(c, f, p2))
      BY <1>1, <1>2, <1>3, <1>5 DEF AddFeature
    <2> HIDE DEF p2, q2
    <2>3. IsCopy(Insert(m, Twin[f], q2), Insert(c, f, p2))
      BY <1>3, InsertsAreAlike
    <2> QED
      BY <2>1, <2>2, <2>3, SuccessesAreAlike
  <1> QED
    BY <1>4, <1>5

\* The locations of a model after some of its nodes are destroyed
Left(m, N) == [f \in Feature |-> IF f \in N THEN [l \in Location |-> 0] ELSE m.locations[f]]

\* Taking nodes out of the tree takes their locations, and changes no other data.
LEMMA UnlinkedData ==
  ASSUME NEW m \in Model, NEW f \in Feature, NEW N
  PROVE  /\ Unlinked(m, f, N).locations = Left(m, N) /\ Unlinked(m, f, N).info = m.info
         /\ m.output = NoOutput => Unlinked(m, f, N).output = NoOutput
  <1> DEFINE n == [m EXCEPT !.edges = @ \ {<<m.parent[f], f>>}, !.root = IF @ = f THEN Nil ELSE @]
  <1>1. n.locations = m.locations /\ n.info = m.info /\ n.output = m.output
    BY DEF Model
  <1>2. DOMAIN n = {"features", "relationships", "root", "parent", "edges", "constraints", "bound",
                    "locations", "output", "info"}
    BY DEF Model
  <1>3. Unlinked(m, f, N) = Destroy(n, N)
    BY DEF Unlinked
  <1> HIDE DEF n
  <1>4. /\ Destroy(n, N).locations = Left(n, N) /\ Destroy(n, N).info = n.info
        /\ m.output = NoOutput => Destroy(n, N).output = NoOutput
    BY <1>1, <1>2 DEF Destroy, Left, NoOutput
  <1> QED
    BY <1>1, <1>3, <1>4 DEF Left

\* Freeing features frees their locations, and changes no other data.
LEMMA PrunedData ==
  ASSUME NEW m \in Model, NEW D \in SUBSET Feature
  PROVE  /\ Pruned(m, D).locations = Left(m, Erased(m, D))
         /\ Pruned(m, D).info = m.info
         /\ m.output = NoOutput => Pruned(m, D).output = NoOutput
  <1> DEFINE n == [m EXCEPT !.edges = {e \in @ : /\ e[2] \in D => e[1] # m.parent[e[2]]
                                                 /\ ~(e[1] \in D /\ e[2] \in GroupsOf(m, D))},
                            !.root = IF @ \in D THEN Nil ELSE @]
             N == Erased(m, D) \cup GroupsOf(m, D)
  <1>1. n.locations = m.locations /\ n.info = m.info /\ n.output = m.output
    BY DEF Model
  <1>2. DOMAIN n = {"features", "relationships", "root", "parent", "edges", "constraints", "bound",
                    "locations", "output", "info"}
    BY DEF Model
  <1>3. Pruned(m, D) = Destroy(n, N)
    BY DEF Pruned
  <1>4. \A f \in Feature : f \in N <=> f \in Erased(m, D)
    BY TwinIs DEF GroupsOf
  <1> HIDE DEF n, N
  <1>5. /\ Destroy(n, N).locations = Left(n, N) /\ Destroy(n, N).info = n.info
        /\ m.output = NoOutput => Destroy(n, N).output = NoOutput
    BY <1>1, <1>2 DEF Destroy, Left, NoOutput
  <1>6. Left(n, N) = Left(m, Erased(m, D))
    BY <1>1, <1>4 DEF Left
  <1> QED
    BY <1>1, <1>3, <1>5, <1>6

\* When twins are removed, what is left is a copy.
LEMMA RemovalsAreAlike ==
  ASSUME NEW m \in Model, NEW c \in Model, IsCopy(m, c),
         NEW N \in SUBSET Node, NEW M \in SUBSET Node, \A x \in Node : x \in M <=> Twin[x] \in N,
         NEW m2, NEW c2,
         m2.features = m.features \ N, m2.relationships = m.relationships \ N, m2.root = m.root,
         m2.parent = [n \in Node |-> IF n \in N THEN Nil ELSE m.parent[n]],
         m2.edges = {e \in m.edges : e[2] \notin N},
         m2.constraints = m.constraints, m2.bound = m.bound,
         m2.locations = Left(m, N), m2.output = NoOutput, m2.info = m.info,
         c2.features = c.features \ M, c2.relationships = c.relationships \ M, c2.root = c.root,
         c2.parent = [n \in Node |-> IF n \in M THEN Nil ELSE c.parent[n]],
         c2.edges = {e \in c.edges : e[2] \notin M},
         c2.constraints = c.constraints, c2.bound = c.bound,
         c2.locations = Left(c, M), c2.output = NoOutput, c2.info = c.info
  PROVE  IsCopy(m2, c2)
  <1>1. \A x \in Feature : x \in c2.features <=> Twin[x] \in m2.features
    BY TwinIs DEF IsCopy
  <1>2. \A x \in Relationship : x \in c2.relationships <=> Twin[x] \in m2.relationships
    BY TwinIs DEF IsCopy
  <1>3. \A x \in Node : c2.parent[x] = IF m2.parent[Twin[x]] = Nil THEN Nil ELSE Twin[m2.parent[Twin[x]]]
    BY TwinIs DEF IsCopy
  <1>4. \A x, y \in Node : <<x, y>> \in c2.edges <=> <<Twin[x], Twin[y]>> \in m2.edges
    BY TwinIs DEF IsCopy
  <1>5. \A x \in Feature : c2.locations[x] = m2.locations[Twin[x]]
    BY TwinIs DEF IsCopy, Left
  <1> QED
    BY <1>1, <1>2, <1>3, <1>4, <1>5 DEF IsCopy

\* removeFeature, with recursion and without
LEMMA RemoveFeaturesAreAlike ==
  ASSUME NEW m \in Model, NEW c \in Model, IsCopy(m, c), IsTree(m),
         NEW ref \in Feature \cup Name, NEW g \in Feature, Resolve(m, ref) = Twin[g],
         Twin[g] \in m.features \ {m.root}, NEW recursive \in BOOLEAN
  PROVE  Alike(RemoveFeature(m, ref, recursive, Live(m)), RemoveFeature(c, g, recursive, Live(c)))
  <1> DEFINE f == Twin[g]
  <1>1. /\ IsTree(c) /\ m.root \in m.features
        /\ f \in m.features /\ f # m.root /\ f \in Feature /\ f # Nil /\ f \in Node /\ g \in Node
        /\ g \in c.features /\ g # c.root /\ g # Nil
    <2>1. IsTree(c) /\ m.root \in m.features
      BY CopyOfTree DEF IsTree, Rooted
    <2>2. m.root # Nil /\ g \in Node
      BY <2>1, ModelFields, TwinIs
    <2>3. g \in c.features /\ g # c.root
      BY <2>2, CopyNodes
    <2> QED
      BY <2>1, <2>2, <2>3, TwinIs
  <1>2. Resolve(c, g) = g
    BY ConstantsAssumption DEF Resolve, Node
  <1>3. CASE recursive
    <2> DEFINE D == Subtree(m, f)
               N == D \cup {r \in Relationship : m.parent[r] \in D}
               E == Subtree(c, g)
               M == E \cup {r \in Relationship : c.parent[r] \in E}
    <2>1. RemoveFeature(m, ref, recursive, Live(m)) = Succeeds(Pruned(m, D))
      BY <1>1, <1>3, RemoveSubtreeIs DEF RemoveFeature, Live
    <2>2. RemoveFeature(c, g, recursive, Live(c)) = Succeeds(Pruned(c, E))
      BY <1>1, <1>2, <1>3, RemoveSubtreeIs DEF RemoveFeature, Live
    <2>3. /\ N \in SUBSET Node /\ D \subseteq m.features
          /\ Pruned(m, D).features = m.features \ N
          /\ Pruned(m, D).relationships = m.relationships \ N
          /\ Pruned(m, D).root = m.root
          /\ Pruned(m, D).parent = [n \in Node |-> IF n \in N THEN Nil ELSE m.parent[n]]
          /\ Pruned(m, D).edges = {e \in m.edges : e[2] \notin N}
          /\ Pruned(m, D).constraints = m.constraints
          /\ Pruned(m, D).bound = m.bound
      BY <1>1, PrunedIs
    <2>4. /\ M \in SUBSET Node /\ E \subseteq c.features
          /\ Pruned(c, E).features = c.features \ M
          /\ Pruned(c, E).relationships = c.relationships \ M
          /\ Pruned(c, E).root = c.root
          /\ Pruned(c, E).parent = [n \in Node |-> IF n \in M THEN Nil ELSE c.parent[n]]
          /\ Pruned(c, E).edges = {e \in c.edges : e[2] \notin M}
          /\ Pruned(c, E).constraints = c.constraints
          /\ Pruned(c, E).bound = c.bound
      BY <1>1, PrunedIs
    <2>5. D \in SUBSET Feature /\ E \in SUBSET Feature
      BY DEF Subtree
    <2>6. \A x \in Feature : x \in E <=> Twin[x] \in D
      BY CopyOfSubtree
    <2>7. \A x \in Node : x \in M <=> Twin[x] \in N
      <3> HIDE DEF D, E
      <3>1. ASSUME NEW x \in Feature PROVE x \in M <=> Twin[x] \in N
        BY <2>6, TwinIs
      <3>2. ASSUME NEW x \in Relationship PROVE x \in M <=> Twin[x] \in N
        <4>1. x \in Node /\ x \notin Feature /\ Twin[x] \in Relationship /\ Twin[x] \notin Feature
          BY TwinIs
        <4>2. c.parent[x] \in Feature <=> m.parent[Twin[x]] \in Feature
          BY <4>1, CopyNodes
        <4>3. c.parent[x] \in Feature => Twin[c.parent[x]] = m.parent[Twin[x]]
          BY <4>1, <4>2, TwinIs, CopyNodes
        <4> QED
          BY <2>5, <2>6, <4>1, <4>2, <4>3
      <3> QED
        BY <3>1, <3>2, TwinIs
    <2>8. /\ Pruned(m, D).locations = Left(m, N) /\ Pruned(m, D).info = m.info
          /\ Pruned(c, E).locations = Left(c, M) /\ Pruned(c, E).info = c.info
          /\ Pruned(m, D).output = NoOutput /\ Pruned(c, E).output = NoOutput
      <3>0. m.output = NoOutput /\ c.output = NoOutput
        BY DEF IsCopy
      <3>1. /\ Pruned(m, D).locations = Left(m, D) /\ Pruned(m, D).info = m.info
            /\ Pruned(c, E).locations = Left(c, E) /\ Pruned(c, E).info = c.info
            /\ Pruned(m, D).output = NoOutput /\ Pruned(c, E).output = NoOutput
        BY <1>1, <2>3, <2>4, <2>5, <3>0, PrunedData, ErasedIs
      <3>2. \A x \in Feature : (x \in N <=> x \in D) /\ (x \in M <=> x \in E)
        BY TwinIs
      <3> HIDE DEF D, E, N, M
      <3>3. Left(m, N) = Left(m, D) /\ Left(c, M) = Left(c, E)
        BY <3>2 DEF Left
      <3> QED
        BY <3>1, <3>3
    <2> HIDE DEF D, E, N, M
    <2>9. IsCopy(Pruned(m, D), Pruned(c, E))
      BY <2>3, <2>4, <2>7, <2>8, RemovalsAreAlike
    <2> QED
      BY <2>1, <2>2, <2>9, SuccessesAreAlike
  <1>4. CASE ~recursive
    <2> DEFINE N == {f} \cup {r \in Relationship : m.parent[r] = f}
               M == {g} \cup {r \in Relationship : c.parent[r] = g}
    <2>1. /\ N \in SUBSET Node
          /\ RemoveFeature(m, ref, recursive, Live(m)) =
               IF HasNoFeatures(m, f) THEN Succeeds(Unlinked(m, f, N)) ELSE Fails(m, "NON_LEAF_NODE")
      BY <1>1, <1>4, RemoveLeafIs DEF RemoveFeature, Live
    <2>2. /\ M \in SUBSET Node
          /\ RemoveFeature(c, g, recursive, Live(c)) =
               IF HasNoFeatures(c, g) THEN Succeeds(Unlinked(c, g, M)) ELSE Fails(c, "NON_LEAF_NODE")
      BY <1>1, <1>2, <1>4, RemoveLeafIs DEF RemoveFeature, Live
    <2>3. HasNoFeatures(c, g) <=> HasNoFeatures(m, f)
      BY <1>1, CopyOfChildren DEF HasNoFeatures
    <2>4. CASE ~HasNoFeatures(m, f)
      BY <2>1, <2>2, <2>3, <2>4, FailuresAreAlike
    <2>5. CASE HasNoFeatures(m, f)
      <3>1. /\ Unlinked(m, f, N).features = m.features \ N
            /\ Unlinked(m, f, N).relationships = m.relationships \ N
            /\ Unlinked(m, f, N).root = m.root
            /\ Unlinked(m, f, N).parent = [n \in Node |-> IF n \in N THEN Nil ELSE m.parent[n]]
            /\ Unlinked(m, f, N).edges = {e \in m.edges : e[2] \notin N}
            /\ Unlinked(m, f, N).constraints = m.constraints
            /\ Unlinked(m, f, N).bound = m.bound
        BY <1>1, <2>1, <2>5, UnlinkedIs DEF HasNoFeatures
      <3>2. /\ Unlinked(c, g, M).features = c.features \ M
            /\ Unlinked(c, g, M).relationships = c.relationships \ M
            /\ Unlinked(c, g, M).root = c.root
            /\ Unlinked(c, g, M).parent = [n \in Node |-> IF n \in M THEN Nil ELSE c.parent[n]]
            /\ Unlinked(c, g, M).edges = {e \in c.edges : e[2] \notin M}
            /\ Unlinked(c, g, M).constraints = c.constraints
            /\ Unlinked(c, g, M).bound = c.bound
        BY <1>1, <2>2, <2>3, <2>5, UnlinkedIs DEF HasNoFeatures
      <3>3. /\ Unlinked(m, f, N).locations = Left(m, N) /\ Unlinked(m, f, N).info = m.info
            /\ Unlinked(c, g, M).locations = Left(c, M) /\ Unlinked(c, g, M).info = c.info
            /\ Unlinked(m, f, N).output = NoOutput /\ Unlinked(c, g, M).output = NoOutput
        BY <1>1, UnlinkedData DEF IsCopy
      <3>4. \A x \in Node : x \in M <=> Twin[x] \in N
        <4>1. ASSUME NEW x \in Node PROVE x \in M <=> Twin[x] \in N
          <5>1. c.parent[x] = g <=> m.parent[Twin[x]] = f
            BY <1>1, CopyNodes
          <5>2. (x = g <=> Twin[x] = f) /\ (x \in Relationship <=> Twin[x] \in Relationship)
            BY <1>1, TwinIs
          <5> QED
            BY <5>1, <5>2
        <4> QED
          BY <4>1
      <3> HIDE DEF M, N, f
      <3>5. IsCopy(Unlinked(m, f, N), Unlinked(c, g, M))
        BY <2>1, <2>2, <3>1, <3>2, <3>3, <3>4, RemovalsAreAlike
      <3> QED
        BY <2>1, <2>2, <2>3, <2>5, <3>5, SuccessesAreAlike
    <2> QED
      BY <2>4, <2>5
  <1> QED
    BY <1>3, <1>4

\* In trees the parents tell the edges.
LEMMA EdgesFollow ==
  ASSUME NEW m \in Model, NEW c \in Model, EdgesMatchParents(m), EdgesMatchParents(c),
         \A x \in Node : c.parent[x] = IF m.parent[Twin[x]] = Nil THEN Nil ELSE Twin[m.parent[Twin[x]]],
         NEW x \in Node, NEW y \in Node
  PROVE  <<x, y>> \in c.edges <=> <<Twin[x], Twin[y]>> \in m.edges
  <1>1. Twin[x] \in Node /\ Twin[y] \in Node /\ m.parent[Twin[y]] \in Node \cup {Nil} /\ Nil \notin Node
    BY ModelFields, TwinIs
  <1>2. <<x, y>> \in c.edges <=> c.parent[y] = x
    BY EdgeIsParent
  <1>3. <<Twin[x], Twin[y]>> \in m.edges <=> m.parent[Twin[y]] = Twin[x]
    BY <1>1, EdgeIsParent
  <1>4. c.parent[y] = x <=> m.parent[Twin[y]] = Twin[x]
    BY <1>1, TwinIs
  <1> QED
    BY <1>2, <1>3, <1>4

\* Inserting a group changes no data.
LEMMA GroupedData ==
  ASSUME NEW m \in Model, NEW r, NEW p
  PROVE  /\ Grouped(m, r, p).locations = m.locations /\ Grouped(m, r, p).info = m.info
         /\ Grouped(m, r, p).output = m.output
  BY DEF Grouped, Model

\* Inserting twin groups below twin features leaves a copy a copy.
LEMMA GroupsAreAlike ==
  ASSUME NEW m \in Model, NEW c \in Model, IsCopy(m, c), WellFormed(m),
         NEW r \in Relationship, r \notin Live(c), NEW g \in c.features, OwnGroups(m, Twin[g]) = {}
  PROVE  IsCopy(Grouped(m, Twin[r], Twin[g]), Grouped(c, r, g))
  <1> DEFINE s == Twin[r]
             f == Twin[g]
             m2 == Grouped(m, s, f)
             c2 == Grouped(c, r, g)
             in == FeatureChildren(m, f)
             out == FeatureChildren(c, g)
  <1>1. /\ WellFormed(c) /\ IsTree(m) /\ IsTree(c) /\ EdgesMatchParents(m) /\ EdgesMatchParents(c)
        /\ r \in Node /\ s \in Relationship /\ s \in Node /\ s \notin Live(m)
        /\ g \in Feature /\ g \in Node /\ f \in m.features /\ f \in Feature /\ f \in Node
    <2>1. WellFormed(c) /\ IsTree(m) /\ IsTree(c)
      BY CopyOfWellFormed, WellFormedIsTree
    <2>2. r \in Node /\ s \in Relationship /\ s \in Node /\ s \notin Live(m)
      BY TwinIs, CopyNodes
    <2>3. g \in Feature /\ g \in Node
      BY ModelFields, TwinIs
    <2>4. f \in m.features /\ f \in Feature /\ f \in Node
      BY <2>3, CopyNodes, TwinIs
    <2> QED
      BY <2>1, <2>2, <2>3, <2>4 DEF IsTree
  <1>2. OwnGroups(c, g) = {}
    <2>1. OwnGroups(m, f) = {q \in Relationship : m.parent[q] = f}
      BY <1>1, OwnGroupsAre DEF OwnGroups
    <2>2. OwnGroups(c, g) = {q \in Relationship : c.parent[q] = g}
      BY <1>1, OwnGroupsAre DEF OwnGroups
    <2>3. ASSUME NEW q \in Relationship, c.parent[q] = g PROVE FALSE
      <3>1. q \in Node /\ Twin[q] \in Relationship
        BY TwinIs
      <3>2. m.parent[Twin[q]] = f
        BY <1>1, <2>3, <3>1, CopyNodes
      <3> QED
        BY <2>1, <3>1, <3>2
    <2> QED
      BY <2>2, <2>3
  <1>3. /\ m2 \in Model /\ m2.features = m.features /\ m2.relationships = m.relationships \cup {s}
        /\ m2.root = m.root
        /\ m2.parent = [n \in Node |-> IF n = s THEN f ELSE IF n \in in THEN s ELSE m.parent[n]]
        /\ m2.constraints = m.constraints /\ m2.bound = m.bound
        /\ m2.locations = m.locations /\ m2.output = m.output /\ m2.info = m.info
    <2> HIDE DEF f, s
    <2> QED
      BY <1>1, GroupedType, GroupedData
  <1>4. /\ c2 \in Model /\ c2.features = c.features /\ c2.relationships = c.relationships \cup {r}
        /\ c2.root = c.root
        /\ c2.parent = [n \in Node |-> IF n = r THEN g ELSE IF n \in out THEN r ELSE c.parent[n]]
        /\ c2.constraints = c.constraints /\ c2.bound = c.bound
        /\ c2.locations = c.locations /\ c2.output = c.output /\ c2.info = c.info
    BY <1>1, GroupedType, GroupedData
  <1>5. EdgesMatchParents(m2) /\ EdgesMatchParents(c2)
    BY <1>1, <1>2, GroupedKeeps DEF WellFormed
  <1>6. \A x \in Node : x \in out <=> Twin[x] \in in
    <2>1. /\ \A x \in Feature : x \in out <=> Twin[x] \in in
          /\ out \subseteq Feature /\ in \subseteq Feature
      BY <1>1, CopyOfChildren
    <2> QED
      BY <2>1, TwinIs
  <1> HIDE DEF m2, c2, in, out
  <1>7. ASSUME NEW x \in Node
        PROVE  c2.parent[x] = IF m2.parent[Twin[x]] = Nil THEN Nil ELSE Twin[m2.parent[Twin[x]]]
    <2>1. Twin[x] \in Node /\ (Twin[x] = s <=> x = r) /\ f # Nil /\ s # Nil /\ Twin[f] = g /\ Twin[s] = r
      BY <1>1, TwinIs
    <2>2. c2.parent[x] = IF x = r THEN g ELSE IF x \in out THEN r ELSE c.parent[x]
      BY <1>4
    <2>3. m2.parent[Twin[x]] = IF Twin[x] = s THEN f ELSE IF Twin[x] \in in THEN s ELSE m.parent[Twin[x]]
      BY <1>3, <2>1
    <2> QED
      BY <1>6, <2>1, <2>2, <2>3 DEF IsCopy
  <1>8. \A x, y \in Node : <<x, y>> \in c2.edges <=> <<Twin[x], Twin[y]>> \in m2.edges
    BY <1>3, <1>4, <1>5, <1>7, EdgesFollow
  <1>9. \A q \in Relationship : q \in c2.relationships <=> Twin[q] \in m2.relationships
    BY <1>1, <1>3, <1>4, TwinIs DEF IsCopy
  <1>10. IsCopy(m2, c2)
    BY <1>3, <1>4, <1>7, <1>8, <1>9 DEF IsCopy
  <1> QED
    BY <1>10 DEF m2, c2

\* addRelationship
LEMMA AddRelationshipsAreAlike ==
  ASSUME NEW m \in Model, NEW c \in Model, IsCopy(m, c), WellFormed(m),
         NEW r \in Relationship, r \notin Live(c),
         NEW ref \in Feature \cup Name, MayGroup(m, ref),
         NEW g \in Feature, Resolve(m, ref) = Twin[g]
  PROVE  Alike(AddRelationship(m, Twin[r], ref, Live(m)), AddRelationship(c, r, g, Live(c)))
  <1>1. /\ Twin[g] \in m.features /\ OwnGroups(m, Twin[g]) = {}
        /\ Twin[g] \in Node /\ g \in Node /\ g \in c.features
        /\ Resolve(c, g) = g
    BY TwinIs, CopyNodes, ConstantsAssumption DEF MayGroup, Finds, Resolve
  <1>2. WellFormed(c)
    BY CopyOfWellFormed
  <1>3. WalkIsSafe(m, Twin[g], Relationship, Live(m)) /\ WalkIsSafe(c, g, Relationship, Live(c))
    BY <1>1, <1>2, RelationshipWalkIsSafe DEF WellFormed
  <1>4. /\ AddRelationship(m, Twin[r], ref, Live(m)) = Succeeds(Grouped(m, Twin[r], Twin[g]))
        /\ AddRelationship(c, r, g, Live(c)) = Succeeds(Grouped(c, r, g))
    BY <1>1, <1>3 DEF AddRelationship, Live
  <1>5. IsCopy(Grouped(m, Twin[r], Twin[g]), Grouped(c, r, g))
    BY <1>1, GroupsAreAlike
  <1> QED
    BY <1>4, <1>5, SuccessesAreAlike

\* Removing a group changes no data.
LEMMA UngroupedData ==
  ASSUME NEW m \in Model, NEW r \in Relationship, NEW p
  PROVE  /\ Ungrouped(m, p, r).locations = m.locations /\ Ungrouped(m, p, r).info = m.info
         /\ m.output = NoOutput => Ungrouped(m, p, r).output = NoOutput
  <1> DEFINE in == FeatureChildren(m, r)
             n == [m EXCEPT !.parent = [x \in Node |-> IF x \in in THEN p ELSE @[x]],
                            !.edges = (@ \ (({r} \X in) \cup {<<p, r>>})) \cup ({p} \X in)]
  <1>1. n.locations = m.locations /\ n.info = m.info /\ n.output = m.output
    BY DEF Model
  <1>2. DOMAIN n = {"features", "relationships", "root", "parent", "edges", "constraints", "bound",
                    "locations", "output", "info"}
    BY DEF Model
  <1>3. Ungrouped(m, p, r) = Destroy(n, {r})
    BY DEF Ungrouped
  <1> HIDE DEF n
  <1>4. /\ Destroy(n, {r}).locations = Left(n, {r}) /\ Destroy(n, {r}).info = n.info
        /\ m.output = NoOutput => Destroy(n, {r}).output = NoOutput
    BY <1>1, <1>2 DEF Destroy, Left, NoOutput
  <1>5. Left(n, {r}) = m.locations
    <2>1. r \notin Feature /\ m.locations \in [Feature -> [Location -> Nat]]
      BY ModelFields, TwinIs
    <2> QED
      BY <1>1, <2>1 DEF Left
  <1> QED
    BY <1>1, <1>3, <1>4, <1>5

\* Removing twin groups leaves a copy a copy.
LEMMA UngroupsAreAlike ==
  ASSUME NEW m \in Model, NEW c \in Model, IsCopy(m, c), WellFormed(m),
         NEW g \in c.features, NEW r \in Relationship, c.parent[r] = g
  PROVE  IsCopy(Ungrouped(m, Twin[g], Twin[r]), Ungrouped(c, g, r))
  <1> DEFINE s == Twin[r]
             f == Twin[g]
             m2 == Ungrouped(m, f, s)
             c2 == Ungrouped(c, g, r)
             in == FeatureChildren(m, s)
             out == FeatureChildren(c, r)
  <1>1. /\ WellFormed(c) /\ IsTree(m) /\ r \in Node /\ s \in Relationship /\ s \in Node
        /\ g \in Feature /\ g \in Node /\ f \in m.features /\ f \in Feature /\ f \in Node
        /\ r \notin Feature /\ s \notin Feature /\ m.parent[s] = f
    <2>1. WellFormed(c) /\ IsTree(m)
      BY CopyOfWellFormed, WellFormedIsTree
    <2>2. r \in Node /\ s \in Relationship /\ s \in Node /\ r \notin Feature /\ s \notin Feature
      BY TwinIs
    <2>3. g \in Feature /\ g \in Node
      BY ModelFields, TwinIs
    <2>4. f \in m.features /\ f \in Feature /\ f \in Node /\ m.parent[s] = f
      BY <2>2, <2>3, CopyNodes, TwinIs
    <2> QED
      BY <2>1, <2>2, <2>3, <2>4
  <1>2. /\ m2 \in Model /\ m2.features = m.features \ {s} /\ m2.relationships = m.relationships \ {s}
        /\ m2.root = m.root
        /\ m2.parent = [n \in Node |-> IF n = s THEN Nil ELSE IF n \in in THEN f ELSE m.parent[n]]
        /\ m2.constraints = m.constraints /\ m2.bound = m.bound
        /\ m2.locations = m.locations /\ m2.output = NoOutput /\ m2.info = m.info
    <2> HIDE DEF f, s
    <2> QED
      BY <1>1, UngroupedType, UngroupedData DEF IsCopy
  <1>3. /\ c2 \in Model /\ c2.features = c.features \ {r} /\ c2.relationships = c.relationships \ {r}
        /\ c2.root = c.root
        /\ c2.parent = [n \in Node |-> IF n = r THEN Nil ELSE IF n \in out THEN g ELSE c.parent[n]]
        /\ c2.constraints = c.constraints /\ c2.bound = c.bound
        /\ c2.locations = c.locations /\ c2.output = NoOutput /\ c2.info = c.info
    BY <1>1, UngroupedType, UngroupedData DEF IsCopy
  <1>4. EdgesMatchParents(m2) /\ EdgesMatchParents(c2)
    BY <1>1, UngroupedKeeps DEF WellFormed
  <1>5. \A x \in Node : x \in out <=> Twin[x] \in in
    <2>1. /\ \A x \in Feature : x \in out <=> Twin[x] \in in
          /\ out \subseteq Feature /\ in \subseteq Feature
      BY <1>1, CopyOfChildren
    <2> QED
      BY <2>1, TwinIs
  <1> HIDE DEF m2, c2, in, out
  <1>6. ASSUME NEW x \in Node
        PROVE  c2.parent[x] = IF m2.parent[Twin[x]] = Nil THEN Nil ELSE Twin[m2.parent[Twin[x]]]
    <2>1. Twin[x] \in Node /\ (Twin[x] = s <=> x = r) /\ f # Nil /\ Twin[f] = g
      BY <1>1, TwinIs
    <2>2. c2.parent[x] = IF x = r THEN Nil ELSE IF x \in out THEN g ELSE c.parent[x]
      BY <1>3
    <2>3. m2.parent[Twin[x]] = IF Twin[x] = s THEN Nil ELSE IF Twin[x] \in in THEN f ELSE m.parent[Twin[x]]
      BY <1>2, <2>1
    <2> QED
      BY <1>5, <2>1, <2>2, <2>3 DEF IsCopy
  <1>7. \A x, y \in Node : <<x, y>> \in c2.edges <=> <<Twin[x], Twin[y]>> \in m2.edges
    BY <1>2, <1>3, <1>4, <1>6, EdgesFollow
  <1>8. \A q \in Relationship : q \in c2.relationships <=> Twin[q] \in m2.relationships
    BY <1>1, <1>2, <1>3, TwinIs DEF IsCopy
  <1>9. \A q \in Feature : q \in c2.features <=> Twin[q] \in m2.features
    BY <1>1, <1>2, <1>3, TwinIs DEF IsCopy
  <1>10. IsCopy(m2, c2)
    BY <1>2, <1>3, <1>6, <1>7, <1>8, <1>9 DEF IsCopy
  <1> QED
    BY <1>10 DEF m2, c2

\* What is met on the way down through features has twins on the twin way.
LEMMA TwinsThrough ==
  ASSUME NEW m \in Model, NEW c \in Model, IsCopy(m, c), EdgesMatchParents(m), NEW n \in Node,
         NEW x \in Through(c, n, Feature)
  PROVE  x \in Feature /\ Twin[x] \in Through(m, Twin[n], Feature)
  <1>1. x \in Feature /\ Twin[x] \in Feature
    BY TwinIs DEF Through
  <1> SUFFICES ASSUME NEW S \in SUBSET Feature, Targets(m, {Twin[n]} \cup S) \cap Feature \subseteq S
               PROVE  Twin[x] \in S
    BY <1>1 DEF Through
  <1> DEFINE R == {y \in Feature : Twin[y] \in S}
  <1>2. EdgesMatchParents(c)
    BY CopyOfEdges
  <1>3. {n} \cup R \in SUBSET Node /\ {Twin[n]} \cup S \in SUBSET Node /\ R \in SUBSET Feature
    BY TwinIs
  <1>4. ASSUME NEW y \in Targets(c, {n} \cup R) \cap Feature PROVE y \in R
    <2>1. y \in Node /\ y \in Feature /\ c.parent[y] \in {n} \cup R
      BY <1>2, <1>3, TargetsAreChildren
    <2>2. m.parent[Twin[y]] = Twin[c.parent[y]]
      BY <1>3, <2>1, CopyNodes
    <2>3. m.parent[Twin[y]] \in {Twin[n]} \cup S /\ Twin[y] \in Node /\ Twin[y] \in Feature
      BY <2>1, <2>2, TwinIs
    <2>4. Twin[y] \in Targets(m, {Twin[n]} \cup S)
      BY <1>3, <2>3, TargetsAreChildren
    <2> QED
      BY <2>1, <2>3, <2>4
  <1>5. x \in R
    <2>1. Targets(c, {n} \cup R) \cap Feature \subseteq R
      BY <1>4
    <2> HIDE DEF R
    <2> QED
      BY <1>3, <2>1 DEF Through
  <1> QED
    BY <1>5

\* removeRelationship: there is a group to take apart in both.
LEMMA CopyMayUngroup ==
  ASSUME NEW m \in Model, NEW c \in Model, IsCopy(m, c), WellFormed(m),
         NEW ref \in Feature \cup Name, MayUngroup(m, ref),
         NEW g \in Feature, Resolve(m, ref) = Twin[g], Twin[g] \in m.features
  PROVE  MayUngroup(c, g)
  <1> DEFINE f == Twin[g]
             above == {g} \cup Through(c, g, Feature)
             twins == {f} \cup Through(m, f, Feature)
  <1>1. /\ EdgesMatchParents(m) /\ EdgesMatchParents(c)
        /\ g \in Node /\ f \in Node /\ g \in c.features /\ Resolve(c, g) = g
    BY TwinIs, CopyNodes, CopyOfEdges, ConstantsAssumption DEF WellFormed, Resolve
  <1>2. /\ RelationshipChildren(m, f) # {} /\ RelationshipChildren(m, f) \subseteq OwnGroups(m, f)
    BY DEF MayUngroup, Finds
  <1>3. /\ OwnGroups(m, f) = {r \in Relationship : m.parent[r] \in {f}}
        /\ OwnGroups(c, g) = {r \in Relationship : c.parent[r] \in {g}}
    BY <1>1, OwnGroupsAre DEF OwnGroups
  <1>4. above \in SUBSET Node /\ twins \in SUBSET Node
    BY <1>1, TwinIs DEF Through
  <1>5. /\ RelationshipChildren(c, g) = {r \in Relationship : c.parent[r] \in above}
        /\ RelationshipChildren(m, f) = {r \in Relationship : m.parent[r] \in twins}
    BY <1>1, <1>4, OwnGroupsAre DEF RelationshipChildren, GroupsOf
  <1>6. RelationshipChildren(c, g) # {}
    <2>1. PICK r \in Relationship : m.parent[r] = f
      BY <1>2, <1>3
    <2>2. Twin[r] \in Relationship /\ Twin[r] \in Node /\ Twin[Twin[r]] = r
      BY TwinIs
    <2>3. c.parent[Twin[r]] = g
      BY <1>1, <2>1, <2>2, CopyNodes
    <2> QED
      BY <1>5, <2>2, <2>3
  <1>7. ASSUME NEW r \in RelationshipChildren(c, g) PROVE r \in OwnGroups(c, g)
    <2>1. r \in Relationship /\ r \in Node /\ c.parent[r] \in above /\ Twin[r] \in Relationship
      BY <1>5, <1>7, TwinIs
    <2>2. m.parent[Twin[r]] = Twin[c.parent[r]]
      BY <1>4, <2>1, CopyNodes
    <2>3. Twin[c.parent[r]] \in twins
      BY <1>1, <2>1, TwinsThrough
    <2>4. m.parent[Twin[r]] = f
      BY <1>2, <1>3, <1>5, <2>1, <2>2, <2>3
    <2>5. c.parent[r] = g
      BY <1>1, <2>1, <2>4, CopyNodes
    <2> QED
      BY <1>3, <2>1, <2>5
  <1> QED
    BY <1>1, <1>6, <1>7 DEF MayUngroup, PointsAt, Finds

\* removeRelationship does the same to a model and to its copy.
LEMMA RemoveRelationshipsAreAlike ==
  ASSUME NEW m \in Model, NEW c \in Model, IsCopy(m, c), WellFormed(m),
         NEW ref \in Feature \cup Name, MayUngroup(m, ref),
         NEW g \in Feature, Resolve(m, ref) = Twin[g], Twin[g] \in m.features
  PROVE  Alike(RemoveRelationship(m, ref, Live(m)), RemoveRelationship(c, g, Live(c)))
  <1>1. /\ WellFormed(c) /\ IsTree(m) /\ MayUngroup(c, g) /\ g \in Node /\ g \in c.features
        /\ Resolve(c, g) = g /\ g # Nil /\ Twin[g] # Nil /\ g \in Feature \cup Name
    BY CopyOfWellFormed, CopyMayUngroup, WellFormedIsTree, TwinIs, CopyNodes, ConstantsAssumption DEF Resolve
  <1>2. PICK s \in Relationship :
          /\ m.parent[s] = Twin[g]
          /\ RemoveRelationship(m, ref, Live(m)) = Succeeds(Ungrouped(m, Twin[g], s))
    BY <1>1, RemoveRelationshipIs
  <1>3. PICK r \in Relationship :
          /\ c.parent[r] = Resolve(c, g)
          /\ RemoveRelationship(c, g, Live(c)) = Succeeds(Ungrouped(c, Resolve(c, g), r))
    BY <1>1, RemoveRelationshipIs
  <1>4. s = Twin[r]
    <2>1. m.parent[Twin[r]] = Twin[g] /\ Twin[r] \in Relationship
      BY <1>1, <1>3, CopyNodes, TwinIs
    <2> QED
      BY <1>1, <1>2, <2>1, GroupWithParent
  <1>5. IsCopy(Ungrouped(m, Twin[g], Twin[r]), Ungrouped(c, g, r))
    BY <1>1, <1>3, UngroupsAreAlike
  <1> QED
    BY <1>1, <1>2, <1>3, <1>4, <1>5, SuccessesAreAlike

\* A feature is given v copies of a location.
LEMMA LocatedData ==
  ASSUME NEW m \in Model, NEW f \in Feature, NEW l \in Location, NEW v \in Nat, NEW m2,
         m2 = [m EXCEPT !.locations[f][l] = v]
  PROVE  /\ m2.features = m.features /\ m2.relationships = m.relationships /\ m2.root = m.root
         /\ m2.parent = m.parent /\ m2.edges = m.edges
         /\ m2.constraints = m.constraints /\ m2.bound = m.bound /\ m2.output = m.output /\ m2.info = m.info
         /\ m2.locations = [m.locations EXCEPT ![f] = [m.locations[f] EXCEPT ![l] = v]]
  BY DEF Model

\* Changing the locations of twins alike leaves a copy a copy.
LEMMA LocatedIsCopy ==
  ASSUME NEW m \in Model, NEW c \in Model, IsCopy(m, c), NEW g \in Feature, NEW l \in Location,
         NEW v \in Nat
  PROVE  IsCopy([m EXCEPT !.locations[Twin[g]][l] = v], [c EXCEPT !.locations[g][l] = v])
  <1> DEFINE m2 == [m EXCEPT !.locations[Twin[g]][l] = v]
             c2 == [c EXCEPT !.locations[g][l] = v]
  <1>1. Twin[g] \in Feature
    BY TwinIs
  <1>2. /\ m2.features = m.features /\ m2.relationships = m.relationships /\ m2.root = m.root
        /\ m2.parent = m.parent /\ m2.edges = m.edges
        /\ m2.constraints = m.constraints /\ m2.bound = m.bound /\ m2.output = m.output /\ m2.info = m.info
        /\ m2.locations = [m.locations EXCEPT ![Twin[g]] = [m.locations[Twin[g]] EXCEPT ![l] = v]]
    BY <1>1, LocatedData
  <1>3. /\ c2.features = c.features /\ c2.relationships = c.relationships /\ c2.root = c.root
        /\ c2.parent = c.parent /\ c2.edges = c.edges
        /\ c2.constraints = c.constraints /\ c2.bound = c.bound /\ c2.output = c.output /\ c2.info = c.info
        /\ c2.locations = [c.locations EXCEPT ![g] = [c.locations[g] EXCEPT ![l] = v]]
    BY LocatedData
  <1> HIDE DEF m2, c2
  <1>4. ASSUME NEW x \in Feature PROVE c2.locations[x] = m2.locations[Twin[x]]
    <2>1. Twin[x] \in Feature /\ (Twin[x] = Twin[g] <=> x = g) /\ c.locations[x] = m.locations[Twin[x]]
          /\ c.locations[g] = m.locations[Twin[g]]
      BY TwinIs DEF IsCopy
    <2>2. m.locations \in [Feature -> [Location -> Nat]] /\ c.locations \in [Feature -> [Location -> Nat]]
      BY ModelFields
    <2>3. c2.locations[x] = IF x = g THEN [c.locations[g] EXCEPT ![l] = v] ELSE c.locations[x]
      BY <1>3, <2>2
    <2>4. m2.locations[Twin[x]] = IF Twin[x] = Twin[g] THEN [m.locations[Twin[g]] EXCEPT ![l] = v]
                                  ELSE m.locations[Twin[x]]
      BY <1>2, <2>1, <2>2
    <2> QED
      BY <2>1, <2>3, <2>4
  <1>5. IsCopy(m2, c2)
    BY <1>2, <1>3, <1>4 DEF IsCopy
  <1> QED
    BY <1>5 DEF m2, c2

\* addLocation and removeLocation
LEMMA LocationsAreAlike ==
  ASSUME NEW m \in Model, NEW c \in Model, IsCopy(m, c), NEW ref \in Feature \cup Name,
         NEW g \in Feature, Resolve(m, ref) = Twin[g], Twin[g] \in m.features, NEW l \in Location
  PROVE  /\ Alike(AddLocation(m, ref, l, Live(m)), AddLocation(c, g, l, Live(c)))
         /\ m.locations[Twin[g]][l] > 0 => Alike(RemoveLocation(m, ref, l, Live(m)), RemoveLocation(c, g, l, Live(c)))
  <1>1. /\ g \in c.features /\ Twin[g] \in Feature /\ Resolve(c, g) = g
        /\ c.locations[g] = m.locations[Twin[g]] /\ m.locations[Twin[g]][l] \in Nat
    <2>1. g \in Node /\ Twin[g] \in Feature
      BY TwinIs
    <2>2. g \in c.features
      BY <2>1, CopyNodes
    <2>3. Resolve(c, g) = g
      BY ConstantsAssumption DEF Resolve, Node
    <2>4. m.locations \in [Feature -> [Location -> Nat]]
      BY ModelFields
    <2> QED
      BY <2>1, <2>2, <2>3, <2>4 DEF IsCopy
  <1> DEFINE v == m.locations[Twin[g]][l]
  <1>2. Alike(AddLocation(m, ref, l, Live(m)), AddLocation(c, g, l, Live(c)))
    <2>1. /\ AddLocation(m, ref, l, Live(m)) = Succeeds([m EXCEPT !.locations[Twin[g]][l] = v + 1])
          /\ AddLocation(c, g, l, Live(c)) = Succeeds([c EXCEPT !.locations[g][l] = v + 1])
      BY <1>1 DEF AddLocation, Live
    <2>2. v + 1 \in Nat
      BY <1>1
    <2> HIDE DEF v
    <2>3. IsCopy([m EXCEPT !.locations[Twin[g]][l] = v + 1], [c EXCEPT !.locations[g][l] = v + 1])
      BY <2>2, LocatedIsCopy
    <2> QED
      BY <2>1, <2>3, SuccessesAreAlike
  <1>3. ASSUME v > 0 PROVE Alike(RemoveLocation(m, ref, l, Live(m)), RemoveLocation(c, g, l, Live(c)))
    <2>1. /\ RemoveLocation(m, ref, l, Live(m)) = Succeeds([m EXCEPT !.locations[Twin[g]][l] = v - 1])
          /\ RemoveLocation(c, g, l, Live(c)) = Succeeds([c EXCEPT !.locations[g][l] = v - 1])
      BY <1>1, <1>3 DEF RemoveLocation, Live
    <2>2. v - 1 \in Nat
      BY <1>1, <1>3
    <2> HIDE DEF v
    <2>3. IsCopy([m EXCEPT !.locations[Twin[g]][l] = v - 1], [c EXCEPT !.locations[g][l] = v - 1])
      BY <2>2, LocatedIsCopy
    <2> QED
      BY <2>1, <2>3, SuccessesAreAlike
  <1> QED
    BY <1>2, <1>3

\* setName, setPath and setCommit do the same to a model and to its copy.
LEMMA SetInfosAreAlike ==
  ASSUME NEW m \in Model, NEW c \in Model, IsCopy(m, c), NEW field, NEW text
  PROVE  Alike(SetInfo(m, field, text), SetInfo(c, field, text))
  <1> DEFINE m2 == [m EXCEPT !.info[field] = text]
             c2 == [c EXCEPT !.info[field] = text]
  <1>1. IsCopy(m2, c2)
    BY DEF IsCopy, Model
  <1> QED
    BY <1>1, SuccessesAreAlike DEF SetInfo

\* addConstraint: the features it is bound to are twins.
LEMMA AddConstraintsAreAlike ==
  ASSUME NEW m \in Model, NEW c \in Model, IsCopy(m, c), IsTree(m), NEW k \in Constraint
  PROVE  Alike(AddConstraint(m, Twin[k]), AddConstraint(c, k))
  <1> DEFINE here == {f \in m.features : NameOf[f] \in Mentions[Twin[k]]}
             there == {f \in c.features : NameOf[f] \in Mentions[k]}
             m2 == [m EXCEPT !.constraints = @ \cup {Twin[k]}, !.bound = @ \cup ({Twin[k]} \X here)]
             c2 == [c EXCEPT !.constraints = @ \cup {k}, !.bound = @ \cup ({k} \X there)]
  <1>1. Twin[k] \in Constraint /\ Twin[Twin[k]] = k /\ Mentions[Twin[k]] = Mentions[k]
    BY TwinIs
  <1>2. /\ m2 = [m EXCEPT !.constraints = @ \cup {Twin[k]}, !.bound = @ \cup ({Twin[k]} \X here)]
        /\ c2 = [c EXCEPT !.constraints = @ \cup {k}, !.bound = @ \cup ({k} \X there)]
        /\ AddConstraint(m, Twin[k]) = IF \A n \in Mentions[Twin[k]] : GetFeature(m, n) # Nil
                                       THEN Succeeds(m2) ELSE Fails(m2, "MISSING_FEATURE")
        /\ AddConstraint(c, k) = IF \A n \in Mentions[k] : GetFeature(c, n) # Nil
                                 THEN Succeeds(c2) ELSE Fails(c2, "MISSING_FEATURE")
    BY DEF AddConstraint
  <1>3. \A f \in Feature : f \in there <=> Twin[f] \in here
    BY <1>1, TwinIs DEF IsCopy
  <1> HIDE DEF here, there, m2, c2
  <1>4. /\ m2.features = m.features /\ m2.relationships = m.relationships /\ m2.root = m.root
        /\ m2.parent = m.parent /\ m2.edges = m.edges
        /\ m2.constraints = m.constraints \cup {Twin[k]} /\ m2.bound = m.bound \cup ({Twin[k]} \X here)
        /\ m2.locations = m.locations /\ m2.output = m.output /\ m2.info = m.info
    BY <1>2 DEF Model
  <1>5. /\ c2.features = c.features /\ c2.relationships = c.relationships /\ c2.root = c.root
        /\ c2.parent = c.parent /\ c2.edges = c.edges
        /\ c2.constraints = c.constraints \cup {k} /\ c2.bound = c.bound \cup ({k} \X there)
        /\ c2.locations = c.locations /\ c2.output = c.output /\ c2.info = c.info
    BY <1>2 DEF Model
  <1>6. \A x \in Constraint : x \in c2.constraints <=> Twin[x] \in m2.constraints
    BY <1>1, <1>4, <1>5, TwinIs DEF IsCopy
  <1>7. ASSUME NEW x \in Constraint, NEW f \in Feature
        PROVE  <<x, f>> \in c2.bound <=> <<Twin[x], Twin[f]>> \in m2.bound
    <2>1. (Twin[x] = Twin[k] <=> x = k) /\ (<<x, f>> \in c.bound <=> <<Twin[x], Twin[f]>> \in m.bound)
      BY TwinIs DEF IsCopy
    <2> QED
      BY <1>3, <1>4, <1>5, <2>1
  <1>8. IsCopy(m2, c2)
    BY <1>4, <1>5, <1>6, <1>7 DEF IsCopy
  <1>9. \A n \in Mentions[k] : GetFeature(m, n) = Nil <=> GetFeature(c, n) = Nil
    BY CopyOfLookup
  <1> QED
    BY <1>1, <1>2, <1>8, <1>9, FailuresAreAlike, SuccessesAreAlike

\* Replacing the root frees the locations of the old one, and changes no other data.
LEMMA RootReplacedData ==
  ASSUME NEW m \in Model, NEW f
  PROVE  /\ RootReplaced(m, f).locations = Left(m, {m.root})
         /\ m.output = NoOutput => RootReplaced(m, f).output = NoOutput
         /\ RootReplaced(m, f).info = m.info
  <1> DEFINE children == Targets(m, {m.root})
             n == [m EXCEPT !.features = @ \cup {f}, !.root = f,
                            !.parent = [x \in Node |-> IF x \in children THEN f ELSE @[x]],
                            !.edges = @ \cup ({f} \X children)]
  <1>1. n.locations = m.locations /\ n.info = m.info /\ n.output = m.output
    BY DEF Model
  <1>2. DOMAIN n = {"features", "relationships", "root", "parent", "edges", "constraints", "bound",
                    "locations", "output", "info"}
    BY DEF Model
  <1>3. RootReplaced(m, f) = Destroy(n, {m.root})
    BY DEF RootReplaced
  <1> HIDE DEF n
  <1>4. /\ Destroy(n, {m.root}).locations = Left(n, {m.root}) /\ Destroy(n, {m.root}).info = n.info
        /\ m.output = NoOutput => Destroy(n, {m.root}).output = NoOutput
    BY <1>1, <1>2 DEF Destroy, Left, NoOutput
  <1> QED
    BY <1>1, <1>3, <1>4 DEF Left

\* Replacing the roots by twins leaves a copy a copy.
LEMMA NewRootsAreAlike ==
  ASSUME NEW m \in Model, NEW c \in Model, IsCopy(m, c), WellFormed(m),
         NEW f \in RootFeature, f \notin Live(c),
         \A g \in m.features : NameOf[g] # NameOf[f], \A b \in m.bound : b[2] # m.root
  PROVE  IsCopy(RootReplaced(m, Twin[f]), RootReplaced(c, f))
  <1> DEFINE t == Twin[f]
             m2 == RootReplaced(m, t)
             c2 == RootReplaced(c, f)
             in == Targets(m, {m.root})
             out == Targets(c, {c.root})
  <1>1. /\ WellFormed(c) /\ IsTree(m) /\ EdgesMatchParents(m) /\ EdgesMatchParents(c)
        /\ f \in Feature /\ f \in Node /\ t \in RootFeature /\ t \in Feature /\ t \in Node
        /\ t \notin Live(m) /\ NameOf[t] = NameOf[f]
    <2>1. WellFormed(c) /\ IsTree(m) /\ EdgesMatchParents(m) /\ EdgesMatchParents(c)
      BY CopyOfWellFormed, WellFormedIsTree DEF WellFormed
    <2>2. /\ f \in Feature /\ f \in Node /\ t \in RootFeature /\ t \in Feature /\ t \in Node
          /\ NameOf[t] = NameOf[f]
      BY TwinIs
    <2> QED
      BY <2>1, <2>2, CopyNodes
  <1>2. /\ m.root \in m.features /\ m.root \in Feature /\ m.root \in Node /\ c.root = Twin[m.root]
        /\ c.root \in c.features /\ c.root \in Feature /\ c.root \in Node /\ m.root = Twin[c.root]
    <2>1. m.root \in m.features /\ c.root \in c.features
      BY <1>1 DEF WellFormed, Rooted
    <2>2. m.features \subseteq Feature /\ c.features \subseteq Feature
      BY ModelFields
    <2> QED
      BY <2>1, <2>2, TwinIs DEF IsCopy
  <1>3. \A g \in c.features : NameOf[g] # NameOf[f]
    <2>1. ASSUME NEW g \in c.features PROVE NameOf[g] # NameOf[f]
      <3>1. g \in Feature /\ Twin[g] \in m.features /\ NameOf[Twin[g]] = NameOf[g]
        BY ModelFields, TwinIs DEF IsCopy
      <3> QED
        BY <3>1
    <2> QED
      BY <2>1
  <1>4. \A b \in c.bound : b[2] # c.root
    <2>1. ASSUME NEW b \in c.bound PROVE b[2] # c.root
      <3>1. b = <<b[1], b[2]>> /\ b[1] \in Constraint /\ b[2] \in Feature
        BY <2>1, ModelFields
      <3>2. <<Twin[b[1]], Twin[b[2]]>> \in m.bound
        BY <2>1, <3>1 DEF IsCopy
      <3> QED
        BY <1>2, <3>2
    <2> QED
      BY <2>1
  <1>5. /\ m2 \in Model /\ m2.features = (m.features \cup {t}) \ {m.root}
        /\ m2.relationships = m.relationships \ {m.root} /\ m2.root = t
        /\ m2.parent = [n \in Node |-> IF n = m.root THEN Nil ELSE IF n \in in THEN t ELSE m.parent[n]]
        /\ m2.constraints = m.constraints /\ m2.bound = m.bound
        /\ m2.locations = Left(m, {m.root}) /\ m2.output = NoOutput /\ m2.info = m.info
    <2>1. /\ m2 \in Model /\ m2.features = (m.features \cup {t}) \ {m.root}
          /\ m2.relationships = m.relationships \ {m.root} /\ m2.root = t
          /\ m2.parent = [n \in Node |-> IF n = m.root THEN Nil ELSE IF n \in in THEN t ELSE m.parent[n]]
          /\ m2.constraints = m.constraints /\ m2.bound = m.bound
      <3>1. t \in Feature /\ m.root \in Feature
        BY <1>1, <1>2
      <3> HIDE DEF t
      <3> QED
        BY <3>1, RootReplacedType
    <2>2. m2.locations = Left(m, {m.root}) /\ m2.output = NoOutput /\ m2.info = m.info
      BY <1>1, RootReplacedData DEF IsCopy
    <2> HIDE DEF m2
    <2> QED
      BY <2>1, <2>2
  <1>6. /\ c2 \in Model /\ c2.features = (c.features \cup {f}) \ {c.root}
        /\ c2.relationships = c.relationships \ {c.root} /\ c2.root = f
        /\ c2.parent = [n \in Node |-> IF n = c.root THEN Nil ELSE IF n \in out THEN f ELSE c.parent[n]]
        /\ c2.constraints = c.constraints /\ c2.bound = c.bound
        /\ c2.locations = Left(c, {c.root}) /\ c2.output = NoOutput /\ c2.info = c.info
    <2>1. /\ c2 \in Model /\ c2.features = (c.features \cup {f}) \ {c.root}
          /\ c2.relationships = c.relationships \ {c.root} /\ c2.root = f
          /\ c2.parent = [n \in Node |-> IF n = c.root THEN Nil ELSE IF n \in out THEN f ELSE c.parent[n]]
          /\ c2.constraints = c.constraints /\ c2.bound = c.bound
      <3>1. f \in Feature /\ c.root \in Feature
        BY <1>1, <1>2
      <3> QED
        BY <3>1, RootReplacedType
    <2>2. c2.locations = Left(c, {c.root}) /\ c2.output = NoOutput /\ c2.info = c.info
      BY <1>1, RootReplacedData DEF IsCopy
    <2> HIDE DEF c2
    <2> QED
      BY <2>1, <2>2
  <1>7. EdgesMatchParents(m2) /\ EdgesMatchParents(c2)
    <2>1. WellFormed(m2)
      BY <1>1, RootReplacedKeeps
    <2>2. WellFormed(c2)
      BY <1>1, <1>3, <1>4, RootReplacedKeeps
    <2> QED
      BY <2>1, <2>2 DEF WellFormed
  <1>8. \A x \in Node : x \in out <=> Twin[x] \in in
    <2>1. ASSUME NEW x \in Node PROVE x \in out <=> Twin[x] \in in
      <3>1. {m.root} \in SUBSET Node /\ {c.root} \in SUBSET Node /\ Twin[x] \in Node
        BY <1>2, TwinIs
      <3>2. (x \in out <=> c.parent[x] = c.root) /\ (Twin[x] \in in <=> m.parent[Twin[x]] = m.root)
        BY <1>1, <3>1, TargetsAreChildren
      <3>3. c.parent[x] = c.root <=> m.parent[Twin[x]] = Twin[c.root]
        BY <1>2, CopyNodes
      <3> QED
        BY <1>2, <3>2, <3>3
    <2> QED
      BY <2>1
  <1> HIDE DEF m2, c2, in, out
  <1>9. ASSUME NEW x \in Node
        PROVE  c2.parent[x] = IF m2.parent[Twin[x]] = Nil THEN Nil ELSE Twin[m2.parent[Twin[x]]]
    <2>1. Twin[x] \in Node /\ (Twin[x] = m.root <=> x = c.root) /\ t # Nil /\ Twin[t] = f
      BY <1>1, <1>2, TwinIs
    <2>2. c2.parent[x] = IF x = c.root THEN Nil ELSE IF x \in out THEN f ELSE c.parent[x]
      BY <1>6
    <2>3. m2.parent[Twin[x]] = IF Twin[x] = m.root THEN Nil ELSE IF Twin[x] \in in THEN t
                               ELSE m.parent[Twin[x]]
      BY <1>5, <2>1
    <2> QED
      BY <1>8, <2>1, <2>2, <2>3 DEF IsCopy
  <1>10. \A x, y \in Node : <<x, y>> \in c2.edges <=> <<Twin[x], Twin[y]>> \in m2.edges
    <2>1. m2 \in Model /\ c2 \in Model
      BY <1>5, <1>6
    <2>2. \A x \in Node : c2.parent[x] = IF m2.parent[Twin[x]] = Nil THEN Nil ELSE Twin[m2.parent[Twin[x]]]
      BY <1>9
    <2>3. ASSUME NEW x \in Node, NEW y \in Node
          PROVE  <<x, y>> \in c2.edges <=> <<Twin[x], Twin[y]>> \in m2.edges
      BY <1>7, <2>1, <2>2, EdgesFollow
    <2> QED
      BY <2>3, Zenon
  <1>11. ASSUME NEW x \in Feature
         PROVE  /\ x \in c2.features <=> Twin[x] \in m2.features
                /\ c2.locations[x] = m2.locations[Twin[x]]
    <2>1. Twin[x] \in Feature /\ (Twin[x] = t <=> x = f) /\ (Twin[x] = m.root <=> x = c.root)
      BY <1>1, <1>2, TwinIs, SMTT(30)
    <2> QED
      BY <1>5, <1>6, <2>1 DEF IsCopy, Left
  <1>12. ASSUME NEW x \in Relationship PROVE x \in c2.relationships <=> Twin[x] \in m2.relationships
    BY <1>2, <1>5, <1>6, TwinIs DEF IsCopy
  <1>13. c2.root = IF m2.root = Nil THEN Nil ELSE Twin[m2.root]
    BY <1>1, <1>5, <1>6, TwinIs, SMTT(30)
  <1>14. IsCopy(m2, c2)
    BY <1>5, <1>6, <1>9, <1>10, <1>11, <1>12, <1>13 DEF IsCopy
  <1> QED
    BY <1>14 DEF m2, c2

\* setRoot
LEMMA SetRootsAreAlike ==
  ASSUME NEW m \in Model, NEW c \in Model, IsCopy(m, c), WellFormed(m),
         NEW f \in RootFeature, f \notin Live(c), MaySetRoot(m, Twin[f])
  PROVE  Alike(SetRoot(m, Twin[f], Live(m)), SetRoot(c, f, Live(c)))
  <1>1. /\ WellFormed(c) /\ IsTree(m) /\ EdgesMatchParents(m) /\ EdgesMatchParents(c)
    BY CopyOfWellFormed, WellFormedIsTree DEF WellFormed
  <1>2. /\ m.root \in m.features /\ m.root \in Feature /\ m.root # Nil
        /\ c.root = Twin[m.root] /\ c.root \in Feature /\ c.root # Nil
        /\ NameOf[c.root] = NameOf[m.root] /\ NameOf[Twin[f]] = NameOf[f]
        /\ m.root \in Node /\ c.root \in Node
    <2>1. m.root \in m.features
      BY <1>1 DEF IsTree, Rooted
    <2> QED
      BY <2>1, ModelFields, TwinIs DEF IsCopy
  <1>3. GetFeature(m, NameOf[f]) = Nil <=> GetFeature(c, NameOf[f]) = Nil
    BY <1>1, CopyOfLookup
  <1>7. m.root \in Live(m) \cup {Nil} /\ c.root \in Live(c) \cup {Nil}
    BY <1>1, <1>2 DEF WellFormed, Rooted, Live
  <1>4. CASE NameOf[m.root] = NameOf[f]
    <2>1. SetRoot(m, Twin[f], Live(m)) = Succeeds(m) /\ SetRoot(c, f, Live(c)) = Succeeds(c)
      BY <1>2, <1>4, <1>7 DEF SetRoot
    <2> QED
      BY <2>1, SuccessesAreAlike
  <1>5. CASE NameOf[m.root] # NameOf[f] /\ GetFeature(m, NameOf[f]) # Nil
    <2>1. /\ SetRoot(m, Twin[f], Live(m)) = Fails(m, "ALREADY_PRESENT")
          /\ SetRoot(c, f, Live(c)) = Fails(c, "ALREADY_PRESENT")
      BY <1>2, <1>3, <1>5, <1>7 DEF SetRoot
    <2> QED
      BY <2>1, FailuresAreAlike
  <1>6. CASE NameOf[m.root] # NameOf[f] /\ GetFeature(m, NameOf[f]) = Nil
    <2>1. Targets(m, {m.root}) \subseteq Live(m) /\ Targets(c, {c.root}) \subseteq Live(c)
      BY <1>1, <1>2, TargetsAreChildren
    <2>2. /\ SetRoot(m, Twin[f], Live(m)) = Succeeds(RootReplaced(m, Twin[f]))
          /\ SetRoot(c, f, Live(c)) = Succeeds(RootReplaced(c, f))
      BY <1>2, <1>3, <1>6, <1>7, <2>1 DEF SetRoot
    <2>3. /\ \A g \in m.features : NameOf[g] # NameOf[f]
          /\ \A b \in m.bound : b[2] # m.root
      BY <1>2, <1>6, GetFeatureFinds DEF MaySetRoot
    <2>4. IsCopy(RootReplaced(m, Twin[f]), RootReplaced(c, f))
      BY <2>3, NewRootsAreAlike
    <2> QED
      BY <2>2, <2>4, SuccessesAreAlike
  <1> QED
    BY <1>4, <1>5, <1>6

-------------------------------------------------------------------------------
(* What the calls refer to *)

\* The feature a call names or points to has its twin in the copy, and it is
\* found there.
LEMMA ReferenceIsFound ==
  ASSUME copy \in Model, mirror \in Model, IsCopy(mirror, copy), IsTree(mirror), copy # Nil,
         NEW ref \in Feature \cup Name,
         NEW back, back = IF ref \in Objects(copy) THEN Twin[ref] ELSE ref,
         Resolve(mirror, back) \in mirror.features
  PROVE  LET h == IF ref \in Name THEN GetFeature(copy, ref) ELSE ref
             g == translateFeature(h)
         IN  /\ h # Nil /\ g \in copy.features /\ g \in Feature /\ Twin[g] = Resolve(mirror, back)
             /\ back \in Feature \cup Name
             /\ ref \in Name => back = ref
  <1>1. /\ IsTree(copy) /\ copy.features \subseteq Feature /\ mirror.features \subseteq Feature
        /\ Objects(copy) = copy.features \cup copy.relationships \cup copy.constraints
        /\ copy.relationships \subseteq Relationship /\ copy.constraints \subseteq Constraint
    BY CopyOfTree, ModelFields DEF Objects, Live
  <1>2. ref \in Name => ref \notin Objects(copy)
    BY <1>1, CopyAssumption, ConstantsAssumption DEF Node
  <1>3. ref \in Feature => ref \notin Name /\ ref # Nil
    BY ConstantsAssumption DEF Node
  <1>4. \A f \in copy.features : translateFeature(f) = f
    <2>1. ASSUME NEW f \in copy.features PROVE translateFeature(f) = f
      <3>1. f # Nil /\ \A x \in copy.features : NameOf[x] = NameOf[f] => x = f
        BY <1>1, TwinIs DEF IsTree, NamesIdentify
      <3> QED
        BY <3>1, GetFeatureFinds DEF translateFeature
    <2> QED
      BY <2>1
  <1>5. CASE ref \in Name
    <2> DEFINE h == GetFeature(copy, ref)
    <2>1. back = ref /\ GetFeature(mirror, ref) \in mirror.features
      BY <1>2, <1>5 DEF Resolve
    <2>2. GetFeature(mirror, ref) # Nil
      BY <1>1, <2>1, TwinIs
    <2>3. h = Twin[GetFeature(mirror, ref)] /\ h # Nil
      BY <2>2, CopyOfLookup
    <2>4. h \in copy.features
      BY <2>3, GetFeatureFinds
    <2>5. translateFeature(h) = h /\ Twin[h] = GetFeature(mirror, ref)
      <3> HIDE DEF h
      <3>1. GetFeature(mirror, ref) \in Node
        BY <1>1, <2>1, TwinIs
      <3> QED
        BY <1>4, <2>3, <2>4, <3>1, TwinIs
    <2> QED
      BY <1>1, <1>5, <2>1, <2>3, <2>4, <2>5 DEF Resolve
  <1>6. CASE ref \in Feature /\ ref \in Objects(copy)
    <2>1. ref \in copy.features /\ back = Twin[ref] /\ back \in Feature /\ back \notin Name
      BY <1>1, <1>6, TwinIs, ConstantsAssumption
    <2> QED
      BY <1>3, <1>4, <1>6, <2>1 DEF Resolve
  <1>7. CASE ref \in Feature /\ ref \notin Objects(copy)
    <2>1. back = ref /\ ref \notin Name /\ ref \in mirror.features /\ ref # Nil
      BY <1>3, <1>7 DEF Resolve
    <2>2. GetFeature(mirror, NameOf[ref]) = ref
      <3>1. \A x \in mirror.features : NameOf[x] = NameOf[ref] => x = ref
        BY <2>1 DEF IsTree, NamesIdentify
      <3> QED
        BY <2>1, <3>1, GetFeatureFinds
    <2>3. translateFeature(ref) = Twin[ref] /\ Twin[ref] \in Feature /\ Twin[Twin[ref]] = ref
      BY <1>7, <2>1, <2>2, CopyOfLookup, TwinIs DEF translateFeature
    <2>4. Twin[ref] \in copy.features
      BY <2>1, <2>3 DEF IsCopy
    <2> QED
      BY <1>7, <2>1, <2>3, <2>4 DEF Resolve
  <1> QED
    BY <1>5, <1>6, <1>7

\* What Mirrored makes of a call that refers to a feature
LEMMA MirroredReference ==
  ASSUME NEW mod \in Modification, mod.op \in RefersToFeature, copy \in Model, copy # Nil,
         Owned(mod) \cap Allocated = {}
  PROVE  /\ mod.ref \in Feature \cup Name
         /\ Mirrored(mod).op = mod.op
         /\ Mirrored(mod).ref = IF mod.ref \in Objects(copy) THEN Twin[mod.ref] ELSE mod.ref
         /\ mod.op = "AddRelationship" =>
              /\ mod.relationship \in Relationship /\ mod.relationship \notin Live(copy)
              /\ Mirrored(mod).relationship = Twin[mod.relationship]
         /\ mod.op = "RemoveFeature" =>
              mod.recursive \in BOOLEAN /\ Mirrored(mod).recursive = mod.recursive
         /\ mod.op \in {"AddLocation", "RemoveLocation"} =>
              mod.location \in Location /\ Mirrored(mod).location = mod.location
         /\ Mirrored(mod).ref \in Feature \cup Name => Mirrored(mod) \in Modification
  <1> DEFINE back(x) == IF x \in Objects(copy) \cup Owned(mod) THEN Twin[x] ELSE x
  <1>1. mod.ref \in Feature \cup Name
    BY DEF RefersToFeature, Modification
  <1>2. CASE mod.op = "AddRelationship"
    <2>1. /\ mod.relationship \in Relationship /\ Owned(mod) = {mod.relationship}
          /\ mod = [op |-> mod.op, relationship |-> mod.relationship, ref |-> mod.ref]
      BY <1>2 DEF Modification, Owned
    <2>2. mod.relationship \notin Objects(copy) /\ mod.relationship \notin Live(copy)
      BY <2>1 DEF Allocated, Objects
    <2>3. mod.ref \notin Owned(mod)
      BY <1>1, <2>1, ConstantsAssumption DEF Node
    <2>4. Mirrored(mod) = [mod EXCEPT !.relationship = Twin[mod.relationship], !.ref = back(mod.ref)]
      BY <1>2, <2>1, <2>2 DEF Mirrored, RefersToFeature
    <2>5. back(mod.ref) = IF mod.ref \in Objects(copy) THEN Twin[mod.ref] ELSE mod.ref
      BY <2>3
    <2>6. Twin[mod.relationship] \in Relationship
      BY <2>1, TwinIs
    <2> HIDE DEF back
    <2> QED
      BY <1>1, <1>2, <2>1, <2>2, <2>4, <2>5, <2>6 DEF Modification
  <1>3. CASE mod.op # "AddRelationship"
    <2>1. Owned(mod) = {}
      BY <1>3 DEF Owned, RefersToFeature
    <2>2. Mirrored(mod) = [mod EXCEPT !.ref = back(mod.ref)]
      BY <1>3 DEF Mirrored, RefersToFeature
    <2>3. back(mod.ref) = IF mod.ref \in Objects(copy) THEN Twin[mod.ref] ELSE mod.ref
      BY <2>1
    <2> HIDE DEF back
    <2>4. CASE mod.op = "RemoveFeature"
      BY <1>1, <2>2, <2>3, <2>4 DEF Modification
    <2>5. CASE mod.op = "RemoveRelationship"
      BY <1>1, <2>2, <2>3, <2>5 DEF Modification
    <2>6. CASE mod.op \in {"AddLocation", "RemoveLocation"}
      BY <1>1, <2>2, <2>3, <2>6 DEF Modification
    <2> QED
      BY <1>3, <2>4, <2>5, <2>6 DEF RefersToFeature
  <1> QED
    BY <1>2, <1>3

\* What translateFeature makes of it
LEMMA TranslatedReference ==
  ASSUME NEW mod \in Modification, mod.op \in RefersToFeature, NEW g \in Feature,
         translateFeature(Referred(mod)) = g
  PROVE  /\ Translated(mod) \in Modification
         /\ Translated(mod).op = mod.op /\ Translated(mod).ref = g
         /\ mod.op = "AddRelationship" => Translated(mod).relationship = mod.relationship
         /\ mod.op = "RemoveFeature" => Translated(mod).recursive = mod.recursive
         /\ mod.op \in {"AddLocation", "RemoveLocation"} => Translated(mod).location = mod.location
  <1>1. Translated(mod) = [mod EXCEPT !.ref = g]
    BY DEF Translated, RefersToFeature
  <1>2. CASE mod.op = "AddRelationship"
    BY <1>1, <1>2 DEF Modification
  <1>3. CASE mod.op = "RemoveFeature"
    BY <1>1, <1>3 DEF Modification
  <1>4. CASE mod.op = "RemoveRelationship"
    BY <1>1, <1>4 DEF Modification
  <1>5. CASE mod.op \in {"AddLocation", "RemoveLocation"}
    BY <1>1, <1>5 DEF Modification
  <1> QED
    BY <1>2, <1>3, <1>4, <1>5 DEF RefersToFeature

\* A call that refers to a feature does to the copy what it does to the mirror.
LEMMA ReferringCallsAreAlike ==
  ASSUME copy \in Model, mirror \in Model, IsCopy(mirror, copy), WellFormed(mirror), copy # Nil,
         NEW mod \in Modification, mod.op \in RefersToFeature, Owned(mod) \cap Allocated = {},
         Finds(mirror, Mirrored(mod).ref), Proper(mirror, Mirrored(mod))
  PROVE  /\ Mirrored(mod) \in Modification /\ Translated(mod) \in Modification
         /\ Owned(Translated(mod)) = Owned(mod)
         /\ Referred(mod) # Nil
         /\ Alike(Outcomes(mirror, Mirrored(mod)), Outcomes(copy, Translated(mod)))
  <1> DEFINE image == Mirrored(mod)
             call == Translated(mod)
             g == translateFeature(Referred(mod))
  <1>1. /\ mod.ref \in Feature \cup Name
        /\ image.op = mod.op
        /\ image.ref = IF mod.ref \in Objects(copy) THEN Twin[mod.ref] ELSE mod.ref
        /\ mod.op = "AddRelationship" =>
             /\ mod.relationship \in Relationship /\ mod.relationship \notin Live(copy)
             /\ image.relationship = Twin[mod.relationship]
        /\ mod.op = "RemoveFeature" => mod.recursive \in BOOLEAN /\ image.recursive = mod.recursive
        /\ mod.op \in {"AddLocation", "RemoveLocation"} =>
             mod.location \in Location /\ image.location = mod.location
        /\ image.ref \in Feature \cup Name => image \in Modification
    BY MirroredReference
  <1>2. IsTree(mirror) /\ Resolve(mirror, image.ref) \in mirror.features
    BY WellFormedIsTree DEF Finds
  <1> HIDE DEF image
  <1>3. /\ Referred(mod) # Nil /\ g \in copy.features /\ g \in Feature
        /\ Twin[g] = Resolve(mirror, image.ref) /\ image.ref \in Feature \cup Name
    BY <1>1, <1>2, ReferenceIsFound DEF Referred
  <1>4. /\ call \in Modification /\ call.op = mod.op /\ call.ref = g
        /\ mod.op = "AddRelationship" => call.relationship = mod.relationship
        /\ mod.op = "RemoveFeature" => call.recursive = mod.recursive
        /\ mod.op \in {"AddLocation", "RemoveLocation"} => call.location = mod.location
    BY <1>3, TranslatedReference
  <1> HIDE DEF call, g
  <1>5. Owned(call) = Owned(mod)
    BY <1>4 DEF Owned, RefersToFeature
  <1>6. Proper(mirror, image) /\ Twin[g] \in mirror.features
    BY <1>2, <1>3 DEF image
  <1>7. Alike(Outcomes(mirror, image), Outcomes(copy, call))
    <2>1. CASE mod.op = "RemoveFeature"
      <3>1. Twin[g] # mirror.root
        BY <1>1, <1>2, <1>3, <1>6, <2>1 DEF Proper, MayRemove, Finds
      <3>2. /\ Outcomes(mirror, image) = RemoveFeature(mirror, image.ref, mod.recursive, Live(mirror))
            /\ Outcomes(copy, call) = RemoveFeature(copy, g, mod.recursive, Live(copy))
        BY <1>1, <1>4, <2>1 DEF Outcomes, OutcomesAmong
      <3>3. Alike(RemoveFeature(mirror, image.ref, mod.recursive, Live(mirror)), RemoveFeature(copy, g, mod.recursive, Live(copy)))
        BY <1>1, <1>2, <1>3, <1>6, <2>1, <3>1, RemoveFeaturesAreAlike
      <3> QED
        BY <3>2, <3>3
    <2>2. CASE mod.op = "AddRelationship"
      <3>1. MayGroup(mirror, image.ref)
        BY <1>1, <1>6, <2>2 DEF Proper
      <3>2. /\ Outcomes(mirror, image) = AddRelationship(mirror, Twin[mod.relationship], image.ref, Live(mirror))
            /\ Outcomes(copy, call) = AddRelationship(copy, mod.relationship, g, Live(copy))
        BY <1>1, <1>4, <2>2 DEF Outcomes, OutcomesAmong
      <3>3. Alike(AddRelationship(mirror, Twin[mod.relationship], image.ref, Live(mirror)),
                  AddRelationship(copy, mod.relationship, g, Live(copy)))
        BY <1>1, <1>3, <2>2, <3>1, AddRelationshipsAreAlike
      <3> QED
        BY <3>2, <3>3
    <2>3. CASE mod.op = "RemoveRelationship"
      <3>1. MayUngroup(mirror, image.ref)
        BY <1>1, <1>6, <2>3 DEF Proper
      <3>2. /\ Outcomes(mirror, image) = RemoveRelationship(mirror, image.ref, Live(mirror))
            /\ Outcomes(copy, call) = RemoveRelationship(copy, g, Live(copy))
        BY <1>1, <1>4, <2>3 DEF Outcomes, OutcomesAmong
      <3>3. Alike(RemoveRelationship(mirror, image.ref, Live(mirror)), RemoveRelationship(copy, g, Live(copy)))
        BY <1>3, <1>6, <3>1, RemoveRelationshipsAreAlike
      <3> QED
        BY <3>2, <3>3
    <2>4. CASE mod.op = "AddLocation"
      <3>1. /\ Outcomes(mirror, image) = AddLocation(mirror, image.ref, mod.location, Live(mirror))
            /\ Outcomes(copy, call) = AddLocation(copy, g, mod.location, Live(copy))
        BY <1>1, <1>4, <2>4 DEF Outcomes, OutcomesAmong
      <3>2. Alike(AddLocation(mirror, image.ref, mod.location, Live(mirror)), AddLocation(copy, g, mod.location, Live(copy)))
        BY <1>1, <1>3, <1>6, <2>4, LocationsAreAlike
      <3> QED
        BY <3>1, <3>2
    <2>5. CASE mod.op = "RemoveLocation"
      <3>1. /\ Outcomes(mirror, image) = RemoveLocation(mirror, image.ref, mod.location, Live(mirror))
            /\ Outcomes(copy, call) = RemoveLocation(copy, g, mod.location, Live(copy))
        BY <1>1, <1>4, <2>5 DEF Outcomes, OutcomesAmong
      <3>2. mirror.locations[Twin[g]][mod.location] > 0
        BY <1>1, <1>3, <1>6, <2>5 DEF Proper, MayRemoveLocation
      <3>3. Alike(RemoveLocation(mirror, image.ref, mod.location, Live(mirror)), RemoveLocation(copy, g, mod.location, Live(copy)))
        BY <1>1, <1>3, <1>6, <2>5, <3>2, LocationsAreAlike
      <3> QED
        BY <3>1, <3>3
    <2> QED
      BY <2>1, <2>2, <2>3, <2>4, <2>5 DEF RefersToFeature
  <1> QED
    BY <1>1, <1>3, <1>4, <1>5, <1>7 DEF image, call

\* addFeature, to a parent of the copy or of the model.
LEMMA AddingCallsAreAlike ==
  ASSUME copy \in Model, mirror \in Model, IsCopy(mirror, copy), WellFormed(mirror), copy # Nil,
         FM # Nil, NEW mod \in Modification, mod.op = "AddFeature",
         Owned(mod) \cap Allocated = {},
         PointsTo(mod) \subseteq Live(FM) \cup (Objects(copy) \cap Node),
         Mirrored(mod).parent \in mirror.features \cup {Nil}
  PROVE  /\ Mirrored(mod) \in Modification /\ Translated(mod) \in Modification
         /\ Mirrored(mod).op = mod.op
         /\ mod.feature \in Feature /\ Mirrored(mod).feature = Twin[mod.feature]
         /\ Owned(Translated(mod)) = Owned(mod)
         /\ Alike(Outcomes(mirror, Mirrored(mod)), Outcomes(copy, Translated(mod)))
  <1> DEFINE back(x) == IF x \in Objects(copy) \cup Owned(mod) THEN Twin[x] ELSE x
             f == mod.feature
             p == mod.parent
             q == Mirrored(mod).parent
  <1>1. /\ f \in Feature /\ p \in Feature \cup {Nil} /\ Owned(mod) = {f} /\ PointsTo(mod) = {p} \ {Nil}
        /\ mod = [op |-> "AddFeature", feature |-> f, parent |-> p]
    BY DEF Modification, Owned, PointsTo
  <1>2. f \notin Objects(FM) /\ f \notin Objects(copy)
    BY <1>1 DEF Allocated
  <1>3. p # f
    BY <1>1, <1>2, TwinIs DEF Objects
  <1>4. Nil \notin Objects(copy)
    BY ModelFields, TwinIs DEF Objects
  <1>5. Mirrored(mod) = [op |-> "AddFeature", feature |-> Twin[f], parent |-> q]
        /\ q = IF p \in Objects(copy) THEN Twin[p] ELSE p
    <2>1. Mirrored(mod) = [mod EXCEPT !.feature = back(f), !.parent = back(p)]
      BY <1>1 DEF Mirrored
    <2>2. back(f) = Twin[f] /\ back(p) = IF p \in Objects(copy) THEN Twin[p] ELSE p
      BY <1>1, <1>3
    <2> HIDE DEF back
    <2>3. Mirrored(mod) = [op |-> "AddFeature", feature |-> Twin[f], parent |-> back(p)]
      BY <1>1, <2>1, <2>2
    <2>4. q = back(p)
      BY <2>3
    <2> QED
      BY <2>2, <2>3, <2>4
  <1>6. /\ IsTree(mirror) /\ mirror.features \subseteq Feature
    BY ModelFields, WellFormedIsTree
  <1>7. Mirrored(mod) \in Modification
    <2>1. Twin[f] \in Feature /\ q \in Feature \cup {Nil}
      BY <1>1, <1>6, TwinIs
    <2> HIDE DEF q, f
    <2> QED
      BY <1>5, <2>1 DEF Modification
  <1>8. CASE p = Nil
    <2>1. Translated(mod) = mod /\ q = Nil
      BY <1>1, <1>4, <1>5, <1>8 DEF Translated, RefersToFeature
    <2>2. Alike(AddFeature(mirror, Twin[f], q, Live(mirror)), AddFeature(copy, f, p, Live(copy)))
      BY <1>1, <1>6, <1>8, <2>1, AddFeaturesAreAlike
    <2>3. /\ Outcomes(mirror, Mirrored(mod)) = AddFeature(mirror, Twin[f], q, Live(mirror))
          /\ Outcomes(copy, Translated(mod)) = AddFeature(copy, f, p, Live(copy))
      BY <1>1, <1>5, <2>1 DEF Outcomes, OutcomesAmong
    <2> QED
      BY <1>1, <1>5, <1>7, <2>1, <2>2, <2>3
  <1>9. CASE p # Nil
    <2> DEFINE g == translateFeature(p)
    <2>1. p \in Feature /\ p \in Feature \cup Name /\ p \notin Name
      BY <1>1, <1>9, ConstantsAssumption DEF Node
    <2>2. q # Nil /\ q \in Feature /\ q \notin Name
      BY <1>5, <2>1, TwinIs, ConstantsAssumption DEF Node
    <2>3. Resolve(mirror, q) = q /\ q \in mirror.features
      BY <2>2 DEF Resolve
    <2>4. g \in copy.features /\ g \in Feature /\ Twin[g] = q
      <3> HIDE DEF q
      <3> QED
        BY <1>5, <1>6, <2>1, <2>3, ReferenceIsFound
    <2>5. Translated(mod) = [op |-> "AddFeature", feature |-> f, parent |-> g]
      <3>1. Translated(mod) = [mod EXCEPT !.parent = g]
        BY <1>1, <1>9 DEF Translated
      <3> HIDE DEF g
      <3> QED
        BY <1>1, <3>1
    <2> HIDE DEF g
    <2>6. Alike(AddFeature(mirror, Twin[f], q, Live(mirror)), AddFeature(copy, f, g, Live(copy)))
      <3>1. q = IF g = Nil THEN Nil ELSE Twin[g]
        BY <2>4, TwinIs
      <3> HIDE DEF q, f
      <3> QED
        BY <1>1, <1>6, <2>4, <3>1, AddFeaturesAreAlike
    <2>7. /\ Outcomes(mirror, Mirrored(mod)) = AddFeature(mirror, Twin[f], q, Live(mirror))
          /\ Outcomes(copy, Translated(mod)) = AddFeature(copy, f, g, Live(copy))
      BY <1>5, <2>5 DEF Outcomes, OutcomesAmong
    <2>8. Translated(mod) \in Modification /\ Owned(Translated(mod)) = {f}
      BY <1>1, <2>4, <2>5 DEF Modification, Owned
    <2> QED
      BY <1>1, <1>5, <1>7, <2>6, <2>7, <2>8
  <1> QED
    BY <1>8, <1>9

\* setRoot, addConstraint and the setters of the model's name, path and commit
LEMMA OtherCallsAreAlike ==
  ASSUME copy \in Model, mirror \in Model, IsCopy(mirror, copy), WellFormed(mirror), copy # Nil,
         NEW mod \in Modification, mod.op \in {"SetRoot", "AddConstraint", "SetInfo"},
         Owned(mod) \cap Allocated = {}, Proper(mirror, Mirrored(mod))
  PROVE  /\ Mirrored(mod) \in Modification /\ Translated(mod) = mod
         /\ Alike(Outcomes(mirror, Mirrored(mod)), Outcomes(copy, mod))
  <1> DEFINE back(x) == IF x \in Objects(copy) \cup Owned(mod) THEN Twin[x] ELSE x
  <1>1. Translated(mod) = mod
    BY DEF Translated, RefersToFeature
  <1>2. IsTree(mirror)
    BY WellFormedIsTree
  <1>3. CASE mod.op = "SetRoot"
    <2>1. mod.feature \in RootFeature /\ Owned(mod) = {mod.feature} /\ Twin[mod.feature] \in RootFeature
          /\ mod = [op |-> "SetRoot", feature |-> mod.feature]
      BY <1>3, CopyAssumption DEF Modification, Owned
    <2>2. mod.feature \notin Live(copy)
      BY <2>1 DEF Allocated, Objects
    <2>3. Mirrored(mod) = [op |-> "SetRoot", feature |-> Twin[mod.feature]]
      <3>1. Mirrored(mod) = [mod EXCEPT !.feature = back(mod.feature)]
        BY <1>3 DEF Mirrored
      <3>2. back(mod.feature) = Twin[mod.feature]
        BY <2>1
      <3> HIDE DEF back
      <3> QED
        BY <2>1, <3>1, <3>2
    <2>4. MaySetRoot(mirror, Twin[mod.feature])
      BY <2>3 DEF Proper
    <2>5. Alike(SetRoot(mirror, Twin[mod.feature], Live(mirror)), SetRoot(copy, mod.feature, Live(copy)))
      BY <2>1, <2>2, <2>4, SetRootsAreAlike
    <2>6. /\ Outcomes(mirror, Mirrored(mod)) = SetRoot(mirror, Twin[mod.feature], Live(mirror))
          /\ Outcomes(copy, mod) = SetRoot(copy, mod.feature, Live(copy))
      BY <1>3, <2>3 DEF Outcomes, OutcomesAmong
    <2>7. Mirrored(mod) \in Modification
      BY <2>1, <2>3 DEF Modification
    <2> QED
      BY <1>1, <2>5, <2>6, <2>7
  <1>4. CASE mod.op = "AddConstraint"
    <2>1. mod.constraint \in Constraint /\ Owned(mod) = {mod.constraint}
          /\ mod = [op |-> "AddConstraint", constraint |-> mod.constraint]
          /\ Twin[mod.constraint] \in Constraint
      BY <1>4, CopyAssumption DEF Modification, Owned
    <2>2. Mirrored(mod) = [op |-> "AddConstraint", constraint |-> Twin[mod.constraint]]
      <3>1. Mirrored(mod) = [mod EXCEPT !.constraint = back(mod.constraint)]
        BY <1>4 DEF Mirrored, RefersToFeature
      <3>2. back(mod.constraint) = Twin[mod.constraint]
        BY <2>1
      <3> HIDE DEF back
      <3> QED
        BY <2>1, <3>1, <3>2
    <2>3. Alike(AddConstraint(mirror, Twin[mod.constraint]), AddConstraint(copy, mod.constraint))
      BY <1>2, <2>1, AddConstraintsAreAlike
    <2>4. /\ Outcomes(mirror, Mirrored(mod)) = AddConstraint(mirror, Twin[mod.constraint])
          /\ Outcomes(copy, mod) = AddConstraint(copy, mod.constraint)
      BY <1>4, <2>2 DEF Outcomes, OutcomesAmong
    <2>5. Mirrored(mod) \in Modification
      BY <2>1, <2>2 DEF Modification
    <2> QED
      BY <1>1, <2>3, <2>4, <2>5
  <1>5. CASE mod.op = "SetInfo"
    <2>1. Mirrored(mod) = mod
      BY <1>5 DEF Mirrored, RefersToFeature
    <2>2. /\ Outcomes(mirror, mod) = SetInfo(mirror, mod.field, mod.text)
          /\ Outcomes(copy, mod) = SetInfo(copy, mod.field, mod.text)
      BY <1>5 DEF Outcomes, OutcomesAmong
    <2> QED
      BY <1>1, <2>1, <2>2, SetInfosAreAlike
  <1> QED
    BY <1>3, <1>4, <1>5

-------------------------------------------------------------------------------
(* A modification adds to the model what it owns, and nothing else *)

Tidy(m, m2, S) ==
  /\ Live(m2) \cup m2.constraints \subseteq Live(m) \cup m.constraints \cup S
  /\ OnlyItsLocations(m) => OnlyItsLocations(m2)

\* When nodes N are destroyed and objects S are added, and a constraint may come
\* to it, the model stays tidy.
LEMMA TidyWhen ==
  ASSUME NEW m \in Model, NEW m2, NEW S, NEW N,
         m.features \ N \subseteq m2.features, m2.features \subseteq m.features \cup S,
         m2.relationships \subseteq m.relationships \cup S,
         m2.constraints \subseteq m.constraints \cup S,
         m2.locations = Left(m, N)
  PROVE  Tidy(m, m2, S)
  <1>1. Live(m2) \cup m2.constraints \subseteq Live(m) \cup m.constraints \cup S
    BY DEF Live
  <1>2. ASSUME OnlyItsLocations(m), NEW f \in Feature \ m2.features, NEW l \in Location
        PROVE  m2.locations[f][l] = 0
    <2>1. f \in N \/ f \notin m.features
      BY <1>2
    <2> QED
      BY <1>2, <2>1 DEF Left, OnlyItsLocations
  <1> QED
    BY <1>1, <1>2 DEF Tidy, OnlyItsLocations

\* Where nothing is destroyed, the locations stay.
LEMMA NothingLeft ==
  ASSUME NEW m \in Model
  PROVE  m.locations = Left(m, {}) /\ \A S : Tidy(m, m, S)
  <1>1. m.locations = Left(m, {})
    BY ModelFields DEF Left
  <1> QED
    BY <1>1 DEF Tidy

\* Inserting a feature adds that feature only.
LEMMA InsertIsTidy ==
  ASSUME NEW m \in Model, NEW f \in Feature, NEW p \in Node
  PROVE  Tidy(m, Insert(m, f, p), {f})
  <1>1. /\ Insert(m, f, p).features = m.features \cup {f}
        /\ Insert(m, f, p).relationships = m.relationships
        /\ Insert(m, f, p).constraints = m.constraints
    BY DEF Insert, Model
  <1>2. Insert(m, f, p).locations = m.locations
    BY InsertData
  <1> QED
    BY <1>1, <1>2, NothingLeft, TidyWhen

\* Taking nodes out of the tree adds nothing.
LEMMA UnlinkedIsTidy ==
  ASSUME NEW m \in Model, NEW f \in Feature, NEW N \in SUBSET Node
  PROVE  Tidy(m, Unlinked(m, f, N), {})
  <1>1. /\ Unlinked(m, f, N).features = m.features \ N
        /\ Unlinked(m, f, N).relationships = m.relationships \ N
        /\ Unlinked(m, f, N).constraints = m.constraints
    <2> DEFINE n == [m EXCEPT !.edges = @ \ {<<m.parent[f], f>>}, !.root = IF @ = f THEN Nil ELSE @]
    <2>1. /\ n.features = m.features /\ n.relationships = m.relationships
          /\ n.constraints = m.constraints
      BY DEF Model
    <2>2. DOMAIN n = {"features", "relationships", "root", "parent", "edges", "constraints", "bound",
                      "locations", "output", "info"}
      BY DEF Model
    <2>3. Unlinked(m, f, N) = Destroy(n, N)
      BY DEF Unlinked
    <2> HIDE DEF n
    <2> QED
      BY <2>1, <2>2, <2>3 DEF Destroy
  <1>2. Unlinked(m, f, N).locations = Left(m, N)
    BY UnlinkedData
  <1> QED
    BY <1>1, <1>2, TidyWhen

\* Inserting a group adds that group only.
LEMMA GroupedIsTidy ==
  ASSUME NEW m \in Model, NEW r \in Relationship, NEW p \in Node
  PROVE  Tidy(m, Grouped(m, r, p), {r})
  <1>1. /\ Grouped(m, r, p).features = m.features
        /\ Grouped(m, r, p).relationships = m.relationships \cup {r}
        /\ Grouped(m, r, p).constraints = m.constraints
    BY DEF Grouped, Model
  <1>2. Grouped(m, r, p).locations = m.locations
    BY GroupedData
  <1> QED
    BY <1>1, <1>2, NothingLeft, TidyWhen

\* Removing a group adds nothing.
LEMMA UngroupedIsTidy ==
  ASSUME NEW m \in Model, NEW p \in Node, NEW r \in Relationship
  PROVE  Tidy(m, Ungrouped(m, p, r), {})
  <1>1. /\ Ungrouped(m, p, r).features = m.features \ {r}
        /\ Ungrouped(m, p, r).relationships = m.relationships \ {r}
        /\ Ungrouped(m, p, r).constraints = m.constraints
    <2> DEFINE in == FeatureChildren(m, r)
               n == [m EXCEPT !.parent = [x \in Node |-> IF x \in in THEN p ELSE @[x]],
                              !.edges = (@ \ (({r} \X in) \cup {<<p, r>>})) \cup ({p} \X in)]
    <2>1. /\ n.features = m.features /\ n.relationships = m.relationships
          /\ n.constraints = m.constraints
      BY DEF Model
    <2>2. DOMAIN n = {"features", "relationships", "root", "parent", "edges", "constraints", "bound",
                      "locations", "output", "info"}
      BY DEF Model
    <2>3. Ungrouped(m, p, r) = Destroy(n, {r})
      BY DEF Ungrouped
    <2> HIDE DEF n
    <2> QED
      BY <2>1, <2>2, <2>3 DEF Destroy
  <1>2. Ungrouped(m, p, r).locations = m.locations
    BY UngroupedData
  <1>3. m.features \ {} \subseteq Ungrouped(m, p, r).features
    BY <1>1, ModelFields, TwinIs
  <1> QED
    BY <1>1, <1>2, <1>3, NothingLeft, TidyWhen

\* addFeature adds that feature only.
LEMMA AddFeatureIsTidy ==
  ASSUME NEW m \in Model, NEW f \in Feature, NEW p \in Feature \cup {Nil}, NEW o \in AddFeature(m, f, p, Live(m))
  PROVE  Tidy(m, o.model, {f})
  <1> DEFINE p2 == IF p # Nil THEN p ELSE m.root
             m2 == [m EXCEPT !.features = @ \cup {f}]
  <1>1. \/ o.model = m
        \/ o.model = m2
        \/ p2 \in Live(m) /\ o.model = Insert(m, f, p2)
    BY DEF AddFeature, Fails, Succeeds, Undefined, Outcome
  <1>2. /\ m2.features = m.features \cup {f} /\ m2.relationships = m.relationships
        /\ m2.constraints = m.constraints /\ m2.locations = m.locations
    BY DEF Model
  <1> HIDE DEF m2, p2
  <1>3. Tidy(m, m2, {f})
    BY <1>2, NothingLeft, TidyWhen
  <1>4. ASSUME p2 \in Live(m) PROVE Tidy(m, Insert(m, f, p2), {f})
    <2>1. p2 \in Node
      BY <1>4, ModelFields
    <2> QED
      BY <2>1, InsertIsTidy
  <1> QED
    BY <1>1, <1>3, <1>4, NothingLeft

\* removeFeature adds nothing.
LEMMA RemoveFeatureIsTidy ==
  ASSUME NEW m \in Model, NEW ref \in Feature \cup Name, NEW recursive \in BOOLEAN,
         NEW o \in RemoveFeature(m, ref, recursive, Live(m))
  PROVE  Tidy(m, o.model, {})
  <1> DEFINE f == Resolve(m, ref)
             D == Subtree(m, f)
  <1>1. \/ o.model = m
        \/ f \in m.features /\ o.model = Pruned(m, D)
        \/ f \in m.features /\ \E N \in SUBSET Node : o.model = Unlinked(m, f, N)
    <2>0. f \in Live(m) => f \in m.features
      <3>1. f \in Feature \cup {Nil}
        BY ModelFields, GetFeatureFinds DEF Resolve
      <3> QED
        BY <3>1, ModelFields, TwinIs DEF Live
    <2>1. CASE f = Nil \/ f \notin m.features
      BY <2>0, <2>1 DEF RemoveFeature, Fails, Undefined, Outcome
    <2>2. CASE f # Nil /\ f \in m.features /\ recursive
      BY <2>2 DEF RemoveFeature, RemoveSubtree, Succeeds, Undefined, Outcome
    <2>3. CASE f # Nil /\ f \in m.features /\ ~recursive
      <3>1. o \in RemoveLeaf(m, f, Live(m)) \/ o.model = m
        BY <2>3 DEF RemoveFeature, Undefined, Outcome
      <3> DEFINE removals == IF RelationshipChildren(m, f) = {} THEN {{}}
                             ELSE {{r} : r \in RelationshipChildren(m, f)}
                 results(R) == IF m.parent[f] \notin Live(m) \ R THEN Undefined(m)
                               ELSE Succeeds(Unlinked(m, f, Erased(m, {f}) \cup R))
      <3>2. \A R \in removals : R \subseteq Relationship
        BY DEF RelationshipChildren
      <3>3. o.model = m \/ \E R \in removals : o \in results(R)
        <4> DEFINE parts == UNION {results(R) : R \in removals}
        <4>1. RemoveLeaf(m, f, Live(m)) \in {Undefined(m), Fails(m, "NON_LEAF_NODE"), parts}
          <5> HIDE DEF Undefined, Fails, Succeeds
          <5> QED
            BY DEF RemoveLeaf
        <4>2. o \in Undefined(m) \cup Fails(m, "NON_LEAF_NODE") \cup parts \/ o.model = m
          BY <3>1, <4>1, Zenon
        <4>3. o \in Undefined(m) \cup Fails(m, "NON_LEAF_NODE") => o.model = m
          BY DEF Undefined, Fails, Outcome
        <4> HIDE DEF results, removals
        <4>4. o \in parts => \E R \in removals : o \in results(R)
          OBVIOUS
        <4> HIDE DEF parts
        <4> QED
          BY <4>2, <4>3, <4>4
      <3> HIDE DEF removals, f
      <3>4. \A R \in removals : Erased(m, {f}) \cup R \in SUBSET Node
        BY <3>2, ModelFields, TwinIs DEF Erased
      <3>5. \A R \in removals : o \in results(R) =>
              o.model = m \/ o.model = Unlinked(m, f, Erased(m, {f}) \cup R)
        BY DEF Succeeds, Undefined, Outcome
      <3> QED
        BY <2>3, <3>3, <3>4, <3>5
    <2> QED
      BY <2>1, <2>2, <2>3
  <1>2. ASSUME f \in m.features PROVE Tidy(m, Pruned(m, D), {})
    <2>1. D \in SUBSET Feature
      BY DEF Subtree
    <2> DEFINE N == Erased(m, D) \cup GroupsOf(m, D)
    <2>2. /\ Pruned(m, D).features = m.features \ N
          /\ Pruned(m, D).relationships = m.relationships \ N
          /\ Pruned(m, D).constraints = m.constraints
      BY <2>1, PrunedType
    <2>3. Pruned(m, D).locations = Left(m, Erased(m, D))
      BY <2>1, PrunedData
    <2>4. Left(m, Erased(m, D)) = Left(m, N)
      <3>1. \A x \in Feature : x \in N <=> x \in Erased(m, D)
        BY TwinIs DEF GroupsOf
      <3> HIDE DEF N, D
      <3> QED
        BY <3>1 DEF Left
    <2> HIDE DEF N, D
    <2> QED
      BY <2>2, <2>3, <2>4, TidyWhen
  <1>3. ASSUME f \in m.features, NEW N \in SUBSET Node PROVE Tidy(m, Unlinked(m, f, N), {})
    <2>1. f \in Feature
      BY <1>3, ModelFields
    <2> QED
      BY <1>3, <2>1, UnlinkedIsTidy
  <1> QED
    BY <1>1, <1>2, <1>3, NothingLeft

\* addRelationship adds that group only, and removeRelationship nothing.
LEMMA RelationshipsAreTidy ==
  ASSUME NEW m \in Model, NEW ref \in Feature \cup Name
  PROVE  /\ \A r \in Relationship : \A o \in AddRelationship(m, r, ref, Live(m)) : Tidy(m, o.model, {r})
         /\ \A o \in RemoveRelationship(m, ref, Live(m)) : Tidy(m, o.model, {})
  <1> DEFINE p == Resolve(m, ref)
  <1>0. p \in Live(m) => p \in m.features
    <2>1. p \in Feature \cup {Nil}
      BY ModelFields, GetFeatureFinds DEF Resolve
    <2> QED
      BY <2>1, ModelFields, TwinIs DEF Live
  <1>1. ASSUME NEW r \in Relationship, NEW o \in AddRelationship(m, r, ref, Live(m))
        PROVE  Tidy(m, o.model, {r})
    <2>1. o.model = m \/ (p \in m.features /\ o.model = Grouped(m, r, p))
      BY <1>0, <1>1 DEF AddRelationship, Succeeds, Undefined, Outcome
    <2>2. ASSUME p \in m.features PROVE Tidy(m, Grouped(m, r, p), {r})
      <3>1. p \in Node
        BY <2>2, ModelFields DEF Node
      <3> QED
        BY <1>1, <3>1, GroupedIsTidy
    <2> QED
      BY <2>1, <2>2, NothingLeft
  <1>2. ASSUME NEW o \in RemoveRelationship(m, ref, Live(m))
        PROVE  Tidy(m, o.model, {})
    <2> DEFINE groups == RelationshipChildren(m, p)
               results == UNION {IF WalkIsSafe(m, r, Relationship, Live(m))
                                 THEN Succeeds(Ungrouped(m, p, r)) ELSE Undefined(m) : r \in groups}
    <2>1. o.model = m \/ (p \in m.features /\ o \in results)
      BY <1>0, <1>2 DEF RemoveRelationship, Fails, Undefined, Outcome
    <2>2. groups \subseteq Relationship
      BY DEF RelationshipChildren
    <2>3. o \in results => o.model = m \/ \E r \in Relationship : o.model = Ungrouped(m, p, r)
      <3> HIDE DEF groups, p
      <3> QED
        BY <2>2 DEF Succeeds, Undefined, Outcome
    <2>4. ASSUME p \in m.features, NEW r \in Relationship PROVE Tidy(m, Ungrouped(m, p, r), {})
      <3>1. p \in Node
        BY <2>4, ModelFields DEF Node
      <3> QED
        BY <2>4, <3>1, UngroupedIsTidy
    <2> HIDE DEF results
    <2> QED
      BY <2>1, <2>3, <2>4, NothingLeft
  <1> QED
    BY <1>1, <1>2

\* setRoot adds that root only.
LEMMA SetRootIsTidy ==
  ASSUME NEW m \in Model, NEW f \in RootFeature, NEW o \in SetRoot(m, f, Live(m))
  PROVE  Tidy(m, o.model, {f})
  <1> DEFINE m2 == [m EXCEPT !.features = @ \cup {f}, !.root = f]
             n == [m EXCEPT !.features = @ \cup {f}, !.root = f,
                            !.parent = [x \in Node |-> IF x \in Targets(m, {m.root}) THEN f ELSE @[x]],
                            !.edges = @ \cup ({f} \X Targets(m, {m.root}))]
  <1>1. \/ o.model = m
        \/ o.model = m2
        \/ m.root # Nil /\ o.model = RootReplaced(m, f)
    BY DEF SetRoot, Fails, Succeeds, Undefined, Outcome
  <1>2. /\ m2.features = m.features \cup {f} /\ m2.relationships = m.relationships
        /\ m2.constraints = m.constraints /\ m2.locations = m.locations
    BY DEF Model
  <1>3. /\ RootReplaced(m, f) = Destroy(n, {m.root})
        /\ n.features = m.features \cup {f} /\ n.relationships = m.relationships
        /\ n.constraints = m.constraints
        /\ DOMAIN n = {"features", "relationships", "root", "parent", "edges", "constraints", "bound",
                       "locations", "output", "info"}
    BY DEF RootReplaced, Model
  <1> HIDE DEF m2, n
  <1>4. Tidy(m, m2, {f})
    BY <1>2, NothingLeft, TidyWhen
  <1>5. Tidy(m, RootReplaced(m, f), {f})
    <2>1. /\ RootReplaced(m, f).features = (m.features \cup {f}) \ {m.root}
          /\ RootReplaced(m, f).relationships = m.relationships \ {m.root}
          /\ RootReplaced(m, f).constraints = m.constraints
      BY <1>3 DEF Destroy
    <2>2. RootReplaced(m, f).locations = Left(m, {m.root})
      BY RootReplacedData
    <2> QED
      BY <2>1, <2>2, TidyWhen
  <1> QED
    BY <1>1, <1>4, <1>5, NothingLeft

\* Locations are only given to, and taken from, features of the model.
LEMMA LocationIsTidy ==
  ASSUME NEW m \in Model, NEW ref \in Feature \cup Name, NEW l \in Location,
         NEW o \in AddLocation(m, ref, l, Live(m)) \cup RemoveLocation(m, ref, l, Live(m))
  PROVE  Tidy(m, o.model, {})
  <1> DEFINE f == Resolve(m, ref)
             v == m.locations[f][l]
             more == [m EXCEPT !.locations[f][l] = v + 1]
             less == [m EXCEPT !.locations[f][l] = v - 1]
  <1>0. f \in Live(m) => f \in m.features
    <2>1. f \in Feature \cup {Nil}
      BY ModelFields, GetFeatureFinds DEF Resolve
    <2> QED
      BY <2>1, ModelFields, TwinIs DEF Live
  <1>1. o.model = m \/ (f \in m.features /\ o.model \in {more, less})
    BY <1>0 DEF AddLocation, RemoveLocation, Succeeds, Undefined, Outcome
  <1>2. ASSUME NEW m2 \in {more, less}
        PROVE  /\ m2.features = m.features /\ m2.relationships = m.relationships
               /\ m2.constraints = m.constraints
               /\ \A g \in Feature \ {f} : m2.locations[g] = m.locations[g]
    <2>1. m2 = more \/ m2 = less
      BY <1>2
    <2> HIDE DEF f, v
    <2> QED
      BY <2>1 DEF Model
  <1>3. ASSUME f \in m.features, NEW m2 \in {more, less} PROVE Tidy(m, m2, {})
    <2> HIDE DEF f, more, less
    <2>1. Live(m2) \cup m2.constraints \subseteq Live(m) \cup m.constraints \cup {}
      BY <1>2, <1>3 DEF Live
    <2>2. OnlyItsLocations(m) => OnlyItsLocations(m2)
      BY <1>2, <1>3 DEF OnlyItsLocations
    <2> QED
      BY <2>1, <2>2 DEF Tidy
  <1> QED
    BY <1>1, <1>3, NothingLeft

\* addConstraint adds that constraint only.
LEMMA ConstraintIsTidy ==
  ASSUME NEW m \in Model, NEW k, NEW o \in AddConstraint(m, k)
  PROVE  Tidy(m, o.model, {k})
  <1> DEFINE found == {f \in m.features : NameOf[f] \in Mentions[k]}
             m2 == [m EXCEPT !.constraints = @ \cup {k}, !.bound = @ \cup ({k} \X found)]
  <1>1. o.model = m2
    BY DEF AddConstraint, Fails, Succeeds, Outcome
  <1>2. /\ m2.features = m.features /\ m2.relationships = m.relationships
        /\ m2.constraints = m.constraints \cup {k} /\ m2.locations = m.locations
    <2> HIDE DEF found
    <2> QED
      BY DEF Model
  <1> HIDE DEF m2
  <1> QED
    BY <1>1, <1>2, NothingLeft, TidyWhen

\* The calls that set texts or move a feature add nothing.
LEMMA OthersAreTidy ==
  ASSUME NEW m \in Model
  PROVE  /\ \A field, text : \A o \in SetInfo(m, field, text) : Tidy(m, o.model, {})
         /\ \A p, c : \A o \in AddChild(m, p, c, Live(m)) : Tidy(m, o.model, {})
  <1>1. ASSUME NEW field, NEW text, NEW o \in SetInfo(m, field, text) PROVE Tidy(m, o.model, {})
    <2> DEFINE m2 == [m EXCEPT !.info[field] = text]
    <2>1. o.model = m2
      BY <1>1 DEF SetInfo, Succeeds, Outcome
    <2>2. /\ m2.features = m.features /\ m2.relationships = m.relationships
          /\ m2.constraints = m.constraints /\ m2.locations = m.locations
      BY DEF Model
    <2> HIDE DEF m2
    <2> QED
      BY <2>1, <2>2, NothingLeft, TidyWhen
  <1>2. ASSUME NEW p, NEW c, NEW o \in AddChild(m, p, c, Live(m)) PROVE Tidy(m, o.model, {})
    <2> DEFINE m2 == Attached(m, Resolve(m, p), Resolve(m, c))
    <2>1. o.model = m \/ o.model = m2
      BY <1>2 DEF AddChild, Fails, Succeeds, Undefined, Outcome
    <2>2. /\ m2.features = m.features /\ m2.relationships = m.relationships
          /\ m2.constraints = m.constraints /\ m2.locations = m.locations
      BY DEF Attached, Model
    <2> HIDE DEF m2
    <2> QED
      BY <2>1, <2>2, NothingLeft, TidyWhen
  <1> QED
    BY <1>1, <1>2

\* For every modification
LEMMA OutcomesAreTidy ==
  ASSUME NEW m \in Model, NEW mod \in Modification, NEW o \in Outcomes(m, mod)
  PROVE  Tidy(m, o.model, Owned(mod))
  <1>1. CASE mod.op = "AddFeature"
    <2>1. mod.feature \in Feature /\ mod.parent \in Feature \cup {Nil} /\ Owned(mod) = {mod.feature}
          /\ o \in AddFeature(m, mod.feature, mod.parent, Live(m))
      BY <1>1 DEF Modification, Outcomes, OutcomesAmong, Owned
    <2> QED
      BY <2>1, AddFeatureIsTidy
  <1>2. CASE mod.op = "RemoveFeature"
    <2>1. mod.ref \in Feature \cup Name /\ mod.recursive \in BOOLEAN /\ Owned(mod) = {}
          /\ o \in RemoveFeature(m, mod.ref, mod.recursive, Live(m))
      BY <1>2 DEF Modification, Outcomes, OutcomesAmong, Owned
    <2> QED
      BY <2>1, RemoveFeatureIsTidy
  <1>3. CASE mod.op \in {"AddRelationship", "RemoveRelationship"}
    <2>1. mod.ref \in Feature \cup Name
      BY <1>3 DEF Modification
    <2>2. CASE mod.op = "AddRelationship"
      <3>1. mod.relationship \in Relationship /\ Owned(mod) = {mod.relationship}
            /\ o \in AddRelationship(m, mod.relationship, mod.ref, Live(m))
        BY <2>2 DEF Modification, Outcomes, OutcomesAmong, Owned
      <3> QED
        BY <2>1, <3>1, RelationshipsAreTidy
    <2>3. CASE mod.op = "RemoveRelationship"
      <3>1. Owned(mod) = {} /\ o \in RemoveRelationship(m, mod.ref, Live(m))
        BY <2>3 DEF Outcomes, OutcomesAmong, Owned
      <3> QED
        BY <2>1, <3>1, RelationshipsAreTidy
    <2> QED
      BY <1>3, <2>2, <2>3
  <1>4. CASE mod.op \in {"AddLocation", "RemoveLocation"}
    <2>1. mod.ref \in Feature \cup Name /\ mod.location \in Location /\ Owned(mod) = {}
      BY <1>4 DEF Modification, Owned
    <2>2. o \in AddLocation(m, mod.ref, mod.location, Live(m)) \cup RemoveLocation(m, mod.ref, mod.location, Live(m))
      BY <1>4 DEF Outcomes, OutcomesAmong
    <2> QED
      BY <2>1, <2>2, LocationIsTidy
  <1>5. CASE mod.op = "AddConstraint"
    <2>1. Owned(mod) = {mod.constraint} /\ o \in AddConstraint(m, mod.constraint)
      BY <1>5 DEF Outcomes, OutcomesAmong, Owned
    <2> QED
      BY <2>1, ConstraintIsTidy
  <1>6. CASE mod.op = "SetRoot"
    <2>1. mod.feature \in RootFeature /\ Owned(mod) = {mod.feature} /\ o \in SetRoot(m, mod.feature, Live(m))
      BY <1>6 DEF Modification, Outcomes, OutcomesAmong, Owned
    <2> QED
      BY <2>1, SetRootIsTidy
  <1>7. CASE mod.op = "SetInfo"
    <2>1. Owned(mod) = {} /\ o \in SetInfo(m, mod.field, mod.text)
      BY <1>7 DEF Outcomes, OutcomesAmong, Owned
    <2> QED
      BY <2>1, OthersAreTidy
  <1>8. CASE mod.op = "AddChild"
    <2>1. Owned(mod) = {} /\ o \in AddChild(m, mod.parent, mod.child, Live(m))
      BY <1>8 DEF Outcomes, OutcomesAmong, Owned
    <2> QED
      BY <2>1, OthersAreTidy
  <1> QED
    BY <1>1, <1>2, <1>3, <1>4, <1>5, <1>6, <1>7, <1>8 DEF Modification

-------------------------------------------------------------------------------
(* The inductive invariant *)

\* A model of the client
Kept(m) == m \in Model /\ WellFormed(m) /\ OnlyItsLocations(m)

\* The transaction's model is a copy of what the calls made of the original.  A
\* second root is all that may be wrong with it.
CopyKept(c, m) ==
  /\ c \in Model /\ m \in Model /\ IsCopy(m, c)
  /\ EdgesMatchParents(m) /\ ConstraintsBound(m) /\ OnlyItsLocations(m)
  /\ c.root \in c.features
  /\ ~TwoRoots(c) => WellFormed(m)

Apart == Objects(FM) \cap (Objects(copy) \cup Objects(handedOut)) = {}
         /\ Objects(copy) \cap Objects(handedOut) = {}

CopyInv ==
  /\ Kept(FM)
  /\ handedOut # Nil => Kept(handedOut)
  /\ copy # Nil => CopyKept(copy, mirror)
  /\ Apart
  /\ answer # "UB"

\* The null pointer is not a model and has no objects.
LEMMA ModelIsNotNil ==
  /\ \A m \in Model : m # Nil
  /\ \A m \in Model : Objects(m) = Live(m) \cup m.constraints
  BY CopyAssumption DEF Objects

\* What is kept of the mirror is kept of its copy.
LEMMA WellFormedIsKept ==
  ASSUME NEW m \in Model, NEW c \in Model, IsCopy(m, c), WellFormed(m), OnlyItsLocations(m)
  PROVE  CopyKept(c, m)
  <1>1. WellFormed(c)
    BY CopyOfWellFormed
  <1>2. c.root \in c.features
    BY <1>1 DEF WellFormed, Rooted
  <1> QED
    BY <1>2 DEF CopyKept, WellFormed

\* A second root is added without harm to the edges.
LEMMA AddedRootKeeps ==
  ASSUME NEW m \in Model, NEW c \in Model, IsCopy(m, c), WellFormed(m),
         NEW f \in Feature, f \notin Live(m), NEW q \in m.features \cup {Nil},
         NEW o \in AddFeature(m, f, q, Live(m)), o.model \in Model, OnlyItsLocations(o.model),
         NEW d \in Model, IsCopy(o.model, d)
  PROVE  o.code # "UB" /\ CopyKept(d, o.model)
  <1> DEFINE p == IF q # Nil THEN q ELSE m.root
             m2 == Insert(m, f, p)
  <1>1. /\ IsTree(m) /\ m.root \in m.features /\ m.features \subseteq Feature /\ f \in Node
        /\ EdgesMatchParents(m) /\ ConstraintsBound(m) /\ m.features \cap RootFeature = {m.root}
        /\ m.root # Nil /\ f # Nil
    <2>1. IsTree(m)
      BY WellFormedIsTree
    <2>2. /\ m.root \in m.features /\ EdgesMatchParents(m) /\ ConstraintsBound(m)
          /\ m.features \cap RootFeature = {m.root}
      BY DEF Rooted, NamesIdentify, WellFormed
    <2>3. m.features \subseteq Feature
      BY ModelFields
    <2> QED
      BY <2>1, <2>2, <2>3, TwinIs
  <1>2. p \in m.features /\ p \in Live(m) /\ p \in Node /\ p # Nil /\ p # f
    BY <1>1, TwinIs DEF Live
  <1>3. \/ o = Outcome(m, "ALREADY_PRESENT")
        \/ o = Outcome(m2, "OK") /\ GetFeature(m, NameOf[f]) = Nil
    BY <1>2 DEF AddFeature, Fails, Succeeds
  <1> HIDE DEF p
  <1>4. CASE o = Outcome(m, "ALREADY_PRESENT")
    <2>1. o.model = m /\ o.code = "ALREADY_PRESENT"
      BY <1>4 DEF Outcome
    <2> QED
      BY <2>1, WellFormedIsKept
  <1>5. CASE o = Outcome(m2, "OK") /\ GetFeature(m, NameOf[f]) = Nil
    <2>1. o.model = m2 /\ o.code = "OK"
      BY <1>5 DEF Outcome
    <2>2. /\ m2 \in Model /\ m2.features = m.features \cup {f}
          /\ m2.relationships = m.relationships /\ m2.root = m.root
          /\ m2.parent = [m.parent EXCEPT ![f] = p]
          /\ m2.edges = m.edges \cup {<<p, f>>}
          /\ m2.constraints = m.constraints /\ m2.bound = m.bound
      BY <1>2, InsertType
    <2> HIDE DEF m2
    <2>3. CASE f \in RootFeature
      <3>1. EdgesMatchParents(m2)
        <4>1. m.parent[f] = Nil /\ m.parent \in [Node -> Node \cup {Nil}]
          BY <1>1, NoParent, ModelFields
        <4>2. ASSUME NEW e \in m2.edges
              PROVE  e[1] \in Live(m2) /\ e[2] \in Live(m2) /\ m2.parent[e[2]] = e[1]
          <5>1. CASE e \in m.edges
            <6>1. e[1] \in Live(m) /\ e[2] \in Live(m) /\ m.parent[e[2]] = e[1]
              BY <1>1, <5>1 DEF EdgesMatchParents
            <6>2. e[2] # f /\ e[2] \in Node
              BY <6>1, ModelFields
            <6> QED
              BY <2>2, <4>1, <6>1, <6>2 DEF Live
          <5>2. CASE e = <<p, f>>
            BY <1>1, <1>2, <2>2, <4>1, <5>2 DEF Live
          <5> QED
            BY <2>2, <4>2, <5>1, <5>2
        <4>3. ASSUME NEW n \in Node, m2.parent[n] # Nil PROVE <<m2.parent[n], n>> \in m2.edges
          BY <1>1, <2>2, <4>1, <4>3 DEF EdgesMatchParents
        <4> QED
          BY <4>2, <4>3 DEF EdgesMatchParents
      <3>2. ConstraintsBound(m2)
        BY <1>1, <2>2 DEF ConstraintsBound
      <3>3. d.root = Twin[m.root] /\ Twin[m.root] \in Feature /\ Twin[Twin[m.root]] = m.root
        BY <1>1, <2>1, <2>2, TwinIs DEF IsCopy
      <3>4. d.root \in d.features
        BY <1>1, <2>1, <2>2, <3>3 DEF IsCopy
      <3>5. Twin[f] \in d.features /\ Twin[f] \in RootFeature
        BY <2>1, <2>2, <2>3, TwinIs DEF IsCopy
      <3>6. Twin[f] # d.root
        <4>1. f # m.root
          BY <1>1 DEF Live
        <4> QED
          BY <1>1, <3>3, <4>1, TwinIs
      <3>7. TwoRoots(d)
        BY <3>5, <3>6 DEF TwoRoots
      <3> QED
        BY <2>1, <2>2, <3>1, <3>2, <3>4, <3>7 DEF CopyKept
    <2>4. CASE f \notin RootFeature
      <3>1. WellFormed(m2)
        <4>1. \A g \in m.features : NameOf[g] # NameOf[f]
          BY <1>5, GetFeatureFinds
        <4> QED
          BY <1>2, <2>4, <4>1, InsertKeeps DEF m2
      <3> QED
        BY <2>1, <2>2, <3>1, WellFormedIsKept
    <2> QED
      BY <2>3, <2>4
  <1> QED
    BY <1>3, <1>4, <1>5

\* A call is defined, and gives what it gives on the original.
LEMMA CallsAreAlike ==
  ASSUME Kept(FM), CopyKept(copy, mirror), copy # Nil,
         NEW mod \in Modification, mod.op # "AddChild", MayCall(mod)
  PROVE  /\ Mirrored(mod) \in Modification /\ Translated(mod) \in Modification
         /\ Owned(Translated(mod)) = Owned(mod)
         /\ Alike(Outcomes(mirror, Mirrored(mod)), Outcomes(copy, Translated(mod)))
         /\ ~DereferencesNull(mod)
         /\ mod.op = "AddFeature" =>
              /\ Mirrored(mod).op = "AddFeature" /\ Mirrored(mod).parent \in mirror.features \cup {Nil}
              /\ mod.feature \in Feature /\ Mirrored(mod).feature = Twin[mod.feature]
  <1> DEFINE image == Mirrored(mod)
             call == Translated(mod)
  <1>1. /\ copy \in Model /\ mirror \in Model /\ IsCopy(mirror, copy) /\ WellFormed(mirror)
        /\ OnlyItsLocations(mirror) /\ FM \in Model /\ FM # Nil
        /\ Owned(mod) \cap Allocated = {}
        /\ PointsTo(mod) \subseteq Live(FM) \cup (Objects(copy) \cap Node)
        /\ {Twin[x] : x \in Owned(mod)} \cap Objects(mirror) = {}
        /\ mod.op \in RefersToFeature => Finds(mirror, image.ref)
        /\ \/ Proper(mirror, image)
           \/ mod.op = "AddFeature" /\ image.parent \in mirror.features \cup {Nil}
    BY ModelIsNotNil DEF MayCall, TakesEffect, Kept, CopyKept
  <1> HIDE DEF image, call
  <1>2. /\ image \in Modification /\ call \in Modification /\ Owned(call) = Owned(mod)
        /\ Alike(Outcomes(mirror, image), Outcomes(copy, call))
        /\ ~DereferencesNull(mod)
        /\ mod.op = "AddFeature" =>
             /\ image.op = "AddFeature" /\ image.parent \in mirror.features \cup {Nil}
             /\ mod.feature \in Feature /\ image.feature = Twin[mod.feature]
    <2>1. CASE mod.op \in RefersToFeature
      <3>1. Proper(mirror, image) /\ Finds(mirror, image.ref)
        BY <1>1, <2>1 DEF RefersToFeature
      <3>2. /\ image \in Modification /\ call \in Modification /\ Owned(call) = Owned(mod)
            /\ Referred(mod) # Nil
            /\ Alike(Outcomes(mirror, image), Outcomes(copy, call))
        BY <1>1, <2>1, <3>1, ReferringCallsAreAlike DEF image, call
      <3>3. ~DereferencesNull(mod)
        BY <3>2 DEF DereferencesNull
      <3> QED
        BY <2>1, <3>2, <3>3 DEF RefersToFeature
    <2>2. CASE mod.op = "AddFeature"
      <3>1. image.op = "AddFeature"
        BY <2>2 DEF image, Mirrored, Modification
      <3>2. image.parent \in mirror.features \cup {Nil}
        BY <1>1, <3>1 DEF Proper, MayAddFeature
      <3>3. /\ image \in Modification /\ call \in Modification /\ Owned(call) = Owned(mod)
            /\ mod.feature \in Feature /\ image.feature = Twin[mod.feature]
            /\ Alike(Outcomes(mirror, image), Outcomes(copy, call))
        BY <1>1, <2>2, <3>2, AddingCallsAreAlike DEF image, call
      <3>4. ~DereferencesNull(mod)
        BY <2>2 DEF DereferencesNull, RefersToFeature
      <3> QED
        BY <3>1, <3>2, <3>3, <3>4
    <2>3. CASE mod.op \in {"SetRoot", "AddConstraint", "SetInfo"}
      <3>1. Proper(mirror, image)
        BY <1>1, <2>3
      <3>2. image \in Modification /\ call = mod /\ Alike(Outcomes(mirror, image), Outcomes(copy, mod))
        BY <1>1, <2>3, <3>1, OtherCallsAreAlike DEF image, call
      <3>3. ~DereferencesNull(mod)
        BY <2>3 DEF DereferencesNull, RefersToFeature
      <3> QED
        BY <2>3, <3>2, <3>3
    <2>4. mod.op \in RefersToFeature \cup {"AddFeature", "SetRoot", "AddConstraint", "SetInfo"}
      BY DEF Modification, RefersToFeature
    <2> QED
      BY <2>1, <2>2, <2>3, <2>4
  <1> QED
    BY <1>2 DEF image, call

\* A call leaves the copy a copy of what it would have made of the original.
LEMMA CallKeepsCopy ==
  ASSUME Kept(FM), CopyKept(copy, mirror), copy # Nil,
         NEW mod \in Modification, mod.op # "AddChild", MayCall(mod),
         NEW o \in Outcomes(mirror, Mirrored(mod)), NEW p \in Outcomes(copy, Translated(mod))
  PROVE  /\ ~DereferencesNull(mod) /\ p.code # "UB"
         /\ CopyKept(p.model, o.model)
         /\ Objects(p.model) \subseteq Objects(copy) \cup Owned(mod)
  <1> DEFINE image == Mirrored(mod)
             call == Translated(mod)
  <1>1. /\ copy \in Model /\ mirror \in Model /\ IsCopy(mirror, copy) /\ WellFormed(mirror)
        /\ OnlyItsLocations(mirror) /\ FM \in Model /\ FM # Nil
        /\ {Twin[x] : x \in Owned(mod)} \cap Objects(mirror) = {}
        /\ \/ Proper(mirror, image)
           \/ mod.op = "AddFeature" /\ image.parent \in mirror.features \cup {Nil}
    BY ModelIsNotNil DEF MayCall, TakesEffect, Kept, CopyKept
  <1>2. /\ image \in Modification /\ call \in Modification /\ Owned(call) = Owned(mod)
        /\ Alike(Outcomes(mirror, image), Outcomes(copy, call))
        /\ ~DereferencesNull(mod)
        /\ mod.op = "AddFeature" =>
             /\ image.op = "AddFeature" /\ image.parent \in mirror.features \cup {Nil}
             /\ mod.feature \in Feature /\ image.feature = Twin[mod.feature]
    BY CallsAreAlike
  <1> HIDE DEF image, call
  <1>3. o \in Outcomes(mirror, image) /\ p \in Outcomes(copy, call)
    BY DEF image, call
  <1>4. /\ o.model \in Model /\ p.model \in Model
        /\ IsCopy(o.model, p.model) /\ o.code = p.code
        /\ Tidy(mirror, o.model, Owned(image)) /\ Tidy(copy, p.model, Owned(mod))
    <2>1. o.model \in Model /\ p.model \in Model
      BY <1>1, <1>2, <1>3, OutcomesType
    <2>2. Tidy(mirror, o.model, Owned(image)) /\ Tidy(copy, p.model, Owned(mod))
      BY <1>1, <1>2, <1>3, OutcomesAreTidy
    <2> QED
      BY <1>2, <1>3, <2>1, <2>2 DEF Alike
  <1>5. OnlyItsLocations(o.model)
    BY <1>1, <1>4 DEF Tidy
  <1>6. Objects(p.model) \subseteq Objects(copy) \cup Owned(mod)
    BY <1>1, <1>4, ModelIsNotNil DEF Tidy
  <1>7. o.code # "UB" /\ CopyKept(p.model, o.model)
    <2>1. CASE Proper(mirror, image)
      <3>1. o.code # "UB" /\ WellFormed(o.model)
        BY <1>1, <1>2, <1>3, <2>1, ProperIsHarmless DEF Harmless
      <3> QED
        BY <1>4, <1>5, <3>1, WellFormedIsKept
    <2>2. CASE mod.op = "AddFeature"
      <3>1. o \in AddFeature(mirror, image.feature, image.parent, Live(mirror))
        BY <1>2, <1>3, <2>2 DEF Outcomes, OutcomesAmong
      <3>2. Owned(mod) = {mod.feature}
        BY <2>2 DEF Owned
      <3>3. image.feature \in Feature /\ image.feature \notin Live(mirror)
        BY <1>1, <1>2, <2>2, <3>2, ModelIsNotNil, TwinIs
      <3> QED
        BY <1>1, <1>2, <1>4, <1>5, <2>2, <3>1, <3>3, AddedRootKeeps
    <2> QED
      BY <1>1, <2>1, <2>2
  <1> QED
    BY <1>2, <1>4, <1>6, <1>7

-------------------------------------------------------------------------------
(* Each action keeps it *)

\* The invariant holds in the initial states.
LEMMA CopyInvInit == CopyInit => CopyInv
  <1> SUFFICES ASSUME CopyInit PROVE CopyInv
    OBVIOUS
  <1>1. Kept(FM)
    BY CopyAssumption DEF CopyInit, Kept
  <1>2. handedOut = Nil /\ copy = Nil /\ answer # "UB"
    BY DEF CopyInit
  <1>3. Apart
    BY <1>2 DEF Apart, Objects
  <1> QED
    BY <1>1, <1>2, <1>3 DEF CopyInv

\* When the client's model, or what is handed out, is all that is left.
LEMMA DroppedCopy ==
  ASSUME CopyInv, copy' = Nil, answer' # "UB",
         \/ FM' = FM /\ handedOut' = handedOut
         \/ FM' = handedOut /\ handedOut # Nil /\ handedOut' = Nil
  PROVE  CopyInv'
  <1>1. Kept(FM)' /\ (handedOut # Nil => Kept(handedOut))'
    BY DEF CopyInv, Kept, WellFormed
  <1>2. Objects(Nil) = {}
    BY DEF Objects
  <1>3. Apart'
    BY <1>2 DEF CopyInv, Apart, Objects
  <1> QED
    BY <1>1, <1>3 DEF CopyInv

\* What is cloned is as well-formed as the model, and has the same objects, names and
\* parent features.
LEMMA ClonedIs ==
  ASSUME NEW m \in Model, WellFormed(m), OnlyItsLocations(m)
  PROVE  LET c == Cloned(m) IN
         /\ c \in Model /\ WellFormed(c) /\ OnlyItsLocations(c)
         /\ c.features = m.features /\ c.relationships = m.relationships /\ c.root = m.root
         /\ c.constraints = m.constraints /\ c.output = NoOutput
         /\ \A f \in m.features \ {m.root} : ParentFeature(c, f) = ParentFeature(m, f)
         /\ \A f \in Feature \ (RootFeature \cup UnknownFeature) : c.locations[f] = m.locations[f]
  <1> DEFINE g == Regrouped(m)
             c == Cloned(m)
             place == [f \in Feature |-> IF f \in RootFeature \cup UnknownFeature
                                        THEN [l \in Location |-> 0] ELSE g.locations[f]]
  <1>1. /\ EdgesMatchParents(m) /\ Rooted(m) /\ GroupsWellPlaced(m)
        /\ NamesIdentify(m) /\ ConstraintsBound(m)
    BY DEF WellFormed
  <1>2. /\ g \in Model /\ EdgesMatchParents(g) /\ Rooted(g) /\ GroupsWellPlaced(g)
        /\ \A f \in m.features \ {m.root} : ParentFeature(g, f) = ParentFeature(m, f)
    BY <1>1, RegroupedKeeps
  <1>3. /\ g.features = m.features /\ g.relationships = m.relationships /\ g.root = m.root
        /\ g.constraints = m.constraints /\ g.bound = m.bound /\ g.locations = m.locations
    BY <1>1, RegroupedIs
  <1>4. c = [g EXCEPT !.output = NoOutput, !.locations = place]
    <2>1. WithoutOutput(g).locations = g.locations
      BY <1>2 DEF WithoutOutput, Model
    <2> HIDE DEF g
    <2>2. c = [WithoutOutput(g) EXCEPT !.locations = place]
      BY <2>1 DEF Cloned, g
    <2> QED
      BY <1>2, <2>2 DEF WithoutOutput, Model
  <1> HIDE DEF c, g
  <1>5. /\ c.features = g.features /\ c.relationships = g.relationships /\ c.root = g.root
        /\ c.parent = g.parent /\ c.edges = g.edges /\ c.constraints = g.constraints
        /\ c.bound = g.bound /\ c.info = g.info /\ c.locations = place /\ c.output = NoOutput
    BY <1>2, <1>4 DEF Model
  <1>6. m.locations \in [Feature -> [Location -> Nat]] /\ g.locations \in [Feature -> [Location -> Nat]]
    BY <1>3, ModelFields
  <1>7. c \in Model
    <2>1. place \in [Feature -> [Location -> Nat]] /\ NoOutput \in [Feature -> Text \cup {Nil}]
      BY <1>6 DEF NoOutput
    <2> HIDE DEF place
    <2> QED
      BY <1>2, <1>4, <2>1 DEF Model
  <1>8. Live(c) = Live(g) /\ Live(g) = Live(m)
    BY <1>3, <1>5 DEF Live
  <1>9. WellFormed(c)
    <2>1. EdgesMatchParents(c) /\ Rooted(c) /\ GroupsWellPlaced(c)
      BY <1>2, <1>5, <1>8 DEF EdgesMatchParents, Rooted, GroupsWellPlaced
    <2>2. NamesIdentify(c) /\ ConstraintsBound(c)
      BY <1>1, <1>3, <1>5 DEF NamesIdentify, ConstraintsBound
    <2> QED
      BY <2>1, <2>2 DEF WellFormed
  <1>10. /\ \A f \in Feature \ (RootFeature \cup UnknownFeature) : place[f] = m.locations[f]
         /\ \A f \in Feature \cap (RootFeature \cup UnknownFeature) : place[f] = [l \in Location |-> 0]
    BY <1>3
  <1>11. OnlyItsLocations(c)
    <2> HIDE DEF place
    <2> QED
      BY <1>3, <1>5, <1>10 DEF OnlyItsLocations
  <1>12. \A f : ParentFeature(c, f) = ParentFeature(g, f)
    <2>1. \A f : RelationshipsAbove(c, f) = RelationshipsAbove(g, f)
      BY <1>5 DEF RelationshipsAbove
    <2> QED
      BY <1>5, <2>1 DEF ParentFeature
  <1> QED
    BY <1>2, <1>3, <1>5, <1>7, <1>9, <1>10, <1>11, <1>12 DEF c

\* Opening a transaction clones the model.
LEMMA OpenKeeps ==
  ASSUME CopyInv, OpenTransaction
  PROVE  CopyInv'
  <1> DEFINE m == Cloned(FM)
             c == Renamed(m, Twin)
  <1>1. /\ copy' = c /\ mirror' = m /\ FM' = FM /\ handedOut' = Nil
        /\ answer' = "none" /\ {Twin[x] : x \in Objects(FM)} \cap Objects(FM) = {}
    BY DEF OpenTransaction, Allocated
  <1>2. FM \in Model /\ WellFormed(FM) /\ OnlyItsLocations(FM)
    BY DEF CopyInv, Kept
  <1>3. /\ m \in Model /\ WellFormed(m) /\ OnlyItsLocations(m) /\ EdgesMatchParents(m)
        /\ m.features = FM.features /\ m.relationships = FM.relationships /\ m.constraints = FM.constraints
        /\ m.output = NoOutput
    BY <1>2, ClonedIs DEF WellFormed
  <1>4. c \in Model /\ IsCopy(m, c)
    BY <1>3, RenamedIsCopy
  <1> HIDE DEF c, m
  <1>5. CopyKept(c, m)
    BY <1>3, <1>4, WellFormedIsKept
  <1>6. Objects(FM) \cap Objects(c) = {}
    <2>1. /\ Objects(FM) = FM.features \cup FM.relationships \cup FM.constraints
          /\ Objects(c) = c.features \cup c.relationships \cup c.constraints
      BY <1>2, <1>4, ModelIsNotNil DEF Live
    <2>2. c.features \subseteq Feature /\ c.relationships \subseteq Relationship /\ c.constraints \subseteq Constraint
      BY <1>4, ModelFields
    <2>3. ASSUME NEW x \in Objects(c) PROVE Twin[x] \in Objects(FM) /\ Twin[Twin[x]] = x
      BY <1>3, <1>4, <2>1, <2>2, TwinIs DEF IsCopy
    <2> QED
      BY <1>1, <2>3
  <1>7. CopyKept(copy, mirror)'
    BY <1>1, <1>5 DEF CopyKept, TwoRoots, WellFormed
  <1>8. Apart'
    <2>1. Objects(Nil) = {}
      BY DEF Objects
    <2>2. Objects(FM)' = Objects(FM) /\ Objects(copy)' = Objects(c) /\ Objects(handedOut)' = {}
      BY <1>1, <2>1 DEF Objects
    <2> QED
      BY <1>6, <2>2 DEF Apart
  <1>9. Kept(FM)'
    BY <1>1 DEF CopyInv, Kept
  <1> QED
    BY <1>1, <1>7, <1>8, <1>9 DEF CopyInv

\* A call does the same to the copy and to the mirror.
LEMMA CallKeeps ==
  ASSUME CopyInv, NEW mod \in Modification, Call(mod)
  PROVE  CopyInv'
  <1>1. MayCall(mod) /\ UNCHANGED <<FM, handedOut>>
    BY DEF Call
  <1>2. PICK p \in CallOutcomes(mod) : copy' = p.model /\ answer' = p.code
    BY DEF Call
  <1>3. CASE copy = Nil
    <2>1. ~DereferencesNull(mod)
      BY <1>1, <1>3 DEF MayCall, DereferencesNull
    <2>2. p.model = copy /\ p.code # "UB"
      BY <1>2, <1>3, <2>1 DEF CallOutcomes, Succeeds, Outcome
    <2> QED
      BY <1>1, <1>2, <1>3, <2>2, DroppedCopy
  <1>4. CASE copy # Nil /\ mod.op = "AddChild"
    <2>1. ~DereferencesNull(mod)
      BY <1>4 DEF DereferencesNull, RefersToFeature
    <2>2. p.model = copy /\ p.code # "UB"
      BY <1>2, <1>4, <2>1 DEF CallOutcomes, TakesEffect, Succeeds, Outcome
    <2>3. mirror' = mirror
      BY <1>4 DEF Call, TakesEffect
    <2>4. CopyKept(copy, mirror)' /\ Kept(FM)' /\ (handedOut # Nil => Kept(handedOut))' /\ Apart'
      BY <1>1, <1>2, <1>4, <2>2, <2>3 DEF CopyInv, CopyKept, Kept, Apart, Objects, TwoRoots, WellFormed
    <2> QED
      BY <1>2, <2>2, <2>4 DEF CopyInv
  <1>5. CASE copy # Nil /\ mod.op # "AddChild"
    <2>1. PICK o \in Outcomes(mirror, Mirrored(mod)) : mirror' = o.model
      BY <1>5 DEF Call, TakesEffect
    <2>2. Kept(FM) /\ CopyKept(copy, mirror) /\ Apart
      BY <1>5 DEF CopyInv
    <2>3. ~DereferencesNull(mod)
      BY <1>1, <1>5, <2>2, CallsAreAlike
    <2>4. p \in Outcomes(copy, Translated(mod))
      BY <1>2, <1>5, <2>3 DEF CallOutcomes, TakesEffect
    <2>5. /\ p.code # "UB" /\ CopyKept(p.model, o.model)
          /\ Objects(p.model) \subseteq Objects(copy) \cup Owned(mod)
      BY <1>1, <1>5, <2>1, <2>2, <2>4, CallKeepsCopy
    <2>6. CopyKept(copy, mirror)' /\ Kept(FM)' /\ (handedOut # Nil => Kept(handedOut))'
      BY <1>1, <1>2, <2>1, <2>5 DEF CopyInv, CopyKept, Kept, TwoRoots, WellFormed
    <2>7. Apart'
      <3>1. Owned(mod) \cap (Objects(FM) \cup Objects(handedOut)) = {}
        BY <1>1 DEF MayCall, Allocated
      <3>2. /\ Objects(FM)' = Objects(FM) /\ Objects(handedOut)' = Objects(handedOut)
            /\ Objects(copy)' = Objects(p.model)
        BY <1>1, <1>2 DEF Objects
      <3> QED
        BY <2>2, <2>5, <3>1, <3>2 DEF Apart
    <2> QED
      BY <1>2, <2>5, <2>6, <2>7 DEF CopyInv
  <1> QED
    BY <1>3, <1>4, <1>5

\* A copy with two roots is checked without harm and thrown away; any other is a
\* model that can be handed out.
LEMMA CopyIsChecked ==
  ASSUME CopyKept(copy, mirror)
  PROVE  CheckIsSafe(copy, Live(copy)) /\ (IsFeatureModelValid(copy) => Kept(copy))
  <1>1. /\ copy \in Model /\ mirror \in Model /\ IsCopy(mirror, copy) /\ OnlyItsLocations(mirror)
        /\ copy.root \in copy.features /\ (~TwoRoots(copy) => WellFormed(mirror))
    BY DEF CopyKept
  <1>2. CASE TwoRoots(copy)
    <2>1. ~ExactlyOneRootNode(copy)
      BY <1>1, <1>2 DEF TwoRoots, ExactlyOneRootNode
    <2> QED
      BY <1>1, <2>1 DEF CheckIsSafe, IsFeatureModelValid, Live
  <1>3. CASE ~TwoRoots(copy)
    <2>1. WellFormed(copy) /\ OnlyItsLocations(copy)
      BY <1>1, <1>3, CopyOfWellFormed, CopyOfLocations
    <2> QED
      BY <1>1, <2>1, WellFormedIsValid DEF Kept
  <1> QED
    BY <1>2, <1>3

\* Committing hands the copy out.
LEMMA CommitKeeps ==
  ASSUME CopyInv, Commit
  PROVE  CopyInv'
  <1>1. FM' = FM /\ copy' = Nil
    BY DEF Commit
  <1>2. CASE handedOut' = copy /\ answer' = "OK" /\ copy # Nil /\ IsFeatureModelValid(copy)
    <2>1. Kept(FM)' /\ (handedOut # Nil => Kept(handedOut))'
      <3>1. Kept(copy)
        BY <1>2, CopyIsChecked DEF CopyInv
      <3> QED
        BY <1>1, <1>2, <3>1 DEF CopyInv, Kept, WellFormed
    <2>2. Apart'
      <3>1. /\ Objects(FM)' = Objects(FM) /\ Objects(copy)' = {} /\ Objects(handedOut)' = Objects(copy)
        BY <1>1, <1>2 DEF Objects
      <3> QED
        BY <3>1 DEF CopyInv, Apart
    <2> QED
      BY <1>1, <1>2, <2>1, <2>2 DEF CopyInv
  <1>3. CASE handedOut' = handedOut /\ answer' # "UB"
    BY <1>1, <1>3, DroppedCopy
  <1>4. copy # Nil => CheckIsSafe(copy, Live(copy))
    BY CopyIsChecked DEF CopyInv
  <1>5. \/ handedOut' = copy /\ answer' = "OK" /\ copy # Nil /\ IsFeatureModelValid(copy)
        \/ handedOut' = handedOut /\ answer' # "UB"
    BY <1>4 DEF Commit
  <1> QED
    BY <1>2, <1>3, <1>5

\* The client's own edits reach no object of the copy.
LEMMA EditKeeps ==
  ASSUME CopyInv, NEW mod \in Modification, EditOriginal(mod)
  PROVE  CopyInv'
  <1>1. PICK o \in Outcomes(FM, mod) : FM' = o.model
    BY DEF EditOriginal
  <1>2. /\ FM \in Model /\ WellFormed(FM) /\ OnlyItsLocations(FM) /\ Proper(FM, mod)
        /\ Owned(mod) \cap Allocated = {}
        /\ UNCHANGED <<copy, handedOut, answer, mirror>>
    BY DEF CopyInv, Kept, EditOriginal
  <1>3. o.model \in Model /\ WellFormed(o.model)
    <2>1. o.model \in Model
      BY <1>2, OutcomesType
    <2>2. WellFormed(o.model)
      BY <1>2, ProperIsHarmless DEF Harmless
    <2> QED
      BY <2>1, <2>2
  <1>4. Tidy(FM, o.model, Owned(mod))
    BY <1>2, OutcomesAreTidy
  <1>5. OnlyItsLocations(o.model) /\ Objects(o.model) \subseteq Objects(FM) \cup Owned(mod)
    BY <1>2, <1>3, <1>4, ModelIsNotNil DEF Tidy
  <1>6. Kept(FM)'
    BY <1>1, <1>3, <1>5 DEF Kept, WellFormed
  <1>7. Apart'
    <2>1. /\ Objects(FM)' = Objects(o.model) /\ Objects(copy)' = Objects(copy)
          /\ Objects(handedOut)' = Objects(handedOut)
      BY <1>1, <1>2 DEF Objects
    <2> QED
      BY <1>2, <1>5, <2>1 DEF CopyInv, Apart, Allocated
  <1>8. (handedOut # Nil => Kept(handedOut))' /\ (copy # Nil => CopyKept(copy, mirror))' /\ answer' # "UB"
    BY <1>2 DEF CopyInv, Kept, CopyKept, TwoRoots, WellFormed
  <1> QED
    BY <1>6, <1>7, <1>8 DEF CopyInv

\* Every step keeps the invariant.
LEMMA CopyInvNext == CopyInv /\ [CopyNext]_copyVars => CopyInv'
  <1> SUFFICES ASSUME CopyInv, [CopyNext]_copyVars PROVE CopyInv'
    OBVIOUS
  <1>1. Menu \cup EditMenu \subseteq Modification
    BY CopyAssumption
  <1>2. CASE OpenTransaction
    BY <1>2, OpenKeeps
  <1>3. ASSUME NEW mod \in Menu, Call(mod) PROVE CopyInv'
    BY <1>1, <1>3, CallKeeps
  <1>4. CASE Commit
    BY <1>4, CommitKeeps
  <1>5. CASE Abort \/ DestroyTransaction
    BY <1>5, DroppedCopy DEF Abort, DestroyTransaction
  <1>6. ASSUME NEW mod \in EditMenu, EditOriginal(mod) PROVE CopyInv'
    BY <1>1, <1>6, EditKeeps
  <1>7. CASE Adopt
    <2>1. FM' = handedOut /\ handedOut # Nil /\ handedOut' = Nil /\ UNCHANGED <<copy, mirror, answer>>
      BY <1>7 DEF Adopt
    <2>2. (copy # Nil => CopyKept(copy, mirror))'
      BY <2>1 DEF CopyInv, CopyKept, TwoRoots, WellFormed
    <2>3. Kept(FM)'
      BY <2>1 DEF CopyInv, Kept, WellFormed
    <2>4. Apart'
      <3>1. Objects(FM)' = Objects(handedOut) /\ Objects(copy)' = Objects(copy) /\ Objects(handedOut)' = {}
        BY <2>1 DEF Objects
      <3> QED
        BY <3>1 DEF CopyInv, Apart
    <2> QED
      BY <2>1, <2>2, <2>3, <2>4 DEF CopyInv
  <1>8. CASE UNCHANGED copyVars
    BY <1>8 DEF CopyInv, Kept, CopyKept, TwoRoots, WellFormed, Apart, Objects, copyVars
  <1> QED
    BY <1>2, <1>3, <1>4, <1>5, <1>6, <1>7, <1>8 DEF CopyNext

-------------------------------------------------------------------------------
(* What follows *)

\* The inductive invariant of a copying transaction and its client: whatever the
\* calls, the edits of the original and the commits, the copy is a copy of what
\* the calls make of the original, and the models share no object.
THEOREM CopyInvHolds == CopySpec => []CopyInv
  BY CopyInvInit, CopyInvNext, PTL DEF CopySpec

\* The copy is what the calls but addChild, which never reaches it, would have made of
\* the original, whatever the client has done to the original since (translateFeature).
THEOREM CopyFollowsTheModelHolds == CopySpec => []CopyFollowsTheModel
  <1>1. CopyInv => CopyFollowsTheModel
    <2> SUFFICES ASSUME CopyInv, copy # Nil PROVE copy = Renamed(mirror, Twin)
      BY DEF CopyFollowsTheModel
    <2>1. /\ copy \in Model /\ mirror \in Model /\ IsCopy(mirror, copy)
          /\ EdgesMatchParents(mirror) /\ OnlyItsLocations(mirror) /\ mirror.output = NoOutput
      BY DEF CopyInv, CopyKept, IsCopy
    <2>2. Renamed(mirror, Twin) \in Model /\ IsCopy(mirror, Renamed(mirror, Twin))
      BY <2>1, RenamedIsCopy
    <2> QED
      BY <2>1, <2>2, CopyIsUnique
  <1> QED
    BY <1>1, CopyInvHolds, PTL

\* The invariant leaves no pointer from one model to another.
LEMMA InvSharesNothing == CopyInv => NothingIsShared
  <1> SUFFICES ASSUME CopyInv PROVE NothingIsShared
    OBVIOUS
  <1>1. WellFormed(FM) /\ Apart
    BY DEF CopyInv, Kept
  <1>2. ASSUME copy # Nil
        PROVE  /\ EdgesMatchParents(copy) /\ ConstraintsBound(copy)
               /\ ~TwoRoots(copy) => WellFormed(copy)
    <2>1. /\ copy \in Model /\ mirror \in Model /\ IsCopy(mirror, copy)
          /\ EdgesMatchParents(mirror) /\ ConstraintsBound(mirror)
          /\ (~TwoRoots(copy) => WellFormed(mirror))
      BY <1>2 DEF CopyInv, CopyKept
    <2>2. EdgesMatchParents(copy) /\ ConstraintsBound(copy)
      BY <2>1, CopyOfEdges, CopyOfBindings
    <2> QED
      BY <2>1, <2>2, CopyOfWellFormed
  <1> QED
    BY <1>1, <1>2 DEF NothingIsShared, Apart

\* The client's model, the copy and what was handed out have no object in common
\* and no pointer into each other.
THEOREM NothingIsSharedHolds == CopySpec => []NothingIsShared
  BY CopyInvHolds, InvSharesNothing, PTL

\* A commit hands out a well-formed model or none, also when a call has given the
\* copy a second root: the consistency check refuses that one.
THEOREM OnlyTreesAreHandedOutHolds == CopySpec => []OnlyTreesAreHandedOut
  <1>1. CopyInv => OnlyTreesAreHandedOut
    BY DEF CopyInv, Kept, OnlyTreesAreHandedOut
  <1> QED
    BY <1>1, CopyInvHolds, PTL

\* No call within the rules, and no commit, dereferences a null or freed pointer.
THEOREM CallsAreDefinedHolds == CopySpec => []CallsAreDefined
  <1>1. CopyInv => CallsAreDefined
    BY DEF CopyInv, CallsAreDefined
  <1> QED
    BY <1>1, CopyInvHolds, PTL

===============================================================================
