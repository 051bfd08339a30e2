------------------------------- MODULE ModelCopy -------------------------------
(***************************************************************************)
(* When two models are the same up to the identity of their objects.       *)
(***************************************************************************)
EXTENDS FeatureModel

\* The model m with each object x exchanged for twin[x].
Renamed(m, twin) ==
  LET new(S) == {twin[x] : x \in S}
      old(x) == CHOOSE y \in Live(m) : twin[y] = x
  IN  [ features      |-> new(m.features),
        relationships |-> new(m.relationships),
        root          |-> IF m.root = Nil THEN Nil ELSE twin[m.root],
        parent        |-> [x \in Node |->
                             IF x \in new(Live(m)) /\ m.parent[old(x)] # Nil
                             THEN twin[m.parent[old(x)]] ELSE Nil],
        edges         |-> {<<twin[e[1]], twin[e[2]]>> : e \in m.edges},
        constraints   |-> new(m.constraints),
        bound         |-> {<<twin[b[1]], twin[b[2]]>> : b \in m.bound},
        locations     |-> [f \in Feature |->
                             IF f \in new(m.features) THEN m.locations[old(f)]
                             ELSE [l \in Location |-> 0]],
        output        |-> [f \in Feature |->
                             IF f \in new(m.features) THEN m.output[old(f)] ELSE Nil],
        info          |-> m.info ]

\* The model, with the features that hang beside a group moved into it: clone asks
\* for a group by the name of the feature it hangs below.
Regrouped(m) ==
  LET groups(f) == {r \in m.relationships : m.parent[r] = m.parent[f]}
      parent == [n \in Node |-> IF n \in m.features /\ groups(n) # {}
                                THEN CHOOSE r \in groups(n) : TRUE ELSE m.parent[n]]
  IN  [m EXCEPT !.parent = parent,
                !.edges = {<<parent[n], n>> : n \in {x \in Live(m) : parent[x] # Nil}}]

\* Neither clone nor featureCopy passes an output string or a step function to the
\* constructor of a feature.
WithoutOutput(m) == [m EXCEPT !.output = NoOutput]

\* The builder binds a cloned constraint to all that it mentions.
MayClone(m) ==
  \A c \in m.constraints : \A n \in Mentions[c] : \E f \in m.features : NameOf[f] = n /\ <<c, f>> \in m.bound

===============================================================================
