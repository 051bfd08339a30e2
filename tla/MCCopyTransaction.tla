--------------------------- MODULE MCCopyTransaction ---------------------------
(***************************************************************************)
(* Small instances of CopyTransaction.  x and x2 are twins.                *)
(***************************************************************************)
EXTENDS CopyTransaction

CONSTANTS root, root2, top, top2, a, a2, b, b2, g, g2, con, con2, l,
          ROOT, TOP, A, B, v1, v2

MCNameOf ==
  [f \in Feature |-> CASE f \in {root, root2} -> ROOT [] f \in {top, top2} -> TOP
                       [] f \in {a, a2} -> A [] f \in {b, b2} -> B]

MCMentions == [k \in Constraint |-> {A}]

MCTwin ==
  [x \in Node \cup Constraint |->
     CASE x = root -> root2 [] x = root2 -> root [] x = top -> top2 [] x = top2 -> top
       [] x = a -> a2 [] x = a2 -> a
       [] x = b -> b2 [] x = b2 -> b [] x = g -> g2 [] x = g2 -> g
       [] x = con -> con2 [] x = con2 -> con]

\* root - a, which has an output
Child ==
  [NewModel(root, v1) EXCEPT !.features = {root, a}, !.parent[a] = root, !.edges = {<<root, a>>},
                             !.output[a] = v1]

MCInitialModels == {Child}

\* The client's pointers may be into its own model or into the copy.
CopyMenu ==
  [op : {"AddFeature"}, feature : {b}, parent : {a, a2}]
  \cup [op : {"AddFeature"}, feature : {top}, parent : {Nil}]
  \cup [op : {"RemoveFeature"}, ref : {b}, recursive : {FALSE}]
  \cup [op : {"RemoveFeature"}, ref : {A}, recursive : {TRUE}]
  \cup [op : {"AddRelationship"}, relationship : {g}, ref : {root}]
  \cup [op : {"RemoveRelationship"}, ref : {ROOT}]
  \cup [op : {"AddLocation", "RemoveLocation"}, ref : {a}, location : {l}]
  \cup [op : {"AddConstraint"}, constraint : {con}]
  \cup [op : {"AddChild"}, parent : {ROOT}, child : {B}]

OriginalMenu == [op : {"RemoveFeature"}, ref : {A}, recursive : {TRUE}]

===============================================================================
