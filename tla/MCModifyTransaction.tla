-------------------------- MODULE MCModifyTransaction --------------------------
(***************************************************************************)
(* Small instances of ModifyTransaction.                                  *)
(***************************************************************************)
EXTENDS ModifyTransaction, TLC

CONSTANTS root, root2, root3, a, b, b2, g, h, con, l, t1, t2,   \* objects
          ROOT, TOP, A, B, C, v1, v2                          \* names and texts

\* b and b2 are two objects of one name, root and root3 are as well.
MCNameOf ==
  [f \in Feature |-> CASE f \in {root, root3} -> ROOT
                       [] f = root2 -> TOP
                       [] f = a -> A
                       [] f \in {b, b2} -> B]

MCMentions == [k \in Constraint |-> {A, B}]

JustRoot == NewModel(root, v1)

\* root - a - b
Chain ==
  [JustRoot EXCEPT
     !.features = {root, a, b},
     !.parent = [n \in Node |-> CASE n = a -> root [] n = b -> a [] OTHER -> Nil],
     !.edges = {<<root, a>>, <<a, b>>}]

\* root - a - g - b
GroupedChain ==
  [Chain EXCEPT !.relationships = {g}, !.parent[g] = a, !.parent[b] = g,
                !.edges = {<<root, a>>, <<a, g>>, <<g, b>>}]

MCJustRoot == {JustRoot}
MCChain == {Chain}
MCChains == {Chain, GroupedChain}

\* The runs of ModifyTransaction: nobody keeps to any rule.  root3 has the name of the
\* root, and is moved and removed while it may wait in the other queue.

AnyMenu ==
  [op : {"AddFeature"}, feature : {b, b2}, parent : {a}]
  \cup [op : {"AddFeature"}, feature : {b2, root3}, parent : {Nil}]
  \cup [op : {"RemoveFeature"}, ref : {A}, recursive : BOOLEAN]
  \cup [op : {"RemoveFeature"}, ref : {a, root3}, recursive : {FALSE}]
  \cup [op : {"AddRelationship"}, relationship : {g}, ref : {a}]
  \cup [op : {"RemoveRelationship"}, ref : {A}]
  \cup [op : {"AddChild"}, parent : {a, g}, child : {a, B}]
  \cup [op : {"AddChild"}, parent : {a}, child : {root3}]
  \cup [op : {"SetRoot"}, feature : {root2, root3}]

\* Nothing tells one transaction object from another.
Symmetry == Permutations(Transaction)

\* The run of the findings: moves below a descendant, groups dissolved where there is
\* none, constraints and removals.  Each alone is enough.

OrdinaryMenu ==
  [op : {"AddChild"}, parent : {A, B}, child : {A, B}]
  \cup [op : {"RemoveRelationship"}, ref : {ROOT}]
  \cup [op : {"AddConstraint"}, constraint : {con}]
  \cup [op : {"RemoveFeature"}, ref : {B}, recursive : BOOLEAN]

===============================================================================
