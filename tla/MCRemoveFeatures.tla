--------------------------- MODULE MCRemoveFeatures ---------------------------
(***************************************************************************)
(* Small instances of RemoveFeatures: every list of five names and the     *)
(* pointers to two of the features, on trees of three features.            *)
(***************************************************************************)
EXTENDS RemoveFeatures

CONSTANTS root, a, b, e, grp, t, ROOT, A, B, E, UNKNOWN, v1

MCNameOf == [f \in Feature |-> CASE f = root -> ROOT [] f = a -> A [] f = b -> B [] f = e -> E]

MCMentions == [x \in Constraint |-> {}]

\* root - a, with b and e below the given nodes
Tree(p, q) ==
  [NewModel(root, v1) EXCEPT
     !.features = {root, a, b, e},
     !.parent = [n \in Node |-> CASE n = a -> root [] n = b -> p [] n = e -> q [] OTHER -> Nil],
     !.edges = {<<root, a>>, <<p, b>>, <<q, e>>}]

\* The same with a group below p
GroupTree(p, q, r) ==
  [Tree(q, r) EXCEPT !.relationships = {grp}, !.parent[grp] = p, !.edges = @ \cup {<<p, grp>>}]

MCInitialModels ==
  {Tree(a, b), Tree(a, a), Tree(root, a), GroupTree(a, grp, grp), GroupTree(a, grp, b), GroupTree(b, a, grp)}

MCLists == SUBSET {ROOT, A, B, E, UNKNOWN, a, b}

MCMenu == [op : {"RemoveFeature"}, ref : Feature \cup Name, recursive : BOOLEAN]

===============================================================================
