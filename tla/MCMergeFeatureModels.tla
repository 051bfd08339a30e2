------------------------- MODULE MCMergeFeatureModels -------------------------
(***************************************************************************)
(* Small instances of MergeFeatureModels.  x and x2 are twins; root, a and *)
(* b make up the client's model, the other objects the one merged into it. *)
(***************************************************************************)
EXTENDS MergeFeatureModels

CONSTANTS root, root2, a, a2, b, b2, grp, grp2, l, k,
          q, q2, t, t2, s, s2, ca, ca2, la, la2, d, d2, e, e2, u, u2, h, h2,
          ROOT, TOP, A, LA, B, C, mandatory, optional, v1

Pairs == {<<root, root2>>, <<a, a2>>, <<b, b2>>, <<q, q2>>, <<t, t2>>, <<s, s2>>,
          <<ca, ca2>>, <<la, la2>>, <<d, d2>>, <<e, e2>>, <<u, u2>>, <<grp, grp2>>, <<h, h2>>}

MCTwin ==
  [x \in Node |-> CHOOSE y \in Node : <<x, y>> \in Pairs \/ <<y, x>> \in Pairs]

MCNameOf ==
  [f \in Feature |-> CASE f \in {root, root2, q, q2} -> ROOT
                       [] f \in {t, t2} -> TOP
                       [] f \in {a, a2, ca, ca2, s, s2} -> A
                       [] f \in {la, la2} -> LA
                       [] f \in {b, b2, d, d2} -> B
                       [] f \in {e, e2, u, u2} -> C]

\* LA is A in lower case.
MCLowerCase == [n \in Name |-> IF n = A THEN LA ELSE n]

MCMentions == [x \in Constraint |-> {}]

\* The client's B is mandatory, the other one is optional.
MCPropertiesOf == [f \in Feature |-> IF f \in {d, d2} THEN optional ELSE mandatory]

\* top - f - f2, or both below top if f2 is not below f
Two(top, f, f2, p) ==
  [NewModel(top, v1) EXCEPT
     !.features = {top, f, f2},
     !.parent = [n \in Node |-> CASE n = f -> top [] n = f2 -> p [] OTHER -> Nil],
     !.edges = {<<top, f>>, <<p, f2>>},
     !.locations[f] = [x \in Location |-> IF x = l THEN 1 ELSE 0],
     !.locations[f2] = [x \in Location |-> IF x = k THEN 1 ELSE 0],
     !.output[f] = v1]

One(top, f) ==
  [NewModel(top, v1) EXCEPT !.features = {top, f}, !.parent[f] = top, !.edges = {<<top, f>>}]

\* q - h - ca
InGroup ==
  [One(q, ca) EXCEPT !.relationships = {h}, !.parent[h] = q, !.parent[ca] = h,
                     !.edges = {<<q, h>>, <<h, ca>>}]

MCInitialModels ==
  {[One(root, a) EXCEPT !.locations[a] = [x \in Location |-> IF x = k THEN 1 ELSE 0],
                        !.output[a] = v1]}

MCOthers ==
  { Two(q, ca, e, ca),  \* has a feature below A
    Two(q, e, ca, e),   \* has A below another feature
    Two(q, ca, d, q),   \* has another B
    Two(q, la, d, la),  \* has it below A in lower case
    Two(t, la, d, la),  \* has another root besides
    InGroup,            \* has A in a group
    One(t, e),          \* has another root
    One(s, d),          \* has a root with the name A
    One(q, u) }         \* has a feature that cannot be copied

OriginalMenu ==
  [op : {"AddFeature"}, feature : {b}, parent : {a, Nil}]
  \cup [op : {"AddRelationship"}, relationship : {grp}, ref : {ROOT}]

NoMenu == {}

===============================================================================
