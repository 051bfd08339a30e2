------------------------- MODULE MCFeatureModelBuilder -------------------------
(***************************************************************************)
(* Small instances of FeatureModelBuilder.  The objects otop, oa, ob, og   *)
(* and ocon make up the models that are cloned, top, a, b, g and con are   *)
(* allocated by the clone.                                                 *)
(***************************************************************************)
EXTENDS FeatureModelBuilder

CONSTANTS root, top, a, b, g, con, otop, oa, ob, og, ocon, l, fb, mb, rb,
          ROOT, TOP, A, B, v1, v2

MCNameOf ==
  [f \in Feature |-> CASE f = root -> ROOT [] f \in {top, otop} -> TOP
                       [] f \in {a, oa} -> A [] f \in {b, ob} -> B]

MCMentions == [k \in Constraint |-> {A, B}]

MCTwin ==
  [x \in Node \cup Constraint |->
     CASE x = otop -> top [] x = oa -> a [] x = ob -> b [] x = og -> g [] x = ocon -> con
       [] OTHER -> x]

MCJustRoot == {NewModel(root, v1)}

\* otop - oa - ob, with a constraint, a location, an output and a commit
Chain ==
  [NewModel(otop, v1) EXCEPT
     !.features = {otop, oa, ob},
     !.parent = [n \in Node |-> CASE n = oa -> otop [] n = ob -> oa [] OTHER -> Nil],
     !.edges = {<<otop, oa>>, <<oa, ob>>},
     !.constraints = {ocon},
     !.bound = {<<ocon, oa>>, <<ocon, ob>>},
     !.locations[ob] = [k \in Location |-> 1],
     !.output[ob] = v2,
     !.info["Commit"] = v2]

\* otop - oa - og - ob
GroupedChain ==
  [Chain EXCEPT !.relationships = {og}, !.parent[og] = oa, !.parent[ob] = og,
                !.edges = {<<otop, oa>>, <<oa, og>>, <<og, ob>>}]

\* otop - og - oa, and ob below otop outside the group
HalfGrouped ==
  [Chain EXCEPT !.relationships = {og}, !.parent[og] = otop, !.parent[oa] = og, !.parent[ob] = otop,
                !.edges = {<<otop, og>>, <<og, oa>>, <<otop, ob>>}]

MCOriginals == {Chain, GroupedChain, HalfGrouped}

\* oa is a second feature with the name of a, otop a root that is made as a feature, and
\* og a second group below a feature.
BuilderMenu ==
  [op : {"AddFeature"}, feature : {a, b, oa, otop}, parent : {Nil}]
  \cup [op : {"SetRoot"}, feature : {top}]
  \cup [op : {"AddChild"}, parent : {A}, child : {B}]
  \cup [op : {"AddChild"}, parent : {B, ROOT, TOP}, child : {A}]
  \cup [op : {"SetInfo"}, field : {"Path"}, text : {v2}]
  \cup [op : {"AddRelationship"}, relationship : {g}, ref : {A, TOP}]
  \cup [op : {"AddRelationship"}, relationship : {og}, ref : {A}]
  \cup [op : {"AddConstraint"}, constraint : {con}]

===============================================================================
