---------------------------- MODULE NamedFeatureModel ----------------------------
(***************************************************************************)
(* A feature model as the readers ask a FeatureModelBuilder for it and the *)
(* writer walks it: its features are known by their names, which identify  *)
(* them.  What a builder makes of its calls is what FeatureModelBuilder    *)
(* shows of it: the features made, each below the parent named last for    *)
(* it, and groups that hold all features below their parent.               *)
(***************************************************************************)
EXTENDS FeatureOrder, ConstraintTree

CONSTANTS
  DefaultRoot,   \* the name of the root of a new model
  NoText         \* the empty text

NoModel == [root |-> Nil]

NoCalls ==
  [ made       |-> << >>,    \* makeRoot and makeFeature
    parents    |-> << >>,    \* addEdge: the parent of a name
    groups     |-> {},       \* emplaceRelationship
    boolean    |-> << >>,    \* addConstraint
    nonBoolean |-> << >>,
    mixed      |-> << >>,
    info       |-> [name |-> NoText, path |-> NoText, commit |-> NoText],
    failed     |-> FALSE ]   \* the reader gave up

MakeRoot(calls, name) == [calls EXCEPT !.made = Append(@, [root |-> TRUE, name |-> name])]

MakeFeature(calls, name, data) ==
  [calls EXCEPT !.made = Append(@, [root |-> FALSE, name |-> name, data |-> data])]

AddEdge(calls, parent, child) == [calls EXCEPT !.parents = (child :> parent) @@ @]

EmplaceRelationship(calls, kind, parent) ==
  [calls EXCEPT !.groups = @ \cup {[kind |-> kind, parent |-> parent]}]

Fail(calls) == [calls EXCEPT !.failed = TRUE]

\* A root has no data but its kind: it is neither optional nor located.
RootData == [kind |-> "root", optional |-> FALSE, values |-> Nil, locations |-> << >>]

\* The features after the first transaction of the builder.
Features(made) ==
  FoldLeft(LAMBDA s, call :
             IF call.root /\ call.name = s.root THEN s
             ELSE IF call.name \in DOMAIN s.data THEN [s EXCEPT !.failed = TRUE]
             ELSE IF call.root
             THEN [s EXCEPT !.root = call.name,
                            !.data = (call.name :> RootData) @@ [n \in DOMAIN @ \ {s.root} |-> @[n]]]
             ELSE [s EXCEPT !.data = (call.name :> call.data) @@ @],
           [root |-> DefaultRoot, data |-> DefaultRoot :> RootData, failed |-> FALSE], made)

Trees(calls) == calls.boolean \o calls.nonBoolean \o [i \in DOMAIN calls.mixed |-> calls.mixed[i].tree]

Build(calls) ==
  LET features == Features(calls.made)
      known == DOMAIN features.data
      parent == [n \in known |-> IF n \in DOMAIN calls.parents THEN calls.parents[n]
                                 ELSE IF n = features.root THEN Nil ELSE features.root]
  IN  IF \/ calls.failed \/ features.failed
         \/ \E n \in DOMAIN calls.parents : n \notin known \/ calls.parents[n] \notin known \ {n}
         \/ \E g \in calls.groups : g.parent \notin known
         \/ \E c \in ToSet(Trees(calls)) : ~(Mentioned(c) \subseteq known)
      THEN NoModel
      ELSE [ root       |-> features.root,
             data       |-> features.data,
             parent     |-> parent,
             groups     |-> {[kind |-> g.kind, parent |-> g.parent, members |-> Children(parent, g.parent)] :
                             g \in calls.groups},
             boolean    |-> calls.boolean,
             nonBoolean |-> calls.nonBoolean,
             mixed      |-> calls.mixed,
             info       |-> calls.info ]

-------------------------------------------------------------------------------
(* The constraints a feature knows *)

\* Between two features, and nothing else.
Plain(kind, c) ==
  c.kind = kind /\ c.operands[1].kind = "FEATURE" /\ c.operands[2].kind = "FEATURE"

\* The features that f implies or excludes.  A feature gets a constraint once for each
\* time it is mentioned.
Partners(m, kind, f) ==
  FlattenSeq([i \in DOMAIN Trees(m) |->
    LET c == Trees(m)[i] IN
    IF ~Plain(kind, c) \/ c.operands[1].name # f THEN << >>
    ELSE IF c.operands[2].name = f THEN <<f, f>> ELSE <<c.operands[2].name>>])

===============================================================================
