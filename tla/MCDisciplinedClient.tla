-------------------------- MODULE MCDisciplinedClient --------------------------
(***************************************************************************)
(* Small instances of DisciplinedClient, over the same objects.            *)
(***************************************************************************)
EXTENDS MCModifyTransaction, DisciplinedClient

TreeMenu ==
  [op : {"AddFeature"}, feature : {a, b}, parent : {Nil}]
  \cup [op : {"AddFeature"}, feature : {b2}, parent : {a}]
  \cup [op : {"RemoveFeature"}, ref : {A}, recursive : BOOLEAN]
  \cup [op : {"AddRelationship"}, relationship : {g, h}, ref : {ROOT, A}]
  \cup [op : {"RemoveRelationship"}, ref : {ROOT, A}]
  \cup [op : {"AddChild"}, parent : {ROOT, A}, child : {B}]
  \cup [op : {"AddChild"}, parent : {A, g}, child : {B, g}]
  \cup [op : {"SetRoot"}, feature : {root2}]

DataMenu ==
  [op : {"AddFeature"}, feature : {a, b}, parent : {Nil}]
  \cup [op : {"RemoveFeature"}, ref : {A, B}, recursive : BOOLEAN]
  \cup [op : {"AddConstraint"}, constraint : {con}]
  \cup [op : {"AddLocation", "RemoveLocation"}, ref : {A}, location : {l}]
  \cup [op : {"SetInfo"}, field : {"Commit"}, text : {v1, v2}]
  \cup [op : {"SetRoot"}, feature : {root2, root3}]

===============================================================================
