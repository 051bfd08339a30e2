------------------------------ MODULE FeatureTree ------------------------------
(***************************************************************************)
(* What a feature model promises: a set of features that form a tree under *)
(* one top feature, and four ways to edit it.  Relationships, edges and    *)
(* pointers are left out: they are how ModifyTransaction keeps the tree.   *)
(***************************************************************************)
CONSTANTS Feature, Nil

VARIABLES
  members,      \* the features of the model
  up,           \* the feature each of them is below
  top           \* the one that is below none

treeVars == <<members, up, top>>

Children(F) == {f \in members : up[f] \in F}

\* f and everything below it.
Under(f) ==
  {x \in members : \A S \in SUBSET members : (f \in S /\ Children(S) \subseteq S) => x \in S}

IsTree ==
  /\ members \subseteq Feature
  /\ up \in [Feature -> members \cup {Nil}]
  /\ top \in members
  /\ \A f \in Feature : up[f] = Nil <=> f \notin members \ {top}
  /\ Under(top) = members

Insert(f, p) ==
  /\ f \notin members
  /\ p \in members
  /\ members' = members \cup {f}
  /\ up' = [up EXCEPT ![f] = p]
  /\ UNCHANGED top

Prune(f) ==
  /\ f \in members \ {top}
  /\ members' = members \ Under(f)
  /\ up' = [x \in Feature |-> IF x \in Under(f) THEN Nil ELSE up[x]]
  /\ UNCHANGED top

\* Features that are below one feature move below another, never below themselves.
Move(F, p) ==
  /\ F \subseteq members \ {top}
  /\ \A x, y \in F : up[x] = up[y]
  /\ p \in members
  /\ \A f \in F : p \notin Under(f)
  /\ up' = [x \in Feature |-> IF x \in F THEN p ELSE up[x]]
  /\ UNCHANGED <<members, top>>

ReplaceTop(f) ==
  /\ f \notin members
  /\ members' = (members \ {top}) \cup {f}
  /\ up' = [x \in Feature |-> IF up[x] = top THEN f ELSE up[x]]
  /\ top' = f

TreeInit == IsTree

TreeNext ==
  \/ \E f \in Feature, p \in members : Insert(f, p)
  \/ \E f \in members : Prune(f)
  \/ \E F \in SUBSET members, p \in members : Move(F, p)
  \/ \E f \in Feature : ReplaceTop(f)

TreeSpec == TreeInit /\ [][TreeNext]_treeVars

===============================================================================
