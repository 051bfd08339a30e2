------------------------------ MODULE FeatureOrder ------------------------------
(***************************************************************************)
(* The two orders of features: Feature::operator<, by which an             *)
(* OrderedFeatureVector is sorted, and the one in which DFSIterator        *)
(* visits a feature model.  Features are known by their names, and a tree  *)
(* is given by the parent of each.                                         *)
(***************************************************************************)
EXTENDS Integers, SequencesExt

CONSTANTS
  Rank,   \* the place of a name among the names in lower case
  Nil     \* the null pointer

Children(parent, f) == {c \in DOMAIN parent : parent[c] = f}

\* The names from the root down to f.
RECURSIVE PathTo(_, _)
PathTo(parent, f) ==
  IF parent[f] = Nil THEN <<f>> ELSE Append(PathTo(parent, parent[f]), f)

\* Mutant: features of two branches are compared by their own names.
BeforeByName(parent, f, g) ==
  LET a == PathTo(parent, f)
      b == PathTo(parent, g)
      common == Len(LongestCommonPrefix({a, b}))
  IN  IF common = Len(a) THEN common < Len(b)
      ELSE common < Len(b) /\ Rank[f] < Rank[g]

\* An ancestor is before what is below it, branches are compared where they part.
Before(parent, f, g) ==
  LET a == PathTo(parent, f)
      b == PathTo(parent, g)
      common == Len(LongestCommonPrefix({a, b}))
  IN  IF common = 0 THEN Rank[f] < Rank[g]
      ELSE IF common = Len(a) THEN common < Len(b)
      ELSE common < Len(b) /\ Rank[a[common + 1]] < Rank[b[common + 1]]

\* OrderedFeatureVector::insert
Inserted(parent, vector, f) ==
  InsertAt(vector, Min({i \in 1 .. Len(vector) + 1 : i = Len(vector) + 1 \/ Before(parent, f, vector[i])}), f)

Ordered(parent, features) == FoldLeft(LAMBDA v, f : Inserted(parent, v, f), << >>, features)

\* The features from the top of the frontier on.  Children are pushed in descending order.
RECURSIVE Visit(_, _, _)
Visit(parent, frontier, visited) ==
  IF frontier = << >> THEN << >>
  ELSE LET f == Head(frontier)
           pushed == SetToSortSeq(Children(parent, f) \ (visited \cup {f}),
                                  LAMBDA a, b : Rank[a] < Rank[b])
       IN  <<f>> \o Visit(parent, pushed \o Tail(frontier), visited \cup {f})

DepthFirst(parent, root) == Visit(parent, <<root>>, {})

===============================================================================
