-------------------------- MODULE MCConstraintBuilder --------------------------
(***************************************************************************)
(* A small instance of ConstraintBuilder: one operator of each precedence  *)
(* from addition to equivalence, and excludes, which has no token.         *)
(***************************************************************************)
EXTENDS ConstraintBuilder

MCCalls ==
  { [call |-> "feature", name |-> <<"A">>], [call |-> "constant", value |-> 1],
    [call |-> "()"], [call |-> "openPar"], [call |-> "closePar"] }
  \cup [call : {"unary"}, kind : {"NOT"}]
  \cup [call : {"binary"}, kind : {"SUBTRACTION", "LESS_EQUAL", "AND", "OR", "IMPLIES", "EXCLUDES", "EQUIVALENCE"}]

===============================================================================
