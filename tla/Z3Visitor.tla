------------------------------- MODULE Z3Visitor -------------------------------
(***************************************************************************)
(* What Z3Solver hands to Z3 for one constraint, one numeric feature and   *)
(* one number, and what they mean.  Constraints have operands of the sorts *)
(* Z3 asks for, and no division by zero.                                   *)
(***************************************************************************)
EXTENDS Z3Solver, ConstraintTree, StepFunction

\* A feature has a list of values, or a range with its step function.
NumericValues(f) ==
  IF f.isRange THEN Enumerated(f.range[1], f.range[2], f.step, << >>)
  ELSE [ends |-> TRUE, values |-> f.values]

\* Z3 prints a negative number as a term.
Z3Text(v) == IF v < 0 THEN "(- " \o ToString(-v) \o ")" ELSE ToString(v)

-------------------------------------------------------------------------------
(* Z3SolverConstraintVisitor *)

Combined(kind, left, right) ==
  CASE kind = "ADDITION" -> left + right
    [] kind = "SUBTRACTION" -> left - right
    [] kind = "MULTIPLICATION" -> left * right
    [] kind = "DIVISION" -> IF right > 0 THEN left \div right ELSE -(left \div (-right))
    [] kind = "AND" -> left /\ right
    [] kind = "OR" -> left \/ right
    [] kind = "XOR" -> (left => ~right) /\ (right => ~left)
    [] kind = "IMPLIES" -> left => right
    [] kind = "EXCLUDES" -> left => ~right
    [] kind = "EQUIVALENCE" -> (left => right) /\ (right => left)
    [] kind = "EQUAL" -> left = right
    [] kind = "NOT_EQUAL" -> left # right
    [] kind = "LESS" -> left < right
    [] kind = "LESS_EQUAL" -> left <= right
    [] kind = "GREATER" -> left > right
    [] kind = "GREATER_EQUAL" -> left >= right

\* The value of Z3ConstraintExpression after a visit; a mixed constraint counts features.
RECURSIVE VisitConstraint(_, _, _)
VisitConstraint(c, mixed, m) ==
  CASE c.kind = "INTEGER" -> c.value
    [] c.kind = "FEATURE" /\ c.name \in NumericNames -> m.value[c.name]
    [] c.kind = "FEATURE" /\ c.name \notin NumericNames /\ ~mixed -> c.name \in m.on
    [] c.kind = "FEATURE" /\ c.name \notin NumericNames /\ mixed -> IF c.name \in m.on THEN 1 ELSE 0
    [] c.kind = "NOT" -> ~VisitConstraint(c.operands[1], mixed, m)
    [] c.kind = "NEG" -> -VisitConstraint(c.operands[1], mixed, m)
    [] OTHER -> Combined(c.kind, VisitConstraint(c.operands[1], mixed, m), VisitConstraint(c.operands[2], mixed, m))

-------------------------------------------------------------------------------
(* What constraints and values mean, by truth tables and by sides *)

Truth ==
  [AND |-> {<<TRUE, TRUE>>},
   OR |-> {<<TRUE, TRUE>>, <<TRUE, FALSE>>, <<FALSE, TRUE>>},
   XOR |-> {<<TRUE, FALSE>>, <<FALSE, TRUE>>},
   IMPLIES |-> {<<TRUE, TRUE>>, <<FALSE, TRUE>>, <<FALSE, FALSE>>},
   EXCLUDES |-> {<<TRUE, FALSE>>, <<FALSE, TRUE>>, <<FALSE, FALSE>>},
   EQUIVALENCE |-> {<<TRUE, TRUE>>, <<FALSE, FALSE>>}]

\* By the side of the right operand the left one may lie on.
Side ==
  [LESS |-> {"below"}, LESS_EQUAL |-> {"below", "on"}, GREATER |-> {"above"},
   GREATER_EQUAL |-> {"above", "on"}, EQUAL |-> {"on"}, NOT_EQUAL |-> {"below", "above"}]

RECURSIVE ValueIn(_, _)
ValueIn(c, s) ==
  LET arg(i) == ValueIn(c.operands[i], s) IN
  CASE c.kind = "INTEGER" -> c.value
    [] c.kind = "FEATURE" -> IF c.name \in NumericNames THEN s.value[c.name]
                             ELSE IF c.name \in s.on THEN 1 ELSE 0
    [] c.kind = "NEG" -> 0 - arg(1)
    [] c.kind = "NOT" -> 1 - arg(1)
    [] c.kind = "ADDITION" -> arg(1) + arg(2)
    [] c.kind = "SUBTRACTION" -> arg(1) - arg(2)
    [] c.kind = "MULTIPLICATION" -> arg(1) * arg(2)
    [] c.kind = "DIVISION" ->
         CHOOSE q \in -MaxInteger .. MaxInteger :
           LET rest == arg(1) - q * arg(2) IN rest >= 0 /\ (rest < arg(2) \/ rest < -arg(2))

RECURSIVE IsTrueIn(_, _)
IsTrueIn(c, s) ==
  CASE c.kind = "FEATURE" -> c.name \in s.on
    [] c.kind = "NOT" -> ~IsTrueIn(c.operands[1], s)
    [] c.kind \in DOMAIN Truth -> <<IsTrueIn(c.operands[1], s), IsTrueIn(c.operands[2], s)>> \in Truth[c.kind]
    [] c.kind \in DOMAIN Side ->
         LET l == ValueIn(c.operands[1], s)
             r == ValueIn(c.operands[2], s)
         IN  (IF l < r THEN "below" ELSE IF l > r THEN "above" ELSE "on") \in Side[c.kind]

\* The values of a range: the least set that has the first one and is closed under the
\* step as far as the range goes.
ValuesDeclared(f) ==
  IF ~f.isRange THEN ToSet(f.values)
  ELSE LET span == f.range[1] .. f.range[2]
           Closed(S) == \A v \in S : NextValue(f.step, v) \in span => NextValue(f.step, v) \in S
       IN  {v \in span : \A S \in SUBSET span : f.range[1] \in S /\ Closed(S) => v \in S}

===============================================================================
