---------------------------- MODULE ConstraintTree ----------------------------
(***************************************************************************)
(* Constraint: the tree of a constraint, and the text it is printed as.    *)
(* A node is a record of its kind and its operands.  A class adds to a     *)
(* kind no more than its operator and a clone of the same shape, so the    *)
(* classes are rows of tables.                                             *)
(***************************************************************************)
EXTENDS Characters

Hole == [kind |-> "hole", operands |-> << >>]

PrimaryFeatureConstraint(name) == [kind |-> "FEATURE", operands |-> << >>, name |-> name]

PrimaryIntegerConstraint(value) == [kind |-> "INTEGER", operands |-> << >>, value |-> value]

BinaryConstraint(kind, left, right) == [kind |-> kind, operands |-> <<left, right>>]

UnaryConstraint(kind, operand) == [kind |-> kind, operands |-> <<operand>>]

-------------------------------------------------------------------------------
(* The operators of the classes *)

LogicalText == [OR |-> <<"|">>, XOR |-> <<"^">>, AND |-> <<"&">>]

EqualityText == [EQUAL |-> <<"=">>, NOT_EQUAL |-> <<"!", "=">>]

\* Excludes is printed as an implication whose right side is negated.
ImplicationText ==
  [IMPLIES |-> <<"=", ">">>, EXCLUDES |-> <<"=", ">">>, EQUIVALENCE |-> <<"<", "=", ">">>]

ArithmeticText ==
  [ADDITION |-> <<"+">>, SUBTRACTION |-> <<"-">>, MULTIPLICATION |-> <<"*">>, DIVISION |-> <<"/">>]

ComparisonText ==
  [LESS |-> <<"<">>, GREATER |-> <<">">>, LESS_EQUAL |-> <<"<", "=">>, GREATER_EQUAL |-> <<">", "=">>]

UnaryText == [NOT |-> <<"!">>, NEG |-> <<"~">>]

InfixText == LogicalText @@ EqualityText @@ ImplicationText @@ ArithmeticText @@ ComparisonText

BinaryKind == DOMAIN InfixText
UnaryKind == DOMAIN UnaryText

-------------------------------------------------------------------------------
(* toString *)

\* Mutant: the operand of a negation that is printed with the operator.
RECURSIVE TextWithoutNegation(_)
TextWithoutNegation(c) ==
  IF c.kind = "FEATURE" THEN c.name
  ELSE IF c.kind = "INTEGER" THEN Decimal(c.value)
  ELSE IF c.kind \in UnaryKind THEN UnaryText[c.kind] \o TextWithoutNegation(c.operands[1])
  ELSE <<"(">> \o TextWithoutNegation(c.operands[1]) \o <<" ">> \o InfixText[c.kind] \o <<" ">>
       \o TextWithoutNegation(c.operands[2]) \o <<")">>

\* The name of a feature is the text it is printed as.
RECURSIVE Text(_)
Text(c) ==
  IF c.kind = "FEATURE" THEN c.name
  ELSE IF c.kind = "INTEGER" THEN Decimal(c.value)
  ELSE IF c.kind \in UnaryKind THEN UnaryText[c.kind] \o Text(c.operands[1])
  ELSE <<"(">> \o Text(c.operands[1]) \o <<" ">> \o InfixText[c.kind] \o <<" ">>
       \o (IF c.kind = "EXCLUDES" THEN <<"!">> ELSE << >>) \o Text(c.operands[2]) \o <<")">>

-------------------------------------------------------------------------------
(* ConstraintVisitor: the nodes in the order a visitor meets them *)

RECURSIVE Visited(_)
Visited(c) == <<c>> \o FlattenSeq([i \in DOMAIN c.operands |-> Visited(c.operands[i])])

\* The names a constraint mentions.
Mentioned(c) == {n.name : n \in {m \in ToSet(Visited(c)) : m.kind = "FEATURE"}}

===============================================================================
