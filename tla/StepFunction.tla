----------------------------- MODULE StepFunction -----------------------------
(***************************************************************************)
(* StepFunction: one operation on a variable and a constant, by which the  *)
(* values of a numeric feature go on from the first one of its range.      *)
(* Constants are doubles, counted here in thousandths.  A power has a      *)
(* whole constant.                                                         *)
(***************************************************************************)
EXTENDS Characters

Precision == 1000

Variable(name) == [kind |-> "variable", name |-> name]
Constant(thousandths) == [kind |-> "constant", thousandths |-> thousandths]

OperatorText == [ADDITION |-> <<"+">>, MULTIPLICATION |-> <<"*">>, EXPONENTIATION |-> <<"^">>]

StepOperation == DOMAIN OperatorText

StepFunction(lhs, op, rhs) == [lhs |-> lhs, op |-> op, rhs |-> rhs]

NoStepFunction == [lhs |-> Variable(<< >>), op |-> "none", rhs |-> Variable(<< >>)]

-------------------------------------------------------------------------------
(* next<int64_t> *)

\* A double that becomes an integer loses its fraction.
Truncated(thousandths) ==
  IF thousandths < 0 THEN -((-thousandths) \div Precision) ELSE thousandths \div Precision

Power(b, x) == IF x >= 0 THEN b ^ x ELSE IF b = 1 THEN 1 ELSE 0

NextValue(f, v) ==
  LET first == f.rhs.kind = "constant"
      constant == IF first THEN f.rhs.thousandths ELSE f.lhs.thousandths
      whole == constant \div Precision
  IN  CASE f.op = "ADDITION" -> Truncated(Precision * v + constant)
        [] f.op = "MULTIPLICATION" -> Truncated(v * constant)
        [] f.op = "EXPONENTIATION" -> IF first THEN Power(v, whole) ELSE Power(whole, v)

\* A value that is too large for the conversion back, for which C++ defines none.
Fits(v) == v \in -MaxInteger - 1 .. MaxInteger

-------------------------------------------------------------------------------
(* The loop of Z3Solver::addFeature over a range *)

\* A value that comes back comes back for ever; a step that leaves the type is taken for
\* one that does not end either.
Endless == [ends |-> FALSE, values |-> << >>]

\* The values from v on, the last one first.
RECURSIVE Enumerated(_, _, _, _)
Enumerated(v, last, f, values) ==
  IF v > last THEN [ends |-> TRUE, values |-> values]
  ELSE IF v \in ToSet(values) \/ ~Fits(NextValue(f, v)) THEN Endless
  ELSE Enumerated(NextValue(f, v), last, f, <<v>> \o values)

-------------------------------------------------------------------------------
(* toString: two digits behind the point *)

Padded(v) == IF v < 10 THEN <<"0">> \o Decimal(v) ELSE Decimal(v)

\* In hundredths, rounded half to even.
Rounded(thousandths) ==
  LET h == thousandths \div 10 IN
  IF thousandths % 10 > 5 \/ (thousandths % 10 = 5 /\ h % 2 = 1) THEN h + 1 ELSE h

DoubleText(thousandths) ==
  IF thousandths < 0
  THEN <<"-">> \o Decimal(Rounded(-thousandths) \div 100) \o <<".">> \o Padded(Rounded(-thousandths) % 100)
  ELSE Decimal(Rounded(thousandths) \div 100) \o <<".">> \o Padded(Rounded(thousandths) % 100)

OperandText(operand) ==
  IF operand.kind = "variable" THEN operand.name ELSE DoubleText(operand.thousandths)

StepText(f) == OperandText(f.lhs) \o <<" ">> \o OperatorText[f.op] \o <<" ">> \o OperandText(f.rhs)

===============================================================================
