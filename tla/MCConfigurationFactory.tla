------------------------ MODULE MCConfigurationFactory ------------------------
(***************************************************************************)
(* Small feature models for ConfigurationFactory: a group of either kind,  *)
(* lists and ranges of numbers, and two options under every kind of        *)
(* constraint but XOR.                                                     *)
(***************************************************************************)
EXTENDS ConfigurationFactory, Z3Visitor

MCNames == {"r", "a", "b", "c", "n"}
MCNumeric == {"n"}
MCNumbers == -1 .. 3

Binary(name, parent, optional) ==
  [name |-> name, kind |-> "BINARY", parent |-> parent, optional |-> optional,
   isRange |-> FALSE, values |-> << >>, range |-> <<0, 0>>, step |-> NoStepFunction]
Root == [Binary("r", Nil, FALSE) EXCEPT !.kind = "ROOT"]
Listed(values) == [Binary("n", "r", FALSE) EXCEPT !.kind = "NUMERIC", !.values = values]
Ranged(first, last, step) ==
  [Listed(<< >>) EXCEPT !.isRange = TRUE, !.range = <<first, last>>, !.step = step]

step_x == Variable(<<"x">>)
By(op, whole) == StepFunction(step_x, op, Constant(Precision * whole))

Model(features, groups, boolean, nonBoolean, mixed) ==
  [features |-> <<Root>> \o features, groups |-> groups, boolean |-> boolean,
   nonBoolean |-> nonBoolean, mixed |-> mixed]
Group(kind, parent, children) == [kind |-> kind, parent |-> parent, children |-> children]

a == PrimaryFeatureConstraint("a")
b == PrimaryFeatureConstraint("b")
n == PrimaryFeatureConstraint("n")
Number(v) == PrimaryIntegerConstraint(v)
Both(kind, l, r) == BinaryConstraint(kind, l, r)

Options2 == <<Binary("a", "r", TRUE), Binary("b", "r", TRUE)>>

BooleanModels ==
  {Model(Options2, << >>, <<Both(kind, a, UnaryConstraint("NOT", b))>>, << >>, << >>) :
     kind \in {"AND", "OR", "IMPLIES", "EXCLUDES", "EQUIVALENCE", "EQUAL"}}

NumberModels ==
  {Model(<<Listed(<<0, 2, -1>>)>>, << >>, << >>, <<Both(kind, Both("ADDITION", n, Number(1)), Number(1))>>, << >>) :
     kind \in {"LESS", "LESS_EQUAL", "GREATER", "GREATER_EQUAL", "EQUAL", "NOT_EQUAL"}}
  \cup {Model(<<Ranged(0, 3, By("ADDITION", 2))>>, << >>, << >>,
              <<Both("LESS", Both(kind, n, Number(2)), UnaryConstraint("NEG", Number(0)))>>, << >>) :
          kind \in {"SUBTRACTION", "MULTIPLICATION", "DIVISION"}}
  \cup {Model(<<Ranged(1, 3, By(kind, 2))>>, << >>, << >>, << >>, << >>) :
          kind \in {"MULTIPLICATION", "ADDITION"}}
  \cup {Model(<<Ranged(0, 2, By("MULTIPLICATION", 1))>>, << >>, << >>, << >>, << >>)}

MixedModels ==
  {Model(<<Binary("a", "r", TRUE), Listed(<<0, 1>>)>>, << >>, << >>, << >>,
         <<[constraint |-> Both("EQUAL", Both("ADDITION", a, n), Number(1)), req |-> req, exprKind |-> sign]>>) :
     req \in {"ALL", "NONE"}, sign \in {"POS", "NEG"}}

TreeModels ==
  {Model(<< >>, << >>, << >>, << >>, << >>),
   Model(<<Binary("a", "r", FALSE)>>, << >>, <<UnaryConstraint("NOT", a)>>, << >>, << >>),
   Model(<<Binary("a", "r", TRUE), Binary("b", "a", FALSE), Binary("c", "a", TRUE)>>, << >>, << >>, << >>, << >>)}
  \cup {Model(<<Binary("a", "r", TRUE), Binary("b", "a", FALSE), Binary("c", "a", FALSE)>>,
              <<Group(kind, "a", {"b", "c"})>>, << >>, << >>, << >>) : kind \in {"ALTERNATIVE", "OR"}}

MCModels == BooleanModels \cup NumberModels \cup MixedModels \cup TreeModels

ClientModel == Model(<<Binary("a", "r", TRUE)>>, << >>, << >>, << >>, << >>)

Queries ==
  [method : {"getAllConfigs", "isValid"}, n : {0}] \cup [method : {"getNConfigs"}, n : {0, 1, 2, 9}]

MCRequests ==
  [model : MCModels, query : Queries]
  \cup {[model |-> ClientModel, query |-> [method |-> "solver", n |-> 0]]}

\* What a client does with a solver: the calls of the interface, on features of its own
\* or of the model.
MCClientMenu ==
  [op : {"addFeature"}, arg : {Binary("b", "c", TRUE), Binary("c", "r", FALSE)}]
  \cup {[op |-> "addName", arg |-> "a"], [op |-> "addNumber", arg |-> [name |-> "n", values |-> <<1, 2>>]]}
  \cup [op : {"addConstraint"}, arg : {Both("OR", a, PrimaryFeatureConstraint("c"))}]
  \cup [op : {"getNextConfiguration", "getCurrentConfiguration", "hasValidConfigurations", "removeFeature"}, arg : {"a"}]

===============================================================================
