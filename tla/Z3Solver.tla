------------------------------- MODULE Z3Solver -------------------------------
(***************************************************************************)
(* Z3Solver and Z3SolverConstraintVisitor.  What was asserted so far is    *)
(* the set of the assignments that satisfy it, over a Boolean constant for *)
(* every name and an integer constant for every numeric one; Z3 may return *)
(* any of them as its model.  What a single constraint, a range of values  *)
(* and a number come to is left to Z3Visitor.                              *)
(***************************************************************************)
EXTENDS Integers, FiniteSets, SequencesExt

CONSTANTS
  Names,          \* the names of the features
  NumericNames,   \* those of the numeric ones
  Numbers,        \* the values integer constants are looked for in; Z3 knows no bound
  Nil,
  Visit(_, _, _),    \* the value of a constraint, mixed or not, in an assignment
  FeaturesOf(_),     \* the names a constraint mentions
  ValuesOf(_),       \* the values of a numeric feature, and whether they come to an end
  NumberText(_)      \* how Z3 prints a number

Assignments(names) == [on : SUBSET names, value : [NumericNames \cap names -> Numbers]]

\* Two numbers are not printed alike.
ASSUME SolverAssumption ==
  /\ IsFiniteSet(Names) /\ IsFiniteSet(Numbers) /\ NumericNames \subseteq Names
  /\ \A v, w \in Numbers : NumberText(v) = NumberText(w) => v = w
  /\ \A names \in SUBSET Names : Nil \notin Assignments(names)

VARIABLES
  Options,        \* OptionToVariableMapping: the sort of every option
  System,         \* Solver: the assignments that satisfy what was asserted
  CurrentModel,
  found,          \* the configurations getNextConfiguration returned
  reply           \* of the last call

solverVars == <<Options, System, CurrentModel, found, reply>>

NoConfiguration == << >>

Reply(code) == [code |-> code, configuration |-> NoConfiguration, valid |-> FALSE]
Found(configuration) == [code |-> "OK", configuration |-> configuration, valid |-> FALSE]
Answer(valid) == [code |-> "OK", configuration |-> NoConfiguration, valid |-> valid]

\* The constants the calls to come may name.
SolverInit(names) ==
  /\ Options = << >>
  /\ System = Assignments(names)
  /\ CurrentModel = Nil
  /\ found = << >>
  /\ reply = Reply("none")

-------------------------------------------------------------------------------
(* Features *)

AddOption(name, sort) ==
  Options' = [o \in DOMAIN Options \cup {name} |-> IF o = name THEN sort ELSE Options[o]]

AlreadyPresent(name) ==
  /\ name \in DOMAIN Options
  /\ reply' = Reply("ALREADY_PRESENT")
  /\ UNCHANGED <<Options, System>>

AddName(name) ==
  /\ \/ AlreadyPresent(name)
     \/ /\ name \notin DOMAIN Options
        /\ AddOption(name, "Bool")
        /\ reply' = Reply("OK")
        /\ UNCHANGED System
  /\ UNCHANGED <<CurrentModel, found>>

AddNumber(name, values) ==
  /\ \/ AlreadyPresent(name)
     \/ /\ name \notin DOMAIN Options
        /\ AddOption(name, "Int")
        /\ System' = {m \in System : m.value[name] \in ToSet(values)}
        /\ reply' = Reply("OK")
  /\ UNCHANGED <<CurrentModel, found>>

\* setBinaryFeatureConstraints
HoldsForBinary(f, grouped, m) ==
  /\ f.name \in m.on => f.parent \in m.on
  /\ ~grouped /\ ~f.optional /\ f.parent \in m.on => f.name \in m.on

\* Mutant: the parent is not looked for.
RefusedIfPresent(f) ==
  IF f.name \in DOMAIN Options THEN "ALREADY_PRESENT"
  ELSE IF f.kind = "UNKNOWN" THEN "NOT_SUPPORTED" ELSE "OK"

\* Why a feature is not added.
Refused(f) ==
  IF f.parent # Nil /\ f.parent \notin DOMAIN Options THEN "PARENT_NOT_PRESENT"
  ELSE IF f.name \in DOMAIN Options THEN "ALREADY_PRESENT"
  ELSE IF f.kind = "UNKNOWN" THEN "NOT_SUPPORTED" ELSE "OK"

SortOf(f) == IF f.kind = "NUMERIC" THEN "Int" ELSE "Bool"

HoldsForFeature(f, grouped, m) ==
  /\ f.kind = "ROOT" => f.name \in m.on
  /\ f.kind = "BINARY" => HoldsForBinary(f, grouped, m)
  /\ f.kind = "NUMERIC" => m.value[f.name] \in ToSet(ValuesOf(f).values)

\* A range that does not end keeps the call for ever.
Ends(f) == f.kind = "NUMERIC" => ValuesOf(f).ends

AddFeature(f, grouped) ==
  /\ \/ /\ Refused(f) # "OK"
        /\ reply' = Reply(Refused(f))
        /\ UNCHANGED <<Options, System>>
     \/ /\ Refused(f) = "OK" /\ ~Ends(f)
        /\ reply' = Reply("never")
        /\ UNCHANGED <<Options, System>>
     \/ /\ Refused(f) = "OK" /\ Ends(f)
        /\ AddOption(f.name, SortOf(f))
        /\ System' = {m \in System : HoldsForFeature(f, grouped, m)}
        /\ reply' = Reply("OK")
  /\ UNCHANGED <<CurrentModel, found>>

RemoveFeature(name) ==
  /\ reply' = Reply("NOT_SUPPORTED")
  /\ UNCHANGED <<Options, System, CurrentModel, found>>

-------------------------------------------------------------------------------
(* Groups and constraints *)

LeaveOnly(assignments) ==
  /\ System' = assignments
  /\ reply' = Reply("OK")
  /\ UNCHANGED <<Options, CurrentModel, found>>

\* Mutant: an alternative is a choice of one or more.
HoldsForAnyGroup(r, m) == r.parent \in m.on => r.children \cap m.on # {}

\* Constants are named here without a look at the options, and all of them are Boolean.
HoldsForGroup(r, m) ==
  r.parent \in m.on =>
    /\ r.kind = "ALTERNATIVE" => Cardinality(r.children \cap m.on) <= 1
    /\ r.children \cap m.on # {}

AddRelationship(r) == LeaveOnly({m \in System : HoldsForGroup(r, m)})

AddConstraint(c) == LeaveOnly({m \in System : Visit(c, FALSE, m)})

\* VariableConstraint: one of the binary features is not selected.  With ALL the
\* constraint then is true, where the doc of Solver::addMixedConstraint says false.
HoldsForMixed(x, m) ==
  \/ x.req = "ALL" /\ FeaturesOf(x.constraint) \ (NumericNames \cup m.on) # {}
  \/ IF x.exprKind = "NEG" THEN ~Visit(x.constraint, TRUE, m) ELSE Visit(x.constraint, TRUE, m)

AddMixedConstraint(x) == LeaveOnly({m \in System : HoldsForMixed(x, m)})

-------------------------------------------------------------------------------
(* Configurations *)

\* Mutant: the solver answers at any time.
HasConfigurationsLeft ==
  /\ reply' = Answer(System # {})
  /\ UNCHANGED <<Options, System, CurrentModel, found>>

HasValidConfigurations ==
  /\ reply' = IF CurrentModel # Nil THEN Reply("ILLEGAL_STATE") ELSE Answer(System # {})
  /\ UNCHANGED <<Options, System, CurrentModel, found>>

\* The texts of the options in a model, which is completed where it says nothing.
OptionText(o, sort, m) ==
  IF sort = "Int" THEN NumberText(m.value[o]) ELSE IF o \in m.on THEN "true" ELSE "false"

ConfigurationOf(m) == [o \in DOMAIN Options |-> OptionText(o, Options[o], m)]

\* Mutant: constants that are no options may change instead.
ExcludeAssignment(m) == System \ {m}

\* excludeCurrentConfiguration: some option is to have another value.
Exclude(m) ==
  {n \in System : \E o \in DOMAIN Options :
     IF Options[o] = "Int" THEN n.value[o] # m.value[o] ELSE (o \in n.on) # (o \in m.on)}

GetNextConfiguration ==
  \/ /\ System = {}
     /\ reply' = Reply("UNSAT")
     /\ UNCHANGED <<Options, System, CurrentModel, found>>
  \/ \E m \in System :
       /\ CurrentModel' = m
       /\ System' = Exclude(m)
       /\ found' = Append(found, ConfigurationOf(m))
       /\ reply' = Found(ConfigurationOf(m))
       /\ UNCHANGED Options

\* Mutant: looking at a configuration moves on.
GetCurrentByNext == GetNextConfiguration

GetCurrentConfiguration ==
  \/ CurrentModel = Nil /\ GetNextConfiguration
  \/ /\ CurrentModel # Nil
     /\ reply' = Found(ConfigurationOf(CurrentModel))
     /\ UNCHANGED <<Options, System, CurrentModel, found>>

===============================================================================
