------------------------- MODULE ConfigurationFactory -------------------------
(***************************************************************************)
(* SolverFactory puts a feature model into a solver, call by call, and     *)
(* looks at none of the replies.  ConfigurationFactory then asks for       *)
(* configurations through ConfigurationIterator, whose loops are the       *)
(* range-based ones of getAllConfigs and getNConfigs; or a client has the  *)
(* solver for itself and calls it as it likes.                             *)
(*                                                                         *)
(* A feature model is a record of its features in depth-first order, its   *)
(* groups, and its constraints of the three kinds.                         *)
(***************************************************************************)
EXTENDS Z3Solver

CONSTANTS
  Requests,     \* what is asked of the factory, with the feature model it is asked about
  ClientMenu,   \* the calls a client makes of a solver
  MaxClientCalls,
  TrueIn(_, _),        \* whether a constraint is true, by what it says
  DeclaredValues(_)    \* the values of a numeric feature, by how they are declared

NamesOf(features) == {f.name : f \in ToSet(features)}

\* A feature comes after its parent, and only names without a number are constants that
\* are implied, or chosen from.
WellPosed(model) ==
  /\ model.features \in Seq(ToSet(model.features)) /\ model.groups \in Seq(ToSet(model.groups))
  /\ model.boolean \in Seq(ToSet(model.boolean)) /\ model.nonBoolean \in Seq(ToSet(model.nonBoolean))
  /\ model.mixed \in Seq(ToSet(model.mixed))
  /\ \A i \in DOMAIN model.features :
       LET f == model.features[i]
           before == {model.features[j].name : j \in 1 .. i - 1}
       IN  /\ f.name \in Names \ before /\ f.parent \in before \cup {Nil}
           /\ f.kind \in {"ROOT", "BINARY", "NUMERIC"}
           /\ f.kind = "NUMERIC" <=> f.name \in NumericNames
           /\ f.kind = "BINARY" => f.parent \notin NumericNames
  /\ \A g \in ToSet(model.groups) :
       IsFiniteSet(g.children) /\ (g.children \cup {g.parent}) \cap NumericNames = {}

\* The Boolean constants of a selection: that of a numeric feature means nothing.
Selection(m) == [on |-> m.on \ NumericNames, value |-> m.value]

\* The visitor gives a constraint its truth, and a range that ends the values it declares.
MeansWhatItSays(model) ==
  /\ \A m \in Assignments(NamesOf(model.features)) :
       /\ \A c \in ToSet(model.boolean) \cup ToSet(model.nonBoolean) :
            TrueIn(c, Selection(m)) \in BOOLEAN /\ Visit(c, FALSE, m) = TrueIn(c, Selection(m))
       /\ \A x \in ToSet(model.mixed) :
            /\ TrueIn(x.constraint, Selection(m)) \in BOOLEAN
            /\ Visit(x.constraint, TRUE, m) = TrueIn(x.constraint, Selection(m))
  /\ \A f \in ToSet(model.features) :
       f.kind = "NUMERIC" /\ ValuesOf(f).ends => ToSet(ValuesOf(f).values) = DeclaredValues(f)

ASSUME RequestsAssumption ==
  \A request \in Requests :
    /\ WellPosed(request.model) /\ MeansWhatItSays(request.model)
    /\ request.query.method \in {"getAllConfigs", "getNConfigs", "isValid", "solver"}
    /\ request.query.n \in Nat

\* A client adds a name as a feature, which has one parent, or as a mere name or number.
ASSUME ClientAssumption ==
  \A call \in ClientMenu :
    /\ call.op = "addNumber" => call.arg.name \in NumericNames
    /\ call.op = "addFeature" =>
         /\ call.arg.kind = "NUMERIC" => call.arg.name \in NumericNames
         /\ \A other \in ClientMenu :
              /\ other.op = "addFeature" /\ other.arg.name = call.arg.name =>
                   other.arg.parent = call.arg.parent
              /\ other.op = "addName" => other.arg # call.arg.name
              /\ other.op = "addNumber" => other.arg.name # call.arg.name
         /\ \A request \in Requests : \A f \in ToSet(request.model.features) :
              request.query.method = "solver" /\ f.name = call.arg.name =>
                f.parent = call.arg.parent

VARIABLES
  fm,        \* the feature model
  query,
  todo,      \* the calls of the solver that are left
  phase,     \* start, apply, ask, deref, advance, client or done
  V,         \* the configurations so far
  outcome    \* of the method of the factory

factoryVars == <<fm, query, todo, phase, V, outcome>>
vars == <<solverVars, factoryVars>>

\* The names a solver has constants for.
Declared == IF query.method = "solver" THEN Names ELSE NamesOf(fm.features)

FactoryInit ==
  /\ \E request \in Requests : fm = request.model /\ query = request.query
  /\ SolverInit(Declared)
  /\ todo = << >> /\ phase = "start" /\ V = << >> /\ outcome = "none"

-------------------------------------------------------------------------------
(* applyModelOnSolver *)

InSomeGroup(f) == \E i \in DOMAIN fm.groups : f.name \in fm.groups[i].children

\* The calls for the elements of a sequence.
Each(op, s) == [i \in DOMAIN s |-> [op |-> op, arg |-> s[i]]]

CallsFor ==
  Each("addFeature", fm.features)
  \o Each("addConstraint", fm.boolean) \o Each("addConstraint", fm.nonBoolean)
  \o Each("addMixedConstraint", fm.mixed)
  \o Each("addRelationship", fm.groups)

Perform(call) ==
  \/ call.op = "addFeature" /\ AddFeature(call.arg, InSomeGroup(call.arg))
  \/ call.op = "addName" /\ AddName(call.arg)
  \/ call.op = "addNumber" /\ AddNumber(call.arg.name, call.arg.values)
  \/ call.op = "addConstraint" /\ AddConstraint(call.arg)
  \/ call.op = "addMixedConstraint" /\ AddMixedConstraint(call.arg)
  \/ call.op = "addRelationship" /\ AddRelationship(call.arg)
  \/ call.op = "removeFeature" /\ RemoveFeature(call.arg)
  \/ call.op = "hasValidConfigurations" /\ HasValidConfigurations
  \/ call.op = "getNextConfiguration" /\ GetNextConfiguration
  \/ call.op = "getCurrentConfiguration" /\ GetCurrentConfiguration

\* Nothing is asked of a solver for no configurations.
Start ==
  /\ phase = "start"
  /\ IF query.method = "getNConfigs" /\ query.n = 0
     THEN phase' = "done" /\ outcome' = "OK" /\ UNCHANGED todo
     ELSE phase' = "apply" /\ todo' = CallsFor /\ UNCHANGED outcome
  /\ UNCHANGED <<solverVars, fm, query, V>>

Apply ==
  /\ phase = "apply" /\ todo # << >> /\ reply.code # "never"
  /\ Perform(Head(todo))
  /\ todo' = Tail(todo)
  /\ UNCHANGED <<fm, query, phase, V, outcome>>

Applied ==
  /\ phase = "apply" /\ todo = << >> /\ reply.code # "never"
  /\ phase' = CASE query.method = "isValid" -> "ask"
                [] query.method = "solver" -> "client"
                [] OTHER -> "deref"
  /\ UNCHANGED <<solverVars, fm, query, todo, V, outcome>>

-------------------------------------------------------------------------------
(* ConfigurationIterator, in the loops of getAllConfigs and getNConfigs *)

EndAs(code) == phase' = "done" /\ outcome' = code

\* The body of the loop, with the configuration the iterator stands at.
Deref ==
  /\ phase = "deref"
  /\ GetCurrentConfiguration
  /\ IF reply'.code # "OK"
     THEN IF query.method = "getAllConfigs"
          THEN EndAs(reply'.code) /\ UNCHANGED V
          ELSE phase' = "advance" /\ UNCHANGED <<V, outcome>>
     ELSE IF query.method = "getAllConfigs"
          THEN phase' = "advance" /\ V' = Append(V, reply'.configuration) /\ UNCHANGED outcome
          ELSE /\ V' = <<reply'.configuration>> \o V
               /\ IF Len(V') = query.n THEN EndAs("OK") ELSE phase' = "advance" /\ UNCHANGED outcome
  /\ UNCHANGED <<fm, query, todo>>

\* operator++: an error makes the iterator the end of the loop.
Advance ==
  /\ phase = "advance"
  /\ GetNextConfiguration
  /\ IF reply'.code = "OK" THEN phase' = "deref" /\ UNCHANGED outcome ELSE EndAs("OK")
  /\ UNCHANGED <<fm, query, todo, V>>

-------------------------------------------------------------------------------
(* isValid, and a solver of one's own *)

\* The Result is what is returned: it converts to whether there was no error.
AskIfValid ==
  /\ phase = "ask"
  /\ HasValidConfigurations
  /\ EndAs(IF reply'.code = "OK" THEN "true" ELSE "false")
  /\ UNCHANGED <<fm, query, todo, V>>

\* Calls are counted by the ones made, of which todo keeps the last MaxClientCalls.
ClientCall ==
  /\ phase = "client" /\ Len(todo) < MaxClientCalls /\ reply.code # "never"
  /\ \E call \in ClientMenu :
       /\ Perform(call)
       /\ todo' = Append(todo, call)
  /\ UNCHANGED <<fm, query, phase, V, outcome>>

Stop ==
  /\ phase = "done" \/ reply.code = "never" \/ (phase = "client" /\ Len(todo) = MaxClientCalls)
  /\ UNCHANGED vars

FactoryNext == Start \/ Apply \/ Applied \/ Deref \/ Advance \/ AskIfValid \/ ClientCall \/ Stop

\* The methods of the factory are loops that run to their end.
FactorySpec == FactoryInit /\ [][FactoryNext]_vars /\ WF_vars(FactoryNext)

-------------------------------------------------------------------------------
(* The valid configurations, by what the model says *)

\* As the encoding has it, and not the doc of Solver::addMixedConstraint, a constraint
\* that needs all its Boolean features says nothing while one of them is not selected.
MixedIn(x, s) ==
  \/ x.req = "ALL" /\ ~(FeaturesOf(x.constraint) \subseteq s.on \cup NumericNames)
  \/ TrueIn(x.constraint, s) # (x.exprKind = "NEG")

Features(model) == ToSet(model.features)
Named(model, kinds) == {f.name : f \in {g \in Features(model) : g.kind \in kinds}}

IsValidIn(model, s) ==
  /\ \A f \in Features(model) :
       /\ f.kind = "ROOT" => f.name \in s.on
       /\ f.kind = "BINARY" /\ f.name \in s.on => f.parent \in s.on
       /\ f.kind = "BINARY" /\ ~f.optional /\ f.parent \in s.on =>
            f.name \in s.on \/ \E g \in ToSet(model.groups) : f.name \in g.children
       /\ f.kind = "NUMERIC" => s.value[f.name] \in DeclaredValues(f)
  /\ \A g \in ToSet(model.groups) :
       g.parent \in s.on =>
         IF g.kind = "ALTERNATIVE" THEN \E c \in g.children : g.children \cap s.on = {c}
         ELSE \E c \in g.children : c \in s.on
  /\ \A c \in ToSet(model.boolean) \cup ToSet(model.nonBoolean) : TrueIn(c, s)
  /\ \A x \in ToSet(model.mixed) : MixedIn(x, s)

ValidConfigurations(model) ==
  LET numeric == Named(model, {"NUMERIC"})
      selections == [on : SUBSET Named(model, {"ROOT", "BINARY"}), value : [numeric -> Numbers]]
  IN  {[o \in Named(model, {"ROOT", "BINARY", "NUMERIC"}) |->
          OptionText(o, IF o \in numeric THEN "Int" ELSE "Bool", s)] :
         s \in {t \in selections : IsValidIn(model, t)}}

RangesEnd(model) == \A f \in Features(model) : ValuesOf(f).ends

-------------------------------------------------------------------------------
(* Properties *)

Valid == [m \in {request.model : request \in Requests} |-> ValidConfigurations(m)]

\* The features of the model, and those a client with a solver of its own may add.
AddedFeatures ==
  Features(fm) \cup
  {call.arg : call \in {c \in ClientMenu : c.op = "addFeature" /\ query.method = "solver"}}

\* Whatever the order of the calls, a feature is an option only after its parent.  The
\* factory ignores what addFeature replies, so its own order has to be one in which none
\* is refused: every feature of the model is an option before configurations are asked for.
OptionsFollowTheTree ==
  /\ \A f \in AddedFeatures :
       f.name \in DOMAIN Options /\ f.parent # Nil => f.parent \in DOMAIN Options
  /\ phase \in {"ask", "deref", "advance", "client"} =>
       {f.name : f \in Features(fm)} \subseteq DOMAIN Options

\* What getAllConfigs and getNConfigs hand out are valid configurations of the model, and
\* getAllConfigs ends with all of them, or with UNSAT exactly when there are none.  What a
\* mixed constraint says of a configuration is taken from the code, as MixedIn notes.
HandsOutTheValid ==
  /\ ToSet(V) \subseteq Valid[fm]
  /\ phase = "done" /\ query.method = "getAllConfigs" =>
       IF Valid[fm] = {} THEN outcome = "UNSAT" ELSE outcome = "OK" /\ ToSet(V) = Valid[fm]

\* Two configurations the solver found differ in an option it had at the first, also when
\* features and constraints were added in between.
NoConfigurationTwice ==
  \A i, j \in DOMAIN found : i < j => \E o \in DOMAIN found[i] : found[i][o] # found[j][o]

\* hasValidConfigurations answers for the model as it was put in, and refuses to once a
\* configuration was excluded.
AnswersBeforeTheSearch ==
  LET asked == phase = "done" /\ query.method = "isValid" IN
  /\ asked => reply.code = "OK" /\ reply.valid = (Valid[fm] # {})
  /\ reply.valid => found = << >>

\* The factory implements ConfigurationEnumeration, its end included where the values of
\* every feature come to one.
Enumeration ==
  INSTANCE ConfigurationEnumeration WITH
    valid <- Valid[fm],
    limit <- CASE query.method = "getAllConfigs" -> Cardinality(Valid[fm])
               [] query.method = "getNConfigs" -> query.n
               [] OTHER -> 0,
    finite <- RangesEnd(fm) /\ query.method # "solver",
    given <- ToSet(V),
    count <- Len(V),
    over <- phase = "done"

ImplementsEnumeration == Enumeration!Spec

\* isValid "returns true iff there is at least one valid configuration"
\* (ConfigurationFactory.h:159).
IsValidTells ==
  phase = "done" /\ query.method = "isValid" => (outcome = "true") = (Valid[fm] # {})

===============================================================================
