---------------------- MODULE ConfigurationFactory_proofs ----------------------
(***************************************************************************)
(* ConfigurationFactory hands out the valid configurations of a model,     *)
(* each once, and a solver never finds one twice, whatever its client adds *)
(* between two of them.                                                    *)
(***************************************************************************)
EXTENDS ConfigurationFactory, FiniteSetTheorems, TLAPS

(* Sequences *)

IsSequence(s) == s \in Seq(ToSet(s))

\* The empty sequence has no elements.
LEMMA EmptyIsSequence ==
  IsSequence(<< >>) /\ ToSet(<< >>) = {} /\ Len(<< >>) = 0 /\ DOMAIN << >> = {}
  BY DEF IsSequence, ToSet

\* The elements of a sequence, by index and as a set.
LEMMA SequenceHas ==
  ASSUME NEW s, IsSequence(s)
  PROVE  /\ Len(s) \in Nat /\ DOMAIN s = 1 .. Len(s)
         /\ ToSet(s) = {s[i] : i \in 1 .. Len(s)}
         /\ s = << >> <=> Len(s) = 0
         /\ s = << >> <=> ToSet(s) = {}
  BY DEF IsSequence, ToSet

\* Append adds one element at the end.
LEMMA Appended ==
  ASSUME NEW s, IsSequence(s), NEW e
  PROVE  /\ IsSequence(Append(s, e)) /\ Len(Append(s, e)) = Len(s) + 1
         /\ \A i \in 1 .. Len(s) : Append(s, e)[i] = s[i]
         /\ Append(s, e)[Len(s) + 1] = e
         /\ ToSet(Append(s, e)) = ToSet(s) \cup {e}
         /\ Append(s, e) # << >>
<1> DEFINE t == Append(s, e)
           S == ToSet(s) \cup {e}
<1>1. s \in Seq(S) /\ e \in S
  BY DEF IsSequence
<1>2. t \in Seq(S) /\ Len(t) = Len(s) + 1 /\ (\A i \in 1 .. Len(s) : t[i] = s[i]) /\ t[Len(s) + 1] = e
  BY <1>1
<1>3. DOMAIN t = 1 .. Len(s) + 1 /\ DOMAIN s = 1 .. Len(s) /\ Len(s) \in Nat
  BY <1>1, <1>2
<1>4. ToSet(t) = S
  <2>1. ASSUME NEW i \in DOMAIN t
        PROVE  t[i] \in S
    BY <2>1, <1>2
  <2>2. ASSUME NEW i \in DOMAIN s
        PROVE  i \in DOMAIN t /\ t[i] = s[i]
    BY <2>2, <1>2, <1>3
  <2>3. Len(s) + 1 \in DOMAIN t /\ t[Len(s) + 1] = e
    BY <1>2, <1>3
  <2>4. \A x \in ToSet(s) : x \in ToSet(t)
    BY <2>2 DEF ToSet
  <2>5. e \in ToSet(t)
    BY <2>3 DEF ToSet
  <2>6. \A x \in ToSet(t) : x \in S
    BY <2>1 DEF ToSet
  <2> QED
    BY <2>4, <2>5, <2>6
<1>5. t # << >>
  <2> HIDE DEF t
  <2>1. Len(t) # 0
    BY <1>2, <1>3
  <2> QED
    BY <2>1, EmptyIsSequence
<1> QED
  BY <1>2, <1>4, <1>5 DEF IsSequence

\* Concatenation puts the elements of the second sequence behind those of the first.
LEMMA Concatenated ==
  ASSUME NEW s, IsSequence(s), NEW t, IsSequence(t)
  PROVE  /\ IsSequence(s \o t) /\ Len(s \o t) = Len(s) + Len(t)
         /\ \A i \in 1 .. Len(s) : (s \o t)[i] = s[i]
         /\ \A i \in Len(s) + 1 .. Len(s) + Len(t) : (s \o t)[i] = t[i - Len(s)] /\ (s \o t)[i] \in ToSet(t)
         /\ ToSet(s \o t) = ToSet(s) \cup ToSet(t)
<1> DEFINE u == s \o t
           S == ToSet(s) \cup ToSet(t)
<1>1. s \in Seq(S) /\ t \in Seq(S)
  BY DEF IsSequence
<1>2. /\ u \in Seq(S) /\ Len(u) = Len(s) + Len(t)
      /\ \A i \in 1 .. Len(s) : u[i] = s[i]
      /\ \A i \in Len(s) + 1 .. Len(s) + Len(t) : u[i] = t[i - Len(s)]
  BY <1>1
<1>3. /\ DOMAIN u = 1 .. Len(s) + Len(t) /\ DOMAIN s = 1 .. Len(s) /\ DOMAIN t = 1 .. Len(t)
      /\ Len(s) \in Nat /\ Len(t) \in Nat
  BY <1>1, <1>2
<1>4. \A i \in Len(s) + 1 .. Len(s) + Len(t) : u[i] \in ToSet(t)
  BY <1>2, <1>3 DEF ToSet
<1>5. \A i \in 1 .. Len(s) : u[i] \in ToSet(s)
  BY <1>2, <1>3 DEF ToSet
<1>6. ToSet(u) \subseteq S
  <2>1. ASSUME NEW i \in DOMAIN u
        PROVE  u[i] \in S
    <3>1. i \in 1 .. Len(s) \/ i \in Len(s) + 1 .. Len(s) + Len(t)
      BY <2>1, <1>3
    <3> QED
      BY <3>1, <1>4, <1>5
  <2> QED
    BY <2>1 DEF ToSet
<1>7. S \subseteq ToSet(u)
  <2>1. ASSUME NEW i \in DOMAIN s
        PROVE  s[i] \in ToSet(u)
    <3>1. i \in DOMAIN u /\ u[i] = s[i]
      BY <2>1, <1>2, <1>3
    <3> QED
      BY <3>1 DEF ToSet
  <2>2. ASSUME NEW i \in DOMAIN t
        PROVE  t[i] \in ToSet(u)
    <3>1. i + Len(s) \in DOMAIN u /\ u[i + Len(s)] = t[i]
      BY <2>2, <1>2, <1>3
    <3> QED
      BY <3>1 DEF ToSet
  <2> QED
    BY <2>1, <2>2 DEF ToSet
<1>8. ToSet(u) = S
  BY <1>6, <1>7
<1> QED
  BY <1>2, <1>4, <1>8 DEF IsSequence

\* Tail drops the first element and moves the others down by one.
LEMMA TailOf ==
  ASSUME NEW S, NEW s \in Seq(S), s # << >>
  PROVE  /\ Tail(s) \in Seq(S) /\ Len(Tail(s)) = Len(s) - 1 /\ Len(s) \in Nat \ {0}
         /\ Head(s) = s[1]
         /\ \A i \in 1 .. Len(s) - 1 : Tail(s)[i] = s[i + 1]
  OBVIOUS

-------------------------------------------------------------------------------
(* The inductive invariant *)

\* What a call of the solver demands of its assignments.
Holds(call, m) ==
  /\ call.op = "addFeature" => HoldsForFeature(call.arg, InSomeGroup(call.arg), m)
  /\ call.op = "addConstraint" => Visit(call.arg, FALSE, m)
  /\ call.op = "addMixedConstraint" => HoldsForMixed(call.arg, m)
  /\ call.op = "addRelationship" => HoldsForGroup(call.arg, m)

\* The solutions of the first k calls.
SolutionsOf(k) == {m \in Assignments(Declared) : \A i \in 1 .. k : Holds(CallsFor[i], m)}

Solutions == SolutionsOf(Len(CallsFor))

Configurations == {ConfigurationOf(m) : m \in Solutions}

RequestInv ==
  /\ \E request \in Requests : fm = request.model /\ query = request.query
  /\ phase \in {"start", "apply", "ask", "deref", "advance", "client", "done"}
  /\ phase = "ask" => query.method = "isValid"
  /\ phase = "client" => query.method = "solver"
  /\ phase = "done" => query.method # "solver"
  /\ phase \in {"deref", "advance"} => query.method \in {"getAllConfigs", "getNConfigs"}
  /\ phase \in {"apply", "deref", "advance"} /\ query.method = "getNConfigs" => query.n # 0

\* Every configuration that was found is excluded, in options there were then.
SearchInv ==
  /\ IsSequence(found)
  /\ System \subseteq Assignments(Declared)
  /\ \A o \in DOMAIN Options : Options[o] = "Int" => o \in NumericNames \cap Declared
  /\ CurrentModel = Nil <=> found = << >>
  /\ \A i \in DOMAIN found :
       /\ DOMAIN found[i] \subseteq DOMAIN Options
       /\ \A m \in System : \E o \in DOMAIN found[i] : OptionText(o, Options[o], m) # found[i][o]
  /\ NoConfigurationTwice
  /\ reply.valid => found = << >>

\* Calls that were made.
Made == Len(CallsFor) - Len(todo)

\* The features of the first k calls are the options, and their ranges came to an end.
OptionsOf(k) ==
  /\ \A o \in DOMAIN Options : \E i \in 1 .. k : i \in DOMAIN fm.features /\ o = fm.features[i].name
  /\ \A i \in 1 .. k : i \in DOMAIN fm.features =>
       LET f == fm.features[i] IN
       f.name \in DOMAIN Options /\ Options[f.name] = SortOf(f) /\ Ends(f)

Fresh == CurrentModel = Nil /\ V = << >>

StartInv ==
  phase = "start" =>
    /\ OptionsOf(0) /\ System = Assignments(Declared)
    /\ reply.code # "never" /\ ~reply.valid /\ Fresh

ApplyInv ==
  phase = "apply" =>
    /\ todo \in Seq(ToSet(CallsFor)) /\ Len(todo) <= Len(CallsFor)
    /\ \A j \in 1 .. Len(todo) : todo[j] = CallsFor[Made + j]
    /\ Fresh
    /\ reply.code # "never" => OptionsOf(Made) /\ System = SolutionsOf(Made)

\* From the end of applyModelOnSolver on the solver holds the model.
Asked == phase = "done" /\ ~(query.method = "getNConfigs" /\ query.n = 0)

ModelIsIn ==
  /\ OptionsOf(Len(CallsFor))
  /\ System = {m \in Solutions : ConfigurationOf(m) \notin ToSet(found)}
  /\ ToSet(found) \subseteq Configurations
  /\ CurrentModel # Nil => ConfigurationOf(CurrentModel) = found[Len(found)]

ModelInv == phase \in {"ask", "deref", "advance"} \/ Asked => ModelIsIn

TreeInv ==
  /\ \A f \in AddedFeatures :
       f.name \in DOMAIN Options /\ f.parent # Nil => f.parent \in DOMAIN Options
  /\ phase = "client" => NamesOf(fm.features) \subseteq DOMAIN Options

\* V holds what was found, but for the configuration the iterator stands at.
HandedInv ==
  /\ IsSequence(V) /\ IsFiniteSet(ToSet(V)) /\ Cardinality(ToSet(V)) = Len(V)
  /\ phase \in {"ask", "client"} => V = << >>
  /\ phase = "ask" => found = << >>
  /\ phase = "deref" =>
       \/ V = << >> /\ found = << >>
       \/ /\ found # << >> /\ Len(found) = Len(V) + 1
          /\ ToSet(V) = {found[i] : i \in 1 .. Len(V)}
  /\ phase = "advance" \/ (Asked /\ query.method # "isValid") =>
       Len(V) = Len(found) /\ ToSet(V) = ToSet(found)
  /\ phase \in {"deref", "advance"} /\ query.method = "getNConfigs" => Len(V) < query.n
  /\ phase = "advance" /\ query.method = "getAllConfigs" => found # << >>

EndInv ==
  /\ Asked /\ query.method = "getAllConfigs" =>
       /\ System = {}
       /\ outcome = IF found = << >> THEN "UNSAT" ELSE "OK"
  /\ Asked /\ query.method = "getNConfigs" => System = {} \/ Len(V) = query.n
  /\ Asked /\ query.method = "isValid" =>
       found = << >> /\ V = << >> /\ reply.code = "OK" /\ reply.valid = (System # {})
  /\ phase = "done" /\ ~Asked => V = << >>

FactoryInv ==
  RequestInv /\ SearchInv /\ StartInv /\ ApplyInv /\ ModelInv /\ TreeInv /\ HandedInv /\ EndInv

-------------------------------------------------------------------------------
(* What is asked for *)

\* The model and the query the factory works on are one of the requests.
LEMMA RequestIs ==
  ASSUME RequestInv
  PROVE  /\ WellPosed(fm) /\ MeansWhatItSays(fm)
         /\ query.method \in {"getAllConfigs", "getNConfigs", "isValid", "solver"} /\ query.n \in Nat
         /\ fm \in {request.model : request \in Requests}
  BY RequestsAssumption DEF RequestInv

\* The options that may be declared are the names of a request, the features' among them.
LEMMA DeclaredIs ==
  ASSUME RequestInv
  PROVE  Declared \subseteq Names /\ NamesOf(fm.features) \subseteq Declared
<1>1. \A f \in ToSet(fm.features) : f.name \in Names
  BY RequestIs DEF WellPosed, ToSet
<1> QED
  BY <1>1 DEF Declared, NamesOf

-------------------------------------------------------------------------------
(* Configurations of the solver *)

\* Texts differ where the values do.
LEMMA TextsDiffer ==
  ASSUME NEW o, NEW sort, NEW n \in Assignments(Declared), NEW m \in Assignments(Declared),
         sort = "Int" => o \in NumericNames \cap Declared
  PROVE  (OptionText(o, sort, n) # OptionText(o, sort, m)) <=>
           (IF sort = "Int" THEN n.value[o] # m.value[o] ELSE (o \in n.on) # (o \in m.on))
<1>1. CASE sort = "Int"
  <2>1. n.value[o] \in Numbers /\ m.value[o] \in Numbers
    BY <1>1 DEF Assignments
  <2>2. NumberText(n.value[o]) = NumberText(m.value[o]) => n.value[o] = m.value[o]
    BY <2>1, SolverAssumption
  <2> QED
    BY <1>1, <2>2 DEF OptionText
<1>2. CASE sort # "Int"
  <2>1. "true" # "false"
    OBVIOUS
  <2> QED
    BY <1>2, <2>1 DEF OptionText
<1> QED
  BY <1>1, <1>2

\* Excluding an assignment excludes those with the same configuration.
LEMMA Excluded ==
  ASSUME SearchInv, NEW m \in System
  PROVE  /\ Exclude(m) = {n \in System : ConfigurationOf(n) # ConfigurationOf(m)}
         /\ \A n \in Exclude(m) : \E o \in DOMAIN Options :
              OptionText(o, Options[o], n) # ConfigurationOf(m)[o]
         /\ Exclude(m) \subseteq System /\ m \notin Exclude(m)
<1> DEFINE Different(n, o) == IF Options[o] = "Int" THEN n.value[o] # m.value[o] ELSE (o \in n.on) # (o \in m.on)
           Texts(n, o) == OptionText(o, Options[o], n) # OptionText(o, Options[o], m)
<1>1. \A n \in System, o \in DOMAIN Options : Texts(n, o) <=> Different(n, o)
  <2> SUFFICES ASSUME NEW n \in System, NEW o \in DOMAIN Options
               PROVE  Texts(n, o) <=> Different(n, o)
    OBVIOUS
  <2>1. n \in Assignments(Declared) /\ m \in Assignments(Declared)
    BY DEF SearchInv
  <2>2. Options[o] = "Int" => o \in NumericNames \cap Declared
    BY DEF SearchInv
  <2> QED
    BY <2>1, <2>2, TextsDiffer
<1>2. \A n : ConfigurationOf(n) # ConfigurationOf(m) <=> \E o \in DOMAIN Options : Texts(n, o)
  BY DEF ConfigurationOf
<1>3. \A o \in DOMAIN Options : ConfigurationOf(m)[o] = OptionText(o, Options[o], m)
  BY DEF ConfigurationOf
<1>4. Exclude(m) = {n \in System : \E o \in DOMAIN Options : Different(n, o)}
  BY DEF Exclude
<1> HIDE DEF Different, Texts
<1>5. Exclude(m) = {n \in System : ConfigurationOf(n) # ConfigurationOf(m)}
  BY <1>1, <1>2, <1>4
<1>6. \A n \in Exclude(m) : \E o \in DOMAIN Options : Texts(n, o)
  BY <1>1, <1>4
<1>7. \A n \in Exclude(m) : \E o \in DOMAIN Options :
        OptionText(o, Options[o], n) # ConfigurationOf(m)[o]
  BY <1>3, <1>6 DEF Texts
<1> QED
  BY <1>5, <1>7

\* A call that asks for no configuration leaves what was found alone.
LEMMA Narrowed ==
  ASSUME SearchInv, UNCHANGED <<fm, query, CurrentModel, found>>,
         System' \subseteq System,
         DOMAIN Options \subseteq DOMAIN Options',
         \A o \in DOMAIN Options : Options'[o] = Options[o],
         \A o \in DOMAIN Options' \ DOMAIN Options : Options'[o] = "Int" => o \in NumericNames \cap Declared,
         reply'.valid => found = << >>
  PROVE  SearchInv'
<1>1. Declared' = Declared
  BY DEF Declared
<1>2. IsSequence(found)' /\ (System \subseteq Assignments(Declared))'
  BY <1>1 DEF SearchInv, IsSequence, Assignments
<1>3. (\A o \in DOMAIN Options : Options[o] = "Int" => o \in NumericNames \cap Declared)'
  BY <1>1 DEF SearchInv
<1>4. (CurrentModel = Nil <=> found = << >>)' /\ NoConfigurationTwice' /\ (reply.valid => found = << >>)'
  BY DEF SearchInv, NoConfigurationTwice
<1>5. ASSUME NEW i \in DOMAIN found
      PROVE  /\ DOMAIN found[i] \subseteq DOMAIN Options'
             /\ \A m \in System' : \E o \in DOMAIN found[i] : OptionText(o, Options'[o], m) # found[i][o]
  <2>1. /\ DOMAIN found[i] \subseteq DOMAIN Options
        /\ \A m \in System : \E o \in DOMAIN found[i] : OptionText(o, Options[o], m) # found[i][o]
    BY <1>5 DEF SearchInv
  <2>2. \A o \in DOMAIN found[i] : Options'[o] = Options[o]
    BY <2>1
  <2> QED
    BY <2>1, <2>2
<1>6. (\A i \in DOMAIN found :
         /\ DOMAIN found[i] \subseteq DOMAIN Options
         /\ \A m \in System : \E o \in DOMAIN found[i] : OptionText(o, Options[o], m) # found[i][o])'
  BY <1>5
<1> QED
  BY <1>2, <1>3, <1>4, <1>6 DEF SearchInv

\* What a configuration that is found does.
LEMMA FoundAnother ==
  ASSUME RequestInv, SearchInv, UNCHANGED <<fm, query>>, NEW m \in System,
         CurrentModel' = m, System' = Exclude(m), found' = Append(found, ConfigurationOf(m)),
         UNCHANGED Options, ~reply'.valid
  PROVE  SearchInv'
<1> DEFINE c == ConfigurationOf(m)
<1>0. Declared' = Declared
  BY DEF Declared
<1>1. /\ IsSequence(found') /\ Len(found') = Len(found) + 1 /\ found' # << >>
      /\ \A i \in 1 .. Len(found) : found'[i] = found[i]
      /\ found'[Len(found) + 1] = c
  BY Appended DEF SearchInv
<1>2. DOMAIN found = 1 .. Len(found) /\ DOMAIN found' = 1 .. Len(found) + 1 /\ Len(found) \in Nat
  BY <1>1, SequenceHas DEF SearchInv
<1>3. /\ System' \subseteq System
      /\ \A n \in System' : \E o \in DOMAIN Options : OptionText(o, Options[o], n) # c[o]
  BY Excluded
<1>4. DOMAIN c = DOMAIN Options /\ \A o \in DOMAIN Options : c[o] = OptionText(o, Options[o], m)
  BY DEF ConfigurationOf
<1> HIDE DEF c
<1>5. m # Nil
  BY SolverAssumption, DeclaredIs DEF SearchInv
<1>6. IsSequence(found)' /\ (System \subseteq Assignments(Declared))'
  BY <1>0, <1>1, <1>3 DEF SearchInv, IsSequence, Assignments
<1>7. (\A o \in DOMAIN Options : Options[o] = "Int" => o \in NumericNames \cap Declared)'
  BY <1>0 DEF SearchInv
<1>8. (CurrentModel = Nil <=> found = << >>)' /\ (reply.valid => found = << >>)'
  BY <1>1, <1>5
<1>9. ASSUME NEW i \in DOMAIN found'
      PROVE  /\ DOMAIN found'[i] \subseteq DOMAIN Options
             /\ \A n \in System' : \E o \in DOMAIN found'[i] : OptionText(o, Options[o], n) # found'[i][o]
  <2>1. CASE i \in 1 .. Len(found)
    <3>1. found'[i] = found[i] /\ i \in DOMAIN found
      BY <2>1, <1>1, <1>2
    <3>2. /\ DOMAIN found[i] \subseteq DOMAIN Options
          /\ \A n \in System : \E o \in DOMAIN found[i] : OptionText(o, Options[o], n) # found[i][o]
      BY <3>1 DEF SearchInv
    <3> QED
      BY <3>1, <3>2, <1>3
  <2>2. CASE i = Len(found) + 1
    <3>1. found'[i] = c
      BY <2>2, <1>1
    <3> QED
      BY <3>1, <1>3, <1>4
  <2> QED
    BY <1>9, <1>2, <2>1, <2>2
<1>10. (\A i \in DOMAIN found :
          /\ DOMAIN found[i] \subseteq DOMAIN Options
          /\ \A n \in System : \E o \in DOMAIN found[i] : OptionText(o, Options[o], n) # found[i][o])'
  BY <1>9
<1>11. ASSUME NEW i \in DOMAIN found', NEW j \in DOMAIN found', i < j
       PROVE  \E o \in DOMAIN found'[i] : found'[i][o] # found'[j][o]
  <2>1. i \in 1 .. Len(found) /\ i \in DOMAIN found /\ found'[i] = found[i]
    BY <1>11, <1>1, <1>2
  <2>2. CASE j \in 1 .. Len(found)
    <3>1. found'[j] = found[j] /\ j \in DOMAIN found
      BY <2>2, <1>1, <1>2
    <3> QED
      BY <3>1, <2>1, <1>11 DEF SearchInv, NoConfigurationTwice
  <2>3. CASE j = Len(found) + 1
    <3>1. found'[j] = c
      BY <2>3, <1>1
    <3>2. /\ DOMAIN found[i] \subseteq DOMAIN Options
          /\ \E o \in DOMAIN found[i] : OptionText(o, Options[o], m) # found[i][o]
      BY <2>1 DEF SearchInv
    <3> QED
      BY <3>1, <3>2, <2>1, <1>4
  <2> QED
    BY <1>11, <1>2, <2>2, <2>3
<1>12. NoConfigurationTwice'
  BY <1>11 DEF NoConfigurationTwice
<1> QED
  BY <1>6, <1>7, <1>8, <1>10, <1>12 DEF SearchInv

\* getNextConfiguration finds a configuration it has not found, and excludes it.
LEMMA NextKeepsSearch ==
  ASSUME RequestInv, SearchInv, UNCHANGED <<fm, query>>, GetNextConfiguration
  PROVE  SearchInv'
<1>1. CASE reply' = Reply("UNSAT") /\ UNCHANGED <<Options, System, CurrentModel, found>>
  <2>1. ~reply'.valid
    BY <1>1 DEF Reply
  <2> QED
    BY <1>1, <2>1, Narrowed
<1>2. ASSUME NEW m \in System, CurrentModel' = m, System' = Exclude(m),
             found' = Append(found, ConfigurationOf(m)), reply' = Found(ConfigurationOf(m)), UNCHANGED Options
      PROVE  SearchInv'
  <2>1. ~reply'.valid
    BY <1>2 DEF Found
  <2> QED
    BY <1>2, <2>1, FoundAnother
<1> QED
  BY <1>1, <1>2 DEF GetNextConfiguration

\* getCurrentConfiguration reads the current model only.
LEMMA CurrentKeepsSearch ==
  ASSUME RequestInv, SearchInv, UNCHANGED <<fm, query>>, GetCurrentConfiguration
  PROVE  SearchInv'
<1>1. CASE GetNextConfiguration
  BY <1>1, NextKeepsSearch
<1>2. CASE reply' = Found(ConfigurationOf(CurrentModel)) /\ UNCHANGED <<Options, System, CurrentModel, found>>
  <2>1. ~reply'.valid
    BY <1>2 DEF Found
  <2> QED
    BY <1>2, <2>1, Narrowed
<1> QED
  BY <1>1, <1>2 DEF GetCurrentConfiguration

\* hasValidConfigurations finds nothing, and does not answer once something was found.
LEMMA AskingKeepsSearch ==
  ASSUME SearchInv, UNCHANGED <<fm, query>>, HasValidConfigurations
  PROVE  SearchInv'
<1>1. UNCHANGED <<Options, System, CurrentModel, found>>
  BY DEF HasValidConfigurations
<1>2. reply'.valid => found = << >>
  <2>1. CASE CurrentModel # Nil
    BY <2>1 DEF HasValidConfigurations, Reply
  <2>2. CASE CurrentModel = Nil
    BY <2>2 DEF SearchInv
  <2> QED
    BY <2>1, <2>2
<1> QED
  BY <1>1, <1>2, Narrowed

\* The constants of a call are declared, with their sort.
Known(call) ==
  /\ call.op = "addNumber" => call.arg.name \in NumericNames \cap Declared
  /\ call.op = "addFeature" /\ call.arg.kind = "NUMERIC" => call.arg.name \in NumericNames \cap Declared

\* How the options may grow.
LEMMA OptionAdded ==
  ASSUME NEW name, NEW sort, AddOption(name, sort), name \notin DOMAIN Options
  PROVE  /\ DOMAIN Options' = DOMAIN Options \cup {name}
         /\ \A o \in DOMAIN Options : Options'[o] = Options[o]
         /\ Options'[name] = sort
  BY DEF AddOption

\* One more option leaves what was found excluded.
LEMMA AddingKeepsSearch ==
  ASSUME SearchInv, UNCHANGED <<fm, query>>, UNCHANGED <<CurrentModel, found>>, ~reply'.valid,
         System' \subseteq System,
         NEW name, NEW sort, AddOption(name, sort), name \notin DOMAIN Options,
         sort = "Int" => name \in NumericNames \cap Declared
  PROVE  SearchInv'
<1>1. /\ DOMAIN Options' = DOMAIN Options \cup {name}
      /\ \A o \in DOMAIN Options : Options'[o] = Options[o]
      /\ Options'[name] = sort
  BY OptionAdded
<1>2. \A o \in DOMAIN Options' \ DOMAIN Options : Options'[o] = "Int" => o \in NumericNames \cap Declared
  BY <1>1
<1>3. DOMAIN Options \subseteq DOMAIN Options'
  BY <1>1
<1> QED
  BY <1>1, <1>2, <1>3, Narrowed

\* addFeature declares an option or fails.
LEMMA AddFeatureKeepsSearch ==
  ASSUME SearchInv, UNCHANGED <<fm, query>>, NEW f, NEW grouped, AddFeature(f, grouped),
         f.kind = "NUMERIC" => f.name \in NumericNames \cap Declared
  PROVE  SearchInv'
<1>1. ~reply'.valid /\ UNCHANGED <<CurrentModel, found>>
  BY DEF AddFeature, Reply
<1>2. CASE UNCHANGED <<Options, System>>
  BY <1>1, <1>2, Narrowed
<1>3. CASE /\ Refused(f) = "OK" /\ AddOption(f.name, SortOf(f))
           /\ System' = {m \in System : HoldsForFeature(f, grouped, m)}
  <2>1. f.name \notin DOMAIN Options
    BY <1>3 DEF Refused
  <2>2. SortOf(f) = "Int" => f.name \in NumericNames \cap Declared
    BY DEF SortOf
  <2>3. System' \subseteq System
    BY <1>3
  <2> QED
    BY <1>1, <1>3, <2>1, <2>2, <2>3, AddingKeepsSearch
<1> QED
  BY <1>2, <1>3 DEF AddFeature

\* The client's addFeature of a name declares a Boolean.
LEMMA AddNameKeepsSearch ==
  ASSUME SearchInv, UNCHANGED <<fm, query>>, NEW name, AddName(name)
  PROVE  SearchInv'
<1>1. ~reply'.valid /\ UNCHANGED <<CurrentModel, found, System>>
  BY DEF AddName, AlreadyPresent, Reply
<1>2. CASE UNCHANGED Options
  BY <1>1, <1>2, Narrowed
<1>3. CASE name \notin DOMAIN Options /\ AddOption(name, "Bool")
  BY <1>1, <1>3, AddingKeepsSearch
<1> QED
  BY <1>2, <1>3 DEF AddName, AlreadyPresent

\* The client's addFeature with values declares a number.
LEMMA AddNumberKeepsSearch ==
  ASSUME SearchInv, UNCHANGED <<fm, query>>, NEW name, NEW values, AddNumber(name, values),
         name \in NumericNames \cap Declared
  PROVE  SearchInv'
<1>1. ~reply'.valid /\ UNCHANGED <<CurrentModel, found>>
  BY DEF AddNumber, AlreadyPresent, Reply
<1>2. CASE UNCHANGED <<Options, System>>
  BY <1>1, <1>2, Narrowed
<1>3. CASE /\ name \notin DOMAIN Options /\ AddOption(name, "Int")
           /\ System' = {m \in System : m.value[name] \in ToSet(values)}
  <2>1. System' \subseteq System
    BY <1>3
  <2> QED
    BY <1>1, <1>3, <2>1, AddingKeepsSearch
<1> QED
  BY <1>2, <1>3 DEF AddNumber, AlreadyPresent

\* So does a constraint, which leaves some of what was left.
LEMMA LeavingKeepsSearch ==
  ASSUME SearchInv, UNCHANGED <<fm, query>>, NEW S, LeaveOnly(S), S \subseteq System
  PROVE  SearchInv'
<1>1. ~reply'.valid /\ UNCHANGED <<Options, CurrentModel, found>> /\ System' \subseteq System
  BY DEF LeaveOnly, Reply
<1> QED
  BY <1>1, Narrowed

\* So does every call of the interface of the solver.
LEMMA PerformKeepsSearch ==
  ASSUME RequestInv, SearchInv, UNCHANGED <<fm, query>>, NEW call, Known(call), Perform(call)
  PROVE  SearchInv'
<1>1. CASE call.op = "addFeature" /\ AddFeature(call.arg, InSomeGroup(call.arg))
  <2>1. call.arg.kind = "NUMERIC" => call.arg.name \in NumericNames \cap Declared
    BY <1>1 DEF Known
  <2> QED
    BY <1>1, <2>1, AddFeatureKeepsSearch
<1>2. CASE call.op = "addName" /\ AddName(call.arg)
  BY <1>2, AddNameKeepsSearch
<1>3. CASE call.op = "addNumber" /\ AddNumber(call.arg.name, call.arg.values)
  BY <1>3, AddNumberKeepsSearch DEF Known
<1>4. CASE AddConstraint(call.arg)
  BY <1>4, LeavingKeepsSearch DEF AddConstraint
<1>5. CASE AddMixedConstraint(call.arg)
  BY <1>5, LeavingKeepsSearch DEF AddMixedConstraint
<1>6. CASE AddRelationship(call.arg)
  BY <1>6, LeavingKeepsSearch DEF AddRelationship
<1>7. CASE RemoveFeature(call.arg)
  <2>1. ~reply'.valid /\ UNCHANGED <<Options, System, CurrentModel, found>>
    BY <1>7 DEF RemoveFeature, Reply
  <2> QED
    BY <2>1, Narrowed
<1>8. CASE HasValidConfigurations
  BY <1>8, AskingKeepsSearch
<1>9. CASE GetNextConfiguration
  BY <1>9, NextKeepsSearch
<1>10. CASE GetCurrentConfiguration
  BY <1>10, CurrentKeepsSearch
<1> QED
  BY <1>1, <1>2, <1>3, <1>4, <1>5, <1>6, <1>7, <1>8, <1>9, <1>10 DEF Perform

-------------------------------------------------------------------------------
(* The calls of applyModelOnSolver *)

Calls(op, args) == {[op |-> op, arg |-> a] : a \in args}

\* One call for each element, in the order of the elements.
LEMMA EachIs ==
  ASSUME NEW op, NEW s, IsSequence(s)
  PROVE  /\ IsSequence(Each(op, s)) /\ Len(Each(op, s)) = Len(s)
         /\ \A i \in 1 .. Len(s) : Each(op, s)[i] = [op |-> op, arg |-> s[i]]
         /\ ToSet(Each(op, s)) = Calls(op, ToSet(s))
<1> DEFINE t == Each(op, s)
<1>1. DOMAIN s = 1 .. Len(s) /\ Len(s) \in Nat
  BY SequenceHas
<1>2. t = [i \in 1 .. Len(s) |-> [op |-> op, arg |-> s[i]]]
  BY <1>1 DEF Each
<1>3. DOMAIN t = 1 .. Len(s) /\ \A i \in 1 .. Len(s) : t[i] = [op |-> op, arg |-> s[i]]
  BY <1>2
<1>4. ToSet(t) = {t[i] : i \in 1 .. Len(s)}
  BY <1>3 DEF ToSet
<1>5. t \in [1 .. Len(s) -> ToSet(t)]
  BY <1>2, <1>4
<1>6. t \in Seq(ToSet(t)) /\ Len(t) = Len(s)
  BY <1>1, <1>5
<1>7. ToSet(t) = Calls(op, ToSet(s))
  <2>1. ToSet(s) = {s[i] : i \in 1 .. Len(s)}
    BY <1>1 DEF ToSet
  <2> QED
    BY <2>1, <1>3, <1>4 DEF Calls
<1> QED
  BY <1>3, <1>6, <1>7 DEF IsSequence

ConstraintCalls ==
  Calls("addConstraint", ToSet(fm.boolean)) \cup Calls("addConstraint", ToSet(fm.nonBoolean))
  \cup Calls("addMixedConstraint", ToSet(fm.mixed)) \cup Calls("addRelationship", ToSet(fm.groups))

\* What follows a sequence stays in a set.
LEMMA Extended ==
  ASSUME NEW s, IsSequence(s), NEW t, IsSequence(t), NEW n \in Nat, n <= Len(s), NEW S,
         \A i \in n + 1 .. Len(s) : s[i] \in S
  PROVE  /\ IsSequence(s \o t) /\ Len(s \o t) = Len(s) + Len(t) /\ n <= Len(s \o t)
         /\ \A i \in 1 .. n : (s \o t)[i] = s[i]
         /\ \A i \in n + 1 .. Len(s \o t) : (s \o t)[i] \in S \cup ToSet(t)
         /\ ToSet(s \o t) = ToSet(s) \cup ToSet(t)
<1> DEFINE u == s \o t
<1>1. /\ IsSequence(u) /\ Len(u) = Len(s) + Len(t)
      /\ \A i \in 1 .. Len(s) : u[i] = s[i]
      /\ \A i \in Len(s) + 1 .. Len(s) + Len(t) : u[i] \in ToSet(t)
      /\ ToSet(u) = ToSet(s) \cup ToSet(t)
  BY Concatenated
<1>2. Len(s) \in Nat /\ Len(t) \in Nat
  BY SequenceHas
<1> HIDE DEF u
<1>3. \A i \in 1 .. n : u[i] = s[i]
  BY <1>1, <1>2
<1>4. ASSUME NEW i \in n + 1 .. Len(u)
      PROVE  u[i] \in S \cup ToSet(t)
  <2>1. (i \in n + 1 .. Len(s) /\ i \in 1 .. Len(s)) \/ i \in Len(s) + 1 .. Len(s) + Len(t)
    BY <1>4, <1>1, <1>2
  <2> QED
    BY <2>1, <1>1
<1>5. n <= Len(u)
  BY <1>1, <1>2
<1>6. /\ IsSequence(u) /\ Len(u) = Len(s) + Len(t) /\ n <= Len(u)
      /\ \A i \in 1 .. n : u[i] = s[i]
      /\ \A i \in n + 1 .. Len(u) : u[i] \in S \cup ToSet(t)
      /\ ToSet(u) = ToSet(s) \cup ToSet(t)
  BY <1>1, <1>3, <1>4, <1>5
<1> QED
  BY <1>6 DEF u

\* A model is put in by its features first, then by its groups and constraints.
LEMMA CallsAre ==
  ASSUME WellPosed(fm)
  PROVE  /\ IsSequence(fm.features) /\ Len(fm.features) \in Nat /\ DOMAIN fm.features = 1 .. Len(fm.features)
         /\ IsSequence(CallsFor) /\ Len(CallsFor) \in Nat /\ Len(fm.features) <= Len(CallsFor)
         /\ \A i \in 1 .. Len(fm.features) : CallsFor[i] = [op |-> "addFeature", arg |-> fm.features[i]]
         /\ \A i \in Len(fm.features) + 1 .. Len(CallsFor) : CallsFor[i] \in ConstraintCalls
         /\ ToSet(CallsFor) = Calls("addFeature", ToSet(fm.features)) \cup ConstraintCalls
<1> DEFINE n == Len(fm.features)
           A == Each("addFeature", fm.features)
           B == Each("addConstraint", fm.boolean)
           C == Each("addConstraint", fm.nonBoolean)
           D == Each("addMixedConstraint", fm.mixed)
           E == Each("addRelationship", fm.groups)
           b == Calls("addConstraint", ToSet(fm.boolean))
           c == Calls("addConstraint", ToSet(fm.nonBoolean))
           d == Calls("addMixedConstraint", ToSet(fm.mixed))
           e == Calls("addRelationship", ToSet(fm.groups))
<1>1. /\ IsSequence(fm.features) /\ IsSequence(fm.groups) /\ IsSequence(fm.boolean)
      /\ IsSequence(fm.nonBoolean) /\ IsSequence(fm.mixed)
  BY DEF WellPosed, IsSequence
<1>2. /\ IsSequence(A) /\ Len(A) = n /\ ToSet(A) = Calls("addFeature", ToSet(fm.features))
      /\ \A i \in 1 .. n : A[i] = [op |-> "addFeature", arg |-> fm.features[i]]
  BY <1>1, EachIs
<1>3. IsSequence(B) /\ ToSet(B) = b
  BY <1>1, EachIs
<1>4. IsSequence(C) /\ ToSet(C) = c
  BY <1>1, EachIs
<1>5. IsSequence(D) /\ ToSet(D) = d
  BY <1>1, EachIs
<1>6. IsSequence(E) /\ ToSet(E) = e
  BY <1>1, EachIs
<1>7. n \in Nat /\ DOMAIN fm.features = 1 .. n
  BY <1>1, SequenceHas
<1>8. CallsFor = (((A \o B) \o C) \o D) \o E
  BY DEF CallsFor
<1>9. ConstraintCalls = ((b \cup c) \cup d) \cup e
  BY DEF ConstraintCalls
<1> HIDE DEF A, B, C, D, E, b, c, d, e, n
<1>10. n <= Len(A) /\ \A i \in n + 1 .. Len(A) : A[i] \in b
  BY <1>2, <1>7
<1>11. /\ IsSequence(A \o B) /\ n <= Len(A \o B)
       /\ \A i \in 1 .. n : (A \o B)[i] = A[i]
       /\ \A i \in n + 1 .. Len(A \o B) : (A \o B)[i] \in b
       /\ ToSet(A \o B) = ToSet(A) \cup b
  <2>1. /\ IsSequence(A \o B) /\ n <= Len(A \o B)
        /\ \A i \in 1 .. n : (A \o B)[i] = A[i]
        /\ \A i \in n + 1 .. Len(A \o B) : (A \o B)[i] \in b \cup ToSet(B)
        /\ ToSet(A \o B) = ToSet(A) \cup ToSet(B)
    BY <1>2, <1>3, <1>7, <1>10, Extended
  <2> QED
    BY <2>1, <1>3
<1> DEFINE F == A \o B
<1>12. /\ IsSequence(F \o C) /\ n <= Len(F \o C)
       /\ \A i \in 1 .. n : (F \o C)[i] = F[i]
       /\ \A i \in n + 1 .. Len(F \o C) : (F \o C)[i] \in b \cup c
       /\ ToSet(F \o C) = ToSet(F) \cup c
  <2> HIDE DEF F
  <2>1. IsSequence(F) /\ n <= Len(F) /\ \A i \in n + 1 .. Len(F) : F[i] \in b
    BY <1>11 DEF F
  <2> QED
    BY <2>1, <1>4, <1>7, Extended
<1> DEFINE G == F \o C
<1> HIDE DEF F
<1>13. /\ IsSequence(G \o D) /\ n <= Len(G \o D)
       /\ \A i \in 1 .. n : (G \o D)[i] = G[i]
       /\ \A i \in n + 1 .. Len(G \o D) : (G \o D)[i] \in (b \cup c) \cup d
       /\ ToSet(G \o D) = ToSet(G) \cup d
  <2> HIDE DEF G
  <2>1. IsSequence(G) /\ n <= Len(G) /\ \A i \in n + 1 .. Len(G) : G[i] \in b \cup c
    BY <1>12 DEF G
  <2> QED
    BY <2>1, <1>5, <1>7, Extended
<1> DEFINE H == G \o D
<1> HIDE DEF G
<1>14. /\ IsSequence(H \o E) /\ n <= Len(H \o E)
       /\ \A i \in 1 .. n : (H \o E)[i] = H[i]
       /\ \A i \in n + 1 .. Len(H \o E) : (H \o E)[i] \in ((b \cup c) \cup d) \cup e
       /\ ToSet(H \o E) = ToSet(H) \cup e
  <2> HIDE DEF H
  <2>1. IsSequence(H) /\ n <= Len(H) /\ \A i \in n + 1 .. Len(H) : H[i] \in (b \cup c) \cup d
    BY <1>13 DEF H
  <2> QED
    BY <2>1, <1>6, <1>7, Extended
<1> HIDE DEF H
<1>15. CallsFor = H \o E
  BY <1>8 DEF F, G, H
<1>16. \A i \in 1 .. n : CallsFor[i] = A[i]
  BY <1>11, <1>12, <1>13, <1>14, <1>15 DEF F, G, H
<1>17. ToSet(CallsFor) = ToSet(A) \cup ConstraintCalls
  BY <1>9, <1>11, <1>12, <1>13, <1>14, <1>15 DEF F, G, H
<1>18. IsSequence(CallsFor) /\ n <= Len(CallsFor) /\ \A i \in n + 1 .. Len(CallsFor) : CallsFor[i] \in ConstraintCalls
  BY <1>9, <1>14, <1>15
<1>19. Len(CallsFor) \in Nat
  BY <1>18, SequenceHas
<1> QED
  BY <1>1, <1>2, <1>7, <1>16, <1>17, <1>18, <1>19 DEF n

-------------------------------------------------------------------------------
(* What stays while the request is the same *)

\* What the calls and their solutions are depends on the model and the query only.
LEMMA Steady ==
  ASSUME UNCHANGED <<fm, query>>
  PROVE  /\ Declared' = Declared /\ CallsFor' = CallsFor /\ AddedFeatures' = AddedFeatures
         /\ \A k : SolutionsOf(k)' = SolutionsOf(k)
         /\ Solutions' = Solutions
<1>1. Declared' = Declared /\ CallsFor' = CallsFor /\ AddedFeatures' = AddedFeatures
  BY DEF Declared, CallsFor, AddedFeatures
<1>2. \A f : InSomeGroup(f)' = InSomeGroup(f)
  BY DEF InSomeGroup
<1>3. \A call, m : Holds(call, m)' = Holds(call, m)
  BY <1>2 DEF Holds
<1>4. \A k : SolutionsOf(k)' = SolutionsOf(k)
  BY <1>1, <1>3 DEF SolutionsOf
<1>5. Solutions' = Solutions
  BY <1>1, <1>4 DEF Solutions
<1> QED
  BY <1>1, <1>4, <1>5

\* The model and the query stay.
LEMMA RequestKept ==
  ASSUME RequestInv, [FactoryNext]_vars
  PROVE  RequestInv'
<1>1. CASE UNCHANGED vars \/ Stop
  BY <1>1 DEF RequestInv, Stop, vars, factoryVars
<1>2. CASE Start
  BY <1>2, RequestIs DEF RequestInv, Start
<1>3. CASE Apply
  BY <1>3 DEF RequestInv, Apply
<1>4. CASE Applied
  <2>1. UNCHANGED <<fm, query>>
    BY <1>4 DEF Applied
  <2>2. CASE query.method = "isValid"
    BY <1>4, <2>1, <2>2 DEF RequestInv, Applied
  <2>3. CASE query.method = "solver"
    BY <1>4, <2>1, <2>3 DEF RequestInv, Applied
  <2>4. CASE query.method \notin {"isValid", "solver"}
    <3>0. query.method # "isValid" /\ query.method # "solver"
      BY <2>4
    <3>1. phase' = "deref"
      BY <1>4, <3>0, Zenon DEF Applied
    <3>2. query.method \in {"getAllConfigs", "getNConfigs"}
      BY <2>4, RequestIs
    <3>3. phase = "apply"
      BY <1>4 DEF Applied
    <3> QED
      BY <3>1, <3>2, <3>3, <2>1 DEF RequestInv
  <2> QED
    BY <2>2, <2>3, <2>4
<1>5. CASE Deref
  BY <1>5 DEF RequestInv, Deref, EndAs
<1>6. CASE Advance
  BY <1>6 DEF RequestInv, Advance, EndAs
<1>7. CASE AskIfValid
  BY <1>7 DEF RequestInv, AskIfValid, EndAs
<1>8. CASE ClientCall
  BY <1>8 DEF RequestInv, ClientCall
<1> QED
  BY <1>1, <1>2, <1>3, <1>4, <1>5, <1>6, <1>7, <1>8 DEF FactoryNext

-------------------------------------------------------------------------------
(* Options follow the tree *)

\* A feature of the model comes after its parent, under a name of its own.
LEMMA FeatureIs ==
  ASSUME WellPosed(fm), NEW i \in DOMAIN fm.features
  PROVE  LET f == fm.features[i]
             before == {fm.features[j].name : j \in 1 .. i - 1}
         IN  /\ f.name \in Names \ before /\ f.parent \in before \cup {Nil}
             /\ f.kind \in {"ROOT", "BINARY", "NUMERIC"}
             /\ f.kind = "NUMERIC" <=> f.name \in NumericNames
             /\ f.kind = "BINARY" => f.parent \notin NumericNames
  BY DEF WellPosed

\* No two features of a model have the same name.
LEMMA DistinctNames ==
  ASSUME WellPosed(fm), NEW i \in DOMAIN fm.features, NEW j \in DOMAIN fm.features,
         fm.features[i].name = fm.features[j].name
  PROVE  i = j
<1>1. i \in Nat /\ j \in Nat /\ DOMAIN fm.features = 1 .. Len(fm.features) /\ Len(fm.features) \in Nat
  BY CallsAre
<1>2. \A k \in DOMAIN fm.features : \A l \in 1 .. k - 1 : fm.features[k].name # fm.features[l].name
  BY FeatureIs
<1>3. ~(i < j) /\ ~(j < i)
  BY <1>1, <1>2
<1> QED
  BY <1>1, <1>3

\* Nor have two added features of the same name different parents.
LEMMA OneParent ==
  ASSUME RequestInv, NEW f \in AddedFeatures, NEW g \in AddedFeatures, f.name = g.name
  PROVE  f.parent = g.parent
<1> DEFINE Menu == {call.arg : call \in {c \in ClientMenu : c.op = "addFeature" /\ query.method = "solver"}}
<1>1. AddedFeatures = ToSet(fm.features) \cup Menu
  BY DEF AddedFeatures, Features
<1>2. CASE f \in ToSet(fm.features) /\ g \in ToSet(fm.features)
  <2>1. PICK i \in DOMAIN fm.features : f = fm.features[i]
    BY <1>2 DEF ToSet
  <2>2. PICK j \in DOMAIN fm.features : g = fm.features[j]
    BY <1>2 DEF ToSet
  <2>3. i = j
    BY <2>1, <2>2, DistinctNames, RequestIs
  <2> QED
    BY <2>1, <2>2, <2>3
<1>3. ASSUME NEW x \in ToSet(fm.features), NEW y \in Menu, x.name = y.name
      PROVE  x.parent = y.parent
  <2>1. PICK call \in ClientMenu : call.op = "addFeature" /\ y = call.arg /\ query.method = "solver"
    BY <1>3
  <2>2. PICK request \in Requests : fm = request.model /\ query = request.query
    BY DEF RequestInv
  <2> QED
    BY <1>3, <2>1, <2>2, ClientAssumption
<1>4. CASE f \in Menu /\ g \in Menu
  <2>1. PICK call \in ClientMenu : call.op = "addFeature" /\ f = call.arg
    BY <1>4
  <2>2. PICK other \in ClientMenu : other.op = "addFeature" /\ g = other.arg
    BY <1>4
  <2> QED
    BY <2>1, <2>2, ClientAssumption
<1> QED
  BY <1>1, <1>2, <1>3, <1>4

Followed == \A f \in AddedFeatures : f.name \in DOMAIN Options /\ f.parent # Nil => f.parent \in DOMAIN Options

\* addFeature declares the parent of a feature with it.
LEMMA AddFeatureFollows ==
  ASSUME RequestInv, Followed, UNCHANGED <<fm, query>>, NEW g \in AddedFeatures, NEW grouped,
         AddFeature(g, grouped)
  PROVE  Followed' /\ DOMAIN Options \subseteq DOMAIN Options'
<1>1. CASE UNCHANGED Options
  BY <1>1, Steady DEF Followed
<1>2. CASE Refused(g) = "OK" /\ AddOption(g.name, SortOf(g))
  <2>1. DOMAIN Options' = DOMAIN Options \cup {g.name} /\ (g.parent # Nil => g.parent \in DOMAIN Options)
    BY <1>2 DEF AddOption, Refused
  <2>2. ASSUME NEW f \in AddedFeatures, f.name \in DOMAIN Options', f.parent # Nil
        PROVE  f.parent \in DOMAIN Options'
    <3>1. CASE f.name \in DOMAIN Options
      BY <3>1, <2>1, <2>2 DEF Followed
    <3>2. CASE f.name = g.name
      <4>1. f.parent = g.parent
        BY <3>2, OneParent
      <4> QED
        BY <4>1, <2>1, <2>2
    <3> QED
      BY <3>1, <3>2, <2>1, <2>2
  <2> QED
    BY <2>1, <2>2, Steady DEF Followed
<1> QED
  BY <1>1, <1>2 DEF AddFeature

\* Options that are no features of the tree do not disturb it.
LEMMA OtherOptionFollows ==
  ASSUME Followed, UNCHANGED <<fm, query>>, NEW name, NEW sort,
         UNCHANGED Options \/ AddOption(name, sort),
         \A f \in AddedFeatures : f.name = name => name \in DOMAIN Options
  PROVE  Followed' /\ DOMAIN Options \subseteq DOMAIN Options'
<1>1. CASE UNCHANGED Options
  BY <1>1, Steady DEF Followed
<1>2. CASE AddOption(name, sort)
  <2>1. DOMAIN Options' = DOMAIN Options \cup {name}
    BY <1>2 DEF AddOption
  <2> QED
    BY <2>1, Steady DEF Followed
<1> QED
  BY <1>1, <1>2

\* So do the calls of a client.
LEMMA ClientFollows ==
  ASSUME RequestInv, TreeInv, phase = "client", UNCHANGED <<fm, query>>, NEW call \in ClientMenu, Perform(call)
  PROVE  Followed' /\ DOMAIN Options \subseteq DOMAIN Options'
<1>1. Followed /\ NamesOf(fm.features) \subseteq DOMAIN Options /\ query.method = "solver"
  BY DEF TreeInv, Followed, RequestInv
<1>2. CASE call.op = "addFeature" /\ AddFeature(call.arg, InSomeGroup(call.arg))
  <2>1. call.arg \in AddedFeatures
    BY <1>1, <1>2 DEF AddedFeatures
  <2> QED
    BY <1>1, <1>2, <2>1, AddFeatureFollows
<1>3. ASSUME NEW f \in AddedFeatures,
             \/ call.op = "addName" /\ f.name = call.arg
             \/ call.op = "addNumber" /\ f.name = call.arg.name
      PROVE  f.name \in DOMAIN Options
  <2>1. CASE f \in ToSet(fm.features)
    BY <2>1, <1>1 DEF NamesOf
  <2>2. CASE f \notin ToSet(fm.features)
    <3>1. PICK other \in ClientMenu : other.op = "addFeature" /\ f = other.arg
      BY <2>2, <1>3 DEF AddedFeatures, Features
    <3> QED
      BY <3>1, <1>3, ClientAssumption
  <2> QED
    BY <2>1, <2>2
<1>4. CASE call.op = "addName" /\ AddName(call.arg)
  <2>1. UNCHANGED Options \/ AddOption(call.arg, "Bool")
    BY <1>4 DEF AddName, AlreadyPresent
  <2>2. \A f \in AddedFeatures : f.name = call.arg => call.arg \in DOMAIN Options
    BY <1>3, <1>4
  <2> QED
    BY <1>1, <2>1, <2>2, OtherOptionFollows
<1>5. CASE call.op = "addNumber" /\ AddNumber(call.arg.name, call.arg.values)
  <2>1. UNCHANGED Options \/ AddOption(call.arg.name, "Int")
    BY <1>5 DEF AddNumber, AlreadyPresent
  <2>2. \A f \in AddedFeatures : f.name = call.arg.name => call.arg.name \in DOMAIN Options
    BY <1>3, <1>5
  <2> QED
    BY <1>1, <2>1, <2>2, OtherOptionFollows
<1>6. CASE UNCHANGED Options
  BY <1>1, <1>6, Steady DEF Followed
<1> QED
  BY <1>2, <1>4, <1>5, <1>6
     DEF Perform, AddConstraint, AddMixedConstraint, AddRelationship, LeaveOnly, RemoveFeature,
         HasValidConfigurations, GetNextConfiguration, GetCurrentConfiguration

-------------------------------------------------------------------------------
(* Putting the model into the solver *)

\* The first calls are the features of the model, the others are not.
LEMMA CallIs ==
  ASSUME WellPosed(fm), NEW k \in 1 .. Len(CallsFor)
  PROVE  /\ k <= Len(fm.features) => k \in DOMAIN fm.features /\ CallsFor[k] = [op |-> "addFeature", arg |-> fm.features[k]]
         /\ k > Len(fm.features) =>
              k \notin DOMAIN fm.features /\ CallsFor[k].op \in {"addConstraint", "addMixedConstraint", "addRelationship"}
<1>1. /\ Len(fm.features) \in Nat /\ DOMAIN fm.features = 1 .. Len(fm.features) /\ Len(CallsFor) \in Nat
      /\ \A i \in 1 .. Len(fm.features) : CallsFor[i] = [op |-> "addFeature", arg |-> fm.features[i]]
      /\ \A i \in Len(fm.features) + 1 .. Len(CallsFor) : CallsFor[i] \in ConstraintCalls
  BY CallsAre
<1>2. ASSUME k <= Len(fm.features)
      PROVE  k \in DOMAIN fm.features /\ CallsFor[k] = [op |-> "addFeature", arg |-> fm.features[k]]
  BY <1>1, <1>2
<1>3. ASSUME k > Len(fm.features)
      PROVE  k \notin DOMAIN fm.features /\ CallsFor[k].op \in {"addConstraint", "addMixedConstraint", "addRelationship"}
  <2>1. k \in Len(fm.features) + 1 .. Len(CallsFor) /\ k \notin DOMAIN fm.features
    BY <1>1, <1>3
  <2>2. CallsFor[k] \in ConstraintCalls
    BY <2>1, <1>1
  <2>3. \A call \in ConstraintCalls : call.op \in {"addConstraint", "addMixedConstraint", "addRelationship"}
    BY DEF ConstraintCalls, Calls
  <2> QED
    BY <2>1, <2>2, <2>3
<1> QED
  BY <1>2, <1>3

\* A feature is accepted in its turn, unless its range does not end.
LEMMA AcceptedInTurn ==
  ASSUME WellPosed(fm), NEW k \in Nat, k + 1 \in DOMAIN fm.features, OptionsOf(k)
  PROVE  Refused(fm.features[k + 1]) = "OK"
<1> DEFINE f == fm.features[k + 1]
           before == {fm.features[j].name : j \in 1 .. k}
<1>1. DOMAIN fm.features = 1 .. Len(fm.features) /\ Len(fm.features) \in Nat
  BY CallsAre
<1>2. k + 1 - 1 = k /\ \A i \in 1 .. k : i \in DOMAIN fm.features
  BY <1>1
<1>3. /\ f.name \in Names \ before /\ f.parent \in before \cup {Nil}
      /\ f.kind \in {"ROOT", "BINARY", "NUMERIC"}
  BY <1>2, FeatureIs
<1>4. \A o \in DOMAIN Options : o \in before
  BY DEF OptionsOf
<1>5. \A o \in before : o \in DOMAIN Options
  BY <1>2 DEF OptionsOf
<1> HIDE DEF f, before
<1>6. f.name \notin DOMAIN Options /\ (f.parent # Nil => f.parent \in DOMAIN Options) /\ f.kind # "UNKNOWN"
  BY <1>3, <1>4, <1>5
<1>7. Refused(f) = "OK"
  BY <1>6 DEF Refused
<1> QED
  BY <1>7 DEF f

\* A feature put in declares its option and leaves what its rules allow.
LEMMA FeaturePutIn ==
  ASSUME WellPosed(fm), UNCHANGED <<fm, query>>, NEW k \in Nat, k + 1 \in DOMAIN fm.features, OptionsOf(k),
         AddFeature(fm.features[k + 1], InSomeGroup(fm.features[k + 1])), reply'.code # "never"
  PROVE  /\ OptionsOf(k + 1)'
         /\ System' = {m \in System : HoldsForFeature(fm.features[k + 1], InSomeGroup(fm.features[k + 1]), m)}
<1> DEFINE f == fm.features[k + 1]
<1>1. Refused(f) = "OK"
  BY AcceptedInTurn
<1> DEFINE g == InSomeGroup(f)
<1>2. AddFeature(f, g)
  OBVIOUS
<1>3. /\ AddOption(f.name, SortOf(f)) /\ Ends(f)
      /\ System' = {m \in System : HoldsForFeature(f, g, m)}
  <2> HIDE DEF f, g
  <2>1. reply' # Reply("never")
    BY DEF Reply
  <2> QED
    BY <1>1, <1>2, <2>1 DEF AddFeature
<1>4. DOMAIN Options' = DOMAIN Options \cup {f.name} /\ Options'[f.name] = SortOf(f)
      /\ \A o \in DOMAIN Options : o # f.name => Options'[o] = Options[o]
  BY <1>3 DEF AddOption
<1>5. ASSUME NEW o \in DOMAIN Options'
      PROVE  \E i \in 1 .. k + 1 : i \in DOMAIN fm.features /\ o = fm.features[i].name
  <2>1. CASE o \in DOMAIN Options
    <3>1. PICK i \in 1 .. k : i \in DOMAIN fm.features /\ o = fm.features[i].name
      BY <2>1 DEF OptionsOf
    <3>2. i \in 1 .. k + 1
      OBVIOUS
    <3> QED
      BY <3>1, <3>2
  <2>2. CASE o = f.name
    <3>1. k + 1 \in 1 .. k + 1
      OBVIOUS
    <3> QED
      BY <2>2, <3>1
  <2> QED
    BY <1>4, <1>5, <2>1, <2>2
<1>6. ASSUME NEW i \in 1 .. k + 1, i \in DOMAIN fm.features
      PROVE  LET h == fm.features[i] IN
             h.name \in DOMAIN Options' /\ Options'[h.name] = SortOf(h) /\ Ends(h)
  <2> DEFINE h == fm.features[i]
  <2>1. CASE i = k + 1
    BY <2>1, <1>3, <1>4
  <2>2. CASE i \in 1 .. k
    <3>1. h.name \in DOMAIN Options /\ Options[h.name] = SortOf(h) /\ Ends(h)
      BY <2>2, <1>6 DEF OptionsOf
    <3>2. f.name \notin DOMAIN Options
      BY <1>1 DEF Refused
    <3> QED
      BY <3>1, <3>2, <1>4
  <2>3. i = k + 1 \/ i \in 1 .. k
    OBVIOUS
  <2> QED
    BY <2>1, <2>2, <2>3
<1>7. (\A o \in DOMAIN Options : \E i \in 1 .. k + 1 : i \in DOMAIN fm.features /\ o = fm.features[i].name)'
  BY <1>5
<1>8. (\A i \in 1 .. k + 1 : i \in DOMAIN fm.features =>
         LET h == fm.features[i] IN
         h.name \in DOMAIN Options /\ Options[h.name] = SortOf(h) /\ Ends(h))'
  BY <1>6 DEF SortOf, Ends
<1> QED
  BY <1>3, <1>7, <1>8 DEF OptionsOf

\* A call that is no feature leaves the options alone.
LEMMA ConstraintPutIn ==
  ASSUME UNCHANGED <<fm, query>>, NEW call,
         call.op \in {"addConstraint", "addMixedConstraint", "addRelationship"}, Perform(call)
  PROVE  UNCHANGED Options /\ System' = {m \in System : Holds(call, m)} /\ reply'.code = "OK"
         /\ UNCHANGED <<CurrentModel, found>>
<1>1. CASE call.op = "addConstraint"
  <2>1. AddConstraint(call.arg)
    BY <1>1 DEF Perform
  <2>2. \A m : Holds(call, m) <=> Visit(call.arg, FALSE, m)
    BY <1>1 DEF Holds
  <2> QED
    BY <2>1, <2>2 DEF AddConstraint, LeaveOnly, Reply
<1>2. CASE call.op = "addMixedConstraint"
  <2>1. AddMixedConstraint(call.arg)
    BY <1>2 DEF Perform
  <2>2. \A m : Holds(call, m) <=> HoldsForMixed(call.arg, m)
    BY <1>2 DEF Holds
  <2> QED
    BY <2>1, <2>2 DEF AddMixedConstraint, LeaveOnly, Reply
<1>3. CASE call.op = "addRelationship"
  <2>1. AddRelationship(call.arg)
    BY <1>3 DEF Perform
  <2>2. \A m : Holds(call, m) <=> HoldsForGroup(call.arg, m)
    BY <1>3 DEF Holds
  <2> QED
    BY <2>1, <2>2 DEF AddRelationship, LeaveOnly, Reply
<1> QED
  BY <1>1, <1>2, <1>3

\* One more call keeps the solutions that it holds for.
LEMMA SolutionsShrink ==
  ASSUME NEW k \in Nat
  PROVE  SolutionsOf(k + 1) = {m \in SolutionsOf(k) : Holds(CallsFor[k + 1], m)}
<1>1. \A i : i \in 1 .. k + 1 <=> i \in 1 .. k \/ i = k + 1
  OBVIOUS
<1> QED
  BY <1>1 DEF SolutionsOf

\* The calls that are left, one further.
LEMMA OneCallFurther ==
  ASSUME WellPosed(fm), ApplyInv, Apply
  PROVE  LET k == Made IN
         /\ k \in Nat /\ k + 1 \in 1 .. Len(CallsFor) /\ Head(todo) = CallsFor[k + 1]
         /\ todo' \in Seq(ToSet(CallsFor)) /\ Len(todo') <= Len(CallsFor)
         /\ Made' = k + 1
         /\ \A j \in 1 .. Len(todo') : todo'[j] = CallsFor[Made' + j]
<1> DEFINE n == Len(CallsFor)
           l == Len(todo)
           k == Made
<1>1. /\ todo \in Seq(ToSet(CallsFor)) /\ l <= n /\ todo # << >>
      /\ \A j \in 1 .. l : todo[j] = CallsFor[k + j]
      /\ todo' = Tail(todo) /\ UNCHANGED <<fm, query>>
  BY DEF ApplyInv, Apply
<1>2. n \in Nat /\ CallsFor' = CallsFor
  BY CallsAre, <1>1, Steady
<1>3. /\ todo' \in Seq(ToSet(CallsFor)) /\ Len(todo') = l - 1 /\ l \in Nat \ {0} /\ Head(todo) = todo[1]
      /\ \A i \in 1 .. l - 1 : todo'[i] = todo[i + 1]
  BY <1>1, TailOf
<1>4. k = n - l /\ Made' = n - Len(todo')
  BY <1>2 DEF Made
<1> HIDE DEF n, l, k
<1>5. k \in Nat /\ k + 1 \in 1 .. n /\ Made' = k + 1 /\ Len(todo') <= n
  BY <1>1, <1>2, <1>3, <1>4
<1>6. 1 \in 1 .. l
  BY <1>3
<1>7. Head(todo) = CallsFor[k + 1]
  BY <1>1, <1>3, <1>6
<1>8. ASSUME NEW j \in 1 .. Len(todo')
      PROVE  todo'[j] = CallsFor[Made' + j]
  <2>1. j \in 1 .. l - 1 /\ j + 1 \in 1 .. l
    BY <1>3, <1>8
  <2>2. todo'[j] = todo[j + 1] /\ todo[j + 1] = CallsFor[k + (j + 1)]
    BY <2>1, <1>1, <1>3
  <2>3. k + (j + 1) = Made' + j
    BY <1>5, <2>1
  <2> QED
    BY <2>2, <2>3
<1> QED
  BY <1>3, <1>5, <1>7, <1>8 DEF n, k

\* Putting in one more call keeps what the calls so far have left.
LEMMA ApplyKeepsApply ==
  ASSUME RequestInv, SearchInv, ApplyInv, Apply
  PROVE  ApplyInv'
<1>0. PICK k : k = Made
  OBVIOUS
<1> DEFINE call == CallsFor[k + 1]
<1>1. WellPosed(fm) /\ phase = "apply" /\ UNCHANGED <<fm, query, phase, V>> /\ reply.code # "never"
  BY RequestIs DEF Apply
<1>2. /\ k \in Nat /\ k + 1 \in 1 .. Len(CallsFor) /\ Head(todo) = CallsFor[k + 1]
      /\ todo' \in Seq(ToSet(CallsFor)) /\ Len(todo') <= Len(CallsFor)
      /\ Made' = k + 1
      /\ \A j \in 1 .. Len(todo') : todo'[j] = CallsFor[Made' + j]
  BY <1>0, <1>1, OneCallFurther
<1>3. CallsFor' = CallsFor /\ SolutionsOf(k + 1)' = SolutionsOf(k + 1)
  BY <1>1, Steady
<1>4. OptionsOf(k) /\ System = SolutionsOf(k) /\ Fresh
  BY <1>0, <1>1 DEF ApplyInv
<1>5. Perform(call)
  BY <1>2 DEF Apply
<1>6. SolutionsOf(k + 1) = {m \in SolutionsOf(k) : Holds(call, m)}
  BY <1>2, SolutionsShrink
<1>7. CASE k + 1 <= Len(fm.features)
  <2> DEFINE f == fm.features[k + 1]
  <2>1. k + 1 \in DOMAIN fm.features /\ call = [op |-> "addFeature", arg |-> f]
    BY <1>1, <1>2, <1>7, CallIs
  <2>2. call.op = "addFeature" /\ call.arg = f
    BY <2>1
  <2>3. AddFeature(f, InSomeGroup(f))
    BY <1>5, <2>2 DEF Perform
  <2>4. UNCHANGED CurrentModel
    BY <2>3 DEF AddFeature
  <2>5. Fresh'
    BY <1>1, <1>4, <2>4 DEF Fresh
  <2>6. ASSUME reply'.code # "never"
        PROVE  OptionsOf(k + 1)' /\ System' = SolutionsOf(k + 1)
    <3>1. OptionsOf(k + 1)' /\ System' = {m \in System : HoldsForFeature(f, InSomeGroup(f), m)}
      BY <1>1, <1>2, <1>4, <2>1, <2>3, <2>6, FeaturePutIn
    <3>2. \A m : Holds(call, m) <=> HoldsForFeature(f, InSomeGroup(f), m)
      BY <2>2 DEF Holds
    <3> QED
      BY <3>1, <3>2, <1>4, <1>6
  <2> HIDE DEF f, call
  <2> QED
    BY <1>1, <1>2, <1>3, <2>5, <2>6 DEF ApplyInv
<1>8. CASE ~(k + 1 <= Len(fm.features))
  <2>0. Len(fm.features) \in Nat /\ Len(CallsFor) \in Nat
    BY <1>1, CallsAre
  <2>1. k + 1 > Len(fm.features)
    BY <2>0, <1>2, <1>8
  <2>2. k + 1 \notin DOMAIN fm.features /\ call.op \in {"addConstraint", "addMixedConstraint", "addRelationship"}
    BY <1>1, <1>2, <2>1, CallIs
  <2>3. UNCHANGED Options /\ System' = {m \in System : Holds(call, m)} /\ UNCHANGED CurrentModel
    BY <1>1, <1>5, <2>2, ConstraintPutIn
  <2>4. Fresh'
    BY <1>1, <1>4, <2>3 DEF Fresh
  <2>5. System' = SolutionsOf(k + 1)
    BY <1>4, <1>6, <2>3
  <2>6. OptionsOf(k + 1)
    <3>1. \A i \in 1 .. k + 1 : i \in DOMAIN fm.features => i \in 1 .. k
      BY <1>2, <2>2
    <3>2. 1 .. k \subseteq 1 .. k + 1
      BY <1>2
    <3> QED
      BY <3>1, <3>2, <1>4 DEF OptionsOf
  <2>7. OptionsOf(k + 1)'
    BY <2>3, <2>6, <1>1 DEF OptionsOf, SortOf, Ends
  <2> HIDE DEF call
  <2> QED
    BY <1>1, <1>2, <1>3, <2>4, <2>5, <2>7 DEF ApplyInv
<1> QED
  BY <1>7, <1>8

\* The call that is made in apply, as one of CallsFor.
LEMMA ApplyPerforms ==
  ASSUME RequestInv, ApplyInv, Apply
  PROVE  /\ UNCHANGED <<fm, query, phase, V, outcome>> /\ phase = "apply" /\ WellPosed(fm)
         /\ \E i \in 1 .. Len(CallsFor) : Perform(CallsFor[i])
<1>1. UNCHANGED <<fm, query, phase, V, outcome>> /\ phase = "apply" /\ WellPosed(fm) /\ Perform(Head(todo))
  BY RequestIs DEF Apply
<1>2. Made + 1 \in 1 .. Len(CallsFor) /\ Head(todo) = CallsFor[Made + 1]
  BY <1>1, OneCallFurther
<1> QED
  BY <1>1, <1>2

\* It does not disturb the search.
LEMMA ApplyKeepsSearch ==
  ASSUME RequestInv, SearchInv, ApplyInv, Apply
  PROVE  SearchInv'
<1>1. WellPosed(fm) /\ UNCHANGED <<fm, query>>
  BY ApplyPerforms
<1>2. PICK k \in 1 .. Len(CallsFor) : Perform(CallsFor[k])
  BY ApplyPerforms
<1>3. CASE k <= Len(fm.features)
  <2>1. k \in DOMAIN fm.features /\ CallsFor[k] = [op |-> "addFeature", arg |-> fm.features[k]]
    BY <1>1, <1>3, CallIs
  <2>2. fm.features[k].kind = "NUMERIC" => fm.features[k].name \in NumericNames
    BY <1>1, <2>1, FeatureIs
  <2>3. fm.features[k].name \in Declared
    <3>1. fm.features[k].name \in NamesOf(fm.features)
      BY <2>1 DEF NamesOf, ToSet
    <3> QED
      BY <3>1, DeclaredIs
  <2>4. Known(CallsFor[k])
    BY <2>1, <2>2, <2>3 DEF Known
  <2> QED
    BY <1>1, <1>2, <2>4, PerformKeepsSearch
<1>4. CASE ~(k <= Len(fm.features))
  <2>0. Len(fm.features) \in Nat /\ Len(CallsFor) \in Nat
    BY <1>1, CallsAre
  <2>. k > Len(fm.features)
    BY <1>4, <2>0
  <2>1. CallsFor[k].op \in {"addConstraint", "addMixedConstraint", "addRelationship"}
    BY <1>1, CallIs
  <2>2. Known(CallsFor[k])
    BY <2>1 DEF Known
  <2> QED
    BY <1>1, <1>2, <2>2, PerformKeepsSearch
<1> QED
  BY <1>3, <1>4

\* Nor does a call of a client.
LEMMA ClientKeepsSearch ==
  ASSUME RequestInv, SearchInv, ClientCall
  PROVE  SearchInv'
<1>1. UNCHANGED <<fm, query>> /\ phase = "client"
  BY DEF ClientCall
<1>2. PICK call \in ClientMenu : Perform(call)
  BY DEF ClientCall
<1>3. Declared = Names
  BY <1>1 DEF RequestInv, Declared
<1>4. Known(call)
  BY <1>3, ClientAssumption, SolverAssumption DEF Known
<1> QED
  BY <1>1, <1>2, <1>4, PerformKeepsSearch

\* The search depends on the solver, the model and the query only.
LEMMA SearchSame ==
  ASSUME SearchInv, UNCHANGED <<solverVars, fm, query>>
  PROVE  SearchInv'
<1>1. UNCHANGED <<fm, query, CurrentModel, found, Options, System, reply>>
  BY DEF solverVars
<1>2. reply'.valid => found = << >>
  BY <1>1 DEF SearchInv
<1> QED
  BY <1>1, <1>2, Narrowed

\* Every step keeps the search.
LEMMA SearchKept ==
  ASSUME RequestInv, SearchInv, ApplyInv, [FactoryNext]_vars
  PROVE  SearchInv'
<1>1. CASE UNCHANGED vars \/ Stop
  BY <1>1, SearchSame DEF Stop, vars, factoryVars
<1>2. CASE Start
  BY <1>2, SearchSame DEF Start
<1>3. CASE Apply
  BY <1>3, ApplyKeepsSearch
<1>4. CASE Applied
  BY <1>4, SearchSame DEF Applied
<1>5. CASE Deref
  <2>1. UNCHANGED <<fm, query>> /\ GetCurrentConfiguration
    BY <1>5 DEF Deref
  <2> QED
    BY <2>1, CurrentKeepsSearch
<1>6. CASE Advance
  <2>1. UNCHANGED <<fm, query>> /\ GetNextConfiguration
    BY <1>6 DEF Advance
  <2> QED
    BY <2>1, NextKeepsSearch
<1>7. CASE AskIfValid
  <2>1. UNCHANGED <<fm, query>> /\ HasValidConfigurations
    BY <1>7 DEF AskIfValid
  <2> QED
    BY <2>1, AskingKeepsSearch
<1>8. CASE ClientCall
  BY <1>8, ClientKeepsSearch
<1> QED
  BY <1>1, <1>2, <1>3, <1>4, <1>5, <1>6, <1>7, <1>8 DEF FactoryNext

\* At the start the solver has no calls and leaves everything.
LEMMA StartKeepsApply ==
  ASSUME RequestInv, StartInv, Start
  PROVE  ApplyInv'
<1>1. phase = "start" /\ UNCHANGED <<solverVars, fm, query, V>>
  BY DEF Start
<1>2. UNCHANGED <<fm, query, Options, System, CurrentModel, found, reply, V>>
  BY <1>1 DEF solverVars
<1>3. CASE phase' = "apply" /\ todo' = CallsFor
  <2>1. /\ IsSequence(CallsFor) /\ Len(CallsFor) \in Nat /\ CallsFor' = CallsFor
        /\ SolutionsOf(0)' = SolutionsOf(0)
    BY <1>2, CallsAre, RequestIs, Steady
  <2>2. Made' = 0
    BY <1>3, <2>1 DEF Made
  <2>3. OptionsOf(0) /\ System = Assignments(Declared) /\ Fresh
    BY <1>1 DEF StartInv
  <2>4. SolutionsOf(0) = Assignments(Declared)
    BY DEF SolutionsOf
  <2>5. OptionsOf(0)' /\ System' = SolutionsOf(0)' /\ Fresh'
    BY <1>2, <2>1, <2>3, <2>4 DEF OptionsOf, SortOf, Ends, Fresh
  <2>6. \A j \in 1 .. Len(todo') : todo'[j] = CallsFor'[Made' + j]
    BY <1>3, <2>1, <2>2
  <2>7. todo' \in Seq(ToSet(CallsFor')) /\ Len(todo') <= Len(CallsFor')
    BY <1>3, <2>1 DEF IsSequence
  <2> QED
    BY <1>3, <2>2, <2>5, <2>6, <2>7 DEF ApplyInv
<1>4. CASE phase' # "apply"
  BY <1>4 DEF ApplyInv
<1> QED
  BY <1>3, <1>4 DEF Start

\* What was put in depends on the variables of the factory only.
LEMMA ApplySame ==
  ASSUME StartInv, ApplyInv, UNCHANGED vars
  PROVE  StartInv' /\ ApplyInv'
<1>1. UNCHANGED <<fm, query, phase, todo, V, Options, System, CurrentModel, reply>>
  BY DEF vars, factoryVars, solverVars
<1>2. CallsFor' = CallsFor /\ Declared' = Declared /\ \A k : SolutionsOf(k)' = SolutionsOf(k)
  BY <1>1, Steady
<1>3. \A k : OptionsOf(k)' <=> OptionsOf(k)
  BY <1>1 DEF OptionsOf, SortOf, Ends
<1>4. Made' = Made /\ (Fresh' <=> Fresh)
  BY <1>1, <1>2 DEF Made, Fresh
<1>5. OptionsOf(Made)' <=> OptionsOf(Made)
  BY <1>1, <1>4 DEF OptionsOf, SortOf, Ends
<1>6. SolutionsOf(Made)' = SolutionsOf(Made)
  <2>1. PICK k : k = Made
    OBVIOUS
  <2> QED
    BY <2>1, <1>2, <1>4
<1>7. ApplyInv'
  BY <1>1, <1>2, <1>4, <1>5, <1>6 DEF ApplyInv
<1>8. StartInv'
  BY <1>1, <1>2, <1>3, <1>4 DEF StartInv
<1> QED
  BY <1>7, <1>8

\* Every step keeps what was put in.
LEMMA ApplyKept ==
  ASSUME RequestInv, SearchInv, StartInv, ApplyInv, [FactoryNext]_vars
  PROVE  StartInv' /\ ApplyInv'
<1>1. CASE UNCHANGED vars \/ Stop
  BY <1>1, ApplySame DEF Stop
<1>2. CASE Start
  <2>1. phase' # "start"
    BY <1>2 DEF Start
  <2> QED
    BY <1>2, <2>1, StartKeepsApply DEF StartInv
<1>3. CASE Apply
  <2>1. phase' # "start"
    BY <1>3 DEF Apply
  <2> QED
    BY <1>3, <2>1, ApplyKeepsApply DEF StartInv
<1>4. CASE Applied \/ Deref \/ Advance \/ AskIfValid \/ ClientCall
  <2>1. phase' \notin {"start", "apply"}
    <3>1. CASE Applied
      BY <3>1 DEF Applied
    <3>2. CASE Deref
      BY <3>2 DEF Deref, EndAs
    <3>3. CASE Advance
      BY <3>3 DEF Advance, EndAs
    <3>4. CASE AskIfValid
      BY <3>4 DEF AskIfValid, EndAs
    <3>5. CASE ClientCall
      BY <3>5 DEF ClientCall
    <3> QED
      BY <1>4, <3>1, <3>2, <3>3, <3>4, <3>5
  <2> QED
    BY <2>1 DEF StartInv, ApplyInv
<1> QED
  BY <1>1, <1>2, <1>3, <1>4 DEF FactoryNext

\* That options follow the tree depends on the options only.
LEMMA TreeSame ==
  ASSUME TreeInv, UNCHANGED <<fm, query, Options>>,
         phase' = "client" => NamesOf(fm.features) \subseteq DOMAIN Options
  PROVE  TreeInv'
  BY Steady DEF TreeInv

\* More options, each after its parent, still follow the tree.
LEMMA TreeGrows ==
  ASSUME TreeInv, UNCHANGED <<fm, query, phase>>, Followed', DOMAIN Options \subseteq DOMAIN Options'
  PROVE  TreeInv'
  BY DEF TreeInv, Followed

\* When all calls were made, every feature is an option.
LEMMA AllAreOptions ==
  ASSUME WellPosed(fm), OptionsOf(Len(CallsFor))
  PROVE  /\ DOMAIN Options = NamesOf(fm.features)
         /\ \A f \in ToSet(fm.features) : Options[f.name] = SortOf(f) /\ Ends(f)
<1>1. /\ DOMAIN fm.features = 1 .. Len(fm.features) /\ Len(fm.features) \in Nat /\ Len(CallsFor) \in Nat
      /\ Len(fm.features) <= Len(CallsFor)
  BY CallsAre
<1>2. \A i \in DOMAIN fm.features : i \in 1 .. Len(CallsFor)
  BY <1>1
<1>3. ASSUME NEW f \in ToSet(fm.features)
      PROVE  f.name \in DOMAIN Options /\ Options[f.name] = SortOf(f) /\ Ends(f)
  <2>1. PICK i \in DOMAIN fm.features : f = fm.features[i]
    BY <1>3 DEF ToSet
  <2> QED
    BY <2>1, <1>2 DEF OptionsOf
<1>4. \A o \in DOMAIN Options : o \in NamesOf(fm.features)
  BY DEF OptionsOf, NamesOf, ToSet
<1>5. \A o \in NamesOf(fm.features) : o \in DOMAIN Options
  BY <1>3 DEF NamesOf
<1> QED
  BY <1>3, <1>4, <1>5

\* Every step keeps options that follow the tree.
LEMMA TreeKept ==
  ASSUME RequestInv, ApplyInv, TreeInv, [FactoryNext]_vars
  PROVE  TreeInv'
<1>1. CASE UNCHANGED vars \/ Stop
  BY <1>1, TreeSame DEF Stop, vars, factoryVars, solverVars, TreeInv
<1>2. CASE Start
  BY <1>2, TreeSame DEF Start, solverVars
<1>3. CASE Apply
  <2>1. WellPosed(fm) /\ UNCHANGED <<fm, query, phase>> /\ Followed
    BY <1>3, ApplyPerforms DEF TreeInv, Followed
  <2>2. PICK k \in 1 .. Len(CallsFor) : Perform(CallsFor[k])
    BY <1>3, ApplyPerforms
  <2>3. CASE k <= Len(fm.features)
    <3>1. k \in DOMAIN fm.features /\ CallsFor[k] = [op |-> "addFeature", arg |-> fm.features[k]]
      BY <2>1, <2>3, CallIs
    <3>2. AddFeature(fm.features[k], InSomeGroup(fm.features[k]))
      BY <2>2, <3>1 DEF Perform
    <3>3. fm.features[k] \in AddedFeatures
      BY <3>1 DEF AddedFeatures, Features, ToSet
    <3>4. Followed' /\ DOMAIN Options \subseteq DOMAIN Options'
      BY <2>1, <3>2, <3>3, AddFeatureFollows
    <3> QED
      BY <2>1, <3>4, TreeGrows
  <2>4. CASE ~(k <= Len(fm.features))
    <3>1. Len(fm.features) \in Nat /\ Len(CallsFor) \in Nat
      BY <2>1, CallsAre
    <3>2. k > Len(fm.features)
      BY <2>4, <3>1
    <3>3. CallsFor[k].op \in {"addConstraint", "addMixedConstraint", "addRelationship"}
      BY <2>1, <3>2, CallIs
    <3>4. UNCHANGED Options
      BY <2>1, <2>2, <3>3, ConstraintPutIn
    <3> QED
      BY <2>1, <3>4, TreeSame DEF TreeInv
  <2> QED
    BY <2>3, <2>4
<1>4. CASE Applied
  <2>1. /\ UNCHANGED <<fm, query, Options>> /\ WellPosed(fm) /\ phase = "apply" /\ todo = << >>
        /\ reply.code # "never"
    BY <1>4, RequestIs DEF Applied, solverVars
  <2>2. Made = Len(CallsFor)
    BY <2>1, CallsAre, EmptyIsSequence DEF Made
  <2>3. OptionsOf(Len(CallsFor))
    BY <2>1, <2>2 DEF ApplyInv
  <2>4. NamesOf(fm.features) \subseteq DOMAIN Options
    BY <2>1, <2>3, AllAreOptions
  <2> QED
    BY <2>1, <2>4, TreeSame
<1>5. CASE Deref \/ Advance \/ AskIfValid
  <2>1. UNCHANGED <<fm, query>>
    BY <1>5 DEF Deref, Advance, AskIfValid
  <2>2. UNCHANGED Options
    BY <1>5 DEF Deref, Advance, AskIfValid, GetCurrentConfiguration, GetNextConfiguration, HasValidConfigurations
  <2>3. phase' # "client"
    <3>1. CASE Deref
      BY <3>1 DEF Deref, EndAs
    <3>2. CASE Advance
      BY <3>2 DEF Advance, EndAs
    <3>3. CASE AskIfValid
      BY <3>3 DEF AskIfValid, EndAs
    <3> QED
      BY <1>5, <3>1, <3>2, <3>3
  <2> QED
    BY <2>1, <2>2, <2>3, TreeSame
<1>6. CASE ClientCall
  <2>1. UNCHANGED <<fm, query, phase>> /\ phase = "client"
    BY <1>6 DEF ClientCall
  <2>2. PICK call \in ClientMenu : Perform(call)
    BY <1>6 DEF ClientCall
  <2>3. Followed' /\ DOMAIN Options \subseteq DOMAIN Options'
    BY <2>1, <2>2, ClientFollows
  <2> QED
    BY <2>1, <2>3, TreeGrows
<1> QED
  BY <1>1, <1>2, <1>3, <1>4, <1>5, <1>6 DEF FactoryNext

-------------------------------------------------------------------------------
(* The search *)

\* That the model has been put in depends on the solver, the model and the query only.
LEMMA ModelSame ==
  ASSUME ModelIsIn, UNCHANGED <<fm, query, Options, System, CurrentModel, found>>
  PROVE  ModelIsIn'
<1>1. CallsFor' = CallsFor /\ Solutions' = Solutions
  BY Steady
<1>2. \A m : ConfigurationOf(m)' = ConfigurationOf(m)
  BY DEF ConfigurationOf
<1>3. Configurations' = Configurations
  BY <1>1, <1>2 DEF Configurations
<1>4. OptionsOf(Len(CallsFor))'
  BY <1>1 DEF ModelIsIn, OptionsOf, SortOf, Ends
<1>5. (System = {m \in Solutions : ConfigurationOf(m) \notin ToSet(found)})'
  BY <1>1, <1>2 DEF ModelIsIn
<1>6. (CurrentModel # Nil => ConfigurationOf(CurrentModel) = found[Len(found)])'
  BY DEF ModelIsIn, ConfigurationOf
<1> QED
  BY <1>3, <1>4, <1>5, <1>6 DEF ModelIsIn

\* getNextConfiguration takes what it found away from the solutions that are left.
LEMMA NextKeepsModel ==
  ASSUME RequestInv, SearchInv, ModelIsIn, UNCHANGED <<fm, query>>, GetNextConfiguration
  PROVE  ModelIsIn'
<1>1. CASE UNCHANGED <<Options, System, CurrentModel, found>>
  BY <1>1, ModelSame
<1>2. ASSUME NEW m \in System, CurrentModel' = m, System' = Exclude(m),
             found' = Append(found, ConfigurationOf(m)), UNCHANGED Options
      PROVE  ModelIsIn'
  <2>1. CallsFor' = CallsFor /\ Solutions' = Solutions
    BY Steady
  <2>2. \A n : ConfigurationOf(n)' = ConfigurationOf(n)
    BY <1>2 DEF ConfigurationOf
  <2>3. Configurations' = Configurations
    BY <2>1, <2>2 DEF Configurations
  <2>4. OptionsOf(Len(CallsFor))'
    BY <1>2, <2>1 DEF ModelIsIn, OptionsOf, SortOf, Ends
  <2>5. /\ IsSequence(found') /\ Len(found') = Len(found) + 1 /\ found'[Len(found) + 1] = ConfigurationOf(m)
        /\ ToSet(found') = ToSet(found) \cup {ConfigurationOf(m)}
    BY <1>2, Appended DEF SearchInv
  <2>6. System' = {n \in System : ConfigurationOf(n) # ConfigurationOf(m)}
    BY <1>2, Excluded
  <2>7. m \in Solutions /\ System = {n \in Solutions : ConfigurationOf(n) \notin ToSet(found)}
    BY DEF ModelIsIn
  <2>8. System' = {n \in Solutions : ConfigurationOf(n) \notin ToSet(found')}
    BY <2>5, <2>6, <2>7
  <2>9. (System = {n \in Solutions : ConfigurationOf(n) \notin ToSet(found)})'
    BY <2>1, <2>2, <2>8
  <2>10. ToSet(found') \subseteq Configurations
    BY <2>5, <2>7 DEF Configurations, ModelIsIn
  <2>11. ConfigurationOf(m)' = found'[Len(found')]
    BY <2>2, <2>5
  <2>12. (CurrentModel # Nil => ConfigurationOf(CurrentModel) = found[Len(found)])'
    BY <1>2, <2>11 DEF ConfigurationOf
  <2> QED
    BY <2>3, <2>4, <2>9, <2>10, <2>12 DEF ModelIsIn
<1> QED
  BY <1>1, <1>2 DEF GetNextConfiguration

\* getCurrentConfiguration takes nothing away.
LEMMA CurrentKeepsModel ==
  ASSUME RequestInv, SearchInv, ModelIsIn, UNCHANGED <<fm, query>>, GetCurrentConfiguration
  PROVE  ModelIsIn'
  BY NextKeepsModel, ModelSame DEF GetCurrentConfiguration

\* Every step keeps the model in the solver, once it is there.
LEMMA ModelKept ==
  ASSUME RequestInv, SearchInv, ApplyInv, ModelInv, [FactoryNext]_vars
  PROVE  ModelInv'
<1>1. CASE UNCHANGED vars \/ Stop
  <2>1. UNCHANGED <<fm, query, phase, Options, System, CurrentModel, found>>
    BY <1>1 DEF Stop, vars, factoryVars, solverVars
  <2>2. Asked' <=> Asked
    BY <2>1 DEF Asked
  <2> QED
    BY <2>1, <2>2, ModelSame DEF ModelInv
<1>2. CASE Start \/ Apply \/ ClientCall
  <2>1. phase' \notin {"ask", "deref", "advance"} /\ ~Asked'
    <3>1. CASE Start
      BY <3>1 DEF Start, Asked
    <3>2. CASE Apply
      BY <3>2 DEF Apply, Asked
    <3>3. CASE ClientCall
      BY <3>3 DEF ClientCall, Asked
    <3> QED
      BY <1>2, <3>1, <3>2, <3>3
  <2> QED
    BY <2>1 DEF ModelInv
<1>3. CASE Applied
  <2>1. /\ UNCHANGED <<fm, query, Options, System, CurrentModel, found>> /\ WellPosed(fm)
        /\ phase = "apply" /\ todo = << >> /\ reply.code # "never"
    BY <1>3, RequestIs DEF Applied, solverVars
  <2>2. Made = Len(CallsFor)
    BY <2>1, CallsAre, EmptyIsSequence DEF Made
  <2>3. OptionsOf(Len(CallsFor)) /\ System = Solutions /\ CurrentModel = Nil
    BY <2>1, <2>2 DEF ApplyInv, Solutions, Fresh
  <2>4. found = << >>
    BY <2>3 DEF SearchInv
  <2>5. ToSet(found) = {}
    BY <2>4, EmptyIsSequence
  <2>6. ModelIsIn
    BY <2>3, <2>5 DEF ModelIsIn
  <2> QED
    BY <2>1, <2>6, ModelSame DEF ModelInv
<1>4. CASE Deref
  <2>1. UNCHANGED <<fm, query>> /\ GetCurrentConfiguration /\ ModelIsIn
    BY <1>4 DEF Deref, ModelInv
  <2> QED
    BY <2>1, CurrentKeepsModel DEF ModelInv
<1>5. CASE Advance
  <2>1. UNCHANGED <<fm, query>> /\ GetNextConfiguration /\ ModelIsIn
    BY <1>5 DEF Advance, ModelInv
  <2> QED
    BY <2>1, NextKeepsModel DEF ModelInv
<1>6. CASE AskIfValid
  <2>1. UNCHANGED <<fm, query, Options, System, CurrentModel, found>> /\ ModelIsIn
    BY <1>6 DEF AskIfValid, ModelInv, HasValidConfigurations
  <2> QED
    BY <2>1, ModelSame DEF ModelInv
<1> QED
  BY <1>1, <1>2, <1>3, <1>4, <1>5, <1>6 DEF FactoryNext

-------------------------------------------------------------------------------
(* The solutions are the valid configurations *)

\* A feature is added as a member of a group when some group has it as a child.
LEMMA GroupedIs ==
  ASSUME WellPosed(fm), NEW f
  PROVE  InSomeGroup(f) <=> \E g \in ToSet(fm.groups) : f.name \in g.children
  BY DEF InSomeGroup, ToSet

\* What the solver states for a feature is what a feature means in a tree.
LEMMA FeatureMeans ==
  ASSUME WellPosed(fm), MeansWhatItSays(fm), NEW m, NEW f \in ToSet(fm.features), Ends(f)
  PROVE  LET s == Selection(m) IN
         HoldsForFeature(f, InSomeGroup(f), m) <=>
           /\ f.kind = "ROOT" => f.name \in s.on
           /\ f.kind = "BINARY" /\ f.name \in s.on => f.parent \in s.on
           /\ f.kind = "BINARY" /\ ~f.optional /\ f.parent \in s.on =>
                f.name \in s.on \/ \E g \in ToSet(fm.groups) : f.name \in g.children
           /\ f.kind = "NUMERIC" => s.value[f.name] \in DeclaredValues(f)
<1> DEFINE s == Selection(m)
           grouped == \E g \in ToSet(fm.groups) : f.name \in g.children
<1>1. s.on = m.on \ NumericNames /\ s.value = m.value
  BY DEF Selection
<1>2. /\ f.kind \in {"ROOT", "BINARY", "NUMERIC"}
      /\ f.kind = "NUMERIC" <=> f.name \in NumericNames
      /\ f.kind = "BINARY" => f.parent \notin NumericNames
  BY FeatureIs DEF ToSet
<1>3. InSomeGroup(f) <=> grouped
  BY GroupedIs
<1> HIDE DEF s, grouped
<1>4. CASE f.kind = "ROOT"
  <2>1. HoldsForFeature(f, InSomeGroup(f), m) <=> f.name \in m.on
    BY <1>4 DEF HoldsForFeature
  <2>2. f.name \in m.on <=> f.name \in s.on
    BY <1>1, <1>2, <1>4
  <2> QED
    BY <1>4, <2>1, <2>2 DEF s
<1>5. CASE f.kind = "BINARY"
  <2>1. (f.name \in m.on <=> f.name \in s.on) /\ (f.parent \in m.on <=> f.parent \in s.on)
    BY <1>1, <1>2, <1>5
  <2>2. HoldsForFeature(f, InSomeGroup(f), m) <=> HoldsForBinary(f, InSomeGroup(f), m)
    BY <1>5 DEF HoldsForFeature
  <2>3. HoldsForBinary(f, InSomeGroup(f), m) <=>
          /\ f.name \in s.on => f.parent \in s.on
          /\ ~f.optional /\ f.parent \in s.on => f.name \in s.on \/ grouped
    BY <1>3, <2>1 DEF HoldsForBinary
  <2> QED
    BY <1>5, <2>2, <2>3 DEF s, grouped
<1>6. CASE f.kind = "NUMERIC"
  <2>1. ToSet(ValuesOf(f).values) = DeclaredValues(f)
    BY <1>6 DEF MeansWhatItSays, Ends
  <2>2. HoldsForFeature(f, InSomeGroup(f), m) <=> m.value[f.name] \in ToSet(ValuesOf(f).values)
    BY <1>6 DEF HoldsForFeature
  <2>3. HoldsForFeature(f, InSomeGroup(f), m) <=> s.value[f.name] \in DeclaredValues(f)
    BY <1>1, <2>1, <2>2
  <2> QED
    BY <1>6, <2>3 DEF s
<1> QED
  BY <1>2, <1>4, <1>5, <1>6

\* At most one and at least one is exactly one.
LEMMA ExactlyOne ==
  ASSUME NEW S, IsFiniteSet(S)
  PROVE  Cardinality(S) <= 1 /\ S # {} <=> \E c \in S : S = {c}
<1>1. ASSUME NEW c \in S, Cardinality(S) <= 1
      PROVE  S = {c}
  <2>1. ASSUME NEW d \in S, d # c
        PROVE  FALSE
    <3>1. {c, d} \subseteq S
      BY <2>1
    <3>2. Cardinality({c, d}) <= Cardinality(S)
      BY <3>1, FS_Subset
    <3>3. IsFiniteSet({c}) /\ Cardinality({c}) = 1
      BY FS_Singleton
    <3>4. Cardinality({c} \cup {d}) = 2
      BY <2>1, <3>3, FS_AddElement
    <3>5. {c} \cup {d} = {c, d}
      OBVIOUS
    <3>6. Cardinality(S) \in Nat
      BY FS_CardinalityType
    <3> QED
      BY <1>1, <3>2, <3>4, <3>5, <3>6
  <2> QED
    BY <2>1
<1>2. ASSUME NEW c \in S, S = {c}
      PROVE  Cardinality(S) <= 1 /\ S # {}
  BY <1>2, FS_Singleton
<1> QED
  BY <1>1, <1>2

\* What it states for a group is that one, or at least one, of the members is chosen.
LEMMA GroupMeans ==
  ASSUME WellPosed(fm), NEW m, NEW g \in ToSet(fm.groups)
  PROVE  LET s == Selection(m) IN
         HoldsForGroup(g, m) <=>
           (g.parent \in s.on =>
              IF g.kind = "ALTERNATIVE" THEN \E c \in g.children : g.children \cap s.on = {c}
              ELSE \E c \in g.children : c \in s.on)
<1> DEFINE s == Selection(m)
           S == g.children \cap m.on
<1>1. s.on = m.on \ NumericNames
  BY DEF Selection
<1>2. IsFiniteSet(g.children) /\ (g.children \cup {g.parent}) \cap NumericNames = {}
  BY DEF WellPosed
<1> HIDE DEF s
<1>3. (g.parent \in m.on <=> g.parent \in s.on) /\ S = g.children \cap s.on
  BY <1>1, <1>2
<1>4. IsFiniteSet(S)
  BY <1>2, FS_Intersection
<1>5. S # {} <=> \E c \in g.children : c \in s.on
  BY <1>3
<1>6. Cardinality(S) <= 1 /\ S # {} <=> \E c \in g.children : g.children \cap s.on = {c}
  <2> HIDE DEF S
  <2>1. Cardinality(S) <= 1 /\ S # {} <=> \E c \in S : S = {c}
    BY <1>4, ExactlyOne
  <2>2. (\E c \in S : S = {c}) <=> \E c \in g.children : S = {c}
    BY DEF S
  <2> QED
    BY <1>3, <2>1, <2>2
<1>7. HoldsForGroup(g, m) <=>
        (g.parent \in s.on => (g.kind = "ALTERNATIVE" => Cardinality(S) <= 1) /\ S # {})
  BY <1>3 DEF HoldsForGroup
<1> HIDE DEF S
<1> QED
  BY <1>5, <1>6, <1>7 DEF s

\* What it states for a constraint is the constraint.
LEMMA ConstraintMeans ==
  ASSUME MeansWhatItSays(fm), NEW m \in Assignments(NamesOf(fm.features))
  PROVE  /\ \A c \in ToSet(fm.boolean) \cup ToSet(fm.nonBoolean) : Visit(c, FALSE, m) <=> TrueIn(c, Selection(m))
         /\ \A x \in ToSet(fm.mixed) : HoldsForMixed(x, m) <=> MixedIn(x, Selection(m))
<1> DEFINE s == Selection(m)
<1>1. s.on = m.on \ NumericNames
  BY DEF Selection
<1>2. \A c \in ToSet(fm.boolean) \cup ToSet(fm.nonBoolean) : Visit(c, FALSE, m) <=> TrueIn(c, s)
  BY DEF MeansWhatItSays
<1>3. ASSUME NEW x \in ToSet(fm.mixed)
      PROVE  HoldsForMixed(x, m) <=> MixedIn(x, s)
  <2>1. TrueIn(x.constraint, s) \in BOOLEAN /\ Visit(x.constraint, TRUE, m) = TrueIn(x.constraint, s)
    BY <1>3 DEF MeansWhatItSays
  <2> HIDE DEF s
  <2>2. FeaturesOf(x.constraint) \ (NumericNames \cup m.on) # {} <=>
          ~(FeaturesOf(x.constraint) \subseteq s.on \cup NumericNames)
    BY <1>1
  <2>3. (IF x.exprKind = "NEG" THEN ~Visit(x.constraint, TRUE, m) ELSE Visit(x.constraint, TRUE, m)) <=>
          TrueIn(x.constraint, s) # (x.exprKind = "NEG")
    BY <2>1
  <2> QED
    BY <2>2, <2>3 DEF HoldsForMixed, MixedIn
<1> QED
  BY <1>2, <1>3

\* The calls for a model hold when those of its features, groups and constraints hold.
LEMMA CallsHold ==
  ASSUME WellPosed(fm), NEW m
  PROVE  (\A i \in 1 .. Len(CallsFor) : Holds(CallsFor[i], m)) <=>
           /\ \A f \in ToSet(fm.features) : HoldsForFeature(f, InSomeGroup(f), m)
           /\ \A g \in ToSet(fm.groups) : HoldsForGroup(g, m)
           /\ \A c \in ToSet(fm.boolean) \cup ToSet(fm.nonBoolean) : Visit(c, FALSE, m)
           /\ \A x \in ToSet(fm.mixed) : HoldsForMixed(x, m)
<1>1. ToSet(CallsFor) = Calls("addFeature", ToSet(fm.features)) \cup ConstraintCalls
  BY CallsAre
<1>2. ToSet(CallsFor) = {CallsFor[i] : i \in 1 .. Len(CallsFor)}
  BY CallsAre, SequenceHas
<1>3. \A a : Holds([op |-> "addFeature", arg |-> a], m) <=> HoldsForFeature(a, InSomeGroup(a), m)
  BY DEF Holds
<1>4. \A a : Holds([op |-> "addRelationship", arg |-> a], m) <=> HoldsForGroup(a, m)
  BY DEF Holds
<1>5. \A a : Holds([op |-> "addConstraint", arg |-> a], m) <=> Visit(a, FALSE, m)
  BY DEF Holds
<1>6. \A a : Holds([op |-> "addMixedConstraint", arg |-> a], m) <=> HoldsForMixed(a, m)
  BY DEF Holds
<1>7. (\A i \in 1 .. Len(CallsFor) : Holds(CallsFor[i], m)) <=> \A call \in ToSet(CallsFor) : Holds(call, m)
  BY <1>2
<1>8. (\A call \in Calls("addFeature", ToSet(fm.features)) : Holds(call, m)) <=>
        \A f \in ToSet(fm.features) : HoldsForFeature(f, InSomeGroup(f), m)
  BY <1>3 DEF Calls
<1>9. (\A call \in Calls("addRelationship", ToSet(fm.groups)) : Holds(call, m)) <=>
        \A g \in ToSet(fm.groups) : HoldsForGroup(g, m)
  BY <1>4 DEF Calls
<1>10. (\A call \in Calls("addConstraint", ToSet(fm.boolean)) \cup Calls("addConstraint", ToSet(fm.nonBoolean)) :
          Holds(call, m)) <=>
        \A c \in ToSet(fm.boolean) \cup ToSet(fm.nonBoolean) : Visit(c, FALSE, m)
  BY <1>5 DEF Calls
<1>11. (\A call \in Calls("addMixedConstraint", ToSet(fm.mixed)) : Holds(call, m)) <=>
        \A x \in ToSet(fm.mixed) : HoldsForMixed(x, m)
  BY <1>6 DEF Calls
<1>12. (\A call \in ConstraintCalls : Holds(call, m)) <=>
         /\ \A call \in Calls("addRelationship", ToSet(fm.groups)) : Holds(call, m)
         /\ \A call \in Calls("addConstraint", ToSet(fm.boolean)) \cup Calls("addConstraint", ToSet(fm.nonBoolean)) :
              Holds(call, m)
         /\ \A call \in Calls("addMixedConstraint", ToSet(fm.mixed)) : Holds(call, m)
  BY DEF ConstraintCalls
<1>13. (\A call \in ToSet(CallsFor) : Holds(call, m)) <=>
         /\ \A call \in Calls("addFeature", ToSet(fm.features)) : Holds(call, m)
         /\ \A call \in ConstraintCalls : Holds(call, m)
  BY <1>1
<1> QED
  BY <1>7, <1>8, <1>9, <1>10, <1>11, <1>12, <1>13, Zenon

\* The solutions of all calls are the valid configurations of the model.
LEMMA SolutionsAreValid ==
  ASSUME WellPosed(fm), MeansWhatItSays(fm), Declared = NamesOf(fm.features),
         \A f \in ToSet(fm.features) : Ends(f), NEW m \in Assignments(Declared)
  PROVE  m \in Solutions <=> IsValidIn(fm, Selection(m))
<1> DEFINE s == Selection(m)
           FeatureIn(f) ==
             /\ f.kind = "ROOT" => f.name \in s.on
             /\ f.kind = "BINARY" /\ f.name \in s.on => f.parent \in s.on
             /\ f.kind = "BINARY" /\ ~f.optional /\ f.parent \in s.on =>
                  f.name \in s.on \/ \E g \in ToSet(fm.groups) : f.name \in g.children
             /\ f.kind = "NUMERIC" => s.value[f.name] \in DeclaredValues(f)
           GroupIn(g) ==
             g.parent \in s.on =>
               IF g.kind = "ALTERNATIVE" THEN \E c \in g.children : g.children \cap s.on = {c}
               ELSE \E c \in g.children : c \in s.on
<1>1. m \in Solutions <=> \A i \in 1 .. Len(CallsFor) : Holds(CallsFor[i], m)
  BY DEF Solutions, SolutionsOf
<1>2. \A f \in ToSet(fm.features) : HoldsForFeature(f, InSomeGroup(f), m) <=> FeatureIn(f)
  BY FeatureMeans
<1>3. \A g \in ToSet(fm.groups) : HoldsForGroup(g, m) <=> GroupIn(g)
  BY GroupMeans
<1>4. /\ \A c \in ToSet(fm.boolean) \cup ToSet(fm.nonBoolean) : Visit(c, FALSE, m) <=> TrueIn(c, s)
      /\ \A x \in ToSet(fm.mixed) : HoldsForMixed(x, m) <=> MixedIn(x, s)
  BY ConstraintMeans
<1>5. IsValidIn(fm, s) <=>
        /\ \A f \in ToSet(fm.features) : FeatureIn(f)
        /\ \A g \in ToSet(fm.groups) : GroupIn(g)
        /\ \A c \in ToSet(fm.boolean) \cup ToSet(fm.nonBoolean) : TrueIn(c, s)
        /\ \A x \in ToSet(fm.mixed) : MixedIn(x, s)
  BY Zenon DEF IsValidIn, Features
<1> HIDE DEF s, FeatureIn, GroupIn
<1>6. (\A i \in 1 .. Len(CallsFor) : Holds(CallsFor[i], m)) <=>
        /\ \A f \in ToSet(fm.features) : FeatureIn(f)
        /\ \A g \in ToSet(fm.groups) : GroupIn(g)
        /\ \A c \in ToSet(fm.boolean) \cup ToSet(fm.nonBoolean) : TrueIn(c, s)
        /\ \A x \in ToSet(fm.mixed) : MixedIn(x, s)
  BY <1>2, <1>3, <1>4, CallsHold
<1> QED
  BY <1>1, <1>5, <1>6 DEF s

\* A selection, and its configuration where the model is in the solver.
LEMMA ConfigurationsAreValid ==
  ASSUME RequestInv, query.method # "solver", OptionsOf(Len(CallsFor))
  PROVE  Configurations = Valid[fm]
<1> DEFINE names == NamesOf(fm.features)
           numeric == Named(fm, {"NUMERIC"})
           binary == Named(fm, {"ROOT", "BINARY"})
           selections == [on : SUBSET binary, value : [numeric -> Numbers]]
           Config(s) == [o \in Named(fm, {"ROOT", "BINARY", "NUMERIC"}) |->
                           OptionText(o, IF o \in numeric THEN "Int" ELSE "Bool", s)]
<1>1. WellPosed(fm) /\ MeansWhatItSays(fm) /\ Declared = names /\ fm \in {request.model : request \in Requests}
  BY RequestIs DEF Declared
<1>2. DOMAIN Options = names /\ \A f \in ToSet(fm.features) : Options[f.name] = SortOf(f) /\ Ends(f)
  BY <1>1, AllAreOptions
<1>3. \A f \in ToSet(fm.features) :
        f.kind \in {"ROOT", "BINARY", "NUMERIC"} /\ (f.kind = "NUMERIC" <=> f.name \in NumericNames)
  BY <1>1, FeatureIs DEF ToSet
<1>4. numeric = NumericNames \cap names /\ binary = names \ NumericNames
      /\ Named(fm, {"ROOT", "BINARY", "NUMERIC"}) = names
  BY <1>3 DEF Named, Features, NamesOf
<1>5. \A o \in names : Options[o] = IF o \in numeric THEN "Int" ELSE "Bool"
  BY <1>2, <1>3, <1>4 DEF NamesOf, SortOf
<1>6. Valid[fm] = {Config(s) : s \in {t \in selections : IsValidIn(fm, t)}}
  BY <1>1 DEF Valid, ValidConfigurations
<1>7. Assignments(Declared) = [on : SUBSET names, value : [NumericNames \cap names -> Numbers]]
  BY <1>1 DEF Assignments
<1>8. \A m \in Assignments(Declared) : m \in Solutions <=> IsValidIn(fm, Selection(m))
  BY <1>1, <1>2, SolutionsAreValid
<1> HIDE DEF names, numeric, binary
<1>9. ASSUME NEW m \in Assignments(Declared)
      PROVE  Selection(m) \in selections /\ ConfigurationOf(m) = Config(Selection(m))
  <2>1. Selection(m) \in selections
    BY <1>4, <1>7 DEF Selection
  <2>2. \A o \in names : OptionText(o, Options[o], m) = OptionText(o, IF o \in numeric THEN "Int" ELSE "Bool", Selection(m))
    <3> SUFFICES ASSUME NEW o \in names
                 PROVE  OptionText(o, Options[o], m) = OptionText(o, IF o \in numeric THEN "Int" ELSE "Bool", Selection(m))
      OBVIOUS
    <3>1. CASE o \in numeric
      <4>1. Options[o] = "Int" /\ Selection(m).value = m.value
        BY <3>1, <1>5 DEF Selection
      <4> QED
        BY <3>1, <4>1 DEF OptionText
    <3>2. CASE o \notin numeric
      <4>1. Options[o] = "Bool" /\ o \notin NumericNames
        BY <3>2, <1>4, <1>5
      <4>2. o \in m.on <=> o \in Selection(m).on
        BY <4>1 DEF Selection
      <4> QED
        BY <3>2, <4>1, <4>2 DEF OptionText
    <3> QED
      BY <3>1, <3>2
  <2>3. ConfigurationOf(m) = [o \in names |-> OptionText(o, Options[o], m)]
    BY <1>2 DEF ConfigurationOf, names
  <2> QED
    BY <2>1, <2>2, <2>3, <1>4
<1>10. ASSUME NEW s \in selections
       PROVE  s \in Assignments(Declared) /\ Selection(s) = s
  <2>1. s \in Assignments(Declared)
    BY <1>4, <1>7, <1>10
  <2>2. s.on \cap NumericNames = {}
    BY <1>4, <1>10
  <2>3. s.on \ NumericNames = s.on /\ s = [on |-> s.on, value |-> s.value]
    BY <2>2, <1>10
  <2> QED
    BY <2>1, <2>3 DEF Selection
<1> HIDE DEF selections, Config
<1>11. Solutions \subseteq Assignments(Declared)
  BY DEF Solutions, SolutionsOf
<1>12. ASSUME NEW m \in Solutions
       PROVE  \E s \in {t \in selections : IsValidIn(fm, t)} : ConfigurationOf(m) = Config(s)
  <2>1. m \in Assignments(Declared)
    BY <1>11
  <2> QED
    BY <2>1, <1>8, <1>9
<1>13. ASSUME NEW s \in {t \in selections : IsValidIn(fm, t)}
       PROVE  s \in Solutions /\ Config(s) = ConfigurationOf(s)
  BY <1>8, <1>9, <1>10
<1> QED
  BY <1>6, <1>12, <1>13 DEF Configurations

-------------------------------------------------------------------------------
(* What is handed out *)

Counted == IsSequence(V) /\ IsFiniteSet(ToSet(V)) /\ Cardinality(ToSet(V)) = Len(V)

\* A sequence of one element.
LEMMA OneElement ==
  ASSUME NEW e
  PROVE  IsSequence(<<e>>) /\ Len(<<e>>) = 1 /\ ToSet(<<e>>) = {e}
<1>1. DOMAIN <<e>> = {1} /\ <<e>>[1] = e
  OBVIOUS
<1>2. ToSet(<<e>>) = {e}
  BY <1>1 DEF ToSet
<1> QED
  BY <1>2 DEF IsSequence

\* A configuration is put at either end of V.
LEMMA HandedOver ==
  ASSUME Counted, NEW c, c \notin ToSet(V), V' = Append(V, c) \/ V' = <<c>> \o V
  PROVE  Counted' /\ Len(V') = Len(V) + 1 /\ ToSet(V') = ToSet(V) \cup {c}
<1>1. IsSequence(V) /\ Len(V) \in Nat
  BY SequenceHas DEF Counted
<1>2. IsSequence(V') /\ Len(V') = Len(V) + 1 /\ ToSet(V') = ToSet(V) \cup {c}
  <2>1. CASE V' = Append(V, c)
    BY <2>1, <1>1, Appended
  <2>2. CASE V' = <<c>> \o V
    <3>1. IsSequence(<<c>>) /\ Len(<<c>>) = 1 /\ ToSet(<<c>>) = {c}
      BY OneElement
    <3>2. /\ IsSequence(<<c>> \o V) /\ Len(<<c>> \o V) = Len(<<c>>) + Len(V)
          /\ ToSet(<<c>> \o V) = ToSet(<<c>>) \cup ToSet(V)
      BY <1>1, <3>1, Concatenated
    <3> QED
      BY <2>2, <1>1, <3>1, <3>2
  <2> QED
    BY <2>1, <2>2
<1>3. IsFiniteSet(ToSet(V) \cup {c}) /\ Cardinality(ToSet(V) \cup {c}) = Len(V) + 1
  BY FS_AddElement DEF Counted
<1> QED
  BY <1>2, <1>3 DEF Counted, IsSequence

\* What the iterator stands at was not handed out yet.
StandsAt(c) ==
  /\ reply'.code = "OK" /\ reply'.configuration = c /\ c \notin ToSet(V)
  /\ Len(found') = Len(V) + 1 /\ ToSet(found') = ToSet(V) \cup {c} /\ found' # << >>

\* getNextConfiguration finds a configuration that is left, or there is none.
LEMMA NextFinds ==
  ASSUME SearchInv, GetNextConfiguration
  PROVE  \/ /\ reply'.code = "UNSAT" /\ System = {} /\ System' = {} /\ found' = found
         \/ \E c : /\ reply'.code = "OK" /\ reply'.configuration = c
                   /\ IsSequence(found') /\ Len(found') = Len(found) + 1 /\ found' # << >>
                   /\ \A i \in 1 .. Len(found) : found'[i] = found[i]
                   /\ ToSet(found') = ToSet(found) \cup {c}
<1>1. CASE System = {} /\ reply' = Reply("UNSAT") /\ UNCHANGED <<System, found>>
  BY <1>1 DEF Reply
<1>2. ASSUME NEW m \in System, found' = Append(found, ConfigurationOf(m)), reply' = Found(ConfigurationOf(m))
      PROVE  \E c : /\ reply'.code = "OK" /\ reply'.configuration = c
                    /\ IsSequence(found') /\ Len(found') = Len(found) + 1 /\ found' # << >>
                    /\ \A i \in 1 .. Len(found) : found'[i] = found[i]
                    /\ ToSet(found') = ToSet(found) \cup {c}
  <2>1. reply'.code = "OK" /\ reply'.configuration = ConfigurationOf(m)
    BY <1>2 DEF Found
  <2>2. /\ IsSequence(found') /\ Len(found') = Len(found) + 1 /\ found' # << >>
        /\ \A i \in 1 .. Len(found) : found'[i] = found[i]
        /\ ToSet(found') = ToSet(found) \cup {ConfigurationOf(m)}
    BY <1>2, Appended DEF SearchInv
  <2> QED
    BY <2>1, <2>2
<1> QED
  BY <1>1, <1>2 DEF GetNextConfiguration

\* Reading the iterator makes it stand at a configuration, or at the end.
LEMMA DerefStands ==
  ASSUME SearchInv, ModelInv, HandedInv, Deref
  PROVE  \/ /\ reply'.code = "UNSAT" /\ System = {} /\ System' = {}
            /\ found = << >> /\ found' = << >> /\ V = << >>
         \/ \E c : StandsAt(c)
<1>0. phase = "deref" /\ GetCurrentConfiguration /\ ModelIsIn
  BY DEF Deref, ModelInv
<1>1. CASE V = << >> /\ found = << >>
  <2>1. CurrentModel = Nil
    BY <1>1 DEF SearchInv
  <2>2. GetNextConfiguration
    BY <1>0, <2>1 DEF GetCurrentConfiguration
  <2>3. Len(V) = 0 /\ ToSet(V) = {} /\ Len(found) = 0 /\ ToSet(found) = {}
    BY <1>1, EmptyIsSequence
  <2> QED
    BY <1>1, <2>2, <2>3, NextFinds DEF StandsAt
<1>2. CASE /\ found # << >> /\ Len(found) = Len(V) + 1
           /\ ToSet(V) = {found[i] : i \in 1 .. Len(V)}
  <2> DEFINE c == found[Len(found)]
  <2>1. CurrentModel # Nil
    BY <1>2 DEF SearchInv
  <2>2. reply' = Found(ConfigurationOf(CurrentModel)) /\ found' = found
    BY <1>0, <2>1 DEF GetCurrentConfiguration
  <2>3. reply'.code = "OK" /\ reply'.configuration = c
    BY <1>0, <2>1, <2>2 DEF Found, ModelIsIn
  <2>4. Len(V) \in Nat /\ DOMAIN found = 1 .. Len(found) /\ ToSet(found) = {found[i] : i \in 1 .. Len(found)}
    BY SequenceHas DEF SearchInv, HandedInv
  <2>5. c \notin ToSet(V)
    <3> SUFFICES ASSUME NEW i \in 1 .. Len(V)
                 PROVE  found[i] # c
      BY <1>2
    <3>1. i \in DOMAIN found /\ Len(found) \in DOMAIN found /\ i < Len(found)
      BY <1>2, <2>4
    <3>2. \E o \in DOMAIN found[i] : found[i][o] # c[o]
      BY <3>1 DEF SearchInv, NoConfigurationTwice
    <3> QED
      BY <3>2
  <2>6. ToSet(found) = ToSet(V) \cup {c}
    <3>1. \A i : i \in 1 .. Len(found) <=> i \in 1 .. Len(V) \/ i = Len(found)
      BY <1>2, <2>4
    <3> QED
      BY <3>1, <1>2, <2>4
  <2>7. StandsAt(c)
    BY <1>2, <2>2, <2>3, <2>5, <2>6 DEF StandsAt
  <2> QED
    BY <2>7
<1> QED
  BY <1>0, <1>1, <1>2 DEF HandedInv

\* Reading the iterator hands out each configuration once.
LEMMA DerefKeepsHanded ==
  ASSUME RequestInv, SearchInv, ModelInv, HandedInv, Deref
  PROVE  HandedInv' /\ EndInv'
<1>0. /\ phase = "deref" /\ UNCHANGED <<fm, query>> /\ Counted /\ Len(V) \in Nat /\ query.n \in Nat
      /\ query.method \in {"getAllConfigs", "getNConfigs"}
      /\ query.method = "getNConfigs" => query.n # 0 /\ Len(V) < query.n
  <2>1. Counted /\ Len(V) \in Nat
    BY SequenceHas DEF HandedInv, Counted
  <2> QED
    BY <2>1, RequestIs DEF Deref, HandedInv, RequestInv
<1>1. CASE reply'.code = "UNSAT" /\ System' = {} /\ found' = << >> /\ V = << >>
  <2>1. CASE query.method = "getAllConfigs"
    <3>1. phase' = "done" /\ outcome' = "UNSAT" /\ V' = V
      BY <1>1, <2>1 DEF Deref, EndAs
    <3>2. Counted'
      BY <1>0, <3>1 DEF Counted, IsSequence
    <3>3. HandedInv'
      BY <1>0, <1>1, <2>1, <3>1, <3>2 DEF HandedInv, Counted, Asked
    <3>4. EndInv'
      BY <1>0, <1>1, <2>1, <3>1 DEF EndInv, Asked
    <3> QED
      BY <3>3, <3>4
  <2>2. CASE query.method = "getNConfigs"
    <3>1. phase' = "advance" /\ V' = V
      BY <1>1, <2>2 DEF Deref
    <3>2. Counted'
      BY <1>0, <3>1 DEF Counted, IsSequence
    <3>3. HandedInv'
      BY <1>0, <1>1, <2>2, <3>1, <3>2 DEF HandedInv, Counted, Asked
    <3>4. EndInv'
      BY <3>1 DEF EndInv, Asked
    <3> QED
      BY <3>3, <3>4
  <2> QED
    BY <1>0, <2>1, <2>2
<1>2. ASSUME NEW c, StandsAt(c)
      PROVE  HandedInv' /\ EndInv'
  <2>1. CASE query.method = "getAllConfigs"
    <3>1. phase' = "advance" /\ V' = Append(V, c)
      BY <1>2, <2>1 DEF Deref, StandsAt
    <3>2. Counted' /\ Len(V') = Len(V) + 1 /\ ToSet(V') = ToSet(V) \cup {c}
      BY <1>0, <1>2, <3>1, HandedOver DEF StandsAt
    <3>3. HandedInv'
      BY <1>0, <1>2, <2>1, <3>1, <3>2 DEF HandedInv, Counted, Asked, StandsAt
    <3>4. EndInv'
      BY <3>1 DEF EndInv, Asked
    <3> QED
      BY <3>3, <3>4
  <2>2. CASE query.method = "getNConfigs"
    <3>0. query.method # "getAllConfigs"
      BY <2>2
    <3>1. V' = <<c>> \o V
      BY <1>2, <3>0 DEF Deref, StandsAt
    <3>2. Counted' /\ Len(V') = Len(V) + 1 /\ ToSet(V') = ToSet(V) \cup {c}
      BY <1>0, <1>2, <3>1, HandedOver DEF StandsAt
    <3>3. CASE Len(V') = query.n
      <4>1. phase' = "done"
        BY <1>2, <3>0, <3>3 DEF Deref, EndAs, StandsAt
      <4>2. HandedInv'
        BY <1>0, <1>2, <2>2, <4>1, <3>2 DEF HandedInv, Counted, Asked, StandsAt
      <4>3. EndInv'
        BY <1>0, <2>2, <3>3, <4>1 DEF EndInv, Asked
      <4> QED
        BY <4>2, <4>3
    <3>4. CASE Len(V') # query.n
      <4>1. phase' = "advance"
        BY <1>2, <3>0, <3>4 DEF Deref, StandsAt
      <4>2. Len(V') < query.n
        BY <1>0, <2>2, <3>2, <3>4
      <4>3. HandedInv'
        BY <1>0, <1>2, <2>2, <4>1, <4>2, <3>2 DEF HandedInv, Counted, Asked, StandsAt
      <4>4. EndInv'
        BY <4>1 DEF EndInv, Asked
      <4> QED
        BY <4>3, <4>4
    <3> QED
      BY <3>3, <3>4
  <2> QED
    BY <1>0, <2>1, <2>2
<1> QED
  BY <1>1, <1>2, DerefStands

\* Advancing it hands out nothing.
LEMMA AdvanceKeepsHanded ==
  ASSUME RequestInv, SearchInv, HandedInv, Advance
  PROVE  HandedInv' /\ EndInv'
<1>0. /\ phase = "advance" /\ UNCHANGED <<fm, query, V>> /\ Counted /\ GetNextConfiguration
      /\ Len(V) = Len(found) /\ ToSet(V) = ToSet(found) /\ Len(V) \in Nat
      /\ query.method \in {"getAllConfigs", "getNConfigs"}
      /\ query.method = "getNConfigs" => Len(V) < query.n
      /\ query.method = "getAllConfigs" => found # << >>
      /\ ToSet(found) = {found[i] : i \in 1 .. Len(found)}
  <2>1. Counted /\ Len(V) \in Nat /\ ToSet(found) = {found[i] : i \in 1 .. Len(found)}
    BY SequenceHas, SMTT(30) DEF HandedInv, Counted, SearchInv
  <2> QED
    BY <2>1 DEF Advance, HandedInv, RequestInv
<1>1. Counted'
  BY <1>0 DEF Counted, IsSequence
<1>2. CASE reply'.code = "UNSAT" /\ System' = {} /\ found' = found
  <2>1. phase' = "done" /\ outcome' = "OK"
    BY <1>2, SMTT(30) DEF Advance, EndAs
  <2>2. HandedInv'
    BY <1>0, <1>1, <1>2, <2>1 DEF HandedInv, Counted, Asked
  <2>3. (Asked /\ query.method = "getAllConfigs" => System = {} /\ outcome = IF found = << >> THEN "UNSAT" ELSE "OK")'
    BY <1>0, <1>2, <2>1
  <2>4. (phase = "done" /\ ~Asked => V = << >>)'
    <3>1. query.method = "getNConfigs" => query.n # 0
      BY <1>0 DEF RequestInv
    <3>2. Asked'
      BY <1>0, <2>1, <3>1 DEF Asked
    <3> QED
      BY <3>2
  <2>5. EndInv'
    BY <1>0, <1>2, <2>1, <2>3, <2>4 DEF EndInv
  <2> QED
    BY <2>2, <2>5
<1>3. ASSUME NEW c, reply'.code = "OK", IsSequence(found'), Len(found') = Len(found) + 1, found' # << >>,
             \A i \in 1 .. Len(found) : found'[i] = found[i]
      PROVE  HandedInv' /\ EndInv'
  <2>1. phase' = "deref"
    BY <1>3 DEF Advance
  <2>2. Len(found') = Len(V') + 1
    BY <1>0, <1>3
  <2>3. ToSet(V') = {found'[i] : i \in 1 .. Len(V')}
    BY <1>0, <1>3, SMTT(30)
  <2>4. HandedInv'
    BY <1>0, <1>1, <1>3, <2>1, <2>2, <2>3 DEF HandedInv, Counted, Asked
  <2>5. EndInv'
    BY <2>1 DEF EndInv, Asked
  <2> QED
    BY <2>4, <2>5
<1> QED
  BY <1>0, <1>2, <1>3, NextFinds

\* isValid hands out nothing.
LEMMA AskKeepsHanded ==
  ASSUME RequestInv, SearchInv, HandedInv, AskIfValid
  PROVE  HandedInv' /\ EndInv'
<1>0. /\ phase = "ask" /\ phase' = "done" /\ UNCHANGED <<fm, query, V>> /\ HasValidConfigurations
      /\ V = << >> /\ found = << >> /\ query.method = "isValid" /\ Counted
  BY DEF AskIfValid, EndAs, HandedInv, RequestInv, Counted
<1>1. CurrentModel = Nil
  BY <1>0 DEF SearchInv
<1>2. reply' = Answer(System # {}) /\ UNCHANGED <<System, found>>
  BY <1>0, <1>1 DEF HasValidConfigurations
<1>3. reply'.code = "OK" /\ reply'.valid = (System' # {})
  BY <1>2 DEF Answer
<1>4. Counted'
  BY <1>0 DEF Counted, IsSequence
<1>5. HandedInv'
  BY <1>0, <1>4 DEF HandedInv, Counted, Asked
<1>6. EndInv'
  BY <1>0, <1>2, <1>3 DEF EndInv, Asked
<1> QED
  BY <1>5, <1>6

\* Every step hands out each configuration once at most.
LEMMA HandedKept ==
  ASSUME RequestInv, SearchInv, StartInv, ApplyInv, ModelInv, HandedInv, EndInv, [FactoryNext]_vars
  PROVE  HandedInv' /\ EndInv'
<1>1. CASE UNCHANGED vars \/ Stop
  <2>1. UNCHANGED <<fm, query, phase, V, outcome, System, found, reply>>
    BY <1>1 DEF Stop, vars, factoryVars, solverVars
  <2>2. Asked' <=> Asked
    BY <2>1 DEF Asked
  <2>3. HandedInv'
    BY <2>1, <2>2 DEF HandedInv, IsSequence
  <2>4. EndInv'
    BY <2>1, <2>2 DEF EndInv
  <2> QED
    BY <2>3, <2>4
<1>2. CASE Start
  <2>1. /\ UNCHANGED <<query, V>> /\ V = << >> /\ Counted
        /\ \/ phase' = "done" /\ query.method = "getNConfigs" /\ query.n = 0
           \/ phase' = "apply"
    BY <1>2 DEF Start, StartInv, Fresh, HandedInv, Counted
  <2>2. Counted'
    BY <2>1 DEF Counted, IsSequence
  <2>3. ~Asked'
    BY <2>1 DEF Asked
  <2>4. HandedInv'
    BY <2>1, <2>2, <2>3 DEF HandedInv, Counted
  <2>5. EndInv'
    BY <2>1, <2>3 DEF EndInv
  <2> QED
    BY <2>4, <2>5
<1>3. CASE Apply \/ ClientCall
  <2>1. /\ UNCHANGED <<query, phase, V>> /\ Counted /\ phase \in {"apply", "client"}
        /\ phase = "client" => V = << >>
    BY <1>3 DEF Apply, ClientCall, HandedInv, Counted
  <2>2. Counted' /\ ~Asked'
    BY <2>1 DEF Counted, IsSequence, Asked
  <2>3. HandedInv'
    BY <2>1, <2>2 DEF HandedInv, Counted
  <2>4. EndInv'
    BY <2>1, <2>2 DEF EndInv
  <2> QED
    BY <2>3, <2>4
<1>4. CASE Applied
  <2>1. /\ UNCHANGED <<query, V, CurrentModel, found>> /\ Counted /\ V = << >> /\ CurrentModel = Nil
        /\ phase = "apply"
    BY <1>4 DEF Applied, ApplyInv, Fresh, HandedInv, Counted, solverVars
  <2>2. found' = << >>
    BY <2>1 DEF SearchInv
  <2>3. phase' \in {"ask", "client", "deref"}
    BY <1>4 DEF Applied
  <2>4. query.method = "getNConfigs" => 0 < query.n
    BY <2>1, RequestIs DEF RequestInv
  <2>5. Counted' /\ ~Asked' /\ Len(V') = 0
    BY <2>1, <2>3, EmptyIsSequence DEF Counted, IsSequence, Asked
  <2>6. HandedInv'
    BY <2>1, <2>2, <2>3, <2>4, <2>5 DEF HandedInv, Counted
  <2>7. EndInv'
    BY <2>3, <2>5 DEF EndInv
  <2> QED
    BY <2>6, <2>7
<1>5. CASE Deref
  BY <1>5, DerefKeepsHanded
<1>6. CASE Advance
  BY <1>6, AdvanceKeepsHanded
<1>7. CASE AskIfValid
  BY <1>7, AskKeepsHanded
<1> QED
  BY <1>1, <1>2, <1>3, <1>4, <1>5, <1>6, <1>7 DEF FactoryNext

-------------------------------------------------------------------------------
(* The invariant *)

\* The invariant holds in the initial states.
LEMMA InitOK ==
  ASSUME FactoryInit
  PROVE  FactoryInv
<1>1. /\ \E request \in Requests : fm = request.model /\ query = request.query
      /\ Options = << >> /\ System = Assignments(Declared) /\ CurrentModel = Nil /\ found = << >>
      /\ reply = Reply("none") /\ phase = "start" /\ V = << >>
  BY DEF FactoryInit, SolverInit
<1>2. RequestInv
  BY <1>1 DEF RequestInv
<1>3. reply.code # "never" /\ ~reply.valid /\ DOMAIN Options = {} /\ DOMAIN found = {}
  BY <1>1, EmptyIsSequence DEF Reply
<1>4. SearchInv
  BY <1>1, <1>3, EmptyIsSequence DEF SearchInv, NoConfigurationTwice
<1>5. OptionsOf(0)
  BY <1>3 DEF OptionsOf
<1>6. StartInv /\ ApplyInv /\ ModelInv
  BY <1>1, <1>3, <1>5 DEF StartInv, ApplyInv, ModelInv, Asked, Fresh
<1>7. TreeInv
  BY <1>1, <1>3 DEF TreeInv
<1>8. HandedInv
  BY <1>1, EmptyIsSequence, FS_EmptySet DEF HandedInv, Asked
<1>9. EndInv
  BY <1>1 DEF EndInv, Asked
<1> QED
  BY <1>2, <1>4, <1>6, <1>7, <1>8, <1>9 DEF FactoryInv

\* Every step keeps the invariant.
LEMMA NextOK ==
  ASSUME FactoryInv, [FactoryNext]_vars
  PROVE  FactoryInv'
BY RequestKept, SearchKept, ApplyKept, ModelKept, TreeKept, HandedKept DEF FactoryInv

\* The inductive invariant of the factory and its solver.
THEOREM FactoryInvariant == FactorySpec => []FactoryInv
<1>1. FactoryInit => FactoryInv
  BY InitOK
<1>2. FactoryInv /\ [FactoryNext]_vars => FactoryInv'
  BY NextOK
<1> QED
  BY <1>1, <1>2, PTL DEF FactorySpec

\* The options of the solver follow the tree: a feature is one only after its parent,
\* and the factory is refused none of them, although it looks at no reply.
THEOREM OptionsFollowTheTreeHolds == FactorySpec => []OptionsFollowTheTree
<1>1. FactoryInv => OptionsFollowTheTree
  <2> SUFFICES ASSUME FactoryInv
               PROVE  OptionsFollowTheTree
    OBVIOUS
  <2>1. phase \in {"ask", "deref", "advance"} => NamesOf(fm.features) \subseteq DOMAIN Options
    BY AllAreOptions, RequestIs DEF FactoryInv, ModelInv, ModelIsIn
  <2>2. phase \in {"ask", "deref", "advance", "client"} => NamesOf(fm.features) \subseteq DOMAIN Options
    BY <2>1 DEF FactoryInv, TreeInv
  <2> QED
    BY <2>2 DEF FactoryInv, TreeInv, OptionsFollowTheTree, NamesOf, Features
<1> QED
  BY <1>1, FactoryInvariant, PTL

\* No solver finds a configuration twice, whatever its client adds in between.
THEOREM NoConfigurationTwiceHolds == FactorySpec => []NoConfigurationTwice
<1>1. FactoryInv => NoConfigurationTwice
  BY DEF FactoryInv, SearchInv
<1> QED
  BY <1>1, FactoryInvariant, PTL

\* The solutions of the solver, where it holds the model, are what the model allows.
LEMMA LeftToFind ==
  ASSUME FactoryInv, phase \in {"ask", "deref", "advance"} \/ Asked
  PROVE  /\ ToSet(found) \subseteq Valid[fm]
         /\ System = {} <=> ToSet(found) = Valid[fm]
<1>1. ModelIsIn /\ query.method # "solver" /\ RequestInv
  BY DEF FactoryInv, ModelInv, RequestInv, Asked
<1>2. Configurations = Valid[fm]
  BY <1>1, ConfigurationsAreValid DEF ModelIsIn
<1>3. ToSet(found) \subseteq Configurations /\ System = {m \in Solutions : ConfigurationOf(m) \notin ToSet(found)}
  BY <1>1 DEF ModelIsIn
<1>4. System = {} <=> \A m \in Solutions : ConfigurationOf(m) \in ToSet(found)
  BY <1>3
<1>5. System = {} <=> Configurations \subseteq ToSet(found)
  BY <1>4 DEF Configurations
<1> QED
  BY <1>2, <1>3, <1>5

\* Nothing is handed out that was not found.
LEMMA HandedWasFound ==
  ASSUME FactoryInv
  PROVE  \/ V = << >>
         \/ (phase \in {"deref", "advance"} \/ Asked) /\ ToSet(V) \subseteq ToSet(found)
<1>1. CASE phase \in {"start", "apply", "ask", "client"}
  BY <1>1 DEF FactoryInv, StartInv, ApplyInv, Fresh, HandedInv
<1>2. CASE phase = "deref"
  <2>1. /\ Len(V) \in Nat /\ Len(found) \in Nat
        /\ ToSet(found) = {found[i] : i \in 1 .. Len(found)}
    BY SequenceHas DEF FactoryInv, SearchInv, HandedInv
  <2>2. V = << >> \/ (Len(found) = Len(V) + 1 /\ ToSet(V) = {found[i] : i \in 1 .. Len(V)})
    BY <1>2 DEF FactoryInv, HandedInv
  <2>3. Len(found) = Len(V) + 1 => 1 .. Len(V) \subseteq 1 .. Len(found)
    BY <2>1
  <2> QED
    BY <1>2, <2>1, <2>2, <2>3
<1>3. CASE phase = "advance"
  BY <1>3 DEF FactoryInv, HandedInv
<1>4. CASE phase = "done"
  <2>1. CASE Asked
    BY <1>4, <2>1 DEF FactoryInv, HandedInv, EndInv
  <2>2. CASE ~Asked
    <3>1. V = << >>
      BY <1>4, <2>2 DEF FactoryInv, EndInv, Asked
    <3> QED
      BY <3>1
  <2> QED
    BY <2>1, <2>2
<1> QED
  BY <1>1, <1>2, <1>3, <1>4 DEF FactoryInv, RequestInv

\* Only valid configurations are handed out, and at the end all that were asked for.
LEMMA GivesTheValid == FactoryInv => HandsOutTheValid
<1> SUFFICES ASSUME FactoryInv
             PROVE  HandsOutTheValid
  OBVIOUS
<1>1. phase = "done" /\ query.method = "getAllConfigs" =>
        /\ Asked /\ ToSet(V) = ToSet(found) /\ System = {}
        /\ outcome = IF found = << >> THEN "UNSAT" ELSE "OK"
  BY DEF FactoryInv, HandedInv, EndInv, Asked
<1>2. found = << >> <=> ToSet(found) = {}
  BY SequenceHas DEF FactoryInv, SearchInv
<1>3. phase = "done" /\ query.method = "getAllConfigs" =>
        IF Valid[fm] = {} THEN outcome = "UNSAT" ELSE outcome = "OK" /\ ToSet(V) = Valid[fm]
  BY <1>1, <1>2, LeftToFind
<1>4. ToSet(V) \subseteq Valid[fm]
  BY HandedWasFound, EmptyIsSequence, LeftToFind
<1> QED
  BY <1>3, <1>4 DEF HandsOutTheValid

\* What getAllConfigs and getNConfigs hand out are valid configurations of the model, and
\* getAllConfigs hands out all of them, or ends with UNSAT exactly when there are none.
THEOREM HandsOutTheValidHolds == FactorySpec => []HandsOutTheValid
  BY GivesTheValid, FactoryInvariant, PTL

\* hasValidConfigurations tells isValid whether the model has a configuration, and it
\* claims validity only before the first one was excluded.
THEOREM AnswersBeforeTheSearchHolds == FactorySpec => []AnswersBeforeTheSearch
<1>1. FactoryInv => AnswersBeforeTheSearch
  <2> SUFFICES ASSUME FactoryInv
               PROVE  AnswersBeforeTheSearch
    OBVIOUS
  <2>1. reply.valid => found = << >>
    BY DEF FactoryInv, SearchInv
  <2>2. ASSUME phase = "done", query.method = "isValid"
        PROVE  reply.code = "OK" /\ reply.valid = (Valid[fm] # {})
    <3>1. Asked
      BY <2>2 DEF Asked
    <3>2. found = << >> /\ reply.code = "OK" /\ reply.valid = (System # {})
      BY <2>2, <3>1 DEF FactoryInv, EndInv
    <3>3. System = {} <=> Valid[fm] = {}
      BY <3>1, <3>2, LeftToFind, EmptyIsSequence
    <3> QED
      BY <3>2, <3>3
  <2> QED
    BY <2>1, <2>2 DEF AnswersBeforeTheSearch
<1> QED
  BY <1>1, FactoryInvariant, PTL

-------------------------------------------------------------------------------
(* ConfigurationEnumeration *)

\* There are finitely many functions between finite sets: each is its graph.
LEMMA FunctionsAreFinite ==
  ASSUME NEW A, NEW B, IsFiniteSet(A), IsFiniteSet(B)
  PROVE  IsFiniteSet([A -> B])
<1> DEFINE Graph == [f \in [A -> B] |-> {p \in A \X B : p[2] = f[p[1]]}]
<1>1. IsFiniteSet(SUBSET (A \X B))
  <2>1. IsFiniteSet(A \X B)
    BY FS_Product
  <2> QED
    BY <2>1, FS_SUBSET
<1>2. Graph \in [[A -> B] -> SUBSET (A \X B)]
  OBVIOUS
<1>3. ASSUME NEW f \in [A -> B], NEW g \in [A -> B], Graph[f] = Graph[g]
      PROVE  f = g
  <2>1. ASSUME NEW a \in A
        PROVE  f[a] = g[a]
    <3>1. <<a, f[a]>> \in A \X B
      OBVIOUS
    <3>2. <<a, f[a]>> \in Graph[f]
      BY <3>1
    <3>3. <<a, f[a]>> \in Graph[g]
      BY <3>2, <1>3
    <3> QED
      BY <3>3
  <2> QED
    BY <2>1
<1> HIDE DEF Graph
<1>4. Graph \in Injection([A -> B], SUBSET (A \X B))
  BY <1>2, <1>3 DEF Injection, IsInjective
<1> QED
  BY <1>1, <1>4, FS_Injection

\* There are finitely many valid configurations.
LEMMA ValidIsFinite ==
  ASSUME RequestInv
  PROVE  IsFiniteSet(Valid[fm])
<1> DEFINE numeric == Named(fm, {"NUMERIC"})
           options == Named(fm, {"ROOT", "BINARY", "NUMERIC"})
           binary == Named(fm, {"ROOT", "BINARY"})
           numbers == {NumberText(v) : v \in Numbers}
           texts == (numbers \cup {"true"}) \cup {"false"}
<1>1. WellPosed(fm) /\ fm \in {request.model : request \in Requests}
  BY RequestIs DEF RequestInv
<1>2. options \subseteq Names
  <2>1. \A f \in ToSet(fm.features) : f.name \in Names
    BY <1>1, FeatureIs DEF ToSet
  <2> QED
    BY <2>1 DEF Named, Features
<1>3. IsFiniteSet(options)
  BY <1>2, SolverAssumption, FS_Subset
<1>4. IsFiniteSet(texts)
  <2> DEFINE Text == [v \in Numbers |-> NumberText(v)]
  <2>1. Text \in Surjection(Numbers, numbers)
    BY DEF Surjection
  <2>2. IsFiniteSet(numbers)
    BY <2>1, FS_Surjection, SolverAssumption
  <2> HIDE DEF numbers
  <2> QED
    BY <2>2, FS_AddElement
<1>5. IsFiniteSet([options -> texts])
  <2> HIDE DEF options, texts
  <2> QED
    BY <1>3, <1>4, FunctionsAreFinite
<1>6. ASSUME NEW s \in [on : SUBSET binary, value : [numeric -> Numbers]], NEW o \in options
      PROVE  OptionText(o, IF o \in numeric THEN "Int" ELSE "Bool", s) \in texts
  BY DEF OptionText
<1>7. ValidConfigurations(fm) \subseteq [options -> texts]
  <2> HIDE DEF texts
  <2> QED
    BY <1>6 DEF ValidConfigurations
<1>8. Valid[fm] = ValidConfigurations(fm)
  BY <1>1 DEF Valid
<1> QED
  BY <1>5, <1>7, <1>8, FS_Subset

\* How many configurations are asked for, and whether the search for them comes to an end.
Limit ==
  CASE query.method = "getAllConfigs" -> Cardinality(Valid[fm])
    [] query.method = "getNConfigs" -> query.n
    [] OTHER -> 0
ComesToAnEnd == RangesEnd(fm) /\ query.method # "solver"

\* The question is the same for the enumeration.
LEMMA QuestionStays ==
  ASSUME UNCHANGED <<fm, query>>
  PROVE  UNCHANGED <<Valid[fm], Limit, ComesToAnEnd>>
  BY DEF Limit, ComesToAnEnd, RangesEnd, Features

\* A step of the factory that hands out a configuration.
LEMMA Gives ==
  ASSUME UNCHANGED <<fm, query>>, phase # "done", Len(V) < Limit,
         NEW c \in Valid[fm] \ ToSet(V), ToSet(V') = ToSet(V) \cup {c}, Len(V') = Len(V) + 1,
         phase' = "done" => Len(V') = Limit
  PROVE  Enumeration!Next
<1>1. UNCHANGED <<Valid[fm], Limit, ComesToAnEnd>>
  BY QuestionStays
<1>2. ToSet(V)' = ToSet(V')
  BY DEF ToSet
<1>3. Enumeration!Give
  BY <1>1, <1>2 DEF Enumeration!Give, Limit, ComesToAnEnd
<1> QED
  BY <1>3 DEF Enumeration!Next

\* A step of the factory that ends the loop.
LEMMA Finishes ==
  ASSUME UNCHANGED <<fm, query, V>>, phase # "done", phase' = "done",
         ToSet(V) = Valid[fm] \/ Len(V) = Limit
  PROVE  Enumeration!Next
<1>1. UNCHANGED <<Valid[fm], Limit, ComesToAnEnd>>
  BY QuestionStays
<1>2. UNCHANGED ToSet(V)
  BY DEF ToSet
<1>3. Enumeration!Finish
  BY <1>1, <1>2 DEF Enumeration!Finish, Limit, ComesToAnEnd
<1> QED
  BY <1>3 DEF Enumeration!Next

\* Every other step.
LEMMA GoesOn ==
  ASSUME UNCHANGED <<fm, query, V>>, (phase = "done") = (phase' = "done")
  PROVE  UNCHANGED Enumeration!vars
<1>1. UNCHANGED <<Valid[fm], Limit, ComesToAnEnd>>
  BY QuestionStays
<1>2. UNCHANGED ToSet(V)
  BY DEF ToSet
<1> QED
  BY <1>1, <1>2 DEF Enumeration!vars, Limit, ComesToAnEnd

\* The loop of getAllConfigs or getNConfigs has not handed out what is asked for.
LEMMA MoreAreAskedFor ==
  ASSUME FactoryInv, phase = "deref", NEW c \in Valid[fm] \ ToSet(V)
  PROVE  Len(V) < Limit
<1>1. CASE query.method = "getAllConfigs"
  <2>1. IsFiniteSet(Valid[fm]) /\ ToSet(V) \subseteq Valid[fm] /\ ToSet(V) # Valid[fm]
    BY GivesTheValid, ValidIsFinite DEF FactoryInv, HandsOutTheValid
  <2>2. Cardinality(ToSet(V)) <= Cardinality(Valid[fm]) /\ Cardinality(ToSet(V)) # Cardinality(Valid[fm])
    BY <2>1, FS_Subset
  <2>3. Cardinality(ToSet(V)) \in Nat /\ Cardinality(Valid[fm]) \in Nat
    BY <2>1, FS_Subset, FS_CardinalityType
  <2>4. Cardinality(ToSet(V)) = Len(V)
    BY DEF FactoryInv, HandedInv
  <2> QED
    BY <1>1, <2>2, <2>3, <2>4 DEF Limit
<1>2. CASE query.method = "getNConfigs"
  BY <1>2 DEF Limit, FactoryInv, HandedInv
<1> QED
  BY <1>1, <1>2 DEF FactoryInv, RequestInv

\* Reading the iterator is a step of the enumeration or none.
LEMMA DerefImplements ==
  ASSUME FactoryInv, HandsOutTheValid', Deref
  PROVE  Enumeration!Next \/ UNCHANGED Enumeration!vars
<1>1. /\ SearchInv /\ ModelInv /\ HandedInv /\ Counted
      /\ phase = "deref" /\ query.method \in {"getAllConfigs", "getNConfigs"}
  BY DEF FactoryInv, RequestInv, Deref, HandedInv, Counted
<1>2. UNCHANGED <<fm, query>>
  BY DEF Deref
<1>3. CASE /\ reply'.code = "UNSAT" /\ System = {} /\ System' = {}
           /\ found = << >> /\ found' = << >> /\ V = << >>
  <2>1. UNCHANGED V /\ (IF query.method = "getAllConfigs" THEN phase' = "done" ELSE phase' = "advance")
    BY <1>3 DEF Deref, EndAs
  <2>2. CASE query.method = "getAllConfigs"
    <3>1. ToSet(V) = Valid[fm]
      BY <1>1, <1>3, LeftToFind
    <3> QED
      BY <1>1, <1>2, <2>1, <2>2, <3>1, Finishes
  <2>3. CASE query.method # "getAllConfigs"
    BY <1>1, <1>2, <2>1, <2>3, GoesOn
  <2> QED
    BY <2>2, <2>3
<1>4. ASSUME NEW c, StandsAt(c)
      PROVE  Enumeration!Next
  <2>1. reply'.code = "OK" /\ reply'.configuration = c /\ c \notin ToSet(V)
    BY <1>4 DEF StandsAt
  <2>2. /\ V' = Append(V, c) \/ V' = <<c>> \o V
        /\ phase' = "done" => query.method = "getNConfigs" /\ Len(V') = query.n
    BY <2>1, <1>1 DEF Deref, EndAs
  <2>3. Len(V') = Len(V) + 1 /\ ToSet(V') = ToSet(V) \cup {c}
    BY <1>1, <2>1, <2>2, HandedOver
  <2>4. c \in Valid[fm]
    <3>1. ToSet(V)' \subseteq Valid[fm]'
      BY DEF HandsOutTheValid
    <3> QED
      BY <1>2, <2>3, <3>1 DEF ToSet
  <2>5. Len(V) < Limit
    BY <1>1, <2>1, <2>4, MoreAreAskedFor
  <2>6. phase' = "done" => Len(V') = Limit
    BY <2>2 DEF Limit
  <2> QED
    BY <1>1, <1>2, <2>1, <2>3, <2>4, <2>5, <2>6, Gives
<1> QED
  BY <1>1, <1>3, <1>4, DerefStands

\* So is advancing it.
LEMMA AdvanceImplements ==
  ASSUME FactoryInv, Advance
  PROVE  Enumeration!Next \/ UNCHANGED Enumeration!vars
<1>1. UNCHANGED <<fm, query, V>> /\ phase = "advance" /\ GetNextConfiguration /\ SearchInv
  BY DEF Advance, FactoryInv
<1>2. CASE reply'.code = "OK"
  <2>1. phase' = "deref"
    BY <1>2 DEF Advance
  <2> QED
    BY <1>1, <2>1, GoesOn
<1>3. CASE reply'.code # "OK"
  <2>1. phase' = "done" /\ System = {}
    BY <1>1, <1>3, NextFinds DEF Advance, EndAs
  <2>2. ToSet(V) = Valid[fm]
    BY <1>1, <2>1, LeftToFind DEF FactoryInv, HandedInv
  <2> QED
    BY <1>1, <2>1, <2>2, Finishes
<1> QED
  BY <1>2, <1>3

\* Every step of the factory is one of the enumeration, or a stutter.
LEMMA StepImplements ==
  ASSUME FactoryInv, HandsOutTheValid', [FactoryNext]_vars
  PROVE  [Enumeration!Next]_(Enumeration!vars)
<1>1. CASE Start
  <2>1. UNCHANGED <<fm, query, V>> /\ phase = "start" /\ V = << >>
    BY <1>1 DEF Start, FactoryInv, StartInv, Fresh
  <2>2. CASE query.method = "getNConfigs" /\ query.n = 0
    <3>1. phase' = "done" /\ Len(V) = Limit
      BY <1>1, <2>1, <2>2, EmptyIsSequence DEF Start, Limit
    <3> QED
      BY <2>1, <3>1, Finishes
  <2>3. CASE ~(query.method = "getNConfigs" /\ query.n = 0)
    <3>1. phase' = "apply"
      BY <1>1, <2>3 DEF Start
    <3> QED
      BY <2>1, <3>1, GoesOn
  <2> QED
    BY <2>2, <2>3
<1>2. CASE Apply
  BY <1>2, GoesOn DEF Apply
<1>3. CASE Applied
  <2>1. UNCHANGED <<fm, query, V>> /\ phase = "apply" /\ phase' \in {"ask", "client", "deref"}
    BY <1>3 DEF Applied
  <2> QED
    BY <2>1, GoesOn
<1>4. CASE Deref
  BY <1>4, DerefImplements
<1>5. CASE Advance
  BY <1>5, AdvanceImplements
<1>6. CASE AskIfValid
  <2>1. UNCHANGED <<fm, query, V>> /\ phase = "ask" /\ phase' = "done"
    BY <1>6 DEF AskIfValid, EndAs
  <2>2. query.method = "isValid" /\ V = << >>
    BY <2>1 DEF FactoryInv, RequestInv, HandedInv
  <2>3. Len(V) = Limit
    BY <2>2, EmptyIsSequence DEF Limit
  <2> QED
    BY <2>1, <2>3, Finishes
<1>7. CASE ClientCall
  BY <1>7, GoesOn DEF ClientCall
<1>8. CASE UNCHANGED vars
  BY <1>8, GoesOn DEF vars, factoryVars
<1> QED
  BY <1>1, <1>2, <1>3, <1>4, <1>5, <1>6, <1>7, <1>8 DEF FactoryNext, Stop

\* Every step of the factory gives a caller one more valid configuration, ends because
\* there is no other or because there are as many as were asked for, or is none of the
\* caller's business.
THEOREM FactoryEnumerates ==
  FactorySpec => Enumeration!Init /\ [][Enumeration!Next]_(Enumeration!vars)
<1>1. FactoryInit => Enumeration!Init
  BY EmptyIsSequence DEF FactoryInit, Enumeration!Init
<1>2. FactoryInv /\ HandsOutTheValid' /\ [FactoryNext]_vars => [Enumeration!Next]_(Enumeration!vars)
  BY StepImplements
<1> QED
  BY <1>1, <1>2, GivesTheValid, FactoryInvariant, PTL DEF FactorySpec

===============================================================================
