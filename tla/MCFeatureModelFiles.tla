--------------------------- MODULE MCFeatureModelFiles ---------------------------
(***************************************************************************)
(* A small instance of FeatureModelFiles: a root and three features, all   *)
(* their trees, the claims on them, SXFM files of up to five lines, and    *)
(* identifiers of which one begins another one.                            *)
(***************************************************************************)
EXTENDS FeatureModelFiles

Root == <<"r", "o", "o", "t">>
Base == <<"b", "a", "s", "e">>
A == <<"A">>
B == <<"B">>
C == <<"C">>
D == <<"D">>
E == <<"E">>

X == <<"x">>
XY == <<"x", "y">>
Y == <<"y">>

\* A name that holds an identifier, and one that holds none.
AX == <<"A", "x">>

MCGroupName == << <<"g", "1">>, <<"g", "2">>, <<"g", "3">>, <<"g", "4">>, <<"g", "5">> >>

\* The names in lower case are in the order of the list.
MCNames == <<A, AX, B, Base, C, D, E>> \o MCGroupName \o <<Root, X, XY, Y>>
MCRank == [n \in ToSet(MCNames) |-> CHOOSE i \in DOMAIN MCNames : MCNames[i] = n]

MCRootNames == {Root, Base}

-------------------------------------------------------------------------------
(* Models *)

F(n) == PrimaryFeatureConstraint(n)
Bin(kind, a, b) == BinaryConstraint(kind, F(a), F(b))

Binary(optional) == [kind |-> "binary", optional |-> optional, values |-> Nil, locations |-> << >>]
Numeric(range, numbers) ==
  [kind |-> "numeric", optional |-> FALSE, values |-> [range |-> range, numbers |-> numbers], locations |-> << >>]

\* A place with a member offset or a revision range, which are not written.
Place(member, revision) ==
  [path |-> "main", start |-> 1, end |-> 2, category |-> "inessential", member |-> member, revision |-> revision]

Located(data) ==
  [data EXCEPT !.locations = <<Place(Nil, Nil), Place("Class::member", "range")>>]

\* Values that fit an int, values that do not, and the last one that does not.
DataOfC ==
  { Binary(FALSE), Located(Binary(TRUE)), Numeric(TRUE, <<0, 5>>), Numeric(FALSE, <<1, 2>>),
    Numeric(FALSE, <<MaxInt + 1, 2>>), Located(Numeric(FALSE, <<2, MaxInt + 1>>)) }

ParentsOf ==
  {p \in [ {A, B, C} -> {Root, A, B, C} ] :
     \A S \in SUBSET {A, B, C} : S # {} => \E n \in S : p[n] \notin S}

Groups == [kind : {"ALTERNATIVE", "OR"}, parent : {Root, A}, members : SUBSET {A, B, C} \ {{}}]

NoSaying == [boolean |-> << >>, nonBoolean |-> << >>, mixed |-> << >>]

Mixed(tree, kind) == [tree |-> tree, req |-> "none", exprKind |-> kind]

\* Exclusions one way and both ways, implications, one of them twice, what is written as a
\* formula, what the lexer does not know, and a formula beside the ones of the features.
Sayings ==
  { NoSaying,
    [NoSaying EXCEPT !.boolean = <<Bin("EXCLUDES", A, B)>>],
    [NoSaying EXCEPT !.boolean = <<Bin("EXCLUDES", B, A), Bin("IMPLIES", A, C), Bin("EXCLUDES", A, B)>>],
    [NoSaying EXCEPT !.boolean = <<Bin("IMPLIES", C, A), Bin("IMPLIES", C, A), Bin("IMPLIES", A, A)>>],
    [NoSaying EXCEPT !.boolean = <<BinaryConstraint("EXCLUDES", F(A), Bin("AND", B, C)), Bin("OR", A, B)>>],
    [NoSaying EXCEPT !.boolean = <<Bin("XOR", A, B)>>],
    [NoSaying EXCEPT !.nonBoolean =
       <<BinaryConstraint("GREATER_EQUAL", BinaryConstraint("ADDITION", F(C), PrimaryIntegerConstraint(1)),
                          PrimaryIntegerConstraint(3)), Bin("EXCLUDES", A, C)>>],
    [NoSaying EXCEPT !.mixed = <<Mixed(UnaryConstraint("NOT", Bin("EQUIVALENCE", A, B)), "neg"),
                                 Mixed(UnaryConstraint("NEG", F(A)), "pos")>>] }

ModelOf(root, parent, optional, dataOfC, groups, saying) ==
  [ root       |-> root,
    parent     |-> (root :> Nil) @@ [n \in {A, B, C} |-> IF parent[n] = Root THEN root ELSE parent[n]],
    data       |-> (root :> RootData) @@ [n \in {A, B} |-> Binary(n \in optional)] @@ (C :> dataOfC),
    groups     |-> {[g EXCEPT !.parent = IF @ = Root THEN root ELSE @] : g \in groups},
    boolean    |-> saying.boolean,
    nonBoolean |-> saying.nonBoolean,
    mixed      |-> saying.mixed,
    info       |-> [name |-> "m", path |-> "p", commit |-> NoText] ]

Grouped ==
  {ModelOf(Root, p, optional, Binary(FALSE), groups, saying) :
     p \in ParentsOf, optional \in SUBSET {A, B}, groups \in {{}} \cup {{g} : g \in Groups}, saying \in Sayings}

\* Groups of some or all of the features below one, and roots that are read as roots and
\* one that is not.
MCModels ==
  {m \in Grouped : \A g \in m.groups : g.members \subseteq Children(m.parent, g.parent)}
  \cup {ModelOf(root, p, {B}, data, {}, saying) :
          root \in {Root, Base, D}, p \in ParentsOf, data \in DataOfC, saying \in Sayings}

-------------------------------------------------------------------------------
(* XML documents *)

OptionOf(name, parent, children) ==
  [ name |-> name, parent |-> parent, children |-> SetToSeq(children), implied |-> << >>, excluded |-> << >>,
    optional |-> FALSE, values |-> Nil, locations |-> << >> ]

Document(binary, numeric) ==
  [ info |-> [name |-> "m", path |-> Nil, commit |-> "c"], binary |-> binary, numeric |-> numeric,
    boolean |-> << >>, nonBoolean |-> << >>, mixed |-> << >> ]

\* Claims by the parent, by the child, by both, by two parents and in a circle.
Claiming ==
  {Document(IF rootFirst THEN <<OptionOf(root, Nil, r), OptionOf(A, p, a), OptionOf(B, q, b)>>
            ELSE <<OptionOf(B, q, b), OptionOf(A, p, a), OptionOf(root, Nil, r)>>,
            <<OptionOf(C, s, {})>>) :
     rootFirst \in BOOLEAN, root \in {Root, Base}, r \in SUBSET {A, B, C}, a \in SUBSET {B, C},
     b \in SUBSET {A, C}, p \in {Nil, Root, B}, q \in {Nil, Root, A}, s \in {Nil, A, B}}

\* A formula that can be parsed, one that cannot and one about nobody; a place that is no
\* member offset; values beyond what can be read; no option for the root.
Plainly == Document(<<OptionOf(Root, Nil, {A, B}), OptionOf(A, Nil, {}), OptionOf(B, Root, {C})>>, <<OptionOf(C, B, {})>>)

Saying ==
  {[Plainly EXCEPT ![field] = texts] :
     field \in {"boolean", "nonBoolean"},
     texts \in {<<Text(Bin("OR", A, B))>>, <<Text(Bin("AND", C, B)), Text(Bin("IMPLIES", A, B))>>}}
  \cup {[Plainly EXCEPT !.mixed = <<[text |-> Text(Bin("OR", A, B)), req |-> req, exprKind |-> kind]>>] :
          req \in {"all", "none"}, kind \in {"pos", "neg"}}
  \cup {[Plainly EXCEPT !.numeric[1].values = values] :
          values \in {[range |-> FALSE, numbers |-> <<MaxInteger + 1, 1>>], [range |-> TRUE, numbers |-> <<-MaxInteger - 2, 1>>]}}
  \cup {[Plainly EXCEPT !.binary[2].locations =
           <<[path |-> "main", start |-> 1, end |-> 2, member |-> member],
             [path |-> "main", start |-> 3, end |-> 3, category |-> "necessary"]>>] :
          member \in {"Class::member", "member"}}
  \cup {[Plainly EXCEPT !.binary[2].excluded = excluded, !.binary[3].excluded = <<A>>, !.binary[3].optional = optional,
                        !.binary[3].implied = implied] :
          excluded \in {<<>>, <<B>>}, implied \in {<<>>, <<C>>}, optional \in BOOLEAN}

MCXmlFiles == Claiming \cup Saying

-------------------------------------------------------------------------------
(* SXFM files *)

Line(level, marker, name) ==
  [level |-> level, colon |-> TRUE, marker |-> marker, name |-> name, id |-> Nil, cardinality |-> <<1, 1>>]

Several(level, name) == [Line(level, "g", name) EXCEPT !.cardinality = <<1, Wildcard>>]

LinesNamed(name) ==
  {Line(level, "m", name) : level \in 0 .. 3} \cup {Line(level, "g", <<>>) : level \in 1 .. 3}
  \cup {Several(level, name) : level \in 1 .. 3}

Oddities ==
  { Line(2, "o", B), Line(3, " ", B), Line(1, "m", A), Line(1, "x", B), [Line(1, "m", B) EXCEPT !.colon = FALSE],
    [Line(1, "g", B) EXCEPT !.cardinality = <<1, 2>>], [Line(1, "g", B) EXCEPT !.cardinality = <<0, 1>>] }

SxfmOf(lines, formulas) == [name |-> "f", lines |-> lines, formulas |-> formulas]

Indented ==
  {SxfmOf(<<Line(0, "r", Root), a, b, c, d>>, << >>) :
     a \in LinesNamed(A), b \in LinesNamed(B), c \in LinesNamed(C), d \in LinesNamed(D)}
  \cup {SxfmOf(<<Line(1, first, A), Line(2, "m", C), odd>>, << >>) : first \in {"r", "m"}, odd \in Oddities}

WithId(line, id) == [line EXCEPT !.id = id]

Formula(text) == [colon |-> TRUE, text |-> text]

Formulas ==
  { Formula(X), Formula(XY \o <<" ", "o", "r", " ">> \o X), Formula(<<"~">> \o Y \o <<" ", "o", "r", " ">> \o XY),
    Formula(<<"(">> \o X \o <<" ", "a", "n", "d", " ", "~">> \o XY \o <<")", " ", "o", "r", " ">> \o B),
    Formula(Y \o <<" ">> \o X), [Formula(X) EXCEPT !.colon = FALSE] }

\* Identifiers for names, one that is the name and one for a line without a name.
Identifying ==
  {SxfmOf(<<Line(0, "r", Root), WithId(Line(1, "m", name), a), WithId(Line(1, "m", B), b), WithId(Line(1, "g", unnamed), c)>>,
          <<first, second>>) :
     name \in {A, AX}, a \in {X, XY}, b \in {X, XY, B}, unnamed \in {C, <<>>}, c \in {Nil, Y},
     first \in Formulas, second \in Formulas}

MCSxfmFiles == Indented \cup Identifying

-------------------------------------------------------------------------------
(* Step functions *)

Operands == {X, <<"x", "1">>, <<"2">>, <<"1", ".", "2", "5">>, <<".", "5">>, <<"1", ".", "2", ".", "3">>, << >>}
Between == {<<"+">>, <<" ", "*", " ">>, <<"^">>, <<"-">>, <<" ">>}

MCStepTexts == {a \o op \o b : a \in Operands, op \in Between, b \in Operands}
               \cup {a \o <<"+">> \o b \o <<"+">> \o b : a \in Operands, b \in Operands}

===============================================================================
