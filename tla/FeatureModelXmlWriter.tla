-------------------------- MODULE FeatureModelXmlWriter --------------------------
(***************************************************************************)
(* FeatureModelXmlWriter: the document a feature model is written to.  A   *)
(* document is a record of its elements, and an option of the document one *)
(* of its own.  Step functions, output strings, member offsets and         *)
(* revision ranges are not written.                                        *)
(***************************************************************************)
EXTENDS NamedFeatureModel

CONSTANT MaxInt   \* the largest value of an int

\* A value that goes through a variable of type int.
Narrowed(v) == ((v + MaxInt + 1) % (2 * (MaxInt + 1))) - (MaxInt + 1)

\* All values of a list but the last are narrowed.
WriteValues(values) ==
  IF values = Nil \/ values.range THEN values
  ELSE [values EXCEPT !.numbers = [i \in DOMAIN @ |-> IF i < Len(@) THEN Narrowed(@[i]) ELSE @[i]]]

\* The start and the end are read without a look at whether they are there.
WriteSourceRange(l) == [path |-> l.path, start |-> l.start, end |-> l.end, category |-> l.category]

Siblings(m, f) == UNION {g.members : g \in {h \in m.groups : f \in h.members}} \ {f}

\* Mutant: the members of a group do not exclude each other.
ExcludesOnly(m, f) == Ordered(m.parent, SetToSeq(ToSet(Partners(m, "EXCLUDES", f))))

\* What f excludes: the other members of its group, whatever the kind of the group, and
\* then what its constraints say of others.
Excludes(m, f) ==
  FoldLeft(LAMBDA v, x : IF x \in ToSet(v) THEN v ELSE Inserted(m.parent, v, x),
           Ordered(m.parent, SetToSeq(Siblings(m, f))), Partners(m, "EXCLUDES", f))

WriteFeature(m, f) ==
  [ name      |-> f,
    parent    |-> m.parent[f],
    children  |-> Ordered(m.parent, SetToSeq(Children(m.parent, f))),
    implied   |-> Ordered(m.parent, Partners(m, "IMPLIES", f)),
    excluded  |-> Excludes(m, f),
    optional  |-> m.data[f].optional,
    values    |-> WriteValues(m.data[f].values),
    locations |-> [i \in DOMAIN m.data[f].locations |-> WriteSourceRange(m.data[f].locations[i])] ]

WriteFeatures(m, kinds) ==
  LET written == SelectSeq(DepthFirst(m.parent, m.root), LAMBDA f : m.data[f].kind \in kinds)
  IN  [i \in DOMAIN written |-> WriteFeature(m, written[i])]

Texts(trees) == [i \in DOMAIN trees |-> Text(trees[i])]

\* What is said by an option already is left out.
WriteBooleanConstraints(m) ==
  Texts(SelectSeq(m.boolean, LAMBDA c : ~Plain("IMPLIES", c) /\ ~Plain("EXCLUDES", c)))

WriteMixedConstraints(m) ==
  [i \in DOMAIN m.mixed |-> [text |-> Text(m.mixed[i].tree), req |-> m.mixed[i].req, exprKind |-> m.mixed[i].exprKind]]

\* An empty commit is not written.
WriteFeatureModel(m) ==
  [ info       |-> [m.info EXCEPT !.commit = IF @ = NoText THEN Nil ELSE @],
    binary     |-> WriteFeatures(m, {"root", "binary"}),
    numeric    |-> WriteFeatures(m, {"numeric"}),
    boolean    |-> WriteBooleanConstraints(m),
    nonBoolean |-> Texts(m.nonBoolean),
    mixed      |-> WriteMixedConstraints(m) ]

===============================================================================
